----------------------------- MODULE CacheProofs -----------------------------
(***************************************************************************)
(* Proofs about the prompt cache, for every set of prompts, block size,    *)
(* hash and setting.                                                       *)
(***************************************************************************)
EXTENDS PromptCacheProps, SeqLemmas, FiniteSetTheorems

(***************************************************************************)
(* What ElementsAt keeps of a sequence.                                    *)
(***************************************************************************)
\* g collects, position by position, the elements of s at P.
Collects(g, s, P) ==
  g[0] = << >> /\ \A n \in 1..Len(s) : g[n] = IF n \in P THEN Append(g[n - 1], s[n]) ELSE g[n - 1]

LEMMA ElementsAtRecursion ==
  ASSUME NEW S, NEW s \in Seq(S), NEW P
  PROVE  \E g \in [0..Len(s) -> Seq(S)] : Collects(g, s, P) /\ ElementsAt(s, P) = g[Len(s)]
<1>1. PICK N \in Nat : N = Len(s) OBVIOUS
<1>2. PICK V : V = Seq(S) OBVIOUS
<1>3. PICK step : step = [n \in 1..N |-> [v \in V |-> IF n \in P THEN Append(v, s[n]) ELSE v]] OBVIOUS
<1>a. ASSUME NEW n \in 1..N, NEW v \in V PROVE Append(v, s[n]) \in V
  BY <1>1, <1>2
<1>b. PICK b : b = << >> OBVIOUS
<1>3b. step \in [1..N -> [V -> V]]
  BY <1>3, <1>a
<1>4. b \in V BY <1>2, <1>b
<1>5. PICK f \in [0..N -> V] : f[0] = b /\ \A n \in 1..N : f[n] = step[n][f[n - 1]]
  BY <1>4, <1>3b, RecursionHasSolution
<1>c. \A n \in 1..N : n \in 0..N /\ n - 1 \in 0..N /\ n # 0 OBVIOUS
<1>6. ASSUME NEW n \in 1..N PROVE f[n] = IF n \in P THEN Append(f[n - 1], s[n]) ELSE f[n - 1]
  <2>1. f[n - 1] \in V BY <1>c, <1>5
  <2> QED BY <1>3, <1>5, <2>1
<1>d. \A n \in 0..N : n = 0 \/ n \in 1..N OBVIOUS
<1>7. f = [n \in 0..N |-> IF n = 0 THEN << >>
                          ELSE IF n \in P THEN Append(f[n - 1], s[n]) ELSE f[n - 1]]
  <2>1. \A n \in 0..N : f[n] = IF n = 0 THEN << >>
                          ELSE IF n \in P THEN Append(f[n - 1], s[n]) ELSE f[n - 1]
    BY <1>5, <1>6, <1>b, <1>c, <1>d
  <2>2. f = [n \in 0..N |-> f[n]] BY <1>5
  <2> QED BY <2>1, <2>2, Zenon
<1>8. PICK h : /\ h = [n \in 0..N |-> IF n = 0 THEN << >>
                          ELSE IF n \in P THEN Append(h[n - 1], s[n]) ELSE h[n - 1]]
               /\ ElementsAt(s, P) = h[N]
  BY <1>1, <1>7 DEF ElementsAt
<1>9. h[0] = << >> /\ \A n \in 1..N : h[n] = IF n \in P THEN Append(h[n - 1], s[n]) ELSE h[n - 1]
  <2>1. \A n \in 0..N : h[n] = IF n = 0 THEN << >>
                          ELSE IF n \in P THEN Append(h[n - 1], s[n]) ELSE h[n - 1]
    BY <1>8, Zenon
  <2>2. 0 \in 0..N OBVIOUS
  <2>3. h[0] = << >> BY <2>1, <2>2, Zenon
  <2>4. ASSUME NEW n \in 1..N PROVE h[n] = IF n \in P THEN Append(h[n - 1], s[n]) ELSE h[n - 1]
    <3>1. n \in 0..N /\ n # 0 BY <1>c
    <3> QED BY <2>1, <3>1, Zenon
  <2> QED BY <2>3, <2>4
<1>10. \A n \in 0..N : h[n] \in V
  <2>1. PICK T : T = {n \in 0..N : h[n] \in V} OBVIOUS
  <2>2. 0 \in T BY <1>4, <1>b, <1>9, <2>1
  <2>3. ASSUME NEW n \in 1..N, n - 1 \in T PROVE n \in T
    <3>1. h[n - 1] \in V BY <2>1, <2>3
    <3>2. h[n] \in V BY <1>9, <1>a, <3>1
    <3> QED BY <2>1, <1>c, <3>2
  <2>4. \A n \in 0..N : n \in T BY <2>2, <2>3, BoundedInduction
  <2> QED BY <2>1, <2>4
<1>11. h \in [0..N -> V]
  BY <1>8, <1>10
<1>12. Collects(h, s, P) BY <1>1, <1>9 DEF Collects
<1> QED BY <1>1, <1>2, <1>8, <1>11, <1>12

\* p says where in s the elements of t stand: they are those at P, in order.
Embeds(p, t, s, P) ==
  /\ p \in [1..Len(t) -> P]
  /\ \A i, j \in 1..Len(t) : i < j => p[i] < p[j]
  /\ \A i \in 1..Len(t) : t[i] = s[p[i]]
  /\ \A k \in P : \E i \in 1..Len(t) : p[i] = k

LEMMA EmbedsNothing ==
  ASSUME NEW s, NEW P, P = {}
  PROVE  \E p : Embeds(p, << >>, s, P)
<1>1. PICK p : p = [i \in 1..0 |-> 0] OBVIOUS
<1>2. p \in [1..0 -> P] /\ 1..0 = {} BY <1>1
<1>3. Len(<< >>) = 0 OBVIOUS
<1>4. Embeds(p, << >>, s, P) BY <1>2, <1>3 DEF Embeds
<1> QED BY <1>4

LEMMA EmbedsOneMore ==
  ASSUME NEW S, NEW c \in Seq(S), NEW s, NEW P \in SUBSET Nat, NEW p, Embeds(p, c, s, P),
         NEW n \in Nat, \A k \in P : k < n, s[n] \in S
  PROVE  \E q : Embeds(q, Append(c, s[n]), s, P \cup {n})
<1>1. PICK m \in Nat : m = Len(c) OBVIOUS
<1>2. PICK d : d = Append(c, s[n]) OBVIOUS
<1>3. Len(d) = m + 1 /\ d[m + 1] = s[n] /\ \A i \in 1..m : d[i] = c[i]
  BY <1>1, <1>2
<1>4. PICK q : q = [i \in 1..(m + 1) |-> IF i = m + 1 THEN n ELSE p[i]] OBVIOUS
<1>5. /\ p \in [1..m -> P]
      /\ \A i, j \in 1..m : i < j => p[i] < p[j]
      /\ \A i \in 1..m : c[i] = s[p[i]]
      /\ \A k \in P : \E i \in 1..m : p[i] = k
  BY <1>1 DEF Embeds
<1>6. q[m + 1] = n /\ \A i \in 1..m : q[i] = p[i]
  BY <1>4
<1>7. \A i \in 1..(m + 1) : i = m + 1 \/ i \in 1..m OBVIOUS
<1>8. m + 1 \in 1..(m + 1) /\ \A i \in 1..m : i \in 1..(m + 1) OBVIOUS
<1>9. q \in [1..(m + 1) -> P \cup {n}] BY <1>4, <1>5
<1>10. \A i \in 1..(m + 1) : d[i] = s[q[i]]
  BY <1>3, <1>5, <1>6, <1>7
<1>11. \A i, j \in 1..(m + 1) : i < j => q[i] < q[j]
  <2>1. ASSUME NEW i \in 1..m, NEW j \in 1..m, i < j PROVE q[i] < q[j]
    BY <1>5, <1>6, <2>1
  <2>2. ASSUME NEW i \in 1..m PROVE q[i] < q[m + 1]
    BY <1>5, <1>6
  <2>3. \A i \in 1..(m + 1) : ~ (m + 1 < i) OBVIOUS
  <2> QED BY <1>7, <2>1, <2>2, <2>3
<1>12. \A k \in P \cup {n} : \E i \in 1..(m + 1) : q[i] = k
  BY <1>5, <1>6, <1>8
<1>13. Embeds(q, d, s, P \cup {n})
  BY <1>3, <1>9, <1>10, <1>11, <1>12 DEF Embeds
<1> QED BY <1>2, <1>13

LEMMA ElementsAtPositions ==
  ASSUME NEW S, NEW s \in Seq(S), NEW P \in SUBSET (1..Len(s))
  PROVE  ElementsAt(s, P) \in Seq(S) /\ \E p : Embeds(p, ElementsAt(s, P), s, P)
<1>1. PICK N \in Nat : N = Len(s) OBVIOUS
<1>2. PICK g \in [0..N -> Seq(S)] : Collects(g, s, P) /\ ElementsAt(s, P) = g[N]
  BY <1>1, ElementsAtRecursion
<1>3. /\ g[0] = << >>
      /\ \A n \in 1..N : g[n] = IF n \in P THEN Append(g[n - 1], s[n]) ELSE g[n - 1]
  BY <1>1, <1>2 DEF Collects
<1>4. \A n \in 1..N : n \in 0..N /\ n - 1 \in 0..N /\ n # 0 OBVIOUS
<1>5. PICK T : T = {n \in 0..N : \E p : Embeds(p, g[n], s, P \cap 1..n)}
  OBVIOUS
<1>6. 0 \in T
  <2>1. P \cap 1..0 = {} OBVIOUS
  <2>2. \E p : Embeds(p, << >>, s, P \cap 1..0) BY <2>1, EmbedsNothing
  <2> QED BY <1>3, <1>5, <2>2
<1>7. ASSUME NEW n \in 1..N, n - 1 \in T PROVE n \in T
  <2>1. g[n - 1] \in Seq(S) BY <1>2, <1>4
  <2>2. PICK c \in Seq(S) : c = g[n - 1] BY <2>1
  <2>3. PICK p : Embeds(p, c, s, P \cap 1..(n - 1)) BY <1>5, <1>7, <2>2
  <2>4. CASE n \in P
    <3>1. g[n] = Append(c, s[n]) BY <1>3, <2>2, <2>4
    <3>2. P \cap 1..n = (P \cap 1..(n - 1)) \cup {n} BY <2>4
    <3>3. s[n] \in S BY <1>1
    <3>4. PICK Q : Q = P \cap 1..(n - 1) OBVIOUS
    <3>4a. Q \in SUBSET Nat BY <3>4
    <3>5. \A k \in Q : k < n BY <3>4
    <3>6. n \in Nat /\ Embeds(p, c, s, Q) BY <2>3, <3>4
    <3>7. \E q : Embeds(q, Append(c, s[n]), s, Q \cup {n})
      BY <3>3, <3>4a, <3>5, <3>6, EmbedsOneMore
    <3> QED BY <1>4, <1>5, <3>1, <3>2, <3>4, <3>7
  <2>5. CASE n \notin P
    <3>1. g[n] = c BY <1>3, <2>2, <2>5
    <3>2. P \cap 1..n = P \cap 1..(n - 1)
      <4>1. ASSUME NEW k \in P, k \in 1..n PROVE k \in 1..(n - 1) BY <2>5, <4>1
      <4>2. ASSUME NEW k \in P, k \in 1..(n - 1) PROVE k \in 1..n BY <4>2
      <4> QED BY <4>1, <4>2
    <3> QED BY <1>4, <1>5, <2>3, <3>1, <3>2
  <2> QED BY <2>4, <2>5
<1>8. \A n \in 0..N : n \in T
  BY <1>6, <1>7, BoundedInduction
<1>9. N \in 0..N OBVIOUS
<1>10. P \cap 1..N = P BY <1>1
<1>11. \E p : Embeds(p, g[N], s, P) BY <1>5, <1>8, <1>9, <1>10
<1>12. g[N] \in Seq(S) BY <1>2, <1>9
<1> QED BY <1>2, <1>11, <1>12

LEMMA InRange ==
  ASSUME NEW s PROVE \A i \in DOMAIN s : s[i] \in Range(s)
BY DEF Range

LEMMA OfRange ==
  ASSUME NEW s PROVE \A x \in Range(s) : \E i \in DOMAIN s : x = s[i]
BY DEF Range

LEMMA ElementInRange ==
  ASSUME NEW S, NEW s \in Seq(S) PROVE \A i \in 1..Len(s) : s[i] \in Range(s)
<1>1. DOMAIN s = 1..Len(s) OBVIOUS
<1> QED BY <1>1, InRange

LEMMA ElementOfRange ==
  ASSUME NEW S, NEW s \in Seq(S) PROVE \A x \in Range(s) : \E i \in 1..Len(s) : x = s[i]
<1>1. DOMAIN s = 1..Len(s) OBVIOUS
<1> QED BY <1>1, OfRange

LEMMA RangeOfElementsAt ==
  ASSUME NEW S, NEW s \in Seq(S), NEW P \in SUBSET (1..Len(s))
  PROVE  ElementsAt(s, P) \in Seq(S) /\ Range(ElementsAt(s, P)) = {s[i] : i \in P}
<1>1. PICK t : t = ElementsAt(s, P) OBVIOUS
<1>2. t \in Seq(S) BY <1>1, ElementsAtPositions
<1>3. PICK p : Embeds(p, t, s, P) BY <1>1, ElementsAtPositions
<1>4. \A x \in Range(t) : \E i \in 1..Len(t) : x = t[i] BY <1>2, ElementOfRange
<1>5. \A i \in 1..Len(t) : t[i] \in Range(t) BY <1>2, ElementInRange
<1>6. \A i \in 1..Len(t) : p[i] \in P /\ t[i] = s[p[i]] BY <1>3 DEF Embeds
<1>7. \A k \in P : \E i \in 1..Len(t) : p[i] = k BY <1>3 DEF Embeds
<1>8. ASSUME NEW x \in Range(t) PROVE \E k \in P : x = s[k]
  BY <1>4, <1>6
<1>9. ASSUME NEW k \in P PROVE s[k] \in Range(t)
  <2>1. PICK i \in 1..Len(t) : p[i] = k BY <1>7
  <2> QED BY <1>5, <1>6, <2>1
<1>10. Range(t) = {s[k] : k \in P} BY <1>8, <1>9
<1> QED BY <1>1, <1>2, <1>10
-----------------------------------------------------------------------------
(***************************************************************************)
(* What a list of keys adds up to.                                         *)
(***************************************************************************)
\* f adds the sizes of keys up.
Totals(f, keys) ==
  /\ f \in [0..Len(keys) -> Nat]
  /\ f[0] = 0
  /\ \A n \in 1..Len(keys) : f[n] = f[n - 1] + Size(keys[n])

LEMMA TotalSizeRecursion ==
  ASSUME NEW K, \A k \in K : Size(k) \in Nat, NEW s \in Seq(K)
  PROVE  \E f : Totals(f, s) /\ TotalSize(s) = f[Len(s)]
<1>1. PICK N \in Nat : N = Len(s) OBVIOUS
<1>2. PICK V : V = Nat OBVIOUS
<1>3. PICK step : step = [n \in 1..N |-> [v \in V |-> v + Size(s[n])]] OBVIOUS
<1>a. \A n \in 1..N : Size(s[n]) \in Nat BY <1>1
<1>b. PICK b : b = 0 OBVIOUS
<1>3b. step \in [1..N -> [V -> V]]
  BY <1>2, <1>3, <1>a
<1>4. b \in V BY <1>2, <1>b
<1>5. PICK f \in [0..N -> V] : f[0] = b /\ \A n \in 1..N : f[n] = step[n][f[n - 1]]
  BY <1>4, <1>3b, RecursionHasSolution
<1>c. \A n \in 1..N : n \in 0..N /\ n - 1 \in 0..N /\ n # 0 OBVIOUS
<1>6. ASSUME NEW n \in 1..N PROVE f[n] = f[n - 1] + Size(s[n])
  <2>1. f[n - 1] \in V BY <1>c, <1>5
  <2> QED BY <1>3, <1>5, <2>1
<1>d. \A n \in 0..N : n = 0 \/ n \in 1..N OBVIOUS
<1>7. f = [n \in 0..N |-> IF n = 0 THEN 0 ELSE f[n - 1] + Size(s[n])]
  <2>1. \A n \in 0..N : f[n] = IF n = 0 THEN 0 ELSE f[n - 1] + Size(s[n])
    BY <1>5, <1>6, <1>b, <1>c, <1>d
  <2>2. f = [n \in 0..N |-> f[n]] BY <1>5
  <2> QED BY <2>1, <2>2, Zenon
<1>8. PICK h : /\ h = [n \in 0..N |-> IF n = 0 THEN 0 ELSE h[n - 1] + Size(s[n])]
               /\ TotalSize(s) = h[N]
  BY <1>1, <1>7 DEF TotalSize
<1>9. h[0] = 0 /\ \A n \in 1..N : h[n] = h[n - 1] + Size(s[n])
  <2>1. \A n \in 0..N : h[n] = IF n = 0 THEN 0 ELSE h[n - 1] + Size(s[n])
    BY <1>8, Zenon
  <2>2. 0 \in 0..N OBVIOUS
  <2>3. h[0] = 0 BY <2>1, <2>2, Zenon
  <2>4. ASSUME NEW n \in 1..N PROVE h[n] = h[n - 1] + Size(s[n])
    <3>1. n \in 0..N /\ n # 0 BY <1>c
    <3> QED BY <2>1, <3>1, Zenon
  <2> QED BY <2>3, <2>4
<1>10. \A n \in 0..N : h[n] \in Nat
  <2>1. PICK T : T = {n \in 0..N : h[n] \in Nat} OBVIOUS
  <2>2. 0 \in T BY <1>9, <2>1
  <2>3. ASSUME NEW n \in 1..N, n - 1 \in T PROVE n \in T
    <3>1. h[n - 1] \in Nat BY <2>1, <2>3
    <3>2. h[n] \in Nat BY <1>9, <1>a, <3>1
    <3> QED BY <2>1, <1>c, <3>2
  <2>4. \A n \in 0..N : n \in T BY <2>2, <2>3, BoundedInduction
  <2> QED BY <2>1, <2>4
<1>11. h \in [0..N -> Nat]
  BY <1>8, <1>10
<1>12. Totals(h, s) BY <1>1, <1>9, <1>11 DEF Totals
<1> QED BY <1>1, <1>8, <1>12

LEMMA TotalSizeEmpty == TotalSize(<< >>) = 0
<1>1. PICK K : K = {} OBVIOUS
<1>2. << >> \in Seq(K) /\ Len(<< >>) = 0 OBVIOUS
<1>3. \A k \in K : Size(k) \in Nat BY <1>1
<1>4. PICK f : Totals(f, << >>) /\ TotalSize(<< >>) = f[Len(<< >>)]
  BY <1>2, <1>3, TotalSizeRecursion
<1> QED BY <1>2, <1>4 DEF Totals

LEMMA TotalSizeType ==
  ASSUME NEW K, \A k \in K : Size(k) \in Nat, NEW s \in Seq(K)
  PROVE  TotalSize(s) \in Nat
<1>1. PICK f : Totals(f, s) /\ TotalSize(s) = f[Len(s)]
  BY TotalSizeRecursion
<1>2. Len(s) \in 0..Len(s) OBVIOUS
<1> QED BY <1>1, <1>2 DEF Totals

LEMMA TotalSizeAppend ==
  ASSUME NEW K, \A k \in K : Size(k) \in Nat, NEW s \in Seq(K), NEW k \in K
  PROVE  TotalSize(Append(s, k)) = TotalSize(s) + Size(k)
<1>1. PICK f : Totals(f, s) /\ TotalSize(s) = f[Len(s)]
  BY TotalSizeRecursion
<1>2. PICK t : t = Append(s, k) OBVIOUS
<1>2a. t \in Seq(K) BY <1>2
<1>3. PICK g : Totals(g, t) /\ TotalSize(t) = g[Len(t)]
  BY <1>2a, TotalSizeRecursion
<1>4. PICK N \in Nat : N = Len(s) OBVIOUS
<1>5. Len(t) = N + 1 /\ t[N + 1] = k /\ \A i \in 1..N : t[i] = s[i] BY <1>2, <1>2a, <1>4
<1>6. /\ f[0] = 0 /\ \A n \in 1..N : f[n] = f[n - 1] + Size(s[n])
      /\ g[0] = 0 /\ \A n \in 1..(N + 1) : g[n] = g[n - 1] + Size(t[n])
  BY <1>1, <1>3, <1>4, <1>5 DEF Totals
<1>7. PICK T : T = {n \in 0..N : f[n] = g[n]} OBVIOUS
<1>8. 0 \in T BY <1>6, <1>7
<1>9. ASSUME NEW n \in 1..N, n - 1 \in T PROVE n \in T
  <2>1. n \in 1..(N + 1) /\ n \in 0..N OBVIOUS
  <2>2. g[n] = g[n - 1] + Size(s[n]) BY <1>5, <1>6, <2>1
  <2>3. f[n - 1] = g[n - 1] BY <1>7, <1>9
  <2> QED BY <1>6, <1>7, <2>1, <2>2, <2>3
<1>10. \A n \in 0..N : n \in T BY <1>8, <1>9, BoundedInduction
<1>11. f[N] = g[N] BY <1>7, <1>10
<1>12. N + 1 \in 1..(N + 1) /\ (N + 1) - 1 = N OBVIOUS
<1>13. g[N + 1] = g[N] + Size(k) BY <1>5, <1>6, <1>12
<1> QED BY <1>1, <1>2, <1>3, <1>4, <1>5, <1>11, <1>13

\* What is left when the element at i is taken out.
LEMMA RemoveAtElements ==
  ASSUME NEW K, NEW s \in Seq(K), NEW i \in 1..Len(s)
  PROVE  /\ RemoveAt(s, i) \in Seq(K) /\ Len(RemoveAt(s, i)) = Len(s) - 1
         /\ \A n \in 1..(Len(s) - 1) : RemoveAt(s, i)[n] = IF n < i THEN s[n] ELSE s[n + 1]
<1>1. PICK a : a = SubSeq(s, 1, i - 1) OBVIOUS
<1>2. PICK b : b = SubSeq(s, i + 1, Len(s)) OBVIOUS
<1>3. a \in Seq(K) /\ Len(a) = i - 1 /\ \A n \in 1..(i - 1) : a[n] = s[n] BY <1>1
<1>4. b \in Seq(K) /\ Len(b) = Len(s) - i /\ \A n \in 1..(Len(s) - i) : b[n] = s[n + i] BY <1>2
<1>5. RemoveAt(s, i) = a \o b BY <1>1, <1>2 DEF RemoveAt
<1>c. a \o b \in Seq(K) /\ Len(a \o b) = Len(a) + Len(b)
  BY <1>3, <1>4, ConcatType
<1>6. a \o b \in Seq(K) /\ Len(a \o b) = Len(s) - 1
  <2>1. \A x, l \in Nat : x \in 1..l => (x - 1) + (l - x) = l - 1 OBVIOUS
  <2> QED BY <1>c, <1>3, <1>4, <2>1
<1>7. ASSUME NEW n \in 1..(Len(s) - 1) PROVE (a \o b)[n] = IF n < i THEN s[n] ELSE s[n + 1]
  <2>1. CASE n < i
    BY <1>3, <1>4, <2>1
  <2>2. CASE ~ (n < i)
    <3>1. n - (i - 1) \in 1..(Len(s) - i) /\ (n - (i - 1)) + i = n + 1 BY <2>2
    <3>2. (a \o b)[n] = b[n - Len(a)] BY <1>3, <1>4, <2>2
    <3> QED BY <1>3, <1>4, <2>2, <3>1, <3>2
  <2> QED BY <2>1, <2>2
<1> QED BY <1>5, <1>6, <1>7

LEMMA TotalSizeRemoveAt ==
  ASSUME NEW K, \A k \in K : Size(k) \in Nat, NEW s \in Seq(K), NEW i \in 1..Len(s)
  PROVE  TotalSize(RemoveAt(s, i)) = TotalSize(s) - Size(s[i])
<1>1. PICK f : Totals(f, s) /\ TotalSize(s) = f[Len(s)]
  BY TotalSizeRecursion
<1>2. PICK t : t = RemoveAt(s, i) OBVIOUS
<1>3. PICK N \in Nat : N = Len(s) OBVIOUS
<1>4. /\ t \in Seq(K) /\ Len(t) = N - 1
      /\ \A n \in 1..(N - 1) : t[n] = IF n < i THEN s[n] ELSE s[n + 1]
  BY <1>2, <1>3, RemoveAtElements
<1>5. PICK g : Totals(g, t) /\ TotalSize(t) = g[Len(t)]
  BY <1>4, TotalSizeRecursion
<1>6. /\ f \in [0..N -> Nat] /\ f[0] = 0 /\ \A n \in 1..N : f[n] = f[n - 1] + Size(s[n])
      /\ g[0] = 0 /\ \A n \in 1..(N - 1) : g[n] = g[n - 1] + Size(t[n])
  BY <1>1, <1>3, <1>4, <1>5 DEF Totals
<1>7. PICK T : T = {n \in 0..(N - 1) : g[n] = IF n < i THEN f[n] ELSE f[n + 1] - Size(s[i])} OBVIOUS
<1>n. N - 1 \in Nat /\ i \in 1..N BY <1>3
<1>s. \A n \in 1..N : Size(s[n]) \in Nat BY <1>3
<1>8. 0 \in T BY <1>6, <1>7, <1>n
<1>9. ASSUME NEW n \in 1..(N - 1), n - 1 \in T PROVE n \in T
  <2>0. n \in 0..(N - 1) /\ n \in 1..N /\ n + 1 \in 1..N /\ n - 1 \in 0..N /\ n \in 0..N /\ n + 1 \in 0..N /\ (n + 1) - 1 = n /\ (n - 1) + 1 = n
    BY <1>n
  <2>1. g[n - 1] = IF n - 1 < i THEN f[n - 1] ELSE f[n] - Size(s[i]) BY <1>7, <1>9, <2>0
  <2>2. g[n] = g[n - 1] + Size(t[n]) BY <1>6
  <2>3. f[n] = f[n - 1] + Size(s[n]) /\ f[n + 1] = f[n] + Size(s[n + 1]) BY <1>6, <2>0
  <2>4. f[n - 1] \in Nat /\ f[n] \in Nat /\ f[n + 1] \in Nat BY <1>6, <2>0
  <2>5. Size(s[n]) \in Nat /\ Size(s[n + 1]) \in Nat /\ Size(s[i]) \in Nat BY <1>s, <1>n, <2>0
  <2>6. CASE n < i
    <3>1. t[n] = s[n] /\ n - 1 < i BY <1>4, <2>6
    <3> QED BY <1>7, <2>0, <2>1, <2>2, <2>3, <2>6, <3>1
  <2>7. CASE n = i
    <3>1. t[n] = s[n + 1] /\ n - 1 < i /\ ~ (n < i) BY <1>4, <2>7
    <3>2. g[n] = f[n - 1] + Size(s[n + 1]) BY <2>1, <2>2, <3>1
    <3>3. g[n] = f[n + 1] - Size(s[i]) BY <2>3, <2>4, <2>5, <2>7, <3>2
    <3> QED BY <1>7, <2>0, <3>1, <3>3
  <2>8. CASE n > i
    <3>1. t[n] = s[n + 1] /\ ~ (n - 1 < i) /\ ~ (n < i) BY <1>4, <1>n, <2>8
    <3>2. g[n] = (f[n] - Size(s[i])) + Size(s[n + 1]) BY <2>1, <2>2, <3>1
    <3>3. g[n] = f[n + 1] - Size(s[i]) BY <2>3, <2>4, <2>5, <3>2
    <3> QED BY <1>7, <2>0, <3>1, <3>3
  <2> QED BY <1>n, <2>6, <2>7, <2>8
<1>10. \A n \in 0..(N - 1) : n \in T BY <1>n, <1>8, <1>9, BoundedInduction
<1>11. g[N - 1] = IF N - 1 < i THEN f[N - 1] ELSE f[N] - Size(s[i])
  <2>1. N - 1 \in 0..(N - 1) /\ (N - 1) + 1 = N BY <1>n
  <2> QED BY <1>7, <1>10, <2>1
<1>12. f[N] = f[N - 1] + Size(s[N]) /\ f[N - 1] \in Nat /\ f[N] \in Nat
  <2>1. N \in 1..N /\ N - 1 \in 0..N /\ N \in 0..N BY <1>n
  <2> QED BY <1>6, <2>1
<1>13. g[N - 1] = f[N] - Size(s[i])
  <2>1. CASE N - 1 < i
    <3>1. N = i BY <1>n, <2>1
    <3>2. Size(s[N]) \in Nat BY <1>s, <1>n, <3>1
    <3> QED BY <1>11, <1>12, <2>1, <3>1, <3>2
  <2>2. CASE ~ (N - 1 < i) BY <1>11, <2>2
  <2> QED BY <2>1, <2>2
<1> QED BY <1>1, <1>2, <1>3, <1>4, <1>5, <1>13

LEMMA RemoveFirstIsRemoveAt ==
  ASSUME NEW K, NEW s \in Seq(K), NEW k \in Range(s)
  PROVE  \E i \in 1..Len(s) : s[i] = k /\ RemoveFirst(s, k) = RemoveAt(s, i)
<1>1. PICK I : I = {i \in 1..Len(s) : s[i] = k} OBVIOUS
<1>2. I # {} /\ I \subseteq Nat BY <1>1 DEF Range
<1>3. Min(I) \in I BY <1>2, LeastNat DEF Min
<1>4. RemoveFirst(s, k) = RemoveAt(s, Min(I))
  <2>1. SelectInSeq(s, LAMBDA v : v = k) = Min(I) BY <1>1, <1>2 DEF SelectInSeq
  <2>2. \E i \in 1..Len(s) : s[i] = k BY <1>1, <1>2
  <2> QED BY <2>1, <2>2 DEF RemoveFirst
<1> QED BY <1>1, <1>3, <1>4

\* What taking the first occurrence of a key out of a list leaves.
LEMMA RemoveFirstFacts ==
  ASSUME NEW K, \A k \in K : Size(k) \in Nat, NEW s \in Seq(K), NEW k \in Range(s)
  PROVE  /\ RemoveFirst(s, k) \in Seq(K)
         /\ TotalSize(RemoveFirst(s, k)) = TotalSize(s) - Size(k)
         /\ Range(RemoveFirst(s, k)) \subseteq Range(s)
         /\ Range(s) \subseteq Range(RemoveFirst(s, k)) \cup {k}
<1>1. PICK i \in 1..Len(s) : s[i] = k /\ RemoveFirst(s, k) = RemoveAt(s, i)
  BY RemoveFirstIsRemoveAt
<1>2. PICK t : t = RemoveAt(s, i) OBVIOUS
<1>3. PICK N \in Nat : N = Len(s) OBVIOUS
<1>4. /\ t \in Seq(K) /\ Len(t) = N - 1
      /\ \A n \in 1..(N - 1) : t[n] = IF n < i THEN s[n] ELSE s[n + 1]
  BY <1>2, <1>3, RemoveAtElements
<1>5. TotalSize(t) = TotalSize(s) - Size(s[i])
  BY <1>2, TotalSizeRemoveAt
<1>n. N - 1 \in Nat BY <1>3
<1>6a. \A x \in Range(t) : \E n \in 1..(N - 1) : x = t[n]
  <2>1. \A x \in Range(t) : \E n \in 1..Len(t) : x = t[n] BY <1>4, ElementOfRange
  <2> QED BY <1>4, <2>1
<1>6b. \A n \in 1..(N - 1) : t[n] \in Range(t)
  <2>1. \A n \in 1..Len(t) : t[n] \in Range(t) BY <1>4, ElementInRange
  <2> QED BY <1>4, <2>1
<1>6c. \A x \in Range(s) : \E n \in 1..N : x = s[n] BY <1>3, ElementOfRange
<1>6d. \A n \in 1..N : s[n] \in Range(s) BY <1>3, ElementInRange
<1>7. ASSUME NEW n \in 1..(N - 1) PROVE t[n] \in Range(s)
  <2>1. n \in 1..N /\ n + 1 \in 1..N OBVIOUS
  <2> QED BY <1>4, <1>6d, <2>1
<1>8. ASSUME NEW n \in 1..N, n # i PROVE s[n] \in Range(t)
  <2>1. CASE n < i
    <3>1. n \in 1..(N - 1) BY <1>3, <2>1
    <3>2. t[n] = s[n] BY <1>4, <2>1, <3>1
    <3> QED BY <1>6b, <3>1, <3>2
  <2>2. CASE ~ (n < i)
    <3>1. n - 1 \in 1..(N - 1) /\ ~ (n - 1 < i) /\ (n - 1) + 1 = n BY <1>3, <1>8, <2>2
    <3>2. t[n - 1] = s[n] BY <1>4, <3>1
    <3> QED BY <1>6b, <3>1, <3>2
  <2> QED BY <2>1, <2>2
<1>9. Range(t) \subseteq Range(s) BY <1>6a, <1>7
<1>10. Range(s) \subseteq Range(t) \cup {k} BY <1>1, <1>6c, <1>8
<1> QED BY <1>1, <1>2, <1>4, <1>5, <1>9, <1>10

Distinct(s) == \A i, j \in 1..Len(s) : s[i] = s[j] => i = j

\* A list without repetitions adds up to no more than one that has all its keys.
LEMMA TotalSizeMonotone ==
  ASSUME NEW K, \A k \in K : Size(k) \in Nat
  PROVE  \A s, t \in Seq(K) : Distinct(s) /\ Range(s) \subseteq Range(t) => TotalSize(s) <= TotalSize(t)
<1>1. PICK T : T = {n \in Nat : \A s, t \in Seq(K) :
                       Len(s) = n /\ Distinct(s) /\ Range(s) \subseteq Range(t) => TotalSize(s) <= TotalSize(t)}
  OBVIOUS
<1>2. 0 \in T
  <2>1. ASSUME NEW s \in Seq(K), NEW t \in Seq(K), Len(s) = 0 PROVE TotalSize(s) <= TotalSize(t)
    <3>1. s = << >> BY <2>1
    <3>2. TotalSize(t) \in Nat BY TotalSizeType
    <3> QED BY <3>1, <3>2, TotalSizeEmpty
  <2> QED BY <1>1, <2>1
<1>3. ASSUME NEW n \in Nat, n \in T PROVE n + 1 \in T
  <2>1. ASSUME NEW s \in Seq(K), NEW t \in Seq(K), Len(s) = n + 1, Distinct(s), Range(s) \subseteq Range(t)
        PROVE  TotalSize(s) <= TotalSize(t)
    <3>1. PICK k : k = s[n + 1] OBVIOUS
    <3>2. n + 1 \in 1..Len(s) BY <2>1
    <3>3. k \in K /\ k \in Range(s) BY <3>1, <3>2 DEF Range
    <3>4. PICK r : r = SubSeq(s, 1, n) OBVIOUS
    <3>5. r \in Seq(K) /\ Len(r) = n /\ \A i \in 1..n : r[i] = s[i]
      <4>1. n \in 0..Len(s) BY <2>1
      <4> QED BY <3>4, <4>1, PrefixType
    <3>6. Append(r, k) = s
      <4>1. Append(r, k) \in Seq(K) /\ Len(Append(r, k)) = n + 1 BY <3>3, <3>5
      <4>2. ASSUME NEW i \in 1..(n + 1) PROVE Append(r, k)[i] = s[i]
        BY <3>1, <3>3, <3>5
      <4> QED BY <2>1, <4>1, <4>2, SeqEqual
    <3>7. TotalSize(s) = TotalSize(r) + Size(k)
      BY <3>3, <3>5, <3>6, TotalSizeAppend
    <3>8. k \in Range(t) BY <2>1, <3>3
    <3>9. PICK u : u = RemoveFirst(t, k) OBVIOUS
    <3>10. u \in Seq(K) /\ TotalSize(u) = TotalSize(t) - Size(k) /\ Range(t) \subseteq Range(u) \cup {k}
      BY <3>8, <3>9, RemoveFirstFacts
    <3>11. ASSUME NEW i \in 1..n PROVE r[i] \in Range(s) /\ r[i] # k
      <4>1. i \in 1..Len(s) /\ i # n + 1 BY <2>1
      <4>2. s[i] \in Range(s) BY <4>1 DEF Range
      <4> QED BY <2>1, <3>1, <3>2, <3>5, <4>1, <4>2 DEF Distinct
    <3>12. \A x \in Range(r) : \E i \in 1..n : x = r[i]
      <4>1. \A x \in Range(r) : \E i \in 1..Len(r) : x = r[i] BY <3>5, ElementOfRange
      <4> QED BY <3>5, <4>1
    <3>13. Range(r) \subseteq Range(u) BY <2>1, <3>10, <3>11, <3>12
    <3>14. Distinct(r)
      <4>1. \A i \in 1..n : i \in 1..Len(s) BY <2>1
      <4> QED BY <2>1, <3>5, <4>1 DEF Distinct
    <3>15. TotalSize(r) <= TotalSize(u) BY <1>1, <1>3, <3>5, <3>10, <3>13, <3>14
    <3>16. TotalSize(r) \in Nat /\ TotalSize(t) \in Nat /\ Size(k) \in Nat BY <3>3, <3>5, TotalSizeType
    <3> QED BY <3>7, <3>10, <3>15, <3>16
  <2> QED BY <1>1, <2>1
<1>4. \A n \in Nat : n \in T
  BY <1>2, <1>3, SetInduction
<1>5. \A s \in Seq(K) : Len(s) \in Nat OBVIOUS
<1> QED BY <1>1, <1>4, <1>5
-----------------------------------------------------------------------------
(***************************************************************************)
(* The values the variables take.                                          *)
(***************************************************************************)
File == [key : Keys, tokens : Cacheable \cup {NoImage}, temporary : BOOLEAN]

DirectoryType == files \in Seq(File) /\ index \in Seq(Keys) /\ foreign \in Nat

WriterType ==
  /\ channel = << >> \/ \E tokens \in Cacheable : channel = <<tokens>>
  /\ writer \in {"idle", "write", "fill", "publish", "insert", "inserted", "evict", "land"}
  /\ image \in Cacheable \cup {NoImage}
  /\ writer \in {"write", "fill", "publish", "insert", "inserted", "land"} => image # NoImage
  /\ writer = "idle" => image = NoImage

\* The prefix a lookup is trying is one of its prompt's boundaries.
Probing == \E b \in Boundaries(Len(prompt)) : probe = Prefix(prompt, b)

RequestType ==
  /\ reader \in {"idle", "probe", "header", "state", "discard", "forget", "touch", "stamp",
                 "answered", "store", "send", "skip"}
  /\ reader # "idle" => prompt \in Prompt /\ left \subseteq Boundaries(Len(prompt))
  /\ reader \in {"header", "state", "discard", "forget", "touch", "stamp"} => Probing
  /\ found \in Cacheable \cup {NoImage}
  /\ reader \in {"store", "send", "skip"} => found # NoImage

TypeInv == setting \in Settings /\ DirectoryType /\ WriterType /\ RequestType

\* What is cached is a sequence of tokens, and its key says how long it is.
LEMMA CacheableFacts ==
  ASSUME NEW t \in Cacheable
  PROVE  t \in Seq(Nat) /\ t # NoImage /\ KeyOf(t) \in Keys /\ Size(KeyOf(t)) = Len(t)
<1>1. PICK p \in Prompt : \E b \in Boundaries(Len(p)) : t = Prefix(p, b)
  BY DEF Cacheable
<1>1b. PICK b \in Boundaries(Len(p)) : t = Prefix(p, b) BY <1>1
<1>2. p \in Seq(Nat) BY CacheAssumption
<1>3. b \in 0..Len(p) BY <1>2 DEF Boundaries
<1>4. t \in Seq(Nat) BY <1>1b, <1>2, <1>3, PrefixType DEF Prefix
<1>5. t # NoImage BY NoImageAssumption
<1> QED BY <1>4, <1>5 DEF Keys, KeyOf, Size

LEMMA KeyFacts ==
  /\ \A k \in Keys : Size(k) \in Nat
  /\ NoImage \notin Keys
<1>1. ASSUME NEW k \in Keys PROVE Size(k) \in Nat
  <2>1. PICK t \in Cacheable : k = KeyOf(t) BY DEF Keys
  <2>2. t \in Seq(Nat) /\ Size(k) = Len(t) BY <2>1, CacheableFacts
  <2> QED BY <2>2
<1> QED BY <1>1, NoImageAssumption

LEMMA BoundaryFacts ==
  ASSUME NEW p \in Prompt, NEW b \in Boundaries(Len(p))
  PROVE  /\ Prefix(p, b) \in Cacheable /\ Len(Prefix(p, b)) = b
         /\ p \in Seq(Nat) /\ b \in 1..(Len(p) - 1)
<1>1. p \in Seq(Nat) BY CacheAssumption
<1>2. b \in 1..(Len(p) - 1) BY DEF Boundaries
<1>3. b \in 0..Len(p) BY <1>1, <1>2
<1>4. Len(Prefix(p, b)) = b BY <1>1, <1>3, PrefixType DEF Prefix
<1> QED BY <1>1, <1>2, <1>4 DEF Cacheable

LEMMA ProbeFacts ==
  ASSUME TypeInv, Probing, reader # "idle"
  PROVE  probe \in Cacheable /\ KeyOf(probe) \in Keys
<1>1. PICK b \in Boundaries(Len(prompt)) : probe = Prefix(prompt, b) BY DEF Probing
<1>2. prompt \in Prompt BY DEF TypeInv, RequestType
<1>3. probe \in Cacheable BY <1>1, <1>2, BoundaryFacts
<1> QED BY <1>3, CacheableFacts

\* The largest of a set of boundaries is one of them.
LEMMA MaxIsMember ==
  ASSUME NEW n \in Nat, NEW T \in SUBSET Boundaries(n), T # {}
  PROVE  Max(T) \in T
<1>1. T \subseteq 1..(n - 1) BY DEF Boundaries
<1>2. PICK U : U = {m \in Nat : \A x \in T : x <= m} OBVIOUS
<1>3. \A x \in T : x \in Nat /\ x <= n
  BY <1>1
<1>4. U # {} /\ U \subseteq Nat
  BY <1>2, <1>3
<1>5. PICK m \in U : \A y \in U : m <= y BY <1>4, LeastNat
<1>6. m \in T
  <2> SUFFICES ASSUME m \notin T PROVE FALSE OBVIOUS
  <2>1. PICK y \in T : TRUE OBVIOUS
  <2>2. m \in Nat /\ m >= y /\ m # y /\ y \in Nat BY <1>2, <1>3, <2>1
  <2>3. m - 1 \in Nat BY <2>2
  <2>4. \A x \in T : x <= m - 1 BY <1>2, <1>3, <2>2
  <2>5. m - 1 \in U BY <1>2, <2>3, <2>4
  <2> QED BY <1>5, <2>2, <2>5
<1>7. \A y \in T : m >= y BY <1>2, <1>3
<1> QED BY <1>6, <1>7 DEF Max

(***************************************************************************)
(* What the operations on the directory leave of it, as a set of files.    *)
(***************************************************************************)
LEMMA WithoutFacts ==
  ASSUME files \in Seq(File), NEW P \in SUBSET DOMAIN files
  PROVE  Without(P) \in Seq(File) /\ Range(Without(P)) = {files[i] : i \in DOMAIN files \ P}
<1>1. DOMAIN files \ P \in SUBSET (1..Len(files)) OBVIOUS
<1> QED BY <1>1, RangeOfElementsAt DEF Without

LEMMA WithoutFileFacts ==
  ASSUME files \in Seq(File), NEW k
  PROVE  /\ Without(FileOf(k)) \in Seq(File)
         /\ \A f : f \in Range(Without(FileOf(k))) <=> f \in Range(files) /\ (f.temporary \/ f.key # k)
<1>1. FileOf(k) \in SUBSET DOMAIN files BY DEF FileOf, Complete
<1>2. /\ Without(FileOf(k)) \in Seq(File)
      /\ Range(Without(FileOf(k))) = {files[i] : i \in DOMAIN files \ FileOf(k)}
  BY <1>1, WithoutFacts
<1>3. \A i \in DOMAIN files : i \in FileOf(k) <=> ~files[i].temporary /\ files[i].key = k
  BY DEF FileOf, Complete
<1>4. \A i \in DOMAIN files : files[i] \in Range(files) BY InRange
<1>5. \A f \in Range(files) : \E i \in DOMAIN files : f = files[i] BY OfRange
<1>6. ASSUME NEW f \in Range(Without(FileOf(k)))
      PROVE  f \in Range(files) /\ (f.temporary \/ f.key # k)
  BY <1>2, <1>3, <1>4, <1>6
<1>7. ASSUME NEW f \in Range(files), f.temporary \/ f.key # k
      PROVE  f \in Range(Without(FileOf(k)))
  BY <1>2, <1>3, <1>5, <1>7
<1> QED BY <1>2, <1>6, <1>7

LEMMA WithoutTemporaryFacts ==
  ASSUME files \in Seq(File), NEW k
  PROVE  /\ Without(TemporaryOf(k)) \in Seq(File)
         /\ \A f : f \in Range(Without(TemporaryOf(k))) <=> f \in Range(files) /\ (~f.temporary \/ f.key # k)
<1>1. TemporaryOf(k) \in SUBSET DOMAIN files BY DEF TemporaryOf, Complete
<1>2. /\ Without(TemporaryOf(k)) \in Seq(File)
      /\ Range(Without(TemporaryOf(k))) = {files[i] : i \in DOMAIN files \ TemporaryOf(k)}
  BY <1>1, WithoutFacts
<1>3. \A i \in DOMAIN files : i \in TemporaryOf(k) <=> files[i].temporary /\ files[i].key = k
  <2>1. \A i \in DOMAIN files : files[i] \in File OBVIOUS
  <2>2. \A f \in File : f.temporary \in BOOLEAN BY DEF File
  <2> QED BY <2>1, <2>2 DEF TemporaryOf, Complete
<1>4. \A i \in DOMAIN files : files[i] \in Range(files) BY InRange
<1>5. \A f \in Range(files) : \E i \in DOMAIN files : f = files[i] BY OfRange
<1>6. ASSUME NEW f \in Range(Without(TemporaryOf(k)))
      PROVE  f \in Range(files) /\ (~f.temporary \/ f.key # k)
  BY <1>2, <1>3, <1>4, <1>6
<1>7. ASSUME NEW f \in Range(files), ~f.temporary \/ f.key # k
      PROVE  f \in Range(Without(TemporaryOf(k)))
  BY <1>2, <1>3, <1>5, <1>7
<1> QED BY <1>2, <1>6, <1>7

LEMMA ScannedFacts ==
  ASSUME files \in Seq(File)
  PROVE  /\ Scanned \in Seq(File)
         /\ \A f : f \in Range(Scanned) <=> f \in Range(files) /\ ~f.temporary
<1>1. Complete \in SUBSET (1..Len(files)) BY DEF Complete
<1>2. /\ Scanned \in Seq(File) /\ Range(Scanned) = {files[i] : i \in Complete}
  BY <1>1, RangeOfElementsAt DEF Scanned
<1>4. \A i \in DOMAIN files : files[i] \in Range(files) BY InRange
<1>5. \A f \in Range(files) : \E i \in DOMAIN files : f = files[i] BY OfRange
<1> QED BY <1>2, <1>4, <1>5 DEF Complete

LEMMA RangeOfConcat ==
  ASSUME NEW S, NEW s \in Seq(S), NEW t \in Seq(S)
  PROVE  s \o t \in Seq(S) /\ Range(s \o t) = Range(s) \cup Range(t)
<1>1. PICK u : u = s \o t OBVIOUS
<1>2. u \in Seq(S) /\ Len(u) = Len(s) + Len(t) BY <1>1, ConcatType
<1>3. \A i \in 1..Len(s) : u[i] = s[i] /\ i \in 1..Len(u) BY <1>1, <1>2
<1>4. \A i \in 1..Len(t) : u[i + Len(s)] = t[i] /\ i + Len(s) \in 1..Len(u) BY <1>1, <1>2
<1>5. \A i \in 1..Len(u) : i \in 1..Len(s) \/ i - Len(s) \in 1..Len(t) BY <1>2
<1>6. \A i \in 1..Len(u) : (i - Len(s)) + Len(s) = i BY <1>2
<1>7. \A x \in Range(u) : \E i \in 1..Len(u) : x = u[i] BY <1>2, ElementOfRange
<1>8. \A i \in 1..Len(u) : u[i] \in Range(u) BY <1>2, ElementInRange
<1>9. \A x \in Range(s) : \E i \in 1..Len(s) : x = s[i] BY ElementOfRange
<1>10. \A i \in 1..Len(s) : s[i] \in Range(s) BY ElementInRange
<1>11. \A x \in Range(t) : \E i \in 1..Len(t) : x = t[i] BY ElementOfRange
<1>12. \A i \in 1..Len(t) : t[i] \in Range(t) BY ElementInRange
<1>13. ASSUME NEW x \in Range(u) PROVE x \in Range(s) \cup Range(t)
  <2>1. PICK i \in 1..Len(u) : x = u[i] BY <1>7
  <2>2. CASE i \in 1..Len(s) BY <1>3, <1>10, <2>1, <2>2
  <2>3. CASE i - Len(s) \in 1..Len(t)
    <3>1. u[i] = t[i - Len(s)] BY <1>4, <1>6, <2>3
    <3> QED BY <1>12, <2>1, <2>3, <3>1
  <2> QED BY <1>5, <2>2, <2>3
<1>14. ASSUME NEW x \in Range(s) PROVE x \in Range(u)
  <2>1. PICK i \in 1..Len(s) : x = s[i] BY <1>9
  <2> QED BY <1>3, <1>8, <2>1
<1>15. ASSUME NEW x \in Range(t) PROVE x \in Range(u)
  <2>1. PICK i \in 1..Len(t) : x = t[i] BY <1>11
  <2> QED BY <1>4, <1>8, <2>1
<1> QED BY <1>1, <1>2, <1>13, <1>14, <1>15

LEMMA RangeOfAppend ==
  ASSUME NEW S, NEW s \in Seq(S), NEW x \in S
  PROVE  Append(s, x) \in Seq(S) /\ Range(Append(s, x)) = Range(s) \cup {x}
<1>1. Append(s, x) = s \o <<x>> /\ <<x>> \in Seq(S) BY AppendAsConcat
<1>2. PICK t : t = <<x>> OBVIOUS
<1>3. t \in Seq(S) /\ DOMAIN t = {1} /\ t[1] = x BY <1>2
<1>4. \A i \in DOMAIN t : t[i] \in Range(t) BY InRange
<1>5. \A y \in Range(t) : \E i \in DOMAIN t : y = t[i] BY OfRange
<1>6. Range(t) = {x} BY <1>3, <1>4, <1>5
<1>7. s \o t \in Seq(S) /\ Range(s \o t) = Range(s) \cup Range(t) BY <1>3, RangeOfConcat
<1> QED BY <1>1, <1>2, <1>6, <1>7

LEMMA StampFacts ==
  ASSUME DirectoryType, Stamp
  PROVE  files' \in Seq(File) /\ Range(files') = Range(files)
<1> DEFINE k == KeyOf(probe)
<1>1. files \in Seq(File) BY DEF DirectoryType
<1>2. PICK s : s = Without(FileOf(k)) OBVIOUS
<1>3. PICK t : t = ElementsAt(files, FileOf(k)) OBVIOUS
<1>4. FileOf(k) \in SUBSET (1..Len(files)) /\ FileOf(k) \in SUBSET DOMAIN files
  BY <1>1 DEF FileOf, Complete
<1>5. s \in Seq(File) /\ Range(s) = {files[i] : i \in DOMAIN files \ FileOf(k)} BY <1>1, <1>2, <1>4, WithoutFacts
<1>6. t \in Seq(File) /\ Range(t) = {files[i] : i \in FileOf(k)} BY <1>1, <1>3, <1>4, RangeOfElementsAt
<1>7. files' = s \o t BY <1>2, <1>3 DEF Stamp
<1>8. files' \in Seq(File) /\ Range(files') = Range(s) \cup Range(t) BY <1>5, <1>6, <1>7, RangeOfConcat
<1>9. \A i \in DOMAIN files : files[i] \in Range(files) BY InRange
<1>10. \A f \in Range(files) : \E i \in DOMAIN files : f = files[i] BY OfRange
<1> QED BY <1>4, <1>5, <1>6, <1>8, <1>9, <1>10

LEMMA TemporaryFacts ==
  ASSUME DirectoryType, NEW k \in Keys, NEW tokens \in Cacheable \cup {NoImage},
         files' = Append(Without(TemporaryOf(k)), [key |-> k, tokens |-> tokens, temporary |-> TRUE])
  PROVE  /\ files' \in Seq(File)
         /\ \A f : f \in Range(files') <=>
              \/ f \in Range(files) /\ (~f.temporary \/ f.key # k)
              \/ f = [key |-> k, tokens |-> tokens, temporary |-> TRUE]
<1>1. files \in Seq(File) BY DEF DirectoryType
<1>2. PICK s : s = Without(TemporaryOf(k)) OBVIOUS
<1>3. PICK x : x = [key |-> k, tokens |-> tokens, temporary |-> TRUE] OBVIOUS
<1>4. x \in File BY <1>3 DEF File
<1>5. /\ s \in Seq(File)
      /\ \A f : f \in Range(s) <=> f \in Range(files) /\ (~f.temporary \/ f.key # k)
  BY <1>1, <1>2, WithoutTemporaryFacts
<1>6. files' = Append(s, x) BY <1>2, <1>3
<1>7. Append(s, x) \in Seq(File) /\ Range(Append(s, x)) = Range(s) \cup {x} BY <1>4, <1>5, RangeOfAppend
<1> QED BY <1>3, <1>5, <1>6, <1>7

\* The file a finished write leaves under a key's final name.
Completed(f) == [key |-> f.key, tokens |-> f.tokens, temporary |-> FALSE]

LEMMA PublishFacts ==
  ASSUME DirectoryType, Publish
  PROVE  /\ files' \in Seq(File)
         /\ \A f : f \in Range(files') <=>
              \/ f \in Range(files) /\ f.key # KeyOf(image)
              \/ \E g \in Range(files) : g.temporary /\ g.key = KeyOf(image) /\ f = Completed(g)
<1>1. files \in Seq(File) BY DEF DirectoryType
<1>2. PICK k : k = KeyOf(image) OBVIOUS
<1>3. PICK s : s = Without(FileOf(k)) OBVIOUS
<1>4. /\ s \in Seq(File)
      /\ \A f : f \in Range(s) <=> f \in Range(files) /\ (f.temporary \/ f.key # k)
  BY <1>1, <1>3, WithoutFileFacts
<1>5. \A i \in DOMAIN s : s[i] \in File BY <1>4
<1>6. \A f \in File : [f EXCEPT !.temporary = FALSE] = Completed(f) /\ Completed(f) \in File
  <2>1. ASSUME NEW f \in File PROVE Completed(f) \in File
    BY DEF File, Completed
  <2>2. ASSUME NEW f \in File PROVE [f EXCEPT !.temporary = FALSE] = Completed(f)
    <3>1. f \in [key : Keys, tokens : Cacheable \cup {NoImage}, temporary : BOOLEAN] BY DEF File
    <3>2. PICK g : g = [f EXCEPT !.temporary = FALSE] OBVIOUS
    <3>3. /\ g \in [key : Keys, tokens : Cacheable \cup {NoImage}, temporary : BOOLEAN]
          /\ g.key = f.key /\ g.tokens = f.tokens /\ g.temporary = FALSE
      BY <3>1, <3>2
    <3>4. g = [key |-> g.key, tokens |-> g.tokens, temporary |-> g.temporary] BY <3>3
    <3> QED BY <3>2, <3>3, <3>4 DEF Completed
  <2> QED BY <2>1, <2>2
<1>7. files' = [i \in DOMAIN s |-> IF s[i].key = k THEN [s[i] EXCEPT !.temporary = FALSE] ELSE s[i]]
  BY <1>2, <1>3, Zenon DEF Publish
<1>8. DOMAIN files' = DOMAIN s /\ \A i \in DOMAIN s : files'[i] = IF s[i].key = k THEN Completed(s[i]) ELSE s[i]
  BY <1>5, <1>6, <1>7
<1>9. DOMAIN s = 1..Len(s) /\ Len(s) \in Nat BY <1>4
<1>10. files' \in Seq(File)
  <2>1. \A i \in DOMAIN s : files'[i] \in File BY <1>5, <1>6, <1>8
  <2>2. files' = [i \in 1..Len(s) |-> files'[i]] BY <1>7, <1>8, <1>9
  <2>3. files' \in [1..Len(s) -> File] BY <1>8, <1>9, <2>1, <2>2
  <2> QED BY <1>9, <2>3
<1>11. \A i \in DOMAIN s : s[i] \in Range(s) BY InRange
<1>12. \A f \in Range(s) : \E i \in DOMAIN s : f = s[i] BY OfRange
<1>13. PICK t : t = files' OBVIOUS
<1>14. \A i \in DOMAIN t : t[i] \in Range(t) BY InRange
<1>15. \A f \in Range(t) : \E i \in DOMAIN t : f = t[i] BY OfRange
<1>16. \A f \in File : f.temporary \in BOOLEAN /\ (~f.temporary => Completed(f) = f)
  BY DEF File, Completed
<1>17. ASSUME NEW f \in Range(t)
       PROVE  \/ f \in Range(files) /\ f.key # k
              \/ \E g \in Range(files) : g.temporary /\ g.key = k /\ f = Completed(g)
  <2>1. PICK i \in DOMAIN s : f = t[i] BY <1>8, <1>13, <1>15
  <2>2. s[i] \in Range(s) /\ s[i] \in Range(files) /\ (s[i].temporary \/ s[i].key # k) BY <1>4, <1>11
  <2> QED BY <1>8, <1>13, <2>1, <2>2
<1>18. ASSUME NEW f \in Range(files), f.key # k PROVE f \in Range(t)
  <2>1. f \in Range(s) BY <1>4, <1>18
  <2>2. PICK i \in DOMAIN s : f = s[i] BY <1>12, <2>1
  <2>3. t[i] = f /\ i \in DOMAIN t BY <1>8, <1>13, <1>18, <2>2
  <2> QED BY <1>14, <2>3
<1>19. ASSUME NEW g \in Range(files), g.temporary, g.key = k PROVE Completed(g) \in Range(t)
  <2>1. g \in Range(s) BY <1>4, <1>19
  <2>2. PICK i \in DOMAIN s : g = s[i] BY <1>12, <2>1
  <2>3. t[i] = Completed(g) /\ i \in DOMAIN t BY <1>8, <1>13, <1>19, <2>2
  <2> QED BY <1>14, <2>3
<1> QED BY <1>2, <1>10, <1>13, <1>17, <1>18, <1>19

(***************************************************************************)
(* Type correctness.                                                       *)
(***************************************************************************)
LEMMA InitTypes == Init => TypeInv
<1>1. << >> \in Seq(File) /\ << >> \in Seq(Keys) OBVIOUS
<1>2. ASSUME Init PROVE foreign \in Nat
  <2>1. setting \in Settings /\ foreign \in 0..setting.foreign BY <1>2 DEF Init
  <2>2. setting.foreign \in Nat BY <2>1, CacheAssumption
  <2> QED BY <2>1, <2>2
<1> QED BY <1>1, <1>2 DEF Init, TypeInv, DirectoryType, WriterType, RequestType

\* A key the index has can be taken out of it.
LEMMA IndexRemoval ==
  ASSUME DirectoryType, NEW k \in Range(index)
  PROVE  RemoveFirst(index, k) \in Seq(Keys) /\ k \in Keys
<1>1. index \in Seq(Keys) BY DEF DirectoryType
<1>2. RemoveFirst(index, k) \in Seq(Keys) BY <1>1, KeyFacts, RemoveFirstFacts
<1>3. k \in Keys
  <2>1. PICK i \in 1..Len(index) : k = index[i] BY <1>1, ElementOfRange
  <2> QED BY <1>1, <2>1
<1> QED BY <1>2, <1>3

LEMMA VictimFacts ==
  ASSUME DirectoryType, Candidates # {}
  PROVE  Victim \in Range(index) /\ Victim \notin Kept \cup spared
<1>1. index \in Seq(Keys) BY DEF DirectoryType
<1>2. Candidates \subseteq Nat /\ Candidates \subseteq DOMAIN index BY <1>1 DEF Candidates
<1>3. PICK m \in Candidates : \A y \in Candidates : m <= y BY <1>2, LeastNat
<1>4. Min(Candidates) \in Candidates BY <1>3 DEF Min
<1>5. \A i \in DOMAIN index : index[i] \in Range(index) BY InRange
<1> QED BY <1>2, <1>4, <1>5 DEF Candidates, Victim

LEMMA DirectoryTypeStep ==
  ASSUME TypeInv, [Next]_vars
  PROVE  DirectoryType'
<1> USE DEF TypeInv
<1>t. files \in Seq(File) /\ index \in Seq(Keys) /\ foreign \in Nat BY DEF DirectoryType
<1>p. reader \in {"discard", "forget", "touch", "stamp"} => KeyOf(probe) \in Keys
  BY ProbeFacts DEF RequestType
<1>i. image # NoImage => image \in Cacheable /\ KeyOf(image) \in Keys
  BY CacheableFacts DEF WriterType
<1>u. UNCHANGED directory => DirectoryType'
  BY <1>t DEF directory, DirectoryType
<1>1. CASE RemoveFile
  BY <1>t, <1>1, WithoutFileFacts DEF RemoveFile, DirectoryType
<1>2. CASE Forget
  <2>1. index' \in Seq(Keys) BY <1>t, <1>2, IndexRemoval DEF Forget, DirectoryType
  <2> QED BY <1>t, <1>2, <2>1 DEF Forget, DirectoryType
<1>3. CASE Touch
  <2>1. index' \in Seq(Keys)
    <3>1. CASE KeyOf(probe) \in Range(index)
      <4>1. RemoveFirst(index, KeyOf(probe)) \in Seq(Keys) /\ KeyOf(probe) \in Keys BY <3>1, IndexRemoval
      <4> QED BY <1>3, <3>1, <4>1 DEF Touch
    <3>2. CASE KeyOf(probe) \notin Range(index) BY <1>t, <1>3, <3>2 DEF Touch
    <3> QED BY <3>1, <3>2
  <2> QED BY <1>t, <1>3, <2>1 DEF Touch, DirectoryType
<1>4. CASE Stamp
  BY <1>t, <1>4, StampFacts DEF Stamp, DirectoryType
<1>5. CASE BeginTemporary
  <2>1. files' \in Seq(File) BY <1>i, <1>5, TemporaryFacts DEF BeginTemporary, WriterType
  <2> QED BY <1>t, <1>5, <2>1 DEF BeginTemporary, DirectoryType
<1>6. CASE FillTemporary
  <2>1. files' \in Seq(File) BY <1>i, <1>6, TemporaryFacts DEF FillTemporary, WriterType
  <2> QED BY <1>t, <1>6, <2>1 DEF FillTemporary, DirectoryType
<1>7. CASE Publish
  BY <1>t, <1>7, PublishFacts DEF Publish, DirectoryType
<1>8. CASE Insert
  <2>1. KeyOf(image) \in Keys BY <1>i, <1>8 DEF Insert, WriterType
  <2>2. index' \in Seq(Keys)
    <3>1. CASE KeyOf(image) \in Range(index)
      <4>1. RemoveFirst(index, KeyOf(image)) \in Seq(Keys) BY <3>1, IndexRemoval
      <4> QED BY <1>8, <2>1, <3>1, <4>1 DEF Insert
    <3>2. CASE KeyOf(image) \notin Range(index) BY <1>t, <1>8, <2>1, <3>2 DEF Insert
    <3> QED BY <3>1, <3>2
  <2> QED BY <1>t, <1>8, <2>2 DEF Insert, DirectoryType
<1>9. CASE EvictForeign
  BY <1>t, <1>9 DEF EvictForeign, ForeignDone, DirectoryType
<1>10. CASE EvictEntry
  <2>1. index' \in Seq(Keys) BY <1>10, VictimFacts, IndexRemoval DEF EvictEntry
  <2>2. files' \in Seq(File) BY <1>t, <1>10, WithoutFileFacts DEF EvictEntry
  <2> QED BY <1>t, <1>10, <2>1, <2>2 DEF EvictEntry, DirectoryType
<1>11. CASE Restart
  <2>1. PICK s \in Seq(File) : s = Scanned BY <1>t, ScannedFacts
  <2>2. index' = [i \in DOMAIN s |-> s[i].key] /\ files' = s BY <1>11, <2>1 DEF Restart
  <2>3. DOMAIN s = 1..Len(s) /\ Len(s) \in Nat /\ \A i \in DOMAIN s : s[i] \in File OBVIOUS
  <2>4. \A f \in File : f.key \in Keys BY DEF File
  <2>5. index' \in [1..Len(s) -> Keys] BY <2>2, <2>3, <2>4
  <2>6. index' \in Seq(Keys) BY <2>3, <2>5
  <2> QED BY <1>t, <1>11, <2>2, <2>6 DEF Restart, DirectoryType
<1>12. CASE UNCHANGED directory
  BY <1>12, <1>u
<1> QED
  <2>1. [Next]_vars => \/ RemoveFile \/ Forget \/ Touch \/ Stamp \/ BeginTemporary \/ FillTemporary \/ Publish
                       \/ Insert \/ EvictForeign \/ EvictEntry \/ Restart \/ UNCHANGED directory
    BY DEF Next, Respond, Lookup, Write, StartLookup, Probe, ReadHeader, ReadState, ChooseBoundary, Store,
      TrySend, Skip, Take, WriteFails, LockForEviction, SpareForeign, SpareEntry, EndEviction, Land, vars, directory
  <2> QED BY <2>1, <1>1, <1>2, <1>3, <1>4, <1>5, <1>6, <1>7, <1>8, <1>9, <1>10, <1>11, <1>12

LEMMA WriterTypeStep ==
  ASSUME TypeInv, [Next]_vars
  PROVE  WriterType'
<1> USE DEF TypeInv
<1>c. \A t \in Cacheable : t # NoImage BY CacheableFacts
<1>u. UNCHANGED <<channel, writing>> => WriterType' BY DEF writing, WriterType
<1>1. CASE TrySend
  BY <1>1 DEF TrySend, WriterType, RequestType, writing
<1>2. CASE Take
  <2>1. channel # << >> BY <1>2 DEF Take
  <2>2. PICK t \in Cacheable : channel = <<t>> BY <2>1 DEF WriterType
  <2>3. Head(channel) = t /\ Tail(channel) = << >> BY <2>2
  <2>4. image' = t /\ channel' = << >> /\ writer' = "write" BY <1>2, <2>3 DEF Take
  <2> QED BY <1>c, <2>4 DEF WriterType
<1>3. CASE BeginTemporary \/ FillTemporary \/ WriteFails \/ Publish \/ Insert \/ LockForEviction
  BY <1>3 DEF WriterType, BeginTemporary, FillTemporary, WriteFails, Publish, Insert, LockForEviction, directory
<1>4. CASE SpareForeign \/ SpareEntry \/ EndEviction \/ Land
  BY <1>4 DEF WriterType, SpareForeign, SpareEntry, EndEviction, Land, directory
<1>5. CASE Restart
  BY <1>5 DEF WriterType, Restart
<1>6. CASE UNCHANGED <<channel, writing>>
  BY <1>6, <1>u
<1> QED
  <2>1. [Next]_vars =>
          \/ TrySend \/ Take \/ (BeginTemporary \/ FillTemporary \/ WriteFails \/ Publish \/ Insert \/ LockForEviction)
          \/ (SpareForeign \/ SpareEntry \/ EndEviction \/ Land) \/ Restart \/ UNCHANGED <<channel, writing>>
    BY DEF Next, Respond, Lookup, Write, StartLookup, Probe, ReadHeader, ReadState, RemoveFile, Forget, Touch, Stamp,
      ChooseBoundary, Store, Skip, EvictForeign, EvictEntry, vars, writing
  <2> QED BY <2>1, <1>1, <1>2, <1>3, <1>4, <1>5, <1>6

\* What a read of a key's file may give.
LEMMA ImagesType ==
  ASSUME DirectoryType, NEW k
  PROVE  Images(k) \subseteq Cacheable \cup {NoImage}
<1>1. Stored(k) \in Cacheable \cup {NoImage}
  <2>1. files \in Seq(File) BY DEF DirectoryType
  <2>2. CASE FileOf(k) # {}
    <3>1. FileOf(k) \subseteq Nat /\ FileOf(k) \subseteq DOMAIN files BY <2>1 DEF FileOf, Complete
    <3>2. PICK m \in FileOf(k) : \A y \in FileOf(k) : m <= y BY <2>2, <3>1, LeastNat
    <3>3. Min(FileOf(k)) \in FileOf(k) BY <3>2 DEF Min
    <3>4. files[Min(FileOf(k))] \in File BY <2>1, <3>1, <3>3
    <3> QED BY <2>2, <3>4 DEF Stored, File
  <2>3. CASE FileOf(k) = {} BY <2>3 DEF Stored
  <2> QED BY <2>2, <2>3
<1> QED BY <1>1 DEF Images, Readings

LEMMA RequestTypeStep ==
  ASSUME TypeInv, [Next]_vars
  PROVE  RequestType'
<1> USE DEF TypeInv
<1>u. UNCHANGED request => RequestType' BY DEF request, RequestType, Probing
<1>1. ASSUME NEW tokens \in Prompt, NEW above \in 0..(Len(tokens) - 1), StartLookup(tokens, above)
      PROVE  RequestType'
  BY <1>1 DEF StartLookup, RequestType
<1>2. CASE Probe
  <2>1. prompt \in Prompt /\ left \subseteq Boundaries(Len(prompt)) BY <1>2 DEF Probe, RequestType
  <2>2. CASE left = {}
    BY <1>2, <2>1, <2>2 DEF Probe, RequestType
  <2>3. CASE left # {}
    <3>1. prompt \in Seq(Nat) /\ Len(prompt) \in Nat
      <4>1. prompt \in Seq(Nat) BY <2>1, CacheAssumption
      <4> QED BY <4>1
    <3>2. Max(left) \in left BY <2>1, <2>3, <3>1, MaxIsMember
    <3>3. left' \subseteq Boundaries(Len(prompt)) /\ prompt' = prompt /\ found' = found
      BY <1>2, <2>1, <2>3 DEF Probe
    <3>4. CASE KeyOf(Prefix(prompt, Max(left))) \in Range(index)
      <4>1. reader' = "header" /\ probe' = Prefix(prompt, Max(left)) BY <1>2, <2>3, <3>4 DEF Probe
      <4>2. Probing' BY <2>1, <3>2, <3>3, <4>1 DEF Probing
      <4> QED BY <2>1, <3>3, <4>1, <4>2 DEF RequestType
    <3>5. CASE KeyOf(Prefix(prompt, Max(left))) \notin Range(index)
      <4>1. reader' = "probe" BY <1>2, <2>3, <3>5 DEF Probe
      <4> QED BY <2>1, <3>3, <4>1 DEF RequestType
    <3> QED BY <3>4, <3>5
  <2> QED BY <2>2, <2>3
<1>3. CASE ReadHeader
  <2>1. reader' \in {"state", "discard"} /\ UNCHANGED <<prompt, left, probe, found>> BY <1>3 DEF ReadHeader
  <2> QED BY <1>3, <2>1 DEF ReadHeader, RequestType, Probing
<1>4. CASE ReadState
  <2>1. reader' \in {"touch", "discard"} /\ UNCHANGED <<prompt, left, probe>> BY <1>4 DEF ReadState
  <2>2. found' \in Cacheable \cup {NoImage} BY <1>4, ImagesType DEF ReadState, RequestType
  <2> QED BY <1>4, <2>1, <2>2 DEF ReadState, RequestType, Probing
<1>5. CASE RemoveFile \/ Forget \/ Touch \/ Stamp
  BY <1>5 DEF RemoveFile, Forget, Touch, Stamp, RequestType, Probing
<1>6. ASSUME NEW reused, NEW stable, ChooseBoundary(reused, stable), reader = "answered"
      PROVE  RequestType'
  <2>1. prompt \in Prompt BY <1>6 DEF RequestType
  <2>2. ASSUME NEW b \in StoreBoundaries(Len(prompt), reused, stable), found' = Prefix(prompt, b), reader' = "store",
               UNCHANGED <<prompt, left, probe>>
        PROVE  RequestType'
    <3>1. PICK inside : inside = {x \in Boundaries(Len(prompt)) : x <= stable} OBVIOUS
    <3>2. inside # {} /\ b = Max(inside) BY <2>2, <3>1 DEF StoreBoundaries
    <3>3. Len(prompt) \in Nat
      <4>1. prompt \in Seq(Nat) BY <2>1, CacheAssumption
      <4> QED BY <4>1
    <3>4. inside \in SUBSET Boundaries(Len(prompt)) BY <3>1
    <3>5. b \in inside BY <3>2, <3>3, <3>4, MaxIsMember
    <3>6. found' \in Cacheable /\ found' # NoImage BY <2>1, <2>2, <3>1, <3>5, BoundaryFacts, CacheableFacts
    <3> QED BY <1>6, <2>2, <3>6 DEF RequestType
  <2>3. CASE Finish
    BY <2>3 DEF Finish, RequestType
  <2> QED BY <1>6, <2>2, <2>3 DEF ChooseBoundary
<1>7. CASE Store
  BY <1>7 DEF Store, RequestType
<1>8. CASE TrySend
  BY <1>8 DEF TrySend, Finish, RequestType
<1>9. CASE Skip \/ Restart
  BY <1>9 DEF Skip, Restart, Finish, RequestType
<1>10. CASE UNCHANGED request
  BY <1>10, <1>u
<1> QED
  <2>1. Next =>
          \/ \E tokens \in Prompt : \E above \in 0..(Len(tokens) - 1) : StartLookup(tokens, above)
          \/ Probe \/ ReadHeader \/ ReadState \/ (RemoveFile \/ Forget \/ Touch \/ Stamp)
          \/ (reader = "answered" /\ \E reused, stable \in 0..Len(prompt) : ChooseBoundary(reused, stable))
          \/ Store \/ TrySend \/ (Skip \/ Restart) \/ UNCHANGED request
    BY DEF Next, Respond, Lookup, Write, Take, BeginTemporary, FillTemporary, WriteFails, Publish, Insert,
      LockForEviction, EvictForeign, SpareForeign, EvictEntry, SpareEntry, EndEviction, Land
  <2>2. UNCHANGED vars => UNCHANGED request BY DEF vars, request
  <2> QED BY <2>1, <2>2, <1>1, <1>2, <1>3, <1>4, <1>5, <1>6, <1>7, <1>8, <1>9, <1>10

LEMMA TypeStep == TypeInv /\ [Next]_vars => TypeInv'
<1>1. [Next]_vars => setting' = setting
  BY DEF Next, Respond, Lookup, Write, StartLookup, Probe, ReadHeader, ReadState, RemoveFile, Forget, Touch, Stamp,
    ChooseBoundary, Store, TrySend, Skip, Take, BeginTemporary, FillTemporary, WriteFails, Publish, Insert,
    LockForEviction, EvictForeign, SpareForeign, EvictEntry, SpareEntry, EndEviction, Land, Restart, vars
<1> QED BY <1>1, DirectoryTypeStep, WriterTypeStep, RequestTypeStep DEF TypeInv

\* Files, index, image and request are what they may be, for any prompts and faults.
THEOREM TypeCorrect == Spec => []TypeInv
BY InitTypes, TypeStep, PTL DEF Spec
-----------------------------------------------------------------------------
(***************************************************************************)
(* The two counters.                                                       *)
(***************************************************************************)
BytesAdd == bytes = foreign + TotalSize(index)

OutstandingCounts ==
  outstanding = Len(channel) + (IF image = NoImage THEN 0 ELSE 1)
                + (IF reader \in {"send", "skip"} THEN 1 ELSE 0)

LEMMA BytesStep ==
  ASSUME TypeInv, BytesAdd, [Next]_vars
  PROVE  BytesAdd'
<1>t. files \in Seq(File) /\ index \in Seq(Keys) /\ foreign \in Nat BY DEF TypeInv, DirectoryType
<1>s. \A k \in Keys : Size(k) \in Nat BY KeyFacts
<1>n. TotalSize(index) \in Nat BY <1>t, <1>s, TotalSizeType
<1>r. ASSUME NEW k \in Range(index)
      PROVE  /\ RemoveFirst(index, k) \in Seq(Keys) /\ k \in Keys /\ Size(k) \in Nat
             /\ TotalSize(RemoveFirst(index, k)) = TotalSize(index) - Size(k)
  <2>1. RemoveFirst(index, k) \in Seq(Keys) /\ k \in Keys BY IndexRemoval DEF TypeInv
  <2> QED BY <1>t, <1>s, <2>1, RemoveFirstFacts
<1>m. ASSUME NEW k \in Range(index)
      PROVE  TotalSize(Append(RemoveFirst(index, k), k)) = TotalSize(index)
  <2>1. PICK s : s = RemoveFirst(index, k) OBVIOUS
  <2>2. s \in Seq(Keys) /\ k \in Keys /\ Size(k) \in Nat /\ TotalSize(s) = TotalSize(index) - Size(k)
    BY <1>r, <2>1
  <2>3. TotalSize(Append(s, k)) = TotalSize(s) + Size(k) BY <1>s, <2>2, TotalSizeAppend
  <2> QED BY <1>n, <2>1, <2>2, <2>3
<1>1. CASE Forget
  <2>1. CASE KeyOf(probe) \in Range(index)
    <3>1. /\ index' = RemoveFirst(index, KeyOf(probe)) /\ bytes' = bytes - Size(KeyOf(probe)) /\ foreign' = foreign
      BY <1>1, <2>1 DEF Forget
    <3>2. Size(KeyOf(probe)) \in Nat /\ TotalSize(index') = TotalSize(index) - Size(KeyOf(probe)) BY <1>r, <2>1, <3>1
    <3> QED BY <1>t, <1>n, <3>1, <3>2 DEF BytesAdd
  <2>2. CASE KeyOf(probe) \notin Range(index)
    <3>1. UNCHANGED <<index, bytes, foreign>> BY <1>1, <2>2 DEF Forget
    <3> QED BY <3>1 DEF BytesAdd
  <2> QED BY <2>1, <2>2
<1>2. CASE Touch
  <2>1. TotalSize(index') = TotalSize(index) BY <1>2, <1>m DEF Touch
  <2>2. UNCHANGED <<bytes, foreign>> BY <1>2 DEF Touch
  <2> QED BY <2>1, <2>2 DEF BytesAdd
<1>3. CASE Insert
  <2>1. CASE KeyOf(image) \in Range(index)
    <3>1. index' = Append(RemoveFirst(index, KeyOf(image)), KeyOf(image)) /\ UNCHANGED <<bytes, foreign>>
      BY <1>3, <2>1 DEF Insert
    <3>2. TotalSize(index') = TotalSize(index) BY <1>m, <2>1, <3>1
    <3> QED BY <3>1, <3>2 DEF BytesAdd
  <2>2. CASE KeyOf(image) \notin Range(index)
    <3>1. index' = Append(index, KeyOf(image)) /\ bytes' = bytes + Size(KeyOf(image)) /\ foreign' = foreign
      BY <1>3, <2>2 DEF Insert
    <3>2. image \in Cacheable BY <1>3 DEF Insert, TypeInv, WriterType
    <3>3. KeyOf(image) \in Keys BY <3>2, CacheableFacts
    <3>4. Size(KeyOf(image)) \in Nat BY <1>s, <3>3
    <3>5. TotalSize(index') = TotalSize(index) + Size(KeyOf(image)) BY <1>t, <1>s, <3>1, <3>3, TotalSizeAppend
    <3> QED BY <1>t, <1>n, <3>1, <3>4, <3>5 DEF BytesAdd
  <2> QED BY <2>1, <2>2
<1>4. CASE EvictForeign
  BY <1>4, <1>t, <1>n DEF EvictForeign, BytesAdd
<1>5. CASE EvictEntry
  <2>1. Victim \in Range(index) BY <1>5, VictimFacts DEF EvictEntry, TypeInv
  <2>2. index' = RemoveFirst(index, Victim) /\ bytes' = bytes - Size(Victim) /\ foreign' = foreign
    BY <1>5 DEF EvictEntry
  <2>3. Size(Victim) \in Nat /\ TotalSize(index') = TotalSize(index) - Size(Victim) BY <1>r, <2>1, <2>2
  <2> QED BY <1>t, <1>n, <2>2, <2>3 DEF BytesAdd
<1>6. CASE Restart
  BY <1>6 DEF Restart, BytesAdd
<1>7. CASE UNCHANGED <<index, foreign, bytes>>
  BY <1>7 DEF BytesAdd
<1> QED
  <2>1. [Next]_vars => \/ Forget \/ Touch \/ Insert \/ EvictForeign \/ EvictEntry \/ Restart
                       \/ UNCHANGED <<index, foreign, bytes>>
    BY DEF Next, Respond, Lookup, Write, StartLookup, Probe, ReadHeader, ReadState, RemoveFile, Stamp,
      ChooseBoundary, Store, TrySend, Skip, Take, BeginTemporary, FillTemporary, WriteFails, Publish,
      LockForEviction, SpareForeign, SpareEntry, EndEviction, Land, vars, directory
  <2> QED BY <2>1, <1>1, <1>2, <1>3, <1>4, <1>5, <1>6, <1>7

LEMMA OutstandingStep ==
  ASSUME TypeInv, OutstandingCounts, [Next]_vars
  PROVE  OutstandingCounts'
<1> USE DEF OutstandingCounts
<1>c. \A t \in Cacheable : t # NoImage BY CacheableFacts
<1>l. Len(channel) \in {0, 1} BY DEF TypeInv, WriterType
<1>1. CASE Store
  BY <1>1, <1>l DEF Store, writing
<1>2. CASE TrySend
  <2>1. CASE channel = << >>
    <3>1. channel' = <<found>> /\ reader' = "idle" /\ reader = "send" /\ UNCHANGED <<outstanding, image>>
      BY <1>2, <2>1 DEF TrySend, Finish, writing
    <3>2. Len(channel) = 0 /\ Len(channel') = 1 BY <2>1, <3>1
    <3> QED BY <3>1, <3>2
  <2>2. CASE channel # << >>
    <3>1. channel' = channel /\ reader' = "skip" /\ reader = "send" /\ UNCHANGED <<outstanding, image>>
      BY <1>2, <2>2 DEF TrySend, writing
    <3> QED BY <3>1
  <2> QED BY <2>1, <2>2
<1>3. CASE Skip
  BY <1>3, <1>l DEF Skip, Finish, writing
<1>4. CASE Take
  <2>1. channel # << >> /\ image = NoImage BY <1>4 DEF Take, TypeInv, WriterType
  <2>2. PICK t \in Cacheable : channel = <<t>> BY <2>1 DEF TypeInv, WriterType
  <2>3. Head(channel) = t /\ Tail(channel) = << >> /\ Len(channel) = 1 BY <2>2
  <2>4. image' = t /\ channel' = << >> /\ UNCHANGED <<outstanding, reader>> BY <1>4, <2>3 DEF Take, request
  <2>5. Len(channel') = 0 /\ Len(channel) = 1 BY <2>3, <2>4
  <2>6. image = NoImage /\ image' # NoImage BY <1>c, <2>1, <2>4
  <2> QED BY <2>4, <2>5, <2>6
<1>5. CASE Land
  <2>1. image # NoImage BY <1>5 DEF Land, TypeInv, WriterType
  <2> QED BY <1>5, <1>l, <2>1 DEF Land, request
<1>6. CASE Restart
  <2>1. outstanding' = 0 /\ channel' = << >> /\ image' = NoImage /\ reader' = "idle" BY <1>6 DEF Restart, Finish
  <2>2. Len(channel') = 0 BY <2>1
  <2> QED BY <2>1, <2>2
<1>7. CASE /\ UNCHANGED <<outstanding, channel, image>>
           /\ reader \notin {"send", "skip"} <=> reader' \notin {"send", "skip"}
  BY <1>7
<1> QED
  <2>1. ASSUME NEW tokens \in Prompt, NEW above \in 0..(Len(tokens) - 1), StartLookup(tokens, above)
        PROVE  UNCHANGED <<outstanding, channel, image>> /\ reader \notin {"send", "skip"} /\ reader' \notin {"send", "skip"}
    BY <2>1 DEF StartLookup, writing
  <2>2. CASE Probe \/ ReadHeader \/ ReadState \/ RemoveFile \/ Forget \/ Touch \/ Stamp
    <3>1. UNCHANGED <<outstanding, channel, image>>
      BY <2>2 DEF Probe, ReadHeader, ReadState, RemoveFile, Forget, Touch, Stamp, writing
    <3>2. reader \notin {"send", "skip"} /\ reader' \notin {"send", "skip"}
      BY <2>2 DEF Probe, ReadHeader, ReadState, RemoveFile, Forget, Touch, Stamp
    <3> QED BY <3>1, <3>2
  <2>3. ASSUME NEW reused, NEW stable, ChooseBoundary(reused, stable)
        PROVE  UNCHANGED <<outstanding, channel, image>> /\ reader \notin {"send", "skip"} /\ reader' \notin {"send", "skip"}
    BY <2>3 DEF ChooseBoundary, Finish, writing
  <2>4. CASE BeginTemporary \/ FillTemporary \/ WriteFails \/ Publish \/ Insert \/ LockForEviction
             \/ EvictForeign \/ SpareForeign \/ EvictEntry \/ SpareEntry \/ EndEviction
    BY <2>4 DEF BeginTemporary, FillTemporary, WriteFails, Publish, Insert, LockForEviction,
      EvictForeign, SpareForeign, EvictEntry, SpareEntry, EndEviction, request, writing
  <2>5. CASE UNCHANGED vars
    BY <2>5 DEF vars
  <2> QED BY <2>1, <2>2, <2>3, <2>4, <2>5, <1>1, <1>2, <1>3, <1>4, <1>5, <1>6, <1>7 DEF Next, Respond, Lookup, Write

\* What the index believes the directory holds is what its entries add up to, and
\* what a shutdown counts is the writes there are: whatever the prompts, the
\* directory's budget and the calls that fail.
THEOREM CountersExact == Spec => []CountersAreExact
<1>1. Init => BytesAdd /\ OutstandingCounts
  <2>1. ASSUME Init PROVE BytesAdd
    <3>1. foreign \in Nat BY <2>1, InitTypes DEF TypeInv, DirectoryType
    <3>2. index = << >> /\ bytes = foreign BY <2>1 DEF Init
    <3> QED BY <3>1, <3>2, TotalSizeEmpty DEF BytesAdd
  <2>2. ASSUME Init PROVE OutstandingCounts
    BY <2>2 DEF Init, OutstandingCounts
  <2> QED BY <2>1, <2>2
<1>2. TypeInv /\ BytesAdd /\ OutstandingCounts /\ [Next]_vars => BytesAdd' /\ OutstandingCounts'
  BY BytesStep, OutstandingStep
<1>3. BytesAdd /\ OutstandingCounts => CountersAreExact
  BY DEF BytesAdd, OutstandingCounts, CountersAreExact
<1> QED BY <1>1, <1>2, <1>3, TypeCorrect, PTL DEF Spec
-----------------------------------------------------------------------------
(***************************************************************************)
(* Entries are whole.  A rename publishes what its temporary file holds by *)
(* then: an entry is whole because the writer fills a temporary file, and  *)
(* every temporary file of that key, before it renames one.                *)
(***************************************************************************)
Whole == \A f \in Range(files) : ~f.temporary => f.tokens \in Cacheable /\ f.key = KeyOf(f.tokens)

Filled ==
  writer = "publish" => \A f \in Range(files) : f.temporary /\ f.key = KeyOf(image) => f.tokens = image

\* The steps that touch the directory, and those that only take files away.
LEMMA DirectoryStep ==
  ASSUME TypeInv, [Next]_vars
  PROVE  \/ BeginTemporary \/ FillTemporary \/ Publish \/ Restart
         \/ Range(files') \subseteq Range(files) /\ UNCHANGED image /\ (writer' = "publish" => writer = "publish")
         \/ files' = files /\ writer' # "publish"
<1>t. files \in Seq(File) BY DEF TypeInv, DirectoryType
<1>1. CASE RemoveFile
  <2>1. files' = Without(FileOf(KeyOf(probe))) /\ UNCHANGED <<image, writer>> BY <1>1 DEF RemoveFile, writing
  <2> QED BY <1>t, <2>1, WithoutFileFacts
<1>2. CASE Stamp
  <2>1. UNCHANGED <<image, writer>> BY <1>2 DEF Stamp, writing
  <2> QED BY <1>2, <2>1, StampFacts DEF TypeInv
<1>3. CASE EvictEntry
  <2>1. files' = Without(FileOf(Victim)) /\ UNCHANGED <<image, writer>> BY <1>3 DEF EvictEntry, writing
  <2> QED BY <1>t, <2>1, WithoutFileFacts
<1>4. CASE UNCHANGED <<files, image, writer>>
  BY <1>4
<1>5. CASE files' = files /\ writer' # "publish"
  BY <1>5
<1> QED
  <2>1. [Next]_vars => \/ BeginTemporary \/ FillTemporary \/ Publish \/ Restart \/ RemoveFile \/ Stamp \/ EvictEntry
                       \/ UNCHANGED <<files, image, writer>> \/ (files' = files /\ writer' # "publish")
    BY DEF Next, Respond, Lookup, Write, StartLookup, Probe, ReadHeader, ReadState, Forget, Touch,
      ChooseBoundary, Store, TrySend, Skip, Take, WriteFails, Insert, LockForEviction, EvictForeign,
      SpareForeign, SpareEntry, EndEviction, Land, vars, directory, writing
  <2> QED BY <2>1, <1>1, <1>2, <1>3, <1>4, <1>5

LEMMA WholeStep ==
  ASSUME TypeInv, Whole, Filled, [Next]_vars
  PROVE  Whole' /\ Filled'
<1> USE DEF Whole, Filled
<1>i. writer \in {"write", "fill", "publish"} => image \in Cacheable /\ KeyOf(image) \in Keys
  BY CacheableFacts DEF TypeInv, WriterType
<1>d. DirectoryType BY DEF TypeInv
<1>b. \A x, y : [key |-> x, tokens |-> y, temporary |-> TRUE].temporary OBVIOUS
<1>1. CASE BeginTemporary
  <2>1. \A f : f \in Range(files') <=>
          \/ f \in Range(files) /\ (~f.temporary \/ f.key # KeyOf(image))
          \/ f = [key |-> KeyOf(image), tokens |-> NoImage, temporary |-> TRUE]
    BY <1>i, <1>d, <1>1, TemporaryFacts DEF BeginTemporary
  <2>2. writer' = "fill" BY <1>1 DEF BeginTemporary
  <2>3. \A f \in Range(files') : ~f.temporary => f \in Range(files) BY <1>b, <2>1
  <2> QED BY <2>2, <2>3
<1>2. CASE FillTemporary
  <2>1. \A f : f \in Range(files') <=>
          \/ f \in Range(files) /\ (~f.temporary \/ f.key # KeyOf(image))
          \/ f = [key |-> KeyOf(image), tokens |-> image, temporary |-> TRUE]
    BY <1>i, <1>d, <1>2, TemporaryFacts DEF FillTemporary
  <2>2. UNCHANGED image BY <1>2 DEF FillTemporary
  <2>3. \A f \in Range(files') : ~f.temporary => f \in Range(files) BY <1>b, <2>1
  <2>4. [key |-> KeyOf(image), tokens |-> image, temporary |-> TRUE].tokens = image OBVIOUS
  <2>5. \A f \in Range(files') : f.temporary /\ f.key = KeyOf(image) => f.tokens = image
    BY <2>1, <2>4
  <2> QED BY <2>2, <2>3, <2>5
<1>3. CASE Publish
  <2>1. \A f : f \in Range(files') <=>
          \/ f \in Range(files) /\ f.key # KeyOf(image)
          \/ \E g \in Range(files) : g.temporary /\ g.key = KeyOf(image) /\ f = Completed(g)
    BY <1>d, <1>3, PublishFacts
  <2>2. writer = "publish" /\ writer' = "insert" BY <1>3 DEF Publish
  <2>3. ASSUME NEW g \in Range(files), g.temporary, g.key = KeyOf(image)
        PROVE  Completed(g).tokens \in Cacheable /\ Completed(g).key = KeyOf(Completed(g).tokens)
    <3>1. g.tokens = image BY <2>2, <2>3
    <3>2. Completed(g).tokens = g.tokens /\ Completed(g).key = g.key BY DEF Completed
    <3> QED BY <1>i, <2>2, <2>3, <3>1, <3>2
  <2>4. \A f \in Range(files') : ~f.temporary => f.tokens \in Cacheable /\ f.key = KeyOf(f.tokens)
    BY <2>1, <2>3
  <2> QED BY <2>2, <2>4
<1>4. CASE Restart
  <2>1. files' = Scanned /\ writer' = "evict" BY <1>4 DEF Restart
  <2>2. Range(files') \subseteq Range(files) BY <1>d, <2>1, ScannedFacts DEF DirectoryType
  <2> QED BY <2>1, <2>2
<1>5. CASE Range(files') \subseteq Range(files) /\ UNCHANGED image /\ (writer' = "publish" => writer = "publish")
  BY <1>5
<1>6. CASE files' = files /\ writer' # "publish"
  BY <1>6
<1> QED BY <1>1, <1>2, <1>3, <1>4, <1>5, <1>6, DirectoryStep

LEMMA InitWhole == Init => Whole /\ Filled
<1>1. ASSUME Init PROVE Range(files) = {}
  <2>1. PICK s : s = << >> OBVIOUS
  <2>2. DOMAIN s = {} BY <2>1
  <2>3. Range(s) = {} BY <2>2, OfRange
  <2> QED BY <1>1, <2>1, <2>3 DEF Init
<1> QED BY <1>1 DEF Init, Whole, Filled

\* Wherever the process is killed and whatever system call fails, a file under its
\* final name is a whole image of the tokens its name is made of.
THEOREM WholeEntries == Spec => []EntriesAreWhole
<1>1. TypeInv /\ Whole => EntriesAreWhole
  <2>1. ASSUME TypeInv, Whole, NEW i \in Complete
        PROVE  files[i].tokens # NoImage /\ files[i].key = KeyOf(files[i].tokens)
    <3>1. i \in DOMAIN files /\ ~files[i].temporary BY DEF Complete
    <3>2. files[i] \in Range(files) BY <3>1, InRange
    <3> QED BY <2>1, <3>1, <3>2, NoImageAssumption DEF Whole
  <2> QED BY <2>1 DEF EntriesAreWhole
<1>2. TypeInv /\ Whole /\ Filled /\ [Next]_vars => Whole' /\ Filled'
  BY WholeStep
<1> QED BY <1>1, <1>2, InitWhole, TypeCorrect, PTL DEF Spec
-----------------------------------------------------------------------------
(***************************************************************************)
(* Hits.  The header and the state are read from the file by name, twice,  *)
(* and the file may be another one by the second time: what is found is    *)
(* known by its key alone.                                                 *)
(***************************************************************************)
OfAPrefix(tokens) == \E b \in Boundaries(Len(prompt)) : KeyOf(tokens) = KeyOf(Prefix(prompt, b))

FoundByKey ==
  /\ reader \in {"probe", "header", "state", "discard", "forget"} => found = NoImage
  /\ reader \in {"touch", "stamp", "answered"} /\ found # NoImage => OfAPrefix(found)

\* What is stored under a key is an image of tokens with that key.
LEMMA StoredFacts ==
  ASSUME DirectoryType, Whole, NEW k, Stored(k) # NoImage
  PROVE  KeyOf(Stored(k)) = k
<1>1. files \in Seq(File) BY DEF DirectoryType
<1>2. FileOf(k) # {} BY DEF Stored
<1>3. FileOf(k) \subseteq Nat /\ FileOf(k) \subseteq DOMAIN files BY <1>1 DEF FileOf, Complete
<1>4. PICK m \in FileOf(k) : \A y \in FileOf(k) : m <= y BY <1>2, <1>3, LeastNat
<1>5. Min(FileOf(k)) \in FileOf(k) BY <1>4 DEF Min
<1>6. PICK i \in FileOf(k) : i = Min(FileOf(k)) BY <1>5
<1>7. Stored(k) = files[i].tokens BY <1>2, <1>6 DEF Stored
<1>8. ~files[i].temporary /\ files[i].key = k /\ i \in DOMAIN files BY <1>6 DEF FileOf, Complete
<1>9. files[i] \in Range(files) BY <1>8, InRange
<1> QED BY <1>7, <1>8, <1>9 DEF Whole

LEMMA FoundStep ==
  ASSUME TypeInv, Whole, FoundByKey, [Next]_vars
  PROVE  FoundByKey'
<1> USE DEF FoundByKey
<1>p. UNCHANGED <<prompt, found>> => (OfAPrefix(found) <=> OfAPrefix(found)') BY DEF OfAPrefix
<1>1. ASSUME NEW tokens \in Prompt, NEW above \in 0..(Len(tokens) - 1), StartLookup(tokens, above)
      PROVE  FoundByKey'
  BY <1>1 DEF StartLookup
<1>2. CASE Probe
  <2>1. reader = "probe" /\ reader' \in {"probe", "header", "answered"} /\ found' = found BY <1>2 DEF Probe
  <2> QED BY <2>1
<1>3. CASE ReadHeader
  <2>1. reader = "header" /\ reader' \in {"state", "discard"} /\ found' = found BY <1>3 DEF ReadHeader
  <2> QED BY <2>1
<1>4. CASE ReadState
  <2>1. reader = "state" /\ prompt' = prompt BY <1>4 DEF ReadState
  <2>2. PICK tokens \in Images(KeyOf(probe)) :
          IF tokens # NoImage THEN found' = tokens /\ reader' = "touch"
          ELSE reader' = "discard" /\ UNCHANGED found
    BY <1>4 DEF ReadState
  <2>3. CASE tokens # NoImage
    <3>1. tokens = Stored(KeyOf(probe)) BY <2>3 DEF Images, Readings
    <3>2. KeyOf(tokens) = KeyOf(probe) BY <2>3, <3>1, StoredFacts DEF TypeInv
    <3>3. PICK b \in Boundaries(Len(prompt)) : probe = Prefix(prompt, b)
      BY <2>1 DEF TypeInv, RequestType, Probing
    <3>4. OfAPrefix(tokens) BY <3>2, <3>3 DEF OfAPrefix
    <3>5. found' = tokens /\ reader' = "touch" BY <2>2, <2>3
    <3>6. OfAPrefix(found)' BY <2>1, <3>4, <3>5 DEF OfAPrefix
    <3> QED BY <3>5, <3>6
  <2>4. CASE tokens = NoImage
    <3>1. found' = found /\ reader' = "discard" BY <2>2, <2>4
    <3> QED BY <2>1, <3>1
  <2> QED BY <2>3, <2>4
<1>5. CASE RemoveFile \/ Forget
  <2>1. reader \in {"discard", "forget"} /\ reader' \in {"forget", "probe"} /\ found' = found
    BY <1>5 DEF RemoveFile, Forget
  <2> QED BY <2>1
<1>6. CASE Touch \/ Stamp
  <2>1. reader \in {"touch", "stamp"} /\ reader' \in {"stamp", "answered"} /\ UNCHANGED <<prompt, found>>
    BY <1>6 DEF Touch, Stamp
  <2> QED BY <1>p, <2>1
<1>7. CASE reader' \in {"idle", "store", "send", "skip"}
  BY <1>7
<1>8. CASE UNCHANGED <<reader, prompt, found>>
  BY <1>p, <1>8
<1> QED
  <2>1. [Next]_vars => \/ \E tokens \in Prompt : \E above \in 0..(Len(tokens) - 1) : StartLookup(tokens, above)
                       \/ Probe \/ ReadHeader \/ ReadState \/ RemoveFile \/ Forget \/ Touch \/ Stamp
                       \/ reader' \in {"idle", "store", "send", "skip"} \/ UNCHANGED <<reader, prompt, found>>
    BY DEF Next, Respond, Lookup, Write, ChooseBoundary, Finish, Store, TrySend, Skip, Take, BeginTemporary,
      FillTemporary, WriteFails, Publish, Insert, LockForEviction, EvictForeign, SpareForeign, EvictEntry,
      SpareEntry, EndEviction, Land, Restart, vars, request
  <2> QED BY <2>1, <1>1, <1>2, <1>3, <1>4, <1>5, <1>6, <1>7, <1>8

\* A hit is named by a prefix of the request's tokens that leaves one to evaluate,
\* however the directory changed between the two reads.
THEOREM HitsAreNamedByPrefixes == Spec => []FoundByKey
<1>1. Init => FoundByKey BY DEF Init, FoundByKey
<1>2. TypeInv /\ Whole /\ FoundByKey /\ [Next]_vars => FoundByKey' BY FoundStep
<1>3. TypeInv /\ Whole /\ Filled /\ [Next]_vars => Whole' /\ Filled' BY WholeStep
<1> QED BY <1>1, <1>2, <1>3, InitWhole, TypeCorrect, PTL DEF Spec

\* Where the hash does not collide on the prefixes of the prompts, a hit is an image
\* of one of them.
THEOREM HitsArePrefixes ==
  ASSUME HashIsExact
  PROVE  Spec => []HitIsAPrefix
<1>1. ASSUME TypeInv, FoundByKey, reader = "answered", found # NoImage
      PROVE  IsPrefix(found, prompt) /\ Len(found) < Len(prompt)
  <2>1. PICK b \in Boundaries(Len(prompt)) : KeyOf(found) = KeyOf(Prefix(prompt, b))
    BY <1>1 DEF FoundByKey, OfAPrefix
  <2>2. prompt \in Prompt /\ found \in Cacheable BY <1>1 DEF TypeInv, RequestType
  <2>3. /\ Prefix(prompt, b) \in Cacheable /\ Len(Prefix(prompt, b)) = b
        /\ prompt \in Seq(Nat) /\ b \in 1..(Len(prompt) - 1)
    BY <2>2, BoundaryFacts
  <2>4. found = Prefix(prompt, b) BY <2>1, <2>2, <2>3 DEF HashIsExact
  <2>5. found \in Seq(Nat) BY <2>2, CacheableFacts
  <2>6. Len(found) < Len(prompt) BY <2>3, <2>4
  <2>7. SubSeq(found, 1, Len(found)) = SubSeq(prompt, 1, Len(found))
    <3>1. SubSeq(found, 1, Len(found)) = found BY <2>5
    <3> QED BY <2>3, <2>4, <3>1 DEF Prefix
  <2> QED BY <2>3, <2>4, <2>6, <2>7 DEF IsPrefix
<1>2. TypeInv /\ FoundByKey => HitIsAPrefix
  BY <1>1 DEF HitIsAPrefix
<1> QED BY <1>2, TypeCorrect, HitsAreNamedByPrefixes, PTL
-----------------------------------------------------------------------------
(***************************************************************************)
(* The budget.  An eviction in which no removal fails passes over an entry *)
(* only where a lookup has removed its file; so what it leaves over the    *)
(* budget is the entry just written, and entries without a file.           *)
(***************************************************************************)
Names == {files[i].key : i \in Complete}

Sparing == writer # "evict" => spared = {}

SparedIsGone ==
  Faults \subseteq {"write"} => NoImage \notin spared /\ \A k \in spared : k \notin Names

LEMMA NamesFacts ==
  \A k : k \in Names <=> \E f \in Range(files) : ~f.temporary /\ f.key = k
<1>1. \A i \in DOMAIN files : files[i] \in Range(files) BY InRange
<1>2. \A f \in Range(files) : \E i \in DOMAIN files : f = files[i] BY OfRange
<1> QED BY <1>1, <1>2 DEF Names, Complete

\* A step adds a name to the directory only where the writer publishes.
LEMMA NamesStep ==
  ASSUME TypeInv, [Next]_vars
  PROVE  Publish \/ Names' \subseteq Names
<1>i. writer \in {"write", "fill", "publish"} => image \in Cacheable /\ KeyOf(image) \in Keys
  BY CacheableFacts DEF TypeInv, WriterType
<1>d. DirectoryType BY DEF TypeInv
<1>b. \A x, y : [key |-> x, tokens |-> y, temporary |-> TRUE].temporary OBVIOUS
<1>n. \A k : k \in Names' <=> \E f \in Range(files') : ~f.temporary /\ f.key = k
  <2>1. PICK t : t = files' OBVIOUS
  <2>2. \A i \in DOMAIN t : t[i] \in Range(t) BY InRange
  <2>3. \A f \in Range(t) : \E i \in DOMAIN t : f = t[i] BY OfRange
  <2> QED BY <2>1, <2>2, <2>3 DEF Names, Complete
<1>s. (\A f \in Range(files') : ~f.temporary => f \in Range(files)) => Names' \subseteq Names
  BY <1>n, NamesFacts
<1>1. CASE BeginTemporary
  <2>1. \A f : f \in Range(files') <=>
          \/ f \in Range(files) /\ (~f.temporary \/ f.key # KeyOf(image))
          \/ f = [key |-> KeyOf(image), tokens |-> NoImage, temporary |-> TRUE]
    BY <1>i, <1>d, <1>1, TemporaryFacts DEF BeginTemporary
  <2> QED BY <1>b, <1>s, <2>1
<1>2. CASE FillTemporary
  <2>1. \A f : f \in Range(files') <=>
          \/ f \in Range(files) /\ (~f.temporary \/ f.key # KeyOf(image))
          \/ f = [key |-> KeyOf(image), tokens |-> image, temporary |-> TRUE]
    BY <1>i, <1>d, <1>2, TemporaryFacts DEF FillTemporary
  <2> QED BY <1>b, <1>s, <2>1
<1>3. CASE Restart
  <2>1. files' = Scanned BY <1>3 DEF Restart
  <2>2. Range(files') \subseteq Range(files) BY <1>d, <2>1, ScannedFacts DEF DirectoryType
  <2> QED BY <1>s, <2>2
<1>4. CASE Range(files') \subseteq Range(files)
  BY <1>4, <1>s
<1>5. CASE files' = files
  BY <1>5, <1>s
<1> QED BY <1>1, <1>2, <1>3, <1>4, <1>5, DirectoryStep

\* The index gains a name only where the writer inserts or the process restarts.
LEMMA IndexStep ==
  ASSUME TypeInv, [Next]_vars
  PROVE  \/ Insert \/ Restart
         \/ foreign' <= foreign /\ Range(index') \subseteq Range(index)
<1>t. index \in Seq(Keys) /\ foreign \in Nat BY DEF TypeInv, DirectoryType
<1>s. \A k \in Keys : Size(k) \in Nat BY KeyFacts
<1>r. ASSUME NEW k \in Range(index)
      PROVE  RemoveFirst(index, k) \in Seq(Keys) /\ k \in Keys /\ Range(RemoveFirst(index, k)) \subseteq Range(index)
  <2>1. RemoveFirst(index, k) \in Seq(Keys) /\ k \in Keys BY IndexRemoval DEF TypeInv
  <2> QED BY <1>t, <1>s, <2>1, RemoveFirstFacts
<1>1. CASE Forget
  <2>1. foreign' = foreign BY <1>1 DEF Forget
  <2>2. CASE KeyOf(probe) \in Range(index)
    <3>1. index' = RemoveFirst(index, KeyOf(probe)) BY <1>1, <2>2 DEF Forget
    <3> QED BY <1>t, <1>r, <2>1, <2>2, <3>1
  <2>3. CASE KeyOf(probe) \notin Range(index)
    BY <1>1, <1>t, <2>1, <2>3 DEF Forget
  <2> QED BY <2>2, <2>3
<1>2. CASE Touch
  <2>1. foreign' = foreign BY <1>2 DEF Touch
  <2>2. CASE KeyOf(probe) \in Range(index)
    <3>1. index' = Append(RemoveFirst(index, KeyOf(probe)), KeyOf(probe)) BY <1>2, <2>2 DEF Touch
    <3>2. PICK s : s = RemoveFirst(index, KeyOf(probe)) OBVIOUS
    <3>3. s \in Seq(Keys) /\ KeyOf(probe) \in Keys /\ Range(s) \subseteq Range(index) BY <1>r, <2>2, <3>2
    <3>4. Range(index') = Range(s) \cup {KeyOf(probe)} BY <3>1, <3>2, <3>3, RangeOfAppend
    <3> QED BY <1>t, <2>1, <2>2, <3>3, <3>4
  <2>3. CASE KeyOf(probe) \notin Range(index)
    BY <1>2, <1>t, <2>1, <2>3 DEF Touch
  <2> QED BY <2>2, <2>3
<1>3. CASE EvictForeign
  BY <1>t, <1>3 DEF EvictForeign
<1>4. CASE EvictEntry
  <2>1. Victim \in Range(index) BY <1>4, VictimFacts DEF EvictEntry, TypeInv
  <2>2. index' = RemoveFirst(index, Victim) /\ foreign' = foreign BY <1>4 DEF EvictEntry
  <2> QED BY <1>t, <1>r, <2>1, <2>2
<1>5. CASE UNCHANGED <<index, foreign>>
  BY <1>t, <1>5
<1> QED
  <2>1. [Next]_vars => \/ Forget \/ Touch \/ Insert \/ EvictForeign \/ EvictEntry \/ Restart
                       \/ UNCHANGED <<index, foreign>>
    BY DEF Next, Respond, Lookup, Write, StartLookup, Probe, ReadHeader, ReadState, RemoveFile, Stamp,
      ChooseBoundary, Store, TrySend, Skip, Take, BeginTemporary, FillTemporary, WriteFails, Publish,
      LockForEviction, SpareForeign, SpareEntry, EndEviction, Land, vars, directory
  <2> QED BY <2>1, <1>1, <1>2, <1>3, <1>4, <1>5

LEMMA SettingStep == [Next]_vars => setting' = setting
BY DEF Next, Respond, Lookup, Write, StartLookup, Probe, ReadHeader, ReadState, RemoveFile, Forget, Touch, Stamp,
  ChooseBoundary, Store, TrySend, Skip, Take, BeginTemporary, FillTemporary, WriteFails, Publish, Insert,
  LockForEviction, EvictForeign, SpareForeign, EvictEntry, SpareEntry, EndEviction, Land, Restart, vars

LEMMA SparedStep ==
  ASSUME TypeInv, Sparing, SparedIsGone, [Next]_vars
  PROVE  Sparing' /\ SparedIsGone'
<1>f. Faults' = Faults BY SettingStep DEF Faults
<1>1. CASE LockForEviction \/ EndEviction \/ Restart
  <2>1. spared' = {} BY <1>1 DEF LockForEviction, EndEviction, Restart
  <2> QED BY <2>1 DEF Sparing, SparedIsGone
<1>2. CASE SpareForeign
  <2>1. "evict" \in Faults /\ writer' = "evict" BY <1>2 DEF SpareForeign
  <2> QED BY <1>f, <2>1 DEF Sparing, SparedIsGone
<1>3. CASE SpareEntry
  <2>1. spared' = spared \cup {Victim} /\ UNCHANGED <<files, writer>> /\ writer = "evict"
    BY <1>3 DEF SpareEntry, directory
  <2>2. Victim \in Keys
    <3>1. Victim \in Range(index) BY <1>3, VictimFacts DEF SpareEntry, TypeInv
    <3> QED BY <3>1, IndexRemoval DEF TypeInv
  <2>3. ASSUME Faults \subseteq {"write"} PROVE Victim \notin Names
    <3>1. FileOf(Victim) = {} BY <1>3, <2>3 DEF SpareEntry
    <3> QED BY <3>1 DEF FileOf, Names
  <2>4. Names' = Names BY <2>1 DEF Names, Complete
  <2> QED BY <1>f, <2>1, <2>2, <2>3, <2>4, NoImageAssumption DEF Sparing, SparedIsGone
<1>4. CASE spared = {} /\ spared' = {} /\ writer # "evict"
  BY <1>4 DEF Sparing, SparedIsGone
<1>5. CASE spared' = spared /\ (writer' = "evict" <=> writer = "evict") /\ ~Publish
  <2>1. Names' \subseteq Names BY <1>5, NamesStep
  <2> QED BY <1>5, <1>f, <2>1 DEF Sparing, SparedIsGone
<1> QED
  <2>1. [Next]_vars => \/ LockForEviction \/ EndEviction \/ Restart \/ SpareForeign \/ SpareEntry
                       \/ (writer # "evict" /\ writer' # "evict" /\ spared' = spared)
                       \/ (spared' = spared /\ writer' = writer /\ UNCHANGED <<image, writer, spared>>)
    BY DEF Next, Respond, Lookup, Write, StartLookup, Probe, ReadHeader, ReadState, RemoveFile, Forget, Touch, Stamp,
      ChooseBoundary, Store, TrySend, Skip, Take, BeginTemporary, FillTemporary, WriteFails, Publish, Insert,
      EvictForeign, EvictEntry, Land, vars, writing
  <2>2. writer' = writer => ~Publish BY DEF Publish
  <2> QED BY <2>1, <2>2, <1>1, <1>2, <1>3, <1>4, <1>5 DEF Sparing

Fits ==
  \/ bytes <= Budget
  \/ foreign = 0 /\ \A k, l \in Range(index) \cap Names : k = l

LEMMA FitsStep ==
  ASSUME TypeInv, BytesAdd, SparedIsGone, FitsBudget, [Next]_vars
  PROVE  FitsBudget'
<1>t. index \in Seq(Keys) /\ foreign \in Nat BY DEF TypeInv, DirectoryType
<1>s. \A k \in Keys : Size(k) \in Nat BY KeyFacts
<1>b. bytes \in Nat /\ Budget \in Nat
  <2>1. TotalSize(index) \in Nat BY <1>t, <1>s, TotalSizeType
  <2>2. setting \in Settings BY DEF TypeInv
  <2> QED BY <1>t, <2>1, <2>2, CacheAssumption DEF BytesAdd, Budget
<1>f. Faults' = Faults /\ Budget' = Budget BY SettingStep DEF Faults, Budget
<1>q. FitsBudget <=> ((writer \in {"idle", "write", "fill", "publish", "land"} /\ Faults \subseteq {"write"}) => Fits)
  BY DEF FitsBudget, Fits, Names
<1>r. FitsBudget' <=> ((writer' \in {"idle", "write", "fill", "publish", "land"} /\ Faults' \subseteq {"write"}) => Fits')
  BY DEF FitsBudget, Fits, Names
<1>1. CASE writer' \notin {"idle", "write", "fill", "publish", "land"}
  BY <1>r, <1>1
<1>2. CASE EndEviction /\ Faults \subseteq {"write"}
  <2>1. UNCHANGED <<files, index, foreign, bytes>> BY <1>2 DEF EndEviction, directory
  <2>2. Fits
    <3>1. CASE bytes <= Budget BY <3>1 DEF Fits
    <3>2. CASE ForeignDone /\ Candidates = {}
      <4>1. foreign = 0 BY <1>2, <3>2 DEF ForeignDone, SparedIsGone
      <4>2. ASSUME NEW k \in Range(index) \cap Names PROVE k \in Kept
        <5>1. PICK i \in DOMAIN index : k = index[i] BY OfRange
        <5>2. k \in Kept \cup spared BY <3>2, <5>1 DEF Candidates
        <5> QED BY <1>2, <5>2 DEF SparedIsGone
      <4>3. \A k, l \in Kept : k = l BY DEF Kept
      <4> QED BY <4>1, <4>2, <4>3 DEF Fits
    <3> QED BY <1>2, <3>1, <3>2 DEF EndEviction
  <2>3. Names' = Names BY <2>1 DEF Names, Complete
  <2> QED BY <1>f, <1>r, <2>1, <2>2, <2>3 DEF Fits
<1>3. CASE EndEviction /\ ~ (Faults \subseteq {"write"})
  BY <1>3, <1>f, <1>r
<1>4. CASE /\ writer \in {"idle", "write", "fill", "publish", "land"} /\ bytes' <= bytes /\ bytes' \in Int
           /\ ~Insert /\ ~Restart /\ ~Publish
  <2>1. foreign' <= foreign /\ foreign' \in Nat /\ Range(index') \subseteq Range(index)
    <3>1. foreign' \in Nat BY TypeStep DEF TypeInv, DirectoryType
    <3> QED BY <3>1, <1>4, IndexStep
  <2>2. Names' \subseteq Names BY <1>4, NamesStep
  <2>3. Fits => Fits'
    <3>1. CASE bytes <= Budget
      BY <1>b, <1>f, <1>4, <3>1 DEF Fits
    <3>2. CASE foreign = 0 /\ \A k, l \in Range(index) \cap Names : k = l
      <4>1. foreign' = 0 BY <2>1, <3>2
      <4> QED BY <2>1, <2>2, <3>2, <4>1 DEF Fits
    <3> QED BY <3>1, <3>2 DEF Fits
  <2> QED BY <1>f, <1>q, <1>r, <1>4, <2>3
<1> QED
  <2>1. CASE Forget
    <3>1. writer' = writer BY <2>1 DEF Forget, writing
    <3>2. bytes' <= bytes /\ bytes' \in Int
      <4>1. CASE KeyOf(probe) \in Range(index)
        <5>1. KeyOf(probe) \in Keys BY <4>1, IndexRemoval DEF TypeInv
        <5>2. Size(KeyOf(probe)) \in Nat /\ bytes' = bytes - Size(KeyOf(probe)) BY <1>s, <2>1, <4>1, <5>1 DEF Forget
        <5> QED BY <1>b, <5>2
      <4>2. CASE KeyOf(probe) \notin Range(index)
        BY <1>b, <2>1, <4>2 DEF Forget
      <4> QED BY <4>1, <4>2
    <3>3. ~Insert /\ ~Restart /\ ~Publish
      BY <2>1 DEF Forget, Insert, Restart, Finish, Publish, writing
    <3> QED BY <1>1, <1>4, <3>1, <3>2, <3>3
  <2>2. [Next]_vars => \/ Forget \/ EndEviction
                       \/ writer' \notin {"idle", "write", "fill", "publish", "land"}
                       \/ /\ writer \in {"idle", "write", "fill", "publish", "land"} /\ bytes' = bytes
                          /\ writer' \in {"idle", "write", "fill", "publish", "land"}
    BY DEF Next, Respond, Lookup, Write, StartLookup, Probe, ReadHeader, ReadState, RemoveFile, Touch, Stamp,
      ChooseBoundary, Store, TrySend, Skip, Take, BeginTemporary, FillTemporary, WriteFails, Publish, Insert,
      LockForEviction, EvictForeign, SpareForeign, EvictEntry, SpareEntry, Land, Restart, vars, writing, directory
  <2>3. Insert \/ Restart \/ Publish => writer' \notin {"idle", "write", "fill", "publish", "land"}
    BY DEF Insert, Restart, Publish
  <2> QED BY <1>b, <1>1, <1>2, <1>3, <1>4, <2>1, <2>2, <2>3

\* Between evictions the directory as the index knows it fits its budget, or one
\* entry is all the index has in the directory.
THEOREM BudgetKept == Spec => []FitsBudget
<1>1. Init => Sparing /\ SparedIsGone /\ FitsBudget
  BY DEF Init, Sparing, SparedIsGone, FitsBudget
<1>2. Init => BytesAdd
  <2>1. ASSUME Init PROVE BytesAdd
    <3>1. foreign \in Nat BY <2>1, InitTypes DEF TypeInv, DirectoryType
    <3>2. index = << >> /\ bytes = foreign BY <2>1 DEF Init
    <3> QED BY <3>1, <3>2, TotalSizeEmpty DEF BytesAdd
  <2> QED BY <2>1
<1>3. TypeInv /\ BytesAdd /\ [Next]_vars => BytesAdd' BY BytesStep
<1>4. TypeInv /\ Sparing /\ SparedIsGone /\ [Next]_vars => Sparing' /\ SparedIsGone' BY SparedStep
<1>5. TypeInv /\ BytesAdd /\ SparedIsGone /\ FitsBudget /\ [Next]_vars => FitsBudget' BY FitsStep
<1> QED BY <1>1, <1>2, <1>3, <1>4, <1>5, TypeCorrect, PTL DEF Spec
-----------------------------------------------------------------------------
(***************************************************************************)
(* The index is the directory.  Nothing is evicted, for all the entries    *)
(* there can be fit the budget: this needs the index to list no key twice, *)
(* and so, after a restart, the directory to hold no file twice.           *)
(***************************************************************************)
LEMMA AppendDistinct ==
  ASSUME NEW K, NEW s \in Seq(K), NEW k \in K, Distinct(s), k \notin Range(s)
  PROVE  Distinct(Append(s, k))
<1>1. PICK N \in Nat : N = Len(s) OBVIOUS
<1>2. PICK t : t = Append(s, k) OBVIOUS
<1>3. Len(t) = N + 1 /\ t[N + 1] = k /\ \A i \in 1..N : t[i] = s[i] BY <1>1, <1>2
<1>4. \A i \in 1..N : s[i] \in Range(s) BY <1>1, ElementInRange
<1>5. \A i \in 1..(N + 1) : i = N + 1 \/ i \in 1..N OBVIOUS
<1>6. \A i, j \in 1..(N + 1) : t[i] = t[j] => i = j
  BY <1>1, <1>3, <1>4, <1>5 DEF Distinct
<1> QED BY <1>2, <1>3, <1>6 DEF Distinct

LEMMA RemoveFirstDistinct ==
  ASSUME NEW K, NEW s \in Seq(K), NEW k \in Range(s), Distinct(s)
  PROVE  Distinct(RemoveFirst(s, k)) /\ k \notin Range(RemoveFirst(s, k))
<1>1. PICK i \in 1..Len(s) : s[i] = k /\ RemoveFirst(s, k) = RemoveAt(s, i) BY RemoveFirstIsRemoveAt
<1>2. PICK t : t = RemoveAt(s, i) OBVIOUS
<1>3. PICK N \in Nat : N = Len(s) OBVIOUS
<1>4. /\ t \in Seq(K) /\ Len(t) = N - 1
      /\ \A n \in 1..(N - 1) : t[n] = IF n < i THEN s[n] ELSE s[n + 1]
  BY <1>2, <1>3, RemoveAtElements
<1>5. PICK at : at = [n \in 1..(N - 1) |-> IF n < i THEN n ELSE n + 1] OBVIOUS
<1>6. \A n \in 1..(N - 1) : at[n] \in 1..N /\ at[n] # i /\ t[n] = s[at[n]] BY <1>1, <1>3, <1>4, <1>5
<1>7. \A m, n \in 1..(N - 1) : at[m] = at[n] => m = n BY <1>3, <1>5
<1>8. ASSUME NEW m \in 1..(N - 1), NEW n \in 1..(N - 1), t[m] = t[n] PROVE m = n
  <2>1. at[m] \in 1..N /\ at[n] \in 1..N /\ s[at[m]] = s[at[n]] BY <1>6, <1>8
  <2>2. at[m] = at[n] BY <1>3, <2>1 DEF Distinct
  <2> QED BY <1>7, <2>2
<1>9. \A x \in Range(t) : \E n \in 1..(N - 1) : x = t[n]
  <2>1. \A x \in Range(t) : \E n \in 1..Len(t) : x = t[n] BY <1>4, ElementOfRange
  <2> QED BY <1>4, <2>1
<1>10. k \notin Range(t) BY <1>1, <1>3, <1>6, <1>9 DEF Distinct
<1>11. Distinct(t) BY <1>4, <1>8 DEF Distinct
<1> QED BY <1>1, <1>2, <1>10, <1>11

\* A list that has every one of finitely many keys.
LEMMA AllListed ==
  ASSUME NEW K, IsFiniteSet(K)
  PROVE  SetToSeq(K) \in Seq(K) /\ Range(SetToSeq(K)) = K
<1>1. PICK n \in Nat : n = Cardinality(K) /\ ExistsBijection(1..n, K) BY FS_CardinalityType
<1>2. PICK f : f \in Bijection(1..n, K) BY <1>1 DEF ExistsBijection
<1>3. f \in [1..n -> K] /\ IsInjective(f) BY <1>2 DEF Bijection, Injection
<1>4. PICK g : g = SetToSeq(K) OBVIOUS
<1>5. g \in [1..n -> K] /\ IsInjective(g) BY <1>1, <1>3, <1>4 DEF SetToSeq
<1>6. g \in Injection(1..n, K) BY <1>5 DEF Injection
<1>7. Cardinality(1..n) = n /\ IsFiniteSet(1..n) BY FS_Interval
<1>8. g \in Surjection(1..n, K) BY <1>1, <1>6, <1>7, FS_Injection
<1>9. \A x \in K : \E i \in 1..n : g[i] = x BY <1>8 DEF Surjection
<1>10. g \in Seq(K) BY <1>5
<1>11. DOMAIN g = 1..n BY <1>5
<1>12. \A i \in 1..n : g[i] \in Range(g) BY <1>11, InRange
<1>13. \A x \in Range(g) : \E i \in 1..n : x = g[i] BY <1>11, OfRange
<1>14. Range(g) = K
  <2>1. ASSUME NEW x \in Range(g) PROVE x \in K BY <1>5, <1>13
  <2>2. ASSUME NEW x \in K PROVE x \in Range(g) BY <1>9, <1>12
  <2> QED BY <2>1, <2>2
<1> QED BY <1>4, <1>10, <1>14

\* A directory has one file of a name.
UniqueFiles(s) ==
  \A i, j \in 1..Len(s) : s[i].key = s[j].key /\ s[i].temporary = s[j].temporary => i = j

LEMMA UniqueAt ==
  ASSUME NEW S, NEW s \in Seq(S), NEW P \in SUBSET (1..Len(s)), UniqueFiles(s)
  PROVE  UniqueFiles(ElementsAt(s, P))
<1>1. PICK t \in Seq(S) : t = ElementsAt(s, P) BY ElementsAtPositions
<1>2. PICK p : Embeds(p, t, s, P) BY <1>1, ElementsAtPositions
<1>3. PICK n \in Nat : n = Len(t) BY <1>1
<1>4. /\ \A i \in 1..n : p[i] \in 1..Len(s) /\ t[i] = s[p[i]]
      /\ \A i, j \in 1..n : i < j => p[i] < p[j]
  BY <1>2, <1>3 DEF Embeds
<1>5. ASSUME NEW i \in 1..n, NEW j \in 1..n, t[i].key = t[j].key, t[i].temporary = t[j].temporary
      PROVE  i = j
  <2>a. t[i] = s[p[i]] /\ t[j] = s[p[j]] /\ p[i] \in 1..Len(s) /\ p[j] \in 1..Len(s) BY <1>4
  <2>b. s[p[i]].key = s[p[j]].key /\ s[p[i]].temporary = s[p[j]].temporary BY <1>5, <2>a
  <2>1. p[i] = p[j] BY <2>a, <2>b DEF UniqueFiles
  <2>2. i < j \/ j < i \/ i = j OBVIOUS
  <2>3. p[i] \in Nat /\ p[j] \in Nat BY <1>4
  <2> QED BY <1>4, <2>1, <2>2, <2>3
<1> QED BY <1>1, <1>3, <1>5 DEF UniqueFiles

LEMMA UniqueConcat ==
  ASSUME NEW S, NEW s \in Seq(S), NEW t \in Seq(S), UniqueFiles(s), UniqueFiles(t),
         \A f \in Range(s) : \A g \in Range(t) : ~ (f.key = g.key /\ f.temporary = g.temporary)
  PROVE  UniqueFiles(s \o t)
<1>1. PICK u : u = s \o t OBVIOUS
<1>2. u \in Seq(S) /\ Len(u) = Len(s) + Len(t) BY <1>1, ConcatType
<1>3. \A i \in 1..Len(s) : u[i] = s[i] BY <1>1, <1>2
<1>4. \A i \in 1..Len(t) : u[i + Len(s)] = t[i] BY <1>1, <1>2
<1>5. \A i \in 1..Len(u) : i \in 1..Len(s) \/ (i - Len(s) \in 1..Len(t) /\ (i - Len(s)) + Len(s) = i) BY <1>2
<1>6. \A i \in 1..Len(s) : s[i] \in Range(s) BY ElementInRange
<1>7. \A i \in 1..Len(t) : t[i] \in Range(t) BY ElementInRange
<1>8. ASSUME NEW i \in 1..Len(u), NEW j \in 1..Len(u), u[i].key = u[j].key, u[i].temporary = u[j].temporary
      PROVE  i = j
  <2>1. CASE i \in 1..Len(s) /\ j \in 1..Len(s)
    BY <1>3, <1>8, <2>1 DEF UniqueFiles
  <2>2. CASE i \in 1..Len(s) /\ j \notin 1..Len(s)
    <3>1. u[i] = s[i] /\ s[i] \in Range(s) BY <1>3, <1>6, <2>2
    <3>2. u[j] = t[j - Len(s)] /\ t[j - Len(s)] \in Range(t) BY <1>4, <1>5, <1>7, <2>2
    <3> QED BY <1>8, <3>1, <3>2
  <2>3. CASE i \notin 1..Len(s) /\ j \in 1..Len(s)
    <3>1. u[j] = s[j] /\ s[j] \in Range(s) BY <1>3, <1>6, <2>3
    <3>2. u[i] = t[i - Len(s)] /\ t[i - Len(s)] \in Range(t) BY <1>4, <1>5, <1>7, <2>3
    <3> QED BY <1>8, <3>1, <3>2
  <2>4. CASE i \notin 1..Len(s) /\ j \notin 1..Len(s)
    <3>1. u[i] = t[i - Len(s)] /\ i - Len(s) \in 1..Len(t) BY <1>4, <1>5, <2>4
    <3>2. u[j] = t[j - Len(s)] /\ j - Len(s) \in 1..Len(t) BY <1>4, <1>5, <2>4
    <3>3. i - Len(s) = j - Len(s) BY <1>8, <3>1, <3>2 DEF UniqueFiles
    <3> QED BY <3>3
  <2> QED BY <2>1, <2>2, <2>3, <2>4
<1> QED BY <1>1, <1>8 DEF UniqueFiles

LEMMA UniqueAppend ==
  ASSUME NEW S, NEW s \in Seq(S), NEW x \in S, UniqueFiles(s),
         \A f \in Range(s) : ~ (f.key = x.key /\ f.temporary = x.temporary)
  PROVE  UniqueFiles(Append(s, x))
<1>1. PICK t : t = <<x>> OBVIOUS
<1>2. t \in Seq(S) /\ Len(t) = 1 /\ t[1] = x /\ Append(s, x) = s \o t BY <1>1, AppendAsConcat
<1>3. UniqueFiles(t) BY <1>2 DEF UniqueFiles
<1>4. \A f \in Range(t) : f = x BY <1>2, ElementOfRange
<1> QED BY <1>2, <1>3, <1>4, UniqueConcat

LEMMA WithoutUnique ==
  ASSUME files \in Seq(File), UniqueFiles(files), NEW P
  PROVE  UniqueFiles(Without(P))
<1>1. DOMAIN files \ P \in SUBSET (1..Len(files)) OBVIOUS
<1> QED BY <1>1, UniqueAt DEF Without

LEMMA TemporaryUnique ==
  ASSUME DirectoryType, UniqueFiles(files), NEW k \in Keys, NEW tokens \in Cacheable \cup {NoImage}
  PROVE  UniqueFiles(Append(Without(TemporaryOf(k)), [key |-> k, tokens |-> tokens, temporary |-> TRUE]))
<1>1. files \in Seq(File) BY DEF DirectoryType
<1>2. PICK s : s = Without(TemporaryOf(k)) OBVIOUS
<1>3. PICK x : x = [key |-> k, tokens |-> tokens, temporary |-> TRUE] OBVIOUS
<1>4. x \in File /\ x.key = k /\ x.temporary = TRUE BY <1>3 DEF File
<1>5. /\ s \in Seq(File)
      /\ \A f : f \in Range(s) <=> f \in Range(files) /\ (~f.temporary \/ f.key # k)
  BY <1>1, <1>2, WithoutTemporaryFacts
<1>6. UniqueFiles(s) BY <1>1, <1>2, WithoutUnique
<1>7. \A f \in Range(s) : ~ (f.key = x.key /\ f.temporary = x.temporary) BY <1>4, <1>5
<1> QED BY <1>2, <1>3, <1>4, <1>5, <1>6, <1>7, UniqueAppend

LEMMA StampUnique ==
  ASSUME DirectoryType, UniqueFiles(files), Stamp
  PROVE  UniqueFiles(files')
<1>1. files \in Seq(File) BY DEF DirectoryType
<1>2. PICK k : k = KeyOf(probe) OBVIOUS
<1>3. PICK s : s = Without(FileOf(k)) OBVIOUS
<1>4. PICK t : t = ElementsAt(files, FileOf(k)) OBVIOUS
<1>5. FileOf(k) \in SUBSET (1..Len(files)) BY <1>1 DEF FileOf, Complete
<1>6. /\ s \in Seq(File)
      /\ \A f : f \in Range(s) <=> f \in Range(files) /\ (f.temporary \/ f.key # k)
  BY <1>1, <1>3, WithoutFileFacts
<1>7. t \in Seq(File) /\ Range(t) = {files[i] : i \in FileOf(k)} BY <1>1, <1>4, <1>5, RangeOfElementsAt
<1>8. UniqueFiles(s) /\ UniqueFiles(t) BY <1>1, <1>3, <1>4, <1>5, WithoutUnique, UniqueAt
<1>9. \A g \in Range(t) : ~g.temporary /\ g.key = k BY <1>7 DEF FileOf, Complete
<1>10. \A f \in Range(s) : \A g \in Range(t) : ~ (f.key = g.key /\ f.temporary = g.temporary)
  BY <1>6, <1>9
<1>11. files' = s \o t BY <1>2, <1>3, <1>4 DEF Stamp
<1>12. UniqueFiles(s \o t) BY <1>6, <1>7, <1>8, <1>10, UniqueConcat
<1> QED BY <1>11, <1>12

LEMMA PublishUnique ==
  ASSUME DirectoryType, UniqueFiles(files), Publish
  PROVE  UniqueFiles(files')
<1>1. files \in Seq(File) BY DEF DirectoryType
<1>2. PICK k : k = KeyOf(image) OBVIOUS
<1>3. PICK s : s = Without(FileOf(k)) OBVIOUS
<1>4. /\ s \in Seq(File)
      /\ \A f : f \in Range(s) <=> f \in Range(files) /\ (f.temporary \/ f.key # k)
  BY <1>1, <1>3, WithoutFileFacts
<1>5. UniqueFiles(s) BY <1>1, <1>3, WithoutUnique
<1>6. PICK n \in Nat : n = Len(s) /\ DOMAIN s = 1..n BY <1>4
<1>7. PICK t : t = files' OBVIOUS
<1>8. t = [i \in 1..n |-> IF s[i].key = k THEN [s[i] EXCEPT !.temporary = FALSE] ELSE s[i]]
  BY <1>2, <1>3, <1>6, <1>7, Zenon DEF Publish
<1>9. ASSUME NEW i \in 1..n
      PROVE  t[i] \in File /\ t[i].key = s[i].key /\ t[i].temporary = (s[i].temporary /\ s[i].key # k)
             /\ (s[i].key = k => s[i].temporary)
  <2>1. s[i] \in File BY <1>4, <1>6
  <2>2. s[i] \in [key : Keys, tokens : Cacheable \cup {NoImage}, temporary : BOOLEAN] BY <2>1 DEF File
  <2>3. s[i] \in Range(s) BY <1>4, <1>6, ElementInRange
  <2>4. s[i].key = k => s[i].temporary BY <1>4, <2>3
  <2>5. CASE s[i].key = k
    <3>1. t[i] = [s[i] EXCEPT !.temporary = FALSE] BY <1>8, <2>5
    <3>2. t[i] \in File /\ t[i].key = s[i].key /\ t[i].temporary = FALSE BY <2>2, <3>1 DEF File
    <3> QED BY <2>4, <2>5, <3>2
  <2>6. CASE s[i].key # k
    <3>1. t[i] = s[i] BY <1>8, <2>6
    <3>2. s[i].temporary \in BOOLEAN BY <2>2
    <3> QED BY <2>1, <2>4, <2>6, <3>1, <3>2
  <2> QED BY <2>5, <2>6
<1>10. Len(t) = n BY <1>8
<1>11. ASSUME NEW i \in 1..n, NEW j \in 1..n, t[i].key = t[j].key, t[i].temporary = t[j].temporary
       PROVE  i = j
  <2>1. s[i].key = s[j].key BY <1>9, <1>11
  <2>2. s[i].temporary \in BOOLEAN /\ s[j].temporary \in BOOLEAN
    <3>1. s[i] \in File /\ s[j] \in File BY <1>4, <1>6
    <3> QED BY <3>1 DEF File
  <2>3. s[i].temporary = s[j].temporary
    <3>1. CASE s[i].key = k BY <1>9, <2>1, <2>2, <3>1
    <3>2. CASE s[i].key # k BY <1>9, <1>11, <2>1, <2>2, <3>2
    <3> QED BY <3>1, <3>2
  <2> QED BY <1>5, <1>6, <2>1, <2>3 DEF UniqueFiles
<1> QED BY <1>7, <1>10, <1>11 DEF UniqueFiles

LEMMA UniqueStep ==
  ASSUME TypeInv, UniqueFiles(files), [Next]_vars
  PROVE  UniqueFiles(files')
<1>i. writer \in {"write", "fill", "publish"} => image \in Cacheable /\ KeyOf(image) \in Keys
  BY CacheableFacts DEF TypeInv, WriterType
<1>d. DirectoryType /\ files \in Seq(File) BY DEF TypeInv, DirectoryType
<1>1. CASE RemoveFile
  BY <1>d, <1>1, WithoutUnique DEF RemoveFile
<1>2. CASE Stamp
  BY <1>d, <1>2, StampUnique
<1>3. CASE EvictEntry
  BY <1>d, <1>3, WithoutUnique DEF EvictEntry
<1>4. CASE BeginTemporary
  BY <1>d, <1>i, <1>4, TemporaryUnique DEF BeginTemporary
<1>5. CASE FillTemporary
  BY <1>d, <1>i, <1>5, TemporaryUnique DEF FillTemporary
<1>6. CASE Publish
  BY <1>d, <1>6, PublishUnique
<1>7. CASE Restart
  <2>1. Complete \in SUBSET (1..Len(files)) BY <1>d DEF Complete
  <2>2. UniqueFiles(Scanned) BY <1>d, <2>1, UniqueAt DEF Scanned
  <2> QED BY <1>7, <2>2 DEF Restart
<1>8. CASE files' = files
  BY <1>8
<1> QED
  <2>1. [Next]_vars => \/ RemoveFile \/ Stamp \/ EvictEntry \/ BeginTemporary \/ FillTemporary \/ Publish \/ Restart
                       \/ files' = files
    BY DEF Next, Respond, Lookup, Write, StartLookup, Probe, ReadHeader, ReadState, Forget, Touch,
      ChooseBoundary, Store, TrySend, Skip, Take, WriteFails, Insert, LockForEviction, EvictForeign,
      SpareForeign, SpareEntry, EndEviction, Land, vars, directory
  <2> QED BY <2>1, <1>1, <1>2, <1>3, <1>4, <1>5, <1>6, <1>7, <1>8

\* A restart indexes what it finds.
LEMMA RestartIndex ==
  ASSUME TypeInv, UniqueFiles(files), Restart
  PROVE  Distinct(index') /\ Range(index') = Names
<1>1. files \in Seq(File) BY DEF TypeInv, DirectoryType
<1>2. PICK s : s = Scanned OBVIOUS
<1>3. s \in Seq(File) /\ \A f : f \in Range(s) <=> f \in Range(files) /\ ~f.temporary
  BY <1>1, <1>2, ScannedFacts
<1>4. UniqueFiles(s)
  <2>1. Complete \in SUBSET (1..Len(files)) BY <1>1 DEF Complete
  <2> QED BY <1>1, <1>2, <2>1, UniqueAt DEF Scanned
<1>5. PICK n \in Nat : n = Len(s) /\ DOMAIN s = 1..n BY <1>3
<1>6. PICK x : x = index' OBVIOUS
<1>7. x = [i \in 1..n |-> s[i].key] BY <1>2, <1>5, <1>6 DEF Restart
<1>8. DOMAIN x = 1..n /\ Len(x) = n /\ \A i \in 1..n : x[i] = s[i].key BY <1>7
<1>9. \A i \in 1..n : s[i] \in Range(s) BY <1>3, <1>5, ElementInRange
<1>10. ASSUME NEW i \in 1..n PROVE s[i].temporary = FALSE
  <2>1. s[i] \in File BY <1>3, <1>5
  <2>2. s[i].temporary \in BOOLEAN BY <2>1 DEF File
  <2> QED BY <1>3, <1>9, <2>2
<1>11. Distinct(x) BY <1>4, <1>5, <1>8, <1>10 DEF Distinct, UniqueFiles
<1>12. \A k \in Range(x) : \E i \in 1..n : k = x[i] BY <1>8, OfRange
<1>13. \A i \in 1..n : x[i] \in Range(x) BY <1>8, InRange
<1>14. ASSUME NEW k \in Range(x) PROVE k \in Names
  <2>1. PICK i \in 1..n : k = x[i] BY <1>12
  <2> QED BY <1>3, <1>8, <1>9, <2>1, NamesFacts
<1>15. ASSUME NEW k \in Names PROVE k \in Range(x)
  <2>1. PICK f \in Range(files) : ~f.temporary /\ f.key = k BY NamesFacts
  <2>2. PICK i \in 1..n : f = s[i] BY <1>3, <1>5, <2>1, ElementOfRange
  <2> QED BY <1>8, <1>13, <2>1, <2>2
<1> QED BY <1>6, <1>11, <1>14, <1>15

\* The last use is recorded at the end of the index.
LEMMA MoveToEnd ==
  ASSUME TypeInv, Distinct(index), NEW k \in Range(index)
  PROVE  /\ Distinct(Append(RemoveFirst(index, k), k))
         /\ Range(Append(RemoveFirst(index, k), k)) = Range(index)
<1>1. index \in Seq(Keys) /\ k \in Keys BY IndexRemoval DEF TypeInv, DirectoryType
<1>2. PICK s : s = RemoveFirst(index, k) OBVIOUS
<1>3. \A x \in Keys : Size(x) \in Nat BY KeyFacts
<1>4. s \in Seq(Keys) /\ Range(s) \subseteq Range(index) /\ Range(index) \subseteq Range(s) \cup {k}
  BY <1>1, <1>2, <1>3, RemoveFirstFacts
<1>5. Distinct(s) /\ k \notin Range(s) BY <1>1, <1>2, RemoveFirstDistinct
<1>6. Distinct(Append(s, k)) BY <1>1, <1>4, <1>5, AppendDistinct
<1>7. Range(Append(s, k)) = Range(s) \cup {k} BY <1>1, <1>4, RangeOfAppend
<1> QED BY <1>2, <1>4, <1>6, <1>7

LEMMA DistinctStep ==
  ASSUME TypeInv, UniqueFiles(files), Distinct(index), [Next]_vars
  PROVE  Distinct(index')
<1>t. index \in Seq(Keys) BY DEF TypeInv, DirectoryType
<1>1. CASE Forget
  <2>1. CASE KeyOf(probe) \in Range(index)
    BY <1>t, <1>1, <2>1, RemoveFirstDistinct DEF Forget
  <2>2. CASE KeyOf(probe) \notin Range(index)
    BY <1>1, <2>2 DEF Forget
  <2> QED BY <2>1, <2>2
<1>2. CASE Touch
  BY <1>2, MoveToEnd DEF Touch
<1>3. CASE Insert
  <2>1. CASE KeyOf(image) \in Range(index)
    BY <1>3, <2>1, MoveToEnd DEF Insert
  <2>2. CASE KeyOf(image) \notin Range(index)
    <3>1. image \in Cacheable BY <1>3 DEF Insert, TypeInv, WriterType
    <3>2. KeyOf(image) \in Keys BY <3>1, CacheableFacts
    <3>3. index' = Append(index, KeyOf(image)) BY <1>3, <2>2 DEF Insert
    <3> QED BY <1>t, <2>2, <3>2, <3>3, AppendDistinct
  <2> QED BY <2>1, <2>2
<1>4. CASE EvictEntry
  <2>1. Victim \in Range(index) BY <1>4, VictimFacts DEF EvictEntry, TypeInv
  <2> QED BY <1>t, <1>4, <2>1, RemoveFirstDistinct DEF EvictEntry
<1>5. CASE Restart
  BY <1>5, RestartIndex
<1>6. CASE index' = index
  BY <1>6
<1> QED
  <2>1. [Next]_vars => \/ Forget \/ Touch \/ Insert \/ EvictEntry \/ Restart \/ index' = index
    BY DEF Next, Respond, Lookup, Write, StartLookup, Probe, ReadHeader, ReadState, RemoveFile, Stamp,
      ChooseBoundary, Store, TrySend, Skip, Take, BeginTemporary, FillTemporary, WriteFails, Publish,
      LockForEviction, EvictForeign, SpareForeign, SpareEntry, EndEviction, Land, vars, directory
  <2> QED BY <2>1, <1>1, <1>2, <1>3, <1>4, <1>5, <1>6

\* A rename has something to rename.
HasTemporary == writer = "publish" => \E f \in Range(files) : f.temporary /\ f.key = KeyOf(image)

LEMMA HasTemporaryStep ==
  ASSUME TypeInv, HasTemporary, [Next]_vars
  PROVE  HasTemporary'
<1>d. DirectoryType /\ files \in Seq(File) BY DEF TypeInv, DirectoryType
<1>1. CASE FillTemporary
  <2>0. image \in Cacheable /\ KeyOf(image) \in Keys
    BY <1>1, CacheableFacts DEF FillTemporary, TypeInv, WriterType
  <2>1. PICK x : x = [key |-> KeyOf(image), tokens |-> image, temporary |-> TRUE] OBVIOUS
  <2>2. x \in Range(files') BY <1>d, <1>1, <2>0, <2>1, TemporaryFacts DEF FillTemporary
  <2>3. x.temporary /\ x.key = KeyOf(image) BY <2>1
  <2>4. image' = image BY <1>1 DEF FillTemporary
  <2> QED BY <2>2, <2>3, <2>4 DEF HasTemporary
<1>2. CASE RemoveFile
  <2>1. files' = Without(FileOf(KeyOf(probe))) /\ UNCHANGED <<image, writer>> BY <1>2 DEF RemoveFile, writing
  <2>2. \A f \in Range(files) : f.temporary => f \in Range(files') BY <1>d, <2>1, WithoutFileFacts
  <2> QED BY <2>1, <2>2 DEF HasTemporary
<1>3. CASE Stamp
  <2>1. UNCHANGED <<image, writer>> BY <1>3 DEF Stamp, writing
  <2>2. Range(files') = Range(files) BY <1>d, <1>3, StampFacts
  <2> QED BY <2>1, <2>2 DEF HasTemporary
<1>4. CASE writer' # "publish"
  BY <1>4 DEF HasTemporary
<1>5. CASE UNCHANGED <<files, image, writer>>
  BY <1>5 DEF HasTemporary
<1> QED
  <2>1. [Next]_vars => \/ FillTemporary \/ RemoveFile \/ Stamp \/ writer' # "publish" \/ UNCHANGED <<files, image, writer>>
    BY DEF Next, Respond, Lookup, Write, StartLookup, Probe, ReadHeader, ReadState, Forget, Touch,
      ChooseBoundary, Store, TrySend, Skip, Take, BeginTemporary, WriteFails, Publish, Insert, LockForEviction,
      EvictForeign, SpareForeign, EvictEntry, SpareEntry, EndEviction, Land, Restart, vars, directory, writing
  <2> QED BY <2>1, <1>1, <1>2, <1>3, <1>4, <1>5

\* Where every entry there can be fits the budget, no entry is evicted.
LEMMA NothingEvicted ==
  ASSUME TypeInv, BytesAdd, SparedIsGone, Distinct(index), Undisturbed
  PROVE  ~EvictEntry
<1> SUFFICES ASSUME EvictEntry PROVE FALSE OBVIOUS
<1>1. index \in Seq(Keys) /\ foreign \in Nat BY DEF TypeInv, DirectoryType
<1>2. \A k \in Keys : Size(k) \in Nat BY KeyFacts
<1>3. foreign = 0 BY DEF EvictEntry, ForeignDone, SparedIsGone, Undisturbed
<1>4. TotalSize(index) \in Nat BY <1>1, <1>2, TotalSizeType
<1>5. bytes = TotalSize(index) BY <1>3, <1>4 DEF BytesAdd
<1>6. PICK s : s = SetToSeq(Keys) OBVIOUS
<1>7. s \in Seq(Keys) /\ Range(s) = Keys BY <1>6, AllListed DEF Undisturbed
<1>8. Range(index) \subseteq Range(s)
  <2>1. \A k \in Range(index) : \E i \in 1..Len(index) : k = index[i] BY <1>1, ElementOfRange
  <2> QED BY <1>1, <1>7, <2>1
<1>9. TotalSize(index) <= TotalSize(s) BY <1>1, <1>2, <1>7, <1>8, TotalSizeMonotone
<1>10. TotalSize(s) \in Nat BY <1>2, <1>7, TotalSizeType
<1>11. setting \in Settings BY DEF TypeInv
<1>12. Budget \in Nat BY <1>11, CacheAssumption DEF Budget
<1>13. TotalSize(s) <= Budget BY <1>6 DEF Undisturbed
<1>14. bytes > Budget BY DEF EvictEntry
<1> QED BY <1>4, <1>5, <1>9, <1>10, <1>12, <1>13, <1>14

Indexed == Range(index) \cup (IF writer = "insert" THEN {KeyOf(image)} ELSE {})

Settled ==
  Undisturbed =>
    /\ reader \notin {"discard", "forget"}
    /\ Names = Indexed
    /\ reader \in {"header", "state"} => KeyOf(probe) \in Range(index)

\* While nothing is removed, only a rename changes the names in the directory, ...
LEMMA NamesExactly ==
  ASSUME TypeInv, HasTemporary, [Next]_vars, ~RemoveFile, ~EvictEntry
  PROVE  IF Publish THEN Names' = Names \cup {KeyOf(image)} ELSE Names' = Names
<1>i. writer \in {"write", "fill", "publish"} => image \in Cacheable /\ KeyOf(image) \in Keys
  BY CacheableFacts DEF TypeInv, WriterType
<1>d. DirectoryType /\ files \in Seq(File) BY DEF TypeInv, DirectoryType
<1>b. \A x, y : [key |-> x, tokens |-> y, temporary |-> TRUE].temporary OBVIOUS
<1>n. \A k : k \in Names' <=> \E f \in Range(files') : ~f.temporary /\ f.key = k
  <2>1. PICK t : t = files' OBVIOUS
  <2>2. \A i \in DOMAIN t : t[i] \in Range(t) BY InRange
  <2>3. \A f \in Range(t) : \E i \in DOMAIN t : f = t[i] BY OfRange
  <2> QED BY <2>1, <2>2, <2>3 DEF Names, Complete
<1>s. (\A f : f \in Range(files') /\ ~f.temporary <=> f \in Range(files) /\ ~f.temporary) => Names' = Names
  BY <1>n, NamesFacts
<1>1. CASE BeginTemporary
  <2>1. \A f : f \in Range(files') <=>
          \/ f \in Range(files) /\ (~f.temporary \/ f.key # KeyOf(image))
          \/ f = [key |-> KeyOf(image), tokens |-> NoImage, temporary |-> TRUE]
    BY <1>i, <1>d, <1>1, TemporaryFacts DEF BeginTemporary
  <2>2. ~Publish BY <1>1 DEF BeginTemporary, Publish
  <2> QED BY <1>b, <1>s, <2>1, <2>2
<1>2. CASE FillTemporary
  <2>1. \A f : f \in Range(files') <=>
          \/ f \in Range(files) /\ (~f.temporary \/ f.key # KeyOf(image))
          \/ f = [key |-> KeyOf(image), tokens |-> image, temporary |-> TRUE]
    BY <1>i, <1>d, <1>2, TemporaryFacts DEF FillTemporary
  <2>2. ~Publish BY <1>2 DEF FillTemporary, Publish
  <2> QED BY <1>b, <1>s, <2>1, <2>2
<1>3. CASE Restart
  <2>1. files' = Scanned BY <1>3 DEF Restart
  <2>2. \A f : f \in Range(files') <=> f \in Range(files) /\ ~f.temporary BY <1>d, <2>1, ScannedFacts
  <2>3. ~Publish BY <1>3 DEF Restart, Publish
  <2> QED BY <1>s, <2>2, <2>3
<1>4. CASE Stamp
  <2>1. Range(files') = Range(files) BY <1>d, <1>4, StampFacts
  <2>2. ~Publish BY <1>4 DEF Stamp, Publish, writing
  <2> QED BY <1>s, <2>1, <2>2
<1>5. CASE Publish
  <2>1. \A f : f \in Range(files') <=>
          \/ f \in Range(files) /\ f.key # KeyOf(image)
          \/ \E g \in Range(files) : g.temporary /\ g.key = KeyOf(image) /\ f = Completed(g)
    BY <1>d, <1>5, PublishFacts
  <2>2. \A g : ~Completed(g).temporary /\ Completed(g).key = g.key BY DEF Completed
  <2>3. PICK h \in Range(files) : h.temporary /\ h.key = KeyOf(image) BY <1>5 DEF HasTemporary, Publish
  <2>4. KeyOf(image) \in Names' BY <1>n, <2>1, <2>2, <2>3
  <2>5. ASSUME NEW k \in Names, k # KeyOf(image) PROVE k \in Names'
    BY <1>n, <2>1, <2>5, NamesFacts
  <2>6. ASSUME NEW k \in Names', k # KeyOf(image) PROVE k \in Names
    <3>1. PICK f \in Range(files') : ~f.temporary /\ f.key = k BY <1>n
    <3>2. f \in Range(files) BY <2>1, <2>2, <2>6, <3>1
    <3> QED BY <3>1, <3>2, NamesFacts
  <2> QED BY <1>5, <2>4, <2>5, <2>6
<1>6. CASE files' = files /\ ~Publish
  BY <1>6, <1>s
<1> QED
  <2>1. [Next]_vars => \/ RemoveFile \/ Stamp \/ EvictEntry \/ BeginTemporary \/ FillTemporary \/ Publish \/ Restart
                       \/ files' = files
    BY DEF Next, Respond, Lookup, Write, StartLookup, Probe, ReadHeader, ReadState, Forget, Touch,
      ChooseBoundary, Store, TrySend, Skip, Take, WriteFails, Insert, LockForEviction, EvictForeign,
      SpareForeign, SpareEntry, EndEviction, Land, vars, directory
  <2> QED BY <2>1, <1>1, <1>2, <1>3, <1>4, <1>5, <1>6

\* ... and only the insertion that follows it those in the index.
LEMMA IndexedExactly ==
  ASSUME TypeInv, UniqueFiles(files), Distinct(index), Names = Indexed, [Next]_vars,
         ~RemoveFile, ~Forget, ~EvictEntry
  PROVE  /\ Indexed' = IF Publish THEN Indexed \cup {KeyOf(image)} ELSE Indexed
         /\ Restart \/ Range(index) \subseteq Range(index')
<1>t. index \in Seq(Keys) BY DEF TypeInv, DirectoryType
<1>1. CASE Touch
  <2>1. Range(index') = Range(index) BY <1>1, MoveToEnd DEF Touch
  <2>2. UNCHANGED <<writer, image>> /\ ~Publish BY <1>1 DEF Touch, Publish, writing
  <2> QED BY <2>1, <2>2 DEF Indexed
<1>2. CASE Insert
  <2>1. writer = "insert" /\ writer' = "inserted" /\ image' = image /\ ~Publish BY <1>2 DEF Insert, Publish
  <2>2. Range(index') = Range(index) \cup {KeyOf(image)}
    <3>1. CASE KeyOf(image) \in Range(index)
      BY <1>2, <3>1, MoveToEnd DEF Insert
    <3>2. CASE KeyOf(image) \notin Range(index)
      <4>1. image \in Cacheable BY <1>2 DEF Insert, TypeInv, WriterType
      <4>2. KeyOf(image) \in Keys BY <4>1, CacheableFacts
      <4>3. index' = Append(index, KeyOf(image)) BY <1>2, <3>2 DEF Insert
      <4> QED BY <1>t, <4>2, <4>3, RangeOfAppend
    <3> QED BY <3>1, <3>2
  <2> QED BY <2>1, <2>2 DEF Indexed
<1>3. CASE Restart
  <2>1. Range(index') = Names /\ writer' = "evict" /\ ~Publish BY <1>3, RestartIndex DEF Restart, Publish
  <2> QED BY <1>3, <2>1 DEF Indexed
<1>4. CASE Publish
  <2>1. index' = index /\ image' = image /\ writer = "publish" /\ writer' = "insert" BY <1>4 DEF Publish
  <2> QED BY <1>4, <2>1 DEF Indexed
<1>5. CASE index' = index /\ writer # "insert" /\ writer' # "insert"
  <2>1. ~Publish BY <1>5 DEF Publish
  <2> QED BY <1>5, <2>1 DEF Indexed
<1>6. CASE UNCHANGED <<index, writer, image>>
  <2>1. ~Publish BY <1>6 DEF Publish
  <2> QED BY <1>6, <2>1 DEF Indexed
<1> QED
  <2>1. [Next]_vars => \/ Forget \/ Touch \/ Insert \/ EvictEntry \/ Restart \/ Publish
                       \/ (index' = index /\ writer # "insert" /\ writer' # "insert") \/ UNCHANGED <<index, writer, image>>
    BY DEF Next, Respond, Lookup, Write, StartLookup, Probe, ReadHeader, ReadState, RemoveFile, Stamp,
      ChooseBoundary, Store, TrySend, Skip, Take, BeginTemporary, FillTemporary, WriteFails,
      LockForEviction, EvictForeign, SpareForeign, SpareEntry, EndEviction, Land, vars, directory, writing
  <2> QED BY <2>1, <1>1, <1>2, <1>3, <1>4, <1>5, <1>6

\* What the directory names is stored.
LEMMA NamedIsStored ==
  ASSUME DirectoryType, Whole, NEW k \in Names
  PROVE  Stored(k) \in Cacheable /\ KeyOf(Stored(k)) = k /\ Stored(k) # NoImage
<1>1. files \in Seq(File) BY DEF DirectoryType
<1>2. FileOf(k) # {} BY DEF Names, FileOf
<1>3. FileOf(k) \subseteq Nat /\ FileOf(k) \subseteq DOMAIN files BY <1>1 DEF FileOf, Complete
<1>4. PICK m \in FileOf(k) : \A y \in FileOf(k) : m <= y BY <1>2, <1>3, LeastNat
<1>5. Min(FileOf(k)) \in FileOf(k) BY <1>4 DEF Min
<1>6. PICK i \in FileOf(k) : i = Min(FileOf(k)) BY <1>5
<1>7. Stored(k) = files[i].tokens BY <1>2, <1>6 DEF Stored
<1>8. ~files[i].temporary /\ files[i].key = k /\ i \in DOMAIN files BY <1>6 DEF FileOf, Complete
<1>9. files[i] \in Range(files) BY <1>8, InRange
<1> QED BY <1>7, <1>8, <1>9, NoImageAssumption DEF Whole

LEMMA SettledStep ==
  ASSUME HashIsExact, TypeInv, BytesAdd, SparedIsGone, Whole, HasTemporary, UniqueFiles(files), Distinct(index),
         Settled, [Next]_vars
  PROVE  Settled'
<1> SUFFICES ASSUME Undisturbed'
             PROVE  (/\ reader \notin {"discard", "forget"}
                     /\ Names = Indexed
                     /\ reader \in {"header", "state"} => KeyOf(probe) \in Range(index))'
  BY DEF Settled
<1>u. Undisturbed
  <2>1. setting' = setting BY SettingStep
  <2> QED BY <2>1 DEF Undisturbed, Faults, Budget
<1>s. /\ reader \notin {"discard", "forget"} /\ Names = Indexed
      /\ reader \in {"header", "state"} => KeyOf(probe) \in Range(index)
  BY <1>u DEF Settled
<1>e. ~EvictEntry /\ ~RemoveFile /\ ~Forget
  BY <1>u, <1>s, NothingEvicted DEF RemoveFile, Forget
<1>n. Names' = Indexed'
  BY <1>s, <1>e, NamesExactly, IndexedExactly
<1>i. Restart \/ Range(index) \subseteq Range(index')
  BY <1>s, <1>e, IndexedExactly
<1>o. reader \in {"header", "state"} =>
        /\ Images(KeyOf(probe)) = {probe} /\ Headers(KeyOf(probe)) = {probe} /\ probe # NoImage
  <2>1. SUFFICES ASSUME reader \in {"header", "state"}
                 PROVE  Readings(KeyOf(probe)) = {probe} /\ probe # NoImage
    BY DEF Images, Headers
  <2>2. KeyOf(probe) \in Names BY <1>s, <2>1 DEF Indexed
  <2>3. Stored(KeyOf(probe)) \in Cacheable /\ KeyOf(Stored(KeyOf(probe))) = KeyOf(probe)
        /\ Stored(KeyOf(probe)) # NoImage
    BY <2>2, NamedIsStored DEF TypeInv
  <2>4. probe \in Cacheable
    <3>1. Probing /\ reader # "idle" BY <2>1 DEF TypeInv, RequestType
    <3> QED BY <3>1, ProbeFacts
  <2>5. Stored(KeyOf(probe)) = probe BY <2>3, <2>4 DEF HashIsExact
  <2>6. "read" \notin Faults BY <1>u DEF Undisturbed
  <2> QED BY <2>3, <2>5, <2>6 DEF Readings
<1>1. CASE Probe
  <2>1. UNCHANGED index /\ reader' \in {"probe", "header", "answered"} BY <1>1 DEF Probe, directory
  <2>2. reader' = "header" => KeyOf(probe') \in Range(index) BY <1>1 DEF Probe
  <2> QED BY <1>n, <2>1, <2>2
<1>2. CASE ReadHeader
  <2>1. reader' = "state" /\ UNCHANGED <<index, probe>> /\ reader = "header"
    BY <1>o, <1>2 DEF ReadHeader, directory
  <2> QED BY <1>n, <1>s, <2>1
<1>3. CASE ReadState
  <2>1. reader' = "touch" BY <1>o, <1>3 DEF ReadState
  <2> QED BY <1>n, <2>1
<1>4. CASE reader' \in {"idle", "probe", "touch", "stamp", "answered", "store", "send", "skip"}
  BY <1>n, <1>4
<1>5. CASE UNCHANGED <<reader, probe>> /\ ~Restart
  BY <1>n, <1>i, <1>s, <1>5
<1> QED
  <2>1. [Next]_vars => \/ Probe \/ ReadHeader \/ ReadState \/ RemoveFile
                       \/ reader' \in {"idle", "probe", "touch", "stamp", "answered", "store", "send", "skip"}
                       \/ UNCHANGED <<reader, probe>>
    BY DEF Next, Respond, Lookup, Write, StartLookup, Forget, Touch, Stamp, Finish,
      ChooseBoundary, Store, TrySend, Skip, Take, BeginTemporary, FillTemporary, WriteFails, Publish, Insert,
      LockForEviction, EvictForeign, SpareForeign, EvictEntry, SpareEntry, EndEviction, Land, Restart, vars, request
  <2>2. Restart => reader' = "idle" BY DEF Restart, Finish
  <2> QED BY <2>1, <2>2, <1>1, <1>2, <1>3, <1>4, <1>5, <1>e

LEMMA InitDirectory ==
  Init => BytesAdd /\ Sparing /\ SparedIsGone /\ HasTemporary /\ UniqueFiles(files) /\ Distinct(index) /\ Settled
<1> SUFFICES ASSUME Init PROVE BytesAdd /\ Sparing /\ SparedIsGone /\ HasTemporary /\ UniqueFiles(files) /\ Distinct(index) /\ Settled
  OBVIOUS
<1>1. files = << >> /\ index = << >> /\ writer = "evict" /\ reader = "idle" /\ spared = {} BY DEF Init
<1>2. PICK e : e = << >> OBVIOUS
<1>3. DOMAIN e = {} /\ Len(e) = 0 BY <1>2
<1>4. Range(e) = {} BY <1>3, OfRange
<1>5. BytesAdd
  <2>1. foreign \in Nat BY InitTypes DEF TypeInv, DirectoryType
  <2>2. index = << >> /\ bytes = foreign BY DEF Init
  <2> QED BY <2>1, <2>2, TotalSizeEmpty DEF BytesAdd
<1>6. UniqueFiles(files) /\ Distinct(index) BY <1>1, <1>2, <1>3 DEF UniqueFiles, Distinct
<1>7. Names = {} /\ Indexed = {} BY <1>1, <1>2, <1>4, NamesFacts DEF Indexed
<1> QED BY <1>1, <1>5, <1>6, <1>7 DEF Sparing, SparedIsGone, HasTemporary, Settled

\* Where all the entries there can be fit the budget, reads do not fail and the hash
\* does not collide, the entries are the files but between a rename and the insertion
\* that follows it: through failed writes and restarts at any point.
THEOREM IndexFollowsDirectory ==
  ASSUME HashIsExact
  PROVE  Spec => []IndexIsDirectory
<1>1. TypeInv /\ BytesAdd /\ [Next]_vars => BytesAdd' BY BytesStep
<1>2. TypeInv /\ Sparing /\ SparedIsGone /\ [Next]_vars => Sparing' /\ SparedIsGone' BY SparedStep
<1>3. TypeInv /\ Whole /\ Filled /\ [Next]_vars => Whole' /\ Filled' BY WholeStep
<1>4. TypeInv /\ HasTemporary /\ [Next]_vars => HasTemporary' BY HasTemporaryStep
<1>5. TypeInv /\ UniqueFiles(files) /\ [Next]_vars => UniqueFiles(files)' BY UniqueStep
<1>6. TypeInv /\ UniqueFiles(files) /\ Distinct(index) /\ [Next]_vars => Distinct(index)' BY DistinctStep
<1>7. /\ TypeInv /\ BytesAdd /\ SparedIsGone /\ Whole /\ HasTemporary /\ UniqueFiles(files) /\ Distinct(index) /\ Settled
      /\ [Next]_vars
      => Settled'
  BY SettledStep
<1>8. Settled => IndexIsDirectory
  BY DEF Settled, IndexIsDirectory, Indexed, Names
<1> QED BY <1>1, <1>2, <1>3, <1>4, <1>5, <1>6, <1>7, <1>8, InitDirectory, InitWhole, TypeCorrect, PTL DEF Spec
=============================================================================
