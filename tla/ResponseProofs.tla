--------------------------- MODULE ResponseProofs ---------------------------
(***************************************************************************)
(* The reply is what the generated text says, however the text is cut into *)
(* chunks: for every set of tokens and requests and every bound.  In every *)
(* conversation prompts repeat the prefix they are cached at, and the jobs *)
(* can be served: whatever the servers, tools, requests and turns.         *)
(***************************************************************************)
EXTENDS ResponseProps, ConversationProps, SeqLemmas

\* The symbols of texts; those of the markers are named for the provers.
Symbols ==
  STRING \cup {"<", "tool_call>", "/tool_call>", "/think>", "<think>", "\n", "n", "<function=",
               "</function>", "<parameter=", "</parameter>", ">", "{", "}", "[", "]", ",", ":", " ",
               "\"", "\\", "<|im_start|>", "<|im_end|>", "<tool_response>", "</tool_response>",
               "system", "user", "assistant", "tool", "function", "text", "# Tools", "<tools>",
               "</tools>", "<IMPORTANT>", "not an object"}
Text == Seq(Symbols)

LEMMA StringsAreText ==
  Seq(STRING) \subseteq Text
<1>1. STRING \subseteq Symbols
  BY DEF Symbols
<1>2. ASSUME NEW S, NEW T, S \subseteq T PROVE Seq(S) \subseteq Seq(T)
  BY <1>2
<1> QED BY <1>1, <1>2 DEF Text

\* A pattern starts at a position, position by position.
Begins(text, pattern, i) ==
  /\ i \in 1..Len(text) /\ i + Len(pattern) - 1 <= Len(text)
  /\ \A k \in 1..Len(pattern) : text[i + k - 1] = pattern[k]

LEMMA Slice ==
  ASSUME NEW S, NEW s \in Seq(S), NEW i \in 1..(Len(s) + 1), NEW j \in (i - 1)..Len(s)
  PROVE  /\ SubSeq(s, i, j) \in Seq(S) /\ Len(SubSeq(s, i, j)) = j - i + 1
         /\ \A k \in 1..(j - i + 1) : SubSeq(s, i, j)[k] = s[i + k - 1]
OBVIOUS

LEMMA Concat ==
  ASSUME NEW S, NEW s \in Seq(S), NEW t \in Seq(S)
  PROVE  /\ s \o t \in Seq(S) /\ Len(s \o t) = Len(s) + Len(t)
         /\ \A k \in 1..Len(s) : (s \o t)[k] = s[k]
         /\ \A k \in 1..Len(t) : (s \o t)[Len(s) + k] = t[k]
OBVIOUS

LEMMA OccurrencesBegin ==
  ASSUME NEW text \in Text, NEW pattern \in Text, pattern # << >>
  PROVE  Occurrences(text, pattern) = {i \in 1..Len(text) : Begins(text, pattern, i)}
<1>1. Len(pattern) \in Nat \ {0} /\ Len(text) \in Nat
  BY DEF Text
<1>2. ASSUME NEW i \in 1..(Len(text) - Len(pattern) + 1)
      PROVE  SubSeq(text, i, i + Len(pattern) - 1) = pattern <=> Begins(text, pattern, i)
  <2>1. i \in 1..(Len(text) + 1) /\ i + Len(pattern) - 1 \in (i - 1)..Len(text) /\ i \in 1..Len(text)
    BY <1>1, <1>2
  <2>2. PICK t : t = SubSeq(text, i, i + Len(pattern) - 1)
    OBVIOUS
  <2>3. t \in Text /\ Len(t) = Len(pattern) /\ \A k \in 1..Len(pattern) : t[k] = text[i + k - 1]
    BY <1>1, <2>1, <2>2, Slice DEF Text
  <2>4. t = pattern <=> \A k \in 1..Len(pattern) : t[k] = pattern[k]
    BY <2>3, SeqEqual DEF Text
  <2>5. t = pattern <=> \A k \in 1..Len(pattern) : text[i + k - 1] = pattern[k]
    BY <2>3, <2>4
  <2> QED BY <1>1, <2>1, <2>2, <2>5 DEF Begins
<1>3. ASSUME NEW i \in 1..Len(text), Begins(text, pattern, i)
      PROVE  i \in 1..(Len(text) - Len(pattern) + 1)
  BY <1>1, <1>3 DEF Begins
<1>4. \A i \in 1..(Len(text) - Len(pattern) + 1) : i \in 1..Len(text)
  BY <1>1
<1> QED BY <1>2, <1>3, <1>4 DEF Occurrences

\* The least and the greatest of a set of numbers.
LEMMA MinIsLeast ==
  ASSUME NEW T \in SUBSET Nat, T # {}
  PROVE  Min(T) \in T /\ \A y \in T : Min(T) <= y
<1>1. \E m \in T : \A y \in T : m <= y
  BY LeastNat
<1> QED BY <1>1 DEF Min

LEMMA MinIs ==
  ASSUME NEW T \in SUBSET Nat, NEW m \in T, \A y \in T : m <= y
  PROVE  Min(T) = m
<1>1. Min(T) \in T /\ \A y \in T : Min(T) <= y
  BY MinIsLeast
<1>2. Min(T) <= m /\ m <= Min(T) /\ m \in Nat /\ Min(T) \in Nat
  BY <1>1
<1> QED BY <1>2

LEMMA MaxIsGreatest ==
  ASSUME NEW N \in Nat, NEW T \in SUBSET (0..N), T # {}
  PROVE  Max(T) \in T /\ \A y \in T : y <= Max(T)
<1>1. PICK U : U = {N - x : x \in T}
  OBVIOUS
<1>a. \A x \in T : N - x \in Nat
  OBVIOUS
<1>2. U \subseteq Nat /\ U # {}
  BY <1>1, <1>a
<1>3. PICK u \in U : \A y \in U : u <= y
  BY <1>2, LeastNat
<1>4. PICK m \in T : u = N - m
  BY <1>1, <1>3
<1>5. ASSUME NEW y \in T PROVE m >= y
  <2>1. N - y \in U BY <1>1
  <2>2. N - m <= N - y BY <1>3, <1>4, <2>1
  <2>3. m \in 0..N /\ y \in 0..N OBVIOUS
  <2> QED BY <2>2, <2>3
<1>6. Max(T) \in T /\ \A y \in T : Max(T) >= y
  BY <1>5 DEF Max
<1>7. ASSUME NEW y \in T PROVE y <= Max(T)
  <2>1. Max(T) \in 0..N /\ y \in 0..N BY <1>6
  <2> QED BY <1>6, <2>1
<1> QED BY <1>6, <1>7
-----------------------------------------------------------------------------
(***************************************************************************)
(* The stop buffer.  What it holds of the text it was given is the longest *)
(* end of it that may begin a stop, and no stop is in that text.           *)
(***************************************************************************)
Starts(text, marks) == UNION {Occurrences(text, stop) : stop \in marks}

\* The text ends in the first n symbols of a stop, which is longer.
EndsIn(text, stop, n) ==
  /\ n \in 1..Len(text) /\ n < Len(stop)
  /\ \A k \in 1..n : text[Len(text) - n + k] = stop[k]

\* What follows the first d symbols of a text.
IsTail(tail, text, d) ==
  /\ d \in Nat /\ Len(text) = d + Len(tail)
  /\ \A k \in 1..Len(tail) : tail[k] = text[d + k]

Holds(marks, held, text) ==
  /\ Starts(text, marks) = {}
  /\ IsTail(held, text, Len(text) - Len(held))
  /\ \A stop \in marks, n \in 1..Len(text) : EndsIn(text, stop, n) => n <= Len(held)
  /\ held # << >> => \E stop \in marks : EndsIn(text, stop, Len(held))

Extends(longer, text) ==
  Len(text) <= Len(longer) /\ \A k \in 1..Len(text) : longer[k] = text[k]

\* What a buffer that holds the end of a text has let out.
Out(text, held) == SubSeq(text, 1, Len(text) - Len(held))

StopSets == SUBSET (Text \ {<< >>})

LEMMA LenOfText ==
  ASSUME NEW text \in Text
  PROVE  Len(text) \in Nat /\ (text = << >> <=> Len(text) = 0)
BY DEF Text

LEMMA StartsBegin ==
  ASSUME NEW text \in Text, NEW marks \in StopSets
  PROVE  /\ Starts(text, marks) \subseteq 1..Len(text)
         /\ \A i : i \in Starts(text, marks) <=> \E stop \in marks : Begins(text, stop, i)
<1>1. ASSUME NEW stop \in marks
      PROVE  Occurrences(text, stop) = {i \in 1..Len(text) : Begins(text, stop, i)}
  BY OccurrencesBegin DEF StopSets
<1>2. \A i, stop : Begins(text, stop, i) => i \in 1..Len(text)
  BY DEF Begins
<1> QED BY <1>1, <1>2 DEF Starts

LEMMA BeginsInTail ==
  ASSUME NEW text \in Text, NEW tail \in Text, NEW d, IsTail(tail, text, d),
         NEW pattern \in Text, NEW i \in 1..Len(tail)
  PROVE  Begins(tail, pattern, i) <=> Begins(text, pattern, d + i)
<1>1. /\ Len(text) \in Nat /\ Len(tail) \in Nat /\ d \in Nat /\ Len(pattern) \in Nat
      /\ Len(text) = d + Len(tail)
  BY LenOfText DEF IsTail
<1>2. i + Len(pattern) - 1 <= Len(tail) <=> d + i + Len(pattern) - 1 <= Len(text)
  BY <1>1
<1>3. ASSUME i + Len(pattern) - 1 <= Len(tail), NEW k \in 1..Len(pattern)
      PROVE  tail[i + k - 1] = text[d + i + k - 1]
  <2>1. i + k - 1 \in 1..Len(tail) /\ d + (i + k - 1) = d + i + k - 1
    BY <1>1, <1>3
  <2> QED BY <2>1 DEF IsTail
<1>4. d + i \in 1..Len(text)
  BY <1>1
<1> QED BY <1>2, <1>3, <1>4 DEF Begins

LEMMA StartsInTail ==
  ASSUME NEW text \in Text, NEW tail \in Text, NEW d, IsTail(tail, text, d),
         NEW marks \in StopSets, NEW i \in 1..Len(tail)
  PROVE  i \in Starts(tail, marks) <=> d + i \in Starts(text, marks)
<1>1. \A stop \in marks : Begins(tail, stop, i) <=> Begins(text, stop, d + i)
  BY BeginsInTail DEF StopSets
<1> QED BY <1>1, StartsBegin

\* What is held and more is the end of the text and more.
LEMMA TailGrows ==
  ASSUME NEW text \in Text, NEW held \in Text, NEW more \in Text, NEW d, IsTail(held, text, d)
  PROVE  /\ text \o more \in Text /\ held \o more \in Text
         /\ IsTail(held \o more, text \o more, d)
         /\ Len(text \o more) = Len(text) + Len(more) /\ Len(held \o more) = Len(held) + Len(more)
<1>1. /\ Len(text) \in Nat /\ Len(held) \in Nat /\ Len(more) \in Nat /\ d \in Nat
      /\ Len(text) = d + Len(held)
  BY LenOfText DEF IsTail
<1> DEFINE t == text \o more
           h == held \o more
<1>2. /\ t \in Text /\ Len(t) = Len(text) + Len(more)
      /\ \A k \in 1..Len(text) : t[k] = text[k]
      /\ \A k \in 1..Len(more) : t[Len(text) + k] = more[k]
  BY Concat DEF Text
<1>3. /\ h \in Text /\ Len(h) = Len(held) + Len(more)
      /\ \A k \in 1..Len(held) : h[k] = held[k]
      /\ \A k \in 1..Len(more) : h[Len(held) + k] = more[k]
  BY Concat DEF Text
<1> HIDE DEF t, h
<1>4. ASSUME NEW k \in 1..Len(h) PROVE h[k] = t[d + k]
  <2>1. CASE k <= Len(held)
    <3>1. k \in 1..Len(held) /\ d + k \in 1..Len(text)
      BY <1>1, <1>3, <2>1
    <3>2. held[k] = text[d + k]
      BY <3>1 DEF IsTail
    <3> QED BY <1>2, <1>3, <3>1, <3>2
  <2>2. CASE k > Len(held)
    <3>1. PICK j : j = k - Len(held)
      OBVIOUS
    <3>2. j \in 1..Len(more) /\ k = Len(held) + j /\ d + k = Len(text) + j
      BY <1>1, <1>3, <2>2, <3>1
    <3> QED BY <1>2, <1>3, <3>2
  <2> QED BY <1>1, <1>3, <2>1, <2>2
<1>5. IsTail(h, t, d)
  BY <1>1, <1>2, <1>3, <1>4 DEF IsTail
<1> QED BY <1>2, <1>3, <1>5 DEF t, h

\* A stop in a longer text begins in what is held of the text or after it.
LEMMA StartsBeyond ==
  ASSUME NEW marks \in StopSets, NEW held \in Text, NEW text \in Text, NEW longer \in Text,
         Extends(longer, text),
         Holds(marks, held, text), NEW i \in Starts(longer, marks)
  PROVE  i > Len(text) - Len(held)
<1>1. PICK stop \in marks : Begins(longer, stop, i)
  BY StartsBegin
<1>2. /\ Len(text) \in Nat /\ Len(held) \in Nat /\ Len(stop) \in Nat /\ Len(longer) \in Nat
      /\ stop \in Text /\ i \in 1..Len(longer)
  BY <1>1, LenOfText DEF StopSets, Begins
<1> SUFFICES ASSUME i <= Len(text) - Len(held) PROVE FALSE
  BY <1>2
<1>3. i \in 1..Len(text) /\ Len(held) <= Len(text)
  BY <1>2 DEF Holds, IsTail
<1>4. CASE i + Len(stop) - 1 <= Len(text)
  <2>1. ASSUME NEW k \in 1..Len(stop) PROVE text[i + k - 1] = stop[k]
    <3>1. i + k - 1 \in 1..Len(text)
      BY <1>2, <1>3, <1>4
    <3> QED BY <1>1, <3>1 DEF Begins, Extends
  <2>2. Begins(text, stop, i)
    BY <1>3, <1>4, <2>1 DEF Begins
  <2>3. i \in Starts(text, marks)
    BY <2>2, StartsBegin
  <2> QED BY <2>3 DEF Holds
<1>5. CASE i + Len(stop) - 1 > Len(text)
  <2>1. PICK n : n = Len(text) - i + 1
    OBVIOUS
  <2>2. n \in 1..Len(text) /\ n < Len(stop)
    BY <1>2, <1>3, <1>5, <2>1
  <2>3. ASSUME NEW k \in 1..n PROVE text[Len(text) - n + k] = stop[k]
    <3>1. k \in 1..Len(stop) /\ Len(text) - n + k = i + k - 1 /\ i + k - 1 \in 1..Len(text)
      BY <1>2, <1>3, <2>1, <2>2
    <3> QED BY <1>1, <3>1 DEF Begins, Extends
  <2>4. EndsIn(text, stop, n)
    BY <2>2, <2>3 DEF EndsIn
  <2>5. n <= Len(held)
    BY <2>2, <2>4 DEF Holds
  <2> QED BY <1>2, <1>3, <2>1, <2>5
<1> QED BY <1>2, <1>3, <1>4, <1>5

LEMMA PartialSuffixesEnd ==
  ASSUME NEW marks \in StopSets, NEW held \in Text
  PROVE  PartialSuffixes([stops |-> marks, held |-> held]) =
           {n \in 1..Len(held) : \E stop \in marks : EndsIn(held, stop, n)}
<1>1. Len(held) \in Nat
  BY LenOfText
<1>2. ASSUME NEW n \in 1..Len(held), NEW stop \in marks
      PROVE  n < Len(stop) /\ SubSeq(stop, 1, n) = From(held, Len(held) - n + 1)
               <=> EndsIn(held, stop, n)
  <2>1. stop \in Text /\ Len(stop) \in Nat
    BY LenOfText DEF StopSets
  <2>2. CASE n < Len(stop)
    <3>1. PICK a : a = SubSeq(stop, 1, n)
      OBVIOUS
    <3>2. PICK b : b = From(held, Len(held) - n + 1)
      OBVIOUS
    <3>3. n \in 0..Len(stop) /\ Len(held) - n + 1 \in 1..(Len(held) + 1)
          /\ Len(held) \in (Len(held) - n + 1 - 1)..Len(held)
      BY <1>1, <1>2, <2>1, <2>2
    <3>4. a \in Text /\ Len(a) = n /\ \A k \in 1..n : a[k] = stop[k]
      BY <2>1, <3>1, <3>3, PrefixType DEF Text
    <3>5. /\ b \in Text /\ Len(b) = Len(held) - (Len(held) - n + 1) + 1
          /\ \A k \in 1..(Len(held) - (Len(held) - n + 1) + 1) :
               b[k] = held[Len(held) - n + 1 + k - 1]
      BY <3>2, <3>3, Slice DEF Text, From
    <3>6. Len(b) = n /\ \A k \in 1..n : b[k] = held[Len(held) - n + k]
      <4>1. Len(held) - (Len(held) - n + 1) + 1 = n
        BY <1>1
      <4>2. \A k \in 1..n : Len(held) - n + 1 + k - 1 = Len(held) - n + k
        BY <1>1
      <4> QED BY <3>5, <4>1, <4>2
    <3>7. a = b <=> \A k \in 1..n : a[k] = b[k]
      BY <3>4, <3>5, <3>6, SeqEqual DEF Text
    <3>8. a = b <=> \A k \in 1..n : held[Len(held) - n + k] = stop[k]
      BY <3>4, <3>6, <3>7
    <3> QED BY <1>2, <2>2, <3>1, <3>2, <3>8 DEF EndsIn
  <2>3. CASE ~(n < Len(stop))
    BY <2>3 DEF EndsIn
  <2> QED BY <2>2, <2>3
<1>3. PICK buffer : buffer = [stops |-> marks, held |-> held]
  OBVIOUS
<1>4. buffer.stops = marks /\ buffer.held = held
  BY <1>3
<1>5. PartialSuffixes(buffer) =
        {n \in 1..Len(held) : \E stop \in marks :
           n < Len(stop) /\ SubSeq(stop, 1, n) = From(held, Len(held) - n + 1)}
  BY <1>4 DEF PartialSuffixes
<1> QED BY <1>2, <1>3, <1>5

LEMMA LongestEnds ==
  ASSUME NEW marks \in StopSets, NEW held \in Text,
         NEW n, n = LongestPartialSuffix([stops |-> marks, held |-> held])
  PROVE  /\ n \in 0..Len(held)
         /\ n # 0 => \E stop \in marks : EndsIn(held, stop, n)
         /\ \A stop \in marks, m \in 1..Len(held) : EndsIn(held, stop, m) => m <= n
<1>1. PICK T : T = {0} \cup PartialSuffixes([stops |-> marks, held |-> held])
  OBVIOUS
<1>2. T = {0} \cup {m \in 1..Len(held) : \E stop \in marks : EndsIn(held, stop, m)}
  BY <1>1, PartialSuffixesEnd
<1>3. Len(held) \in Nat
  BY LenOfText
<1>4. T \in SUBSET (0..Len(held)) /\ T # {}
  BY <1>2, <1>3
<1>5. Max(T) \in T /\ \A y \in T : y <= Max(T)
  BY <1>3, <1>4, MaxIsGreatest
<1>6. n = Max(T)
  BY <1>1 DEF LongestPartialSuffix
<1> QED BY <1>2, <1>4, <1>5, <1>6

LEMMA EndsInTail ==
  ASSUME NEW text \in Text, NEW tail \in Text, NEW d, IsTail(tail, text, d),
         NEW stop, NEW n \in 1..Len(tail)
  PROVE  EndsIn(tail, stop, n) <=> EndsIn(text, stop, n)
<1>1. /\ Len(text) \in Nat /\ Len(tail) \in Nat /\ d \in Nat /\ Len(text) = d + Len(tail)
  BY LenOfText DEF IsTail
<1>2. ASSUME NEW k \in 1..n PROVE tail[Len(tail) - n + k] = text[Len(text) - n + k]
  <2>1. Len(tail) - n + k \in 1..Len(tail) /\ d + (Len(tail) - n + k) = Len(text) - n + k
    BY <1>1
  <2> QED BY <2>1 DEF IsTail
<1>3. n \in 1..Len(text)
  BY <1>1
<1> QED BY <1>2, <1>3 DEF EndsIn

LEMMA TextConcat ==
  ASSUME NEW s \in Text, NEW t \in Text
  PROVE  /\ s \o t \in Text /\ Len(s \o t) = Len(s) + Len(t)
         /\ \A k \in 1..Len(s) : (s \o t)[k] = s[k]
         /\ \A k \in 1..Len(t) : (s \o t)[Len(s) + k] = t[k]
BY Concat DEF Text

\* The first symbols of a text and those after them.
LEMMA SlicesJoined ==
  ASSUME NEW text \in Text, NEW longer \in Text, NEW tail \in Text, NEW d \in 0..Len(text),
         Extends(longer, text),
         IsTail(tail, longer, d), NEW k \in 0..Len(tail)
  PROVE  SubSeq(text, 1, d) \o SubSeq(tail, 1, k) = SubSeq(longer, 1, d + k)
<1>1. /\ Len(text) \in Nat /\ Len(tail) \in Nat /\ Len(longer) \in Nat
      /\ Len(longer) = d + Len(tail) /\ d + k \in 0..Len(longer)
  BY LenOfText DEF IsTail, Extends
<1> DEFINE a == SubSeq(text, 1, d)
           b == SubSeq(tail, 1, k)
           c == SubSeq(longer, 1, d + k)
<1>2. a \in Text /\ Len(a) = d /\ \A i \in 1..d : a[i] = text[i]
  BY PrefixType DEF Text
<1>3. b \in Text /\ Len(b) = k /\ \A i \in 1..k : b[i] = tail[i]
  BY PrefixType DEF Text
<1>4. c \in Text /\ Len(c) = d + k /\ \A i \in 1..(d + k) : c[i] = longer[i]
  BY <1>1, PrefixType DEF Text
<1> HIDE DEF a, b, c
<1>a. /\ a \o b \in Text /\ Len(a \o b) = Len(a) + Len(b)
      /\ \A i \in 1..Len(a) : (a \o b)[i] = a[i]
      /\ \A i \in 1..Len(b) : (a \o b)[Len(a) + i] = b[i]
  BY <1>2, <1>3, TextConcat
<1>5. /\ a \o b \in Text /\ Len(a \o b) = d + k
      /\ \A i \in 1..d : (a \o b)[i] = a[i]
      /\ \A i \in 1..k : (a \o b)[d + i] = b[i]
  BY <1>2, <1>3, <1>a
<1>6. ASSUME NEW i \in 1..(d + k) PROVE (a \o b)[i] = c[i]
  <2>1. CASE i <= d
    <3>1. i \in 1..d /\ i \in 1..Len(text)
      BY <2>1
    <3> QED BY <1>2, <1>4, <1>5, <3>1 DEF Extends
  <2>2. CASE i > d
    <3>1. PICK j : j = i - d
      OBVIOUS
    <3>2. j \in 1..k /\ i = d + j /\ j \in 1..Len(tail)
      BY <1>1, <2>2, <3>1
    <3>3. tail[j] = longer[d + j]
      BY <3>2 DEF IsTail
    <3> QED BY <1>3, <1>4, <1>5, <3>2, <3>3
  <2>3. i <= d \/ i > d
    BY <1>1
  <2> QED BY <2>1, <2>2, <2>3
<1>7. a \o b = c
  BY <1>4, <1>5, <1>6, SeqEqual DEF Text
<1> QED BY <1>7 DEF a, b, c

Clear(text, marks) == Starts(text, marks) = {}
Hits(step, marks, held, text, longer) ==
  /\ step.matched /\ step.emit \in Text
  /\ step.buffer = [stops |-> marks, held |-> << >>]
  /\ Out(text, held) \o step.emit = Before(longer, Min(Starts(longer, marks)))
GoesOn(step, marks, held, text, longer) ==
  /\ ~step.matched /\ step.emit \in Text
  /\ step.buffer = [stops |-> marks, held |-> step.buffer.held]
  /\ step.buffer.held \in Text
  /\ Holds(marks, step.buffer.held, longer)
  /\ Out(text, held) \o step.emit = Out(longer, step.buffer.held)

\* Pushing a chunk: what is matched is the first stop of the whole text, wherever
\* the text was cut, and what is let out is the text before it; without a match
\* the buffer holds the longest end that may begin a stop and has let out the rest.
LEMMA PushMatches ==
  ASSUME NEW marks \in StopSets, NEW held \in Text, NEW text \in Text, NEW chunk \in Text,
         Holds(marks, held, text),
         ~Clear(text \o chunk, marks),
         NEW step, step = Push([stops |-> marks, held |-> held], chunk)
  PROVE  Hits(step, marks, held, text, text \o chunk)
<1> DEFINE d == Len(text) - Len(held)
           longer == text \o chunk
           grown == held \o chunk
<1>1. /\ Len(text) \in Nat /\ Len(held) \in Nat /\ Len(chunk) \in Nat
      /\ IsTail(held, text, d) /\ d \in 0..Len(text)
  BY LenOfText DEF Holds, IsTail
<1>2. /\ longer \in Text /\ grown \in Text /\ IsTail(grown, longer, d)
      /\ Len(longer) = Len(text) + Len(chunk) /\ Len(grown) = Len(held) + Len(chunk)
  BY <1>1, TailGrows
<1>3. \A k \in 1..Len(text) : longer[k] = text[k]
  BY Concat DEF Text
<1>a. Extends(longer, text)
  BY <1>1, <1>2, <1>3 DEF Extends
<1>4. PICK m : m = Min(Starts(longer, marks))
  OBVIOUS
<1> HIDE DEF longer, grown
<1>5. Starts(longer, marks) \subseteq 1..Len(longer) /\ Starts(grown, marks) \subseteq 1..Len(grown)
  BY <1>2, StartsBegin
<1>6. /\ m \in Starts(longer, marks) /\ m \in 1..Len(longer)
      /\ \A y \in Starts(longer, marks) : m <= y
  <2>1. Starts(longer, marks) # {} /\ Starts(longer, marks) \in SUBSET Nat
    BY <1>5 DEF longer, Clear
  <2> QED BY <1>4, <1>5, <2>1, MinIsLeast
<1>7. m > d
  BY <1>1, <1>2, <1>a, <1>6, StartsBeyond
<1>8. m - d \in 1..Len(grown) /\ d + (m - d) = m
  BY <1>1, <1>2, <1>6, <1>7
<1>9. m - d \in Starts(grown, marks)
  BY <1>2, <1>6, <1>8, StartsInTail
<1>10. ASSUME NEW y \in Starts(grown, marks) PROVE m - d <= y
  <2>1. y \in 1..Len(grown)
    BY <1>5
  <2>2. d + y \in Starts(longer, marks)
    BY <1>2, <2>1, StartsInTail
  <2> QED BY <1>1, <1>6, <2>1, <2>2
<1>11. Min(Starts(grown, marks)) = m - d
  <2>1. Starts(grown, marks) \in SUBSET Nat
    BY <1>5
  <2> QED BY <1>9, <1>10, <2>1, MinIs
<1>12. PICK b : b = [stops |-> marks, held |-> held]
  OBVIOUS
<1>13. PICK g : g = [b EXCEPT !.held = @ \o chunk]
  OBVIOUS
<1>14. g = [stops |-> marks, held |-> grown] /\ g.held = grown /\ g.stops = marks
  BY <1>12, <1>13 DEF grown
<1>15. Matches(g) = Starts(grown, marks)
  BY <1>14 DEF Matches, Starts
<1>16. step = [emit |-> Before(g.held, Min(Matches(g))), matched |-> TRUE,
               buffer |-> [g EXCEPT !.held = << >>]]
  BY <1>9, <1>12, <1>13, <1>15 DEF Push
<1>17. /\ step.emit = SubSeq(grown, 1, m - d - 1) /\ step.matched
       /\ step.buffer = [stops |-> marks, held |-> << >>]
  BY <1>11, <1>14, <1>15, <1>16 DEF Before
<1>18. m - d - 1 \in 0..Len(grown) /\ d + (m - d - 1) = m - 1
  BY <1>1, <1>8
<1>19. SubSeq(text, 1, d) \o step.emit = SubSeq(longer, 1, m - 1)
  <2>2. SubSeq(text, 1, d) \o SubSeq(grown, 1, m - d - 1) = SubSeq(longer, 1, d + (m - d - 1))
    <3>1. d \in 0..Len(text) /\ IsTail(grown, longer, d)
      BY <1>1, <1>2
    <3> HIDE DEF d
    <3>2. PICK k \in 0..Len(grown) : k = m - d - 1
      BY <1>18
    <3>3. SubSeq(text, 1, d) \o SubSeq(grown, 1, k) = SubSeq(longer, 1, d + k)
      BY <1>2, <1>a, <3>1, <3>2, SlicesJoined
    <3> QED BY <3>2, <3>3
  <2> QED BY <1>17, <1>18, <2>2
<1>20. step.emit \in Text
  BY <1>2, <1>17, <1>18, PrefixType DEF Text
<1>21. /\ step.matched /\ step.emit \in Text
       /\ step.buffer = [stops |-> marks, held |-> << >>]
       /\ Out(text, held) \o step.emit
            = Before(text \o chunk, Min(Starts(text \o chunk, marks)))
  BY <1>4, <1>17, <1>19, <1>20 DEF Out, Before, longer
<1> QED BY <1>21 DEF Hits

LEMMA PushHolds ==
  ASSUME NEW marks \in StopSets, NEW held \in Text, NEW text \in Text, NEW chunk \in Text,
         Holds(marks, held, text),
         Clear(text \o chunk, marks),
         NEW step, step = Push([stops |-> marks, held |-> held], chunk)
  PROVE  GoesOn(step, marks, held, text, text \o chunk)
<1> DEFINE longer == text \o chunk
           grown == held \o chunk
<1>0. PICK d : d = Len(text) - Len(held)
  OBVIOUS
<1>1. /\ Len(text) \in Nat /\ Len(held) \in Nat /\ Len(chunk) \in Nat
      /\ IsTail(held, text, d) /\ d \in 0..Len(text)
  BY <1>0, LenOfText DEF Holds, IsTail
<1>2. /\ longer \in Text /\ grown \in Text /\ IsTail(grown, longer, d)
      /\ Len(longer) = Len(text) + Len(chunk) /\ Len(grown) = Len(held) + Len(chunk)
  BY <1>1, TailGrows
<1>3. /\ \A k \in 1..Len(text) : longer[k] = text[k]
      /\ \A k \in 1..Len(chunk) : longer[Len(text) + k] = chunk[k]
  BY TextConcat
<1>a. Extends(longer, text)
  BY <1>1, <1>2, <1>3 DEF Extends
<1>4. Starts(longer, marks) = {}
  BY DEF Clear
<1> HIDE DEF longer, grown
<1>5. Starts(grown, marks) = {}
  <2>1. Starts(grown, marks) \subseteq 1..Len(grown)
    BY <1>2, StartsBegin
  <2>2. ASSUME NEW y \in Starts(grown, marks) PROVE FALSE
    <3>1. d + y \in Starts(longer, marks)
      BY <1>2, <2>1, StartsInTail
    <3> QED BY <1>4, <3>1
  <2> QED BY <2>2
<1>6. PICK n : n = LongestPartialSuffix([stops |-> marks, held |-> grown])
  OBVIOUS
<1>7. /\ n \in 0..Len(grown)
      /\ n # 0 => \E stop \in marks : EndsIn(grown, stop, n)
      /\ \A stop \in marks, m \in 1..Len(grown) : EndsIn(grown, stop, m) => m <= n
  BY <1>2, <1>6, LongestEnds
<1>8. PICK b : b = [stops |-> marks, held |-> held]
  OBVIOUS
<1>9. PICK g : g = [b EXCEPT !.held = @ \o chunk]
  OBVIOUS
<1>10. g = [stops |-> marks, held |-> grown] /\ g.held = grown /\ g.stops = marks
  BY <1>8, <1>9 DEF grown
<1>11. Matches(g) = Starts(grown, marks)
  BY <1>10 DEF Matches, Starts
<1>12. PICK split : split = Len(grown) - n
  OBVIOUS
<1>13. split \in 0..Len(grown) /\ Len(grown) \in Nat
  BY <1>1, <1>2, <1>7, <1>12
<1>14. step = [emit |-> SubSeq(grown, 1, split), matched |-> FALSE,
               buffer |-> [g EXCEPT !.held = From(grown, split + 1)]]
  BY <1>5, <1>6, <1>8, <1>9, <1>10, <1>11, <1>12 DEF Push
<1>15. PICK rest : rest = From(grown, split + 1)
  OBVIOUS
<1>16. /\ step.emit = SubSeq(grown, 1, split) /\ ~step.matched
       /\ step.buffer = [stops |-> marks, held |-> rest] /\ step.buffer.held = rest
  BY <1>10, <1>14, <1>15
<1>17. /\ rest \in Text /\ Len(rest) = n /\ IsTail(rest, grown, split)
  <2>1. split + 1 \in 1..(Len(grown) + 1) /\ Len(grown) \in (split + 1 - 1)..Len(grown)
    BY <1>13
  <2>2. /\ rest \in Text /\ Len(rest) = Len(grown) - (split + 1) + 1
        /\ \A k \in 1..(Len(grown) - (split + 1) + 1) : rest[k] = grown[split + 1 + k - 1]
    BY <1>2, <1>15, <2>1, Slice DEF Text, From
  <2>3. Len(grown) - (split + 1) + 1 = n /\ \A k \in 1..n : split + 1 + k - 1 = split + k
    BY <1>7, <1>12, <1>13
  <2>4. Len(rest) = n /\ \A k \in 1..n : rest[k] = grown[split + k]
    BY <2>2, <2>3
  <2> QED BY <1>7, <1>12, <1>13, <2>2, <2>4 DEF IsTail
<1>18. IsTail(rest, longer, Len(longer) - Len(rest)) /\ d + split = Len(longer) - Len(rest)
  <2>1. d + split = Len(longer) - Len(rest) /\ d + split \in Nat
    BY <1>0, <1>1, <1>2, <1>7, <1>12, <1>13, <1>17
  <2>2. ASSUME NEW k \in 1..Len(rest) PROVE rest[k] = longer[d + split + k]
    <3>1. split + k \in 1..Len(grown) /\ d + (split + k) = d + split + k
      BY <1>1, <1>7, <1>12, <1>13, <1>17
    <3>2. grown[split + k] = longer[d + (split + k)]
      BY <1>2, <3>1 DEF IsTail
    <3> QED BY <1>17, <3>1, <3>2 DEF IsTail
  <2>3. Len(longer) = d + split + Len(rest)
    BY <1>0, <1>1, <1>2, <1>7, <1>12, <1>13, <1>17
  <2> QED BY <2>1, <2>2, <2>3 DEF IsTail
<1>19. ASSUME NEW stop \in marks, NEW m \in 1..Len(longer), EndsIn(longer, stop, m)
       PROVE  m <= Len(rest)
  <2>1. CASE m <= Len(grown)
    <3>1. m \in 1..Len(grown)
      BY <1>13, <2>1
    <3>2. EndsIn(grown, stop, m)
      BY <1>2, <1>19, <3>1, EndsInTail
    <3> QED BY <1>7, <1>17, <3>1, <3>2
  <2>2. CASE m > Len(grown)
    <3>1. PICK r : r = m - Len(chunk)
      OBVIOUS
    <3>2. r \in 1..Len(text) /\ r < Len(stop) /\ r > Len(held)
      <4>1. stop \in Text /\ Len(stop) \in Nat
        BY LenOfText DEF StopSets
      <4>2. m < Len(stop)
        BY <1>19 DEF EndsIn
      <4> QED BY <1>1, <1>2, <2>2, <3>1, <4>1, <4>2
    <3>3. ASSUME NEW k \in 1..r PROVE text[Len(text) - r + k] = stop[k]
      <4>1. /\ k \in 1..m /\ Len(longer) - m + k = Len(text) - r + k
            /\ Len(text) - r + k \in 1..Len(text)
        BY <1>1, <1>2, <3>1, <3>2
      <4>2. longer[Len(longer) - m + k] = stop[k]
        BY <1>19, <4>1 DEF EndsIn
      <4> QED BY <1>3, <4>1, <4>2
    <3>4. EndsIn(text, stop, r)
      BY <3>2, <3>3 DEF EndsIn
    <3>5. r <= Len(held)
      BY <3>2, <3>4 DEF Holds
    <3> QED BY <1>1, <3>2, <3>5
  <2>3. m <= Len(grown) \/ m > Len(grown)
    BY <1>13
  <2> QED BY <2>1, <2>2, <2>3
<1>20. ASSUME rest # << >> PROVE \E stop \in marks : EndsIn(longer, stop, Len(rest))
  <2>1. n # 0 /\ n \in 1..Len(grown)
    BY <1>7, <1>17, <1>20, LenOfText
  <2>2. PICK stop \in marks : EndsIn(grown, stop, n)
    BY <1>7, <2>1
  <2>3. EndsIn(longer, stop, n)
    BY <1>2, <2>1, <2>2, EndsInTail
  <2> QED BY <1>17, <2>3
<1>21. Holds(marks, rest, longer)
  BY <1>4, <1>18, <1>19, <1>20 DEF Holds
<1>22. SubSeq(text, 1, d) \o SubSeq(grown, 1, split) = SubSeq(longer, 1, d + split)
  <2>1. /\ longer \in Text /\ grown \in Text /\ d \in 0..Len(text)
        /\ IsTail(grown, longer, d) /\ split \in 0..Len(grown)
    BY <1>1, <1>2, <1>13
  <2> QED BY <1>a, <2>1, SlicesJoined
<1>23. step.emit \in Text
  BY <1>2, <1>13, <1>16, PrefixType DEF Text
<1>24. /\ ~step.matched /\ step.emit \in Text
       /\ step.buffer = [stops |-> marks, held |-> step.buffer.held]
       /\ step.buffer.held \in Text
       /\ Holds(marks, step.buffer.held, text \o chunk)
       /\ Out(text, held) \o step.emit = Out(text \o chunk, step.buffer.held)
  BY <1>0, <1>16, <1>17, <1>18, <1>21, <1>22, <1>23 DEF Out, longer
<1> QED BY <1>24 DEF GoesOn
-----------------------------------------------------------------------------
(***************************************************************************)
(* Texts made one.                                                         *)
(***************************************************************************)
LEMMA TextAssoc ==
  ASSUME NEW r \in Text, NEW s \in Text, NEW t \in Text
  PROVE  (r \o s) \o t = r \o (s \o t)
BY ConcatAssoc DEF Text

LEMMA TextNothing ==
  << >> \in Text /\ \A s \in Text : s \o << >> = s /\ << >> \o s = s
BY ConcatEmpty DEF Text

\* h[n] is the first n sequences of s made one.
Flattens(h, s) ==
  /\ h \in [0..Len(s) -> Text] /\ h[0] = << >>
  /\ \A n \in 1..Len(s) : h[n] = h[n - 1] \o s[n]

LEMMA FlattenRecursion ==
  ASSUME NEW s \in Seq(Text)
  PROVE  \E h : Flattens(h, s) /\ FlattenSeq(s) = h[Len(s)]
<1>1. PICK N \in Nat : N = Len(s) OBVIOUS
<1>2. PICK V : V = Text OBVIOUS
<1>3. \A n \in 1..N : s[n] \in V
  BY <1>1, <1>2
<1>4. << >> \in V
  BY <1>2 DEF Text
<1>5. \A v, w \in V : v \o w \in V
  BY <1>2, TextConcat
<1>6. \A n \in 1..N : n \in 0..N /\ n - 1 \in 0..N /\ n # 0 OBVIOUS
<1>7. CASE N = 0
  <2>1. PICK h : h = [n \in 0..0 |-> << >>] OBVIOUS
  <2>2. h \in [0..0 -> V] /\ h[0] = << >>
    BY <1>4, <2>1
  <2>a. Len(s) = 0 /\ s = << >>
    <3>1. \A r \in Seq(V) : Len(r) = 0 => r = << >>
      OBVIOUS
    <3> QED BY <1>1, <1>2, <1>7, <3>1
  <2>b. FlattenSeq(s) = s
    BY <2>a, Zenon DEF FlattenSeq
  <2>3. FlattenSeq(s) = s /\ s = << >> /\ \A n \in 1..0 : FALSE
    BY <2>a, <2>b
  <2>4. Flattens(h, s)
    BY <1>1, <1>2, <1>7, <2>2, <2>3 DEF Flattens
  <2> QED BY <1>1, <1>7, <2>2, <2>3, <2>4
<1>8. CASE N # 0
  <2>1. PICK step : step = [n \in 1..N |-> [v \in V |-> v \o s[n]]] OBVIOUS
  <2>2. ASSUME NEW n \in 1..N, NEW v \in V PROVE v \o s[n] \in V
    BY <1>3, <1>5
  <2>3. step \in [1..N -> [V -> V]]
    BY <2>1, <2>2
  <2>4. PICK e : e = << >> OBVIOUS
  <2>a. e \in V
    BY <1>4, <2>4
  <2>5. PICK f \in [0..N -> V] : f[0] = e /\ \A n \in 1..N : f[n] = step[n][f[n - 1]]
    BY <2>a, <2>3, RecursionHasSolution, SMTT(60)
  <2>6. ASSUME NEW n \in 1..N PROVE f[n] = f[n - 1] \o s[n]
    <3>1. f[n - 1] \in V BY <1>6, <2>5
    <3> QED BY <2>1, <2>5, <3>1
  <2>7. PICK g : g = [n \in 1..N |-> f[n]] OBVIOUS
  <2>8. ASSUME NEW n \in 1..N PROVE g[n] = IF n = 1 THEN s[n] ELSE g[n - 1] \o s[n]
    <3>1. CASE n = 1
      <4>1. g[n] = << >> \o s[n]
        <5>1. 1 \in 1..N /\ 1 - 1 = 0
          BY <1>8
        <5>2. f[1] = f[1 - 1] \o s[1]
          BY <2>6, <5>1
        <5>3. g[1] = f[1]
          BY <2>7, <5>1
        <5> QED BY <2>4, <2>5, <3>1, <5>1, <5>2, <5>3
      <4>2. << >> \o s[n] = s[n]
        BY <1>2, <1>3, TextNothing
      <4> QED BY <3>1, <4>1, <4>2
    <3>2. CASE n # 1
      <4>1. n - 1 \in 1..N
        BY <3>2
      <4>2. g[n] = f[n] /\ g[n - 1] = f[n - 1]
        BY <2>7, <4>1
      <4> QED BY <2>6, <3>2, <4>2
    <3> QED BY <3>1, <3>2
  <2>9. g = [n \in 1..N |-> IF n = 1 THEN s[n] ELSE g[n - 1] \o s[n]]
    <3>1. g = [n \in 1..N |-> g[n]] BY <2>7
    <3> QED BY <2>8, <3>1, Zenon
  <2>10. PICK q : /\ q = [n \in 1..N |-> IF n = 1 THEN s[n] ELSE q[n - 1] \o s[n]]
                  /\ FlattenSeq(s) = q[N]
    BY <1>1, <1>8, <2>9 DEF FlattenSeq
  <2>11. \A n \in 1..N : q[n] = IF n = 1 THEN s[n] ELSE q[n - 1] \o s[n]
    BY <2>10, Zenon
  <2>12. PICK h : h = [n \in 0..N |-> IF n = 0 THEN << >> ELSE q[n]] OBVIOUS
  <2>13. h[0] = << >> /\ \A n \in 1..N : h[n] = q[n]
    BY <2>12
  <2>14. ASSUME NEW n \in 1..N PROVE h[n] = h[n - 1] \o s[n]
    <3>1. CASE n = 1
      <4>1. << >> \o s[n] = s[n]
        BY <1>2, <1>3, TextNothing
      <4>2. q[n] = s[n]
        BY <2>11, <3>1
      <4>3. h[n - 1] = << >>
        BY <2>13, <3>1
      <4> QED BY <2>13, <4>1, <4>2, <4>3
    <3>2. CASE n # 1
      <4>1. n - 1 \in 1..N
        BY <3>2
      <4>2. q[n] = q[n - 1] \o s[n]
        BY <2>11, <3>2
      <4> QED BY <2>13, <4>1, <4>2
    <3> QED BY <3>1, <3>2
  <2>15. \A n \in 0..N : h[n] \in V
    <3>1. PICK T : T = {n \in 0..N : h[n] \in V} OBVIOUS
    <3>2. 0 \in T BY <1>4, <2>13, <3>1
    <3>3. ASSUME NEW n \in 1..N, n - 1 \in T PROVE n \in T
      <4>1. h[n - 1] \in V BY <3>1, <3>3
      <4>2. h[n] \in V BY <1>3, <1>5, <2>14, <4>1
      <4> QED BY <1>6, <3>1, <4>2
    <3>4. \A n \in 0..N : n \in T BY <3>2, <3>3, BoundedInduction
    <3> QED BY <3>1, <3>4
  <2>16. h \in [0..N -> V]
    BY <2>12, <2>15
  <2>17. Flattens(h, s)
    BY <1>1, <1>2, <2>13, <2>14, <2>16 DEF Flattens
  <2>18. FlattenSeq(s) = h[Len(s)]
    <3>1. N \in 1..N
      BY <1>8
    <3> QED BY <1>1, <2>10, <2>13, <3>1
  <2> QED BY <2>17, <2>18
<1> QED BY <1>7, <1>8

LEMMA FlattenPrefix ==
  ASSUME NEW s \in Seq(Text), NEW t \in Seq(Text), Len(s) <= Len(t),
         \A n \in 1..Len(s) : s[n] = t[n],
         NEW h, Flattens(h, s), NEW g, Flattens(g, t)
  PROVE  \A n \in 0..Len(s) : h[n] = g[n]
<1>1. PICK N \in Nat : N = Len(s) OBVIOUS
<1>2. PICK T : T = {n \in 0..N : h[n] = g[n]} OBVIOUS
<1>3. 0 \in T
  BY <1>2 DEF Flattens
<1>4. ASSUME NEW n \in 1..N, n - 1 \in T PROVE n \in T
  <2>1. n \in 1..Len(t) /\ n \in 0..N
    BY <1>1
  <2>2. h[n] = h[n - 1] \o s[n] /\ g[n] = g[n - 1] \o t[n]
    BY <1>1, <2>1 DEF Flattens
  <2> QED BY <1>1, <1>2, <1>4, <2>1, <2>2
<1>5. \A n \in 0..N : n \in T
  BY <1>3, <1>4, BoundedInduction
<1> QED BY <1>1, <1>2, <1>5

LEMMA FlattenType ==
  ASSUME NEW s \in Seq(Text)
  PROVE  FlattenSeq(s) \in Text
<1>1. PICK h : Flattens(h, s) /\ FlattenSeq(s) = h[Len(s)]
  BY FlattenRecursion
<1>2. Len(s) \in 0..Len(s)
  OBVIOUS
<1> QED BY <1>1, <1>2 DEF Flattens

LEMMA FlattenEmpty == FlattenSeq(<< >>) = << >>
BY DEF FlattenSeq

LEMMA FlattenAppend ==
  ASSUME NEW s \in Seq(Text), NEW x \in Text
  PROVE  FlattenSeq(Append(s, x)) = FlattenSeq(s) \o x
<1>1. PICK t : t = Append(s, x) OBVIOUS
<1>2. /\ t \in Seq(Text) /\ Len(t) = Len(s) + 1 /\ t[Len(t)] = x
      /\ \A n \in 1..Len(s) : s[n] = t[n]
  BY <1>1
<1>3. PICK h : Flattens(h, s) /\ FlattenSeq(s) = h[Len(s)]
  BY FlattenRecursion
<1>4. PICK g : Flattens(g, t) /\ FlattenSeq(t) = g[Len(t)]
  BY <1>2, FlattenRecursion
<1>5. Len(s) \in Nat /\ Len(s) \in 0..Len(s) /\ Len(t) \in 1..Len(t) /\ Len(s) <= Len(t)
  BY <1>2
<1>6. \A n \in 0..Len(s) : h[n] = g[n]
  BY <1>2, <1>3, <1>4, <1>5, FlattenPrefix
<1>7. g[Len(t)] = g[Len(t) - 1] \o t[Len(t)]
  BY <1>4, <1>5 DEF Flattens
<1>8. Len(t) - 1 = Len(s)
  BY <1>2, <1>5
<1> QED BY <1>1, <1>2, <1>3, <1>4, <1>5, <1>6, <1>7, <1>8

LEMMA FlattenCons ==
  ASSUME NEW s \in Seq(Text), s # << >>
  PROVE  FlattenSeq(s) = Head(s) \o FlattenSeq(Tail(s))
<1>1. PICK t : t = Tail(s) OBVIOUS
<1>2. PICK x : x = Head(s) OBVIOUS
<1>3. /\ t \in Seq(Text) /\ x \in Text /\ Len(t) = Len(s) - 1 /\ Len(s) \in Nat \ {0}
      /\ x = s[1] /\ \A n \in 1..Len(t) : t[n] = s[n + 1]
  BY <1>1, <1>2, TailType
<1>4. PICK h : Flattens(h, s) /\ FlattenSeq(s) = h[Len(s)]
  BY FlattenRecursion
<1>5. PICK g : Flattens(g, t) /\ FlattenSeq(t) = g[Len(t)]
  BY <1>3, FlattenRecursion
<1>6. PICK N \in Nat : N = Len(t)
  BY <1>3
<1>7. PICK T : T = {n \in 0..N : h[n + 1] = x \o g[n]} OBVIOUS
<1>8. 0 \in T
  <2>1. 1 \in 1..Len(s) /\ 0 + 1 = 1 /\ 1 - 1 = 0
    BY <1>3
  <2>2. h[1] = << >> \o x /\ g[0] = << >>
    BY <1>3, <1>4, <1>5, <2>1 DEF Flattens
  <2>3. << >> \o x = x \o << >>
    BY <1>3, TextNothing
  <2>4. h[0 + 1] = x \o g[0] /\ 0 \in 0..N
    BY <2>1, <2>2, <2>3
  <2> QED BY <1>7, <2>4
<1>9. ASSUME NEW n \in 1..N, n - 1 \in T PROVE n \in T
  <2>1. n + 1 \in 1..Len(s) /\ n \in 1..Len(t) /\ n + 1 - 1 = n /\ n - 1 + 1 = n /\ n - 1 \in 0..Len(t)
    BY <1>3, <1>6
  <2>0. PICK m : m = n + 1
    OBVIOUS
  <2>9. m \in 1..Len(s) /\ m - 1 = n
    BY <2>0, <2>1
  <2>a. h[m] = h[m - 1] \o s[m]
    BY <1>4, <2>9 DEF Flattens
  <2>b. g[n] = g[n - 1] \o t[n]
    BY <1>5, <2>1 DEF Flattens
  <2>2. h[n + 1] = h[n] \o s[n + 1] /\ g[n] = g[n - 1] \o t[n]
    BY <2>0, <2>9, <2>a, <2>b
  <2>3. h[n] = x \o g[n - 1]
    BY <1>7, <1>9, <2>1
  <2>4. g[n - 1] \in Text /\ t[n] \in Text
    <3>1. t[n] \in Text
      BY <1>3, <2>1
    <3>2. g \in [0..Len(t) -> Text]
      BY <1>5 DEF Flattens
    <3> QED BY <2>1, <3>1, <3>2
  <2>5. (x \o g[n - 1]) \o t[n] = x \o (g[n - 1] \o t[n])
    <3>1. x \in Text
      BY <1>3
    <3>2. PICK p \in Text : p = g[n - 1]
      BY <2>4
    <3>3. PICK q \in Text : q = t[n]
      BY <2>4
    <3>4. (x \o p) \o q = x \o (p \o q)
      BY <3>1, <3>2, <3>3, TextAssoc
    <3> QED BY <3>2, <3>3, <3>4
  <2>6. t[n] = s[n + 1]
    BY <1>3, <2>1
  <2>7. h[n + 1] = x \o g[n]
    BY <2>2, <2>3, <2>5, <2>6
  <2>8. n \in 0..N
    OBVIOUS
  <2> QED BY <1>7, <2>7, <2>8
<1>10. \A n \in 0..N : n \in T
  BY <1>8, <1>9, BoundedInduction
<1>11. N \in 0..N /\ N + 1 = Len(s)
  BY <1>3, <1>6
<1> QED BY <1>1, <1>2, <1>4, <1>5, <1>6, <1>7, <1>10, <1>11

\* The texts of a sequence of parts, each of which carries one or none.
Carriers(P) == \A p \in P : TextOf(p) \in Text
TextsIn(parts) == [i \in DOMAIN parts |-> TextOf(parts[i])]

LEMMA TextsInType ==
  ASSUME NEW P, Carriers(P), NEW parts \in Seq(P)
  PROVE  /\ TextsIn(parts) \in Seq(Text) /\ Len(TextsIn(parts)) = Len(parts)
         /\ \A i \in 1..Len(parts) : TextsIn(parts)[i] = TextOf(parts[i])
<1>1. \A i \in 1..Len(parts) : TextOf(parts[i]) \in Text
  BY DEF Carriers
<1>2. TextsIn(parts) = [i \in 1..Len(parts) |-> TextOf(parts[i])]
  BY DEF TextsIn
<1>3. Len(parts) \in Nat
  OBVIOUS
<1> QED BY <1>1, <1>2, <1>3

LEMMA TextsAre ==
  ASSUME NEW parts
  PROVE  Texts(parts) = FlattenSeq(TextsIn(parts))
BY DEF Texts, TextsIn

LEMMA TextsType ==
  ASSUME NEW P, Carriers(P), NEW parts \in Seq(P)
  PROVE  Texts(parts) \in Text
BY TextsInType, TextsAre, FlattenType

LEMMA TextsEmpty == Texts(<< >>) = << >>
<1>1. PICK t : t = TextsIn(<< >>)
  OBVIOUS
<1>2. t = << >>
  BY <1>1 DEF TextsIn
<1> QED BY <1>1, <1>2, TextsAre, FlattenEmpty

LEMMA TextsAppend ==
  ASSUME NEW P, Carriers(P), NEW parts \in Seq(P), NEW part \in P
  PROVE  Texts(Append(parts, part)) = Texts(parts) \o TextOf(part)
<1>1. PICK more : more = Append(parts, part)
  OBVIOUS
<1>2. /\ more \in Seq(P) /\ Len(more) = Len(parts) + 1 /\ more[Len(parts) + 1] = part
      /\ \A i \in 1..Len(parts) : more[i] = parts[i]
  BY <1>1
<1>3. /\ TextsIn(parts) \in Seq(Text) /\ Len(TextsIn(parts)) = Len(parts)
      /\ \A i \in 1..Len(parts) : TextsIn(parts)[i] = TextOf(parts[i])
  BY TextsInType
<1>4. /\ TextsIn(more) \in Seq(Text) /\ Len(TextsIn(more)) = Len(more)
      /\ \A i \in 1..Len(more) : TextsIn(more)[i] = TextOf(more[i])
  BY <1>2, TextsInType
<1>5. TextOf(part) \in Text
  BY DEF Carriers
<1>6. PICK s \in Seq(Text) : s = TextsIn(parts)
  BY <1>3
<1>7. PICK t \in Seq(Text) : t = TextsIn(more)
  BY <1>4
<1>8. PICK x \in Text : x = TextOf(part)
  BY <1>5
<1>9. /\ Len(s) = Len(parts) /\ Len(t) = Len(s) + 1 /\ Len(parts) \in Nat
      /\ \A i \in 1..Len(s) : t[i] = s[i]
      /\ t[Len(s) + 1] = x
  BY <1>2, <1>3, <1>4, <1>6, <1>7, <1>8
<1>10. /\ Append(s, x) \in Seq(Text) /\ Len(Append(s, x)) = Len(s) + 1
       /\ \A i \in 1..(Len(s) + 1) : Append(s, x)[i] = IF i <= Len(s) THEN s[i] ELSE x
  OBVIOUS
<1>11. \A i \in 1..Len(t) : t[i] = Append(s, x)[i]
  BY <1>9, <1>10
<1>12. t = Append(s, x)
  BY <1>9, <1>10, <1>11, SeqEqual
<1>13. FlattenSeq(t) = FlattenSeq(s) \o x
  BY <1>12, FlattenAppend
<1> QED BY <1>1, <1>6, <1>7, <1>8, <1>13, TextsAre

LEMMA TextsTail ==
  ASSUME NEW P, Carriers(P), NEW parts \in Seq(P), parts # << >>
  PROVE  Texts(parts) = TextOf(Head(parts)) \o Texts(Tail(parts))
<1>1. PICK rest : rest = Tail(parts)
  OBVIOUS
<1>2. /\ rest \in Seq(P) /\ Head(parts) \in P /\ Len(rest) = Len(parts) - 1 /\ Len(parts) > 0
      /\ Len(parts) \in Nat /\ Head(parts) = parts[1]
      /\ \A i \in 1..Len(rest) : rest[i] = parts[i + 1]
  BY <1>1, TailType
<1>3. /\ TextsIn(parts) \in Seq(Text) /\ Len(TextsIn(parts)) = Len(parts)
      /\ \A i \in 1..Len(parts) : TextsIn(parts)[i] = TextOf(parts[i])
  BY TextsInType
<1>4. /\ TextsIn(rest) \in Seq(Text) /\ Len(TextsIn(rest)) = Len(rest)
      /\ \A i \in 1..Len(rest) : TextsIn(rest)[i] = TextOf(rest[i])
  BY <1>2, TextsInType
<1>5. PICK s \in Seq(Text) : s = TextsIn(parts)
  BY <1>3
<1>6. PICK t \in Seq(Text) : t = TextsIn(rest)
  BY <1>4
<1>7. /\ Len(s) = Len(parts) /\ Len(t) = Len(s) - 1 /\ s # << >> /\ s[1] = TextOf(Head(parts))
      /\ \A i \in 1..Len(t) : t[i] = s[i + 1]
  <2>1. Len(s) = Len(parts) /\ Len(t) = Len(s) - 1
    BY <1>2, <1>3, <1>4, <1>5, <1>6
  <2>2. s # << >> /\ 1 \in 1..Len(parts)
    BY <1>2, <2>1
  <2>3. s[1] = TextOf(Head(parts))
    BY <1>2, <1>3, <1>5, <2>2
  <2>4. ASSUME NEW i \in 1..Len(t) PROVE t[i] = s[i + 1]
    <3>1. i \in 1..Len(rest) /\ i + 1 \in 1..Len(parts)
      BY <1>2, <1>4, <1>6
    <3> QED BY <1>2, <1>3, <1>4, <1>5, <1>6, <3>1
  <2> QED BY <2>1, <2>2, <2>3, <2>4
<1>8. /\ Tail(s) \in Seq(Text) /\ Len(Tail(s)) = Len(s) - 1
      /\ \A i \in 1..Len(Tail(s)) : Tail(s)[i] = s[i + 1]
      /\ Head(s) = s[1]
  BY <1>7, TailType
<1>9. Tail(s) = t
  <2>1. \A i \in 1..Len(t) : t[i] = Tail(s)[i]
    BY <1>7, <1>8
  <2> QED BY <1>7, <1>8, <2>1, SeqEqual
<1>10. FlattenSeq(s) = Head(s) \o FlattenSeq(Tail(s))
  BY <1>7, FlattenCons
<1> QED BY <1>1, <1>5, <1>6, <1>7, <1>8, <1>9, <1>10, TextsAre

\* Parts that carry no text add none.
LEMMA TextsSilent ==
  ASSUME NEW P, Carriers(P), NEW parts \in Seq(P), NEW more \in Seq(P),
         \A i \in 1..Len(more) : TextOf(more[i]) = << >>
  PROVE  Texts(parts \o more) = Texts(parts) /\ parts \o more \in Seq(P)
<1>1. PICK all : all = parts \o more
  OBVIOUS
<1>2. /\ all \in Seq(P) /\ Len(all) = Len(parts) + Len(more)
      /\ Len(parts) \in Nat /\ Len(more) \in Nat
      /\ \A i \in 1..Len(parts) : all[i] = parts[i]
      /\ \A i \in 1..Len(more) : all[Len(parts) + i] = more[i]
  BY <1>1
<1>3. PICK N \in Nat : N = Len(more)
  BY <1>2
<1>4. PICK T : T = {n \in 0..N : Texts(SubSeq(all, 1, Len(parts) + n)) = Texts(parts)}
  OBVIOUS
<1>5. 0 \in T
  <2>1. SubSeq(all, 1, Len(parts)) = parts
    BY <1>1, PrefixOfConcat
  <2>2. Len(parts) + 0 = Len(parts)
    BY <1>2
  <2>3. 0 \in 0..N
    OBVIOUS
  <2>4. Texts(SubSeq(all, 1, Len(parts) + 0)) = Texts(parts)
    BY <2>1, <2>2
  <2> QED BY <1>4, <2>3, <2>4
<1>6. ASSUME NEW n \in 1..N, n - 1 \in T PROVE n \in T
  <2>1. PICK m : m = Len(parts) + (n - 1)
    OBVIOUS
  <2>2. m \in 0..Len(all) /\ m + 1 \in 0..Len(all) /\ Len(parts) + n = m + 1 /\ n \in 1..Len(more)
    BY <1>2, <1>3, <2>1
  <2>3. PICK a : a = SubSeq(all, 1, m)
    OBVIOUS
  <2>4. PICK b : b = SubSeq(all, 1, m + 1)
    OBVIOUS
  <2>5. a \in Seq(P) /\ Len(a) = m /\ \A i \in 1..m : a[i] = all[i]
    BY <1>2, <2>2, <2>3, PrefixType
  <2>6. b \in Seq(P) /\ Len(b) = m + 1 /\ \A i \in 1..(m + 1) : b[i] = all[i]
    BY <1>2, <2>2, <2>4, PrefixType
  <2>7. all[m + 1] = more[n] /\ more[n] \in P
    BY <1>2, <2>2
  <2>8. PICK x \in P : x = more[n]
    BY <2>7
  <2>9. /\ Append(a, x) \in Seq(P) /\ Len(Append(a, x)) = m + 1
        /\ \A i \in 1..(m + 1) : Append(a, x)[i] = IF i <= m THEN a[i] ELSE x
    BY <2>2, <2>5
  <2>10. \A i \in 1..(m + 1) : b[i] = Append(a, x)[i]
    <3> SUFFICES ASSUME NEW i \in 1..(m + 1) PROVE b[i] = Append(a, x)[i]
      OBVIOUS
    <3>1. CASE i <= m
      BY <2>2, <2>5, <2>6, <2>9, <3>1
    <3>2. CASE ~(i <= m)
      <4>1. i = m + 1
        BY <2>2, <3>2
      <4> QED BY <2>6, <2>7, <2>8, <2>9, <3>2, <4>1
    <3> QED BY <3>1, <3>2
  <2>11. b = Append(a, x)
    BY <2>6, <2>9, <2>10, SeqEqual
  <2>12. Texts(b) = Texts(a) \o TextOf(x)
    BY <2>5, <2>11, TextsAppend
  <2>13. TextOf(x) = << >> /\ Texts(a) \in Text
    BY <2>2, <2>5, <2>8, TextsType
  <2>14. Texts(b) = Texts(a)
    BY <2>12, <2>13, TextNothing
  <2>15. Texts(a) = Texts(parts)
    BY <1>4, <1>6, <2>1, <2>3
  <2>16. n \in 0..N
    OBVIOUS
  <2> QED BY <1>4, <2>2, <2>4, <2>14, <2>15, <2>16
<1>7. \A n \in 0..N : n \in T
  BY <1>5, <1>6, BoundedInduction
<1>8. Texts(SubSeq(all, 1, Len(parts) + N)) = Texts(parts)
  <2>1. N \in 0..N
    OBVIOUS
  <2> QED BY <1>4, <1>7, <2>1
<1>9. SubSeq(all, 1, Len(all)) = all
  BY <1>2
<1> QED BY <1>1, <1>2, <1>3, <1>8, <1>9
-----------------------------------------------------------------------------
(***************************************************************************)
(* Prefixes of texts.                                                      *)
(***************************************************************************)
LEMMA PrefixAt ==
  ASSUME NEW s \in Text, NEW t \in Text
  PROVE  IsPrefix(s, t) <=> Extends(t, s)
<1>1. Len(s) \in Nat /\ Len(t) \in Nat
  BY LenOfText
<1>2. CASE Len(s) <= Len(t)
  <2>1. Len(s) \in 0..Len(s) /\ Len(s) \in 0..Len(t)
    BY <1>1, <1>2
  <2>2. PICK a : a = SubSeq(s, 1, Len(s))
    OBVIOUS
  <2>3. PICK b : b = SubSeq(t, 1, Len(s))
    OBVIOUS
  <2>4. a \in Text /\ Len(a) = Len(s) /\ \A i \in 1..Len(s) : a[i] = s[i]
    BY <2>1, <2>2, PrefixType DEF Text
  <2>5. b \in Text /\ Len(b) = Len(s) /\ \A i \in 1..Len(s) : b[i] = t[i]
    BY <2>1, <2>3, PrefixType DEF Text
  <2>6. a = b <=> \A i \in 1..Len(s) : a[i] = b[i]
    BY <2>4, <2>5, SeqEqual DEF Text
  <2>7. a = b <=> \A i \in 1..Len(s) : t[i] = s[i]
    BY <2>4, <2>5, <2>6
  <2> QED BY <1>2, <2>2, <2>3, <2>7 DEF IsPrefix, Extends
<1>3. CASE ~(Len(s) <= Len(t))
  BY <1>3 DEF IsPrefix, Extends
<1> QED BY <1>2, <1>3

LEMMA PrefixReflexive ==
  ASSUME NEW s \in Text
  PROVE  IsPrefix(s, s) /\ IsPrefix(<< >>, s)
<1>1. Len(s) \in Nat /\ << >> \in Text /\ Len(<< >>) = 0
  BY LenOfText, TextNothing
<1> QED BY <1>1, PrefixAt DEF Extends

LEMMA PrefixOfLonger ==
  ASSUME NEW s \in Text, NEW t \in Text
  PROVE  IsPrefix(s, s \o t)
<1>1. s \o t \in Text /\ Len(s) \in Nat /\ Len(t) \in Nat
  BY TextConcat, LenOfText
<1>2. Extends(s \o t, s)
  BY <1>1, TextConcat DEF Extends
<1> QED BY <1>1, <1>2, PrefixAt

LEMMA PrefixTransitive ==
  ASSUME NEW r \in Text, NEW s \in Text, NEW t \in Text, IsPrefix(r, s), IsPrefix(s, t)
  PROVE  IsPrefix(r, t)
<1>1. Extends(s, r) /\ Extends(t, s) /\ Len(r) \in Nat /\ Len(s) \in Nat /\ Len(t) \in Nat
  BY PrefixAt, LenOfText
<1>2. ASSUME NEW k \in 1..Len(r) PROVE t[k] = r[k]
  <2>1. k \in 1..Len(s)
    BY <1>1 DEF Extends
  <2> QED BY <1>1, <2>1 DEF Extends
<1>3. Extends(t, r)
  BY <1>1, <1>2 DEF Extends
<1> QED BY <1>3, PrefixAt

LEMMA PrefixAfter ==
  ASSUME NEW r \in Text, NEW s \in Text, NEW t \in Text, IsPrefix(s, t)
  PROVE  IsPrefix(r \o s, r \o t)
<1>1. Extends(t, s) /\ Len(r) \in Nat /\ Len(s) \in Nat /\ Len(t) \in Nat
  BY PrefixAt, LenOfText
<1>2. PICK a : a = r \o s
  OBVIOUS
<1>3. PICK b : b = r \o t
  OBVIOUS
<1>4. /\ a \in Text /\ Len(a) = Len(r) + Len(s)
      /\ \A k \in 1..Len(r) : a[k] = r[k]
      /\ \A k \in 1..Len(s) : a[Len(r) + k] = s[k]
  BY <1>2, TextConcat
<1>5. /\ b \in Text /\ Len(b) = Len(r) + Len(t)
      /\ \A k \in 1..Len(r) : b[k] = r[k]
      /\ \A k \in 1..Len(t) : b[Len(r) + k] = t[k]
  BY <1>3, TextConcat
<1>6. ASSUME NEW i \in 1..Len(a) PROVE b[i] = a[i]
  <2>1. CASE i <= Len(r)
    BY <1>1, <1>4, <1>5, <2>1
  <2>2. CASE i > Len(r)
    <3>1. PICK k : k = i - Len(r)
      OBVIOUS
    <3>2. k \in 1..Len(s) /\ k \in 1..Len(t) /\ i = Len(r) + k
      BY <1>1, <1>4, <2>2, <3>1 DEF Extends
    <3>3. t[k] = s[k]
      BY <1>1, <3>2 DEF Extends
    <3> QED BY <1>4, <1>5, <3>2, <3>3
  <2>3. i <= Len(r) \/ i > Len(r)
    BY <1>1, <1>4
  <2> QED BY <2>1, <2>2, <2>3
<1>7. Extends(b, a)
  BY <1>1, <1>4, <1>5, <1>6 DEF Extends
<1> QED BY <1>2, <1>3, <1>4, <1>5, <1>7, PrefixAt

LEMMA SlicePrefix ==
  ASSUME NEW s \in Text, NEW t \in Text, Extends(t, s), NEW k \in 0..Len(s), NEW m \in k..Len(t)
  PROVE  /\ SubSeq(s, 1, k) \in Text /\ SubSeq(t, 1, m) \in Text
         /\ IsPrefix(SubSeq(s, 1, k), SubSeq(t, 1, m))
<1>1. Len(s) \in Nat /\ Len(t) \in Nat /\ m \in 0..Len(t)
  BY LenOfText
<1>2. PICK a : a = SubSeq(s, 1, k)
  OBVIOUS
<1>3. PICK b : b = SubSeq(t, 1, m)
  OBVIOUS
<1>4. a \in Text /\ Len(a) = k /\ \A i \in 1..k : a[i] = s[i]
  BY <1>2, PrefixType DEF Text
<1>5. b \in Text /\ Len(b) = m /\ \A i \in 1..m : b[i] = t[i]
  BY <1>1, <1>3, PrefixType DEF Text
<1>6. ASSUME NEW i \in 1..k PROVE b[i] = a[i]
  <2>1. i \in 1..Len(s) /\ i \in 1..m
    BY <1>1
  <2> QED BY <1>4, <1>5, <2>1 DEF Extends
<1>7. Extends(b, a)
  BY <1>1, <1>4, <1>5, <1>6 DEF Extends
<1> QED BY <1>2, <1>3, <1>4, <1>5, <1>7, PrefixAt
-----------------------------------------------------------------------------
(***************************************************************************)
(* The inductive invariant.                                                *)
(***************************************************************************)
StopsOf == request.stops \ {<< >>}

ResponseTypes ==
  /\ request \in Requests
  /\ stage \in {"queued", "generate", "complete", "halted", "error", "answered"}
  /\ decoded \in Seq(Text)
  /\ guard = [stops |-> {CALL_OPEN}, held |-> guard.held] /\ guard.held \in Text
  /\ stops = [stops |-> StopsOf, held |-> stops.held] /\ stops.held \in Text
  /\ calling \in BOOLEAN /\ stopped \in BOOLEAN
  /\ reasoning \in [open : BOOLEAN, tokens : Nat, scanned : Nat]
  /\ completion_tokens \in Nat
  /\ halted \in {"no", "StopString", "Disconnected"}
  /\ handler \in {"starting", "reading", "returned"}
  /\ client \in {"connected", "gone"}
  /\ content \in Text

Working == stage \in {"queued", "generate", "complete", "error"}

\* A turn goes on while tokens are left, and ends for a reason.
Course ==
  /\ stage \in {"queued", "generate"} => completion_tokens < MaxNew
  /\ stage = "complete" => stopped \/ completion_tokens = MaxNew
  /\ Working <=> halted = "no" /\ stage # "answered"
  /\ stage = "queued" => decoded = << >>

\* What the buffer of stop sequences was given of the text.
Pushed == IF ~request.tools THEN raw
          ELSE IF calling THEN Before(raw, Find(raw, CALL_OPEN))
          ELSE Out(raw, guard.held)

\* While text comes, neither buffer has let a marker by, and each holds what may
\* begin one.
Guarding ==
  /\ calling => request.tools /\ Occurs(raw, CALL_OPEN)
  /\ request.tools /\ ~calling => Holds({CALL_OPEN}, guard.held, raw)
Stopping == Holds(StopsOf, stops.held, Pushed)
Searched == Working => Guarding /\ Stopping

\* The events on their way: text, and once the worker has answered one that ends.
Deltas == [kind : {"delta"}, text : Text]
Failed == [kind |-> "failed"]
Final == IF stage = "answered" THEN {Failed, Done(Reason)} ELSE {}

InOrder ==
  /\ events \in Seq(Deltas \cup Final)
  /\ \A i \in 1..(Len(events) - 1) : events[i] \in Deltas
  /\ handler = "returned" => events = << >>

\* A stream of n parts that carry text, and what it may close with.
RolePart == [kind |-> "role"]
ErrorPart == [kind |-> "error"]
TextParts == [kind : {"text"}, text : Text]
Streams(parts, n) ==
  n \in 1..Len(parts) /\ parts[1] = RolePart /\ \A i \in 2..n : parts[i] \in TextParts
ClosesWith(parts, n, closing) ==
  Len(parts) = n + Len(closing) /\ \A k \in 1..Len(closing) : parts[n + k] = closing[k]
Closings == {<<ErrorPart>>, ChunksOf(Done(Reason))}
Parts == {RolePart, ErrorPart} \cup TextParts
         \cup (IF stage = "answered"
               THEN {ChunksOf(Done(Reason))[k] : k \in 1..Len(ChunksOf(Done(Reason)))} ELSE {})

Replying ==
  IF request.stream
  THEN /\ reply \in Seq(Parts) /\ content = << >>
       /\ handler = "starting" => reply = << >>
       /\ handler = "reading" => Streams(reply, Len(reply))
       /\ handler = "returned" =>
            \/ reply = << >> \/ Streams(reply, Len(reply))
            \/ /\ stage = "answered"
               /\ \E n \in 1..Len(reply), closing \in Closings :
                    Streams(reply, n) /\ ClosesWith(reply, n, closing)
  ELSE /\ handler # "starting"
       /\ \/ reply = << >>
          \/ /\ handler = "returned" /\ stage = "answered"
             /\ reply \in {<<ErrorPart>>, <<Completion(Done(Reason))>>}

\* What the client has and what is on its way to it: the text the worker let out,
\* and in the end all of it; a reader that is gone has the beginning of it.
Sent == Received \o Texts(events)
LetOut == Opening \o Out(Pushed, stops.held)
HasDone == \E i \in 1..Len(events) : events[i] = Done(Reason)
Fits == Reason = "length" => completion_tokens = MaxNew

Delivered ==
  /\ stage = "queued" => Received = << >> /\ events = << >>
  /\ stage \in {"generate", "complete", "error"} =>
       /\ IsPrefix(Received, LetOut)
       /\ ReceiverOpen => Sent = LetOut
  /\ stage \in {"halted", "answered"} =>
       /\ IsPrefix(Received, Opening \o Shown)
       /\ ReceiverOpen => IsPrefix(Sent, Opening \o Shown)
  /\ stage = "halted" /\ ReceiverOpen => halted = "StopString" /\ IsWhole(Sent)
  /\ HasDone => stage = "answered" /\ IsWhole(Sent) /\ Fits
  /\ Answered => stage = "answered" /\ IsWhole(Received) /\ Fits

\* The chunks by which a closing marker of the thinking section is complete.
Closers(chunks) ==
  {n \in DOMAIN chunks : Occurs(FlattenSeq(SubSeq(chunks, 1, n)), THINK_CLOSE)}
Scanned(text) == IF Len(text) > 1 THEN Len(text) - 1 ELSE 0

Counted ==
  /\ reasoning.open => /\ request.thinking /\ Closers(decoded) = {}
                       /\ reasoning.tokens = Len(decoded) /\ reasoning.scanned = Scanned(raw)
  /\ ~reasoning.open /\ request.thinking =>
       Closers(decoded) # {} /\ reasoning.tokens = Min(Closers(decoded))
  /\ ~request.thinking => reasoning.tokens = 0

ResponseInv ==
  ResponseTypes /\ Course /\ Searched /\ InOrder /\ Replying /\ Delivered /\ Counted
-----------------------------------------------------------------------------
(***************************************************************************)
(* What the worker has searched.                                           *)
(***************************************************************************)
LEMMA Markers ==
  /\ CALL_OPEN \in Text /\ Len(CALL_OPEN) = 2 /\ CALL_OPEN # << >>
  /\ CALL_OPEN[1] = "<" /\ CALL_OPEN[2] = "tool_call>"
  /\ Head(CALL_OPEN) = "<" /\ Last(CALL_OPEN) = "tool_call>"
  /\ CALL_CLOSE \in Text /\ Len(CALL_CLOSE) = 2 /\ CALL_CLOSE # << >>
  /\ CALL_CLOSE[1] = "<" /\ CALL_CLOSE[2] = "/tool_call>"
  /\ Last(CALL_CLOSE) = "/tool_call>"
  /\ THINK_CLOSE \in Text /\ Len(THINK_CLOSE) = 2 /\ THINK_CLOSE # << >>
  /\ THINK_OPEN \in Text /\ THINK_OPEN # << >>
  /\ {CALL_OPEN} \in StopSets
<1>1. CALL_OPEN \in Text /\ CALL_CLOSE \in Text /\ THINK_CLOSE \in Text /\ THINK_OPEN \in Text
  <2>1. ASSUME NEW S, NEW a \in S, NEW b \in S PROVE <<a, b>> \in Seq(S)
    OBVIOUS
  <2>2. /\ "<" \in Symbols /\ "tool_call>" \in Symbols /\ "/tool_call>" \in Symbols
        /\ "/think>" \in Symbols /\ "<think>" \in Symbols /\ "\n" \in Symbols
    BY DEF Symbols
  <2>3. CALL_OPEN \in Text
    BY <2>1, <2>2 DEF CALL_OPEN, Text
  <2>4. CALL_CLOSE \in Text
    BY <2>1, <2>2 DEF CALL_CLOSE, Text
  <2>5. THINK_CLOSE \in Text
    BY <2>1, <2>2 DEF THINK_CLOSE, Text
  <2>6. THINK_OPEN \in Text
    BY <2>1, <2>2 DEF THINK_OPEN, Text
  <2> QED BY <2>3, <2>4, <2>5, <2>6
<1>2. /\ Len(CALL_OPEN) = 2 /\ CALL_OPEN[1] = "<" /\ CALL_OPEN[2] = "tool_call>"
      /\ Head(CALL_OPEN) = "<"
  BY DEF CALL_OPEN
<1>3. Len(CALL_CLOSE) = 2 /\ CALL_CLOSE[1] = "<" /\ CALL_CLOSE[2] = "/tool_call>"
  BY DEF CALL_CLOSE
<1>4. Len(THINK_CLOSE) = 2 /\ Len(THINK_OPEN) = 2
  BY DEF THINK_CLOSE, THINK_OPEN
<1>5. Last(CALL_OPEN) = "tool_call>" /\ Last(CALL_CLOSE) = "/tool_call>"
  BY <1>2, <1>3 DEF Last
<1>6. CALL_OPEN # << >> /\ CALL_CLOSE # << >> /\ THINK_CLOSE # << >> /\ THINK_OPEN # << >>
  BY <1>1, <1>2, <1>3, <1>4, LenOfText
<1>7. {CALL_OPEN} \in StopSets
  BY <1>1, <1>6 DEF StopSets
<1> QED BY <1>1, <1>2, <1>3, <1>4, <1>5, <1>6, <1>7

LEMMA StartsOfOne ==
  ASSUME NEW text, NEW pattern
  PROVE  Starts(text, {pattern}) = Occurrences(text, pattern)
BY DEF Starts

LEMMA TypesOfText ==
  ResponseTypes =>
    /\ raw \in Text /\ StopsOf \in StopSets /\ Opening \in Text
    /\ request.tools \in BOOLEAN /\ request.thinking \in BOOLEAN
    /\ request.stream \in BOOLEAN /\ request.usage \in BOOLEAN
<1> SUFFICES ASSUME ResponseTypes
             PROVE  /\ raw \in Text /\ StopsOf \in StopSets /\ Opening \in Text
                    /\ request.tools \in BOOLEAN /\ request.thinking \in BOOLEAN
                    /\ request.stream \in BOOLEAN /\ request.usage \in BOOLEAN
  OBVIOUS
<1>1. request \in [stops : SUBSET Seq(STRING), tools : BOOLEAN, thinking : BOOLEAN,
                   stream : BOOLEAN, usage : BOOLEAN]
  BY ResponseAssumption DEF ResponseTypes
<1>2. raw \in Text
  BY FlattenType DEF ResponseTypes, raw
<1>3. StopsOf \in StopSets
  <2>1. request.stops \subseteq Seq(STRING)
    BY <1>1
  <2> QED BY <2>1, StringsAreText DEF StopsOf, StopSets
<1>4. Opening \in Text
  BY Markers, TextNothing DEF Opening
<1> QED BY <1>1, <1>2, <1>3, <1>4

LEMMA FindIsFirst ==
  ASSUME NEW text \in Text, Occurs(text, CALL_OPEN)
  PROVE  /\ Find(text, CALL_OPEN) = Min(Occurrences(text, CALL_OPEN))
         /\ Find(text, CALL_OPEN) \in 1..Len(text)
         /\ Begins(text, CALL_OPEN, Find(text, CALL_OPEN))
         /\ \A i : Begins(text, CALL_OPEN, i) => Find(text, CALL_OPEN) <= i
<1>1. PICK T : T = Occurrences(text, CALL_OPEN)
  OBVIOUS
<1>2. T = {i \in 1..Len(text) : Begins(text, CALL_OPEN, i)}
  BY <1>1, Markers, OccurrencesBegin
<1>3. T \in SUBSET Nat /\ T # {}
  BY <1>1, <1>2 DEF Occurs
<1>4. Min(T) \in T /\ \A y \in T : Min(T) <= y
  BY <1>3, MinIsLeast
<1>5. Find(text, CALL_OPEN) = Min(T)
  BY <1>1 DEF Find
<1>6. \A i : Begins(text, CALL_OPEN, i) => i \in T
  BY <1>2 DEF Begins
<1> QED BY <1>1, <1>2, <1>4, <1>5, <1>6

LEMMA SliceOfText ==
  ASSUME NEW text \in Text, NEW i \in 1..(Len(text) + 1)
  PROVE  Before(text, i) \in Text /\ Len(Before(text, i)) = i - 1 /\ Extends(text, Before(text, i))
<1>1. Len(text) \in Nat /\ i - 1 \in 0..Len(text)
  BY LenOfText
<1>2. PICK a : a = SubSeq(text, 1, i - 1)
  OBVIOUS
<1>3. a \in Text /\ Len(a) = i - 1 /\ \A k \in 1..(i - 1) : a[k] = text[k]
  BY <1>1, <1>2, PrefixType DEF Text
<1>4. Extends(text, a)
  BY <1>1, <1>3 DEF Extends
<1> QED BY <1>2, <1>3, <1>4 DEF Before

LEMMA OutOfText ==
  ASSUME NEW text \in Text, NEW held \in Text, NEW marks, Holds(marks, held, text)
  PROVE  /\ Out(text, held) \in Text /\ Len(Out(text, held)) = Len(text) - Len(held)
         /\ Len(text) - Len(held) \in 0..Len(text)
         /\ Extends(text, Out(text, held))
<1>1. Len(text) \in Nat /\ Len(held) \in Nat /\ Len(text) - Len(held) \in 0..Len(text)
  BY LenOfText DEF Holds, IsTail
<1>2. PICK i : i = Len(text) - Len(held) + 1
  OBVIOUS
<1>3. i \in 1..(Len(text) + 1) /\ i - 1 = Len(text) - Len(held)
  BY <1>1, <1>2
<1>4. Before(text, i) = Out(text, held)
  BY <1>3 DEF Before, Out
<1> QED BY <1>1, <1>3, <1>4, SliceOfText

\* The text given to the buffer of stop sequences is what is settled.
LEMMA PushedIsSettled ==
  ResponseTypes /\ Guarding =>
    /\ Pushed \in Text /\ Visible \in Text /\ Settled = Pushed /\ Extends(Visible, Pushed)
    /\ request.tools /\ ~calling =>
         ~Occurs(raw, CALL_OPEN) /\ Visible = raw /\ Pushed = Out(raw, guard.held)
    /\ ~(request.tools /\ ~calling) => Visible = Pushed
<1> SUFFICES ASSUME ResponseTypes, Guarding
    PROVE
      /\ Pushed \in Text /\ Visible \in Text /\ Settled = Pushed /\ Extends(Visible, Pushed)
      /\ request.tools /\ ~calling =>
           ~Occurs(raw, CALL_OPEN) /\ Visible = raw /\ Pushed = Out(raw, guard.held)
      /\ ~(request.tools /\ ~calling) => Visible = Pushed
  OBVIOUS
<1>1. raw \in Text /\ Len(raw) \in Nat /\ (raw = << >> <=> Len(raw) = 0)
  BY TypesOfText, LenOfText
<1>2. \A text \in Text : Extends(text, text)
  BY LenOfText DEF Extends
<1>3. CASE ~request.tools
  BY <1>1, <1>2, <1>3 DEF Pushed, Visible, Settled
<1>4. CASE request.tools /\ calling
  <2>1. Occurs(raw, CALL_OPEN)
    BY <1>4 DEF Guarding
  <2>2. PICK i : i = Find(raw, CALL_OPEN)
    OBVIOUS
  <2>3. i \in 1..Len(raw) /\ i \in 1..(Len(raw) + 1)
    BY <1>1, <2>1, <2>2, FindIsFirst
  <2>4. Visible = Before(raw, i) /\ Pushed = Before(raw, i)
    BY <1>4, <2>1, <2>2 DEF Visible, Pushed
  <2>5. Before(raw, i) \in Text /\ Len(Before(raw, i)) = i - 1
    BY <1>1, <2>3, SliceOfText
  <2>6. Visible # raw
    BY <1>1, <2>3, <2>4, <2>5
  <2>7. Settled = Visible
    BY <2>6 DEF Settled
  <2> QED BY <1>2, <1>4, <2>4, <2>5, <2>7
<1>5. CASE request.tools /\ ~calling
  <2>1. Holds({CALL_OPEN}, guard.held, raw) /\ guard.held \in Text /\ Len(guard.held) \in Nat
    BY <1>5, LenOfText DEF Guarding, ResponseTypes
  <2>2. ~Occurs(raw, CALL_OPEN)
    BY <2>1, StartsOfOne DEF Holds, Occurs
  <2>3. Visible = raw /\ Pushed = Out(raw, guard.held)
    BY <1>5, <2>2 DEF Visible, Pushed
  <2>4. Len(guard.held) < 2
    <3>1. guard.held # << >> => EndsIn(raw, CALL_OPEN, Len(guard.held))
      BY <2>1 DEF Holds
    <3>2. guard.held = << >> => Len(guard.held) = 0
      BY <2>1, LenOfText
    <3>3. CASE guard.held = << >>
      BY <3>2, <3>3
    <3>4. CASE guard.held # << >>
      <4>1. Len(guard.held) < Len(CALL_OPEN)
        BY <3>1, <3>4 DEF EndsIn
      <4> QED BY <4>1, Markers
    <3> QED BY <3>3, <3>4
  <2>5. (raw # << >> /\ raw[Len(raw)] = "<") <=> Len(guard.held) = 1
    <3>1. ASSUME raw # << >>, raw[Len(raw)] = "<" PROVE Len(guard.held) = 1
      <4>1. 1 \in 1..Len(raw) /\ \A k \in 1..1 : k = 1 /\ Len(raw) - 1 + k = Len(raw)
        BY <1>1, <3>1
      <4>2. EndsIn(raw, CALL_OPEN, 1)
        BY <3>1, <4>1, Markers DEF EndsIn
      <4>3. 1 <= Len(guard.held)
        BY <2>1, <4>1, <4>2 DEF Holds
      <4>4. \A n \in Nat : 1 <= n /\ n < 2 => n = 1
        OBVIOUS
      <4>5. Len(guard.held) \in Nat
        BY <2>1
      <4> QED BY <2>4, <4>3, <4>4, <4>5
    <3>2. ASSUME Len(guard.held) = 1 PROVE raw # << >> /\ raw[Len(raw)] = "<"
      <4>1. guard.held # << >>
        <5>1. guard.held = << >> => Len(guard.held) = 0
          BY <2>1, LenOfText
        <5> QED BY <3>2, <5>1
      <4>2. EndsIn(raw, CALL_OPEN, 1)
        BY <2>1, <3>2, <4>1 DEF Holds
      <4>3. 1 \in 1..Len(raw) /\ raw[Len(raw) - 1 + 1] = CALL_OPEN[1]
        BY <4>2 DEF EndsIn
      <4>4. Len(raw) - 1 + 1 = Len(raw) /\ Len(raw) # 0
        BY <1>1, <4>3
      <4> QED BY <1>1, <4>3, <4>4, Markers
    <3> QED BY <3>1, <3>2
  <2>6. Settled = Pushed
    <3>1. CASE raw # << >> /\ raw[Len(raw)] = "<"
      <4>1. Settled = Front(raw)
        BY <1>5, <2>3, <3>1, Markers DEF Settled, Last
      <4> QED BY <2>3, <2>5, <3>1, <4>1 DEF Front, Out
    <3>2. CASE ~(raw # << >> /\ raw[Len(raw)] = "<")
      <4>1. Settled = raw
        BY <2>3, <3>2, Markers DEF Settled, Last
      <4>2. Len(guard.held) = 0 /\ Len(raw) - 0 = Len(raw)
        <5>1. \A n \in Nat : n < 2 /\ n # 1 => n = 0
          OBVIOUS
        <5>2. Len(guard.held) = 0
          BY <2>1, <2>4, <2>5, <3>2, <5>1
        <5> QED BY <1>1, <5>2
      <4>3. SubSeq(raw, 1, Len(raw)) = raw
        BY <1>1 DEF Text
      <4> QED BY <2>3, <4>1, <4>2, <4>3 DEF Out
    <3> QED BY <3>1, <3>2
  <2>7. Pushed \in Text /\ Extends(raw, Pushed)
    BY <1>1, <2>1, <2>3, OutOfText
  <2> QED BY <1>1, <1>5, <2>2, <2>3, <2>6, <2>7
<1>6. request.tools \in BOOLEAN /\ calling \in BOOLEAN
  BY TypesOfText DEF ResponseTypes
<1> QED BY <1>3, <1>4, <1>5, <1>6

\* What a buffer has let out of a text is before every stop of a longer text.
LEMMA OutIsSafe ==
  ASSUME NEW marks \in StopSets, NEW held \in Text, NEW text \in Text, NEW longer \in Text,
         Extends(longer, text), Holds(marks, held, text)
  PROVE  /\ IsPrefix(Out(text, held), longer)
         /\ \A m \in Starts(longer, marks) :
              Before(longer, m) \in Text /\ IsPrefix(Out(text, held), Before(longer, m))
<1>1. PICK d : d = Len(text) - Len(held)
  OBVIOUS
<1>2. /\ d \in 0..Len(text) /\ Len(text) \in Nat /\ Len(held) \in Nat /\ Len(longer) \in Nat
      /\ Len(text) <= Len(longer)
  BY <1>1, LenOfText DEF Holds, IsTail, Extends
<1>3. Out(text, held) = SubSeq(text, 1, d)
  BY <1>1 DEF Out
<1>4. SubSeq(longer, 1, Len(longer)) = longer
  BY DEF Text
<1>5. Len(longer) \in d..Len(longer)
  BY <1>2
<1>6. IsPrefix(Out(text, held), longer)
  BY <1>2, <1>3, <1>4, <1>5, SlicePrefix
<1>7. ASSUME NEW m \in Starts(longer, marks)
      PROVE  Before(longer, m) \in Text /\ IsPrefix(Out(text, held), Before(longer, m))
  <2>1. m > d /\ m \in 1..Len(longer)
    BY <1>1, StartsBeyond, StartsBegin
  <2>2. m - 1 \in d..Len(longer)
    BY <1>2, <2>1
  <2> QED BY <1>2, <1>3, <2>2, SlicePrefix DEF Before
<1> QED BY <1>6, <1>7

\* What the worker has let out is a beginning of what may be shown.
LEMMA OutIsShown ==
  ResponseTypes /\ Guarding /\ Stopping =>
    /\ Shown \in Text /\ Out(Pushed, stops.held) \in Text
    /\ IsPrefix(Out(Pushed, stops.held), Shown)
    /\ StopsAt = Starts(Visible, StopsOf)
<1> SUFFICES ASSUME ResponseTypes, Guarding, Stopping
             PROVE  /\ Shown \in Text /\ Out(Pushed, stops.held) \in Text
                    /\ IsPrefix(Out(Pushed, stops.held), Shown)
                    /\ StopsAt = Starts(Visible, StopsOf)
  OBVIOUS
<1>1. /\ Pushed \in Text /\ Visible \in Text /\ Settled = Pushed /\ Extends(Visible, Pushed)
      /\ Holds(StopsOf, stops.held, Pushed) /\ StopsOf \in StopSets /\ stops.held \in Text
  BY PushedIsSettled, TypesOfText DEF Stopping, ResponseTypes
<1>2. \A text : StopsIn(text) = Starts(text, StopsOf)
  BY DEF StopsIn, Starts, StopsOf
<1>3. StopsIn(Settled) = {}
  BY <1>1, <1>2 DEF Holds
<1>4. StopsAt = Starts(Visible, StopsOf)
  BY <1>2, <1>3 DEF StopsAt
<1>5. Out(Pushed, stops.held) \in Text
  BY <1>1, OutOfText
<1>6. CASE StopsAt = {}
  BY <1>1, <1>4, <1>5, <1>6, OutIsSafe DEF Shown
<1>7. CASE StopsAt # {}
  <2>1. PICK m : m = Min(StopsAt)
    OBVIOUS
  <2>2. m \in Starts(Visible, StopsOf)
    <3>1. Starts(Visible, StopsOf) \in SUBSET Nat
      BY <1>1, StartsBegin
    <3> QED BY <1>4, <1>7, <2>1, <3>1, MinIsLeast
  <2>3. Shown = Before(Visible, m)
    BY <1>7, <2>1 DEF Shown
  <2> QED BY <1>1, <1>4, <1>5, <2>2, <2>3, OutIsSafe
<1> QED BY <1>6, <1>7
-----------------------------------------------------------------------------
(***************************************************************************)
(* One decoded chunk: the buffer that waits for a call.                    *)
(***************************************************************************)
Guards == request.tools /\ ~calling
Guarded(token) == Push(guard, token.chunk)
Given(token) == IF Guards THEN Guarded(token).emit
                ELSE IF request.tools THEN << >> ELSE token.chunk
InCall(token) == request.tools /\ (calling \/ Guarded(token).matched)
Closed(token) == InCall(token) /\ CallClosed(raw \o token.chunk)
Step(token) == Push(stops, Given(token))
Searches(token) == ~Closed(token) /\ Given(token) # << >>
Lost(token) == Searches(token) /\ Step(token).emit # << >> /\ ~ReceiverOpen
Halt(token) == IF Lost(token) THEN "Disconnected"
               ELSE IF Closed(token) \/ (Searches(token) /\ Step(token).matched)
               THEN "StopString" ELSE "no"

LEMMA DecodedDoes ==
  ASSUME NEW token \in Tokens, Decoded(token)
  PROVE  /\ stage = "generate" /\ token.chunk # << >>
         /\ completion_tokens' = completion_tokens + 1 /\ stopped' = token.stop
         /\ decoded' = Append(decoded, token.chunk)
         /\ reasoning' = Observed(reasoning, raw \o token.chunk)
         /\ guard' = IF Guards THEN Guarded(token).buffer ELSE guard
         /\ calling' = InCall(token)
         /\ stops' = IF Searches(token) THEN Step(token).buffer ELSE stops
         /\ events' = IF Searches(token) /\ ~Lost(token) /\ ReceiverOpen
                      THEN events \o DeltaOf(Step(token).emit) ELSE events
         /\ halted' = Halt(token) /\ stage' = StageAfter(token, Halt(token))
         /\ UNCHANGED <<request, reading>>
BY DEF Decoded, Guards, Guarded, Given, InCall, Closed, Step, Searches, Lost, Halt

\* The first call of a text is the first of what the text grows to.
LEMMA FindStable ==
  ASSUME NEW text \in Text, NEW longer \in Text, Extends(longer, text), Occurs(text, CALL_OPEN)
  PROVE  /\ Occurs(longer, CALL_OPEN)
         /\ Before(longer, Find(longer, CALL_OPEN)) = Before(text, Find(text, CALL_OPEN))
<1>1. PICK i : i = Find(text, CALL_OPEN)
  OBVIOUS
<1>2. i \in 1..Len(text) /\ Begins(text, CALL_OPEN, i)
  BY <1>1, FindIsFirst
<1>3. \A j : Begins(text, CALL_OPEN, j) => i <= j
  BY <1>1, FindIsFirst
<1>4. Len(text) \in Nat /\ Len(longer) \in Nat /\ Len(text) <= Len(longer)
  BY LenOfText DEF Extends
<1>5. Begins(longer, CALL_OPEN, i)
  <2>1. i \in 1..Len(longer) /\ i + Len(CALL_OPEN) - 1 <= Len(longer)
    BY <1>2, <1>4, Markers DEF Begins
  <2>2. ASSUME NEW k \in 1..Len(CALL_OPEN) PROVE longer[i + k - 1] = CALL_OPEN[k]
    <3>1. i + k - 1 \in 1..Len(text)
      BY <1>2, <1>4, Markers DEF Begins
    <3> QED BY <1>2, <3>1 DEF Begins, Extends
  <2> QED BY <2>1, <2>2 DEF Begins
<1>6. Occurrences(longer, CALL_OPEN) = {j \in 1..Len(longer) : Begins(longer, CALL_OPEN, j)}
  BY Markers, OccurrencesBegin
<1>7. Occurs(longer, CALL_OPEN)
  BY <1>5, <1>6 DEF Occurs, Begins
<1>8. PICK j : j = Find(longer, CALL_OPEN)
  OBVIOUS
<1>9. j \in 1..Len(longer) /\ Begins(longer, CALL_OPEN, j) /\ j <= i
  BY <1>5, <1>7, <1>8, FindIsFirst
<1>10. Begins(text, CALL_OPEN, j)
  <2>1. j \in 1..Len(text) /\ j + Len(CALL_OPEN) - 1 <= Len(text)
    BY <1>2, <1>4, <1>9, Markers DEF Begins
  <2>2. ASSUME NEW k \in 1..Len(CALL_OPEN) PROVE text[j + k - 1] = CALL_OPEN[k]
    <3>1. j + k - 1 \in 1..Len(text)
      BY <1>4, <2>1, Markers
    <3> QED BY <1>9, <3>1 DEF Begins, Extends
  <2> QED BY <2>1, <2>2 DEF Begins
<1>11. i = j
  BY <1>2, <1>3, <1>4, <1>9, <1>10
<1>12. Before(longer, i) = Before(text, i)
  <2>1. i \in 1..(Len(text) + 1) /\ i \in 1..(Len(longer) + 1)
    BY <1>2, <1>4
  <2>2. PICK a : a = Before(text, i)
    OBVIOUS
  <2>3. PICK b : b = Before(longer, i)
    OBVIOUS
  <2>4. a \in Text /\ Len(a) = i - 1 /\ \A k \in 1..(i - 1) : text[k] = a[k]
    BY <2>1, <2>2, SliceOfText DEF Extends
  <2>5. b \in Text /\ Len(b) = i - 1 /\ \A k \in 1..(i - 1) : longer[k] = b[k]
    BY <2>1, <2>3, SliceOfText DEF Extends
  <2>6. \A k \in 1..(i - 1) : longer[k] = text[k]
    BY <1>2, <1>4 DEF Extends
  <2>7. a = b
    BY <2>4, <2>5, <2>6, SeqEqual DEF Text
  <2> QED BY <2>2, <2>3, <2>7
<1> QED BY <1>1, <1>7, <1>8, <1>11, <1>12

\* A chunk that opens a call does not close it.
LEMMA OpensFirst ==
  ASSUME NEW text \in Text, NEW chunk \in Text, NEW token \in Tokens, chunk = token.chunk,
         ~Occurs(text, CALL_OPEN)
  PROVE  ~CallClosed(text \o chunk)
<1> SUFFICES ASSUME CallClosed(text \o chunk) PROVE FALSE
  OBVIOUS
<1>1. PICK longer : longer = text \o chunk
  OBVIOUS
<1>2. /\ longer \in Text /\ Len(longer) = Len(text) + Len(chunk)
      /\ \A k \in 1..Len(text) : longer[k] = text[k]
      /\ \A k \in 1..Len(chunk) : longer[Len(text) + k] = chunk[k]
  BY <1>1, TextConcat
<1>3. Len(text) \in Nat /\ Len(chunk) \in Nat /\ Len(longer) \in Nat
  BY <1>2, LenOfText
<1>4. PICK T : T = Occurrences(longer, CALL_OPEN)
  OBVIOUS
<1>5. T = {i \in 1..Len(longer) : Begins(longer, CALL_OPEN, i)} /\ T # {}
  <2>1. Occurs(longer, CALL_OPEN)
    BY <1>1 DEF CallClosed
  <2> QED BY <1>2, <1>4, <2>1, Markers, OccurrencesBegin DEF Occurs
<1>6. PICK i : i = FindLast(longer, CALL_OPEN)
  OBVIOUS
<1>7. i \in 1..Len(longer) /\ Begins(longer, CALL_OPEN, i)
  <2>1. T \in SUBSET (0..Len(longer))
    BY <1>5
  <2>2. i = Max(T)
    BY <1>4, <1>5, <1>6 DEF FindLast, Occurs
  <2> QED BY <1>3, <1>5, <2>1, <2>2, MaxIsGreatest
<1>8. i + 1 <= Len(longer) /\ longer[i] = "<" /\ longer[i + 1] = "tool_call>"
  <2>1. i + 2 - 1 <= Len(longer) /\ longer[i + 1 - 1] = CALL_OPEN[1] /\ longer[i + 2 - 1] = CALL_OPEN[2]
    BY <1>7, Markers DEF Begins
  <2>2. i + 1 - 1 = i /\ i + 2 - 1 = i + 1
    BY <1>7
  <2> QED BY <2>1, <2>2, Markers
<1>9. i + 1 > Len(text)
  <2> SUFFICES ASSUME i + 1 <= Len(text) PROVE FALSE
    BY <1>3, <1>7
  <2>1. i \in 1..Len(text) /\ i + 1 \in 1..Len(text)
    BY <1>3, <1>7
  <2>2. text[i] = "<" /\ text[i + 1] = "tool_call>"
    BY <1>2, <1>8, <2>1
  <2>3. ASSUME NEW k \in 1..2 PROVE text[i + k - 1] = CALL_OPEN[k]
    <3>1. CASE k = 1
      <4>1. i + 1 - 1 = i
        BY <2>1
      <4> QED BY <2>2, <3>1, <4>1, Markers
    <3>2. CASE k = 2
      <4>1. i + 2 - 1 = i + 1
        BY <2>1
      <4> QED BY <2>2, <3>2, <4>1, Markers
    <3> QED BY <3>1, <3>2
  <2>4. Begins(text, CALL_OPEN, i)
    BY <1>3, <2>1, <2>3, Markers DEF Begins
  <2>5. Occurrences(text, CALL_OPEN) = {j \in 1..Len(text) : Begins(text, CALL_OPEN, j)}
    BY Markers, OccurrencesBegin
  <2> QED BY <2>1, <2>4, <2>5 DEF Occurs
<1>10. PICK rest : rest = From(longer, i)
  OBVIOUS
<1>11. /\ rest \in Text /\ Len(rest) = Len(longer) - i + 1
       /\ \A k \in 1..(Len(longer) - i + 1) : rest[k] = longer[i + k - 1]
  <2>1. i \in 1..(Len(longer) + 1) /\ Len(longer) \in (i - 1)..Len(longer)
    BY <1>3, <1>7
  <2>2. rest = SubSeq(longer, i, Len(longer))
    BY <1>10 DEF From
  <2>3. longer \in Seq(Symbols)
    BY <1>2 DEF Text
  <2> QED BY <2>1, <2>2, <2>3, Slice DEF Text
<1>12. PICK j \in 1..Len(rest) : Begins(rest, CALL_CLOSE, j)
  <2>1. Occurs(rest, CALL_CLOSE)
    BY <1>1, <1>6, <1>10 DEF CallClosed
  <2>2. Occurrences(rest, CALL_CLOSE) = {k \in 1..Len(rest) : Begins(rest, CALL_CLOSE, k)}
    BY <1>11, Markers, OccurrencesBegin
  <2> QED BY <2>1, <2>2 DEF Occurs
<1>13. j + 1 <= Len(rest) /\ rest[j] = "<" /\ rest[j + 1] = "/tool_call>"
  <2>1. j + 2 - 1 <= Len(rest) /\ rest[j + 1 - 1] = CALL_CLOSE[1] /\ rest[j + 2 - 1] = CALL_CLOSE[2]
    BY <1>12, Markers DEF Begins
  <2>2. j + 1 - 1 = j /\ j + 2 - 1 = j + 1
    BY <1>12
  <2> QED BY <2>1, <2>2, Markers
<1>14. i + j \in (i + 1)..Len(longer) /\ longer[i + j] = "/tool_call>"
  <2>1. j + 1 \in 1..(Len(longer) - i + 1) /\ i + (j + 1) - 1 = i + j
    BY <1>3, <1>7, <1>11, <1>12, <1>13
  <2>2. rest[j + 1] = longer[i + j]
    BY <1>11, <2>1
  <2> QED BY <1>3, <1>7, <1>13, <2>1, <2>2
<1>15. PICK a : a = i + 1 - Len(text)
  OBVIOUS
<1>16. PICK b : b = i + j - Len(text)
  OBVIOUS
<1>17. /\ a \in 1..Len(chunk) /\ b \in 1..Len(chunk)
       /\ Len(text) + a = i + 1 /\ Len(text) + b = i + j
  BY <1>2, <1>3, <1>7, <1>8, <1>9, <1>14, <1>15, <1>16
<1>18. chunk[a] = "tool_call>" /\ chunk[b] = "/tool_call>"
  BY <1>2, <1>8, <1>14, <1>17
<1>19. DOMAIN chunk = 1..Len(chunk)
  BY DEF Text
<1> QED BY <1>17, <1>18, <1>19, Markers, MarkersAssumption

\* A decoded chunk leaves the guard holding what may begin a call, and what it is
\* given the buffer of stop sequences continues what that was given before.
LEMMA GuardStep ==
  ASSUME ResponseTypes, Guarding, NEW token \in Tokens, Decoded(token)
  PROVE  /\ raw' = raw \o token.chunk /\ raw' \in Text /\ Given(token) \in Text
         /\ token.chunk \in Text /\ decoded' \in Seq(Text)
         /\ guard' = [stops |-> {CALL_OPEN}, held |-> guard'.held] /\ guard'.held \in Text
         /\ calling' \in BOOLEAN /\ Guarding' /\ Pushed' = Pushed \o Given(token)
         /\ Closed(token) => calling /\ request.tools /\ Given(token) = << >>
<1> DEFINE chunk == token.chunk
<1>1. /\ raw \in Text /\ request.tools \in BOOLEAN /\ chunk \in Text /\ calling \in BOOLEAN
      /\ guard = [stops |-> {CALL_OPEN}, held |-> guard.held] /\ guard.held \in Text
      /\ decoded \in Seq(Text)
  <2>1. chunk \in Text
    BY ResponseAssumption, StringsAreText
  <2> QED BY <2>1, TypesOfText DEF ResponseTypes
<1>2. raw' = raw \o chunk
  <2>1. raw' = FlattenSeq(Append(decoded, chunk))
    BY DecodedDoes DEF raw
  <2> QED BY <1>1, <2>1, FlattenAppend DEF raw
<1>3. raw' \in Text /\ Extends(raw', raw)
  <2>1. PICK longer : longer = raw \o chunk
    OBVIOUS
  <2>2. longer \in Text /\ Len(longer) = Len(raw) + Len(chunk)
        /\ \A k \in 1..Len(raw) : longer[k] = raw[k]
    BY <1>1, <2>1, TextConcat
  <2>3. Len(raw) \in Nat /\ Len(chunk) \in Nat
    BY <1>1, LenOfText
  <2>4. Extends(longer, raw)
    BY <2>2, <2>3 DEF Extends
  <2> QED BY <1>2, <2>1, <2>2, <2>4
<1>4. decoded' \in Seq(Text)
  <2>1. decoded' = Append(decoded, chunk)
    BY DecodedDoes
  <2> QED BY <1>1, <2>1, AppendType
<1>5. request' = request
  BY DecodedDoes
<1>6. PICK p : p = Pushed
  OBVIOUS
<1>7. p \in Text
  BY <1>6, PushedIsSettled
<1>8. p \o << >> = p
  BY <1>7, TextNothing
<1>9. CASE ~request.tools
  <2>1. /\ ~InCall(token) /\ ~Guards /\ Given(token) = chunk /\ ~Closed(token)
    BY <1>9 DEF InCall, Guards, Given, Closed
  <2>2. calling' = FALSE /\ guard' = guard
    BY <2>1, DecodedDoes
  <2>3. Pushed = raw /\ Pushed' = raw'
    BY <1>5, <1>9 DEF Pushed
  <2>4. Guarding'
    BY <1>5, <1>9, <2>2 DEF Guarding
  <2> QED BY <1>1, <1>2, <1>3, <1>4, <2>1, <2>2, <2>3, <2>4
<1>10. CASE request.tools /\ calling
  <2>1. InCall(token) /\ ~Guards /\ Given(token) = << >>
    BY <1>10 DEF InCall, Guards, Given
  <2>2. calling' = TRUE /\ guard' = guard
    BY <2>1, DecodedDoes
  <2>3. Occurs(raw, CALL_OPEN)
    BY <1>10 DEF Guarding
  <2>4. PICK longer : longer = raw'
    OBVIOUS
  <2>5. PICK old : old = raw
    OBVIOUS
  <2>6. /\ Occurs(longer, CALL_OPEN)
        /\ Before(longer, Find(longer, CALL_OPEN)) = Before(old, Find(old, CALL_OPEN))
    BY <1>1, <1>3, <2>3, <2>4, <2>5, FindStable
  <2>7. Pushed = Before(old, Find(old, CALL_OPEN))
    BY <1>10, <2>5 DEF Pushed
  <2>8. Pushed' = Before(longer, Find(longer, CALL_OPEN))
    BY <1>5, <1>10, <2>2, <2>4 DEF Pushed
  <2>9. Guarding'
    BY <1>5, <1>10, <2>2, <2>4, <2>6 DEF Guarding
  <2>10. << >> \in Text
    BY TextNothing
  <2> QED BY <1>1, <1>2, <1>3, <1>4, <1>6, <1>8, <1>10, <2>1, <2>2, <2>6, <2>7, <2>8, <2>9, <2>10
<1>11. CASE request.tools /\ ~calling
  <2>1. Guards /\ Given(token) = Guarded(token).emit /\ (InCall(token) <=> Guarded(token).matched)
    BY <1>11 DEF InCall, Guards, Given
  <2>2. guard' = Guarded(token).buffer /\ calling' = InCall(token)
    BY <2>1, DecodedDoes
  <2>3. Holds({CALL_OPEN}, guard.held, raw) /\ ~Occurs(raw, CALL_OPEN) /\ Pushed = Out(raw, guard.held)
    BY <1>11, PushedIsSettled DEF Guarding
  <2>4. ~CallClosed(raw \o chunk)
    BY <1>1, <2>3, OpensFirst
  <2>5. ~Closed(token)
    BY <2>4 DEF Closed
  <2>6. PICK step : step = Push([stops |-> {CALL_OPEN}, held |-> guard.held], chunk)
    OBVIOUS
  <2>7. step = Guarded(token)
    <3>1. PICK held : held = guard.held
      OBVIOUS
    <3>2. guard = [stops |-> {CALL_OPEN}, held |-> held]
      BY <1>1, <3>1
    <3> QED BY <2>6, <3>1, <3>2 DEF Guarded
  <2>8. \A text : Starts(text, {CALL_OPEN}) = Occurrences(text, CALL_OPEN)
    BY StartsOfOne
  <2>b. PICK old : old = raw
    OBVIOUS
  <2>c. PICK held : held = guard.held
    OBVIOUS
  <2>d. PICK piece : piece = chunk
    OBVIOUS
  <2>9. PICK longer : longer = old \o piece
    OBVIOUS
  <2>e. /\ old \in Text /\ held \in Text /\ piece \in Text /\ Holds({CALL_OPEN}, held, old)
        /\ step = Push([stops |-> {CALL_OPEN}, held |-> held], piece) /\ longer = raw'
        /\ Pushed = Out(old, held)
    BY <1>1, <1>2, <2>3, <2>6, <2>9, <2>b, <2>c, <2>d
  <2>10. {CALL_OPEN} \in StopSets
    BY Markers
  <2>a. InCall(token) \in BOOLEAN
    BY DEF InCall
  <2>11. CASE ~Clear(longer, {CALL_OPEN})
    <3>1. /\ step.matched /\ step.emit \in Text
          /\ step.buffer = [stops |-> {CALL_OPEN}, held |-> << >>]
          /\ Out(old, held) \o step.emit = Before(longer, Min(Starts(longer, {CALL_OPEN})))
      <4>1. Hits(step, {CALL_OPEN}, held, old, longer)
        BY <2>9, <2>10, <2>11, <2>e, PushMatches
      <4> QED BY <4>1 DEF Hits
    <3>2. Occurs(longer, CALL_OPEN) /\ Min(Starts(longer, {CALL_OPEN})) = Find(longer, CALL_OPEN)
      BY <2>8, <2>11 DEF Occurs, Find, Clear
    <3>3. calling' = TRUE
      BY <2>1, <2>2, <2>7, <2>a, <3>1
    <3>4. Pushed' = Before(longer, Find(longer, CALL_OPEN))
      BY <1>5, <1>11, <2>e, <3>3 DEF Pushed
    <3>5. Guarding'
      BY <1>5, <1>11, <2>e, <3>2, <3>3 DEF Guarding
    <3>6. guard' = [stops |-> {CALL_OPEN}, held |-> << >>] /\ guard'.held = << >>
      BY <2>2, <2>7, <3>1
    <3>7. << >> \in Text
      BY TextNothing
    <3> QED BY <1>1, <1>2, <1>3, <1>4, <2>1, <2>5, <2>7, <2>e, <3>1, <3>2, <3>3, <3>4, <3>5, <3>6, <3>7
  <2>12. CASE Clear(longer, {CALL_OPEN})
    <3>1. /\ ~step.matched /\ step.emit \in Text
          /\ step.buffer = [stops |-> {CALL_OPEN}, held |-> step.buffer.held]
          /\ step.buffer.held \in Text
          /\ Holds({CALL_OPEN}, step.buffer.held, longer)
          /\ Out(old, held) \o step.emit = Out(longer, step.buffer.held)
      <4>1. GoesOn(step, {CALL_OPEN}, held, old, longer)
        BY <2>9, <2>10, <2>12, <2>e, PushHolds
      <4> QED BY <4>1 DEF GoesOn
    <3>2. calling' = FALSE
      BY <2>1, <2>2, <2>7, <2>a, <3>1
    <3>3. guard' = step.buffer
      BY <2>2, <2>7
    <3>4. Pushed' = Out(longer, step.buffer.held)
      BY <1>5, <1>11, <2>e, <3>2, <3>3 DEF Pushed
    <3>5. Guarding'
      BY <1>5, <1>11, <2>e, <3>1, <3>2, <3>3 DEF Guarding
    <3> QED BY <1>1, <1>2, <1>3, <1>4, <2>1, <2>5, <2>7, <2>e, <3>1, <3>2, <3>3, <3>4, <3>5
  <2> QED BY <2>11, <2>12
<1> QED BY <1>1, <1>9, <1>10, <1>11
-----------------------------------------------------------------------------
(***************************************************************************)
(* One decoded chunk: the buffer that waits for a stop sequence.           *)
(***************************************************************************)
Emitted(token) == IF Searches(token) THEN Step(token).emit ELSE << >>
Matched(token) == Searches(token) /\ Step(token).matched

LEMMA StopTypes ==
  ASSUME ResponseTypes, Guarding, Stopping, NEW token \in Tokens, Decoded(token)
  PROVE  /\ Emitted(token) \in Text /\ Pushed \in Text /\ stops.held \in Text
         /\ Pushed \o Given(token) = Pushed' /\ StopsOf \in StopSets /\ StopsOf' = StopsOf
         /\ stops' = [stops |-> StopsOf, held |-> stops'.held] /\ stops'.held \in Text
         /\ ~Matched(token) =>
              /\ Holds(StopsOf, stops'.held, Pushed')
              /\ Out(Pushed, stops.held) \o Emitted(token) = Out(Pushed', stops'.held)
         /\ Matched(token) =>
              /\ Starts(Pushed', StopsOf) # {}
              /\ Out(Pushed, stops.held) \o Emitted(token)
                   = Before(Pushed', Min(Starts(Pushed', StopsOf)))
<1>1. /\ Given(token) \in Text /\ Pushed' = Pushed \o Given(token)
      /\ Closed(token) => Given(token) = << >>
  BY GuardStep
<1>2. Pushed \in Text /\ StopsOf \in StopSets
  BY PushedIsSettled, TypesOfText
<1>3. stops = [stops |-> StopsOf, held |-> stops.held] /\ stops.held \in Text
  BY DEF ResponseTypes
<1>4. StopsOf' = StopsOf /\ (stops' = IF Searches(token) THEN Step(token).buffer ELSE stops)
  BY DecodedDoes DEF StopsOf
<1>5. Holds(StopsOf, stops.held, Pushed)
  BY DEF Stopping
<1>6. PICK S : S = StopsOf
  OBVIOUS
<1>7. PICK p : p = Pushed
  OBVIOUS
<1>8. PICK h : h = stops.held
  OBVIOUS
<1>9. CASE ~Searches(token)
  <2>1. Given(token) = << >> /\ Emitted(token) = << >> /\ ~Matched(token)
    BY <1>1, <1>9 DEF Searches, Emitted, Matched
  <2>2. Pushed' = Pushed /\ << >> \in Text
    BY <1>1, <1>2, <2>1, TextNothing
  <2>3. stops' = stops
    BY <1>4, <1>9
  <2>4. Out(Pushed, stops.held) \in Text
    BY <1>2, <1>3, <1>5, OutOfText
  <2>5. Out(Pushed, stops.held) \o << >> = Out(Pushed, stops.held)
    BY <2>4, TextNothing
  <2> QED BY <1>1, <1>2, <1>3, <1>4, <1>5, <2>1, <2>2, <2>3, <2>5
<1>10. CASE Searches(token)
  <2>0. PICK g : g = Given(token)
    OBVIOUS
  <2>1. PICK step : step = Push([stops |-> S, held |-> h], g)
    OBVIOUS
  <2>2. stops = [stops |-> S, held |-> h]
    BY <1>3, <1>6, <1>8
  <2>3. step = Step(token)
    BY <2>0, <2>1, <2>2 DEF Step
  <2>4. Emitted(token) = step.emit /\ (Matched(token) <=> step.matched) /\ stops' = step.buffer
    BY <1>4, <1>10, <2>3 DEF Emitted, Matched
  <2>5. h \in Text /\ p \in Text /\ S \in StopSets /\ Holds(S, h, p) /\ g \in Text
    BY <1>1, <1>2, <1>3, <1>5, <1>6, <1>7, <1>8, <2>0
  <2>6. Pushed' = p \o g
    BY <1>1, <1>7, <2>0
  <2>7. CASE ~Clear(p \o g, S)
    <3>1. /\ step.matched /\ step.emit \in Text
          /\ step.buffer = [stops |-> S, held |-> << >>]
          /\ Out(p, h) \o step.emit
               = Before(p \o g, Min(Starts(p \o g, S)))
      <4>1. Hits(step, S, h, p, p \o g)
        BY <2>1, <2>5, <2>7, PushMatches
      <4> QED BY <4>1 DEF Hits
    <3>2. stops'.held = << >> /\ << >> \in Text
      BY <2>4, <3>1, TextNothing
    <3> QED BY <1>1, <1>2, <1>3, <1>4, <1>6, <1>7, <1>8, <2>0, <2>4, <2>6, <2>7, <3>1, <3>2 DEF Clear
  <2>8. CASE Clear(p \o g, S)
    <3>1. /\ ~step.matched /\ step.emit \in Text
          /\ step.buffer = [stops |-> S, held |-> step.buffer.held]
          /\ step.buffer.held \in Text
          /\ Holds(S, step.buffer.held, p \o g)
          /\ Out(p, h) \o step.emit = Out(p \o g, step.buffer.held)
      <4>1. GoesOn(step, S, h, p, p \o g)
        BY <2>1, <2>5, <2>8, PushHolds
      <4> QED BY <4>1 DEF GoesOn
    <3> QED BY <1>1, <1>2, <1>3, <1>4, <1>6, <1>7, <1>8, <2>0, <2>4, <2>6, <2>8, <3>1
  <2> QED BY <2>7, <2>8
<1> QED BY <1>9, <1>10

LEMMA ObservedIs ==
  ASSUME NEW counter, NEW text \in Text
  PROVE  Observed(counter, text) =
           IF ~counter.open THEN counter
           ELSE [open |-> ~Occurs(From(text, counter.scanned + 1), THINK_CLOSE),
                 tokens |-> counter.tokens + 1, scanned |-> Scanned(text)]
<1>1. PICK n : n = Len(text) - 1
  OBVIOUS
<1>2. Len(text) \in Nat /\ Len(text) - (Len(THINK_CLOSE) - 1) = n /\ n \in {-1} \cup Nat
  BY <1>1, LenOfText, Markers
<1>3. PICK m : m = Max({0, n})
  OBVIOUS
<1>4. m = IF n > 0 THEN n ELSE 0
  <2>1. CASE n = -1
    <3>1. \A x \in {0, n} : (\A y \in {0, n} : x >= y) => x = 0
      BY <2>1
    <3>2. 0 \in {0, n} /\ \A y \in {0, n} : 0 >= y
      BY <2>1
    <3> QED BY <1>3, <2>1, <3>1, <3>2 DEF Max
  <2>2. CASE n \in Nat
    <3>1. {0, n} \in SUBSET (0..n) /\ {0, n} # {} /\ m = Max({0, n})
      BY <1>3, <2>2
    <3>2. m \in {0, n} /\ \A y \in {0, n} : y <= m
      BY <2>2, <3>1, MaxIsGreatest
    <3> QED BY <2>2, <3>2
  <2> QED BY <1>2, <2>1, <2>2
<1>5. m = Scanned(text)
  BY <1>1, <1>2, <1>4 DEF Scanned
<1> QED BY <1>2, <1>3, <1>5 DEF Observed

LEMMA ObservedType ==
  ASSUME NEW counter \in [open : BOOLEAN, tokens : Nat, scanned : Nat], NEW text \in Text
  PROVE  Observed(counter, text) \in [open : BOOLEAN, tokens : Nat, scanned : Nat]
<1>1. PICK m : m = Scanned(text)
  OBVIOUS
<1>2. m \in Nat
  BY <1>1, LenOfText DEF Scanned
<1>3. PICK open : open = ~Occurs(From(text, counter.scanned + 1), THINK_CLOSE)
  OBVIOUS
<1>4. open \in BOOLEAN
  BY <1>3 DEF Occurs
<1>5. Observed(counter, text) =
        IF ~counter.open THEN counter
        ELSE [open |-> open, tokens |-> counter.tokens + 1, scanned |-> m]
  BY <1>1, <1>3, ObservedIs
<1> QED BY <1>2, <1>4, <1>5

LEMMA DecodedTypes ==
  ASSUME ResponseTypes, Guarding, Stopping, NEW token \in Tokens, Decoded(token)
  PROVE  ResponseTypes'
<1>1. /\ decoded' \in Seq(Text) /\ raw' \in Text /\ raw' = raw \o token.chunk
      /\ guard' = [stops |-> {CALL_OPEN}, held |-> guard'.held] /\ guard'.held \in Text
      /\ calling' \in BOOLEAN
  BY GuardStep
<1>2. stops' = [stops |-> StopsOf', held |-> stops'.held] /\ stops'.held \in Text
  BY StopTypes
<1>3. reasoning' \in [open : BOOLEAN, tokens : Nat, scanned : Nat]
  <2>1. reasoning' = Observed(reasoning, raw')
    BY <1>1, DecodedDoes
  <2>2. reasoning \in [open : BOOLEAN, tokens : Nat, scanned : Nat]
    BY DEF ResponseTypes
  <2> QED BY <1>1, <2>1, <2>2, ObservedType
<1>4. stage' \in {"queued", "generate", "complete", "halted", "error", "answered"}
  BY DecodedDoes DEF StageAfter
<1>5. halted' \in {"no", "StopString", "Disconnected"}
  BY DecodedDoes DEF Halt
<1>6. stopped' \in BOOLEAN /\ completion_tokens' \in Nat
  <2>1. token.stop \in BOOLEAN
    BY ResponseAssumption
  <2> QED BY <2>1, DecodedDoes DEF ResponseTypes
<1>7. request' \in Requests /\ handler' \in {"starting", "reading", "returned"}
      /\ client' \in {"connected", "gone"} /\ content' \in Text
  BY DecodedDoes DEF ResponseTypes, reading
<1> QED BY <1>1, <1>2, <1>3, <1>4, <1>5, <1>6, <1>7 DEF ResponseTypes
-----------------------------------------------------------------------------
(***************************************************************************)
(* What the text says changes only with the text.                          *)
(***************************************************************************)
texts == <<request, decoded, guard, calling, stops, halted>>
turnState == <<texts, reasoning, completion_tokens, stopped>>

LEMMA TextFrame ==
  ASSUME UNCHANGED texts
  PROVE  /\ raw' = raw /\ Pushed' = Pushed /\ Visible' = Visible /\ Settled' = Settled
         /\ StopsOf' = StopsOf /\ StopsAt' = StopsAt /\ Shown' = Shown /\ Opening' = Opening
         /\ EndedByCall' = EndedByCall /\ HeldByStops' = HeldByStops /\ LetOut' = LetOut
         /\ Calls' = Calls /\ (Guarding <=> Guarding') /\ (Stopping <=> Stopping')
         /\ \A text : IsWhole(text)' <=> IsWhole(text)
<1>1. /\ request' = request /\ decoded' = decoded /\ guard' = guard /\ calling' = calling
      /\ stops' = stops /\ halted' = halted
  BY DEF texts
<1>2. raw' = raw
  BY <1>1 DEF raw
<1>3. Pushed' = Pushed
  BY <1>1, <1>2 DEF Pushed
<1>4. Visible' = Visible
  BY <1>1, <1>2 DEF Visible
<1>5. Settled' = Settled
  BY <1>1, <1>2, <1>4 DEF Settled
<1>6. StopsOf' = StopsOf
  BY <1>1 DEF StopsOf
<1>7. StopsAt' = StopsAt
  BY <1>1, <1>4, <1>5 DEF StopsAt, StopsIn
<1>8. Shown' = Shown
  BY <1>4, <1>7 DEF Shown
<1>9. Opening' = Opening
  BY <1>1 DEF Opening
<1>10. EndedByCall' = EndedByCall
  BY <1>1, <1>7 DEF EndedByCall
<1>11. HeldByStops' = HeldByStops
  BY <1>1 DEF HeldByStops
<1>12. LetOut' = LetOut
  BY <1>1, <1>3, <1>9 DEF LetOut
<1>13. Calls' = Calls
  BY <1>1, <1>2 DEF Calls
<1>14. Guarding <=> Guarding'
  BY <1>1, <1>2 DEF Guarding
<1>15. Stopping <=> Stopping'
  BY <1>1, <1>3, <1>6 DEF Stopping
<1>16. ASSUME NEW text PROVE IsWhole(text)' <=> IsWhole(text)
  BY <1>8, <1>9, <1>10, <1>11 DEF IsWhole
<1> QED BY <1>2, <1>3, <1>4, <1>5, <1>6, <1>7, <1>8, <1>9, <1>10, <1>11, <1>12, <1>13, <1>14,
           <1>15, <1>16

LEMMA TurnFrame ==
  ASSUME UNCHANGED turnState
  PROVE  /\ Reason' = Reason /\ Done(Reason)' = Done(Reason) /\ (Fits <=> Fits')
         /\ Closings' = Closings /\ (Counted => Counted')
<1>1. /\ request' = request /\ decoded' = decoded /\ halted' = halted /\ stopped' = stopped
      /\ reasoning' = reasoning /\ completion_tokens' = completion_tokens
  BY DEF turnState, texts
<1>2. Calls' = Calls /\ raw' = raw
  BY TextFrame DEF turnState
<1>3. Reason' = Reason
  BY <1>1, <1>2 DEF Reason
<1>4. Done(Reason)' = Done(Reason)
  BY <1>1, <1>2, <1>3 DEF Done
<1>5. Fits <=> Fits'
  BY <1>1, <1>3 DEF Fits
<1>6. ChunksOf(Done(Reason))' = ChunksOf(Done(Reason))
  BY <1>1, <1>4 DEF ChunksOf, Usage
<1>7. Closings' = Closings
  BY <1>6 DEF Closings
<1>8. Counted => Counted'
  BY <1>1, <1>2 DEF Counted
<1> QED BY <1>3, <1>4, <1>5, <1>7, <1>8
-----------------------------------------------------------------------------
(***************************************************************************)
(* The events on their way and the parts of a reply.                       *)
(***************************************************************************)
CallsPart(event) == [kind |-> "calls", tool_calls |-> event.tool_calls]
FinishPart(event) == [kind |-> "finish", finish_reason |-> event.finish_reason]
UsagePart(event) == [kind |-> "usage", usage |-> Usage(event)]
EndPart == [kind |-> "[DONE]"]
LastParts(event) == {CallsPart(event), FinishPart(event), UsagePart(event), EndPart}

\* The chunks of a finished turn: its calls, the finish chunk, the usage, the end.
ClosingChunks(chunks, event, calls, usage) ==
  /\ calls \in 0..1 /\ usage \in 0..1 /\ Len(chunks) = calls + usage + 2
  /\ calls = 1 => chunks[1] = CallsPart(event)
  /\ chunks[calls + 1] = FinishPart(event)
  /\ usage = 1 => chunks[calls + 2] = UsagePart(event)
  /\ chunks[calls + usage + 2] = EndPart
  /\ calls = 0 <=> event.tool_calls = << >>
  /\ usage = 1 <=> request.usage

LEMMA ChunksClose ==
  ASSUME NEW event, event.kind = "done", request.usage \in BOOLEAN
  PROVE  /\ ChunksOf(event) \in Seq(LastParts(event))
         /\ \E calls, usage : ClosingChunks(ChunksOf(event), event, calls, usage)
<1> DEFINE c == CallsPart(event)
           f == FinishPart(event)
           u == UsagePart(event)
           e == EndPart
           S == LastParts(event)
<1>1. c \in S /\ f \in S /\ u \in S /\ e \in S
  BY DEF LastParts
<1>2. ChunksOf(event) =
        (IF event.tool_calls = << >> THEN << >> ELSE <<c>>) \o <<f>>
        \o (IF request.usage THEN <<u>> ELSE << >>) \o <<e>>
  BY DEF ChunksOf, CallsPart, FinishPart, UsagePart, EndPart
<1> HIDE DEF c, f, u, e, S
<1>3. ASSUME NEW s \in Seq(S), NEW x \in S
      PROVE  /\ s \o <<x>> \in Seq(S) /\ Len(s \o <<x>>) = Len(s) + 1
             /\ (s \o <<x>>)[Len(s) + 1] = x /\ \A k \in 1..Len(s) : (s \o <<x>>)[k] = s[k]
  <2>1. <<x>> \in Seq(S) /\ Len(<<x>>) = 1 /\ <<x>>[1] = x
    OBVIOUS
  <2>2. 1 \in 1..Len(<<x>>)
    BY <2>1
  <2> QED BY <2>1, <2>2, Concat
<1>4. << >> \in Seq(S) /\ Len(<< >>) = 0
  OBVIOUS
<1>5. PICK a : a = IF event.tool_calls = << >> THEN << >> ELSE <<c>>
  OBVIOUS
<1>6. PICK calls : calls = IF event.tool_calls = << >> THEN 0 ELSE 1
  OBVIOUS
<1>7. /\ calls \in 0..1 /\ a \in Seq(S) /\ Len(a) = calls /\ (calls = 1 => a[1] = c)
      /\ (calls = 0 <=> event.tool_calls = << >>)
  BY <1>1, <1>4, <1>5, <1>6
<1>8. PICK b : b = a \o <<f>>
  OBVIOUS
<1>9. /\ b \in Seq(S) /\ Len(b) = calls + 1 /\ b[calls + 1] = f
      /\ calls = 1 => b[1] = c
  <2>1. /\ a \o <<f>> \in Seq(S) /\ Len(a \o <<f>>) = Len(a) + 1
        /\ (a \o <<f>>)[Len(a) + 1] = f /\ \A k \in 1..Len(a) : (a \o <<f>>)[k] = a[k]
    BY <1>1, <1>3, <1>7
  <2> QED BY <1>7, <1>8, <2>1
<1>10. PICK usage : usage = IF request.usage THEN 1 ELSE 0
  OBVIOUS
<1>11. PICK d : d = b \o (IF request.usage THEN <<u>> ELSE << >>)
  OBVIOUS
<1>12. /\ usage \in 0..1 /\ (usage = 1 <=> request.usage)
       /\ d \in Seq(S) /\ Len(d) = calls + usage + 1 /\ d[calls + 1] = f
       /\ calls = 1 => d[1] = c
       /\ usage = 1 => d[calls + 2] = u
  <2>1. CASE request.usage
    <3>1. d = b \o <<u>> /\ usage = 1
      BY <1>10, <1>11, <2>1
    <3>2. /\ d \in Seq(S) /\ Len(d) = Len(b) + 1
          /\ d[Len(b) + 1] = u /\ \A k \in 1..Len(b) : d[k] = b[k]
      BY <1>1, <1>3, <1>9, <3>1
    <3>3. calls + 1 + 1 = calls + 2 /\ calls + 1 \in 1..Len(b) /\ 1 \in 1..Len(b)
      BY <1>7, <1>9
    <3> QED BY <1>7, <1>9, <2>1, <3>1, <3>2, <3>3
  <2>2. CASE ~request.usage
    <3>1. d = b /\ usage = 0
      <4>1. d = b \o << >>
        BY <1>11, <2>2
      <4> QED BY <1>9, <1>10, <2>2, <4>1, ConcatEmpty
    <3> QED BY <1>7, <1>9, <2>2, <3>1
  <2> QED BY <2>1, <2>2
<1>13. ChunksOf(event) = d \o <<e>>
  BY <1>2, <1>5, <1>8, <1>11
<1>14. /\ d \o <<e>> \in Seq(S) /\ Len(d \o <<e>>) = Len(d) + 1
       /\ (d \o <<e>>)[Len(d) + 1] = e /\ \A k \in 1..Len(d) : (d \o <<e>>)[k] = d[k]
  BY <1>1, <1>3, <1>12
<1>15. /\ calls + usage + 1 + 1 = calls + usage + 2 /\ calls + 1 \in 1..Len(d) /\ 1 \in 1..Len(d)
       /\ usage = 1 => calls + 2 \in 1..Len(d)
  BY <1>7, <1>12
<1>16. PICK chunks : chunks = ChunksOf(event)
  OBVIOUS
<1>17. /\ chunks \in Seq(S) /\ Len(chunks) = calls + usage + 2
       /\ calls = 1 => chunks[1] = c
       /\ chunks[calls + 1] = f
       /\ usage = 1 => chunks[calls + 2] = u
       /\ chunks[calls + usage + 2] = e
  BY <1>12, <1>13, <1>14, <1>15, <1>16
<1>18. ClosingChunks(chunks, event, calls, usage)
  BY <1>7, <1>12, <1>17 DEF ClosingChunks, c, f, u, e
<1> QED BY <1>16, <1>17, <1>18 DEF S

LEMMA DoneIs ==
  /\ Done(Reason).kind = "done" /\ Done(Reason).finish_reason = Reason
  /\ Done(Reason).tool_calls = Calls
BY DEF Done

\* Only deltas and text parts carry text.
LEMMA PartsCarry ==
  ASSUME request.usage \in BOOLEAN
  PROVE  Carriers(Parts) /\ Carriers(Deltas \cup {Failed, Done(Reason)})
<1>1. << >> \in Text
  BY TextNothing
<1>2. ASSUME NEW p \in LastParts(Done(Reason)) PROVE TextOf(p) = << >>
  BY DEF LastParts, CallsPart, FinishPart, UsagePart, EndPart, TextOf
<1>3. ASSUME NEW p \in TextParts \cup Deltas PROVE TextOf(p) \in Text
  BY DEF TextParts, Deltas, TextOf
<1>4. TextOf(RolePart) = << >> /\ TextOf(ErrorPart) = << >> /\ TextOf(Failed) = << >>
  BY DEF TextOf, RolePart, ErrorPart, Failed
<1>5. TextOf(Done(Reason)) = << >>
  BY DoneIs DEF TextOf
<1>6. \A k \in 1..Len(ChunksOf(Done(Reason))) :
        ChunksOf(Done(Reason))[k] \in LastParts(Done(Reason))
  BY DoneIs, ChunksClose
<1>7. ASSUME NEW p \in Parts PROVE TextOf(p) \in Text
  BY <1>1, <1>2, <1>3, <1>4, <1>6 DEF Parts
<1>8. ASSUME NEW p \in Deltas \cup {Failed, Done(Reason)} PROVE TextOf(p) \in Text
  BY <1>1, <1>3, <1>4, <1>5
<1> QED BY <1>7, <1>8 DEF Carriers

LEMMA TextsDelta ==
  ASSUME NEW P, Carriers(P), Deltas \subseteq P, NEW parts \in Seq(P), NEW t \in Text
  PROVE  /\ parts \o DeltaOf(t) \in Seq(P) /\ Texts(parts \o DeltaOf(t)) = Texts(parts) \o t
         /\ DeltaOf(t) \in Seq(Deltas)
<1>1. CASE t = << >>
  <2>1. DeltaOf(t) = << >>
    BY <1>1 DEF DeltaOf
  <2>2. Texts(parts) \in Text
    BY TextsType
  <2>3. parts \o << >> = parts
    BY ConcatEmpty
  <2>4. Texts(parts) \o << >> = Texts(parts)
    BY <2>2, TextNothing
  <2>5. << >> \in Seq(Deltas)
    OBVIOUS
  <2> QED BY <1>1, <2>1, <2>3, <2>4, <2>5
<1>2. CASE t # << >>
  <2>1. DeltaOf(t) = <<Delta(t)>> /\ Delta(t) \in Deltas /\ TextOf(Delta(t)) = t
    BY <1>2 DEF DeltaOf, Delta, Deltas, TextOf
  <2>2. parts \o <<Delta(t)>> = Append(parts, Delta(t)) /\ Append(parts, Delta(t)) \in Seq(P)
    BY <2>1, AppendAsConcat, AppendType
  <2>3. Texts(Append(parts, Delta(t))) = Texts(parts) \o t
    BY <2>1, TextsAppend
  <2>4. \A S, x : x \in S => <<x>> \in Seq(S)
    OBVIOUS
  <2>5. <<Delta(t)>> \in Seq(Deltas)
    BY <2>1, <2>4
  <2> QED BY <2>1, <2>2, <2>3, <2>5
<1> QED BY <1>1, <1>2

LEMMA TextTypes ==
  ResponseTypes /\ InOrder /\ Replying =>
    /\ Received \in Text /\ Texts(events) \in Text /\ Sent \in Text
    /\ events \in Seq(Deltas \cup {Failed, Done(Reason)})
<1> SUFFICES ASSUME ResponseTypes, InOrder, Replying
             PROVE  /\ Received \in Text /\ Texts(events) \in Text /\ Sent \in Text
                    /\ events \in Seq(Deltas \cup {Failed, Done(Reason)})
  OBVIOUS
<1>1. request.usage \in BOOLEAN
  BY TypesOfText
<1>2. Carriers(Parts) /\ Carriers(Deltas \cup {Failed, Done(Reason)})
  BY <1>1, PartsCarry
<1>3. events \in Seq(Deltas \cup {Failed, Done(Reason)})
  <2>1. Deltas \cup Final \subseteq Deltas \cup {Failed, Done(Reason)}
    BY DEF Final
  <2>2. ASSUME NEW A, NEW B, A \subseteq B PROVE Seq(A) \subseteq Seq(B)
    BY <2>2
  <2> QED BY <2>1, <2>2 DEF InOrder
<1>4. Texts(events) \in Text
  BY <1>2, <1>3, TextsType
<1>5. Received \in Text
  <2>1. CASE request.stream
    <3>1. reply \in Seq(Parts)
      BY <2>1 DEF Replying
    <3> QED BY <1>2, <2>1, <3>1, TextsType DEF Received
  <2>2. CASE ~request.stream
    BY <2>2 DEF Received, ResponseTypes
  <2> QED BY <2>1, <2>2
<1> QED BY <1>3, <1>4, <1>5, TextConcat DEF Sent

\* Until the worker has answered there is no end to a reply, nor one on its way.
LEMMA Unfinished ==
  ResponseTypes /\ InOrder /\ Replying /\ stage # "answered" =>
    events \in Seq(Deltas) /\ ~HasDone /\ ~Answered
<1> SUFFICES ASSUME ResponseTypes, InOrder, Replying, stage # "answered"
             PROVE  events \in Seq(Deltas) /\ ~HasDone /\ ~Answered
  OBVIOUS
<1>1. Deltas \cup Final = Deltas
  BY DEF Final
<1>2. events \in Seq(Deltas)
  BY <1>1 DEF InOrder
<1>3. ~HasDone
  <2>1. \A i \in 1..Len(events) : events[i].kind = "delta"
    <3>1. \A i \in 1..Len(events) : events[i] \in Deltas
      BY <1>2
    <3>2. \A p \in Deltas : p.kind = "delta"
      BY DEF Deltas
    <3> QED BY <3>1, <3>2
  <2> QED BY <2>1, DoneIs DEF HasDone
<1>4. \A i \in DOMAIN reply : reply[i].kind \in {"role", "text"}
  <2>1. CASE request.stream
    <3>1. reply \in Seq(Parts) /\ (reply = << >> \/ Streams(reply, Len(reply)))
      BY <2>1 DEF Replying, ResponseTypes
    <3>2. DOMAIN reply = 1..Len(reply) /\ Len(reply) \in Nat
      BY <3>1
    <3>3. CASE reply = << >>
      BY <3>3
    <3>4. CASE Streams(reply, Len(reply))
      <4>1. \A i \in 1..Len(reply) : i = 1 \/ i \in 2..Len(reply)
        BY <3>2
      <4>2. RolePart.kind = "role" /\ \A p \in TextParts : p.kind = "text"
        BY DEF RolePart, TextParts
      <4> QED BY <3>2, <3>4, <4>1, <4>2 DEF Streams
    <3> QED BY <3>1, <3>3, <3>4
  <2>2. CASE ~request.stream
    <3>1. reply = << >>
      BY <2>2 DEF Replying
    <3> QED BY <3>1
  <2> QED BY <2>1, <2>2
<1>5. ~Answered
  BY <1>4 DEF Answered, At
<1> QED BY <1>2, <1>3, <1>5

\* What is held begins a stop and ends the text.
LEMMA HeldBegins ==
  ASSUME NEW marks \in StopSets, NEW held \in Text, NEW text \in Text, Holds(marks, held, text)
  PROVE  /\ Out(text, held) \o held = text
         /\ held # << >> =>
              \E stop \in marks : \E n \in 1..(Len(stop) - 1) : held = SubSeq(stop, 1, n)
<1>1. /\ Len(text) \in Nat /\ Len(held) \in Nat /\ (held = << >> <=> Len(held) = 0)
      /\ Len(text) - Len(held) \in 0..Len(text)
      /\ IsTail(held, text, Len(text) - Len(held))
  BY LenOfText, OutOfText DEF Holds
<1>2. Out(text, held) \o held = text
  <2>1. PICK a : a = Out(text, held)
    OBVIOUS
  <2>2. PICK d : d = Len(text) - Len(held)
    OBVIOUS
  <2>3. a \in Text /\ Len(a) = d /\ \A k \in 1..d : text[k] = a[k]
    BY <2>1, <2>2, OutOfText DEF Extends
  <2>4. \A k \in 1..Len(held) : held[k] = text[d + k]
    BY <1>1, <2>2 DEF IsTail
  <2>5. PICK b : b = a \o held
    OBVIOUS
  <2>6. /\ b \in Text /\ Len(b) = Len(a) + Len(held)
        /\ \A k \in 1..Len(a) : b[k] = a[k]
        /\ \A k \in 1..Len(held) : b[Len(a) + k] = held[k]
    BY <2>3, <2>5, TextConcat
  <2>7. Len(b) = Len(text)
    BY <1>1, <2>2, <2>3, <2>6
  <2>8. ASSUME NEW i \in 1..Len(text) PROVE b[i] = text[i]
    <3>1. CASE i <= d
      BY <1>1, <2>2, <2>3, <2>6, <3>1
    <3>2. CASE i > d
      <4>1. PICK k : k = i - d
        OBVIOUS
      <4>2. k \in 1..Len(held) /\ d + k = i
        BY <1>1, <2>2, <3>2, <4>1
      <4> QED BY <2>3, <2>4, <2>6, <4>2
    <3> QED BY <1>1, <2>2, <3>1, <3>2
  <2>9. b = text
    BY <2>6, <2>7, <2>8, SeqEqual DEF Text
  <2> QED BY <2>1, <2>5, <2>9
<1>3. ASSUME held # << >>
      PROVE  \E stop \in marks : \E n \in 1..(Len(stop) - 1) : held = SubSeq(stop, 1, n)
  <2>1. PICK stop \in marks : EndsIn(text, stop, Len(held))
    BY <1>3 DEF Holds
  <2>2. stop \in Text /\ Len(stop) \in Nat
    BY LenOfText DEF StopSets
  <2>3. PICK n : n = Len(held)
    OBVIOUS
  <2>4. n \in 1..(Len(stop) - 1) /\ n \in 0..Len(stop)
    BY <1>1, <1>3, <2>1, <2>2, <2>3 DEF EndsIn
  <2>5. PICK a : a = SubSeq(stop, 1, n)
    OBVIOUS
  <2>6. a \in Text /\ Len(a) = n /\ \A k \in 1..n : a[k] = stop[k]
    BY <2>2, <2>4, <2>5, PrefixType DEF Text
  <2>7. \A k \in 1..n : held[k] = stop[k]
    BY <1>1, <2>1, <2>3 DEF EndsIn, IsTail
  <2>8. held = a
    BY <2>3, <2>6, <2>7, SeqEqual DEF Text
  <2> QED BY <2>4, <2>5, <2>8
<1> QED BY <1>2, <1>3

\* Where no call can be held back, all of what may be shown was searched for a stop.
LEMMA AllIsSearched ==
  ResponseTypes /\ Guarding /\ Stopping /\ ~(request.tools /\ ~calling) =>
    /\ StopsAt = {} /\ Shown = Pushed
    /\ Out(Pushed, stops.held) \o stops.held = Shown
    /\ stops.held # << >> => stops.held \in HeldByStops
<1> SUFFICES ASSUME ResponseTypes, Guarding, Stopping, ~(request.tools /\ ~calling)
             PROVE  /\ StopsAt = {} /\ Shown = Pushed
                    /\ Out(Pushed, stops.held) \o stops.held = Shown
                    /\ stops.held # << >> => stops.held \in HeldByStops
  OBVIOUS
<1>1. Visible = Pushed /\ Pushed \in Text
  BY PushedIsSettled
<1>2. StopsAt = {}
  BY <1>1, OutIsShown DEF Stopping, Holds
<1>3. Shown = Pushed
  BY <1>1, <1>2 DEF Shown
<1>4. stops.held \in Text /\ StopsOf \in StopSets /\ Holds(StopsOf, stops.held, Pushed)
  BY TypesOfText DEF ResponseTypes, Stopping
<1>5. Out(Pushed, stops.held) \o stops.held = Pushed
  BY <1>1, <1>4, HeldBegins
<1>6. ASSUME stops.held # << >> PROVE stops.held \in HeldByStops
  <2>1. PICK h : h = stops.held
    OBVIOUS
  <2>2. PICK p : p = Pushed
    OBVIOUS
  <2>3. \E stop \in StopsOf : \E n \in 1..(Len(stop) - 1) : h = SubSeq(stop, 1, n)
    BY <1>1, <1>4, <1>6, <2>1, <2>2, HeldBegins
  <2> QED BY <2>1, <2>3 DEF HeldByStops, StopsOf
<1> QED BY <1>2, <1>3, <1>5, <1>6
-----------------------------------------------------------------------------
(***************************************************************************)
(* One decoded chunk keeps the invariant.                                  *)
(***************************************************************************)
LEMMA InOrderWhile ==
  events \in Seq(Deltas) /\ (handler = "returned" => events = << >>) => InOrder
<1> SUFFICES ASSUME events \in Seq(Deltas), handler = "returned" => events = << >> PROVE InOrder
  OBVIOUS
<1>1. \A A, B : A \subseteq B => Seq(A) \subseteq Seq(B)
  OBVIOUS
<1>2. events \in Seq(Deltas \cup Final)
  BY <1>1
<1>3. \A i \in 1..(Len(events) - 1) : events[i] \in Deltas
  <2>1. \A i \in 1..(Len(events) - 1) : i \in 1..Len(events)
    OBVIOUS
  <2> QED BY <2>1
<1> QED BY <1>2, <1>3 DEF InOrder

LEMMA DecodedCourse ==
  ASSUME ResponseInv, NEW token \in Tokens, Decoded(token)
  PROVE  /\ Course' /\ Searched' /\ Guarding /\ Stopping /\ Guarding' /\ ResponseTypes'
         /\ stage' \in {"generate", "complete", "halted"} /\ stage = "generate"
         /\ stage' # "halted" => Halt(token) = "no"
         /\ Halt(token) # "no" => stage' = "halted" /\ halted' = Halt(token)
<1>1. stage = "generate" /\ Guarding /\ Stopping
  BY DecodedDoes DEF ResponseInv, Searched, Working
<1>2. ResponseTypes'
  BY <1>1, DecodedTypes DEF ResponseInv
<1>3. Guarding'
  BY <1>1, GuardStep DEF ResponseInv
<1>4. completion_tokens \in Nat /\ completion_tokens < MaxNew /\ MaxNew \in Nat
  BY <1>1, ResponseAssumption DEF ResponseInv, Course, ResponseTypes
<1>5. /\ completion_tokens' = completion_tokens + 1 /\ stopped' = token.stop
      /\ halted' = Halt(token) /\ stage' = StageAfter(token, Halt(token))
  BY DecodedDoes
<1>6. CASE Halt(token) # "no"
  <2>1. stage' = "halted" /\ halted' # "no"
    BY <1>5, <1>6 DEF StageAfter
  <2>2. Course' /\ Searched'
    BY <2>1 DEF Course, Searched, Working
  <2> QED BY <1>1, <1>2, <1>3, <1>5, <1>6, <2>1, <2>2
<1>7. CASE Halt(token) = "no"
  <2>1. /\ halted' = "no"
        /\ stage' = IF token.stop \/ completion_tokens + 1 = MaxNew THEN "complete" ELSE "generate"
    BY <1>5, <1>7 DEF StageAfter
  <2>2. Course'
    BY <1>4, <1>5, <2>1 DEF Course, Working
  <2>3. ~Matched(token)
    BY <1>7 DEF Halt, Matched
  <2>4. Stopping'
    BY <1>1, <2>3, StopTypes DEF ResponseInv, Stopping
  <2>5. Searched'
    BY <1>3, <2>4 DEF Searched
  <2> QED BY <1>1, <1>2, <1>3, <1>7, <2>1, <2>2, <2>5
<1> QED BY <1>6, <1>7

LEMMA DecodedSends ==
  ASSUME ResponseInv, NEW token \in Tokens, Decoded(token)
  PROVE  /\ InOrder' /\ Replying' /\ Received' = Received /\ events' \in Seq(Deltas)
         /\ ReceiverOpen => Texts(events') = Texts(events) \o Emitted(token)
<1>1. /\ stage = "generate" /\ stage' \in {"generate", "complete", "halted"}
      /\ Guarding /\ Stopping
  BY DecodedCourse
<1>2. request' = request /\ handler' = handler /\ reply' = reply /\ content' = content
  BY DecodedDoes DEF reading
<1>3. events' = IF Searches(token) /\ ~Lost(token) /\ ReceiverOpen
                THEN events \o DeltaOf(Step(token).emit) ELSE events
  BY DecodedDoes
<1>4. events \in Seq(Deltas) /\ Emitted(token) \in Text
  BY <1>1, Unfinished, StopTypes DEF ResponseInv
<1>5. Carriers(Deltas)
  BY DEF Carriers, Deltas, TextOf
<1>6. ASSUME ReceiverOpen
      PROVE  /\ InOrder' /\ events' \in Seq(Deltas)
             /\ Texts(events') = Texts(events) \o Emitted(token)
  <2>1. events' = events \o DeltaOf(Emitted(token))
    <3>1. CASE Searches(token)
      BY <1>3, <1>6, <3>1 DEF Lost, Emitted
    <3>2. CASE ~Searches(token)
      <4>1. events' = events /\ DeltaOf(Emitted(token)) = << >>
        BY <1>3, <3>2 DEF Emitted, DeltaOf
      <4> QED BY <1>4, <4>1, ConcatEmpty
    <3> QED BY <3>1, <3>2
  <2>2. PICK t : t = Emitted(token)
    OBVIOUS
  <2>3. events \o DeltaOf(t) \in Seq(Deltas) /\ Texts(events \o DeltaOf(t)) = Texts(events) \o t
    BY <1>4, <1>5, <2>2, TextsDelta
  <2>4. events' \in Seq(Deltas) /\ Texts(events') = Texts(events) \o Emitted(token)
    BY <2>1, <2>2, <2>3
  <2>5. (handler = "returned" => events = << >>)'
    BY <1>2, <1>6 DEF ReceiverOpen
  <2>6. InOrder'
    <3>1. (events \in Seq(Deltas))'
      BY <2>4 DEF Deltas, Text
    <3> QED BY <2>5, <3>1, InOrderWhile, PTL
  <2> QED BY <2>4, <2>6
<1>7. ASSUME ~ReceiverOpen PROVE InOrder' /\ events' \in Seq(Deltas)
  <2>1. events' = events /\ events = << >>
    BY <1>3, <1>7 DEF ReceiverOpen, InOrder, ResponseInv
  <2>2. InOrder'
    <3>1. (events \in Seq(Deltas))'
      BY <1>4, <2>1 DEF Deltas, Text
    <3>2. (handler = "returned" => events = << >>)'
      BY <2>1
    <3> QED BY <3>1, <3>2, InOrderWhile, PTL
  <2> QED BY <1>4, <1>7, <2>1, <2>2
<1>8. Received' = Received
  BY <1>2 DEF Received
<1>9. Parts' = Parts
  BY <1>1 DEF Parts
<1>10. Replying'
  BY <1>1, <1>2, <1>9 DEF Replying, ResponseInv
<1> QED BY <1>4, <1>6, <1>7, <1>8, <1>10

\* The text let out with a chunk: what the next state may show of it.
LEMMA DecodedText ==
  ASSUME ResponseInv, NEW token \in Tokens, Decoded(token), NEW t, t = LetOut \o Emitted(token)
  PROVE  /\ t \in Text /\ LetOut \in Text /\ Emitted(token) \in Text /\ (Opening \o Shown)' \in Text
         /\ IsPrefix(LetOut, t) /\ IsPrefix(t, (Opening \o Shown)')
         /\ ~Matched(token) => t = LetOut'
         /\ Matched(token) => t = (Opening \o Shown)'
         /\ Halt(token) = "StopString" => IsWhole(t)'
<1>1. /\ ResponseTypes /\ Guarding /\ Stopping /\ ResponseTypes' /\ Guarding'
      /\ Halt(token) # "no" => halted' = Halt(token)
  BY DecodedCourse DEF ResponseInv
<1>2. Opening \in Text /\ Opening' = Opening
  BY <1>1, TypesOfText, DecodedDoes DEF Opening
<1>3. PICK o : o = Out(Pushed, stops.held)
  OBVIOUS
<1>4. PICK e : e = Emitted(token)
  OBVIOUS
<1>5. o \in Text /\ e \in Text
  BY <1>1, <1>3, <1>4, OutIsShown, StopTypes
<1>6. LetOut = Opening \o o /\ LetOut \in Text /\ t \in Text /\ IsPrefix(LetOut, t)
  <2>1. LetOut = Opening \o o
    BY <1>3 DEF LetOut
  <2>2. LetOut \in Text
    BY <1>2, <1>5, <2>1, TextConcat
  <2>3. t = LetOut \o e
    BY <1>4
  <2> QED BY <1>5, <2>1, <2>2, <2>3, TextConcat, PrefixOfLonger
<1>7. t = Opening \o (o \o e) /\ o \o e \in Text
  <2>1. PICK w : w = Opening
    OBVIOUS
  <2>2. w \in Text /\ o \in Text /\ e \in Text
    BY <1>2, <1>5, <2>1
  <2>3. (w \o o) \o e = w \o (o \o e) /\ o \o e \in Text
    BY <2>2, TextAssoc, TextConcat
  <2>4. t = (w \o o) \o e
    BY <1>4, <1>6, <2>1
  <2> QED BY <2>1, <2>3, <2>4
<1>8. ASSUME Matched(token)
      PROVE  /\ t = (Opening \o Shown)' /\ (Opening \o Shown)' \in Text /\ IsWhole(t)'
  <2>1. PICK p : p = Pushed'
    OBVIOUS
  <2>2. PICK v : v = Visible'
    OBVIOUS
  <2>3. PICK S : S = StopsOf
    OBVIOUS
  <2>4. PICK m : m = Min(Starts(p, S))
    OBVIOUS
  <2>5. Starts(p, S) # {} /\ o \o e = Before(p, m) /\ S \in StopSets /\ S = StopsOf'
    BY <1>1, <1>3, <1>4, <1>8, <2>1, <2>3, <2>4, StopTypes
  <2>6. p \in Text /\ v \in Text /\ Extends(v, p) /\ Settled' = p
    <3>1. (Pushed \in Text /\ Visible \in Text /\ Settled = Pushed /\ Extends(Visible, Pushed))'
      BY <1>1, PushedIsSettled, PTL
    <3> QED BY <2>1, <2>2, <3>1 DEF Text
  <2>7. \A x : StopsIn(x)' = Starts(x, S)
    BY <2>5 DEF StopsIn, Starts, StopsOf
  <2>8. StopsAt' = Starts(p, S)
    BY <2>5, <2>6, <2>7 DEF StopsAt
  <2>9. Shown' = Before(v, m)
    BY <2>2, <2>4, <2>5, <2>8 DEF Shown
  <2>10. m \in 1..Len(p) /\ Len(p) \in Nat /\ Len(v) \in Nat /\ Len(p) <= Len(v)
    <3>1. Starts(p, S) \subseteq 1..Len(p)
      BY <2>5, <2>6, StartsBegin
    <3>2. Starts(p, S) \in SUBSET Nat
      BY <3>1
    <3> QED BY <2>4, <2>5, <2>6, <3>1, <3>2, MinIsLeast, LenOfText DEF Extends
  <2>11. Before(v, m) = Before(p, m)
    <3>1. m \in 1..(Len(p) + 1) /\ m \in 1..(Len(v) + 1)
      BY <2>10
    <3>2. PICK a : a = Before(v, m)
      OBVIOUS
    <3>3. PICK b : b = Before(p, m)
      OBVIOUS
    <3>4. a \in Text /\ Len(a) = m - 1 /\ \A k \in 1..(m - 1) : v[k] = a[k]
      BY <2>6, <3>1, <3>2, SliceOfText DEF Extends
    <3>5. b \in Text /\ Len(b) = m - 1 /\ \A k \in 1..(m - 1) : p[k] = b[k]
      BY <2>6, <3>1, <3>3, SliceOfText DEF Extends
    <3>6. \A k \in 1..(m - 1) : v[k] = p[k]
      BY <2>6, <2>10 DEF Extends
    <3>7. a = b
      BY <3>4, <3>5, <3>6, SeqEqual DEF Text
    <3> QED BY <3>2, <3>3, <3>7
  <2>12. (Opening \o Shown)' = t
    BY <1>2, <1>7, <2>5, <2>9, <2>11
  <2> QED BY <1>6, <2>12 DEF IsWhole
<1>9. ASSUME ~Matched(token)
      PROVE  /\ t = LetOut' /\ (Opening \o Shown)' \in Text /\ IsPrefix(t, (Opening \o Shown)')
             /\ Halt(token) = "StopString" => IsWhole(t)'
  <2>1. Stopping' /\ o \o e = Out(Pushed', stops'.held)
    BY <1>1, <1>3, <1>4, <1>9, StopTypes DEF Stopping
  <2>2. t = LetOut'
    BY <1>2, <1>7, <2>1 DEF LetOut
  <2>3. PICK s : s = Shown'
    OBVIOUS
  <2>4. s \in Text /\ IsPrefix(o \o e, s)
    <3>1. (Shown \in Text /\ IsPrefix(Out(Pushed, stops.held), Shown))'
      BY <1>1, <2>1, OutIsShown, PTL
    <3> QED BY <2>1, <2>3, <3>1 DEF Text
  <2>5. IsPrefix(t, Opening \o s) /\ Opening \o s \in Text
    BY <1>2, <1>7, <2>4, PrefixAfter, TextConcat
  <2>6. ASSUME Halt(token) = "StopString" PROVE IsWhole(t)'
    <3>1. Closed(token)
      BY <1>9, <2>6 DEF Halt, Matched
    <3>2. request.tools /\ calling /\ Given(token) = << >> /\ calling' = TRUE /\ request' = request
      BY <1>1, <3>1, GuardStep, DecodedDoes DEF Closed, InCall
    <3>3. /\ StopsAt' = {} /\ s = Pushed' /\ Out(Pushed', stops'.held) \o stops'.held = s
          /\ stops'.held # << >> => stops'.held \in HeldByStops'
      <4>1. (~(request.tools /\ ~calling))'
        BY <3>2
      <4>2. (/\ StopsAt = {} /\ Shown = Pushed
             /\ Out(Pushed, stops.held) \o stops.held = Shown
             /\ stops.held # << >> => stops.held \in HeldByStops)'
        BY <1>1, <2>1, <4>1, AllIsSearched, PTL
      <4> QED BY <2>3, <4>2
    <3>4. EndedByCall'
      BY <1>1, <2>6, <3>3 DEF EndedByCall
    <3>5. PICK h : h = stops'.held
      OBVIOUS
    <3>6. (o \o e) \o h = s /\ h \in Text
      BY <2>1, <3>3, <3>5, StopTypes, <1>1
    <3>7. t \o h = Opening \o s
      <4>1. PICK w : w = Opening
        OBVIOUS
      <4>2. PICK x : x = o \o e
        OBVIOUS
      <4>3. w \in Text /\ x \in Text /\ h \in Text /\ t = w \o x /\ x \o h = s
        BY <1>2, <1>7, <3>6, <4>1, <4>2
      <4>4. (w \o x) \o h = w \o (x \o h)
        BY <4>3, TextAssoc
      <4> QED BY <4>1, <4>3, <4>4
    <3>8. CASE h = << >>
      <4>1. t \o h = t
        BY <1>6, <3>8, TextNothing
      <4> QED BY <1>2, <2>3, <3>7, <4>1 DEF IsWhole
    <3>9. CASE h # << >>
      BY <1>2, <2>3, <3>3, <3>4, <3>5, <3>7, <3>9 DEF IsWhole
    <3> QED BY <3>8, <3>9
  <2> QED BY <1>2, <2>2, <2>3, <2>5, <2>6
<1>10. Emitted(token) \in Text
  BY <1>4, <1>5
<1> QED BY <1>6, <1>8, <1>9, <1>10, PrefixReflexive

LEMMA DecodedDelivered ==
  ASSUME ResponseInv, NEW token \in Tokens, Decoded(token)
  PROVE  Delivered'
<1>1. /\ stage = "generate" /\ stage' \in {"generate", "complete", "halted"}
      /\ stage' # "halted" => Halt(token) = "no"
      /\ Halt(token) # "no" => stage' = "halted" /\ halted' = Halt(token)
      /\ ResponseTypes' /\ Guarding' /\ ResponseTypes /\ InOrder /\ Replying
  BY DecodedCourse DEF ResponseInv
<1>2. PICK t : t = LetOut \o Emitted(token)
  OBVIOUS
<1>3. PICK shown : shown = (Opening \o Shown)'
  OBVIOUS
<1>4. PICK out : out = LetOut
  OBVIOUS
<1>5. /\ t \in Text /\ out \in Text /\ Emitted(token) \in Text /\ shown \in Text
      /\ IsPrefix(out, t) /\ IsPrefix(t, shown)
      /\ ~Matched(token) => t = LetOut'
      /\ Halt(token) = "StopString" => IsWhole(t)'
  <2>1. /\ t \in Text /\ LetOut \in Text /\ Emitted(token) \in Text /\ (Opening \o Shown)' \in Text
        /\ IsPrefix(LetOut, t) /\ IsPrefix(t, (Opening \o Shown)')
        /\ ~Matched(token) => t = LetOut'
        /\ Halt(token) = "StopString" => IsWhole(t)'
    BY <1>2, DecodedText
  <2> QED BY <1>3, <1>4, <2>1
<1>6. IsPrefix(Received, out) /\ (ReceiverOpen => Sent = out)
  BY <1>1, <1>4 DEF ResponseInv, Delivered
<1>7. /\ InOrder' /\ Replying' /\ Received' = Received
      /\ ReceiverOpen => Texts(events') = Texts(events) \o Emitted(token)
  BY DecodedSends
<1>8. Received \in Text /\ Texts(events) \in Text
  BY <1>1, TextTypes
<1>9. ReceiverOpen' = ReceiverOpen
  BY DecodedDoes DEF ReceiverOpen, reading
<1>10. ASSUME ReceiverOpen PROVE Sent' = t
  <2>1. PICK r : r = Received
    OBVIOUS
  <2>2. PICK e : e = Emitted(token)
    OBVIOUS
  <2>3. PICK x : x = Texts(events)
    OBVIOUS
  <2>4. r \in Text /\ e \in Text /\ x \in Text /\ r \o x = out /\ t = out \o e
    BY <1>2, <1>4, <1>5, <1>6, <1>8, <1>10, <2>1, <2>2, <2>3 DEF Sent
  <2>5. (r \o x) \o e = r \o (x \o e)
    BY <2>4, TextAssoc
  <2>6. Sent' = r \o (x \o e)
    BY <1>7, <1>10, <2>1, <2>2, <2>3 DEF Sent
  <2> QED BY <2>4, <2>5, <2>6
<1>11. IsPrefix(Received, t) /\ IsPrefix(Received, shown)
  BY <1>5, <1>6, <1>8, PrefixTransitive
<1>12. ~HasDone' /\ ~Answered'
  <2>1. (ResponseTypes /\ InOrder /\ Replying /\ stage # "answered")'
    BY <1>1, <1>7
  <2>2. (~HasDone /\ ~Answered)'
    BY <2>1, Unfinished, PTL
  <2> QED BY <2>2
<1>13. ASSUME stage' # "halted" PROVE t = LetOut'
  <2>1. ~Matched(token)
    BY <1>1, <1>13 DEF Halt, Matched
  <2> QED BY <1>5, <2>1
<1>14. ASSUME stage' = "halted", ReceiverOpen PROVE halted' = "StopString" /\ IsWhole(Sent)'
  <2>1. Halt(token) # "Disconnected"
    BY <1>14 DEF Halt, Lost
  <2>2. Halt(token) # "no"
    <3>1. stage' = StageAfter(token, Halt(token))
      BY DecodedDoes
    <3> QED BY <1>14, <3>1 DEF StageAfter
  <2>3. Halt(token) = "StopString"
    BY <2>1, <2>2 DEF Halt
  <2>4. IsWhole(t)' /\ Sent' = t
    BY <1>5, <1>10, <1>14, <2>3
  <2> QED BY <1>1, <2>3, <2>4 DEF IsWhole
<1>15. ASSUME stage' \in {"generate", "complete"}
       PROVE  IsPrefix(Received, LetOut)' /\ (ReceiverOpen' => Sent' = LetOut')
  BY <1>7, <1>9, <1>10, <1>11, <1>13, <1>15
<1>16. ASSUME stage' = "halted"
       PROVE  /\ IsPrefix(Received, Opening \o Shown)'
              /\ ReceiverOpen' => IsPrefix(Sent, Opening \o Shown)'
  <2>1. IsPrefix(Received', shown)
    BY <1>7, <1>11
  <2>2. ReceiverOpen => IsPrefix(Sent', shown)
    BY <1>5, <1>10
  <2> QED BY <1>3, <1>9, <2>1, <2>2
<1> QED BY <1>1, <1>9, <1>12, <1>14, <1>15, <1>16 DEF Delivered
-----------------------------------------------------------------------------
(***************************************************************************)
(* The other steps of the worker.                                          *)
(***************************************************************************)
LEMMA TypesKept ==
  ASSUME ResponseTypes, UNCHANGED <<texts, reasoning, content>>,
         stage' \in {"queued", "generate", "complete", "halted", "error", "answered"},
         stopped' \in BOOLEAN, completion_tokens' \in Nat,
         handler' \in {"starting", "reading", "returned"}, client' \in {"connected", "gone"}
  PROVE  ResponseTypes'
<1>1. /\ request' = request /\ decoded' = decoded /\ guard' = guard /\ calling' = calling
      /\ stops' = stops /\ halted' = halted /\ reasoning' = reasoning /\ content' = content
  BY DEF texts
<1>2. StopsOf' = StopsOf
  BY <1>1 DEF StopsOf
<1> QED BY <1>1, <1>2 DEF ResponseTypes, Text

LEMMA CountedKept ==
  ASSUME Counted, UNCHANGED <<request, decoded, reasoning>>
  PROVE  Counted'
<1>1. request' = request /\ decoded' = decoded /\ reasoning' = reasoning
  OBVIOUS
<1>2. raw' = raw
  BY <1>1 DEF raw
<1> QED BY <1>1, <1>2 DEF Counted

LEMMA ReplyKept ==
  ASSUME ResponseTypes, Replying, UNCHANGED <<request, reading>>, stage # "answered"
  PROVE  /\ Replying' /\ Received' = Received /\ (Answered <=> Answered')
         /\ (ReceiverOpen <=> ReceiverOpen')
<1>1. request' = request /\ handler' = handler /\ reply' = reply /\ content' = content
  BY DEF reading
<1>2. Parts \subseteq Parts'
  BY DEF Parts
<1>3. Replying'
  <2>1. CASE request.stream
    <3>1. reply \in Seq(Parts)
      BY <2>1 DEF Replying
    <3>2. \A A, B : A \subseteq B => Seq(A) \subseteq Seq(B)
      OBVIOUS
    <3>3. reply \in Seq(Parts')
      BY <1>2, <3>1, <3>2
    <3>4. handler = "returned" => reply = << >> \/ Streams(reply, Len(reply))
      BY <2>1 DEF Replying
    <3>5. Streams(reply, Len(reply)) => Streams(reply, Len(reply))'
      BY <1>1 DEF Streams
    <3> QED BY <1>1, <2>1, <3>3, <3>4, <3>5 DEF Replying
  <2>2. CASE ~request.stream
    BY <1>1, <2>2 DEF Replying
  <2> QED BY <2>1, <2>2
<1>4. Received' = Received
  BY <1>1 DEF Received
<1>5. Answered <=> Answered'
  BY <1>1 DEF Answered, At
<1>6. ReceiverOpen <=> ReceiverOpen'
  BY <1>1 DEF ReceiverOpen
<1> QED BY <1>3, <1>4, <1>5, <1>6

\* A step from which the turn goes on or has to be answered, and that sends nothing.
LEMMA Silent ==
  ASSUME ResponseInv, UNCHANGED <<texts, reasoning, events, reading>>,
         stage = "generate", stage' \in {"generate", "complete", "error"},
         stopped' \in BOOLEAN, completion_tokens' \in Nat, Course'
  PROVE  ResponseInv'
<1>1. ResponseTypes /\ InOrder /\ Replying /\ Delivered /\ Counted /\ Guarding /\ Stopping
  BY DEF ResponseInv, Searched, Working
<1>2. /\ request' = request /\ events' = events /\ handler' = handler
      /\ decoded' = decoded /\ reasoning' = reasoning /\ content' = content
  BY DEF texts, reading
<1>3. ResponseTypes'
  <2>1. client' = client /\ UNCHANGED <<texts, reasoning, content>>
    BY DEF reading
  <2> QED BY <1>1, <1>2, <2>1, TypesKept DEF ResponseTypes
<1>4. Searched'
  BY <1>1, TextFrame DEF Searched
<1>5. events \in Seq(Deltas) /\ ~HasDone /\ ~Answered
  BY <1>1, Unfinished
<1>6. InOrder'
  <2>1. (events \in Seq(Deltas))'
    BY <1>2, <1>5 DEF Deltas, Text
  <2>2. (handler = "returned" => events = << >>)'
    BY <1>1, <1>2 DEF InOrder
  <2> QED BY <2>1, <2>2, InOrderWhile, PTL
<1>7. Replying' /\ Received' = Received /\ ~Answered' /\ (ReceiverOpen <=> ReceiverOpen')
  BY <1>1, <1>2, <1>5, ReplyKept
<1>8. ~HasDone'
  <2>1. (ResponseTypes /\ InOrder /\ Replying /\ stage # "answered")'
    BY <1>3, <1>6, <1>7
  <2>2. (~HasDone)'
    BY <2>1, Unfinished, PTL
  <2> QED BY <2>2
<1>9. Sent' = Sent /\ LetOut' = LetOut
  <2>1. Texts(events)' = Texts(events)
    BY <1>2
  <2> QED BY <1>7, <2>1, TextFrame DEF Sent
<1>10. Delivered'
  BY <1>1, <1>7, <1>8, <1>9 DEF Delivered
<1>11. Counted'
  BY <1>1, <1>2, CountedKept
<1> QED BY <1>3, <1>4, <1>6, <1>7, <1>10, <1>11 DEF ResponseInv

LEMMA UndecodedStep ==
  ASSUME ResponseInv, NEW token \in Tokens, Undecoded(token)
  PROVE  ResponseInv'
<1>1. /\ stage = "generate" /\ stopped' = token.stop /\ halted' = halted
      /\ completion_tokens' = completion_tokens + 1 /\ UNCHANGED <<texts, reasoning, events, reading>>
      /\ stage' = StageAfter(token, "no")
  BY DEF Undecoded, texts
<1>2. completion_tokens \in Nat /\ completion_tokens < MaxNew /\ MaxNew \in Nat /\ halted = "no"
  BY <1>1, ResponseAssumption DEF ResponseInv, Course, ResponseTypes, Working
<1>3. stopped' \in BOOLEAN
  BY <1>1, ResponseAssumption
<1>4. stage' = IF token.stop \/ completion_tokens + 1 = MaxNew THEN "complete" ELSE "generate"
  BY <1>1 DEF StageAfter
<1>5. Course'
  BY <1>1, <1>2, <1>4 DEF Course, Working
<1> QED BY <1>1, <1>2, <1>3, <1>4, <1>5, Silent

LEMMA FailPassStep ==
  ASSUME ResponseInv, FailPass
  PROVE  ResponseInv'
<1>1. /\ stage = "generate" /\ stage' = "error" /\ halted' = halted /\ stopped' = stopped
      /\ completion_tokens' = completion_tokens /\ UNCHANGED <<texts, reasoning, events, reading>>
  BY DEF FailPass, texts
<1>2. halted = "no" /\ stopped \in BOOLEAN /\ completion_tokens \in Nat
  BY <1>1 DEF ResponseInv, Course, Working, ResponseTypes
<1>3. Course'
  BY <1>1, <1>2 DEF Course, Working
<1> QED BY <1>1, <1>2, <1>3, Silent

\* Of an empty text nothing is let out.
LEMMA NothingYet ==
  ASSUME ResponseTypes, Guarding, Stopping, decoded = << >>
  PROVE  LetOut = Opening /\ Opening \in Text /\ Shown \in Text
<1>1. raw = << >> /\ << >> \in Text /\ Len(<< >>) = 0
  BY FlattenEmpty, TextNothing DEF raw
<1>2. ~Occurs(raw, CALL_OPEN)
  <2> SUFFICES ASSUME Occurs(raw, CALL_OPEN) PROVE FALSE
    OBVIOUS
  <2>1. Find(raw, CALL_OPEN) \in 1..Len(raw)
    BY <1>1, FindIsFirst
  <2> QED BY <1>1, <2>1
<1>3. Visible = << >>
  BY <1>1, <1>2 DEF Visible
<1>4. PICK p : p = Pushed
  OBVIOUS
<1>5. p = << >>
  <2>1. p \in Text /\ Len(p) <= 0
    BY <1>1, <1>3, <1>4, PushedIsSettled DEF Extends
  <2>2. Len(p) \in Nat /\ (p = << >> <=> Len(p) = 0)
    BY <2>1, LenOfText
  <2> QED BY <2>1, <2>2
<1>6. PICK o : o = Out(p, stops.held)
  OBVIOUS
<1>7. o = << >>
  <2>1. p \in Text /\ stops.held \in Text /\ Holds(StopsOf, stops.held, p)
    BY <1>1, <1>4, <1>5 DEF Stopping, ResponseTypes
  <2>2. o \in Text /\ Len(o) <= Len(p)
    BY <1>6, <2>1, OutOfText DEF Extends
  <2>3. Len(o) \in Nat /\ (o = << >> <=> Len(o) = 0)
    BY <2>2, LenOfText
  <2> QED BY <1>1, <1>5, <2>2, <2>3
<1>8. Opening \in Text
  BY TypesOfText
<1>9. LetOut = Opening \o << >>
  BY <1>4, <1>6, <1>7 DEF LetOut
<1> QED BY <1>8, <1>9, TextNothing, OutIsShown

LEMMA BeginStep ==
  ASSUME ResponseInv, Begin
  PROVE  ResponseInv'
<1>1. ResponseTypes /\ InOrder /\ Replying /\ Delivered /\ Counted /\ Guarding /\ Stopping /\ Course
  BY DEF ResponseInv, Searched, Working, Begin
<1>2. /\ stage = "queued" /\ stage' = (IF ReceiverOpen THEN "generate" ELSE "answered")
      /\ UNCHANGED texts /\ request' = request /\ decoded' = decoded /\ reasoning' = reasoning
      /\ stopped' = stopped /\ completion_tokens' = completion_tokens /\ halted' = halted
      /\ handler' = handler /\ client' = client /\ content' = content
      /\ UNCHANGED reading
      /\ events' = IF ReceiverOpen /\ request.thinking
                   THEN Append(events, Delta(THINK_OPEN)) ELSE events
  BY DEF Begin, texts, reading
<1>3. ResponseTypes'
  BY <1>1, <1>2, TypesKept DEF ResponseTypes
<1>4. Course'
  BY <1>1, <1>2 DEF Course, Working
<1>5. Searched'
  BY <1>1, <1>2, TextFrame DEF Searched
<1>6. Counted'
  BY <1>1, <1>2, CountedKept
<1>7. events = << >> /\ Received = << >> /\ ~Answered
  BY <1>1, <1>2, Unfinished DEF Delivered
<1>8. /\ Replying' /\ Received' = << >> /\ ~Answered' /\ (ReceiverOpen <=> ReceiverOpen')
  BY <1>1, <1>2, <1>7, ReplyKept
<1>9. LetOut' = LetOut /\ LetOut = Opening /\ Opening \in Text /\ Shown \in Text
      /\ Opening' = Opening /\ Shown' = Shown
  BY <1>1, <1>2, NothingYet, TextFrame DEF Course
<1>10. Carriers(Deltas) /\ << >> \in Seq(Deltas)
  BY DEF Carriers, Deltas, TextOf
<1>11. ASSUME ReceiverOpen
       PROVE  events' \in Seq(Deltas) /\ Texts(events') = Opening
  <2>1. CASE request.thinking
    <3>1. Delta(THINK_OPEN) \in Deltas /\ TextOf(Delta(THINK_OPEN)) = THINK_OPEN
      BY Markers DEF Delta, Deltas, TextOf
    <3>2. events' = Append(<< >>, Delta(THINK_OPEN))
      BY <1>2, <1>7, <1>11, <2>1
    <3>3. Texts(events') = Texts(<< >>) \o THINK_OPEN
      BY <1>10, <3>1, <3>2, TextsAppend
    <3>4. Texts(<< >>) \o THINK_OPEN = THINK_OPEN
      BY Markers, TextsEmpty, TextNothing
    <3>5. events' \in Seq(Deltas)
      BY <1>10, <3>1, <3>2, AppendType
    <3> QED BY <2>1, <3>3, <3>4, <3>5 DEF Opening
  <2>2. CASE ~request.thinking
    BY <1>2, <1>7, <1>10, <2>2, TextsEmpty DEF Opening
  <2> QED BY <2>1, <2>2
<1>12. CASE ReceiverOpen
  <2>1. stage' = "generate"
    BY <1>2, <1>12
  <2>2. InOrder'
    <3>1. (events \in Seq(Deltas))'
      BY <1>11, <1>12 DEF Deltas, Text
    <3>2. (handler = "returned" => events = << >>)'
      BY <1>2, <1>12 DEF ReceiverOpen
    <3> QED BY <3>1, <3>2, InOrderWhile, PTL
  <2>3. ~HasDone'
    <3>1. (ResponseTypes /\ InOrder /\ Replying /\ stage # "answered")'
      BY <1>3, <1>8, <2>1, <2>2
    <3>2. (~HasDone)'
      BY <3>1, Unfinished, PTL
    <3> QED BY <3>2
  <2>4. Sent' = LetOut'
    <3>1. Sent' = << >> \o Opening
      BY <1>8, <1>11, <1>12 DEF Sent
    <3> QED BY <1>9, <3>1, TextNothing
  <2>5. IsPrefix(Received', LetOut')
    BY <1>8, <1>9, PrefixReflexive
  <2>6. Delivered'
    BY <1>8, <2>1, <2>3, <2>4, <2>5 DEF Delivered
  <2> QED BY <1>3, <1>4, <1>5, <1>6, <1>8, <2>2, <2>6 DEF ResponseInv
<1>13. CASE ~ReceiverOpen
  <2>1. stage' = "answered" /\ events' = << >>
    BY <1>2, <1>7, <1>13
  <2>2. InOrder'
    <3>1. (events \in Seq(Deltas))'
      BY <1>10, <2>1 DEF Deltas, Text
    <3>2. (handler = "returned" => events = << >>)'
      BY <2>1
    <3> QED BY <3>1, <3>2, InOrderWhile, PTL
  <2>3. ~HasDone'
    BY <2>1 DEF HasDone
  <2>4. IsPrefix(Received', (Opening \o Shown)')
    <3>1. Opening \o Shown \in Text
      BY <1>9, TextConcat
    <3> QED BY <1>8, <1>9, <3>1, PrefixReflexive
  <2>5. Delivered'
    BY <1>8, <1>13, <2>1, <2>3, <2>4 DEF Delivered
  <2> QED BY <1>3, <1>4, <1>5, <1>6, <1>8, <2>2, <2>5 DEF ResponseInv
<1> QED BY <1>12, <1>13
-----------------------------------------------------------------------------
(***************************************************************************)
(* The worker's answer.                                                    *)
(***************************************************************************)
LEMMA TwoDeltas ==
  ASSUME NEW parts \in Seq(Deltas), NEW a \in Text, NEW b \in Text
  PROVE  /\ DeltaOf(a) \o DeltaOf(b) \in Seq(Deltas)
         /\ parts \o (DeltaOf(a) \o DeltaOf(b)) \in Seq(Deltas)
         /\ Texts(parts \o (DeltaOf(a) \o DeltaOf(b))) = Texts(parts) \o (a \o b)
<1>1. Carriers(Deltas)
  BY DEF Carriers, Deltas, TextOf
<1>2. PICK P : P = Deltas
  OBVIOUS
<1>3. Carriers(P) /\ Deltas \subseteq P /\ parts \in Seq(P)
  BY <1>1, <1>2
<1>4. PICK x : x = DeltaOf(a)
  OBVIOUS
<1>5. PICK y : y = DeltaOf(b)
  OBVIOUS
<1>6. x \in Seq(P) /\ parts \o x \in Seq(P) /\ Texts(parts \o x) = Texts(parts) \o a
  BY <1>2, <1>3, <1>4, TextsDelta
<1>7. PICK q : q = parts \o x
  OBVIOUS
<1>8. y \in Seq(P) /\ q \o y \in Seq(P) /\ Texts(q \o y) = Texts(q) \o b
  BY <1>2, <1>3, <1>5, <1>6, <1>7, TextsDelta
<1>9. (parts \o x) \o y = parts \o (x \o y) /\ x \o y \in Seq(P)
  BY <1>3, <1>6, <1>8, ConcatAssoc, ConcatType
<1>10. Texts(parts) \in Text
  BY <1>3, TextsType
<1>11. (Texts(parts) \o a) \o b = Texts(parts) \o (a \o b)
  <2>1. PICK t : t = Texts(parts)
    OBVIOUS
  <2> QED BY <1>10, <2>1, TextAssoc
<1> QED BY <1>2, <1>4, <1>5, <1>6, <1>7, <1>8, <1>9, <1>11

\* What is released when a turn ends by itself is the rest of what may be shown.
LEMMA ReleasedText ==
  ASSUME ResponseTypes, Guarding, Stopping
  PROVE  /\ Released \in Seq(Deltas)
         /\ \E a, b \in Text :
              /\ Out(Pushed, stops.held) \o (a \o b) = Shown
              /\ \A parts \in Seq(Deltas) :
                   /\ parts \o Released \in Seq(Deltas)
                   /\ Texts(parts \o Released) = Texts(parts) \o (a \o b)
<1>1. PICK p : p = Pushed
  OBVIOUS
<1>2. PICK h : h = stops.held
  OBVIOUS
<1>3. PICK S : S = StopsOf
  OBVIOUS
<1>4. PICK v : v = Visible
  OBVIOUS
<1>5. /\ p \in Text /\ h \in Text /\ S \in StopSets /\ v \in Text /\ Holds(S, h, p)
      /\ stops = [stops |-> S, held |-> h] /\ guard.held \in Text /\ raw \in Text
      /\ << >> \in Text
  BY <1>1, <1>2, <1>3, <1>4, PushedIsSettled, TypesOfText, TextNothing DEF ResponseTypes, Stopping
<1>6. StopsAt = Starts(v, S) /\ Out(p, h) \in Text
  BY <1>1, <1>2, <1>3, <1>4, OutIsShown
<1>7. PICK tail : tail = IF Guards THEN guard.held ELSE << >>
  OBVIOUS
<1>8. v = p \o tail /\ tail \in Text
  <2>1. CASE Guards
    <3>1. PICK g : g = guard.held
      OBVIOUS
    <3>2. PICK r : r = raw
      OBVIOUS
    <3>3. /\ Holds({CALL_OPEN}, g, r) /\ g \in Text /\ r \in Text /\ v = r /\ p = Out(r, g)
          /\ tail = g
      BY <1>1, <1>4, <1>5, <1>7, <2>1, <3>1, <3>2, PushedIsSettled DEF Guards, Guarding
    <3>4. Out(r, g) \o g = r
      BY <3>3, Markers, HeldBegins
    <3> QED BY <3>3, <3>4
  <2>2. CASE ~Guards
    <3>1. v = p /\ tail = << >>
      BY <1>1, <1>4, <1>7, <2>2, PushedIsSettled DEF Guards
    <3> QED BY <1>5, <3>1, TextNothing
  <2> QED BY <2>1, <2>2
<1>9. ASSUME Starts(v, S) = {} PROVE Shown = v
  BY <1>4, <1>6, <1>9 DEF Shown
<1>10. CASE tail = << >>
  <2>1. v = p
    BY <1>5, <1>8, <1>10, TextNothing
  <2>2. Starts(v, S) = {}
    BY <1>5, <2>1 DEF Holds
  <2>3. Out(p, h) \o h = Shown
    BY <1>5, <1>9, <2>1, <2>2, HeldBegins
  <2>4. Released = DeltaOf(h)
    BY <1>2, <1>7, <1>10 DEF Released, Guards, Flush
  <2>5. DeltaOf(h) \o DeltaOf(<< >>) = DeltaOf(h) /\ DeltaOf(h) \in Seq(Deltas)
    <3>1. DeltaOf(<< >>) = << >> /\ << >> \in Seq(Deltas)
      BY DEF DeltaOf
    <3>2. Carriers(Deltas)
      BY DEF Carriers, Deltas, TextOf
    <3>3. DeltaOf(h) \in Seq(Deltas)
      BY <1>5, <3>1, <3>2, TextsDelta
    <3> QED BY <3>1, <3>3, ConcatEmpty
  <2>6. h \o << >> = h
    BY <1>5, TextNothing
  <2>7. \A parts \in Seq(Deltas) :
          /\ parts \o Released \in Seq(Deltas)
          /\ Texts(parts \o Released) = Texts(parts) \o (h \o << >>)
    <3>1. PICK e : e = << >>
      OBVIOUS
    <3>2. e \in Text /\ DeltaOf(h) \o DeltaOf(e) = Released
      BY <1>5, <2>4, <2>5, <3>1
    <3>3. \A parts \in Seq(Deltas) :
            /\ parts \o (DeltaOf(h) \o DeltaOf(e)) \in Seq(Deltas)
            /\ Texts(parts \o (DeltaOf(h) \o DeltaOf(e))) = Texts(parts) \o (h \o e)
      BY <1>5, <3>2, TwoDeltas
    <3> QED BY <3>1, <3>2, <3>3
  <2> QED BY <1>1, <1>2, <1>5, <2>3, <2>4, <2>5, <2>6, <2>7
<1>11. CASE tail # << >>
  <2>1. Guards /\ tail = guard.held
    BY <1>7, <1>11
  <2>2. PICK step : step = Push([stops |-> S, held |-> h], tail)
    OBVIOUS
  <2>3. step = Push(stops, tail)
    BY <1>5, <2>2
  <2>4. Released = DeltaOf(step.emit) \o DeltaOf(step.buffer.held)
    BY <1>11, <2>1, <2>3 DEF Released, Guards, Flush
  <2>5. ASSUME NEW a \in Text, NEW b \in Text, a = step.emit, b = step.buffer.held,
               Out(p, h) \o (a \o b) = Shown
        PROVE  /\ Released \in Seq(Deltas)
               /\ \E c, d \in Text :
                    /\ Out(Pushed, stops.held) \o (c \o d) = Shown
                    /\ \A parts \in Seq(Deltas) :
                         /\ parts \o Released \in Seq(Deltas)
                         /\ Texts(parts \o Released) = Texts(parts) \o (c \o d)
    <3>1. Released = DeltaOf(a) \o DeltaOf(b)
      BY <2>4, <2>5
    <3>2. << >> \in Seq(Deltas)
      OBVIOUS
    <3>3. DeltaOf(a) \o DeltaOf(b) \in Seq(Deltas)
      BY <3>2, TwoDeltas
    <3>4. \A parts \in Seq(Deltas) :
            /\ parts \o (DeltaOf(a) \o DeltaOf(b)) \in Seq(Deltas)
            /\ Texts(parts \o (DeltaOf(a) \o DeltaOf(b))) = Texts(parts) \o (a \o b)
      BY TwoDeltas
    <3> QED BY <1>1, <1>2, <2>5, <3>1, <3>3, <3>4
  <2>6. CASE ~Clear(p \o tail, S)
    <3>1. Hits(step, S, h, p, p \o tail)
      BY <1>5, <1>8, <2>2, <2>6, PushMatches
    <3>2. /\ step.emit \in Text /\ step.buffer.held = << >>
          /\ Out(p, h) \o step.emit = Before(v, Min(Starts(v, S)))
      BY <1>8, <3>1 DEF Hits
    <3>3. Shown = Before(v, Min(Starts(v, S)))
      BY <1>4, <1>6, <1>8, <2>6 DEF Shown, Clear
    <3>4. step.emit \o << >> = step.emit
      BY <3>2, TextNothing
    <3> QED BY <1>5, <2>5, <3>2, <3>3, <3>4
  <2>7. CASE Clear(p \o tail, S)
    <3>1. GoesOn(step, S, h, p, p \o tail)
      BY <1>5, <1>8, <2>2, <2>7, PushHolds
    <3>2. PICK a : a = step.emit
      OBVIOUS
    <3>3. PICK b : b = step.buffer.held
      OBVIOUS
    <3>4. a \in Text /\ b \in Text /\ Holds(S, b, v) /\ Out(p, h) \o a = Out(v, b)
      BY <1>8, <3>1, <3>2, <3>3 DEF GoesOn
    <3>5. Out(v, b) \o b = v
      BY <1>5, <3>4, HeldBegins
    <3>6. Shown = v
      BY <1>8, <1>9, <2>7 DEF Clear
    <3>7. (Out(p, h) \o a) \o b = Out(p, h) \o (a \o b)
      <4>1. PICK o : o = Out(p, h)
        OBVIOUS
      <4> QED BY <1>6, <3>4, <4>1, TextAssoc
    <3> QED BY <2>5, <3>2, <3>3, <3>4, <3>5, <3>6, <3>7
  <2> QED BY <2>6, <2>7
<1> QED BY <1>10, <1>11

\* The last event follows text.
LEMMA LastEvent ==
  ASSUME NEW d \in Seq(Deltas), NEW final, final \in {Failed, Done(Reason)},
         stage = "answered", handler # "returned", events = Append(d, final)
  PROVE  InOrder /\ Texts(events) = Texts(d) /\ (HasDone => final = Done(Reason))
<1>1. Final = {Failed, Done(Reason)}
  BY DEF Final
<1>2. PICK P : P = Deltas \cup {Failed, Done(Reason)}
  OBVIOUS
<1>3. TextOf(final) = << >>
  BY DoneIs DEF TextOf, Failed
<1>4. Carriers(P)
  <2>1. << >> \in Text
    BY TextNothing
  <2>2. \A p \in {Failed, Done(Reason)} : TextOf(p) = << >>
    BY DoneIs DEF TextOf, Failed
  <2>3. \A p \in Deltas : TextOf(p) \in Text
    BY DEF Deltas, TextOf
  <2> QED BY <1>2, <2>1, <2>2, <2>3 DEF Carriers
<1>5. d \in Seq(P) /\ final \in P
  <2>1. \A A, B : A \subseteq B => Seq(A) \subseteq Seq(B)
    OBVIOUS
  <2> QED BY <1>2, <2>1
<1>6. Texts(events) = Texts(d)
  <2>1. Texts(events) = Texts(d) \o << >>
    BY <1>3, <1>4, <1>5, TextsAppend
  <2> QED BY <1>4, <1>5, <2>1, TextsType, TextNothing
<1>7. /\ events \in Seq(P) /\ Len(events) = Len(d) + 1 /\ Len(d) \in Nat
      /\ \A i \in 1..Len(d) : events[i] = d[i] /\ d[i] \in Deltas
  <2>1. PICK e : e = Append(d, final)
    OBVIOUS
  <2>2. e \in Seq(P) /\ Len(e) = Len(d) + 1 /\ Len(d) \in Nat /\ \A i \in 1..Len(d) : e[i] = d[i]
    BY <1>5, <2>1, AppendType
  <2>3. \A i \in 1..Len(d) : d[i] \in Deltas
    OBVIOUS
  <2> QED BY <2>1, <2>2, <2>3
<1>8. \A i \in 1..(Len(events) - 1) : events[i] \in Deltas
  BY <1>7
<1>9. HasDone => final = Done(Reason)
  <2>1. \A p \in Deltas : p # Done(Reason)
    BY DoneIs DEF Deltas
  <2>2. events[Len(d) + 1] = final
    OBVIOUS
  <2>3. \A i \in 1..Len(events) : i \in 1..Len(d) \/ i = Len(d) + 1
    BY <1>7
  <2> QED BY <1>7, <2>1, <2>2, <2>3 DEF HasDone
<1> QED BY <1>1, <1>2, <1>6, <1>7, <1>8, <1>9 DEF InOrder

LastEvents ==
  \A d \in Seq(Deltas) : \A final :
    /\ final \in {Failed, Done(Reason)} /\ stage = "answered" /\ handler # "returned"
    /\ events = Append(d, final)
    => InOrder /\ Texts(events) = Texts(d) /\ (HasDone => final = Done(Reason))

LEMMA LastEventEach == LastEvents
BY LastEvent DEF LastEvents

\* A turn that ended by itself, or whose stop was found, has its reason.
LEMMA ReasonGiven ==
  ASSUME ResponseTypes, Course
  PROVE  /\ stage = "complete" => CompletedReason = Reason /\ Fits
         /\ stage = "halted" /\ halted = "StopString" => HaltedReason = Reason /\ Fits
<1>1. completion_tokens \in Nat /\ MaxNew \in Nat /\ stopped \in BOOLEAN
  BY ResponseAssumption DEF ResponseTypes
<1>2. ASSUME stage = "complete" PROVE CompletedReason = Reason /\ Fits
  <2>1. halted = "no" /\ (stopped \/ completion_tokens = MaxNew)
    BY <1>2 DEF Course, Working
  <2>2. CASE Calls # << >>
    BY <2>2 DEF CompletedReason, Reason, Fits
  <2>3. CASE Calls = << >> /\ stopped
    <3>1. CompletedReason = "stop"
      BY <2>3 DEF CompletedReason
    <3>2. Reason = "stop"
      BY <2>3 DEF Reason
    <3> QED BY <3>1, <3>2 DEF Fits
  <2>4. CASE Calls = << >> /\ ~stopped
    <3>1. completion_tokens = MaxNew /\ completion_tokens >= MaxNew
      BY <1>1, <2>1, <2>4
    <3>2. CompletedReason = "length"
      BY <2>4, <3>1 DEF CompletedReason
    <3>3. Reason = "length"
      BY <2>1, <2>4 DEF Reason
    <3> QED BY <3>1, <3>2, <3>3 DEF Fits
  <2> QED BY <1>1, <2>2, <2>3, <2>4
<1>3. ASSUME stage = "halted", halted = "StopString" PROVE HaltedReason = Reason /\ Fits
  <2>1. CASE Calls # << >>
    BY <2>1 DEF HaltedReason, Reason, Fits
  <2>2. CASE Calls = << >>
    <3>1. Reason = "stop"
      BY <1>3, <2>2 DEF Reason
    <3> QED BY <2>2, <3>1 DEF HaltedReason, Fits
  <2> QED BY <2>1, <2>2
<1> QED BY <1>2, <1>3

\* What was sent is a beginning of what may be shown, whatever ended the turn.
LEMMA SentIsShown ==
  ASSUME ResponseInv, stage \in {"complete", "halted", "error"}
  PROVE  /\ IsPrefix(Received, Opening \o Shown)
         /\ ReceiverOpen => IsPrefix(Sent, Opening \o Shown)
<1>1. ResponseTypes /\ InOrder /\ Replying /\ Delivered
  BY DEF ResponseInv
<1>2. CASE stage = "halted"
  BY <1>1, <1>2 DEF Delivered
<1>3. CASE stage \in {"complete", "error"}
  <2>1. Guarding /\ Stopping
    BY <1>3 DEF ResponseInv, Searched, Working
  <2>2. PICK o : o = Out(Pushed, stops.held)
    OBVIOUS
  <2>3. PICK s : s = Shown
    OBVIOUS
  <2>4. PICK w : w = Opening
    OBVIOUS
  <2>5. o \in Text /\ s \in Text /\ w \in Text /\ IsPrefix(o, s) /\ LetOut = w \o o
    BY <1>1, <2>1, <2>2, <2>3, <2>4, OutIsShown, TypesOfText DEF LetOut
  <2>6. w \o o \in Text /\ w \o s \in Text /\ IsPrefix(w \o o, w \o s)
    BY <2>5, PrefixAfter, TextConcat
  <2>7. IsPrefix(Received, w \o o) /\ (ReceiverOpen => Sent = w \o o)
    BY <1>1, <1>3, <2>5 DEF Delivered
  <2>8. Received \in Text
    BY <1>1, TextTypes
  <2>9. IsPrefix(Received, w \o s)
    BY <2>6, <2>7, <2>8, PrefixTransitive
  <2> QED BY <2>3, <2>4, <2>6, <2>7, <2>9
<1> QED BY <1>2, <1>3

LEMMA AnswerStep ==
  ASSUME ResponseInv, Answer
  PROVE  ResponseInv'
<1>1. ResponseTypes /\ InOrder /\ Replying /\ Delivered /\ Counted /\ Course /\ Searched
  BY DEF ResponseInv
<1>2. /\ stage \in {"complete", "halted", "error"} /\ stage' = "answered"
      /\ UNCHANGED texts /\ UNCHANGED turnState /\ request' = request /\ decoded' = decoded
      /\ reasoning' = reasoning /\ stopped' = stopped /\ completion_tokens' = completion_tokens
      /\ halted' = halted /\ handler' = handler /\ client' = client /\ content' = content
      /\ UNCHANGED reading
      /\ events' = IF ReceiverOpen THEN events \o Ending ELSE events
  BY DEF Answer, texts, turnState, reading
<1>3. ResponseTypes'
  BY <1>1, <1>2, TypesKept DEF ResponseTypes
<1>4. Course'
  BY <1>1, <1>2 DEF Course, Working
<1>5. Searched'
  BY <1>2 DEF Searched, Working
<1>6. Counted'
  BY <1>1, <1>2, CountedKept
<1>7. events \in Seq(Deltas) /\ ~HasDone /\ ~Answered
  BY <1>1, <1>2, Unfinished
<1>8. Replying' /\ Received' = Received /\ ~Answered' /\ (ReceiverOpen <=> ReceiverOpen')
  BY <1>1, <1>2, <1>7, ReplyKept
<1>9. IsPrefix(Received, Opening \o Shown) /\ (ReceiverOpen => IsPrefix(Sent, Opening \o Shown))
  BY <1>2, SentIsShown
<1>10. /\ Opening' = Opening /\ Shown' = Shown /\ Reason' = Reason /\ Done(Reason)' = Done(Reason)
       /\ (Fits <=> Fits') /\ \A text : IsWhole(text)' <=> IsWhole(text)
  BY <1>2, TextFrame, TurnFrame
<1>11. CASE ~ReceiverOpen
  <2>1. events' = << >>
    BY <1>1, <1>2, <1>11 DEF InOrder, ReceiverOpen
  <2>2. InOrder'
    <3>1. (events \in Seq(Deltas))'
      BY <2>1 DEF Deltas, Text
    <3>2. (handler = "returned" => events = << >>)'
      BY <2>1
    <3> QED BY <3>1, <3>2, InOrderWhile, PTL
  <2>3. ~HasDone'
    BY <2>1 DEF HasDone
  <2>4. Delivered'
    BY <1>2, <1>8, <1>9, <1>10, <1>11, <2>3 DEF Delivered
  <2> QED BY <1>3, <1>4, <1>5, <1>6, <1>8, <2>2, <2>4 DEF ResponseInv
<1>12. CASE ReceiverOpen
  <2>1. ASSUME NEW d \in Seq(Deltas), NEW final, final \in {Failed, Done(Reason)},
               events' = Append(d, final), NEW posted, posted = Received \o Texts(d),
               IsPrefix(posted, Opening \o Shown),
               final = Done(Reason) => IsWhole(posted) /\ Fits
        PROVE  ResponseInv'
    <3>1. (InOrder /\ Texts(events) = Texts(d) /\ (HasDone => final = Done(Reason)))'
      <4>2. LastEvents'
        BY LastEventEach, PTL
      <4>3. /\ stage' = "answered" /\ handler' # "returned" /\ final \in {Failed, Done(Reason)}'
            /\ events' = Append(d, final)
        BY <1>2, <1>10, <1>12, <2>1 DEF ReceiverOpen, Failed
      <4> QED BY <2>1, <4>2, <4>3 DEF LastEvents, Deltas, Text
    <3>2. Sent' = posted
      BY <1>8, <2>1, <3>1 DEF Sent
    <3>3. HasDone' => IsWhole(Sent)' /\ Fits'
      <4> SUFFICES ASSUME HasDone' PROVE IsWhole(Sent)' /\ Fits'
        OBVIOUS
      <4>1. final = Done(Reason)
        BY <1>10, <3>1
      <4>2. IsWhole(posted)' /\ Fits'
        BY <1>10, <2>1, <4>1
      <4> QED BY <3>2, <4>2 DEF IsWhole
    <3>4. Delivered'
      BY <1>2, <1>8, <1>9, <1>10, <2>1, <3>2, <3>3 DEF Delivered
    <3> QED BY <1>3, <1>4, <1>5, <1>6, <1>8, <3>1, <3>4 DEF ResponseInv
  <2>2. events' = events \o Ending
    BY <1>2, <1>12
  <2>3. IsPrefix(Sent, Opening \o Shown)
    BY <1>9, <1>12
  <2>4. CASE stage = "error"
    <3>1. Ending = <<Failed>>
      BY <2>4 DEF Ending, Failed
    <3>2. events' = Append(events, Failed)
      <4>1. PICK x : x = Failed
        OBVIOUS
      <4>2. events \o <<x>> = Append(events, x)
        BY <1>7
      <4> QED BY <2>2, <3>1, <4>1, <4>2
    <3>3. Failed # Done(Reason)
      BY DoneIs DEF Failed
    <3>4. PICK posted : posted = Received \o Texts(events)
      OBVIOUS
    <3> QED BY <1>7, <2>1, <2>3, <3>2, <3>3, <3>4 DEF Sent
  <2>5. CASE stage = "halted"
    <3>1. halted = "StopString" /\ IsWhole(Sent) /\ HaltedReason = Reason /\ Fits
      BY <1>1, <1>12, <2>5, ReasonGiven DEF Delivered
    <3>2. Ending = <<Done(Reason)>>
      BY <2>5, <3>1 DEF Ending
    <3>3. events' = Append(events, Done(Reason))
      <4>1. PICK x : x = Done(Reason)
        OBVIOUS
      <4>2. events \o <<x>> = Append(events, x)
        BY <1>7
      <4> QED BY <2>2, <3>2, <4>1, <4>2
    <3>4. PICK posted : posted = Received \o Texts(events)
      OBVIOUS
    <3> QED BY <1>7, <2>1, <2>3, <3>1, <3>3, <3>4 DEF Sent
  <2>6. CASE stage = "complete"
    <3>1. Guarding /\ Stopping
      BY <1>1, <2>6 DEF Searched, Working
    <3>2. PICK a \in Text, b \in Text :
            /\ Out(Pushed, stops.held) \o (a \o b) = Shown
            /\ \A parts \in Seq(Deltas) :
                 /\ parts \o Released \in Seq(Deltas)
                 /\ Texts(parts \o Released) = Texts(parts) \o (a \o b)
      BY <1>1, <3>1, ReleasedText
    <3>3. Ending = Append(Released, Done(Reason)) /\ Fits
      BY <1>1, <2>6, ReasonGiven DEF Ending
    <3>4. PICK d : d = events \o Released
      OBVIOUS
    <3>5. d \in Seq(Deltas) /\ Texts(d) = Texts(events) \o (a \o b)
      BY <1>7, <3>2, <3>4
    <3>6. events' = Append(d, Done(Reason))
      <4>1. PICK x : x = Done(Reason)
        OBVIOUS
      <4>2. PICK r : r = Released
        OBVIOUS
      <4>3. r \in Seq(Deltas)
        BY <1>1, <3>1, <4>2, ReleasedText
      <4>4. PICK P : P = Deltas \cup {x}
        OBVIOUS
      <4>5. events \in Seq(P) /\ r \in Seq(P) /\ x \in P
        <5>1. \A A, B : A \subseteq B => Seq(A) \subseteq Seq(B)
          OBVIOUS
        <5> QED BY <1>7, <4>3, <4>4, <5>1
      <4>6. events \o (r \o <<x>>) = (events \o r) \o <<x>>
        BY <4>5, ConcatAssoc, AppendAsConcat
      <4>7. Append(r, x) = r \o <<x>> /\ Append(events \o r, x) = (events \o r) \o <<x>>
        BY <4>5, ConcatType, AppendAsConcat
      <4> QED BY <2>2, <3>3, <3>4, <4>1, <4>2, <4>6, <4>7
    <3>7. PICK posted : posted = Received \o Texts(d)
      OBVIOUS
    <3>8. posted = Opening \o Shown
      <4>1. PICK r : r = Received
        OBVIOUS
      <4>2. PICK x : x = Texts(events)
        OBVIOUS
      <4>3. PICK w : w = Opening
        OBVIOUS
      <4>4. PICK o : o = Out(Pushed, stops.held)
        OBVIOUS
      <4>5. PICK t : t = a \o b
        OBVIOUS
      <4>6. /\ r \in Text /\ x \in Text /\ w \in Text /\ o \in Text /\ t \in Text
            /\ r \o x = w \o o
        <5>1. r \o x = w \o o
          BY <1>1, <1>12, <2>6, <4>1, <4>2, <4>3, <4>4 DEF Delivered, Sent, LetOut
        <5> QED BY <1>1, <3>1, <3>2, <4>1, <4>2, <4>3, <4>4, <4>5, <5>1, TextTypes, TypesOfText,
                   OutIsShown, TextConcat
      <4>7. r \o (x \o t) = (r \o x) \o t /\ (w \o o) \o t = w \o (o \o t)
        <5>1. (r \o x) \o t = r \o (x \o t)
          <6>1. r \in Text /\ x \in Text /\ t \in Text
            BY <4>6
          <6> QED BY <6>1, TextAssoc
        <5>2. (w \o o) \o t = w \o (o \o t)
          <6>1. w \in Text /\ o \in Text /\ t \in Text
            BY <4>6
          <6> QED BY <6>1, TextAssoc
        <5> QED BY <5>1, <5>2
      <4>8. posted = r \o (x \o t) /\ o \o t = Shown
        BY <3>2, <3>5, <3>7, <4>1, <4>2, <4>4, <4>5
      <4> QED BY <4>3, <4>6, <4>7, <4>8
    <3>9. IsPrefix(posted, Opening \o Shown) /\ IsWhole(posted)
      <4>1. Opening \o Shown \in Text
        BY <1>1, <3>1, TypesOfText, OutIsShown, TextConcat
      <4> QED BY <3>8, <4>1, PrefixReflexive DEF IsWhole
    <3> QED BY <2>1, <3>3, <3>5, <3>6, <3>7, <3>9
  <2> QED BY <1>2, <2>4, <2>5, <2>6
<1> QED BY <1>11, <1>12
-----------------------------------------------------------------------------
(***************************************************************************)
(* The task that reads the events, and the client.                         *)
(***************************************************************************)
LEMMA ShownType ==
  ASSUME ResponseTypes
  PROVE  Shown \in Text
<1>1. raw \in Text
  BY TypesOfText
<1>2. Visible \in Text
  <2>1. CASE Occurs(raw, CALL_OPEN)
    <3>1. PICK i : i = Find(raw, CALL_OPEN)
      OBVIOUS
    <3>2. i \in 1..Len(raw) /\ Len(raw) \in Nat
      BY <1>1, <2>1, <3>1, FindIsFirst, LenOfText
    <3>3. i \in 1..(Len(raw) + 1)
      BY <3>2
    <3>4. Before(raw, i) \in Text
      BY <1>1, <3>3, SliceOfText
    <3> QED BY <1>1, <3>1, <3>4 DEF Visible
  <2>2. CASE ~Occurs(raw, CALL_OPEN)
    BY <1>1, <2>2 DEF Visible
  <2> QED BY <2>1, <2>2
<1>3. Settled \in Text /\ Extends(Visible, Settled)
  <2>1. \A text \in Text : Extends(text, text)
    BY LenOfText DEF Extends
  <2>2. CASE Visible = raw /\ raw # << >>
    <3>1. PICK n : n = Len(raw)
      OBVIOUS
    <3>2. Front(raw) = Before(raw, n) /\ n \in 1..(Len(raw) + 1)
      BY <1>1, <2>2, <3>1, LenOfText DEF Front, Before
    <3>3. Front(raw) \in Text /\ Extends(raw, Front(raw))
      BY <1>1, <3>2, SliceOfText
    <3> QED BY <1>2, <2>1, <2>2, <3>3 DEF Settled
  <2>3. CASE ~(Visible = raw /\ raw # << >>)
    BY <1>2, <2>1, <2>3 DEF Settled
  <2> QED BY <2>2, <2>3
<1>4. PICK v : v = Visible
  OBVIOUS
<1>5. PICK p : p = Settled
  OBVIOUS
<1>6. v \in Text /\ p \in Text /\ Extends(v, p) /\ Len(v) \in Nat /\ Len(p) \in Nat
  BY <1>2, <1>3, <1>4, <1>5, LenOfText
<1>7. StopsOf \in StopSets /\ \A text : StopsIn(text) = Starts(text, StopsOf)
  BY TypesOfText DEF StopsIn, Starts, StopsOf
<1>8. StopsAt \subseteq 1..Len(v)
  <2>1. StopsIn(p) \subseteq 1..Len(p) /\ StopsIn(v) \subseteq 1..Len(v)
    BY <1>6, <1>7, StartsBegin
  <2>2. Len(p) <= Len(v)
    BY <1>6 DEF Extends
  <2> QED BY <1>4, <1>5, <1>6, <2>1, <2>2 DEF StopsAt
<1>9. CASE StopsAt = {}
  BY <1>2, <1>9 DEF Shown
<1>10. CASE StopsAt # {}
  <2>1. PICK m : m = Min(StopsAt)
    OBVIOUS
  <2>2. m \in 1..Len(v)
    <3>1. StopsAt \in SUBSET Nat
      BY <1>8
    <3> QED BY <1>8, <1>10, <2>1, <3>1, MinIsLeast
  <2>3. m \in 1..(Len(v) + 1)
    BY <1>6, <2>2
  <2> QED BY <1>4, <1>6, <1>10, <2>1, <2>3, SliceOfText DEF Shown
<1> QED BY <1>9, <1>10

LEMMA ReadingStep ==
  ASSUME ResponseInv, ReceiverOpen, UNCHANGED <<request, worker>>,
         ResponseTypes', InOrder', Replying',
         IsPrefix(Received', Sent),
         ReceiverOpen' => Sent' = Sent,
         HasDone' => HasDone /\ Sent' = Sent,
         Answered' => HasDone /\ Received' = Sent,
         events = << >> => events' = << >> /\ Received' = Received
  PROVE  ResponseInv'
<1>1. ResponseTypes /\ InOrder /\ Replying /\ Delivered /\ Counted /\ Course /\ Searched
  BY DEF ResponseInv
<1>2. /\ UNCHANGED texts /\ UNCHANGED turnState /\ stage' = stage /\ request' = request
      /\ decoded' = decoded /\ reasoning' = reasoning /\ halted' = halted
      /\ completion_tokens' = completion_tokens /\ stopped' = stopped
  BY DEF worker, texts, turnState
<1>3. Course'
  BY <1>1, <1>2 DEF Course, Working
<1>4. Searched'
  BY <1>1, <1>2, TextFrame DEF Searched, Working
<1>5. Counted'
  BY <1>1, <1>2, CountedKept
<1>6. /\ Opening' = Opening /\ Shown' = Shown /\ LetOut' = LetOut
      /\ (Fits <=> Fits') /\ \A text : IsWhole(text)' <=> IsWhole(text)
  BY <1>2, TextFrame, TurnFrame
<1>7. Received \in Text /\ Sent \in Text
  BY <1>1, TextTypes
<1>8. Received' \in Text
  <2>1. (Received \in Text)'
    <3>1. (ResponseTypes /\ InOrder /\ Replying)'
      OBVIOUS
    <3>2. (/\ Received \in Text /\ Texts(events) \in Text /\ Sent \in Text
           /\ events \in Seq(Deltas \cup {Failed, Done(Reason)}))'
      BY <3>1, TextTypes, PTL
    <3> QED BY <3>2
  <2> QED BY <2>1 DEF Text
<1>9. ASSUME stage = "queued" PROVE Received' = << >> /\ events' = << >>
  BY <1>1, <1>9 DEF Delivered
<1>10. ASSUME stage \in {"generate", "complete", "error"}
       PROVE  IsPrefix(Received', LetOut) /\ (ReceiverOpen' => Sent' = LetOut)
  BY <1>1, <1>10 DEF Delivered
<1>11. ASSUME stage \in {"halted", "answered"}
       PROVE  /\ IsPrefix(Received', Opening \o Shown)
              /\ ReceiverOpen' => IsPrefix(Sent', Opening \o Shown)
  <2>1. IsPrefix(Sent, Opening \o Shown)
    BY <1>1, <1>11 DEF Delivered
  <2>2. Opening \o Shown \in Text
    BY <1>1, ShownType, TypesOfText, TextConcat
  <2>3. IsPrefix(Received', Opening \o Shown)
    BY <1>7, <1>8, <2>1, <2>2, PrefixTransitive
  <2> QED BY <2>1, <2>3
<1>12. ASSUME stage = "halted", ReceiverOpen'
       PROVE  halted' = "StopString" /\ IsWhole(Sent)'
  <2>1. halted = "StopString" /\ IsWhole(Sent) /\ Sent' = Sent
    BY <1>1, <1>12 DEF Delivered
  <2>2. PICK posted : posted = Sent
    OBVIOUS
  <2>3. IsWhole(posted)' /\ posted = Sent'
    BY <1>6, <2>1, <2>2
  <2> QED BY <1>2, <2>1, <2>3 DEF IsWhole
<1>13. ASSUME HasDone' PROVE stage' = "answered" /\ IsWhole(Sent)' /\ Fits'
  <2>1. stage = "answered" /\ IsWhole(Sent) /\ Fits /\ Sent' = Sent
    BY <1>1, <1>13 DEF Delivered
  <2>2. PICK posted : posted = Sent
    OBVIOUS
  <2>3. IsWhole(posted)' /\ posted = Sent'
    BY <1>6, <2>1, <2>2
  <2> QED BY <1>2, <1>6, <2>1, <2>3 DEF IsWhole
<1>14. ASSUME Answered' PROVE stage' = "answered" /\ IsWhole(Received)' /\ Fits'
  <2>1. stage = "answered" /\ IsWhole(Sent) /\ Fits /\ Received' = Sent
    BY <1>1, <1>14 DEF Delivered
  <2>2. PICK posted : posted = Sent
    OBVIOUS
  <2>3. IsWhole(posted)' /\ posted = Received'
    BY <1>6, <2>1, <2>2
  <2> QED BY <1>2, <1>6, <2>1, <2>3 DEF IsWhole
<1>15. Delivered'
  BY <1>2, <1>6, <1>9, <1>10, <1>11, <1>12, <1>13, <1>14 DEF Delivered
<1> QED BY <1>3, <1>4, <1>5, <1>15 DEF ResponseInv

LEMMA HeadEvent ==
  ASSUME ResponseTypes, InOrder, Replying, events # << >>
  PROVE  /\ Tail(events) \in Seq(Deltas \cup Final)
         /\ \A i \in 1..(Len(Tail(events)) - 1) : Tail(events)[i] \in Deltas
         /\ Texts(events) = TextOf(Head(events)) \o Texts(Tail(events))
         /\ Texts(Tail(events)) \in Text /\ TextOf(Head(events)) \in Text
         /\ (\E i \in 1..Len(Tail(events)) : Tail(events)[i] = Done(Reason)) => HasDone
         /\ Head(events).kind = "delta" => Head(events) \in Deltas
         /\ Head(events).kind # "delta" => stage = "answered" /\ Texts(events) = << >>
         /\ Head(events).kind = "done" => Head(events) = Done(Reason) /\ HasDone
         /\ Head(events).kind \in {"delta", "done", "failed"}
<1>1. PICK P : P = Deltas \cup Final
  OBVIOUS
<1>2. Final \subseteq {Failed, Done(Reason)} /\ (stage # "answered" => Final = {})
  BY DEF Final
<1>3. Carriers(P)
  <2>1. request.usage \in BOOLEAN
    BY TypesOfText
  <2> QED BY <1>1, <1>2, <2>1, PartsCarry DEF Carriers
<1>4. events \in Seq(P) /\ \A i \in 1..(Len(events) - 1) : events[i] \in Deltas
  BY <1>1 DEF InOrder
<1>5. PICK e : e = Head(events)
  OBVIOUS
<1>6. PICK rest : rest = Tail(events)
  OBVIOUS
<1>7. /\ rest \in Seq(P) /\ e \in P /\ e = events[1] /\ Len(rest) = Len(events) - 1
      /\ Len(events) \in Nat /\ Len(events) # 0
      /\ \A i \in 1..Len(rest) : rest[i] = events[i + 1]
  BY <1>4, <1>5, <1>6, TailType
<1>8. Texts(events) = TextOf(e) \o Texts(rest)
  BY <1>3, <1>4, <1>5, <1>6, TextsTail
<1>9. Texts(rest) \in Text /\ TextOf(e) \in Text
  BY <1>3, <1>7, TextsType DEF Carriers
<1>10. \A i \in 1..(Len(rest) - 1) : rest[i] \in Deltas
  <2>1. \A i \in 1..(Len(rest) - 1) : i \in 1..Len(rest) /\ i + 1 \in 1..(Len(events) - 1)
    BY <1>7
  <2> QED BY <1>4, <1>7, <2>1
<1>11. (\E i \in 1..Len(rest) : rest[i] = Done(Reason)) => HasDone
  <2>1. \A i \in 1..Len(rest) : i + 1 \in 1..Len(events)
    BY <1>7
  <2> QED BY <1>7, <2>1 DEF HasDone
<1>12. \A p \in Deltas : p.kind = "delta"
  BY DEF Deltas
<1>13. Failed.kind = "failed"
  BY DEF Failed
<1>14. e \in Deltas \/ (stage = "answered" /\ e \in {Failed, Done(Reason)})
  BY <1>1, <1>2, <1>7
<1>15. ASSUME e \notin Deltas PROVE Texts(events) = << >>
  <2>1. Len(events) = 1
    <3>1. Len(events) # 1 => 1 \in 1..(Len(events) - 1)
      BY <1>7
    <3> QED BY <1>4, <1>7, <1>15, <3>1
  <2>2. rest = << >>
    <3>1. Len(rest) = 0
      BY <1>7, <2>1
    <3> QED BY <1>7, <3>1
  <2>3. TextOf(e) = << >>
    BY <1>13, <1>14, <1>15, DoneIs DEF TextOf
  <2>4. << >> \o << >> = << >>
    BY TextNothing
  <2> QED BY <1>8, <2>2, <2>3, <2>4, TextsEmpty
<1>16. e = Done(Reason) => HasDone
  <2>1. 1 \in 1..Len(events)
    BY <1>7
  <2> QED BY <1>7, <2>1 DEF HasDone
<1>17. /\ e.kind = "delta" => e \in Deltas
       /\ e.kind # "delta" => stage = "answered" /\ e \notin Deltas
       /\ e.kind = "done" => e = Done(Reason)
       /\ e.kind \in {"delta", "done", "failed"}
  BY <1>12, <1>13, <1>14, DoneIs
<1> QED BY <1>1, <1>5, <1>6, <1>7, <1>8, <1>9, <1>10, <1>11, <1>15, <1>16, <1>17

\* The events left after one was read are in order.
LEMMA InOrderAfter ==
  ASSUME ResponseTypes, InOrder, Replying, events # << >>, UNCHANGED <<request, worker>>,
         events' = Tail(events), handler' # "returned"
  PROVE  InOrder' /\ (HasDone' => HasDone)
<1>1. UNCHANGED turnState /\ stage' = stage
  BY DEF worker, texts, turnState
<1>2. Done(Reason)' = Done(Reason) /\ Final' = Final
  BY <1>1, TurnFrame DEF Final, Failed
<1>3. /\ events' \in Seq(Deltas \cup Final')
      /\ \A i \in 1..(Len(events') - 1) : events'[i] \in Deltas
  BY <1>2, HeadEvent
<1>4. InOrder'
  BY <1>3 DEF InOrder, Deltas, Text
<1>5. HasDone' => HasDone
  BY <1>2, HeadEvent DEF HasDone
<1> QED BY <1>4, <1>5

\* Nothing is on its way.
LEMMA InOrderWithout ==
  ASSUME events' = << >>
  PROVE  InOrder' /\ ~HasDone'
<1>1. (events \in Seq(Deltas))'
  BY DEF Deltas, Text
<1>2. (handler = "returned" => events = << >>)'
  OBVIOUS
<1>3. InOrder'
  BY <1>1, <1>2, InOrderWhile, PTL
<1> QED BY <1>3 DEF HasDone

LEMMA ReadingTypes ==
  ASSUME ResponseTypes, UNCHANGED <<request, worker>>, content' \in Text,
         handler' \in {"starting", "reading", "returned"}, client' \in {"connected", "gone"}
  PROVE  ResponseTypes'
<1>1. /\ request' = request /\ decoded' = decoded /\ guard' = guard /\ calling' = calling
      /\ stops' = stops /\ halted' = halted /\ reasoning' = reasoning /\ stage' = stage
      /\ stopped' = stopped /\ completion_tokens' = completion_tokens
  BY DEF worker
<1>2. StopsOf' = StopsOf
  BY <1>1 DEF StopsOf
<1> QED BY <1>1, <1>2 DEF ResponseTypes, Text

\* A stream that has not ended has no end.
LEMMA StreamGoesOn ==
  ASSUME NEW parts, NEW P, parts \in Seq(P), parts = << >> \/ Streams(parts, Len(parts))
  PROVE  \A i \in DOMAIN parts : parts[i].kind \in {"role", "text"}
<1>1. DOMAIN parts = 1..Len(parts) /\ Len(parts) \in Nat
  OBVIOUS
<1>2. CASE parts = << >>
  BY <1>2
<1>3. CASE Streams(parts, Len(parts))
  <2>1. \A i \in 1..Len(parts) : i = 1 \/ i \in 2..Len(parts)
    BY <1>1
  <2>2. RolePart.kind = "role" /\ \A p \in TextParts : p.kind = "text"
    BY DEF RolePart, TextParts
  <2> QED BY <1>1, <1>3, <2>1, <2>2 DEF Streams
<1> QED BY <1>2, <1>3

LEMMA ReadingFrame ==
  ASSUME UNCHANGED <<request, worker>>
  PROVE  /\ request' = request /\ stage' = stage /\ Done(Reason)' = Done(Reason)
         /\ Closings' = Closings /\ Parts' = Parts
         /\ ChunksOf(Done(Reason))' = ChunksOf(Done(Reason))
<1>1. UNCHANGED turnState /\ stage' = stage /\ request' = request
  BY DEF worker, texts, turnState
<1>2. Done(Reason)' = Done(Reason) /\ Closings' = Closings
  BY <1>1, TurnFrame
<1>3. ChunksOf(Done(Reason))' = ChunksOf(Done(Reason))
  BY <1>1, <1>2 DEF ChunksOf, Usage
<1>4. Parts' = Parts
  BY <1>1, <1>3 DEF Parts, RolePart, ErrorPart, TextParts, Text
<1> QED BY <1>1, <1>2, <1>3, <1>4

LEMMA CollectStep ==
  ASSUME ResponseInv, Collect
  PROVE  ResponseInv'
<1>1. ResponseTypes /\ InOrder /\ Replying
  BY DEF ResponseInv
<1>2. /\ ~request.stream /\ handler = "reading" /\ events # << >>
      /\ UNCHANGED <<request, worker>> /\ client' = client /\ request' = request
  BY DEF Collect
<1>3. /\ request' = request /\ stage' = stage /\ Done(Reason)' = Done(Reason)
      /\ Closings' = Closings /\ Parts' = Parts
  BY <1>2, ReadingFrame
<1>4. PICK e : e = Head(events)
  OBVIOUS
<1>5. reply = << >> /\ content \in Text /\ Received = content /\ Received' = content'
  BY <1>1, <1>2, <1>3 DEF Replying, ResponseTypes, Received
<1>6. /\ Texts(events) = TextOf(e) \o Texts(Tail(events))
      /\ Texts(Tail(events)) \in Text /\ TextOf(e) \in Text
      /\ e.kind = "delta" => e \in Deltas
      /\ e.kind # "delta" => stage = "answered" /\ Texts(events) = << >>
      /\ e.kind = "done" => e = Done(Reason) /\ HasDone
  BY <1>1, <1>2, <1>4, HeadEvent
<1>7. ReceiverOpen
  BY <1>2 DEF ReceiverOpen
<1>8. CASE /\ e.kind = "delta" /\ content' = content \o e.text /\ events' = Tail(events)
           /\ UNCHANGED <<handler, reply>>
  <2>1. TextOf(e) = e.text
    BY <1>8 DEF TextOf
  <2>2. content' \in Text
    BY <1>5, <1>6, <1>8, <2>1, TextConcat
  <2>3. ResponseTypes'
    BY <1>1, <1>2, <1>8, <2>2, ReadingTypes DEF ResponseTypes
  <2>4. InOrder' /\ (HasDone' => HasDone)
    BY <1>1, <1>2, <1>8, InOrderAfter
  <2>5. Replying'
    BY <1>2, <1>5, <1>8 DEF Replying
  <2>6. Sent' = Sent
    <3>1. PICK x : x = Texts(Tail(events))
      OBVIOUS
    <3>2. PICK t : t = TextOf(e)
      OBVIOUS
    <3>3. x \in Text /\ t \in Text /\ content \in Text
      BY <1>5, <1>6, <3>1, <3>2
    <3>4. (content \o t) \o x = content \o (t \o x)
      BY <3>3, TextAssoc
    <3>5. Sent = content \o (t \o x)
      BY <1>5, <1>6, <3>1, <3>2 DEF Sent
    <3>6. Sent' = (content \o t) \o x
      BY <1>5, <1>8, <2>1, <3>1, <3>2 DEF Sent
    <3> QED BY <3>4, <3>5, <3>6
  <2>7. IsPrefix(Received', Sent)
    <3>1. PICK x : x = Texts(Tail(events))
      OBVIOUS
    <3>2. Sent' = Received' \o x
      BY <1>8, <3>1 DEF Sent
    <3> QED BY <1>5, <1>6, <2>2, <2>6, <3>1, <3>2, PrefixOfLonger
  <2>8. ~Answered'
    BY <1>5, <1>8 DEF Answered, At
  <2> QED BY <1>2, <1>7, <2>3, <2>4, <2>5, <2>6, <2>7, <2>8, ReadingStep
<1>9. CASE /\ e.kind \in {"done", "failed"} /\ handler' = "returned" /\ events' = << >>
           /\ content' = content
           /\ \/ e.kind = "done" /\ reply' = <<Completion(e)>>
              \/ e.kind = "failed" /\ reply' = <<ErrorPart>>
  <2>1. ResponseTypes'
    BY <1>1, <1>2, <1>5, <1>9, ReadingTypes DEF ResponseTypes
  <2>2. InOrder' /\ ~HasDone'
    BY <1>9, InOrderWithout
  <2>3. Replying'
    <3>1. stage' = "answered" /\ request'.stream = FALSE
      <4>1. request.stream \in BOOLEAN
        BY <1>1, TypesOfText
      <4> QED BY <1>2, <1>3, <1>6, <1>9, <4>1
    <3>2. reply' \in {<<ErrorPart>>, <<Completion(Done(Reason))>>}
      BY <1>6, <1>9
    <3>3. Completion(Done(Reason))' = Completion(Done(Reason)) /\ ErrorPart' = ErrorPart
      BY <1>2, <1>3, <1>9 DEF Completion, Usage, ErrorPart
    <3> QED BY <1>9, <3>1, <3>2, <3>3 DEF Replying
  <2>4. Sent = content /\ Received' = content
    <3>1. Sent = content \o << >>
      BY <1>5, <1>6, <1>9 DEF Sent
    <3> QED BY <1>5, <1>9, <3>1, TextNothing
  <2>5. IsPrefix(Received', Sent)
    BY <1>5, <2>4, PrefixReflexive
  <2>6. Answered' => HasDone
    <3>1. CASE e.kind = "done"
      BY <1>6, <3>1
    <3>2. CASE e.kind = "failed"
      <4>1. reply' = <<ErrorPart>>
        BY <1>9, <3>2
      <4>2. ~Answered'
        BY <4>1 DEF Answered, At, ErrorPart
      <4> QED BY <4>2
    <3> QED BY <1>9, <3>1, <3>2
  <2>7. ~ReceiverOpen'
    BY <1>9 DEF ReceiverOpen
  <2> QED BY <1>2, <1>7, <2>1, <2>2, <2>3, <2>4, <2>5, <2>6, <2>7, ReadingStep
<1>10. \/ /\ e.kind = "delta" /\ content' = content \o e.text /\ events' = Tail(events)
          /\ UNCHANGED <<handler, reply>>
       \/ /\ e.kind \in {"done", "failed"} /\ handler' = "returned" /\ events' = << >>
          /\ content' = content
          /\ \/ e.kind = "done" /\ reply' = <<Completion(e)>>
             \/ e.kind = "failed" /\ reply' = <<ErrorPart>>
  BY <1>4 DEF Collect, ErrorPart
<1> QED BY <1>8, <1>9, <1>10

LEMMA DisconnectStep ==
  ASSUME ResponseInv, Disconnect
  PROVE  ResponseInv'
<1>1. ResponseTypes /\ InOrder /\ Replying
  BY DEF ResponseInv
<1>2. /\ handler # "returned" /\ client' = "gone" /\ UNCHANGED <<request, worker>>
      /\ content' = content /\ reply' = reply /\ request' = request
      /\ handler' = (IF request.stream THEN handler ELSE "returned")
      /\ events' = (IF request.stream THEN events ELSE << >>)
  BY DEF Disconnect
<1>3. /\ stage' = stage /\ Done(Reason)' = Done(Reason) /\ Closings' = Closings /\ Parts' = Parts
  BY <1>2, ReadingFrame
<1>4. ReceiverOpen
  BY <1>2 DEF ReceiverOpen
<1>5. ResponseTypes'
  BY <1>1, <1>2, ReadingTypes DEF ResponseTypes
<1>6. Received' = Received /\ Received \in Text /\ Sent \in Text /\ IsPrefix(Received, Sent)
  <2>1. Received' = Received
    BY <1>2 DEF Received
  <2>2. Received \in Text /\ Texts(events) \in Text /\ Sent \in Text
    BY <1>1, TextTypes
  <2>3. PICK x : x = Texts(events)
    OBVIOUS
  <2>4. Sent = Received \o x
    BY <2>3 DEF Sent
  <2> QED BY <2>1, <2>2, <2>3, <2>4, PrefixOfLonger
<1>7. ~Answered'
  <2>1. \A i \in DOMAIN reply : reply[i].kind \in {"role", "text"}
    <3>1. CASE request.stream
      <4>1. reply \in Seq(Parts) /\ (reply = << >> \/ Streams(reply, Len(reply)))
        BY <1>1, <1>2, <3>1 DEF Replying, ResponseTypes
      <4> QED BY <4>1, StreamGoesOn
    <3>2. CASE ~request.stream
      <4>1. reply = << >>
        BY <1>1, <1>2, <3>2 DEF Replying
      <4> QED BY <4>1
    <3> QED BY <3>1, <3>2
  <2> QED BY <1>2, <2>1 DEF Answered, At
<1>8. CASE request.stream
  <2>1. handler' = handler /\ events' = events
    BY <1>2, <1>8
  <2>2. InOrder' /\ (HasDone' => HasDone)
    <3>1. Final' = Final
      BY <1>3 DEF Final, Failed
    <3> QED BY <1>1, <1>3, <2>1, <3>1 DEF InOrder, HasDone, Deltas, Text
  <2>3. Replying'
    <3>1. /\ reply \in Seq(Parts) /\ content = << >>
          /\ handler = "starting" => reply = << >>
          /\ handler = "reading" => Streams(reply, Len(reply))
      BY <1>1, <1>8 DEF Replying
    <3> QED BY <1>2, <1>3, <1>8, <2>1, <3>1 DEF Replying, Streams, RolePart, TextParts, Text
  <2>4. Sent' = Sent
    BY <1>6, <2>1 DEF Sent
  <2> QED BY <1>2, <1>4, <1>5, <1>6, <1>7, <2>1, <2>2, <2>3, <2>4, ReadingStep
<1>9. CASE ~request.stream
  <2>1. handler' = "returned" /\ events' = << >>
    BY <1>2, <1>9
  <2>2. InOrder' /\ ~HasDone'
    BY <2>1, InOrderWithout
  <2>3. Replying'
    BY <1>1, <1>2, <1>9, <2>1 DEF Replying
  <2>4. ~ReceiverOpen'
    BY <2>1 DEF ReceiverOpen
  <2> QED BY <1>2, <1>4, <1>5, <1>6, <1>7, <2>1, <2>2, <2>3, <2>4, ReadingStep
<1> QED BY <1>8, <1>9


\* A stream that gives up: its receiver goes with it.
LEMMA GivesUp ==
  ASSUME ResponseInv, ReceiverOpen, request.stream, UNCHANGED <<request, worker, client, content, reply>>,
         handler' = "returned", events' = << >>
  PROVE  ResponseInv'
<1>1. ResponseTypes /\ InOrder /\ Replying
  BY DEF ResponseInv
<1>2. /\ handler # "returned" /\ client' = client /\ content' = content /\ reply' = reply
      /\ request' = request /\ UNCHANGED <<request, worker>>
  BY DEF ReceiverOpen
<1>3. /\ stage' = stage /\ Done(Reason)' = Done(Reason) /\ Closings' = Closings /\ Parts' = Parts
  BY <1>2, ReadingFrame
<1>4. ResponseTypes'
  BY <1>1, <1>2, ReadingTypes DEF ResponseTypes
<1>5. Received' = Received /\ IsPrefix(Received, Sent)
  <2>1. Received' = Received
    BY <1>2 DEF Received
  <2>2. Received \in Text /\ Texts(events) \in Text
    BY <1>1, TextTypes
  <2>3. PICK x : x = Texts(events)
    OBVIOUS
  <2>4. Sent = Received \o x
    BY <2>3 DEF Sent
  <2> QED BY <2>1, <2>2, <2>3, <2>4, PrefixOfLonger
<1>6. /\ reply \in Seq(Parts) /\ content = << >>
      /\ reply = << >> \/ Streams(reply, Len(reply))
  BY <1>1, <1>2 DEF Replying, ResponseTypes
<1>7. ~Answered'
  <2>1. \A i \in DOMAIN reply : reply[i].kind \in {"role", "text"}
    BY <1>6, StreamGoesOn
  <2> QED BY <1>2, <2>1 DEF Answered, At
<1>8. InOrder' /\ ~HasDone'
  BY InOrderWithout
<1>9. Replying'
  BY <1>2, <1>3, <1>6 DEF Replying, Streams, RolePart, TextParts, Text
<1>10. ~ReceiverOpen'
  BY DEF ReceiverOpen
<1> QED BY <1>2, <1>4, <1>5, <1>7, <1>8, <1>9, <1>10, ReadingStep

LEMMA StartStreamStep ==
  ASSUME ResponseInv, StartStream
  PROVE  ResponseInv'
<1>1. ResponseTypes /\ InOrder /\ Replying
  BY DEF ResponseInv
<1>2. /\ handler = "starting" /\ client' = client /\ content' = content /\ request' = request
      /\ UNCHANGED <<request, worker>> /\ ReceiverOpen
  BY DEF StartStream, ReceiverOpen
<1>3. request.stream /\ reply = << >> /\ content = << >>
  BY <1>1, <1>2 DEF Replying
<1>4. CASE client = "gone"
  <2>1. handler' = "returned" /\ events' = << >> /\ reply' = reply
    BY <1>4 DEF StartStream
  <2> QED BY <1>2, <1>3, <2>1, GivesUp
<1>5. CASE client # "gone"
  <2>1. handler' = "reading" /\ events' = events /\ reply' = <<RolePart>>
    BY <1>5 DEF StartStream, RolePart
  <2>2. /\ stage' = stage /\ Done(Reason)' = Done(Reason) /\ Closings' = Closings /\ Parts' = Parts
    BY <1>2, ReadingFrame
  <2>3. ResponseTypes'
    BY <1>1, <1>2, <2>1, ReadingTypes DEF ResponseTypes
  <2>4. InOrder' /\ (HasDone' => HasDone)
    <3>1. Final' = Final
      BY <2>2 DEF Final, Failed
    <3> QED BY <1>1, <1>2, <2>1, <2>2, <3>1 DEF InOrder, HasDone, Deltas, Text
  <2>5. RolePart \in Parts /\ <<RolePart>> \in Seq(Parts)
    BY DEF Parts
  <2>6. Streams(<<RolePart>>, 1) /\ Len(<<RolePart>>) = 1
    BY DEF Streams
  <2>7. Replying'
    BY <1>2, <1>3, <2>1, <2>2, <2>5, <2>6 DEF Replying, Streams, RolePart, TextParts, Text
  <2>8. Received' = Received /\ Received = << >>
    <3>1. Carriers(Parts)
      BY <1>1, TypesOfText, PartsCarry
    <3>2. << >> \in Seq(Parts) /\ Append(<< >>, RolePart) = <<RolePart>> /\ TextOf(RolePart) = << >>
      BY <2>5 DEF TextOf, RolePart
    <3>3. Texts(<<RolePart>>) = Texts(<< >>) \o << >>
      BY <2>5, <3>1, <3>2, TextsAppend
    <3>4. Texts(<<RolePart>>) = << >>
      BY <3>3, TextsEmpty, TextNothing
    <3> QED BY <1>2, <1>3, <2>1, <3>4, TextsEmpty DEF Received
  <2>9. Sent' = Sent /\ IsPrefix(Received', Sent)
    <3>1. Sent' = Sent
      BY <2>1, <2>8 DEF Sent
    <3>2. Sent \in Text
      BY <1>1, TextTypes
    <3> QED BY <2>8, <3>1, <3>2, PrefixReflexive
  <2>10. ~Answered'
    BY <2>1 DEF Answered, At, RolePart
  <2> QED BY <1>2, <2>1, <2>3, <2>4, <2>7, <2>8, <2>9, <2>10, ReadingStep
<1> QED BY <1>4, <1>5

\* A text part makes a stream longer.
LEMMA StreamGrows ==
  ASSUME NEW P, NEW parts \in Seq(P), Streams(parts, Len(parts)), NEW part \in P
  PROVE  /\ part \in TextParts => Streams(Append(parts, part), Len(Append(parts, part)))
         /\ Streams(Append(parts, part), Len(parts))
         /\ ClosesWith(Append(parts, part), Len(parts), <<part>>)
<1>1. PICK longer : longer = Append(parts, part)
  OBVIOUS
<1>2. /\ longer \in Seq(P) /\ Len(longer) = Len(parts) + 1 /\ longer[Len(parts) + 1] = part
      /\ \A i \in 1..Len(parts) : longer[i] = parts[i]
      /\ Len(parts) \in 1..Len(parts)
  BY <1>1 DEF Streams
<1>3. \A i \in 2..Len(parts) : i \in 1..Len(parts)
  OBVIOUS
<1>4. \A i \in 2..(Len(parts) + 1) : i \in 2..Len(parts) \/ i = Len(parts) + 1
  BY <1>2
<1>5. Streams(longer, Len(parts))
  BY <1>2, <1>3 DEF Streams
<1>6. ASSUME part \in TextParts PROVE Streams(longer, Len(longer))
  BY <1>2, <1>3, <1>4, <1>6 DEF Streams
<1>7. ClosesWith(longer, Len(parts), <<part>>)
  BY <1>2 DEF ClosesWith
<1> QED BY <1>1, <1>5, <1>6, <1>7

LEMMA StreamCloses ==
  ASSUME NEW P, NEW parts \in Seq(P), Streams(parts, Len(parts)), NEW more \in Seq(P)
  PROVE  /\ Streams(parts \o more, Len(parts)) /\ ClosesWith(parts \o more, Len(parts), more)
         /\ Len(parts) \in 1..Len(parts \o more)
<1>1. PICK longer : longer = parts \o more
  OBVIOUS
<1>2. /\ longer \in Seq(P) /\ Len(longer) = Len(parts) + Len(more)
      /\ \A k \in 1..Len(parts) : longer[k] = parts[k]
      /\ \A k \in 1..Len(more) : longer[Len(parts) + k] = more[k]
      /\ Len(parts) \in 1..Len(parts) /\ Len(more) \in Nat
  BY <1>1, Concat DEF Streams
<1>3. \A i \in 2..Len(parts) : i \in 1..Len(parts)
  OBVIOUS
<1> QED BY <1>1, <1>2, <1>3 DEF Streams, ClosesWith

LEMMA RelayStep ==
  ASSUME ResponseInv, Relay
  PROVE  ResponseInv'
<1>1. ResponseTypes /\ InOrder /\ Replying
  BY DEF ResponseInv
<1>2. /\ request.stream /\ handler = "reading" /\ events # << >>
      /\ client' = client /\ content' = content /\ request' = request
      /\ UNCHANGED <<request, worker>> /\ ReceiverOpen
  BY DEF Relay, ReceiverOpen
<1>3. CASE client = "gone"
  <2>1. handler' = "returned" /\ events' = << >> /\ reply' = reply
    BY <1>3 DEF Relay
  <2> QED BY <1>2, <2>1, GivesUp
<1>4. /\ stage' = stage /\ Done(Reason)' = Done(Reason) /\ Closings' = Closings /\ Parts' = Parts
      /\ ChunksOf(Done(Reason))' = ChunksOf(Done(Reason))
  BY <1>2, ReadingFrame
<1>5. reply \in Seq(Parts) /\ content = << >> /\ Streams(reply, Len(reply))
  BY <1>1, <1>2 DEF Replying
<1>6. PICK e : e = Head(events)
  OBVIOUS
<1>7. /\ Texts(events) = TextOf(e) \o Texts(Tail(events))
      /\ Texts(Tail(events)) \in Text /\ TextOf(e) \in Text
      /\ e.kind = "delta" => e \in Deltas
      /\ e.kind # "delta" => stage = "answered" /\ Texts(events) = << >>
      /\ e.kind = "done" => e = Done(Reason) /\ HasDone
      /\ e.kind \in {"delta", "done", "failed"}
  BY <1>1, <1>2, <1>6, HeadEvent
<1>8. Carriers(Parts) /\ request.usage \in BOOLEAN
  BY <1>1, TypesOfText, PartsCarry
<1>9. Received = Texts(reply) /\ Received' = Texts(reply') /\ Received \in Text
  BY <1>1, <1>2, TextTypes DEF Received
<1>10. CASE client # "gone" /\ e.kind = "delta"
  <2>1. PICK t : t = TextOf(e)
    OBVIOUS
  <2>2. PICK part : part = [kind |-> "text", text |-> t]
    OBVIOUS
  <2>3. t \in Text /\ part \in TextParts /\ part \in Parts /\ TextOf(part) = t
    BY <1>7, <2>1, <2>2 DEF Parts, TextParts, TextOf
  <2>4. /\ handler' = "reading" /\ events' = Tail(events) /\ reply' = reply \o <<part>>
    <3>1. ChunksOf(e) = <<part>>
      BY <1>10, <2>1, <2>2 DEF ChunksOf, TextOf
    <3> QED BY <1>6, <1>10, <3>1 DEF Relay
  <2>5. reply' = Append(reply, part) /\ reply' \in Seq(Parts)
    BY <1>5, <2>3, <2>4, AppendAsConcat, AppendType
  <2>6. Streams(reply', Len(reply'))
    BY <1>5, <2>3, <2>5, StreamGrows
  <2>7. ResponseTypes'
    BY <1>1, <1>2, <2>4, ReadingTypes DEF ResponseTypes
  <2>8. InOrder' /\ (HasDone' => HasDone)
    BY <1>1, <1>2, <2>4, InOrderAfter
  <2>9. Replying'
    BY <1>2, <1>4, <1>5, <2>4, <2>5, <2>6 DEF Replying, Streams, RolePart, TextParts, Text
  <2>10. Received' = Received \o t
    BY <1>5, <1>8, <1>9, <2>3, <2>5, TextsAppend
  <2>11. PICK x : x = Texts(Tail(events))
    OBVIOUS
  <2>12. Sent' = Sent
    <3>1. x \in Text /\ t \in Text /\ Received \in Text
      BY <1>7, <1>9, <2>3, <2>11
    <3>2. (Received \o t) \o x = Received \o (t \o x)
      BY <3>1, TextAssoc
    <3>3. Sent = Received \o (t \o x)
      BY <1>7, <2>1, <2>11 DEF Sent
    <3>4. Sent' = (Received \o t) \o x
      BY <2>4, <2>10, <2>11 DEF Sent
    <3> QED BY <3>2, <3>3, <3>4
  <2>13. IsPrefix(Received', Sent)
    <3>1. Received' \in Text
      BY <1>9, <2>3, <2>10, TextConcat
    <3>2. Sent' = Received' \o x /\ x \in Text
      BY <1>7, <2>4, <2>11 DEF Sent
    <3> QED BY <2>12, <3>1, <3>2, PrefixOfLonger
  <2>14. ~Answered'
    <3>1. \A i \in DOMAIN reply' : reply'[i].kind \in {"role", "text"}
      BY <2>5, <2>6, StreamGoesOn
    <3> QED BY <3>1 DEF Answered, At
  <2> QED BY <1>2, <2>7, <2>8, <2>9, <2>12, <2>13, <2>14, ReadingStep
<1>11. CASE client # "gone" /\ e.kind # "delta"
  <2>1. /\ handler' = "returned" /\ events' = << >> /\ reply' = reply \o ChunksOf(e)
    BY <1>6, <1>11 DEF Relay
  <2>2. PICK closing : closing = ChunksOf(e)
    OBVIOUS
  <2>3. /\ closing \in Seq(Parts) /\ closing \in Closings
        /\ \A i \in 1..Len(closing) : TextOf(closing[i]) = << >>
        /\ e.kind = "failed" => closing = <<ErrorPart>>
    <3>1. CASE e.kind = "failed"
      <4>1. closing = <<ErrorPart>>
        BY <2>2, <3>1 DEF ChunksOf, ErrorPart
      <4>2. ErrorPart \in Parts /\ TextOf(ErrorPart) = << >>
        BY DEF Parts, TextOf, ErrorPart
      <4>3. <<ErrorPart>> \in Seq(Parts) /\ Len(<<ErrorPart>>) = 1 /\ <<ErrorPart>>[1] = ErrorPart
        BY <4>2
      <4> QED BY <4>1, <4>2, <4>3 DEF Closings
    <3>2. CASE e.kind = "done"
      <4>1. closing = ChunksOf(Done(Reason))
        BY <1>7, <2>2, <3>2
      <4>2. closing \in Seq(LastParts(Done(Reason)))
        BY <1>8, <4>1, DoneIs, ChunksClose
      <4>3. \A i \in 1..Len(closing) : closing[i] \in LastParts(Done(Reason)) /\ closing[i] \in Parts
        BY <1>7, <3>2, <4>1, <4>2 DEF Parts
      <4>4. \A p \in LastParts(Done(Reason)) : TextOf(p) = << >>
        BY DEF LastParts, CallsPart, FinishPart, UsagePart, EndPart, TextOf
      <4>5. closing \in Seq(Parts)
        BY <4>2, <4>3
      <4> QED BY <3>2, <4>1, <4>3, <4>4, <4>5 DEF Closings
    <3> QED BY <1>7, <1>11, <3>1, <3>2
  <2>4. Received' = Received /\ reply' \in Seq(Parts)
    BY <1>5, <1>8, <1>9, <2>1, <2>2, <2>3, TextsSilent
  <2>5. /\ Streams(reply', Len(reply)) /\ ClosesWith(reply', Len(reply), closing)
        /\ Len(reply) \in 1..Len(reply')
    BY <1>5, <2>1, <2>2, <2>3, StreamCloses
  <2>6. ResponseTypes'
    BY <1>1, <1>2, <2>1, ReadingTypes DEF ResponseTypes
  <2>7. InOrder' /\ ~HasDone'
    BY <2>1, InOrderWithout
  <2>8. Replying'
    <3>1. stage' = "answered" /\ request'.stream /\ content' = << >> /\ closing \in Closings'
      BY <1>2, <1>4, <1>5, <1>7, <1>11, <2>3
    <3>2. Streams(reply, Len(reply)) /\ Len(reply) \in 1..Len(reply)
      BY <1>5 DEF Streams
    <3>3. \E n \in 1..Len(reply'), c \in Closings' : Streams(reply', n) /\ ClosesWith(reply', n, c)
      BY <2>5, <3>1
    <3>4. reply' \in Seq(Parts')
      BY <1>4, <2>4
    <3> QED BY <2>1, <3>1, <3>3, <3>4 DEF Replying, Streams, ClosesWith, RolePart, TextParts, Text
  <2>9. Sent = Received
    <3>1. Sent = Received \o << >>
      BY <1>7, <1>11 DEF Sent
    <3> QED BY <1>9, <3>1, TextNothing
  <2>10. IsPrefix(Received', Sent)
    BY <1>9, <2>4, <2>9, PrefixReflexive
  <2>11. Answered' => HasDone
    <3>1. CASE e.kind = "done"
      BY <1>7, <3>1
    <3>2. CASE e.kind = "failed"
      <4>1. reply' = Append(reply, ErrorPart) /\ ErrorPart \in Parts
        <5>1. ErrorPart \in Parts
          BY DEF Parts
        <5> QED BY <1>5, <2>1, <2>2, <2>3, <3>2, <5>1, AppendAsConcat
      <4>2. \A i \in DOMAIN reply : reply[i].kind \in {"role", "text"}
        BY <1>5, StreamGoesOn
      <4>3. \A i \in DOMAIN reply' : reply'[i].kind \in {"role", "text", "error"}
        <5>1. DOMAIN reply' = 1..(Len(reply) + 1) /\ DOMAIN reply = 1..Len(reply) /\ Len(reply) \in Nat
          BY <1>5, <2>4, <4>1
        <5>2. \A i \in 1..Len(reply) : reply'[i] = reply[i]
          BY <1>5, <4>1
        <5>3. reply'[Len(reply) + 1] = ErrorPart /\ ErrorPart.kind = "error"
          BY <1>5, <4>1 DEF ErrorPart
        <5>4. \A i \in 1..(Len(reply) + 1) : i \in 1..Len(reply) \/ i = Len(reply) + 1
          BY <5>1
        <5> QED BY <4>2, <5>1, <5>2, <5>3, <5>4
      <4>4. ~Answered'
        BY <4>3 DEF Answered, At
      <4> QED BY <4>4
    <3> QED BY <1>7, <1>11, <3>1, <3>2
  <2>12. ~ReceiverOpen'
    BY <2>1 DEF ReceiverOpen
  <2> QED BY <1>2, <2>4, <2>6, <2>7, <2>8, <2>9, <2>10, <2>11, <2>12, ReadingStep
<1> QED BY <1>3, <1>10, <1>11
-----------------------------------------------------------------------------
(***************************************************************************)
(* The counter of thinking tokens.                                         *)
(***************************************************************************)
\* A chunk completes a marker for itself only.
LEMMA ClosersAppend ==
  ASSUME NEW chunks \in Seq(Text), NEW chunk \in Text
  PROVE  Closers(Append(chunks, chunk)) =
           Closers(chunks) \cup (IF Occurs(FlattenSeq(chunks) \o chunk, THINK_CLOSE)
                                 THEN {Len(chunks) + 1} ELSE {})
<1>1. PICK longer : longer = Append(chunks, chunk)
  OBVIOUS
<1>2. PICK l : l = Len(chunks)
  OBVIOUS
<1>3. /\ longer \in Seq(Text) /\ Len(longer) = l + 1 /\ l \in Nat
      /\ DOMAIN longer = 1..(l + 1) /\ DOMAIN chunks = 1..l
  BY <1>1, <1>2
<1>4. ASSUME NEW n \in 1..l PROVE SubSeq(longer, 1, n) = SubSeq(chunks, 1, n)
  <2>1. SubSeq(chunks, 1, l) = chunks /\ l \in 0..Len(chunks) /\ n \in 0..l
    BY <1>2, <1>3
  <2>2. SubSeq(Append(SubSeq(chunks, 1, l), chunk), 1, n) = SubSeq(chunks, 1, n)
    BY <2>1, PrefixOfPrefix
  <2> QED BY <1>1, <2>1, <2>2
<1>5. FlattenSeq(SubSeq(longer, 1, l + 1)) = FlattenSeq(chunks) \o chunk
  <2>1. SubSeq(longer, 1, l + 1) = longer
    BY <1>3
  <2> QED BY <1>1, <2>1, FlattenAppend
<1>6. \A n \in 1..(l + 1) : n \in 1..l \/ n = l + 1
  BY <1>3
<1>7. 1..l \subseteq 1..(l + 1) /\ l + 1 \in 1..(l + 1)
  BY <1>3
<1>8. \A n : n \in Closers(longer) <=>
              \/ n \in Closers(chunks)
              \/ n = l + 1 /\ Occurs(FlattenSeq(chunks) \o chunk, THINK_CLOSE)
  <2>1. \A n : n \in Closers(chunks) <=>
                 n \in 1..l /\ Occurs(FlattenSeq(SubSeq(chunks, 1, n)), THINK_CLOSE)
    BY <1>3 DEF Closers
  <2>2. \A n : n \in Closers(longer) <=>
                 n \in 1..(l + 1) /\ Occurs(FlattenSeq(SubSeq(longer, 1, n)), THINK_CLOSE)
    BY <1>3 DEF Closers
  <2>3. \A n \in 1..l : n \in Closers(longer) <=> n \in Closers(chunks)
    BY <1>4, <1>7, <2>1, <2>2
  <2>4. l + 1 \in Closers(longer) <=> Occurs(FlattenSeq(chunks) \o chunk, THINK_CLOSE)
    BY <1>5, <1>7, <2>2
  <2>5. l + 1 \notin 1..l
    BY <1>3
  <2> QED BY <1>6, <2>1, <2>2, <2>3, <2>4, <2>5
<1> QED BY <1>1, <1>2, <1>8

LEMMA ClosersAreChunks ==
  ASSUME NEW chunks \in Seq(Text)
  PROVE  /\ Closers(chunks) \subseteq 1..Len(chunks) /\ Closers(chunks) \in SUBSET Nat
         /\ Len(chunks) \in Nat
         /\ Closers(chunks) = {} => ~Occurs(FlattenSeq(chunks), THINK_CLOSE)
<1>1. DOMAIN chunks = 1..Len(chunks) /\ Len(chunks) \in Nat
  OBVIOUS
<1>2. Closers(chunks) \subseteq 1..Len(chunks)
  BY <1>1 DEF Closers
<1>3. ASSUME Occurs(FlattenSeq(chunks), THINK_CLOSE) PROVE Closers(chunks) # {}
  <2>1. CASE chunks = << >>
    <3>1. << >> \in Text /\ Len(<< >>) = 0
      BY TextNothing
    <3>2. Occurrences(<< >>, THINK_CLOSE) = {}
      BY <3>1, OccurrencesBegin, Markers
    <3> QED BY <1>3, <2>1, <3>2, FlattenEmpty DEF Occurs
  <2>2. CASE chunks # << >>
    <3>1. Len(chunks) \in 1..Len(chunks) /\ SubSeq(chunks, 1, Len(chunks)) = chunks
      BY <1>1, <2>2
    <3> QED BY <1>1, <1>3, <3>1 DEF Closers
  <2> QED BY <2>1, <2>2
<1> QED BY <1>1, <1>2, <1>3

\* Two symbols make the marker: a search that resumes at the last symbol it has
\* seen finds every marker that was not there before.
LEMMA SearchResumes ==
  ASSUME NEW text \in Text, NEW longer \in Text, Extends(longer, text),
         ~Occurs(text, THINK_CLOSE)
  PROVE  Occurs(From(longer, Scanned(text) + 1), THINK_CLOSE) <=> Occurs(longer, THINK_CLOSE)
<1>1. PICK d : d = Scanned(text)
  OBVIOUS
<1>2. PICK p : p = THINK_CLOSE
  OBVIOUS
<1>3. /\ Len(text) \in Nat /\ Len(longer) \in Nat /\ Len(text) <= Len(longer)
      /\ p \in Text /\ Len(p) = 2 /\ p # << >>
  BY <1>2, LenOfText, Markers DEF Extends
<1>4. d \in Nat /\ d <= Len(text) /\ (Len(text) # 0 => d + 1 <= Len(text)) /\ (Len(text) = 0 => d = 0)
  BY <1>1, <1>3 DEF Scanned
<1>5. PICK tail : tail = From(longer, d + 1)
  OBVIOUS
<1>6. tail \in Text /\ IsTail(tail, longer, d)
  <2>1. d + 1 \in 1..(Len(longer) + 1) /\ Len(longer) \in d..Len(longer) /\ d + 1 - 1 = d
    BY <1>3, <1>4
  <2>2. /\ tail \in Text /\ Len(tail) = Len(longer) - (d + 1) + 1
        /\ \A k \in 1..(Len(longer) - (d + 1) + 1) : tail[k] = longer[d + 1 + k - 1]
    BY <1>5, <2>1, Slice DEF From, Text
  <2>3. Len(tail) = Len(longer) - d /\ Len(longer) - (d + 1) + 1 = Len(longer) - d
        /\ Len(longer) = d + Len(tail)
    BY <1>3, <1>4, <2>2
  <2>4. \A k \in 1..Len(tail) : d + 1 + k - 1 = d + k
    BY <1>4
  <2> QED BY <1>4, <2>2, <2>3, <2>4 DEF IsTail
<1>7. /\ \A i : i \in Occurrences(longer, p) <=> Begins(longer, p, i)
      /\ \A i : i \in Occurrences(tail, p) <=> Begins(tail, p, i)
      /\ \A i : i \in Occurrences(text, p) <=> Begins(text, p, i)
  <2>1. /\ Occurrences(longer, p) = {i \in 1..Len(longer) : Begins(longer, p, i)}
        /\ Occurrences(tail, p) = {i \in 1..Len(tail) : Begins(tail, p, i)}
        /\ Occurrences(text, p) = {i \in 1..Len(text) : Begins(text, p, i)}
    BY <1>3, <1>6, OccurrencesBegin
  <2>2. \A t, i : Begins(t, p, i) => i \in 1..Len(t)
    BY DEF Begins
  <2> QED BY <2>1, <2>2
<1>8. \A i \in 1..Len(tail) : Begins(tail, p, i) <=> Begins(longer, p, d + i)
  BY <1>3, <1>6, BeginsInTail
<1>9. \A i : ~Begins(text, p, i)
  BY <1>2, <1>7 DEF Occurs
<1>10. ASSUME NEW i, Begins(longer, p, i) PROVE i - d \in 1..Len(tail) /\ d + (i - d) = i
  <2>1. i \in 1..Len(longer) /\ i + 1 <= Len(longer) /\ i + Len(p) - 1 = i + 1
    BY <1>3, <1>10 DEF Begins
  <2>2. i + 1 > Len(text)
    <3>1. SUFFICES ASSUME i + 1 <= Len(text) PROVE FALSE
      BY <1>3, <2>1
    <3>2. i \in 1..Len(text) /\ i + Len(p) - 1 <= Len(text)
      BY <1>3, <2>1, <3>1
    <3>3. ASSUME NEW k \in 1..Len(p) PROVE text[i + k - 1] = p[k]
      <4>1. i + k - 1 \in 1..Len(text)
        BY <1>3, <2>1, <3>1
      <4> QED BY <1>10, <4>1 DEF Begins, Extends
    <3> QED BY <1>9, <3>2, <3>3 DEF Begins
  <2>3. Len(longer) = d + Len(tail) /\ Len(tail) \in Nat
    BY <1>6, LenOfText DEF IsTail
  <2>4. i > d
    BY <1>3, <1>4, <2>1, <2>2
  <2> QED BY <1>3, <1>4, <2>1, <2>3, <2>4
<1>11. Occurs(tail, p) <=> Occurs(longer, p)
  <2>1. ASSUME NEW i, Begins(tail, p, i) PROVE Begins(longer, p, d + i)
    <3>1. i \in 1..Len(tail)
      BY <2>1 DEF Begins
    <3> QED BY <1>8, <2>1, <3>1
  <2>2. ASSUME NEW i, Begins(longer, p, i) PROVE \E j : Begins(tail, p, j)
    <3>1. PICK j : j = i - d
      OBVIOUS
    <3>2. j \in 1..Len(tail) /\ d + j = i
      BY <1>10, <2>2, <3>1
    <3> QED BY <1>8, <2>2, <3>2
  <2> QED BY <1>7, <2>1, <2>2 DEF Occurs
<1> QED BY <1>1, <1>2, <1>5, <1>11

LEMMA DecodedCounts ==
  ASSUME ResponseInv, NEW token \in Tokens, Decoded(token)
  PROVE  Counted'
<1>1. ResponseTypes /\ Counted /\ Guarding /\ Stopping
  BY DecodedCourse DEF ResponseInv
<1>2. PICK chunk : chunk = token.chunk
  OBVIOUS
<1>3. /\ decoded' = Append(decoded, chunk) /\ reasoning' = Observed(reasoning, raw')
      /\ request' = request /\ raw' = raw \o chunk /\ raw' \in Text /\ raw \in Text
  BY <1>1, <1>2, DecodedDoes, GuardStep, TypesOfText
<1>4. chunk \in Text /\ decoded \in Seq(Text)
  <2>1. chunk \in Seq(STRING)
    BY <1>2, ResponseAssumption
  <2> QED BY <1>1, <2>1, StringsAreText DEF ResponseTypes
<1>5. PICK closers : closers = Closers(decoded)
  OBVIOUS
<1>6. PICK closers2 : closers2 = Closers(decoded')
  OBVIOUS
<1>7. PICK l : l = Len(decoded)
  OBVIOUS
<1>8. /\ closers2 = closers \cup (IF Occurs(raw', THINK_CLOSE) THEN {l + 1} ELSE {})
      /\ closers \subseteq 1..l /\ closers \in SUBSET Nat /\ l \in Nat
      /\ closers = {} => ~Occurs(raw, THINK_CLOSE)
      /\ Len(decoded') = l + 1
  BY <1>3, <1>4, <1>5, <1>6, <1>7, ClosersAppend, ClosersAreChunks DEF raw
<1>9. reasoning \in [open : BOOLEAN, tokens : Nat, scanned : Nat] /\ request.thinking \in BOOLEAN
  BY <1>1, TypesOfText DEF ResponseTypes
<1>10. CASE ~reasoning.open
  <2>1. reasoning' = reasoning
    BY <1>3, <1>10, ObservedIs
  <2>2. ASSUME request.thinking PROVE closers2 # {} /\ reasoning.tokens = Min(closers2)
    <3>1. closers # {} /\ reasoning.tokens = Min(closers)
      BY <1>1, <1>5, <1>10, <2>2 DEF Counted
    <3>2. PICK m : m = Min(closers)
      OBVIOUS
    <3>3. m \in closers /\ \A y \in closers : m <= y
      BY <1>8, <3>1, <3>2, MinIsLeast
    <3>4. m \in closers2 /\ closers2 \in SUBSET Nat /\ \A y \in closers2 : m <= y
      <4>1. m <= l + 1 /\ m \in Nat
        BY <1>8, <3>3
      <4> QED BY <1>8, <3>3, <4>1
    <3>5. Min(closers2) = m
      BY <3>4, MinIs
    <3> QED BY <3>1, <3>2, <3>4, <3>5
  <2>3. ~request.thinking => reasoning.tokens = 0
    BY <1>1 DEF Counted
  <2> QED BY <1>3, <1>6, <1>10, <2>1, <2>2, <2>3 DEF Counted
<1>11. CASE reasoning.open
  <2>1. /\ request.thinking /\ closers = {} /\ reasoning.tokens = l
        /\ reasoning.scanned = Scanned(raw)
    BY <1>1, <1>5, <1>7, <1>11 DEF Counted
  <2>2. Extends(raw', raw)
    BY <1>3, <1>4, TextConcat, LenOfText DEF Extends
  <2>3. Occurs(From(raw', Scanned(raw) + 1), THINK_CLOSE) <=> Occurs(raw', THINK_CLOSE)
    BY <1>3, <1>8, <2>1, <2>2, SearchResumes
  <2>4. /\ reasoning'.open = ~Occurs(From(raw', Scanned(raw) + 1), THINK_CLOSE)
        /\ reasoning'.tokens = l + 1 /\ reasoning'.scanned = Scanned(raw')
    BY <1>3, <1>11, <2>1, ObservedIs
  <2>5. Scanned(raw)' = Scanned(raw')
    BY DEF Scanned
  <2>6. CASE Occurs(raw', THINK_CLOSE)
    <3>1. closers2 = {l + 1} /\ ~reasoning'.open
      BY <1>8, <2>1, <2>3, <2>4, <2>6
    <3>2. l + 1 \in closers2 /\ closers2 \in SUBSET Nat /\ \A y \in closers2 : l + 1 <= y
      BY <1>8, <3>1
    <3>3. Min(closers2) = l + 1
      BY <3>2, MinIs
    <3> QED BY <1>3, <1>6, <2>1, <2>4, <3>1, <3>3 DEF Counted
  <2>7. CASE ~Occurs(raw', THINK_CLOSE)
    <3>1. closers2 = {} /\ reasoning'.open
      BY <1>8, <2>1, <2>3, <2>4, <2>7
    <3> QED BY <1>3, <1>6, <1>8, <2>1, <2>4, <2>5, <3>1 DEF Counted
  <2> QED BY <2>6, <2>7
<1> QED BY <1>9, <1>10, <1>11

LEMMA DecodedStep ==
  ASSUME ResponseInv, NEW token \in Tokens, Decoded(token)
  PROVE  ResponseInv'
BY DecodedCourse, DecodedSends, DecodedDelivered, DecodedCounts DEF ResponseInv
-----------------------------------------------------------------------------
(***************************************************************************)
(* The invariant of every reachable state.                                 *)
(***************************************************************************)
LEMMA HoldsNothing ==
  ASSUME NEW marks \in StopSets
  PROVE  Holds(marks, << >>, << >>)
<1>1. << >> \in Text /\ Len(<< >>) = 0
  BY TextNothing
<1>2. Starts(<< >>, marks) = {}
  BY <1>1, StartsBegin
<1>3. IsTail(<< >>, << >>, 0) /\ Len(<< >>) - Len(<< >>) = 0
  BY <1>1 DEF IsTail
<1>4. \A n \in 1..Len(<< >>) : FALSE
  BY <1>1
<1> QED BY <1>2, <1>3, <1>4 DEF Holds

LEMMA StartsSo ==
  ASSUME Init
  PROVE  ResponseInv
<1>1. /\ request \in Requests /\ stage = "queued" /\ decoded = << >> /\ calling = FALSE
      /\ reasoning = NewCounter(request.thinking) /\ completion_tokens = 0 /\ stopped = FALSE
      /\ halted = "no" /\ events = << >> /\ client = "connected" /\ content = << >>
      /\ reply = << >> /\ handler = IF request.stream THEN "starting" ELSE "reading"
  BY DEF Init
<1>2. request \in [stops : SUBSET Seq(STRING), tools : BOOLEAN, thinking : BOOLEAN,
                   stream : BOOLEAN, usage : BOOLEAN]
  BY <1>1, ResponseAssumption
<1>3. << >> \in Text /\ << >> \in Seq(Text)
  BY TextNothing
<1>4. guard = [stops |-> {CALL_OPEN}, held |-> << >>] /\ guard.held = << >>
  <2>1. {stop \in {CALL_OPEN} : stop # << >>} = {CALL_OPEN}
    BY Markers
  <2> QED BY <2>1 DEF Init, NewBuffer
<1>5. stops = [stops |-> StopsOf, held |-> << >>] /\ stops.held = << >>
  <2>1. {stop \in request.stops : stop # << >>} = StopsOf
    BY DEF StopsOf
  <2> QED BY <2>1 DEF Init, NewBuffer
<1>6. reasoning = [open |-> request.thinking, tokens |-> 0, scanned |-> 0]
  BY <1>1 DEF NewCounter
<1>7. ResponseTypes
  <2>1. reasoning \in [open : BOOLEAN, tokens : Nat, scanned : Nat]
    BY <1>2, <1>6
  <2> QED BY <1>1, <1>3, <1>4, <1>5, <2>1 DEF ResponseTypes
<1>8. Course
  BY <1>1, ResponseAssumption DEF Course, Working
<1>9. raw = << >>
  BY <1>1, FlattenEmpty DEF raw
<1>10. Pushed = << >>
  <2>1. Out(<< >>, << >>) = << >>
    <3>1. Len(<< >>) - Len(<< >>) = 0 /\ SubSeq(<< >>, 1, 0) = << >>
      OBVIOUS
    <3> QED BY <3>1 DEF Out
  <2> QED BY <1>1, <1>4, <1>9, <2>1 DEF Pushed
<1>11. Searched
  <2>1. {CALL_OPEN} \in StopSets /\ StopsOf \in StopSets
    BY <1>7, Markers, TypesOfText
  <2>2. Holds({CALL_OPEN}, << >>, << >>) /\ Holds(StopsOf, << >>, << >>)
    BY <2>1, HoldsNothing
  <2> QED BY <1>1, <1>4, <1>5, <1>9, <1>10, <2>2 DEF Searched, Guarding, Stopping
<1>12. InOrder
  <2>1. events \in Seq(Deltas \cup Final) /\ Len(events) = 0
    BY <1>1
  <2> QED BY <1>1, <2>1 DEF InOrder
<1>13. Replying
  <2>1. reply \in Seq(Parts)
    BY <1>1
  <2> QED BY <1>1, <2>1 DEF Replying
<1>14. Delivered
  <2>1. Received = << >>
    BY <1>1, TextsEmpty DEF Received
  <2>2. ~HasDone
    BY <1>1 DEF HasDone
  <2>3. ~Answered
    BY <1>1 DEF Answered, At
  <2> QED BY <1>1, <2>1, <2>2, <2>3 DEF Delivered
<1>15. Counted
  <2>1. Closers(<< >>) = {} /\ Len(<< >>) = 0 /\ Scanned(<< >>) = 0
    BY DEF Closers, Scanned
  <2> QED BY <1>1, <1>2, <1>6, <1>9, <2>1 DEF Counted
<1> QED BY <1>7, <1>8, <1>11, <1>12, <1>13, <1>14, <1>15 DEF ResponseInv

LEMMA NothingChanges ==
  ASSUME ResponseInv, UNCHANGED vars
  PROVE  ResponseInv'
<1>1. ResponseTypes /\ InOrder /\ Replying /\ Delivered /\ Counted /\ Course /\ Searched
  BY DEF ResponseInv
<1>2. /\ UNCHANGED <<request, worker>> /\ UNCHANGED texts /\ UNCHANGED turnState /\ stage' = stage
      /\ request' = request /\ decoded' = decoded /\ reasoning' = reasoning /\ halted' = halted
      /\ completion_tokens' = completion_tokens /\ stopped' = stopped
      /\ events' = events /\ handler' = handler /\ client' = client /\ content' = content
      /\ reply' = reply
  BY DEF vars, worker, reading, texts, turnState
<1>3. /\ Done(Reason)' = Done(Reason) /\ Closings' = Closings /\ Parts' = Parts
  BY <1>2, ReadingFrame
<1>4. /\ Opening' = Opening /\ Shown' = Shown /\ LetOut' = LetOut
      /\ (Fits <=> Fits') /\ \A text : IsWhole(text)' <=> IsWhole(text)
  BY <1>2, TextFrame, TurnFrame
<1>5. ResponseTypes'
  BY <1>1, <1>2, ReadingTypes DEF ResponseTypes
<1>6. Course'
  BY <1>1, <1>2 DEF Course, Working
<1>7. Searched'
  BY <1>1, <1>2, TextFrame DEF Searched, Working
<1>8. Counted'
  BY <1>1, <1>2, CountedKept
<1>9. InOrder' /\ (HasDone' <=> HasDone)
  <2>1. Final' = Final
    BY <1>2, <1>3 DEF Final, Failed
  <2> QED BY <1>1, <1>2, <1>3, <2>1 DEF InOrder, HasDone, Deltas, Text
<1>10. Replying'
  <2>1. CASE request.stream
    BY <1>1, <1>2, <1>3, <2>1 DEF Replying, Streams, ClosesWith, RolePart, TextParts, Text
  <2>2. CASE ~request.stream
    <3>1. Completion(Done(Reason))' = Completion(Done(Reason))
      BY <1>2, <1>3 DEF Completion, Usage
    <3> QED BY <1>1, <1>2, <2>2, <3>1 DEF Replying, ErrorPart
  <2> QED BY <2>1, <2>2
<1>11. Received' = Received /\ Sent' = Sent /\ (ReceiverOpen' <=> ReceiverOpen)
       /\ (Answered' <=> Answered)
  <2>1. Received' = Received
    BY <1>2 DEF Received
  <2> QED BY <1>2, <2>1 DEF Sent, ReceiverOpen, Answered, At
<1>12. (IsWhole(Sent)' <=> IsWhole(Sent)) /\ (IsWhole(Received)' <=> IsWhole(Received))
  <2>1. PICK posted : posted = Sent
    OBVIOUS
  <2>2. PICK taken : taken = Received
    OBVIOUS
  <2>3. /\ posted' = posted /\ taken' = taken
        /\ (IsWhole(posted)' <=> IsWhole(posted)) /\ (IsWhole(taken)' <=> IsWhole(taken))
    BY <1>4
  <2>4. posted = Sent' /\ taken = Received'
    BY <1>11, <2>1, <2>2
  <2> QED BY <2>1, <2>2, <2>3, <2>4 DEF IsWhole
<1>13. Delivered'
  BY <1>1, <1>2, <1>4, <1>9, <1>11, <1>12 DEF Delivered
<1> QED BY <1>5, <1>6, <1>7, <1>8, <1>9, <1>10, <1>13 DEF ResponseInv

LEMMA StepKeeps ==
  ASSUME ResponseInv, [Next]_vars
  PROVE  ResponseInv'
<1>1. CASE Begin
  BY <1>1, BeginStep
<1>2. ASSUME NEW token \in Tokens, Undecoded(token)
      PROVE  ResponseInv'
  BY <1>2, UndecodedStep
<1>3. ASSUME NEW token \in Tokens, Decoded(token)
      PROVE  ResponseInv'
  BY <1>3, DecodedStep
<1>4. CASE FailPass
  BY <1>4, FailPassStep
<1>5. CASE Answer
  BY <1>5, AnswerStep
<1>6. CASE Collect
  BY <1>6, CollectStep
<1>7. CASE StartStream
  BY <1>7, StartStreamStep
<1>8. CASE Relay
  BY <1>8, RelayStep
<1>9. CASE Disconnect
  BY <1>9, DisconnectStep
<1>10. CASE UNCHANGED vars
  BY <1>10, NothingChanges
<1> QED BY <1>1, <1>2, <1>3, <1>4, <1>5, <1>6, <1>7, <1>8, <1>9, <1>10 DEF Next

\* In every reachable state the buffers hold exactly what may begin a marker, the
\* events and the reply carry exactly the text that was let out, and the counter
\* has seen the text so far (engine.rs:961, engine.rs:1049, stop.rs:50).
THEOREM ResponseIsInvariant == Spec => []ResponseInv
<1>1. Init => ResponseInv
  BY StartsSo
<1>2. ResponseInv /\ [Next]_vars => ResponseInv'
  BY StepKeeps
<1> QED BY <1>1, <1>2, PTL DEF Spec

\* The reasoning tokens a reply reports are the chunks up to the one that completes
\* the first closing marker, wherever the marker was split between them: the search
\* that resumes one symbol before the end of the text misses none (engine.rs:64).
THEOREM ReasoningCounted == Spec => []ReasoningIsCounted
<1>1. ResponseInv => ReasoningIsCounted
  <2> SUFFICES ASSUME ResponseInv PROVE ReasoningIsCounted
    OBVIOUS
  <2>1. ResponseTypes /\ Counted
    BY DEF ResponseInv
  <2>2. reasoning.tokens =
          IF ~request.thinking THEN 0
          ELSE IF Closers(decoded) = {} THEN Len(decoded) ELSE Min(Closers(decoded))
    <3>1. reasoning.open \in BOOLEAN /\ request.thinking \in BOOLEAN
      BY <2>1, TypesOfText DEF ResponseTypes
    <3> QED BY <2>1, <3>1 DEF Counted
  <2> QED BY <2>2 DEF ReasoningIsCounted, Closers
<1> QED BY <1>1, ResponseIsInvariant, PTL
-----------------------------------------------------------------------------
(***************************************************************************)
(* What a reply looks like.                                                *)
(***************************************************************************)
Endings == {"calls", "finish", "usage", "[DONE]", "error", "completion"}

\* Nothing but the role and text, yet.
Open ==
  /\ \A kind \in Endings : At(kind) = {}
  /\ request.stream /\ reply # << >> => At("role") = {1}
  /\ ~request.stream => Len(reply) <= 1
Broken ==
  /\ \A kind \in Endings \ {"error"} : At(kind) = {}
  /\ At("error") = {Len(reply)} /\ Len(reply) \in Nat
  /\ request.stream => At("role") = {1}
  /\ ~request.stream => Len(reply) <= 1
Collected ==
  /\ ~request.stream /\ Len(reply) = 1 /\ reply[1] = Completion(Done(Reason))
  /\ \A kind \in Endings \ {"completion"} : At(kind) = {}
  /\ At("completion") = {1}
\* A role and n - 1 text parts, then what ends the stream.
Finished(n, calls, usage) ==
  /\ request.stream /\ n \in Nat \ {0} /\ calls \in 0..1 /\ usage \in 0..1
  /\ Len(reply) = n + calls + usage + 2
  /\ (calls = 0 <=> Calls = << >>) /\ (usage = 1 <=> request.usage)
  /\ At("error") = {} /\ At("completion") = {}
  /\ At("role") = {1} /\ At("text") = 2..n
  /\ At("calls") = (IF calls = 1 THEN {n + 1} ELSE {})
  /\ At("finish") = {n + calls + 1}
  /\ At("usage") = (IF usage = 1 THEN {n + calls + 2} ELSE {})
  /\ At("[DONE]") = {n + calls + usage + 2}
  /\ calls = 1 => reply[n + 1] = CallsPart(Done(Reason))
  /\ reply[n + calls + 1] = FinishPart(Done(Reason))
  /\ usage = 1 => reply[n + calls + 2] = UsagePart(Done(Reason))

LEMMA StreamIsOpen ==
  ASSUME NEW P, reply \in Seq(P), reply = << >> \/ Streams(reply, Len(reply)), request.stream
  PROVE  Open
<1>1. \A i \in DOMAIN reply : reply[i].kind \in {"role", "text"}
  BY StreamGoesOn
<1>2. \A kind \in Endings : At(kind) = {}
  BY <1>1 DEF Endings, At
<1>3. ASSUME reply # << >> PROVE At("role") = {1}
  <2>1. DOMAIN reply = 1..Len(reply) /\ Len(reply) \in Nat \ {0} /\ 1 \in DOMAIN reply
    BY <1>3
  <2>2. \A i \in DOMAIN reply : i # 1 => i \in 2..Len(reply)
    BY <2>1
  <2>3. RolePart.kind = "role" /\ \A p \in TextParts : p.kind = "text"
    BY DEF RolePart, TextParts
  <2>4. reply[1] = RolePart /\ \A i \in 2..Len(reply) : reply[i] \in TextParts
    BY <1>3 DEF Streams
  <2> QED BY <2>1, <2>2, <2>3, <2>4 DEF At
<1> QED BY <1>2, <1>3 DEF Open

LEMMA StreamIsBroken ==
  ASSUME NEW P, reply \in Seq(P), NEW n \in 1..Len(reply), Streams(reply, n),
         ClosesWith(reply, n, <<ErrorPart>>), request.stream
  PROVE  Broken
<1>1. /\ DOMAIN reply = 1..Len(reply) /\ Len(reply) \in Nat /\ Len(reply) = n + 1 /\ n \in Nat \ {0}
      /\ reply[n + 1] = ErrorPart /\ ErrorPart.kind = "error"
  <2>1. Len(<<ErrorPart>>) = 1 /\ <<ErrorPart>>[1] = ErrorPart /\ 1 \in 1..Len(<<ErrorPart>>)
    OBVIOUS
  <2>2. ErrorPart.kind = "error"
    BY DEF ErrorPart
  <2> QED BY <2>1, <2>2 DEF ClosesWith
<1>2. /\ reply[1].kind = "role" /\ \A i \in 2..n : reply[i].kind = "text"
  BY DEF Streams, RolePart, TextParts
<1>3. \A i \in DOMAIN reply : i = 1 \/ i \in 2..n \/ i = n + 1
  BY <1>1
<1>4. 1 \in DOMAIN reply /\ n + 1 \in DOMAIN reply /\ 1 # n + 1 /\ n + 1 \notin 2..n
  BY <1>1
<1>5. \A kind \in Endings \ {"error"} : At(kind) = {}
  BY <1>1, <1>2, <1>3 DEF At, Endings
<1>6. At("error") = {n + 1}
  BY <1>1, <1>2, <1>3, <1>4 DEF At
<1>7. At("role") = {1}
  BY <1>1, <1>2, <1>3, <1>4 DEF At
<1> QED BY <1>1, <1>5, <1>6, <1>7 DEF Broken

LEMMA StreamIsFinished ==
  ASSUME NEW P, reply \in Seq(P), NEW n \in 1..Len(reply), Streams(reply, n), request.stream,
         ClosesWith(reply, n, ChunksOf(Done(Reason))), request.usage \in BOOLEAN
  PROVE  \E calls, usage : Finished(n, calls, usage)
<1>1. PICK event : event = Done(Reason)
  OBVIOUS
<1>2. PICK chunks : chunks = ChunksOf(event)
  OBVIOUS
<1>3. \E calls, usage : ClosingChunks(chunks, event, calls, usage)
  BY <1>1, <1>2, DoneIs, ChunksClose
<1>4. PICK c, u : ClosingChunks(chunks, event, c, u)
  BY <1>3
<1>5. /\ c \in 0..1 /\ u \in 0..1 /\ Len(chunks) = c + u + 2
      /\ c = 1 => chunks[1] = CallsPart(event)
      /\ chunks[c + 1] = FinishPart(event)
      /\ u = 1 => chunks[c + 2] = UsagePart(event)
      /\ chunks[c + u + 2] = EndPart
      /\ c = 0 <=> Calls = << >>
      /\ u = 1 <=> request.usage
  BY <1>1, <1>4, DoneIs DEF ClosingChunks
<1>6. /\ n \in Nat \ {0} /\ Len(reply) = n + Len(chunks)
      /\ \A k \in 1..Len(chunks) : reply[n + k] = chunks[k]
      /\ DOMAIN reply = 1..Len(reply) /\ Len(reply) \in Nat
  BY <1>1, <1>2 DEF ClosesWith
<1>7. Len(reply) = n + c + u + 2
  BY <1>5, <1>6
<1>8. /\ c = 1 => reply[n + 1] = CallsPart(event)
      /\ reply[n + c + 1] = FinishPart(event)
      /\ u = 1 => reply[n + c + 2] = UsagePart(event)
      /\ reply[n + c + u + 2] = EndPart
  <2>1. /\ 1 \in 1..Len(chunks) /\ c + 1 \in 1..Len(chunks) /\ c + u + 2 \in 1..Len(chunks)
        /\ c + 2 \in 1..Len(chunks)
    BY <1>5
  <2>2. /\ n + (c + 1) = n + c + 1 /\ n + (c + 2) = n + c + 2
        /\ n + (c + u + 2) = n + c + u + 2
    BY <1>5, <1>6
  <2> QED BY <1>5, <1>6, <2>1, <2>2
<1>9. /\ CallsPart(event).kind = "calls" /\ FinishPart(event).kind = "finish"
      /\ UsagePart(event).kind = "usage" /\ EndPart.kind = "[DONE]"
  BY DEF CallsPart, FinishPart, UsagePart, EndPart
<1>10. /\ reply[1].kind = "role" /\ \A i \in 2..n : reply[i].kind = "text"
  BY DEF Streams, RolePart, TextParts
<1>11. \A i \in DOMAIN reply :
         \/ i = 1 \/ i \in 2..n \/ (c = 1 /\ i = n + 1) \/ i = n + c + 1
         \/ (u = 1 /\ i = n + c + 2) \/ i = n + c + u + 2
  <2>1. ASSUME NEW i \in 1..(n + c + u + 2)
        PROVE  \/ i = 1 \/ i \in 2..n \/ (c = 1 /\ i = n + 1) \/ i = n + c + 1
               \/ (u = 1 /\ i = n + c + 2) \/ i = n + c + u + 2
    <3>1. (c = 0 \/ c = 1) /\ (u = 0 \/ u = 1) /\ n \in Nat \ {0}
      BY <1>5, <1>6
    <3>2. CASE c = 0 /\ u = 0
      BY <3>1, <3>2
    <3>3. CASE c = 0 /\ u = 1
      BY <3>1, <3>3
    <3>4. CASE c = 1 /\ u = 0
      BY <3>1, <3>4
    <3>5. CASE c = 1 /\ u = 1
      BY <3>1, <3>5
    <3> QED BY <3>1, <3>2, <3>3, <3>4, <3>5
  <2> QED BY <1>6, <1>7, <2>1
<1>12. /\ 1 \in DOMAIN reply /\ n + 1 \in DOMAIN reply /\ n + c + 1 \in DOMAIN reply
       /\ n + c + 2 \in DOMAIN reply /\ n + c + u + 2 \in DOMAIN reply
       /\ \A i \in 2..n : i \in DOMAIN reply
  BY <1>5, <1>6, <1>7
<1>13. /\ c = 1 => reply[n + 1].kind = "calls"
       /\ reply[n + c + 1].kind = "finish"
       /\ u = 1 => reply[n + c + 2].kind = "usage"
       /\ reply[n + c + u + 2].kind = "[DONE]"
  BY <1>8, <1>9
<1>14. At("error") = {} /\ At("completion") = {}
  BY <1>10, <1>11, <1>13 DEF At
<1>15. At("role") = {1}
  BY <1>10, <1>11, <1>12, <1>13 DEF At
<1>16. At("text") = 2..n
  BY <1>10, <1>11, <1>12, <1>13 DEF At
<1>17. At("calls") = (IF c = 1 THEN {n + 1} ELSE {})
  BY <1>5, <1>10, <1>11, <1>12, <1>13 DEF At
<1>18. At("finish") = {n + c + 1}
  BY <1>10, <1>11, <1>12, <1>13 DEF At
<1>19. At("usage") = (IF u = 1 THEN {n + c + 2} ELSE {})
  BY <1>5, <1>10, <1>11, <1>12, <1>13 DEF At
<1>20. At("[DONE]") = {n + c + u + 2}
  BY <1>10, <1>11, <1>12, <1>13 DEF At
<1>21. Finished(n, c, u)
  BY <1>1, <1>5, <1>6, <1>7, <1>8, <1>14, <1>15, <1>16, <1>17, <1>18, <1>19, <1>20 DEF Finished
<1> QED BY <1>21

LEMMA ReplyLooks ==
  ASSUME ResponseTypes, Replying
  PROVE  Open \/ Broken \/ Collected \/ \E n, calls, usage : Finished(n, calls, usage)
<1>1. request.stream \in BOOLEAN /\ request.usage \in BOOLEAN
  BY TypesOfText
<1>2. CASE request.stream
  <2>1. /\ reply \in Seq(Parts)
        /\ \/ reply = << >> \/ Streams(reply, Len(reply))
           \/ \E n \in 1..Len(reply), closing \in Closings :
                Streams(reply, n) /\ ClosesWith(reply, n, closing)
    BY <1>2 DEF Replying, ResponseTypes
  <2>2. CASE reply = << >> \/ Streams(reply, Len(reply))
    BY <1>2, <2>1, <2>2, StreamIsOpen
  <2>3. ASSUME NEW n \in 1..Len(reply), NEW closing \in Closings,
               Streams(reply, n), ClosesWith(reply, n, closing)
        PROVE  Broken \/ \E calls, usage : Finished(n, calls, usage)
    <3>1. CASE closing = <<ErrorPart>>
      BY <1>2, <2>1, <2>3, <3>1, StreamIsBroken
    <3>2. CASE closing = ChunksOf(Done(Reason))
      BY <1>1, <1>2, <2>1, <2>3, <3>2, StreamIsFinished
    <3> QED BY <3>1, <3>2 DEF Closings
  <2> QED BY <2>1, <2>2, <2>3
<1>3. CASE ~request.stream
  <2>1. reply = << >> \/ reply = <<ErrorPart>> \/ reply = <<Completion(Done(Reason))>>
    BY <1>3 DEF Replying
  <2>2. CASE reply = << >>
    <3>1. DOMAIN reply = {} /\ Len(reply) = 0
      BY <2>2
    <3> QED BY <1>3, <3>1 DEF Open, At
  <2>3. CASE reply = <<ErrorPart>>
    <3>1. DOMAIN reply = {1} /\ Len(reply) = 1 /\ reply[1].kind = "error"
      BY <2>3 DEF ErrorPart
    <3>2. \A kind \in Endings \ {"error"} : At(kind) = {}
      BY <3>1 DEF At, Endings
    <3>3. At("error") = {1}
      BY <3>1 DEF At
    <3> QED BY <1>3, <3>1, <3>2, <3>3 DEF Broken
  <2>4. CASE reply = <<Completion(Done(Reason))>>
    <3>1. DOMAIN reply = {1} /\ Len(reply) = 1 /\ reply[1] = Completion(Done(Reason))
      BY <2>4
    <3>2. reply[1].kind = "completion"
      BY <3>1 DEF Completion
    <3>3. \A kind \in Endings \ {"completion"} : At(kind) = {}
      BY <3>1, <3>2 DEF At, Endings
    <3>4. At("completion") = {1}
      BY <3>1, <3>2 DEF At
    <3> QED BY <1>3, <3>1, <3>3, <3>4 DEF Collected
  <2> QED BY <2>1, <2>2, <2>3, <2>4
<1> QED BY <1>1, <1>2, <1>3

UsageNow == [completion_tokens |-> completion_tokens,
             reasoning_tokens |-> IF request.thinking THEN <<reasoning.tokens>> ELSE << >>]

LEMMA UsageIs ==
  /\ UsagePart(Done(Reason)).usage = UsageNow /\ Completion(Done(Reason)).usage = UsageNow
  /\ Completion(Done(Reason)).tool_calls = Calls /\ Completion(Done(Reason)).finish_reason = Reason
  /\ CallsPart(Done(Reason)).tool_calls = Calls /\ FinishPart(Done(Reason)).finish_reason = Reason
BY DEF UsagePart, Completion, Usage, Done, UsageNow, CallsPart, FinishPart

\* A stream opens with the role, and closes with exactly one of an error and a
\* finish chunk that follows the turn's calls and comes before the usage asked for
\* and the end marker; a collected reply is one message; and the usage reported is
\* what the worker counted, at whatever step the client left (http.rs:388, 439).
THEOREM RepliesWellFormed == Spec => []RepliesAreWellFormed
<1>1. ResponseInv => RepliesAreWellFormed
  <2> SUFFICES ASSUME ResponseInv PROVE RepliesAreWellFormed
    OBVIOUS
  <2>1. ResponseTypes /\ Replying
    BY DEF ResponseInv
  <2>2. request.stream \in BOOLEAN /\ request.usage \in BOOLEAN
    BY <2>1, TypesOfText
  <2>3. \A kind : At(kind) \subseteq DOMAIN reply
    BY DEF At
  <2>4. CASE Open
    <3>1. /\ At("finish") = {} /\ At("error") = {} /\ At("completion") = {} /\ At("[DONE]") = {}
          /\ At("usage") = {}
      BY <2>4 DEF Open, Endings
    <3> QED BY <2>4, <3>1 DEF RepliesAreWellFormed, Open
  <2>5. CASE Broken
    <3>1. /\ At("finish") = {} /\ At("completion") = {} /\ At("[DONE]") = {} /\ At("usage") = {}
          /\ At("error") = {Len(reply)}
      BY <2>5 DEF Broken, Endings
    <3> QED BY <2>5, <3>1 DEF RepliesAreWellFormed, Broken
  <2>6. CASE Collected
    <3>1. /\ At("finish") = {} /\ At("error") = {} /\ At("[DONE]") = {} /\ At("usage") = {}
          /\ At("completion") = {1} /\ reply[1].usage = UsageNow
      BY <2>6, UsageIs DEF Collected, Endings
    <3> QED BY <2>6, <3>1 DEF RepliesAreWellFormed, Collected, UsageNow
  <2>7. ASSUME NEW n, NEW c, NEW u, Finished(n, c, u)
        PROVE  RepliesAreWellFormed
    <3>1. /\ n \in Nat \ {0} /\ c \in 0..1 /\ u \in 0..1 /\ request.stream
          /\ Len(reply) = n + c + u + 2
          /\ At("error") = {} /\ At("completion") = {} /\ At("role") = {1} /\ At("text") = 2..n
          /\ At("calls") = (IF c = 1 THEN {n + 1} ELSE {})
          /\ At("finish") = {n + c + 1}
          /\ At("usage") = (IF u = 1 THEN {n + c + 2} ELSE {})
          /\ At("[DONE]") = {n + c + u + 2} /\ (u = 1 <=> request.usage)
          /\ u = 1 => reply[n + c + 2].usage = UsageNow
      BY <2>7, UsageIs DEF Finished
    <3>2. \A i, j \in At("finish") \cup At("error") \cup At("completion") : i = j
      BY <3>1
    <3>3. \A i \in At("error") \cup At("[DONE]") : i = Len(reply)
      BY <3>1
    <3>4. \A i \in At("finish"), j \in At("calls") \cup At("text") : j < i
      BY <3>1
    <3>5. (At("usage") # {}) = (request.usage /\ At("finish") # {})
      BY <2>2, <3>1
    <3>6. \A i \in At("finish"), j \in At("usage") : i < j
      BY <3>1
    <3>7. \A i, j \in At("usage") : i = j
      BY <3>1
    <3>8. \A i \in At("usage") \cup At("completion") : reply[i].usage = UsageNow
      BY <3>1
    <3>9. (At("finish") # {}) = (At("[DONE]") # {})
      BY <3>1
    <3> QED BY <3>1, <3>2, <3>3, <3>4, <3>5, <3>6, <3>7, <3>8, <3>9
            DEF RepliesAreWellFormed, UsageNow
  <2> QED BY <2>1, <2>4, <2>5, <2>6, <2>7, ReplyLooks
<1> QED BY <1>1, ResponseIsInvariant, PTL

\* The reply is what the generated text says, however it was cut into chunks: all of
\* the text before a tool call or a stop sequence and nothing of either, the calls it
\* holds, streamed or collected, and why it ended
\* (stop.rs:50, stop.rs:88, engine.rs:961, engine.rs:1049, http.rs:388, 439).
THEOREM RepliesAreTheOutput == Spec => []ReplyIsTheOutput
<1>1. ResponseInv => ReplyIsTheOutput
  <2> SUFFICES ASSUME ResponseInv PROVE ReplyIsTheOutput
    OBVIOUS
  <2>1. ResponseTypes /\ Replying /\ InOrder /\ Delivered /\ Searched
    BY DEF ResponseInv
  <2>2. /\ Received \in Text /\ Shown \in Text /\ Opening \in Text /\ Opening \o Shown \in Text
    BY <2>1, TextTypes, ShownType, TypesOfText, TextConcat
  <2>3. IsPrefix(Received, Opening \o Shown)
    <3>1. CASE stage = "queued"
      BY <2>1, <2>2, <3>1, PrefixReflexive DEF Delivered
    <3>2. CASE stage \in {"generate", "complete", "error"}
      <4>1. PICK out : out = Out(Pushed, stops.held)
        OBVIOUS
      <4>2. out \in Text /\ IsPrefix(out, Shown)
        BY <2>1, <3>2, <4>1, OutIsShown DEF Searched, Working
      <4>3. IsPrefix(Opening \o out, Opening \o Shown) /\ Opening \o out \in Text
        BY <2>2, <4>2, PrefixAfter, TextConcat
      <4>4. IsPrefix(Received, Opening \o out)
        BY <2>1, <3>2, <4>1 DEF Delivered, LetOut
      <4> QED BY <2>2, <4>3, <4>4, PrefixTransitive
    <3>3. CASE stage \in {"halted", "answered"}
      BY <2>1, <3>3 DEF Delivered
    <3> QED BY <2>1, <3>1, <3>2, <3>3 DEF ResponseTypes
  <2>4. ASSUME Answered
        PROVE  /\ Calls # << >> => At("calls") \cup At("completion") # {}
               /\ \A i \in At("calls") \cup At("completion") : reply[i].tool_calls = Calls
               /\ \A i \in At("finish") \cup At("completion") : reply[i].finish_reason = Reason
    <3>1. ~Open /\ ~Broken
      BY <2>4 DEF Answered, Open, Broken, Endings
    <3>2. CASE Collected
      <4>1. At("finish") = {} /\ At("calls") = {} /\ At("completion") = {1}
        BY <3>2 DEF Collected, Endings
      <4>2. reply[1].tool_calls = Calls /\ reply[1].finish_reason = Reason
        BY <3>2, UsageIs DEF Collected
      <4> QED BY <4>1, <4>2
    <3>3. ASSUME NEW n, NEW c, NEW u, Finished(n, c, u)
          PROVE  /\ Calls # << >> => At("calls") \cup At("completion") # {}
                 /\ \A i \in At("calls") \cup At("completion") : reply[i].tool_calls = Calls
                 /\ \A i \in At("finish") \cup At("completion") : reply[i].finish_reason = Reason
      <4>1. /\ c \in 0..1 /\ (c = 0 <=> Calls = << >>)
            /\ At("completion") = {} /\ At("finish") = {n + c + 1}
            /\ At("calls") = (IF c = 1 THEN {n + 1} ELSE {})
            /\ c = 1 => reply[n + 1].tool_calls = Calls
            /\ reply[n + c + 1].finish_reason = Reason
        BY <3>3, UsageIs DEF Finished
      <4> QED BY <4>1
    <3> QED BY <2>1, <3>1, <3>2, <3>3, ReplyLooks
  <2>5. Answered => IsWhole(Received) /\ (Reason = "length" => completion_tokens = MaxNew)
    BY <2>1 DEF Delivered, Fits
  <2> QED BY <2>3, <2>4, <2>5 DEF ReplyIsTheOutput
<1> QED BY <1>1, ResponseIsInvariant, PTL

(***************************************************************************)
(* The types of texts: what is cut out of a text is one, and so is what is *)
(* made of texts.                                                          *)
(***************************************************************************)
LEMMA Cut ==
  ASSUME NEW S, NEW s \in Seq(S), NEW i \in Nat \ {0}, NEW j \in Int, j <= Len(s)
  PROVE  SubSeq(s, i, j) \in Seq(S) /\ Len(SubSeq(s, i, j)) = IF i <= j THEN j - i + 1 ELSE 0
OBVIOUS

LEMMA CutText ==
  ASSUME NEW text \in Text, NEW i \in Nat \ {0}, NEW j \in Int, j <= Len(text)
  PROVE  SubSeq(text, i, j) \in Text /\ Len(SubSeq(text, i, j)) = IF i <= j THEN j - i + 1 ELSE 0
BY Cut DEF Text

LEMMA FromText ==
  ASSUME NEW text \in Text, NEW i \in Nat \ {0}
  PROVE  From(text, i) \in Text
         /\ Len(From(text, i)) = IF i <= Len(text) THEN Len(text) - i + 1 ELSE 0
BY CutText, LenOfText DEF From

LEMMA BeforeText ==
  ASSUME NEW text \in Text, NEW i \in 0..(Len(text) + 1)
  PROVE  Before(text, i) \in Text
<1>1. i - 1 \in Int /\ i - 1 <= Len(text) /\ 1 \in Nat \ {0}
  BY LenOfText
<1> QED BY <1>1, CutText DEF Before

LEMMA FoundAt ==
  ASSUME NEW text \in Text, NEW pattern \in Text, pattern # << >>
  PROVE  /\ Occurrences(text, pattern) \in SUBSET (0..Len(text))
         /\ \A i \in Occurrences(text, pattern) : i \in 1..Len(text) /\ i + Len(pattern) - 1 <= Len(text)
BY OccurrencesBegin, LenOfText DEF Begins

LEMMA FindType ==
  ASSUME NEW text \in Text, NEW pattern \in Text, pattern # << >>
  PROVE  /\ Find(text, pattern) \in 0..Len(text)
         /\ Find(text, pattern) # 0 => Find(text, pattern) + Len(pattern) - 1 <= Len(text)
         /\ Find(text, pattern) # 0 <=> Occurs(text, pattern)
<1>1. PICK O : O = Occurrences(text, pattern)
  OBVIOUS
<1>2. O \in SUBSET (0..Len(text)) /\ O \in SUBSET Nat /\ Len(text) \in Nat
      /\ \A i \in O : i \in 1..Len(text) /\ i + Len(pattern) - 1 <= Len(text)
  BY <1>1, FoundAt, LenOfText
<1>3. CASE O = {}
  BY <1>1, <1>2, <1>3 DEF Find, Occurs
<1>4. CASE O # {}
  <2>1. Min(O) \in O
    BY <1>2, <1>4, MinIsLeast
  <2> QED BY <1>1, <1>2, <1>4, <2>1 DEF Find, Occurs
<1> QED BY <1>3, <1>4

LEMMA FindLastType ==
  ASSUME NEW text \in Text, NEW pattern \in Text, pattern # << >>
  PROVE  FindLast(text, pattern) \in 0..Len(text)
<1>1. PICK O : O = Occurrences(text, pattern)
  OBVIOUS
<1>2. O \in SUBSET (0..Len(text)) /\ Len(text) \in Nat
  BY <1>1, FoundAt, LenOfText
<1>3. CASE O = {}
  BY <1>1, <1>2, <1>3 DEF FindLast, Occurs
<1>4. CASE O # {}
  <2>1. Max(O) \in O
    BY <1>2, <1>4, MaxIsGreatest
  <2> QED BY <1>1, <1>2, <1>4, <2>1 DEF FindLast, Occurs
<1> QED BY <1>3, <1>4

LEMMA PastText ==
  ASSUME NEW text \in Text, NEW i \in Nat, NEW pattern \in Text, pattern # << >>
  PROVE  Past(text, i, pattern) \in Text
         /\ Len(Past(text, i, pattern)) = IF i + Len(pattern) <= Len(text)
                                          THEN Len(text) - (i + Len(pattern)) + 1 ELSE 0
<1>1. i + Len(pattern) \in Nat \ {0}
  BY LenOfText
<1> QED BY <1>1, FromText DEF Past

LEMMA TrimText ==
  ASSUME NEW text \in Text
  PROVE  TrimStart(text) \in Text /\ TrimEnd(text) \in Text
<1>1. PICK N \in Nat : N = Len(text)
  BY LenOfText
<1>2. PICK O : O = Inked(text)
  OBVIOUS
<1>3. DOMAIN text = 1..N
  BY <1>1 DEF Text
<1>4. O \in SUBSET (0..N) /\ O \in SUBSET Nat /\ \A i \in O : i \in 1..N
  BY <1>2, <1>3 DEF Inked
<1>5. << >> \in Text
  BY TextNothing
<1>6. CASE O = {}
  BY <1>2, <1>5, <1>6 DEF TrimStart, TrimEnd
<1>7. CASE O # {}
  <2>1. Min(O) \in O /\ Max(O) \in O
    BY <1>4, <1>7, MinIsLeast, MaxIsGreatest
  <2>2. Min(O) \in Nat \ {0} /\ Max(O) \in Int /\ Max(O) <= Len(text) /\ 1 \in Nat \ {0}
    <3>1. Min(O) \in 1..N /\ Max(O) \in 1..N
      BY <1>4, <2>1
    <3> QED BY <1>1, <3>1
  <2> QED BY <1>2, <1>7, <2>2, FromText, CutText DEF TrimStart, TrimEnd
<1> QED BY <1>6, <1>7

LEMMA TrimType ==
  ASSUME NEW text \in Text
  PROVE  Trim(text) \in Text
BY TrimText DEF Trim

\* The markers are texts.
LEMMA MarkerTexts ==
  /\ {CALL_OPEN, CALL_CLOSE, FUNCTION_OPEN, FUNCTION_CLOSE, PARAMETER_OPEN, PARAMETER_CLOSE, TAG_END,
      THINK, END_THINK, TOOL_RESPONSE, END_TOOL_RESPONSE, IM_START, IM_END} \subseteq Text \ {<< >>}
<1>1. ASSUME NEW S, NEW a \in S PROVE <<a>> \in Seq(S) /\ <<a>> # << >>
  OBVIOUS
<1>2. ASSUME NEW S, NEW a \in S, NEW b \in S PROVE <<a, b>> \in Seq(S) /\ <<a, b>> # << >>
  OBVIOUS
<1>3. /\ "<" \in Symbols /\ "tool_call>" \in Symbols /\ "/tool_call>" \in Symbols
      /\ "<function=" \in Symbols /\ "</function>" \in Symbols /\ "<parameter=" \in Symbols
      /\ "</parameter>" \in Symbols /\ ">" \in Symbols /\ "<think>" \in Symbols
      /\ "/think>" \in Symbols /\ "<tool_response>" \in Symbols /\ "</tool_response>" \in Symbols
      /\ "<|im_start|>" \in Symbols /\ "<|im_end|>" \in Symbols /\ "\n" \in Symbols
  BY DEF Symbols
<1>4. /\ FUNCTION_OPEN \in Text \ {<< >>} /\ FUNCTION_CLOSE \in Text \ {<< >>}
      /\ PARAMETER_OPEN \in Text \ {<< >>} /\ PARAMETER_CLOSE \in Text \ {<< >>}
      /\ TAG_END \in Text \ {<< >>} /\ THINK \in Text \ {<< >>}
      /\ TOOL_RESPONSE \in Text \ {<< >>} /\ END_TOOL_RESPONSE \in Text \ {<< >>}
      /\ IM_START \in Text \ {<< >>}
  BY <1>1, <1>3 DEF Text, FUNCTION_OPEN, FUNCTION_CLOSE, PARAMETER_OPEN, PARAMETER_CLOSE, TAG_END,
       THINK, TOOL_RESPONSE, END_TOOL_RESPONSE, IM_START
<1>5. /\ CALL_OPEN \in Text \ {<< >>} /\ CALL_CLOSE \in Text \ {<< >>}
      /\ END_THINK \in Text \ {<< >>} /\ IM_END \in Text \ {<< >>}
  BY <1>2, <1>3 DEF Text, CALL_OPEN, CALL_CLOSE, END_THINK, IM_END
<1> QED BY <1>4, <1>5

LEMMA SymbolText ==
  ASSUME NEW a \in Symbols
  PROVE  <<a>> \in Text
BY DEF Text

LEMMA PairText ==
  ASSUME NEW a \in Symbols, NEW b \in Symbols
  PROVE  <<a, b>> \in Text
BY DEF Text

\* What is done to each symbol, or each part, and made one.
LEMMA MappedText ==
  ASSUME NEW n \in Nat, NEW f, \A i \in 1..n : f[i] \in Text, f = [i \in 1..n |-> f[i]]
  PROVE  f \in Seq(Text) /\ Len(f) = n /\ FlattenSeq(f) \in Text
<1>1. f \in Seq(Text) /\ Len(f) = n
  OBVIOUS
<1> QED BY <1>1, FlattenType

LEMMA JsonStringType ==
  ASSUME NEW text \in Text
  PROVE  JsonString(text) \in Text
<1>1. PICK n \in Nat : n = Len(text)
  BY LenOfText
<1>2. PICK f : f = [i \in DOMAIN text |-> Escaped(text[i])]
  OBVIOUS
<1>3. DOMAIN text = 1..n /\ \A i \in 1..n : text[i] \in Symbols
  BY <1>1 DEF Text
<1>4. /\ ESCAPE \in Symbols /\ "n" \in Symbols /\ QUOTE \in Symbols
  BY DEF Symbols, ESCAPE, QUOTE
<1>5. ASSUME NEW a \in Symbols PROVE Escaped(a) \in Text
  BY <1>4, SymbolText, PairText DEF Escaped
<1>6. f = [i \in 1..n |-> f[i]] /\ \A i \in 1..n : f[i] \in Text
  BY <1>2, <1>3, <1>5
<1>7. FlattenSeq(f) \in Text
  BY <1>6, MappedText
<1>8. <<QUOTE>> \in Text
  BY <1>4, SymbolText
<1> QED BY <1>2, <1>7, <1>8, TextConcat DEF JsonString

LEMMA JoinedType ==
  ASSUME NEW parts \in Seq(Text), NEW separator \in Text
  PROVE  Joined(parts, separator) \in Text
<1>1. PICK n \in Nat : n = Len(parts)
  OBVIOUS
<1>2. PICK f : f = [i \in DOMAIN parts |-> IF i = 1 THEN parts[i] ELSE separator \o parts[i]]
  OBVIOUS
<1>3. DOMAIN parts = 1..n /\ \A i \in 1..n : parts[i] \in Text
  BY <1>1
<1>4. \A i \in 1..n : separator \o parts[i] \in Text
  BY <1>3, TextConcat
<1>5. f = [i \in 1..n |-> f[i]] /\ \A i \in 1..n : f[i] \in Text
  BY <1>2, <1>3, <1>4
<1> QED BY <1>2, <1>5, MappedText DEF Joined

-----------------------------------------------------------------------------
(***************************************************************************)
(* Scans stay in the text and move on.                                     *)
(***************************************************************************)
\* What a scan from a position may answer: nothing, or a later position.
Later(text, at) == {0} \cup (at + 1)..(Len(text) + 1)

LEMMA SymbolAt ==
  ASSUME NEW text \in Text, NEW at \in Nat
  PROVE  /\ Symbol(text, at) \in Symbols \cup {"end"}
         /\ at \notin 1..Len(text) => Symbol(text, at) = "end"
         /\ at \in 1..Len(text) => Symbol(text, at) = text[at] /\ text[at] \in Symbols
<1>1. DOMAIN text = 1..Len(text) /\ \A i \in 1..Len(text) : text[i] \in Symbols
  BY DEF Text
<1> QED BY <1>1 DEF Symbol

LEMMA SkipType ==
  ASSUME NEW text \in Text, NEW at \in Nat, at <= Len(text) + 1
  PROVE  SkipWhitespace(text, at) \in at..(Len(text) + 1)
<1>1. PICK n \in Nat : n = Len(text)
  BY LenOfText
<1>2. PICK T : T = {i \in at..(n + 1) : Symbol(text, i) \notin Space}
  OBVIOUS
<1>3. n + 1 \in T
  <2>1. n + 1 \in Nat /\ n + 1 \notin 1..Len(text) /\ n + 1 \in at..(n + 1)
    BY <1>1
  <2>2. Symbol(text, n + 1) = "end"
    BY <2>1, SymbolAt
  <2> QED BY <1>2, <2>1, <2>2 DEF Space
<1>4. T \in SUBSET Nat /\ T # {} /\ T \subseteq at..(n + 1)
  BY <1>2, <1>3
<1>5. Min(T) \in T
  BY <1>4, MinIsLeast
<1> QED BY <1>1, <1>2, <1>4, <1>5 DEF SkipWhitespace

LEMMA ScanStringType ==
  ASSUME NEW text \in Text, NEW at \in Nat, at <= Len(text) + 1
  PROVE  ScanString(text, at) \in Later(text, at)
<1>1. PICK n \in Nat : n = Len(text)
  BY LenOfText
<1>m. PICK m \in Nat : m = n + 2
  OBVIOUS
<1>v. PICK V : V = 0..(n + 1)
  OBVIOUS
<1> DEFINE S == 1..m
           body(i, g) == CASE Symbol(text, i) = "end" -> 0
                           [] Symbol(text, i) = ESCAPE -> g[i + 2]
                           [] Symbol(text, i) = QUOTE -> i + 1
                           [] OTHER -> g[i + 1]
<1>2. PICK step : step = [i \in S |-> [g \in [S -> V] |-> body(i, g)]]
  OBVIOUS
<1>3. PICK Good : Good = [i \in S |-> {0} \cup (i + 1)..(n + 1)]
  OBVIOUS
<1>4. ASSUME NEW i \in S, Symbol(text, i) # "end"
      PROVE  i \in 1..n /\ i + 1 \in (i + 1)..m /\ i + 2 \in (i + 1)..m
             /\ i + 1 \in S /\ i + 2 \in S /\ i + 1 \in V
  <2>1. i \in 1..n
    BY <1>1, <1>4, SymbolAt
  <2> QED BY <1>m, <1>v, <2>1
<1>5. ASSUME NEW i \in S, NEW g \in [S -> V] PROVE body(i, g) \in V
  <2>1. CASE Symbol(text, i) = "end"
    BY <1>v, <2>1 DEF ESCAPE, QUOTE
  <2>2. CASE Symbol(text, i) # "end"
    <3>1. g[i + 1] \in V /\ g[i + 2] \in V /\ i + 1 \in V
      BY <1>4, <2>2
    <3> QED BY <2>2, <3>1
  <2> QED BY <2>1, <2>2
<1>6. IsStep(step, S, V)
  BY <1>2, <1>5 DEF IsStep
<1>7. ASSUME NEW i \in S, NEW g \in [S -> V] PROVE step[i][g] = body(i, g)
  BY <1>2
<1>b. ASSUME NEW i \in S, NEW f, NEW g, AgreeOn(f, g, (i + 1)..m)
      PROVE  body(i, f) = body(i, g)
  <2>1. CASE Symbol(text, i) = "end"
    BY <2>1 DEF ESCAPE, QUOTE
  <2>2. CASE Symbol(text, i) # "end"
    <3>1. f[i + 1] = g[i + 1] /\ f[i + 2] = g[i + 2]
      BY <1>4, <1>b, <2>2 DEF AgreeOn
    <3> QED BY <3>1
  <2> QED BY <2>1, <2>2
<1>8. LooksLater(step, 1, m, V)
  <2> HIDE DEF body
  <2> QED BY <1>7, <1>b DEF LooksLater
<1>9. KeepsLater(step, Good, 1, m, V)
  <2> SUFFICES ASSUME NEW i \in S, NEW f \in [S -> V], \A y \in (i + 1)..m : f[y] \in Good[y]
               PROVE  step[i][f] \in Good[i]
    BY DEF KeepsLater
  <2>1. CASE Symbol(text, i) = "end"
    <3>1. body(i, f) = 0
      BY <2>1 DEF ESCAPE, QUOTE
    <3> HIDE DEF body
    <3> QED BY <1>3, <1>7, <3>1
  <2>2. CASE Symbol(text, i) # "end"
    <3>1. i \in 1..n /\ f[i + 1] \in Good[i + 1] /\ f[i + 2] \in Good[i + 2] /\ i + 1 \in S /\ i + 2 \in S
      BY <1>4, <2>2
    <3>2. f[i + 1] \in Good[i] /\ f[i + 2] \in Good[i] /\ i + 1 \in Good[i]
      BY <1>3, <3>1
    <3>3. body(i, f) \in Good[i]
      BY <2>2, <3>2
    <3> HIDE DEF body
    <3> QED BY <1>7, <3>3
  <2> QED BY <2>1, <2>2
<1>10. PICK f \in [S -> V] : \A i \in S : f[i] = step[i][f] /\ f[i] \in Good[i]
  <2>1. 1 \in Nat /\ 0 \in V
    BY <1>v
  <2>2. SolvedLater(step, Good, 1, m, V)
    BY <1>6, <1>8, <1>9, <2>1, LaterRecursion
  <2> QED BY <2>2 DEF SolvedLater
<1>11. f = [i \in S |-> body(i, f)]
  <2>1. f = [i \in S |-> f[i]]
    OBVIOUS
  <2>2. \A i \in S : f[i] = body(i, f)
    BY <1>7, <1>10
  <2> HIDE DEF body
  <2> QED BY <2>1, <2>2, Zenon
<1>12. \E e : e = [i \in S |-> body(i, e)]
  BY <1>11
<1>13. PICK e : e = [i \in S |-> body(i, e)] /\ ScanString(text, at) = e[at + 1]
  BY <1>1, <1>m, <1>12 DEF ScanString
<1>14. ASSUME NEW i \in S, AgreeOn(e, f, (i + 1)..m) PROVE e[i] = f[i]
  <2>1. e[i] = body(i, e)
    <3> HIDE DEF body
    <3> QED BY <1>13
  <2>2. f[i] = body(i, f) /\ body(i, e) = body(i, f)
    <3> HIDE DEF body
    <3> QED BY <1>7, <1>10, <1>14, <1>b
  <2> QED BY <2>1, <2>2
<1>15. AgreeOn(e, f, S)
  <2>1. \A i \in 1..m : AgreeOn(e, f, (i + 1)..m) => e[i] = f[i]
    BY <1>14
  <2>2. 1 \in Nat
    OBVIOUS
  <2> QED BY <2>1, <2>2, AgreeLater
<1>16. at + 1 \in S
  BY <1>1, <1>m
<1>17. ScanString(text, at) \in Good[at + 1]
  BY <1>10, <1>13, <1>15, <1>16 DEF AgreeOn
<1>18. Good[at + 1] \subseteq Later(text, at)
  BY <1>1, <1>3, <1>16 DEF Later
<1> QED BY <1>17, <1>18

LEMMA BracketSymbols ==
  /\ OpenBrackets \cap CloseBrackets = {} /\ "end" \notin OpenBrackets \cup CloseBrackets \cup {QUOTE}
  /\ QUOTE \notin OpenBrackets \cup CloseBrackets
  /\ \A open \in OpenBrackets : Closing[open] \in CloseBrackets
<1>1. OpenBrackets \cap CloseBrackets = {}
  BY Zenon DEF OpenBrackets, CloseBrackets
<1>2. "end" \notin OpenBrackets \cup CloseBrackets \cup {QUOTE} /\ QUOTE \notin OpenBrackets \cup CloseBrackets
  BY Zenon DEF OpenBrackets, CloseBrackets, QUOTE
<1>3. \A open \in OpenBrackets : Closing[open] \in CloseBrackets
  BY Zenon DEF OpenBrackets, CloseBrackets, Closing
<1> QED BY <1>1, <1>2, <1>3

LEMMA ScanContainerType ==
  ASSUME NEW text \in Text, NEW at \in Nat \ {0}, at <= Len(text) + 1
  PROVE  ScanContainer(text, at) \in Later(text, at)
<1>1. PICK n \in Nat : n = Len(text)
  BY LenOfText
<1>m. PICK m \in Nat : m = n + 1
  OBVIOUS
<1>c. PICK C : C = CloseBrackets
  OBVIOUS
<1>b. PICK B : B = Seq(C)
  OBVIOUS
<1>d. ASSUME NEW x \in B
      PROVE  /\ x # << >> => Head(x) \in C /\ Tail(x) \in B
             /\ \A a \in C : <<a>> \o x \in B
  <2>1. ASSUME NEW s \in Seq(C), s # << >> PROVE Head(s) \in C /\ Tail(s) \in Seq(C)
    BY <2>1
  <2>2. ASSUME NEW s \in Seq(C), NEW a \in C PROVE <<a>> \o s \in Seq(C)
    OBVIOUS
  <2> QED BY <1>b, <2>1, <2>2
<1>v. PICK V : V = [B -> 0..m]
  OBVIOUS
<1> DEFINE S == 1..m
           value(i, g, expected) ==
             LET symbol == Symbol(text, i)
                 closes == expected # << >> /\ symbol = Head(expected)
             IN CASE symbol = "end" -> 0
                  [] symbol = QUOTE -> IF ScanString(text, i) = 0 THEN 0
                                       ELSE g[ScanString(text, i)][expected]
                  [] symbol \in OpenBrackets -> g[i + 1][<<Closing[symbol]>> \o expected]
                  [] symbol \in CloseBrackets /\ ~closes -> 0
                  [] closes /\ Len(expected) = 1 -> i + 1
                  [] closes /\ Len(expected) > 1 -> g[i + 1][Tail(expected)]
                  [] OTHER -> g[i + 1][expected]
           body(i, g) == [expected \in B |-> value(i, g, expected)]
<1>2. PICK step : step = [i \in S |-> [g \in [S -> V] |-> body(i, g)]]
  OBVIOUS
<1>3. PICK Good : Good = [i \in S |-> [B -> Later(text, i)]]
  OBVIOUS
<1>4. ASSUME NEW i \in S, Symbol(text, i) # "end"
      PROVE  /\ i \in 1..n /\ i + 1 \in (i + 1)..m /\ i + 1 \in S
             /\ ScanString(text, i) # 0 => ScanString(text, i) \in (i + 1)..m /\ ScanString(text, i) \in S
             /\ Later(text, i + 1) \subseteq Later(text, i)
             /\ ScanString(text, i) # 0 => Later(text, ScanString(text, i)) \subseteq Later(text, i)
  <2>1. i \in 1..n /\ i <= Len(text) + 1
    BY <1>1, <1>m, <1>4, SymbolAt
  <2>2. ScanString(text, i) \in Later(text, i)
    BY <1>1, <2>1, ScanStringType
  <2> QED BY <1>1, <1>m, <2>1, <2>2 DEF Later
<1>5. ASSUME NEW i \in S, Symbol(text, i) # "end", NEW g, NEW x \in B
      PROVE  \/ value(i, g, x) \in {0, i + 1}
             \/ ScanString(text, i) # 0 /\ value(i, g, x) = g[ScanString(text, i)][x]
             \/ \E y \in B : value(i, g, x) = g[i + 1][y]
  <2>1. PICK symbol : symbol = Symbol(text, i)
    OBVIOUS
  <2>2. symbol \in OpenBrackets => <<Closing[symbol]>> \o x \in B
    <3>1. symbol \in OpenBrackets => Closing[symbol] \in CloseBrackets
      BY BracketSymbols
    <3> QED BY <1>c, <1>d, <3>1
  <2>3. x # << >> => Tail(x) \in B /\ Head(x) \in CloseBrackets
    BY <1>c, <1>d
  <2>4. CASE symbol = QUOTE
    BY <2>1, <2>3, <2>4, BracketSymbols
  <2>5. CASE symbol \in OpenBrackets
    BY <2>1, <2>2, <2>3, <2>5, BracketSymbols
  <2>6. CASE symbol \in CloseBrackets /\ ~(x # << >> /\ symbol = Head(x))
    BY <2>1, <2>3, <2>6, BracketSymbols
  <2>7. CASE x # << >> /\ symbol = Head(x)
    <3>1. Len(x) \in Nat /\ Len(x) # 0
      <4>1. \A s \in Seq(C) : Len(s) \in Nat /\ (s # << >> => Len(s) # 0)
        OBVIOUS
      <4> QED BY <1>b, <2>7, <4>1
    <3>2. /\ symbol # "end" /\ symbol # QUOTE /\ symbol \notin OpenBrackets
          /\ symbol = Head(x) /\ x # << >>
      BY <2>3, <2>7, BracketSymbols
    <3>3. CASE Len(x) = 1
      <4>1. value(i, g, x) = i + 1
        BY <2>1, <3>2, <3>3
      <4> QED BY <4>1
    <3>4. CASE Len(x) # 1
      <4>1. value(i, g, x) = g[i + 1][Tail(x)]
        <5>1. Len(x) > 1 /\ ~(Len(x) = 1)
          <6>1. \A k \in Nat : k # 0 /\ k # 1 => k > 1 /\ ~(k = 1)
            OBVIOUS
          <6> QED BY <3>1, <3>4, <6>1
        <5> QED BY <2>1, <3>2, <5>1
      <4> QED BY <2>3, <3>2, <4>1
    <3> QED BY <3>3, <3>4
  <2>8. CASE /\ symbol # QUOTE /\ symbol \notin OpenBrackets /\ symbol \notin CloseBrackets
             /\ ~(x # << >> /\ symbol = Head(x))
    BY <1>5, <2>1, <2>8
  <2> QED BY <2>4, <2>5, <2>6, <2>7, <2>8
<1>6. ASSUME NEW i \in S, NEW g, NEW x \in B, Symbol(text, i) = "end"
      PROVE  value(i, g, x) = 0
  <2>1. x # << >> => Head(x) \in CloseBrackets
    BY <1>c, <1>d
  <2> QED BY <1>6, <2>1, BracketSymbols
<1>7. ASSUME NEW i \in S, NEW f, NEW g, AgreeOn(f, g, (i + 1)..m)
      PROVE  body(i, f) = body(i, g)
  <2>1. ASSUME NEW x \in B PROVE value(i, f, x) = value(i, g, x)
    <3>1. CASE Symbol(text, i) = "end"
      <4> HIDE DEF value
      <4> QED BY <1>6, <3>1
    <3>2. CASE Symbol(text, i) # "end"
      <4>1. f[i + 1] = g[i + 1]
            /\ (ScanString(text, i) # 0 => f[ScanString(text, i)] = g[ScanString(text, i)])
        BY <1>4, <1>7, <3>2 DEF AgreeOn
      <4> QED BY <4>1
    <3> QED BY <3>1, <3>2
  <2> HIDE DEF value
  <2> QED BY <2>1
<1> HIDE DEF value
<1>8. ASSUME NEW i \in S, NEW g \in [S -> V] PROVE body(i, g) \in V
  <2>1. ASSUME NEW x \in B PROVE value(i, g, x) \in 0..m
    <3>1. CASE Symbol(text, i) = "end"
      BY <1>6, <3>1
    <3>2. CASE Symbol(text, i) # "end"
      <4>1. \A y \in B : g[i + 1][y] \in 0..m
        BY <1>v, <1>4, <3>2
      <4>2. ScanString(text, i) # 0 => g[ScanString(text, i)][x] \in 0..m
        BY <1>v, <1>4, <3>2
      <4> QED BY <1>4, <1>5, <1>m, <3>2, <4>1, <4>2
    <3> QED BY <3>1, <3>2
  <2> QED BY <1>v, <2>1
<1>9. ASSUME NEW i \in S, NEW g \in [S -> V] PROVE step[i][g] = body(i, g)
  BY <1>2
<1>10. IsStep(step, S, V)
  BY <1>2, <1>8 DEF IsStep
<1>11. LooksLater(step, 1, m, V)
  <2> HIDE DEF body
  <2> QED BY <1>7, <1>9 DEF LooksLater
<1>12. KeepsLater(step, Good, 1, m, V)
  <2> SUFFICES ASSUME NEW i \in S, NEW f \in [S -> V], \A y \in (i + 1)..m : f[y] \in Good[y]
               PROVE  step[i][f] \in Good[i]
    BY DEF KeepsLater
  <2>1. ASSUME NEW x \in B PROVE value(i, f, x) \in Later(text, i)
    <3>1. CASE Symbol(text, i) = "end"
      BY <1>6, <3>1 DEF Later
    <3>2. CASE Symbol(text, i) # "end"
      <4>1. f[i + 1] \in [B -> Later(text, i + 1)]
        BY <1>3, <1>4, <3>2
      <4>2. ScanString(text, i) # 0 => f[ScanString(text, i)] \in [B -> Later(text, ScanString(text, i))]
        BY <1>3, <1>4, <3>2
      <4>3. \A y \in B : f[i + 1][y] \in Later(text, i)
        BY <1>4, <3>2, <4>1
      <4>4. ScanString(text, i) # 0 => f[ScanString(text, i)][x] \in Later(text, i)
        BY <1>4, <3>2, <4>2
      <4>5. {0, i + 1} \subseteq Later(text, i)
        BY <1>1, <1>4, <1>m, <3>2 DEF Later
      <4> QED BY <1>5, <3>2, <4>3, <4>4, <4>5
    <3> QED BY <3>1, <3>2
  <2>2. body(i, f) \in Good[i]
    BY <1>3, <2>1
  <2> HIDE DEF body
  <2> QED BY <1>9, <2>2
<1>13. PICK f \in [S -> V] : \A i \in S : f[i] = step[i][f] /\ f[i] \in Good[i]
  <2>1. 1 \in Nat /\ [x \in B |-> 0] \in V
    BY <1>v
  <2>2. SolvedLater(step, Good, 1, m, V)
    BY <1>10, <1>11, <1>12, <2>1, LaterRecursion
  <2> QED BY <2>2 DEF SolvedLater
<1> HIDE DEF body
<1>14. f = [i \in S |-> body(i, f)]
  <2>1. f = [i \in S |-> f[i]]
    OBVIOUS
  <2>2. \A i \in S : f[i] = body(i, f)
    BY <1>9, <1>13
  <2> QED BY <2>1, <2>2, Zenon
<1>15. \E e : e = [i \in S |-> body(i, e)]
  BY <1>14
<1>16. PICK e : e = [i \in S |-> body(i, e)] /\ ScanContainer(text, at) = e[at][<< >>]
  <2>1. 1..m = 1..(Len(text) + 1) /\ B = Seq(CloseBrackets)
    BY <1>1, <1>b, <1>c, <1>m
  <2> DEFINE positions == 1..(Len(text) + 1)
             stacks == Seq(CloseBrackets)
             table(e) == [i \in positions |-> [expected \in stacks |-> value(i, e, expected)]]
  <2>2. ScanContainer(text, at) = (CHOOSE e : e = table(e))[at][<< >>]
    BY DEF ScanContainer, value
  <2>3. \A e : table(e) = [i \in S |-> body(i, e)]
    BY <2>1 DEF body
  <2> HIDE DEF table
  <2>4. \E e : e = table(e)
    BY <1>15, <2>3
  <2>5. PICK e : e = CHOOSE d : d = table(d)
    OBVIOUS
  <2>6. e = table(e)
    BY <2>4, <2>5
  <2> QED BY <2>2, <2>3, <2>5, <2>6
<1>17. ASSUME NEW i \in S, AgreeOn(e, f, (i + 1)..m) PROVE e[i] = f[i]
  <2>1. e[i] = body(i, e)
    BY <1>16
  <2>2. f[i] = body(i, f) /\ body(i, e) = body(i, f)
    BY <1>7, <1>9, <1>13, <1>17
  <2> QED BY <2>1, <2>2
<1>18. AgreeOn(e, f, 1..m)
  <2>1. \A i \in 1..m : AgreeOn(e, f, (i + 1)..m) => e[i] = f[i]
    BY <1>17
  <2>2. 1 \in Nat
    OBVIOUS
  <2> QED BY <2>1, <2>2, AgreeLater
<1>19. at \in S /\ << >> \in B
  <2>1. << >> \in Seq(C)
    OBVIOUS
  <2> QED BY <1>1, <1>b, <1>m, <2>1
<1>20. e[at] \in [B -> Later(text, at)]
  BY <1>3, <1>13, <1>18, <1>19 DEF AgreeOn
<1> QED BY <1>16, <1>19, <1>20

LEMMA ScanValueType ==
  ASSUME NEW text \in Text, NEW at \in Nat \ {0}, at <= Len(text) + 1
  PROVE  ScanValue(text, at) \in Later(text, at)
<1>1. PICK n \in Nat : n = Len(text)
  BY LenOfText
<1>2. PICK T : T = {i \in at..(Len(text) + 1) :
                      Symbol(text, i) \in {",", "}", "]", "end"} \cup Space}
  OBVIOUS
<1>3. ScanString(text, at) \in Later(text, at) /\ ScanContainer(text, at) \in Later(text, at)
  BY ScanStringType, ScanContainerType
<1>4. (IF T = {} \/ Min(T) = at THEN 0 ELSE Min(T)) \in Later(text, at)
  <2>1. T \subseteq at..(n + 1) /\ T \in SUBSET Nat
    <3>1. T \subseteq at..(Len(text) + 1)
      BY <1>2, Zenon
    <3> QED BY <1>1, <3>1
  <2>2. T # {} => Min(T) \in at..(n + 1)
    BY <2>1, MinIsLeast
  <2> QED BY <1>1, <2>2 DEF Later
<1>5. \/ ScanValue(text, at) = ScanString(text, at)
      \/ ScanValue(text, at) = ScanContainer(text, at)
      \/ ScanValue(text, at) = IF T = {} \/ Min(T) = at THEN 0 ELSE Min(T)
  <2>1. CASE Symbol(text, at) = QUOTE
    BY <2>1, BracketSymbols, Zenon DEF ScanValue
  <2>2. CASE Symbol(text, at) # QUOTE /\ Symbol(text, at) \in OpenBrackets
    BY <2>2, Zenon DEF ScanValue
  <2>3. CASE Symbol(text, at) # QUOTE /\ Symbol(text, at) \notin OpenBrackets
    BY <1>2, <2>3, Zenon DEF ScanValue
  <2> QED BY <2>1, <2>2, <2>3
<1> QED BY <1>3, <1>4, <1>5

LEMMA ContentsType ==
  ASSUME NEW literal \in Text, literal # << >>
  PROVE  Contents(literal) \in Text
<1>1. PICK m \in Nat : m = Len(literal) + 1 /\ m >= 2
  BY LenOfText
<1>v. PICK V : V = Text
  OBVIOUS
<1> DEFINE S == 2..m
           first(i) == IF literal[i + 1] = "n" THEN "\n" ELSE literal[i + 1]
           body(i, g) == CASE i >= Len(literal) -> << >>
                           [] i < Len(literal) /\ literal[i] = ESCAPE -> <<first(i)>> \o g[i + 2]
                           [] OTHER -> <<literal[i]>> \o g[i + 1]
<1>2. PICK step : step = [i \in S |-> [g \in [S -> V] |-> body(i, g)]]
  OBVIOUS
<1>3. PICK Good : Good = [i \in S |-> V]
  OBVIOUS
<1>4. ASSUME NEW i \in S, ~(i >= Len(literal))
      PROVE  /\ i + 1 \in (i + 1)..m /\ i + 2 \in (i + 1)..m /\ i + 1 \in S /\ i + 2 \in S
             /\ i < Len(literal) /\ <<literal[i]>> \in Text /\ <<first(i)>> \in Text
  <2>1. i \in 1..Len(literal) /\ i + 1 \in 1..Len(literal)
        /\ i + 1 \in (i + 1)..m /\ i + 2 \in (i + 1)..m /\ i + 1 \in S /\ i + 2 \in S /\ i < Len(literal)
    BY <1>1, <1>4, LenOfText
  <2>2. literal[i] \in Symbols /\ literal[i + 1] \in Symbols /\ "\n" \in Symbols
    <3>1. \A k \in 1..Len(literal) : literal[k] \in Symbols
      BY DEF Text
    <3> QED BY <2>1, <3>1 DEF Symbols
  <2>3. first(i) \in Symbols
    BY <2>2
  <2> HIDE DEF first
  <2> QED BY <2>1, <2>2, <2>3, SymbolText
<1>5. ASSUME NEW i \in S, NEW g, i >= Len(literal) PROVE body(i, g) = << >>
  BY <1>5
<1>6. ASSUME NEW i \in S, NEW g, ~(i >= Len(literal))
      PROVE  \/ body(i, g) = <<first(i)>> \o g[i + 2]
             \/ body(i, g) = <<literal[i]>> \o g[i + 1]
  <2> HIDE DEF first
  <2> QED BY <1>4, <1>6
<1>b. ASSUME NEW i \in S, NEW f, NEW g, AgreeOn(f, g, (i + 1)..m)
      PROVE  body(i, f) = body(i, g)
  <2>1. CASE i >= Len(literal)
    BY <1>5, <2>1
  <2>2. CASE ~(i >= Len(literal))
    <3>1. f[i + 1] = g[i + 1] /\ f[i + 2] = g[i + 2]
      BY <1>4, <1>b, <2>2 DEF AgreeOn
    <3> HIDE DEF first
    <3> QED BY <3>1
  <2> QED BY <2>1, <2>2
<1>7. ASSUME NEW i \in S, NEW g \in [S -> V] PROVE body(i, g) \in V
  <2>1. CASE i >= Len(literal)
    BY <1>5, <1>v, <2>1, TextNothing
  <2>2. CASE ~(i >= Len(literal))
    <3>1. g[i + 1] \in Text /\ g[i + 2] \in Text
      BY <1>4, <1>v, <2>2
    <3>2. <<literal[i]>> \o g[i + 1] \in Text /\ <<first(i)>> \o g[i + 2] \in Text
      <4>1. <<literal[i]>> \in Text /\ <<first(i)>> \in Text
        BY <1>4, <2>2
      <4> HIDE DEF first
      <4> QED BY <3>1, <4>1, TextConcat
    <3> HIDE DEF body, first
    <3> QED BY <1>6, <1>v, <2>2, <3>2
  <2> QED BY <2>1, <2>2
<1> HIDE DEF body
<1>8. ASSUME NEW i \in S, NEW g \in [S -> V] PROVE step[i][g] = body(i, g)
  BY <1>2
<1>9. IsStep(step, S, V)
  BY <1>2, <1>7 DEF IsStep
<1>10. LooksLater(step, 2, m, V)
  BY <1>8, <1>b DEF LooksLater
<1>11. KeepsLater(step, Good, 2, m, V)
  BY <1>3, <1>7, <1>8 DEF KeepsLater
<1>12. PICK f \in [S -> V] : \A i \in S : f[i] = step[i][f] /\ f[i] \in Good[i]
  <2>1. 2 \in Nat /\ V # {}
    BY <1>v, TextNothing
  <2>2. SolvedLater(step, Good, 2, m, V)
    BY <1>9, <1>10, <1>11, <2>1, LaterRecursion
  <2> QED BY <2>2 DEF SolvedLater
<1>13. f = [i \in S |-> body(i, f)]
  <2>1. f = [i \in S |-> f[i]]
    OBVIOUS
  <2>2. \A i \in S : f[i] = body(i, f)
    BY <1>8, <1>12
  <2> QED BY <2>1, <2>2, Zenon
<1>14. PICK e : e = [i \in S |-> body(i, e)] /\ Contents(literal) = e[2]
  <2> DEFINE positions == 2..(Len(literal) + 1)
             table(e) == [i \in positions |-> body(i, e)]
  <2>1. Contents(literal) = (CHOOSE e : e = table(e))[2]
    BY DEF Contents, body
  <2>2. \A e : table(e) = [i \in S |-> body(i, e)]
    BY <1>1
  <2> HIDE DEF table
  <2>3. PICK e : e = CHOOSE d : d = table(d)
    OBVIOUS
  <2>4. e = table(e)
    BY <1>13, <2>2, <2>3
  <2> QED BY <2>1, <2>2, <2>3, <2>4
<1>15. AgreeOn(e, f, 2..m)
  <2>1. ASSUME NEW i \in 2..m, AgreeOn(e, f, (i + 1)..m) PROVE e[i] = f[i]
    <3>1. e[i] = body(i, e)
      BY <1>14
    <3>2. f[i] = body(i, f) /\ body(i, e) = body(i, f)
      BY <1>b, <1>8, <1>12, <2>1
    <3> QED BY <3>1, <3>2
  <2>2. \A i \in 2..m : AgreeOn(e, f, (i + 1)..m) => e[i] = f[i]
    BY <2>1
  <2>3. 2 \in Nat
    OBVIOUS
  <2> QED BY <2>2, <2>3, AgreeLater
<1>16. 2 \in S
  BY <1>1
<1> QED BY <1>v, <1>12, <1>14, <1>15, <1>16 DEF AgreeOn

\* The members of an object, each with its value as text.
MemberTexts == Seq([key : Text, value : Text])

LEMMA NotAnObjectType ==
  NotAnObject \in MemberTexts /\ << >> \in MemberTexts
<1>1. PICK word : word = "not an object"
  OBVIOUS
<1>2. word \in Symbols
  BY <1>1 DEF Symbols
<1>3. [key |-> << >>, value |-> <<word>>] \in [key : Text, value : Text]
  BY <1>2, SymbolText, TextNothing
<1>4. \A S : << >> \in Seq(S) /\ \A a \in S : <<a>> \in Seq(S)
  OBVIOUS
<1> QED BY <1>1, <1>3, <1>4 DEF NotAnObject, MemberTexts

LEMMA MembersFromType ==
  ASSUME NEW text \in Text, NEW first \in Nat \ {0}, first <= Len(text) + 1
  PROVE  MembersFrom(text, first) \in MemberTexts
<1>1. PICK m \in Nat : m = Len(text) + 1
  BY LenOfText
<1>v. PICK V : V = MemberTexts
  OBVIOUS
<1>e. << >> \in V /\ NotAnObject \in V
  BY <1>v, NotAnObjectType
<1> DEFINE S == 1..m
           keyEnd(at) == ScanString(text, at)
           colon(at) == SkipWhitespace(text, keyEnd(at))
           value(at) == SkipWhitespace(text, colon(at) + 1)
           valueEnd(at) == ScanValue(text, value(at))
           next(at) == SkipWhitespace(text, valueEnd(at))
           member(at) == [key |-> Contents(SubSeq(text, at, keyEnd(at) - 1)),
                          value |-> SubSeq(text, value(at), valueEnd(at) - 1)]
           resume(at) == SkipWhitespace(text, next(at) + 1)
           quoted(at) == Symbol(text, at) = QUOTE
           paired(at) == Symbol(text, colon(at)) = ":"
           more(at) == Symbol(text, next(at)) = ","
           closed(at) == Symbol(text, next(at)) = "}" /\ resume(at) > Len(text)
           rest(at, g) == CASE more(at) -> g[resume(at)]
                            [] closed(at) -> << >>
                            [] OTHER -> NotAnObject
           body(at, g) == IF \/ ~quoted(at) \/ keyEnd(at) = 0
                             \/ ~paired(at) \/ valueEnd(at) = 0
                             \/ rest(at, g) = NotAnObject
                          THEN NotAnObject ELSE <<member(at)>> \o rest(at, g)
           good(at) == quoted(at) /\ keyEnd(at) # 0 /\ paired(at) /\ valueEnd(at) # 0
<1>2. PICK step : step = [i \in S |-> [g \in [S -> V] |-> body(i, g)]]
  OBVIOUS
<1>3. PICK Good : Good = [i \in S |-> V]
  OBVIOUS
<1>p. /\ ":" # "end" /\ "," # "end"
  OBVIOUS
<1>4. ASSUME NEW at \in S, good(at)
      PROVE  /\ member(at) \in [key : Text, value : Text]
             /\ more(at) => resume(at) \in (at + 1)..m /\ resume(at) \in S
  <2>1. keyEnd(at) \in (at + 1)..m /\ at \in Nat \ {0} /\ at <= Len(text) + 1
    BY <1>1, <1>4, ScanStringType DEF Later
  <2>2. PICK k \in Nat : k = keyEnd(at) /\ at < k /\ k <= Len(text) + 1
    BY <1>1, <2>1
  <2>3. PICK c \in Nat : c = colon(at) /\ c >= k /\ c <= Len(text) + 1
    <3>1. SkipWhitespace(text, k) \in k..(Len(text) + 1)
      BY <2>2, SkipType
    <3> QED BY <1>1, <2>2, <3>1
  <2>4. c + 1 \in Nat \ {0} /\ c + 1 <= Len(text) + 1
    <3>1. Symbol(text, c) # "end"
      <4> HIDE DEF colon
      <4> QED BY <1>4, <1>p, <2>3
    <3> QED BY <1>1, <2>1, <2>3, <3>1, SymbolAt
  <2>5. PICK v \in Nat : v = value(at) /\ v > c /\ v <= Len(text) + 1
    <3>1. SkipWhitespace(text, c + 1) \in (c + 1)..(Len(text) + 1)
      BY <2>4, SkipType
    <3> QED BY <1>1, <2>3, <3>1
  <2>6. PICK d \in Nat : d = valueEnd(at) /\ d > v /\ d <= Len(text) + 1
    <3>1. ScanValue(text, v) \in Later(text, v)
      BY <2>5, ScanValueType
    <3>2. ScanValue(text, v) # 0
      BY <1>4, <2>5
    <3> QED BY <1>1, <2>5, <3>1, <3>2 DEF Later
  <2>7. PICK x \in Nat : x = next(at) /\ x >= d /\ x <= Len(text) + 1
    <3>1. SkipWhitespace(text, d) \in d..(Len(text) + 1)
      BY <2>6, SkipType
    <3> QED BY <1>1, <2>6, <3>1
  <2>8. ASSUME more(at) PROVE resume(at) \in (at + 1)..m /\ resume(at) \in S
    <3>1. Symbol(text, x) # "end"
      <4> HIDE DEF next
      <4> QED BY <1>p, <2>7, <2>8
    <3>2. x + 1 \in Nat /\ x + 1 <= Len(text) + 1
      BY <1>1, <2>7, <3>1, SymbolAt
    <3>3. SkipWhitespace(text, x + 1) \in (x + 1)..(Len(text) + 1)
      BY <3>2, SkipType
    <3>4. x + 1 > at
      BY <2>2, <2>3, <2>5, <2>6, <2>7
    <3>5. SkipWhitespace(text, x + 1) \in (at + 1)..m /\ SkipWhitespace(text, x + 1) \in S
      BY <1>1, <3>3, <3>4
    <3> QED BY <2>7, <3>5
  <2>9. SubSeq(text, at, k - 1) \in Text /\ SubSeq(text, at, k - 1) # << >>
    <3>1. k - 1 \in Int /\ k - 1 <= Len(text) /\ at <= k - 1 /\ k - 1 - at + 1 # 0
      BY <1>1, <2>2
    <3>2. SubSeq(text, at, k - 1) \in Text /\ Len(SubSeq(text, at, k - 1)) # 0
      BY <2>1, <3>1, CutText
    <3>3. Len(<< >>) = 0
      OBVIOUS
    <3> QED BY <3>2, <3>3
  <2>10. SubSeq(text, v, d - 1) \in Text
    <3>1. d - 1 \in Int /\ d - 1 <= Len(text) /\ v \in Nat \ {0}
      BY <1>1, <2>5, <2>6
    <3> QED BY <3>1, CutText
  <2>11. Contents(SubSeq(text, at, k - 1)) \in Text
    BY <2>9, ContentsType
  <2>12. member(at) \in [key : Text, value : Text]
    BY <2>2, <2>5, <2>6, <2>10, <2>11
  <2> HIDE DEF member, more, resume
  <2> QED BY <2>8, <2>12
<1> HIDE DEF member, quoted, keyEnd, paired, valueEnd, more, closed, resume
<1>5. ASSUME NEW at \in S, NEW g, ~good(at) PROVE body(at, g) = NotAnObject
  BY <1>5
<1>6. ASSUME NEW at \in S, NEW g, good(at)
      PROVE  body(at, g) = IF rest(at, g) = NotAnObject THEN NotAnObject
                           ELSE <<member(at)>> \o rest(at, g)
  BY <1>6
<1>7. ASSUME NEW at \in S, NEW g PROVE more(at) => rest(at, g) = g[resume(at)]
  <2>1. more(at) => ~closed(at)
    BY Zenon DEF more, closed
  <2> QED BY <2>1
<1>8. ASSUME NEW at \in S, NEW g PROVE ~more(at) => rest(at, g) \in {<< >>, NotAnObject}
  OBVIOUS
<1>9. ASSUME NEW at \in S, NEW f, NEW g, AgreeOn(f, g, (at + 1)..m)
      PROVE  body(at, f) = body(at, g)
  <2>1. CASE ~good(at)
    <3> HIDE DEF body, good
    <3> QED BY <1>5, <2>1
  <2>2. CASE good(at)
    <3>1. rest(at, f) = rest(at, g)
      <4>1. CASE more(at)
        <5>1. resume(at) \in (at + 1)..m
          <6> HIDE DEF good
          <6> QED BY <1>4, <2>2, <4>1
        <5>2. f[resume(at)] = g[resume(at)]
          BY <1>9, <5>1 DEF AgreeOn
        <5> HIDE DEF rest
        <5> QED BY <1>7, <4>1, <5>2
      <4>2. CASE ~more(at)
        BY <4>2
      <4> QED BY <4>1, <4>2
    <3> HIDE DEF body, good, rest
    <3> QED BY <1>6, <2>2, <3>1
  <2> QED BY <2>1, <2>2
<1> HIDE DEF rest
<1>10. ASSUME NEW at \in S, NEW g \in [S -> V] PROVE body(at, g) \in V
  <2>1. CASE ~good(at)
    <3> HIDE DEF body, good
    <3> QED BY <1>5, <1>e, <2>1
  <2>2. CASE good(at)
    <3>1. rest(at, g) \in V
      <4>1. CASE more(at)
        <5>1. resume(at) \in S
          <6> HIDE DEF good
          <6> QED BY <1>4, <2>2, <4>1
        <5> QED BY <1>7, <4>1, <5>1
      <4>2. CASE ~more(at)
        BY <1>8, <1>e, <4>2
      <4> QED BY <4>1, <4>2
    <3>2. member(at) \in [key : Text, value : Text]
      <4> HIDE DEF good
      <4> QED BY <1>4, <2>2
    <3>3. <<member(at)>> \o rest(at, g) \in V
      <4>1. \A S0 : \A a \in S0 : \A s \in Seq(S0) : <<a>> \o s \in Seq(S0)
        OBVIOUS
      <4> QED BY <1>v, <3>1, <3>2, <4>1 DEF MemberTexts
    <3> HIDE DEF body, good
    <3> QED BY <1>6, <1>e, <2>2, <3>1, <3>3
  <2> QED BY <2>1, <2>2
<1> HIDE DEF body
<1>11. ASSUME NEW i \in S, NEW g \in [S -> V] PROVE step[i][g] = body(i, g)
  BY <1>2
<1>12. IsStep(step, S, V)
  BY <1>2, <1>10 DEF IsStep
<1>13. LooksLater(step, 1, m, V)
  BY <1>9, <1>11 DEF LooksLater
<1>14. KeepsLater(step, Good, 1, m, V)
  BY <1>3, <1>10, <1>11 DEF KeepsLater
<1>15. PICK f \in [S -> V] : \A i \in S : f[i] = step[i][f] /\ f[i] \in Good[i]
  <2>1. 1 \in Nat /\ V # {}
    BY <1>e
  <2>2. SolvedLater(step, Good, 1, m, V)
    BY <1>12, <1>13, <1>14, <2>1, LaterRecursion
  <2> QED BY <2>2 DEF SolvedLater
<1>16. f = [i \in S |-> body(i, f)]
  <2>1. f = [i \in S |-> f[i]]
    OBVIOUS
  <2>2. \A i \in S : f[i] = body(i, f)
    BY <1>11, <1>15
  <2> QED BY <2>1, <2>2, Zenon
<1>17. PICK e : e = [i \in S |-> body(i, e)] /\ MembersFrom(text, first) = e[first]
  <2> DEFINE positions == 1..(Len(text) + 1)
             table(e) == [i \in positions |-> body(i, e)]
  <2>1. MembersFrom(text, first) = (CHOOSE e : e = table(e))[first]
    BY Zenon DEF MembersFrom, body, rest, member, quoted, keyEnd, paired, valueEnd, more, closed, resume
  <2>2. \A e : table(e) = [i \in S |-> body(i, e)]
    BY <1>1
  <2> HIDE DEF table
  <2>3. PICK e : e = CHOOSE d : d = table(d)
    OBVIOUS
  <2>4. e = table(e)
    BY <1>16, <2>2, <2>3
  <2> QED BY <2>1, <2>2, <2>3, <2>4
<1>18. AgreeOn(e, f, 1..m)
  <2>1. ASSUME NEW i \in 1..m, AgreeOn(e, f, (i + 1)..m) PROVE e[i] = f[i]
    <3>1. e[i] = body(i, e)
      BY <1>17
    <3>2. f[i] = body(i, f) /\ body(i, e) = body(i, f)
      BY <1>9, <1>11, <1>15, <2>1
    <3> QED BY <3>1, <3>2
  <2>2. \A i \in 1..m : AgreeOn(e, f, (i + 1)..m) => e[i] = f[i]
    BY <2>1
  <2>3. 1 \in Nat
    OBVIOUS
  <2> QED BY <2>2, <2>3, AgreeLater
<1>19. first \in S
  BY <1>1
<1> QED BY <1>v, <1>3, <1>15, <1>17, <1>18, <1>19 DEF AgreeOn

LEMMA ObjectMembersType ==
  ASSUME NEW text \in Text
  PROVE  ObjectMembers(text) \in MemberTexts
<1>1. PICK n \in Nat : n = Len(text)
  BY LenOfText
<1>2. PICK s \in Nat : s = SkipWhitespace(text, 1) /\ s >= 1 /\ s <= Len(text) + 1
  <2>1. SkipWhitespace(text, 1) \in 1..(Len(text) + 1)
    <3>1. 1 \in Nat /\ 1 <= Len(text) + 1
      BY <1>1
    <3> QED BY <3>1, SkipType
  <2> QED BY <1>1, <2>1
<1>3. CASE Symbol(text, s) # "{"
  BY <1>2, <1>3, NotAnObjectType DEF ObjectMembers
<1>4. CASE Symbol(text, s) = "{"
  <2>1. s + 1 \in Nat /\ s + 1 <= Len(text) + 1
    <3>1. Symbol(text, s) # "end"
      BY <1>4, Zenon
    <3> QED BY <1>1, <1>2, <3>1, SymbolAt
  <2>2. PICK first : first = SkipWhitespace(text, s + 1)
    OBVIOUS
  <2>3. first \in Nat \ {0} /\ first <= Len(text) + 1
    <3>1. first \in (s + 1)..(Len(text) + 1)
      BY <2>1, <2>2, SkipType
    <3> QED BY <1>1, <1>2, <3>1
  <2>4. MembersFrom(text, first) \in MemberTexts
    BY <2>3, MembersFromType
  <2>5. ObjectMembers(text) \in {MembersFrom(text, first), << >>, NotAnObject}
    BY <1>2, <1>4, <2>2, Zenon DEF ObjectMembers
  <2> QED BY <2>4, <2>5, NotAnObjectType
<1> QED BY <1>3, <1>4

-----------------------------------------------------------------------------
(***************************************************************************)
(* A value is written as a text.                                           *)
(***************************************************************************)
LEMMA PartsAreValues ==
  ASSUME NEW v \in Values
  PROVE  /\ PartsOf(v) \in SUBSET Values
         /\ v.kind \in {"word", "string", "array", "object"}
         /\ v.kind \in {"word", "string"} => v.text \in Text
         /\ v.kind = "array" => \A i \in DOMAIN v.items : v.items[i] \in PartsOf(v)
         /\ v.kind = "array" => \E n \in Nat : DOMAIN v.items = 1..n
         /\ v.kind = "object" => \A i \in DOMAIN v.members :
              v.members[i].key \in Text /\ v.members[i].value \in PartsOf(v)
         /\ v.kind = "object" => \E n \in Nat : DOMAIN v.members = 1..n
<1>1. IsTree(v)
  BY ValuesAssumption
<1>2. \A S : \A s \in Seq(S) : Range(s) \subseteq S /\ (\A i \in DOMAIN s : s[i] \in Range(s))
        /\ (\A i \in DOMAIN s : s[i] \in S) /\ \E n \in Nat : DOMAIN s = 1..n
  BY DEF Range
<1>3. CASE v.kind \in {"word", "string"}
  <2>1. v.text \in Seq(STRING)
    BY <1>1, <1>3 DEF IsTree
  <2>2. PartsOf(v) = {}
    BY <1>3 DEF PartsOf
  <2> QED BY <1>3, <2>1, <2>2, StringsAreText
<1>4. CASE v.kind = "array"
  <2>1. v.items \in Seq(Values)
    BY <1>1, <1>4 DEF IsTree
  <2>2. PartsOf(v) = Range(v.items)
    BY <1>4 DEF PartsOf
  <2> QED BY <1>2, <1>4, <2>1, <2>2
<1>5. CASE v.kind = "object"
  <2> DEFINE M == [key : Seq(STRING), value : Values]
  <2>1. v.members \in Seq(M)
    BY <1>1, <1>5 DEF IsTree
  <2>2. PartsOf(v) = {member.value : member \in Range(v.members)}
    BY <1>5 DEF PartsOf
  <2>3. Range(v.members) \subseteq M /\ (\A i \in DOMAIN v.members : v.members[i] \in Range(v.members))
        /\ \E n \in Nat : DOMAIN v.members = 1..n
    <3> HIDE DEF M
    <3> QED BY <1>2, <2>1
  <2>4. \A member \in M : member.key \in Text /\ member.value \in Values
    BY StringsAreText
  <2>5. PartsOf(v) \subseteq Values
    BY <2>2, <2>3, <2>4
  <2>6. \A i \in DOMAIN v.members : v.members[i].key \in Text /\ v.members[i].value \in PartsOf(v)
    BY <2>2, <2>3, <2>4
  <2> QED BY <1>5, <2>3, <2>5, <2>6
<1> QED BY <1>1, <1>3, <1>4, <1>5 DEF IsTree

LEMMA WriteType ==
  ASSUME NEW value \in Values, NEW gap \in Text
  PROVE  Write(value, gap) \in Text
<1>1. PICK sqOpen : sqOpen = <<"[">> /\ sqOpen \in Text
  <2>1. "[" \in Symbols
    BY Zenon DEF Symbols
  <2> QED BY <2>1, SymbolText
<1>2. PICK sqClose : sqClose = <<"]">> /\ sqClose \in Text
  <2>1. "]" \in Symbols
    BY Zenon DEF Symbols
  <2> QED BY <2>1, SymbolText
<1>3. PICK open : open = <<"{">> /\ open \in Text
  <2>1. "{" \in Symbols
    BY Zenon DEF Symbols
  <2> QED BY <2>1, SymbolText
<1>4. PICK close : close = <<"}">> /\ close \in Text
  <2>1. "}" \in Symbols
    BY Zenon DEF Symbols
  <2> QED BY <2>1, SymbolText
<1>5. PICK comma : comma = <<",">> /\ comma \in Text
  <2>1. "," \in Symbols
    BY Zenon DEF Symbols
  <2> QED BY <2>1, SymbolText
<1>6. PICK colon : colon = <<":">> /\ colon \in Text
  <2>1. ":" \in Symbols
    BY Zenon DEF Symbols
  <2> QED BY <2>1, SymbolText
<1>7. PICK V : V = Text
  OBVIOUS
<1>8. PICK below : below = [v \in Values |-> PartsOf(v)]
  OBVIOUS
<1> DEFINE items(v, g) == [i \in DOMAIN v.items |-> g[v.items[i]]]
           members(v, g) == [i \in DOMAIN v.members |->
                               JsonString(v.members[i].key) \o <<":">> \o gap
                               \o g[v.members[i].value]]
           array(v, g) == <<"[">> \o Joined(items(v, g), <<",">> \o gap) \o <<"]">>
           object(v, g) == <<"{">> \o Joined(members(v, g), <<",">> \o gap) \o <<"}">>
           body(v, g) == CASE v.kind = "word" -> v.text
                           [] v.kind = "string" -> JsonString(v.text)
                           [] v.kind = "array" -> array(v, g)
                           [] OTHER -> object(v, g)
<1>9. ASSUME NEW v \in Values, NEW g, \A x \in PartsOf(v) : g[x] \in Text, v.kind = "array"
      PROVE  array(v, g) \in Text
  <2>1. items(v, g) \in Seq(Text)
    <3>1. PICK n \in Nat : DOMAIN v.items = 1..n
      BY <1>9, PartsAreValues
    <3>2. \A i \in 1..n : g[v.items[i]] \in Text
      BY <1>9, <3>1, PartsAreValues
    <3>3. PICK f : f = items(v, g)
      OBVIOUS
    <3>4. f = [i \in 1..n |-> f[i]] /\ \A i \in 1..n : f[i] \in Text
      BY <3>1, <3>2, <3>3
    <3> QED BY <3>3, <3>4, MappedText
  <2> HIDE DEF items
  <2>2. comma \o gap \in Text
    BY <1>5, TextConcat
  <2>3. Joined(items(v, g), comma \o gap) \in Text
    BY <2>1, <2>2, JoinedType
  <2>4. array(v, g) = sqOpen \o Joined(items(v, g), comma \o gap) \o sqClose
    BY <1>1, <1>2, <1>5, Zenon
  <2> HIDE DEF array
  <2> QED BY <1>1, <1>2, <2>3, <2>4, TextConcat
<1>10. ASSUME NEW v \in Values, NEW g, \A x \in PartsOf(v) : g[x] \in Text, v.kind = "object"
       PROVE  object(v, g) \in Text
  <2>1. members(v, g) \in Seq(Text)
    <3>1. PICK n \in Nat : DOMAIN v.members = 1..n
      BY <1>10, PartsAreValues
    <3>2. PICK f : f = members(v, g)
      OBVIOUS
    <3>3. f = [i \in 1..n |-> JsonString(v.members[i].key) \o colon \o gap \o g[v.members[i].value]]
      BY <1>6, <3>1, <3>2, Zenon
    <3> HIDE DEF members
    <3>4. \A i \in 1..n : JsonString(v.members[i].key) \o colon \o gap \o g[v.members[i].value] \in Text
      <4> TAKE i \in 1..n
      <4>1. v.members[i].key \in Text /\ g[v.members[i].value] \in Text
        BY <1>10, <3>1, PartsAreValues
      <4>2. JsonString(v.members[i].key) \in Text
        BY <4>1, JsonStringType
      <4> QED BY <1>6, <4>1, <4>2, TextConcat
    <3>5. f = [i \in 1..n |-> f[i]] /\ \A i \in 1..n : f[i] \in Text
      BY <3>3, <3>4
    <3> QED BY <3>2, <3>5, MappedText
  <2> HIDE DEF members
  <2>2. comma \o gap \in Text
    BY <1>5, TextConcat
  <2>3. Joined(members(v, g), comma \o gap) \in Text
    BY <2>1, <2>2, JoinedType
  <2>4. object(v, g) = open \o Joined(members(v, g), comma \o gap) \o close
    BY <1>3, <1>4, <1>5, Zenon
  <2>5. PICK t \in Text : t = Joined(members(v, g), comma \o gap)
    BY <2>3
  <2>6. open \o t \o close \in Text
    BY <1>3, <1>4, <2>5, TextConcat
  <2> HIDE DEF object, members
  <2> QED BY <2>4, <2>5, <2>6
<1>11. ASSUME NEW v \in Values, NEW f, NEW g, AgreeOn(f, g, PartsOf(v))
       PROVE  body(v, f) = body(v, g)
  <2>1. CASE v.kind \in {"word", "string"}
    <3> HIDE DEF array, object
    <3> QED BY <2>1
  <2>2. CASE v.kind = "array"
    <3>1. items(v, f) = items(v, g)
      <4>1. \A i \in DOMAIN v.items : f[v.items[i]] = g[v.items[i]]
        BY <1>11, <2>2, PartsAreValues DEF AgreeOn
      <4> QED BY <4>1
    <3> HIDE DEF items
    <3>2. array(v, f) = array(v, g)
      BY <3>1, Zenon
    <3> HIDE DEF array, object
    <3> QED BY <2>2, <3>2
  <2>3. CASE v.kind = "object"
    <3>1. members(v, f) = members(v, g)
      <4>1. \A i \in DOMAIN v.members : f[v.members[i].value] = g[v.members[i].value]
        BY <1>11, <2>3, PartsAreValues DEF AgreeOn
      <4> QED BY <4>1
    <3> HIDE DEF members
    <3>2. object(v, f) = object(v, g)
      BY <3>1, Zenon
    <3> HIDE DEF array, object
    <3> QED BY <2>3, <3>2
  <2> HIDE DEF body
  <2> QED BY <2>1, <2>2, <2>3, PartsAreValues
<1> HIDE DEF array, object
<1>12. ASSUME NEW v \in Values, NEW g, \A x \in PartsOf(v) : g[x] \in Text
       PROVE  body(v, g) \in V
  <2>1. CASE v.kind \in {"word", "string"}
    <3>1. v.text \in Text /\ JsonString(v.text) \in Text
      BY <2>1, PartsAreValues, JsonStringType
    <3> QED BY <1>7, <2>1, <3>1
  <2>2. CASE v.kind = "array"
    BY <1>7, <1>9, <1>12, <2>2
  <2>3. CASE v.kind = "object"
    BY <1>7, <1>10, <1>12, <2>3
  <2> HIDE DEF body
  <2> QED BY <2>1, <2>2, <2>3, PartsAreValues
<1> HIDE DEF body
<1>13. PICK step : step = [v \in Values |-> [g \in [Values -> V] |-> body(v, g)]]
  OBVIOUS
<1>14. ASSUME NEW v \in Values, NEW g \in [Values -> V]
       PROVE  step[v][g] = body(v, g) /\ body(v, g) \in V
  <2>1. \A x \in PartsOf(v) : g[x] \in Text
    BY <1>7, PartsAreValues
  <2> QED BY <1>12, <1>13, <2>1
<1>15. IsStep(step, Values, V)
  BY <1>13, <1>14 DEF IsStep
<1>16. IsBelow(below, Values) /\ WellFounded(below, Values)
  <2>1. \A v \in Values : PartsOf(v) \in SUBSET Values
    BY PartsAreValues
  <2>2. \A S \in SUBSET Values : S # {} => \E v \in S : PartsOf(v) \cap S = {}
    BY ValuesAssumption
  <2> QED BY <1>8, <2>1, <2>2 DEF IsBelow, WellFounded
<1>17. LooksBelow(step, below, Values, V)
  BY <1>8, <1>11, <1>14 DEF LooksBelow
<1>18. PICK f \in [Values -> V] : \A v \in Values : f[v] = step[v][f]
  <2>1. V # {}
    BY <1>7, TextNothing
  <2>2. IsSolvable(step, Values, V)
    BY <1>15, <1>16, <1>17, <2>1, WellFoundedRecursion
  <2> QED BY <2>2 DEF IsSolvable
<1>19. f = [v \in Values |-> body(v, f)]
  <2>1. f = [v \in Values |-> f[v]]
    OBVIOUS
  <2>2. \A v \in Values : f[v] = body(v, f)
    BY <1>14, <1>18
  <2> QED BY <2>1, <2>2, Zenon
<1>20. PICK e : e = [v \in Values |-> body(v, e)] /\ Write(value, gap) = e[value]
  <2> DEFINE table(e) == [v \in Values |-> body(v, e)]
  <2>1. Write(value, gap) = (CHOOSE e : e = table(e))[value]
    BY Zenon DEF Write, body, array, object, items, members
  <2> HIDE DEF table
  <2>2. PICK e : e = CHOOSE d : d = table(d)
    OBVIOUS
  <2>3. e = table(e)
    <3>1. f = table(f)
      BY <1>19 DEF table
    <3> QED BY <2>2, <3>1
  <2> QED BY <2>1, <2>2, <2>3 DEF table
<1>21. PICK T : T = {v \in Values : e[v] \notin Text}
  OBVIOUS
<1>22. CASE T # {}
  <2>1. PICK v \in T : PartsOf(v) \cap T = {}
    BY <1>21, <1>22, ValuesAssumption
  <2>2. \A x \in PartsOf(v) : e[x] \in Text
    BY <1>21, <2>1, PartsAreValues
  <2>3. e[v] = body(v, e)
    BY <1>20, <1>21, <2>1
  <2> QED BY <1>7, <1>12, <1>21, <2>1, <2>2, <2>3
<1> QED BY <1>20, <1>21, <1>22

LEMMA FromStrType ==
  ASSUME NEW text
  PROVE  FromStr(text) # NoValue => FromStr(text) \in Values
BY DEF FromStr

LEMMA EncodeType ==
  ASSUME NEW text \in Text, NEW declared
  PROVE  Encode(text, declared) \in Text
BY TrimType, JsonStringType DEF Encode

\* One text of each of a sequence's members, joined.
LEMMA EachText ==
  ASSUME NEW S, NEW s \in Seq(S), NEW f, f = [i \in DOMAIN s |-> f[i]],
         \A i \in DOMAIN s : f[i] \in Text
  PROVE  f \in Seq(Text) /\ Len(f) = Len(s) /\ FlattenSeq(f) \in Text
<1>1. PICK n \in Nat : n = Len(s) /\ DOMAIN s = 1..n
  OBVIOUS
<1>2. f = [i \in 1..n |-> f[i]] /\ \A i \in 1..n : f[i] \in Text
  BY <1>1
<1> QED BY <1>1, <1>2, MappedText

LEMMA MemberAt ==
  \A s \in MemberTexts : \A i \in DOMAIN s :
    s[i] \in [key : Text, value : Text] /\ s[i].key \in Text /\ s[i].value \in Text
<1>1. \A S : \A s \in Seq(S) : \A i \in DOMAIN s : s[i] \in S
  OBVIOUS
<1>2. PICK M : M = [key : Text, value : Text]
  OBVIOUS
<1>3. \A s \in Seq(M) : \A i \in DOMAIN s : s[i] \in M
  BY <1>1
<1>4. \A m \in M : m.key \in Text /\ m.value \in Text
  BY <1>2
<1> QED BY <1>2, <1>3, <1>4 DEF MemberTexts

LEMMA ArgumentsJsonType ==
  ASSUME NEW call, call.parameters \in MemberTexts, NEW types
  PROVE  ArgumentsJson(call, types) \in Text
<1>1. PICK open : open = <<"{">> /\ open \in Text
  <2>1. "{" \in Symbols
    BY Zenon DEF Symbols
  <2> QED BY <2>1, SymbolText
<1>2. PICK close : close = <<"}">> /\ close \in Text
  <2>1. "}" \in Symbols
    BY Zenon DEF Symbols
  <2> QED BY <2>1, SymbolText
<1>3. PICK comma : comma = <<",">> /\ comma \in Text
  <2>1. "," \in Symbols
    BY Zenon DEF Symbols
  <2> QED BY <2>1, SymbolText
<1>4. PICK colon : colon = <<":">> /\ colon \in Text
  <2>1. ":" \in Symbols
    BY Zenon DEF Symbols
  <2> QED BY <2>1, SymbolText
<1> DEFINE declared(key) == IF key \in DOMAIN types THEN types[key] ELSE "undeclared"
<1>5. PICK f : f = [i \in DOMAIN call.parameters |->
                      JsonString(call.parameters[i].key) \o colon
                      \o Encode(call.parameters[i].value, declared(call.parameters[i].key))]
  OBVIOUS
<1>6. ArgumentsJson(call, types) = open \o Joined(f, comma) \o close
  BY <1>1, <1>2, <1>3, <1>4, <1>5, Zenon DEF ArgumentsJson
<1> HIDE DEF declared
<1>7. \A i \in DOMAIN call.parameters : f[i] \in Text
  <2> TAKE i \in DOMAIN call.parameters
  <2>1. call.parameters[i].key \in Text /\ call.parameters[i].value \in Text
    BY MemberAt
  <2>2. JsonString(call.parameters[i].key) \in Text
        /\ Encode(call.parameters[i].value, declared(call.parameters[i].key)) \in Text
    BY <2>1, JsonStringType, EncodeType
  <2>3. JsonString(call.parameters[i].key) \o colon
        \o Encode(call.parameters[i].value, declared(call.parameters[i].key)) \in Text
    BY <1>4, <2>2, TextConcat
  <2> QED BY <1>5, <2>3
<1>8. f \in Seq(Text)
  <2>1. f = [i \in DOMAIN call.parameters |-> f[i]]
    BY <1>5
  <2> QED BY <1>7, <2>1, EachText DEF MemberTexts
<1>9. PICK t \in Text : t = Joined(f, comma)
  BY <1>3, <1>8, JoinedType
<1>10. open \o t \o close \in Text
  BY <1>1, <1>2, <1>9, TextConcat
<1> QED BY <1>6, <1>9, <1>10

LEMMA ParameterTextType ==
  ASSUME NEW value \in Text
  PROVE  ParameterText(value) \in Text
<1>1. CASE Symbol(value, 1) = QUOTE
  <2>1. value # << >>
    <3>1. 1 \notin 1..Len(<< >>)
      OBVIOUS
    <3>2. Symbol(<< >>, 1) = "end"
      BY <3>1, SymbolAt, TextNothing
    <3> QED BY <1>1, <3>2, BracketSymbols
  <2>2. ParameterText(value) = Contents(value)
    BY <1>1, BracketSymbols, Zenon DEF ParameterText
  <2> QED BY <2>1, <2>2, ContentsType
<1>2. CASE Symbol(value, 1) # QUOTE
  <2>1. \/ ParameterText(value) = value
        \/ FromStr(value) # NoValue /\ ParameterText(value) = PythonJson(FromStr(value))
    BY <1>2, Zenon DEF ParameterText
  <2>2. Python \in Text
    <3>1. " " \in Symbols
      BY Zenon DEF Symbols
    <3> QED BY <3>1, SymbolText DEF Python
  <2> QED BY <2>1, <2>2, FromStrType, WriteType DEF PythonJson
<1> QED BY <1>1, <1>2

LEMMA RenderType ==
  ASSUME NEW name \in Text, NEW arguments \in Text
  PROVE  Render(name, arguments) \in Text
<1>1. PICK members \in MemberTexts :
        members = IF ObjectMembers(arguments) = NotAnObject THEN << >> ELSE ObjectMembers(arguments)
  BY ObjectMembersType, NotAnObjectType
<1>2. PICK line : line = <<"\n">> /\ line \in Text
  <2>1. "\n" \in Symbols
    BY Zenon DEF Symbols
  <2> QED BY <2>1, SymbolText
<1> DEFINE parameter(member) ==
             PARAMETER_OPEN \o member.key \o TAG_END \o line \o ParameterText(member.value)
             \o line \o PARAMETER_CLOSE \o line
<1>3. PICK f : f = [i \in DOMAIN members |-> parameter(members[i])]
  OBVIOUS
<1>4. Render(name, arguments) =
        CALL_OPEN \o line \o FUNCTION_OPEN \o name \o TAG_END \o line
        \o FlattenSeq(f) \o FUNCTION_CLOSE \o line \o CALL_CLOSE
  BY <1>1, <1>2, <1>3, Zenon DEF Render
<1>5. ASSUME NEW member \in [key : Text, value : Text] PROVE parameter(member) \in Text
  <2>1. member.key \in Text /\ ParameterText(member.value) \in Text
    BY ParameterTextType
  <2>2. PARAMETER_OPEN \in Text /\ TAG_END \in Text /\ PARAMETER_CLOSE \in Text
    BY MarkerTexts
  <2>3. PARAMETER_OPEN \o member.key \o TAG_END \o line \in Text
    BY <1>2, <2>1, <2>2, TextConcat
  <2>4. ParameterText(member.value) \o line \o PARAMETER_CLOSE \o line \in Text
    BY <1>2, <2>1, <2>2, TextConcat
  <2>5. PARAMETER_OPEN \o member.key \o TAG_END \o line \o ParameterText(member.value) \in Text
    BY <2>1, <2>3, TextConcat
  <2>6. PARAMETER_OPEN \o member.key \o TAG_END \o line \o ParameterText(member.value) \o line \in Text
    BY <1>2, <2>5, TextConcat
  <2> QED BY <1>2, <2>2, <2>6, TextConcat
<1>6. FlattenSeq(f) \in Text
  <2>1. \A i \in DOMAIN members : f[i] \in Text
    <3>1. \A i \in DOMAIN members : members[i] \in [key : Text, value : Text]
      BY <1>1, MemberAt
    <3> HIDE DEF parameter
    <3> QED BY <1>3, <1>5, <3>1
  <2>2. f = [i \in DOMAIN members |-> f[i]]
    BY <1>3
  <2> QED BY <1>1, <2>1, <2>2, EachText DEF MemberTexts
<1>7. CALL_OPEN \in Text /\ FUNCTION_OPEN \in Text /\ TAG_END \in Text /\ FUNCTION_CLOSE \in Text
      /\ CALL_CLOSE \in Text
  BY MarkerTexts
<1>8. CALL_OPEN \o line \o FUNCTION_OPEN \o name \o TAG_END \o line \in Text
  BY <1>2, <1>7, TextConcat
<1>9. PICK t \in Text : t = CALL_OPEN \o line \o FUNCTION_OPEN \o name \o TAG_END \o line
  BY <1>8
<1>10. PICK u \in Text : u = FlattenSeq(f)
  BY <1>6
<1>11. t \o u \o FUNCTION_CLOSE \o line \o CALL_CLOSE \in Text
  BY <1>2, <1>7, <1>9, <1>10, TextConcat
<1> QED BY <1>4, <1>9, <1>10, <1>11

LEMMA CompactedType ==
  ASSUME NEW text \in Text
  PROVE  Compacted(text) \in Text
<1>1. PICK f : f = [i \in DOMAIN text |->
                      IF text[i] \in Space /\ Quotes(text, i) % 2 = 0 THEN << >> ELSE <<text[i]>>]
  OBVIOUS
<1>2. \A i \in DOMAIN text : f[i] \in Text
  <2> TAKE i \in DOMAIN text
  <2>1. <<text[i]>> \in Text
    BY SymbolText DEF Text
  <2> QED BY <1>1, <2>1, TextNothing
<1>3. f = [i \in DOMAIN text |-> f[i]]
  BY <1>1
<1> QED BY <1>1, <1>2, <1>3, EachText DEF Compacted, Text

-----------------------------------------------------------------------------
(***************************************************************************)
(* Calls are read as names and parameters, each a text.                    *)
(***************************************************************************)
CallTexts == [name : Text, parameters : MemberTexts]

LEMMA UnframedType ==
  ASSUME NEW value \in Text
  PROVE  Unframed(value) \in Text
<1>1. \A S : \A s \in Seq(S) : s # << >> =>
        /\ Tail(s) \in Seq(S) /\ SubSeq(s, 1, Len(s) - 1) \in Seq(S)
  OBVIOUS
<1>2. PICK opened \in Text : opened = IF value # << >> /\ Head(value) = "\n" THEN Tail(value) ELSE value
  BY <1>1 DEF Text
<1>3. (IF opened # << >> /\ Last(opened) = "\n" THEN Front(opened) ELSE opened) \in Text
  BY <1>1, <1>2 DEF Text, Front
<1> QED BY <1>2, <1>3 DEF Unframed

LEMMA PastShorter ==
  ASSUME NEW text \in Text, NEW i \in Nat \ {0}, i <= Len(text), NEW pattern \in Text, pattern # << >>
  PROVE  Past(text, i, pattern) \in Text /\ Len(Past(text, i, pattern)) < Len(text)
<1>1. PICK l \in Nat \ {0} : l = Len(pattern)
  BY LenOfText
<1>2. PICK n \in Nat : n = Len(text)
  BY LenOfText
<1>3. Past(text, i, pattern) \in Text
      /\ Len(Past(text, i, pattern)) = IF i + l <= n THEN n - (i + l) + 1 ELSE 0
  BY <1>1, <1>2, PastText
<1> QED BY <1>1, <1>2, <1>3

LEMMA FromShorter ==
  ASSUME NEW text \in Text, NEW i \in Nat \ {0}
  PROVE  From(text, i) \in Text /\ Len(From(text, i)) <= Len(text)
<1>1. PICK n \in Nat : n = Len(text)
  BY LenOfText
<1>2. From(text, i) \in Text /\ Len(From(text, i)) = IF i <= n THEN n - i + 1 ELSE 0
  BY <1>1, FromText
<1> QED BY <1>1, <1>2

LEMMA ParametersOfType ==
  ASSUME NEW inner \in Text
  PROVE  ParametersOf(inner) \in MemberTexts
<1>1. PICK m \in Nat : m = Len(inner) + 1
  BY LenOfText
<1>v. PICK V : V = MemberTexts
  OBVIOUS
<1>e. << >> \in V
  BY <1>v, NotAnObjectType
<1> DEFINE S == 1..m
           cursor(at) == From(inner, at)
           after(at) == Past(cursor(at), Find(cursor(at), PARAMETER_OPEN), PARAMETER_OPEN)
           keyEnd(at) == Find(after(at), TAG_END)
           valueText(at) == From(after(at), keyEnd(at) + 1)
           valueEnd(at) == Find(valueText(at), PARAMETER_CLOSE)
           rest(at) == Past(valueText(at), valueEnd(at), PARAMETER_CLOSE)
           broken(at) == ~Occurs(cursor(at), PARAMETER_OPEN) \/ keyEnd(at) = 0 \/ valueEnd(at) = 0
           member(at) == [key |-> Trim(Before(after(at), keyEnd(at))),
                          value |-> Unframed(Before(valueText(at), valueEnd(at)))]
           resume(at) == Len(inner) - Len(rest(at)) + 1
           body(at, g) == IF ~Occurs(cursor(at), PARAMETER_OPEN) \/ keyEnd(at) = 0 \/ valueEnd(at) = 0
                          THEN << >>
                          ELSE <<member(at)>> \o g[resume(at)]
<1>4. ASSUME NEW at \in S, ~broken(at)
      PROVE  /\ member(at) \in [key : Text, value : Text]
             /\ resume(at) \in (at + 1)..m /\ resume(at) \in S
  <2>m. PARAMETER_OPEN \in Text \ {<< >>} /\ PARAMETER_CLOSE \in Text \ {<< >>}
        /\ TAG_END \in Text \ {<< >>}
    BY MarkerTexts
  <2>1. PICK c \in Text : c = cursor(at) /\ Len(c) = m - at
    <3>1. at \in Nat \ {0} /\ at <= m
      OBVIOUS
    <3>2. From(inner, at) \in Text
          /\ Len(From(inner, at)) = IF at <= Len(inner) THEN Len(inner) - at + 1 ELSE 0
      BY <3>1, FromText
    <3>3. Len(inner) \in Nat
      BY LenOfText
    <3> QED BY <1>1, <3>1, <3>2, <3>3
  <2>2. PICK a \in Text : a = after(at) /\ Len(a) < Len(c)
    <3>1. Find(c, PARAMETER_OPEN) \in 1..Len(c)
      <4>1. Occurs(c, PARAMETER_OPEN)
        BY <1>4, <2>1
      <4>2. Find(c, PARAMETER_OPEN) \in 0..Len(c) /\ Find(c, PARAMETER_OPEN) # 0 /\ Len(c) \in Nat
        BY <2>m, <4>1, FindType, LenOfText
      <4> QED BY <4>2
    <3>2. Past(c, Find(c, PARAMETER_OPEN), PARAMETER_OPEN) \in Text
          /\ Len(Past(c, Find(c, PARAMETER_OPEN), PARAMETER_OPEN)) < Len(c)
      BY <2>m, <3>1, LenOfText, PastShorter
    <3> QED BY <2>1, <3>2
  <2>3. PICK k \in 0..(Len(a) + 1) : k = keyEnd(at)
    <3>1. Find(a, TAG_END) \in 0..Len(a) /\ Len(a) \in Nat
      BY <2>m, FindType, LenOfText
    <3> QED BY <2>2, <3>1
  <2>4. PICK v \in Text : v = valueText(at) /\ Len(v) <= Len(a)
    <3>1. k + 1 \in Nat \ {0}
      BY <2>3, LenOfText
    <3> QED BY <2>2, <2>3, <3>1, FromShorter
  <2>5. PICK d \in 1..Len(v) : d = valueEnd(at)
    <3>1. Find(v, PARAMETER_CLOSE) \in 0..Len(v) /\ Len(v) \in Nat
      BY <2>m, FindType, LenOfText
    <3>2. Find(v, PARAMETER_CLOSE) # 0
      BY <1>4, <2>4
    <3> QED BY <2>4, <3>1, <3>2
  <2>6. PICK r \in Text : r = rest(at) /\ Len(r) < Len(v)
    <3>1. Past(v, d, PARAMETER_CLOSE) \in Text /\ Len(Past(v, d, PARAMETER_CLOSE)) < Len(v)
      BY <2>m, <2>5, LenOfText, PastShorter
    <3> QED BY <2>4, <2>5, <3>1
  <2>7. resume(at) \in (at + 1)..m /\ resume(at) \in S
    <3>1. Len(r) \in Nat /\ Len(v) \in Nat /\ Len(a) \in Nat /\ Len(c) \in Nat
      BY LenOfText
    <3>2. Len(r) < m - at
      BY <2>1, <2>2, <2>4, <2>6, <3>1
    <3>3. m - Len(r) \in (at + 1)..m /\ m - Len(r) \in S
      BY <3>1, <3>2
    <3>4. resume(at) = m - Len(r)
      <4>1. Len(inner) \in Nat
        BY LenOfText
      <4>2. resume(at) = Len(inner) - Len(r) + 1
        BY <2>6
      <4> HIDE DEF resume
      <4> QED BY <1>1, <3>1, <4>1, <4>2
    <3> HIDE DEF resume
    <3> QED BY <3>3, <3>4
  <2>8. Trim(Before(a, k)) \in Text
    BY <2>3, BeforeText, TrimType
  <2>9. Unframed(Before(v, d)) \in Text
    <3>1. d \in 0..(Len(v) + 1)
      BY <2>5, LenOfText
    <3> QED BY <3>1, BeforeText, UnframedType
  <2>10. member(at) \in [key : Text, value : Text]
    BY <2>2, <2>3, <2>4, <2>5, <2>8, <2>9
  <2> HIDE DEF member, resume
  <2> QED BY <2>7, <2>10
<1> HIDE DEF cursor, keyEnd, valueEnd, member, resume
<1>2. PICK step : step = [i \in S |-> [g \in [S -> V] |-> body(i, g)]]
  OBVIOUS
<1>3. PICK Good : Good = [i \in S |-> V]
  OBVIOUS
<1>5. ASSUME NEW at \in S, NEW g
      PROVE  body(at, g) = IF broken(at) THEN << >> ELSE <<member(at)>> \o g[resume(at)]
  OBVIOUS
<1> HIDE DEF body, broken
<1>9. ASSUME NEW at \in S, NEW f, NEW g, AgreeOn(f, g, (at + 1)..m)
      PROVE  body(at, f) = body(at, g)
  <2>1. ~broken(at) => f[resume(at)] = g[resume(at)]
    BY <1>4, <1>9 DEF AgreeOn
  <2> QED BY <1>5, <2>1
<1>10. ASSUME NEW at \in S, NEW g \in [S -> V] PROVE body(at, g) \in V
  <2>1. CASE broken(at)
    BY <1>5, <1>e, <2>1
  <2>2. CASE ~broken(at)
    <3>1. g[resume(at)] \in V /\ member(at) \in [key : Text, value : Text]
      BY <1>4, <2>2
    <3>2. \A S0 : \A a \in S0 : \A s \in Seq(S0) : <<a>> \o s \in Seq(S0)
      OBVIOUS
    <3>3. <<member(at)>> \o g[resume(at)] \in V
      BY <1>v, <3>1, <3>2 DEF MemberTexts
    <3> QED BY <1>5, <2>2, <3>3
  <2> QED BY <2>1, <2>2
<1>11. ASSUME NEW i \in S, NEW g \in [S -> V] PROVE step[i][g] = body(i, g)
  BY <1>2
<1>12. IsStep(step, S, V)
  BY <1>2, <1>10 DEF IsStep
<1>13. LooksLater(step, 1, m, V)
  BY <1>9, <1>11 DEF LooksLater
<1>14. KeepsLater(step, Good, 1, m, V)
  BY <1>3, <1>10, <1>11 DEF KeepsLater
<1>15. PICK f \in [S -> V] : \A i \in S : f[i] = step[i][f] /\ f[i] \in Good[i]
  <2>1. 1 \in Nat /\ V # {}
    BY <1>e
  <2>2. SolvedLater(step, Good, 1, m, V)
    BY <1>12, <1>13, <1>14, <2>1, LaterRecursion
  <2> QED BY <2>2 DEF SolvedLater
<1>16. f = [i \in S |-> body(i, f)]
  <2>1. f = [i \in S |-> f[i]]
    OBVIOUS
  <2>2. \A i \in S : f[i] = body(i, f)
    BY <1>11, <1>15
  <2> QED BY <2>1, <2>2, Zenon
<1>17. PICK e : e = [i \in S |-> body(i, e)] /\ ParametersOf(inner) = e[1]
  <2> DEFINE positions == 1..(Len(inner) + 1)
             table(e) == [i \in positions |-> body(i, e)]
  <2>1. ParametersOf(inner) = (CHOOSE e : e = table(e))[1]
    BY Zenon DEF ParametersOf, body, member, cursor, keyEnd, valueEnd, resume
  <2>2. \A e : table(e) = [i \in S |-> body(i, e)]
    BY <1>1
  <2> HIDE DEF table
  <2>3. PICK e : e = CHOOSE d : d = table(d)
    OBVIOUS
  <2>4. e = table(e)
    BY <1>16, <2>2, <2>3
  <2>5. e = [i \in S |-> body(i, e)]
    BY <2>2, <2>4
  <2>6. ParametersOf(inner) = e[1]
    BY <2>1, <2>3
  <2> QED BY <2>5, <2>6, Zenon
<1>18. AgreeOn(e, f, 1..m)
  <2>1. ASSUME NEW i \in 1..m, AgreeOn(e, f, (i + 1)..m) PROVE e[i] = f[i]
    <3>1. e[i] = body(i, e)
      BY <1>17
    <3>2. f[i] = body(i, f) /\ body(i, e) = body(i, f)
      BY <1>9, <1>11, <1>15, <2>1
    <3> QED BY <3>1, <3>2
  <2>2. \A i \in 1..m : AgreeOn(e, f, (i + 1)..m) => e[i] = f[i]
    BY <2>1
  <2>3. 1 \in Nat
    OBVIOUS
  <2> QED BY <2>2, <2>3, AgreeLater
<1>19. 1 \in S
  <2>1. Len(inner) \in Nat
    BY LenOfText
  <2> QED BY <1>1, <2>1
<1> QED BY <1>v, <1>3, <1>15, <1>17, <1>18, <1>19 DEF AgreeOn

LEMMA ParseCallType ==
  ASSUME NEW body \in Text
  PROVE  ParseCall(body) \in CallTexts
<1>m. FUNCTION_OPEN \in Text \ {<< >>} /\ FUNCTION_CLOSE \in Text \ {<< >>}
      /\ TAG_END \in Text \ {<< >>}
  BY MarkerTexts
<1>1. NoCall \in CallTexts
  BY NotAnObjectType, TextNothing DEF NoCall, CallTexts
<1>2. PICK after \in Text : after = Past(body, Find(body, FUNCTION_OPEN), FUNCTION_OPEN)
  <2>1. Find(body, FUNCTION_OPEN) \in 0..Len(body) /\ Len(body) \in Nat
    BY <1>m, FindType, LenOfText
  <2>2. Find(body, FUNCTION_OPEN) \in Nat
    BY <2>1
  <2> QED BY <1>m, <2>2, PastText
<1>3. PICK nameEnd \in 0..Len(after) : nameEnd = Find(after, TAG_END)
  BY <1>m, FindType
<1>4. PICK name \in Text : name = Trim(Before(after, nameEnd))
  <2>1. nameEnd \in 0..(Len(after) + 1)
    BY LenOfText
  <2> QED BY <2>1, BeforeText, TrimType
<1>5. PICK inner \in Text : inner = From(after, nameEnd + 1)
  <2>1. nameEnd + 1 \in Nat \ {0}
    BY LenOfText
  <2> QED BY <2>1, FromShorter
<1>6. PICK close \in 0..Len(inner) : close = Find(inner, FUNCTION_CLOSE)
  BY <1>m, FindType
<1>7. ParametersOf(Before(inner, close)) \in MemberTexts
  <2>1. close \in 0..(Len(inner) + 1)
    BY LenOfText
  <2> QED BY <2>1, BeforeText, ParametersOfType
<1>8. [name |-> name, parameters |-> ParametersOf(Before(inner, close))] \in CallTexts
  BY <1>7 DEF CallTexts
<1>9. ParseCall(body) \in {NoCall, [name |-> name, parameters |-> ParametersOf(Before(inner, close))]}
  BY <1>2, <1>3, <1>4, <1>5, <1>6, Zenon DEF ParseCall
<1> QED BY <1>1, <1>8, <1>9

LEMMA ParseType ==
  ASSUME NEW text \in Text
  PROVE  Parse(text) \in Seq(CallTexts)
<1>1. PICK m \in Nat : m = Len(text) + 1
  BY LenOfText
<1>v. PICK V : V = Seq(CallTexts)
  OBVIOUS
<1>e. << >> \in V /\ (\A c \in CallTexts : <<c>> \in V) /\ \A x, y \in V : x \o y \in V
  <2>1. \A S : << >> \in Seq(S) /\ (\A c \in S : <<c>> \in Seq(S)) /\ \A x, y \in Seq(S) : x \o y \in Seq(S)
    OBVIOUS
  <2> QED BY <1>v, <2>1
<1> DEFINE S == 1..m
           rest(at) == From(text, at)
           past(at) == Past(rest(at), Find(rest(at), CALL_OPEN), CALL_OPEN)
           end(at) == Find(past(at), CALL_CLOSE)
           block(at) == IF end(at) = 0 THEN past(at) ELSE Before(past(at), end(at))
           after(at) == IF end(at) = 0 THEN << >> ELSE Past(past(at), end(at), CALL_CLOSE)
           call(at) == ParseCall(block(at))
           head(at) == IF call(at) = NoCall THEN << >> ELSE <<call(at)>>
           none(at) == ~Occurs(rest(at), CALL_OPEN)
           resume(at) == Len(text) - Len(after(at)) + 1
           body(at, g) == IF none(at) THEN << >> ELSE head(at) \o g[resume(at)]
<1>4. ASSUME NEW at \in S, ~none(at)
      PROVE  head(at) \in V /\ resume(at) \in (at + 1)..m /\ resume(at) \in S
  <2>m. CALL_OPEN \in Text \ {<< >>} /\ CALL_CLOSE \in Text \ {<< >>}
    BY MarkerTexts
  <2>1. PICK c \in Text : c = rest(at) /\ Len(c) = m - at
    <3>1. at \in Nat \ {0} /\ at <= m
      OBVIOUS
    <3>2. From(text, at) \in Text
          /\ Len(From(text, at)) = IF at <= Len(text) THEN Len(text) - at + 1 ELSE 0
      BY <3>1, FromText
    <3>3. Len(text) \in Nat
      BY LenOfText
    <3> QED BY <1>1, <3>1, <3>2, <3>3
  <2>2. PICK a \in Text : a = past(at) /\ Len(a) < Len(c)
    <3>1. Find(c, CALL_OPEN) \in 1..Len(c)
      <4>1. Occurs(c, CALL_OPEN)
        BY <1>4, <2>1
      <4>2. Find(c, CALL_OPEN) \in 0..Len(c) /\ Find(c, CALL_OPEN) # 0 /\ Len(c) \in Nat
        BY <2>m, <4>1, FindType, LenOfText
      <4> QED BY <4>2
    <3>2. Past(c, Find(c, CALL_OPEN), CALL_OPEN) \in Text
          /\ Len(Past(c, Find(c, CALL_OPEN), CALL_OPEN)) < Len(c)
      BY <2>m, <3>1, LenOfText, PastShorter
    <3> QED BY <2>1, <3>2
  <2>3. PICK d \in 0..Len(a) : d = end(at)
    BY <2>m, <2>2, FindType
  <2>4. Len(a) \in Nat /\ Len(c) \in Nat /\ Len(<< >>) = 0 /\ << >> \in Text
    BY LenOfText, TextNothing
  <2>5. PICK r \in Text : r = after(at) /\ Len(r) <= Len(a)
    <3>1. CASE d = 0
      <4>1. after(at) = << >>
        BY <2>3, <3>1
      <4> HIDE DEF after
      <4> QED BY <2>4, <4>1
    <3>2. CASE d # 0
      <4>1. Past(a, d, CALL_CLOSE) \in Text /\ Len(Past(a, d, CALL_CLOSE)) < Len(a)
        <5>1. d \in Nat \ {0} /\ d <= Len(a)
          BY <2>4, <3>2
        <5> QED BY <2>m, <5>1, PastShorter
      <4>2. after(at) = Past(a, d, CALL_CLOSE)
        BY <2>2, <2>3, <3>2
      <4>3. Len(Past(a, d, CALL_CLOSE)) \in Nat
        BY <4>1, LenOfText
      <4> HIDE DEF after
      <4> QED BY <2>4, <4>1, <4>2, <4>3
    <3> QED BY <3>1, <3>2
  <2>6. resume(at) \in (at + 1)..m /\ resume(at) \in S
    <3>1. Len(r) \in Nat /\ Len(text) \in Nat
      BY LenOfText
    <3>2. Len(r) < m - at
      BY <2>1, <2>2, <2>4, <2>5, <3>1
    <3>3. m - Len(r) \in (at + 1)..m /\ m - Len(r) \in S
      BY <3>1, <3>2
    <3>4. resume(at) = m - Len(r)
      <4>1. resume(at) = Len(text) - Len(r) + 1
        BY <2>5
      <4> HIDE DEF resume
      <4> QED BY <1>1, <3>1, <4>1
    <3> HIDE DEF resume
    <3> QED BY <3>3, <3>4
  <2>7. PICK b \in Text : b = block(at)
    <3>1. Before(a, d) \in Text
      <4>1. d \in 0..(Len(a) + 1)
        BY <2>4
      <4> QED BY <4>1, BeforeText
    <3>2. block(at) \in {a, Before(a, d)}
      BY <2>2, <2>3
    <3> HIDE DEF block
    <3> QED BY <3>1, <3>2
  <2>8. call(at) \in CallTexts
    BY <2>7, ParseCallType
  <2>9. head(at) \in V
    <3> HIDE DEF call
    <3> QED BY <1>e, <2>8
  <2> HIDE DEF head, resume
  <2> QED BY <2>6, <2>9
<1> HIDE DEF head, none, resume
<1>2. PICK step : step = [i \in S |-> [g \in [S -> V] |-> body(i, g)]]
  OBVIOUS
<1>3. PICK Good : Good = [i \in S |-> V]
  OBVIOUS
<1>5. ASSUME NEW at \in S, NEW g
      PROVE  body(at, g) = IF none(at) THEN << >> ELSE head(at) \o g[resume(at)]
  OBVIOUS
<1> HIDE DEF body
<1>9. ASSUME NEW at \in S, NEW f, NEW g, AgreeOn(f, g, (at + 1)..m)
      PROVE  body(at, f) = body(at, g)
  <2>1. ~none(at) => f[resume(at)] = g[resume(at)]
    BY <1>4, <1>9 DEF AgreeOn
  <2> QED BY <1>5, <2>1
<1>10. ASSUME NEW at \in S, NEW g \in [S -> V] PROVE body(at, g) \in V
  <2>1. CASE none(at)
    BY <1>5, <1>e, <2>1
  <2>2. CASE ~none(at)
    <3>1. g[resume(at)] \in V /\ head(at) \in V
      BY <1>4, <2>2
    <3>2. head(at) \o g[resume(at)] \in V
      BY <1>e, <3>1
    <3> QED BY <1>5, <2>2, <3>2
  <2> QED BY <2>1, <2>2
<1>11. ASSUME NEW i \in S, NEW g \in [S -> V] PROVE step[i][g] = body(i, g)
  BY <1>2
<1>12. IsStep(step, S, V)
  BY <1>2, <1>10 DEF IsStep
<1>13. LooksLater(step, 1, m, V)
  BY <1>9, <1>11 DEF LooksLater
<1>14. KeepsLater(step, Good, 1, m, V)
  BY <1>3, <1>10, <1>11 DEF KeepsLater
<1>15. PICK f \in [S -> V] : \A i \in S : f[i] = step[i][f] /\ f[i] \in Good[i]
  <2>1. 1 \in Nat /\ V # {}
    BY <1>e
  <2>2. SolvedLater(step, Good, 1, m, V)
    BY <1>12, <1>13, <1>14, <2>1, LaterRecursion
  <2> QED BY <2>2 DEF SolvedLater
<1>16. f = [i \in S |-> body(i, f)]
  <2>1. f = [i \in S |-> f[i]]
    OBVIOUS
  <2>2. \A i \in S : f[i] = body(i, f)
    BY <1>11, <1>15
  <2> QED BY <2>1, <2>2, Zenon
<1>17. PICK e : e = [i \in S |-> body(i, e)] /\ Parse(text) = e[1]
  <2> DEFINE positions == 1..(Len(text) + 1)
             table(e) == [i \in positions |-> body(i, e)]
  <2>1. Parse(text) = (CHOOSE e : e = table(e))[1]
    BY Zenon DEF Parse, body, head, none, resume
  <2>2. \A e : table(e) = [i \in S |-> body(i, e)]
    BY <1>1
  <2> HIDE DEF table
  <2>3. PICK e : e = CHOOSE d : d = table(d)
    OBVIOUS
  <2>4. e = table(e)
    BY <1>16, <2>2, <2>3
  <2>5. e = [i \in S |-> body(i, e)]
    BY <2>2, <2>4
  <2>6. Parse(text) = e[1]
    BY <2>1, <2>3
  <2> QED BY <2>5, <2>6, Zenon
<1>18. AgreeOn(e, f, 1..m)
  <2>1. ASSUME NEW i \in 1..m, AgreeOn(e, f, (i + 1)..m) PROVE e[i] = f[i]
    <3>1. e[i] = body(i, e)
      BY <1>17
    <3>2. f[i] = body(i, f) /\ body(i, e) = body(i, f)
      BY <1>9, <1>11, <1>15, <2>1
    <3> QED BY <3>1, <3>2
  <2>2. \A i \in 1..m : AgreeOn(e, f, (i + 1)..m) => e[i] = f[i]
    BY <2>1
  <2>3. 1 \in Nat
    OBVIOUS
  <2> QED BY <2>2, <2>3, AgreeLater
<1>19. 1 \in S
  <2>1. Len(text) \in Nat
    BY LenOfText
  <2> QED BY <1>1, <2>1
<1> QED BY <1>v, <1>3, <1>15, <1>17, <1>18, <1>19 DEF AgreeOn

-----------------------------------------------------------------------------
(***************************************************************************)
(* What the template renders is a text.                                    *)
(***************************************************************************)
ChatCalls == Seq([name : Text, arguments : Text])
ChatTexts ==
  [role : {"system", "user", "assistant", "tool"}, content : Text,
   reasoning : {option \in Seq(Text) : Len(option) <= 1}, tool_calls : ChatCalls]

LEMMA LineText ==
  \E line \in Text : line = <<"\n">> /\ <<"\n", "\n">> = line \o line
<1>1. PICK a : a = "\n"
  OBVIOUS
<1>2. a \in Symbols
  BY <1>1, Zenon DEF Symbols
<1>3. \A b : <<b, b>> = <<b>> \o <<b>>
  OBVIOUS
<1>4. <<a>> \in Text
  BY <1>2, SymbolText
<1> QED BY <1>1, <1>3, <1>4

LEMMA ReverseType ==
  ASSUME NEW text \in Text
  PROVE  Reverse(text) \in Text
<1>1. \A S : \A s \in Seq(S) : Reverse(s) \in Seq(S)
  BY DEF Reverse
<1> QED BY <1>1 DEF Text

LEMMA TrimNewlinesType ==
  ASSUME NEW text \in Text
  PROVE  TrimNewlinesStart(text) \in Text /\ TrimNewlinesEnd(text) \in Text
<1>1. ASSUME NEW t \in Text PROVE TrimNewlinesStart(t) \in Text
  <2>1. PICK kept : kept = {i \in DOMAIN t : t[i] # "\n"}
    OBVIOUS
  <2>2. kept \subseteq DOMAIN t
    BY <2>1
  <2>3. DOMAIN t = 1..Len(t) /\ Len(t) \in Nat
    BY LenOfText DEF Text
  <2>4. CASE kept = {}
    BY <2>1, <2>4, TextNothing, Zenon DEF TrimNewlinesStart
  <2>5. CASE kept # {}
    <3>1. kept \in SUBSET Nat /\ \A i \in kept : i # 0
      BY <2>2, <2>3
    <3>2. Min(kept) \in kept
      BY <2>5, <3>1, MinIsLeast
    <3>3. From(t, Min(kept)) \in Text
      BY <3>1, <3>2, FromShorter
    <3> QED BY <2>1, <2>5, <3>3, Zenon DEF TrimNewlinesStart
  <2> QED BY <2>4, <2>5
<1>2. Reverse(TrimNewlinesStart(Reverse(text))) \in Text
  BY <1>1, ReverseType
<1> QED BY <1>1, <1>2 DEF TrimNewlinesEnd

LEMMA SplitType ==
  ASSUME NEW message, message.content \in Text,
         message.reasoning \in Seq(Text)
  PROVE  SplitReasoning(message).reasoning \in Text /\ SplitReasoning(message).visible \in Text
<1>m. THINK \in Text \ {<< >>} /\ END_THINK \in Text \ {<< >>}
  BY MarkerTexts
<1>1. PICK trimmed \in Text : trimmed = Trim(message.content)
  BY TrimType
<1>2. PICK head \in Text : head = TrimNewlinesEnd(Before(trimmed, Find(trimmed, END_THINK)))
  <2>1. Find(trimmed, END_THINK) \in 0..(Len(trimmed) + 1)
    <3>1. Find(trimmed, END_THINK) \in 0..Len(trimmed) /\ Len(trimmed) \in Nat
      BY <1>m, FindType, LenOfText
    <3> QED BY <3>1
  <2> QED BY <2>1, BeforeText, TrimNewlinesType
<1>3. ASSUME NEW t \in Text, NEW p \in Text \ {<< >>} PROVE Past(t, FindLast(t, p), p) \in Text
  <2>1. FindLast(t, p) \in Nat
    <3>1. FindLast(t, p) \in 0..Len(t) /\ Len(t) \in Nat
      BY FindLastType, LenOfText
    <3> QED BY <3>1
  <2> QED BY <2>1, PastText
<1>4. PICK inside \in Text :
        inside = IF Occurs(head, THINK) THEN Past(head, FindLast(head, THINK), THINK) ELSE head
  BY <1>m, <1>3
<1>5. CASE message.reasoning # << >>
  <2>1. message.reasoning[1] \in Text
    <3>1. \A S : \A s \in Seq(S) : s # << >> => s[1] \in S
      OBVIOUS
    <3> QED BY <1>5, <3>1
  <2>2. SplitReasoning(message) = [reasoning |-> message.reasoning[1], visible |-> trimmed]
    BY <1>1, <1>5, Zenon DEF SplitReasoning
  <2> QED BY <2>1, <2>2
<1>6. CASE message.reasoning = << >> /\ ~Occurs(trimmed, END_THINK)
  <2>1. SplitReasoning(message) = [reasoning |-> << >>, visible |-> trimmed]
    BY <1>1, <1>6, Zenon DEF SplitReasoning
  <2> QED BY <2>1, TextNothing
<1>7. CASE message.reasoning = << >> /\ Occurs(trimmed, END_THINK)
  <2>1. SplitReasoning(message) =
          [reasoning |-> TrimNewlinesStart(inside),
           visible |-> TrimNewlinesStart(Past(trimmed, FindLast(trimmed, END_THINK), END_THINK))]
    BY <1>1, <1>2, <1>4, <1>7, Zenon DEF SplitReasoning
  <2>2. Past(trimmed, FindLast(trimmed, END_THINK), END_THINK) \in Text
    BY <1>m, <1>3
  <2> QED BY <2>1, <2>2, TrimNewlinesType
<1> QED BY <1>5, <1>6, <1>7

LEMMA TurnType ==
  ASSUME NEW role \in Symbols, NEW body \in Text
  PROVE  Turn(role, body) \in Text
<1>1. <<role, "\n">> \in Text
  <2>1. "\n" \in Symbols
    BY Zenon DEF Symbols
  <2> QED BY <2>1, PairText
<1>2. IM_START \in Text /\ IM_END \in Text
  BY MarkerTexts
<1>3. PICK header \in Text : header = <<role, "\n">>
  BY <1>1
<1>4. IM_START \o header \o body \o IM_END \in Text
  BY <1>2, <1>3, TextConcat
<1> QED BY <1>3, <1>4 DEF Turn

LEMMA RolesAreSymbols ==
  "system" \in Symbols /\ "user" \in Symbols /\ "assistant" \in Symbols /\ "tool" \in Symbols
BY Zenon DEF Symbols

LEMMA AssistantTurnIs ==
  ASSUME NEW message \in ChatTexts, NEW current
  PROVE  \E body \in Text : AssistantTurn(message, current) = Turn("assistant", body)
<1>1. /\ message.content \in Text /\ message.reasoning \in Seq(Text)
      /\ message.tool_calls \in ChatCalls
  BY DEF ChatTexts
<1>2. PICK split : split = SplitReasoning(message)
  OBVIOUS
<1>3. split.reasoning \in Text /\ split.visible \in Text
  BY <1>1, <1>2, SplitType
<1>4. PICK line \in Text : line = <<"\n">> /\ <<"\n", "\n">> = line \o line
  BY LineText
<1>m. THINK \in Text /\ END_THINK \in Text
  BY MarkerTexts
<1>5. PICK calls \in ChatCalls : calls = message.tool_calls
  BY <1>1
<1> DEFINE lead(i) == CASE i = 1 /\ split.visible # << >> -> line \o line
                        [] i = 1 /\ split.visible = << >> -> << >>
                        [] OTHER -> line
           call(i) == lead(i) \o Render(calls[i].name, calls[i].arguments)
           thought == IF current
                      THEN THINK \o line \o Trim(split.reasoning) \o line \o END_THINK \o (line \o line)
                      ELSE << >>
<1>6. PICK f : f = [i \in DOMAIN calls |-> call(i)]
  OBVIOUS
<1>7. AssistantTurn(message, current) = Turn("assistant", thought \o split.visible \o FlattenSeq(f))
  BY <1>2, <1>4, <1>5, <1>6, Zenon DEF AssistantTurn
<1>8. FlattenSeq(f) \in Text
  <2>1. ASSUME NEW i \in DOMAIN calls PROVE call(i) \in Text
    <3>1. calls[i].name \in Text /\ calls[i].arguments \in Text
      <4>1. \A S : \A s \in Seq(S) : \A k \in DOMAIN s : s[k] \in S
        OBVIOUS
      <4>2. calls[i] \in [name : Text, arguments : Text]
        BY <4>1 DEF ChatCalls
      <4> QED BY <4>2
    <3>2. lead(i) \in Text
      BY <1>4, TextConcat, TextNothing
    <3>3. Render(calls[i].name, calls[i].arguments) \in Text
      BY <3>1, RenderType
    <3> HIDE DEF lead
    <3> QED BY <3>2, <3>3, TextConcat
  <2> HIDE DEF call
  <2>2. \A i \in DOMAIN calls : f[i] \in Text
    BY <1>6, <2>1
  <2>3. f = [i \in DOMAIN calls |-> f[i]]
    BY <1>6
  <2> QED BY <2>2, <2>3, EachText DEF ChatCalls
<1>9. thought \in Text
  <2>1. Trim(split.reasoning) \in Text
    BY <1>3, TrimType
  <2>2. PICK t \in Text : t = Trim(split.reasoning)
    BY <2>1
  <2>3. THINK \o line \o t \o line \o END_THINK \in Text /\ line \o line \in Text
    BY <1>4, <1>m, <2>2, TextConcat
  <2>4. (THINK \o line \o t \o line \o END_THINK) \o (line \o line) \in Text
    BY <2>3, TextConcat
  <2> QED BY <2>2, <2>4, TextNothing
<1> HIDE DEF thought
<1>10. thought \o split.visible \o FlattenSeq(f) \in Text
  BY <1>3, <1>8, <1>9, TextConcat
<1> QED BY <1>7, <1>10

LEMMA AssistantTurnType ==
  ASSUME NEW message \in ChatTexts, NEW current
  PROVE  AssistantTurn(message, current) \in Text
BY AssistantTurnIs, TurnType, RolesAreSymbols

\* A text that says who speaks, after its first symbol.
Speaks(text, role) == text \in Text /\ Len(text) >= 2 /\ text[2] = role

LEMMA StillSpeaks ==
  ASSUME NEW s, NEW role, Speaks(s, role), NEW t \in Text
  PROVE  Speaks(s \o t, role)
BY TextConcat, LenOfText DEF Speaks

LEMMA TwoOfOne ==
  ASSUME NEW s \in Text, NEW t \in Text, Len(s) = 1, Len(t) = 1
  PROVE  s \o t \in Text /\ Len(s \o t) = 2 /\ (s \o t)[2] = t[1]
<1>1. \A S : \A a, b \in Seq(S) :
        /\ a \o b \in Seq(S) /\ Len(a \o b) = Len(a) + Len(b)
        /\ \A k \in 1..Len(b) : (a \o b)[Len(a) + k] = b[k]
  OBVIOUS
<1>2. 1 \in 1..Len(t) /\ Len(s) + 1 = 2
  OBVIOUS
<1> QED BY <1>1, <1>2 DEF Text

LEMMA ToolTurnType ==
  ASSUME NEW messages, NEW i \in DOMAIN messages, messages[i].content \in Text
  PROVE  /\ ToolTurn(messages, i) \in Text
         /\ ~(i - 1 \in DOMAIN messages /\ messages[i - 1].role = "tool") => Speaks(ToolTurn(messages, i), "user")
<1>1. PICK line \in Text : line = <<"\n">>
  BY LineText
<1>2. TOOL_RESPONSE \in Text /\ END_TOOL_RESPONSE \in Text /\ IM_START \in Text /\ IM_END \in Text
  BY MarkerTexts
<1> DEFINE isTool(k) == k \in DOMAIN messages /\ messages[k].role = "tool"
<1>3. PICK opened \in Text : opened = (IF isTool(i - 1) THEN << >> ELSE IM_START \o <<"user">>)
                            /\ (~isTool(i - 1) => Speaks(opened, "user"))
  <2>1. PICK u \in Symbols : u = "user"
    BY RolesAreSymbols
  <2>2. PICK user \in Text : user = <<u>> /\ Len(user) = 1 /\ user[1] = u
    <3>1. \A S : \A a \in S : Len(<<a>>) = 1 /\ <<a>>[1] = a
      OBVIOUS
    <3> QED BY <2>1, <3>1, SymbolText
  <2>3. PICK start \in Text : start = IM_START /\ Len(start) = 1
    <3>1. \A a : Len(<<a>>) = 1
      OBVIOUS
    <3> QED BY <1>2, <3>1 DEF IM_START
  <2>4. Speaks(start \o user, u) /\ start \o user \in Text
    <3>1. user \in Text /\ Len(user) = 1 /\ 1 \in 1..Len(user)
      BY <2>2
    <3>2. start \o user \in Text /\ Len(start \o user) = 2 /\ (start \o user)[2] = user[1]
      BY <2>3, <3>1, TwoOfOne
    <3> QED BY <2>2, <3>2 DEF Speaks
  <2> HIDE DEF isTool
  <2>5. CASE isTool(i - 1)
    BY <2>5, TextNothing
  <2>6. CASE ~isTool(i - 1)
    BY <2>1, <2>2, <2>3, <2>4, <2>6
  <2> QED BY <2>5, <2>6
<1>4. PICK closed \in Text : closed = IF isTool(i + 1) THEN << >> ELSE IM_END
  <2> HIDE DEF isTool
  <2> QED BY <1>2, TextNothing
<1>5. PICK inner \in Text : inner = Trim(messages[i].content)
  BY TrimType
<1>6. ToolTurn(messages, i) = opened \o line \o TOOL_RESPONSE \o line \o inner \o line
                              \o END_TOOL_RESPONSE \o closed
  BY <1>1, <1>3, <1>4, <1>5, Zenon DEF ToolTurn
<1>7. opened \o line \o TOOL_RESPONSE \o line \o inner \in Text
  BY <1>1, <1>2, <1>3, <1>5, TextConcat
<1>8. PICK t \in Text : t = opened \o line \o TOOL_RESPONSE \o line \o inner
  BY <1>7
<1>9. t \o line \o END_TOOL_RESPONSE \o closed \in Text
  BY <1>1, <1>2, <1>4, <1>8, TextConcat
<1>10. ASSUME ~isTool(i - 1) PROVE Speaks(ToolTurn(messages, i), "user")
  <2> HIDE DEF isTool
  <2>1. Speaks(opened, "user")
    BY <1>3, <1>10
  <2>2. PICK a : a = opened \o line \o TOOL_RESPONSE \o line
    OBVIOUS
  <2>3. Speaks(a, "user")
    BY <1>1, <1>2, <2>1, <2>2, StillSpeaks
  <2>4. PICK b : b = a \o inner \o line
    OBVIOUS
  <2>5. Speaks(b, "user")
    BY <1>1, <1>5, <2>3, <2>4, StillSpeaks
  <2>6. Speaks(b \o END_TOOL_RESPONSE \o closed, "user")
    BY <1>2, <1>4, <2>5, StillSpeaks
  <2> QED BY <1>6, <2>2, <2>4, <2>6
<1>11. ToolTurn(messages, i) \in Text
  BY <1>6, <1>8, <1>9
<1> QED BY <1>10, <1>11

LEMMA RenderedType ==
  ASSUME NEW messages \in Seq(ChatTexts), NEW i \in DOMAIN messages
  PROVE  Rendered(messages, i) \in Text
<1>1. PICK message \in ChatTexts : message = messages[i]
  <2>1. \A S : \A s \in Seq(S) : \A k \in DOMAIN s : s[k] \in S
    OBVIOUS
  <2> QED BY <2>1
<1>2. message.role \in {"system", "user", "assistant", "tool"} /\ message.content \in Text
  BY DEF ChatTexts
<1>3. CASE message.role = "system"
  <2>1. Rendered(messages, i) = << >>
    BY <1>1, <1>3 DEF Rendered
  <2> QED BY <2>1, TextNothing
<1>4. CASE message.role = "user"
  <2>1. Rendered(messages, i) = Turn("user", Trim(message.content))
    BY <1>1, <1>4 DEF Rendered
  <2> QED BY <1>2, <2>1, TurnType, TrimType, RolesAreSymbols
<1>5. CASE message.role = "assistant"
  <2>1. Rendered(messages, i) = AssistantTurn(message, LastQueryIndex(messages) \in 1..(i - 1))
    BY <1>1, <1>5 DEF Rendered
  <2> QED BY <2>1, AssistantTurnType
<1>6. CASE message.role = "tool"
  <2>1. Rendered(messages, i) = ToolTurn(messages, i)
    BY <1>1, <1>6 DEF Rendered
  <2> QED BY <1>1, <1>2, <2>1, ToolTurnType
<1> QED BY <1>2, <1>3, <1>4, <1>5, <1>6

\* The tools a prompt may list.
SystemText(messages) ==
  IF messages # << >> /\ messages[1].role = "system" THEN Trim(messages[1].content) ELSE << >>
ListHeading == <<"# Tools", "<tools>">>

LEMMA SystemBlockIs ==
  ASSUME NEW messages \in Seq(ChatTexts), NEW tools \in Seq(Tools)
  PROVE  /\ ListHeading \in Text /\ SystemText(messages) \in Text
         /\ tools # << >> => \E body \in Text : /\ IsPrefix(ListHeading, body)
                                              /\ SystemBlock(messages, tools) = Turn("system", body)
         /\ tools = << >> => SystemBlock(messages, tools) =
                               IF SystemText(messages) = << >> THEN << >>
                               ELSE Turn("system", SystemText(messages))
<1>1. PICK system \in Text :
        system = IF messages # << >> /\ messages[1].role = "system" THEN Trim(messages[1].content) ELSE << >>
  <2>1. messages # << >> => messages[1].content \in Text
    <3>1. \A S : \A s \in Seq(S) : s # << >> => s[1] \in S
      OBVIOUS
    <3>2. messages # << >> => messages[1] \in ChatTexts
      BY <3>1
    <3> QED BY <3>2 DEF ChatTexts
  <2> QED BY <2>1, TrimType, TextNothing
<1>2. PICK line \in Text : line = <<"\n">> /\ <<"\n", "\n">> = line \o line
  BY LineText
<1>3. PICK f : f = [i \in DOMAIN tools |-> line \o tools[i].name]
  OBVIOUS
<1>4. FlattenSeq(f) \in Text
  <2>1. \A i \in DOMAIN tools : tools[i].name \in Text
    <3>1. \A S : \A s \in Seq(S) : \A k \in DOMAIN s : s[k] \in S
      OBVIOUS
    <3>2. \A i \in DOMAIN tools : tools[i] \in Tools
      BY <3>1
    <3> QED BY <3>2, ConversationAssumption, StringsAreText
  <2>2. \A i \in DOMAIN tools : f[i] \in Text
    BY <1>2, <1>3, <2>1, TextConcat
  <2>3. f = [i \in DOMAIN tools |-> f[i]]
    BY <1>3
  <2> QED BY <2>2, <2>3, EachText
<1>5. PICK heading \in Text : heading = <<"# Tools", "<tools>">>
  <2>1. "# Tools" \in Symbols /\ "<tools>" \in Symbols
    BY Zenon DEF Symbols
  <2> QED BY <2>1, PairText
<1>6. PICK closing \in Text : closing = <<"\n", "</tools>", "<IMPORTANT>">>
  <2>1. \A a, b, c \in Symbols : <<a, b, c>> \in Text
    BY DEF Text
  <2>2. "\n" \in Symbols /\ "</tools>" \in Symbols /\ "<IMPORTANT>" \in Symbols
    BY Zenon DEF Symbols
  <2> QED BY <2>1, <2>2
<1>7. PICK rest \in Text : rest = IF system = << >> THEN << >> ELSE (line \o line) \o system
  BY <1>2, TextConcat, TextNothing
<1>8. SystemBlock(messages, tools) =
        IF tools = << >>
        THEN IF system = << >> THEN << >> ELSE Turn("system", system)
        ELSE Turn("system", (heading \o FlattenSeq(f) \o closing) \o rest)
  BY <1>1, <1>2, <1>3, <1>5, <1>6, <1>7, Zenon DEF SystemBlock
<1>9. ListHeading = heading /\ SystemText(messages) = system
  BY <1>1, <1>5, Zenon DEF ListHeading, SystemText
<1>10. PICK body : body = (heading \o FlattenSeq(f) \o closing) \o rest
  OBVIOUS
<1>11. body \in Text /\ IsPrefix(heading, body)
  <2>1. PICK a \in Text : a = heading \o FlattenSeq(f) /\ IsPrefix(heading, a)
    BY <1>4, <1>5, TextConcat, PrefixOfLonger
  <2>2. PICK b \in Text : b = a \o closing /\ IsPrefix(a, b)
    <3>1. closing \in Text
      BY <1>6
    <3> QED BY <2>1, <3>1, TextConcat, PrefixOfLonger
  <2>3. b \o rest \in Text /\ IsPrefix(b, b \o rest)
    BY <1>7, <2>2, TextConcat, PrefixOfLonger
  <2>4. IsPrefix(heading, b)
    BY <1>5, <2>1, <2>2, PrefixTransitive
  <2>5. IsPrefix(heading, b \o rest)
    BY <1>5, <2>2, <2>3, <2>4, PrefixTransitive
  <2> QED BY <1>10, <2>1, <2>2, <2>3, <2>5
<1> QED BY <1>5, <1>8, <1>9, <1>10, <1>11

LEMMA SystemBlockType ==
  ASSUME NEW messages \in Seq(ChatTexts), NEW tools \in Seq(Tools)
  PROVE  SystemBlock(messages, tools) \in Text
BY SystemBlockIs, TurnType, RolesAreSymbols, TextNothing

\* What is made one of the first of a sequence begins what is made of all of it.
LEMMA FlattenBegins ==
  ASSUME NEW s \in Seq(Text), NEW t \in Seq(Text), Len(s) <= Len(t),
         \A n \in 1..Len(s) : s[n] = t[n]
  PROVE  IsPrefix(FlattenSeq(s), FlattenSeq(t))
<1>1. PICK h : Flattens(h, s) /\ FlattenSeq(s) = h[Len(s)]
  BY FlattenRecursion
<1>2. PICK g : Flattens(g, t) /\ FlattenSeq(t) = g[Len(t)]
  BY FlattenRecursion
<1>3. PICK l \in Nat : l = Len(s)
  OBVIOUS
<1>4. PICK m \in Nat : m = Len(t) /\ l <= m
  BY <1>3
<1>5. h[l] = g[l]
  <2>1. \A n \in 0..Len(s) : h[n] = g[n]
    BY <1>1, <1>2, FlattenPrefix
  <2>2. l \in 0..l
    BY <1>3
  <2> QED BY <1>3, <2>1, <2>2
<1>6. g \in [0..m -> Text] /\ \A n \in 1..m : g[n] = g[n - 1] \o t[n]
  BY <1>2, <1>4 DEF Flattens
<1>7. PICK T : T = {n \in 0..m : n >= l => IsPrefix(g[l], g[n])}
  OBVIOUS
<1>8. 0 \in T
  <2>1. l \in 0..m /\ (0 >= l => l = 0)
    BY <1>3, <1>4
  <2>2. IsPrefix(g[l], g[l])
    BY <1>6, <2>1, PrefixReflexive
  <2> QED BY <1>7, <2>1, <2>2
<1>9. ASSUME NEW n \in 1..m, n - 1 \in T PROVE n \in T
  <2>1. n \in 0..m /\ n - 1 \in 0..m /\ l \in 0..m
    BY <1>3, <1>4
  <2>2. CASE n = l
    <3>1. IsPrefix(g[l], g[l])
      BY <1>6, <2>1, PrefixReflexive
    <3> QED BY <1>7, <2>1, <2>2, <3>1
  <2>3. CASE n < l
    BY <1>7, <2>1, <2>3
  <2>4. CASE n > l
    <3>1. n - 1 >= l
      BY <2>1, <2>4
    <3>2. IsPrefix(g[l], g[n - 1])
      BY <1>7, <1>9, <3>1
    <3>3. g[n - 1] \in Text /\ g[n] \in Text /\ g[l] \in Text /\ t[n] \in Text
      BY <1>4, <1>6, <2>1
    <3>4. IsPrefix(g[n - 1], g[n - 1] \o t[n])
      BY <3>3, PrefixOfLonger
    <3>5. IsPrefix(g[l], g[n])
      BY <1>6, <3>2, <3>3, <3>4, PrefixTransitive
    <3> QED BY <1>7, <2>1, <3>5
  <2> QED BY <2>1, <2>2, <2>3, <2>4
<1>10. \A n \in 0..m : n \in T
  BY <1>8, <1>9, BoundedInduction
<1>11. m \in 0..m /\ m >= l
  BY <1>4
<1>12. IsPrefix(g[l], g[m])
  BY <1>7, <1>10, <1>11
<1> QED BY <1>1, <1>2, <1>3, <1>4, <1>5, <1>12

LEMMA RenderedUpToType ==
  ASSUME NEW messages \in Seq(ChatTexts), NEW tools \in Seq(Tools), NEW n \in 0..Len(messages)
  PROVE  /\ RenderedUpTo(messages, tools, n) \in Text
         /\ [i \in 1..n |-> Rendered(messages, i)] \in Seq(Text)
         /\ Len([i \in 1..n |-> Rendered(messages, i)]) = n
<1>1. PICK f : f = [i \in 1..n |-> Rendered(messages, i)]
  OBVIOUS
<1>2. n \in Nat /\ \A i \in 1..n : i \in DOMAIN messages
  OBVIOUS
<1>3. \A i \in 1..n : f[i] \in Text
  BY <1>1, <1>2, RenderedType
<1>4. f = [i \in 1..n |-> f[i]]
  BY <1>1
<1>5. f \in Seq(Text) /\ Len(f) = n /\ FlattenSeq(f) \in Text
  BY <1>2, <1>3, <1>4, MappedText
<1> QED BY <1>1, <1>5, SystemBlockType, TextConcat DEF RenderedUpTo

\* A prompt begins with what its first messages render as.
LEMMA PromptGrows ==
  ASSUME NEW messages \in Seq(ChatTexts), NEW more \in Seq(ChatTexts), NEW tools \in Seq(Tools),
         NEW n \in 0..Len(messages), NEW m \in n..Len(more),
         SystemBlock(messages, tools) = SystemBlock(more, tools),
         \A i \in 1..n : Rendered(messages, i) = Rendered(more, i)
  PROVE  IsPrefix(RenderedUpTo(messages, tools, n), RenderedUpTo(more, tools, m))
<1>1. PICK f : f = [i \in 1..n |-> Rendered(messages, i)]
  OBVIOUS
<1>2. PICK g : g = [i \in 1..m |-> Rendered(more, i)]
  OBVIOUS
<1>3. n \in Nat /\ m \in Nat /\ n <= m /\ m \in 0..Len(more)
  OBVIOUS
<1>4. f \in Seq(Text) /\ Len(f) = n /\ g \in Seq(Text) /\ Len(g) = m
  BY <1>1, <1>2, <1>3, RenderedUpToType
<1>5. \A i \in 1..n : f[i] = g[i]
  BY <1>1, <1>2, <1>3
<1>6. IsPrefix(FlattenSeq(f), FlattenSeq(g))
  BY <1>3, <1>4, <1>5, FlattenBegins
<1>7. FlattenSeq(f) \in Text /\ FlattenSeq(g) \in Text /\ SystemBlock(more, tools) \in Text
  BY <1>4, FlattenType, SystemBlockType
<1>8. IsPrefix(SystemBlock(more, tools) \o FlattenSeq(f), SystemBlock(more, tools) \o FlattenSeq(g))
  BY <1>6, <1>7, PrefixAfter
<1> QED BY <1>1, <1>2, <1>8 DEF RenderedUpTo

LEMMA GenerationPromptType ==
  ASSUME NEW supports \in BOOLEAN, NEW open \in BOOLEAN
  PROVE  GenerationPrompt(supports, open) \in Text
<1>1. PICK line \in Text : line = <<"\n">> /\ <<"\n", "\n">> = line \o line
  BY LineText
<1>2. PICK header \in Text : header = <<"assistant", "\n">>
  <2>1. "\n" \in Symbols
    BY Zenon DEF Symbols
  <2> QED BY <2>1, RolesAreSymbols, PairText
<1>3. IM_START \in Text /\ THINK \in Text /\ END_THINK \in Text
  BY MarkerTexts
<1>4. PICK opened \in Text : opened = THINK \o line
  BY <1>1, <1>3, TextConcat
<1>5. PICK closed \in Text : closed = THINK \o (line \o line) \o END_THINK \o (line \o line)
  BY <1>1, <1>3, TextConcat
<1>6. CASE ~supports
  <2>1. GenerationPrompt(supports, open) = IM_START \o header \o << >>
    BY <1>2, <1>6, Zenon DEF GenerationPrompt
  <2> QED BY <1>2, <1>3, <2>1, TextConcat, TextNothing
<1>7. CASE supports /\ open
  <2>1. GenerationPrompt(supports, open) = IM_START \o header \o opened
    BY <1>1, <1>2, <1>4, <1>7, Zenon DEF GenerationPrompt
  <2> QED BY <1>2, <1>3, <1>4, <2>1, TextConcat
<1>8. CASE supports /\ ~open
  <2>1. GenerationPrompt(supports, open) = IM_START \o header \o closed
    BY <1>1, <1>2, <1>5, <1>8, Zenon DEF GenerationPrompt
  <2> QED BY <1>2, <1>3, <1>5, <2>1, TextConcat
<1> QED BY <1>6, <1>7, <1>8

-----------------------------------------------------------------------------
(***************************************************************************)
(* The requests of a conversation, and the jobs made of them.              *)
(***************************************************************************)
OptionalText == {option \in Seq(Text) : Len(option) <= 1}
ArgumentTexts == Seq([name : Text, arguments : OptionalText])
\* A message as it was sent.
IsMessage(m) ==
  m.content \in OptionalText /\ m.tool_calls \in ArgumentTexts /\ m.reasoning_content \in OptionalText
AreMessages(messages) ==
  /\ messages \in Seq(Range(messages))
  /\ \A i \in DOMAIN messages : IsMessage(messages[i])
IsRequest(r) ==
  AreMessages(r.messages) /\ \E settings \in Settings : r = With(settings, r.messages)

LEMMA OptionalTexts ==
  /\ << >> \in OptionalText /\ \A t \in Text : <<t>> \in OptionalText
  /\ \A option \in OptionalText : option # << >> => option[1] \in Text
  /\ OptionalText \subseteq Seq(Text)
<1>1. \A S : << >> \in Seq(S) /\ Len(<< >>) <= 1 /\ \A t \in S : <<t>> \in Seq(S) /\ Len(<<t>>) <= 1
  OBVIOUS
<1>2. \A S : \A s \in Seq(S) : s # << >> => s[1] \in S
  OBVIOUS
<1> QED BY <1>1, <1>2 DEF OptionalText

LEMMA WithIs ==
  ASSUME NEW settings \in Settings, NEW messages, AreMessages(messages)
  PROVE  IsRequest(With(settings, messages)) /\ With(settings, messages).messages = messages
<1>1. settings \in RequestSettings
  BY ConversationAssumption
<1>2. With(settings, messages).messages = messages
  BY <1>1 DEF With, RequestSettings
<1> QED BY <1>2 DEF IsRequest

LEMMA RequestIs ==
  ASSUME NEW r, IsRequest(r)
  PROVE  /\ \E settings \in Settings : r = With(settings, r.messages)
         /\ AreMessages(r.messages)
         /\ r.tools \in Seq(Tools)
         /\ ToolDefinitions(r) \in Seq(Tools)
<1>1. PICK settings \in Settings : AreMessages(r.messages) /\ r = With(settings, r.messages)
  BY DEF IsRequest
<1>2. settings \in RequestSettings
  BY ConversationAssumption
<1>3. r.tools = settings.tools /\ settings.tools \in Seq(Tools)
  BY <1>1, <1>2 DEF With, RequestSettings
<1>4. << >> \in Seq(Tools)
  OBVIOUS
<1> QED BY <1>1, <1>3, <1>4 DEF ToolDefinitions

\* What the template is given of an acceptable request.
LEMMA ChatMessagesType ==
  ASSUME NEW r, AreMessages(r.messages),
         \A i \in DOMAIN r.messages : Readable(r.messages[i])
  PROVE  /\ ChatMessages(r) \in Seq(ChatTexts)
         /\ DOMAIN ChatMessages(r) = DOMAIN r.messages
         /\ Len(ChatMessages(r)) = Len(r.messages)
<1>1. PICK n \in Nat : r.messages = [i \in 1..n |-> r.messages[i]]
  <2>1. \A S : \A s \in Seq(S) : \E n \in Nat : s = [i \in 1..n |-> s[i]]
    OBVIOUS
  <2> QED BY <2>1 DEF AreMessages
<1>2. DOMAIN r.messages = 1..n /\ Len(r.messages) = n
  BY <1>1
<1> DEFINE read(m) == [role |-> Roles[m.role], content |-> OrElse(m.content, << >>),
                       reasoning |-> m.reasoning_content,
                       tool_calls |-> [k \in DOMAIN m.tool_calls |-> ChatCall(m.tool_calls[k])]]
<1>3. ASSUME NEW i \in DOMAIN r.messages PROVE read(r.messages[i]) \in ChatTexts
  <2>1. PICK m : m = r.messages[i]
    OBVIOUS
  <2>2. IsMessage(m) /\ Readable(m)
    BY <2>1 DEF AreMessages
  <2>3. Roles[m.role] \in {"system", "user", "assistant", "tool"}
    <3>1. m.role \in {"system", "developer", "user", "assistant", "tool", "function"}
      BY <2>2 DEF Readable, Roles
    <3> QED BY <3>1 DEF Roles
  <2>4. OrElse(m.content, << >>) \in Text
    BY <2>2, OptionalTexts, TextNothing DEF OrElse, IsMessage
  <2>5. m.reasoning_content \in {option \in Seq(Text) : Len(option) <= 1}
    BY <2>2 DEF IsMessage, OptionalText
  <2>6. [k \in DOMAIN m.tool_calls |-> ChatCall(m.tool_calls[k])] \in ChatCalls
    <3>1. \A call \in [name : Text, arguments : OptionalText] :
            ChatCall(call) \in [name : Text, arguments : Text]
      <4> TAKE call \in [name : Text, arguments : OptionalText]
      <4>1. call.name \in Text /\ call.arguments \in OptionalText
        OBVIOUS
      <4>2. PICK braces : braces = <<"{", "}">>
        OBVIOUS
      <4>3. braces \in Text
        <5>1. "{" \in Symbols
          BY Zenon DEF Symbols
        <5>2. "}" \in Symbols
          BY Zenon DEF Symbols
        <5> QED BY <4>2, <5>1, <5>2, PairText, Zenon
      <4>4. call.arguments # << >> => call.arguments[1] \in Text
        BY <4>1, OptionalTexts
      <4>5. PICK bare : bare = {<< >>, << << >> >>}
        OBVIOUS
      <4>6. call.arguments \notin bare => call.arguments # << >>
        BY <4>5
      <4>7. ChatCall(call) = [name |-> call.name,
                              arguments |-> IF call.arguments \in bare THEN braces ELSE call.arguments[1]]
        BY <4>2, <4>5, Zenon DEF ChatCall
      <4> QED BY <4>1, <4>3, <4>4, <4>6, <4>7
    <3>2. PICK S : S = [name : Text, arguments : OptionalText]
      OBVIOUS
    <3>3. PICK T : T = [name : Text, arguments : Text]
      OBVIOUS
    <3>4. m.tool_calls \in Seq(S)
      BY <2>2, <3>2 DEF IsMessage, ArgumentTexts
    <3>5. \A call \in S : ChatCall(call) \in T
      BY <3>1, <3>2, <3>3
    <3>6. ASSUME NEW s \in Seq(S) PROVE [k \in DOMAIN s |-> ChatCall(s[k])] \in Seq(T)
      BY <3>5
    <3> QED BY <3>3, <3>4, <3>6 DEF ChatCalls
  <2>7. read(m) \in ChatTexts
    BY <2>3, <2>4, <2>5, <2>6 DEF ChatTexts
  <2> HIDE DEF read
  <2> QED BY <2>1, <2>7
<1>4. ChatMessages(r) = [i \in 1..n |-> read(r.messages[i])]
  BY <1>2, Zenon DEF ChatMessages
<1> HIDE DEF read
<1>5. PICK f : f = ChatMessages(r)
  OBVIOUS
<1>6. f \in Seq(ChatTexts) /\ DOMAIN f = 1..n /\ Len(f) = n
  BY <1>2, <1>3, <1>4, <1>5
<1> QED BY <1>2, <1>5, <1>6

Acceptable(r) ==
  /\ Honourable(r)
  /\ \A i \in DOMAIN r.messages : Readable(r.messages[i])
  /\ Renderable(ChatMessages(r))
  /\ Resolvable(r)

LEMMA JobIs ==
  ASSUME NEW r, NEW s
  PROVE  /\ Job(r, s).status \in {"submitted", "bad_request"}
         /\ Job(r, s) # NoJob
         /\ Job(r, s).status = "submitted" =>
              /\ Acceptable(r)
              /\ Job(r, s) =
                   [status |-> "submitted",
                    prompt |-> ChatPrompt(ChatMessages(r), ToolDefinitions(r), s.supports, Plan(r, s).open),
                    stable_prefix |-> HistoryPrefix(ChatMessages(r), ToolDefinitions(r)),
                    options |-> ResolveOptions(s.defaults, r, Plan(r, s)),
                    stop_strings |-> StopStrings(r),
                    tools_enabled |-> ToolDefinitions(r) # << >>,
                    thinking_open |-> Plan(r, s).open]
<1> DEFINE made == [status |-> "submitted",
                    prompt |-> ChatPrompt(ChatMessages(r), ToolDefinitions(r), s.supports, Plan(r, s).open),
                    stable_prefix |-> HistoryPrefix(ChatMessages(r), ToolDefinitions(r)),
                    options |-> ResolveOptions(s.defaults, r, Plan(r, s)),
                    stop_strings |-> StopStrings(r),
                    tools_enabled |-> ToolDefinitions(r) # << >>,
                    thinking_open |-> Plan(r, s).open]
<1>1. Job(r, s) = IF ~Acceptable(r) THEN Refused ELSE made
  BY Zenon DEF Job, Acceptable
<1>2. made.status = "submitted"
  OBVIOUS
<1> HIDE DEF made
<1>3. Refused.status = "bad_request" /\ NoJob.status = "none"
  BY DEF Refused, NoJob
<1>4. Job(r, s).status = "submitted" => Acceptable(r) /\ Job(r, s) = made
  BY <1>1, <1>3
<1> QED BY <1>1, <1>2, <1>3, <1>4 DEF made

\* What the fields of a job are made of.
LEMMA SubmittedIs ==
  ASSUME NEW r, IsRequest(r), NEW s \in Servers, Job(r, s).status = "submitted"
  PROVE  /\ ChatMessages(r) \in Seq(ChatTexts)
         /\ Len(ChatMessages(r)) \in Nat \ {0} /\ Len(ChatMessages(r)) = Len(r.messages)
         /\ DOMAIN ChatMessages(r) = DOMAIN r.messages
         /\ ToolDefinitions(r) \in Seq(Tools)
         /\ Plan(r, s).open \in BOOLEAN /\ s.supports \in BOOLEAN
         /\ GenerationPrompt(s.supports, Plan(r, s).open) \in Text
         /\ Job(r, s).prompt =
              RenderedUpTo(ChatMessages(r), ToolDefinitions(r), Len(ChatMessages(r)))
              \o GenerationPrompt(s.supports, Plan(r, s).open)
         /\ Job(r, s).prompt \in Text
<1>1. Acceptable(r)
  BY JobIs
<1>2. AreMessages(r.messages) /\ ToolDefinitions(r) \in Seq(Tools)
  BY RequestIs
<1>3. /\ ChatMessages(r) \in Seq(ChatTexts) /\ DOMAIN ChatMessages(r) = DOMAIN r.messages
      /\ Len(ChatMessages(r)) = Len(r.messages)
  BY <1>1, <1>2, ChatMessagesType DEF Acceptable
<1>4. ChatMessages(r) # << >>
  BY <1>1 DEF Acceptable, Renderable
<1>5. Len(ChatMessages(r)) \in Nat \ {0}
  <2>1. \A S : \A t \in Seq(S) : t # << >> => Len(t) \in Nat \ {0}
    OBVIOUS
  <2> QED BY <1>3, <1>4, <2>1
<1>6. s.supports \in BOOLEAN
  BY ConversationAssumption
<1>7. Plan(r, s).open \in BOOLEAN
  <2>1. \E b, c : Plan(r, s).open = (b /\ c)
    BY DEF Plan
  <2> QED BY <2>1
<1>8. GenerationPrompt(s.supports, Plan(r, s).open) \in Text
  BY <1>6, <1>7, GenerationPromptType
<1>9. Job(r, s).prompt =
        RenderedUpTo(ChatMessages(r), ToolDefinitions(r), Len(ChatMessages(r)))
        \o GenerationPrompt(s.supports, Plan(r, s).open)
  BY JobIs DEF ChatPrompt
<1>10. RenderedUpTo(ChatMessages(r), ToolDefinitions(r), Len(ChatMessages(r))) \in Text
  <2>1. Len(ChatMessages(r)) \in 0..Len(ChatMessages(r))
    BY <1>5
  <2> QED BY <1>2, <1>3, <2>1, RenderedUpToType
<1> QED BY <1>2, <1>3, <1>5, <1>6, <1>7, <1>8, <1>9, <1>10, TextConcat

-----------------------------------------------------------------------------
(***************************************************************************)
(* What the server answers and the client sends are texts.                 *)
(***************************************************************************)
OneText == {s \in Seq(Text) : Len(s) = 1}
ReplyCalls == [name : Text, arguments : OneText]

LEMMA OneTexts ==
  /\ \A t \in Text : <<t>> \in OneText
  /\ \A s \in OneText : s[1] \in Text /\ s \in OptionalText
<1>1. \A S : \A t \in S : <<t>> \in Seq(S) /\ Len(<<t>>) = 1
  OBVIOUS
<1>2. \A S : \A s \in Seq(S) : Len(s) = 1 => s[1] \in S /\ Len(s) <= 1
  OBVIOUS
<1> QED BY <1>1, <1>2 DEF OneText, OptionalText

\* A sequence mapped member by member.
LEMMA EachOf ==
  ASSUME NEW S, NEW T, NEW s \in Seq(S), NEW f, f = [i \in DOMAIN s |-> f[i]],
         \A i \in DOMAIN s : f[i] \in T
  PROVE  f \in Seq(T) /\ Len(f) = Len(s)
OBVIOUS

LEMMA MemberOf ==
  ASSUME NEW S, NEW s \in Seq(S), NEW i \in DOMAIN s
  PROVE  s[i] \in S
OBVIOUS

TurnCalls == Seq([name : Seq(STRING), parameters : Seq([key : Seq(STRING), value : Seq(STRING)])])

LEMMA TurnIs ==
  ASSUME NEW t \in Turns
  PROVE  t.reasoning \in Text /\ t.visible \in Text /\ t.calls \in TurnCalls
<1>1. t \in [reasoning : Seq(STRING), visible : Seq(STRING), calls : TurnCalls]
  BY ConversationAssumption DEF TurnCalls
<1>2. t.reasoning \in Seq(STRING) /\ t.visible \in Seq(STRING) /\ t.calls \in TurnCalls
  BY <1>1
<1> QED BY <1>2, StringsAreText

LEMMA MarkupType ==
  ASSUME NEW calls \in TurnCalls, NEW k \in DOMAIN calls
  PROVE  Markup(calls[k]) \in Text
<1>1. PICK call \in [name : Seq(STRING), parameters : Seq([key : Seq(STRING), value : Seq(STRING)])] :
        call = calls[k]
  BY MemberOf DEF TurnCalls
<1>2. call.name \in Text /\ call.parameters \in Seq([key : Seq(STRING), value : Seq(STRING)])
  BY StringsAreText
<1>3. PICK line \in Text : line = <<"\n">>
  BY LineText
<1>4. PICK f : f = [i \in DOMAIN call.parameters |->
                      PARAMETER_OPEN \o call.parameters[i].key \o TAG_END \o line
                      \o call.parameters[i].value \o line \o PARAMETER_CLOSE \o line]
  OBVIOUS
<1>5. Markup(call) = CALL_OPEN \o line \o FUNCTION_OPEN \o call.name \o TAG_END \o line
                     \o FlattenSeq(f) \o FUNCTION_CLOSE \o line \o CALL_CLOSE
  BY <1>3, <1>4, Zenon DEF Markup
<1>6. ASSUME NEW i \in DOMAIN call.parameters PROVE f[i] \in Text
  <2>1. call.parameters[i] \in [key : Seq(STRING), value : Seq(STRING)]
    BY <1>2, MemberOf
  <2>2. PICK key \in Text : key = call.parameters[i].key
    BY <2>1, StringsAreText
  <2>3. PICK value \in Text : value = call.parameters[i].value
    BY <2>1, StringsAreText
  <2>4. PARAMETER_OPEN \in Text /\ TAG_END \in Text /\ PARAMETER_CLOSE \in Text
    BY MarkerTexts
  <2>5. PICK t \in Text : t = PARAMETER_OPEN \o key \o TAG_END \o line
    BY <1>3, <2>2, <2>4, TextConcat
  <2>6. t \o value \o line \o PARAMETER_CLOSE \o line \in Text
    BY <1>3, <2>3, <2>4, <2>5, TextConcat
  <2>7. f[i] = t \o value \o line \o PARAMETER_CLOSE \o line
    BY <1>4, <2>2, <2>3, <2>5
  <2> QED BY <2>6, <2>7
<1>7. FlattenSeq(f) \in Text
  <2>1. f = [i \in DOMAIN call.parameters |-> f[i]]
    BY <1>4
  <2> QED BY <1>2, <1>6, <2>1, EachText
<1>8. CALL_OPEN \in Text /\ FUNCTION_OPEN \in Text /\ TAG_END \in Text /\ FUNCTION_CLOSE \in Text
      /\ CALL_CLOSE \in Text
  BY MarkerTexts
<1>9. PICK t \in Text : t = CALL_OPEN \o line \o FUNCTION_OPEN \o call.name \o TAG_END \o line
  <2>1. CALL_OPEN \o line \o FUNCTION_OPEN \o call.name \o TAG_END \o line \in Text
    BY <1>2, <1>3, <1>8, TextConcat
  <2> QED BY <2>1
<1>10. t \o FlattenSeq(f) \o FUNCTION_CLOSE \o line \o CALL_CLOSE \in Text
  <2>1. PICK u \in Text : u = FlattenSeq(f)
    BY <1>7
  <2>2. t \o u \o FUNCTION_CLOSE \o line \o CALL_CLOSE \in Text
    BY <1>3, <1>8, <1>9, <2>1, TextConcat
  <2> QED BY <2>1, <2>2
<1> QED BY <1>1, <1>5, <1>9, <1>10

LEMMA WrittenType ==
  ASSUME NEW t \in Turns, NEW open
  PROVE  Written(t, open) \in Text
<1>1. t.reasoning \in Text /\ t.visible \in Text /\ t.calls \in TurnCalls
  BY TurnIs
<1>2. PICK line \in Text : line = <<"\n">> /\ <<"\n", "\n">> = line \o line
  BY LineText
<1>3. END_THINK \in Text
  BY MarkerTexts
<1>4. PICK thought \in Text :
        thought = IF open THEN t.reasoning \o line \o END_THINK \o (line \o line) ELSE << >>
  <2>1. line \o line \in Text
    BY <1>2, TextConcat
  <2>2. t.reasoning \o line \o END_THINK \o (line \o line) \in Text
    BY <1>1, <1>2, <1>3, <2>1, TextConcat
  <2> QED BY <2>2, TextNothing
<1>5. PICK called \in Text :
        called = IF t.calls = << >> THEN << >>
                 ELSE (IF t.visible = << >> THEN << >> ELSE line \o line) \o Markup(t.calls[1])
  <2>1. t.calls # << >> => Markup(t.calls[1]) \in Text
    <3>1. \A S : \A s \in Seq(S) : s # << >> => 1 \in DOMAIN s
      OBVIOUS
    <3> QED BY <1>1, <3>1, MarkupType DEF TurnCalls
  <2>2. line \o line \in Text
    BY <1>2, TextConcat
  <2>3. (IF t.visible = << >> THEN << >> ELSE line \o line) \in Text
    BY <2>2, TextNothing
  <2> QED BY <2>1, <2>3, TextConcat, TextNothing
<1>6. Written(t, open) = thought \o t.visible \o called
  BY <1>2, <1>4, <1>5, Zenon DEF Written
<1> QED BY <1>1, <1>4, <1>5, <1>6, TextConcat

ReplyTyped(r) == r.content \in Text /\ r.calls \in Seq(ReplyCalls)

LEMMA ReplyType ==
  ASSUME NEW said \in Text
  PROVE  ReplyTyped(Reply(said))
<1>1. PICK line \in Text : line = <<"\n">>
  BY LineText
<1>m. THINK \in Text /\ CALL_OPEN \in Text \ {<< >>}
  BY MarkerTexts
<1>2. PICK thought \in Text : thought = IF job.thinking_open THEN THINK \o line ELSE << >>
  BY <1>1, <1>m, TextConcat, TextNothing
<1>3. PICK answer \in Text :
        answer = IF job.tools_enabled /\ Occurs(said, CALL_OPEN)
                 THEN Before(said, Find(said, CALL_OPEN)) ELSE said
  <2>1. Find(said, CALL_OPEN) \in 0..(Len(said) + 1)
    <3>1. Find(said, CALL_OPEN) \in 0..Len(said) /\ Len(said) \in Nat
      BY <1>m, FindType, LenOfText
    <3> QED BY <3>1
  <2> QED BY <2>1, BeforeText
<1>4. ReplyContent(said) = thought \o answer
  BY <1>1, <1>2, <1>3, Zenon DEF ReplyContent
<1>5. ReplyContent(said) \in Text
  BY <1>2, <1>3, <1>4, TextConcat
<1>6. PICK calls \in Seq(CallTexts) : calls = Parse(said)
  BY ParseType
<1>7. ASSUME NEW i \in DOMAIN calls PROVE ReplyCall(calls[i]) \in ReplyCalls
  <2>1. calls[i] \in CallTexts
    BY MemberOf
  <2>2. calls[i].name \in Text /\ calls[i].parameters \in MemberTexts
    BY <2>1 DEF CallTexts
  <2>3. ArgumentsJson(calls[i], ToolTypes(sent, calls[i].name)) \in Text
    BY <2>2, ArgumentsJsonType
  <2> QED BY <2>2, <2>3, OneTexts DEF ReplyCall, ReplyCalls
<1>8. PICK f : f = [i \in DOMAIN calls |-> ReplyCall(calls[i])]
  OBVIOUS
<1>9. f \in Seq(ReplyCalls) /\ << >> \in Seq(ReplyCalls)
  <2>1. f = [i \in DOMAIN calls |-> f[i]] /\ \A i \in DOMAIN calls : f[i] \in ReplyCalls
    BY <1>7, <1>8
  <2>2. \A S : << >> \in Seq(S)
    OBVIOUS
  <2> QED BY <2>1, <2>2, EachOf
<1>10. Reply(said).content = ReplyContent(said)
       /\ Reply(said).calls = IF job.tools_enabled THEN f ELSE << >>
  BY <1>6, <1>8 DEF Reply
<1> QED BY <1>5, <1>9, <1>10 DEF ReplyTyped

LEMMA AssistantIs ==
  ASSUME NEW content_ \in Text, NEW thoughts \in OptionalText, NEW calls \in Seq(ReplyCalls)
  PROVE  IsMessage(Assistant(content_, thoughts, calls))
<1>1. \A S, T : S \subseteq T => Seq(S) \subseteq Seq(T)
  OBVIOUS
<1>2. ReplyCalls \subseteq [name : Text, arguments : OptionalText]
  BY OneTexts DEF ReplyCalls
<1>3. calls \in ArgumentTexts
  BY <1>1, <1>2 DEF ArgumentTexts
<1>4. <<content_>> \in OptionalText
  BY OptionalTexts
<1> QED BY <1>3, <1>4 DEF IsMessage, Assistant

LEMMA EchoedIs ==
  ASSUME ReplyTyped(received), NEW echo \in Echoes
  PROVE  IsMessage(Echoed(echo))
<1>m. END_THINK \in Text \ {<< >>}
  BY MarkerTexts
<1>1. PICK content_ \in Text : content_ = received.content
  BY DEF ReplyTyped
<1>2. PICK calls \in Seq(ReplyCalls) : calls = received.calls
  BY DEF ReplyTyped
<1>3. PICK closed \in BOOLEAN : closed = Occurs(content_, END_THINK)
  BY DEF Occurs
<1>4. PICK answer \in Text :
        answer = IF closed THEN Past(content_, FindLast(content_, END_THINK), END_THINK) ELSE content_
  <2>1. FindLast(content_, END_THINK) \in Nat
    <3>1. FindLast(content_, END_THINK) \in 0..Len(content_) /\ Len(content_) \in Nat
      BY <1>m, FindLastType, LenOfText
    <3> QED BY <3>1
  <2> QED BY <1>m, <2>1, PastText
<1>5. PICK thought \in Text :
        thought = IF closed THEN SubSeq(content_, 2, Find(content_, END_THINK) - 1) ELSE << >>
  <2>1. Find(content_, END_THINK) - 1 \in Int /\ Find(content_, END_THINK) - 1 <= Len(content_)
        /\ 2 \in Nat \ {0}
    <3>1. Find(content_, END_THINK) \in 0..Len(content_) /\ Len(content_) \in Nat
      BY <1>m, FindType, LenOfText
    <3> QED BY <3>1
  <2> QED BY <2>1, CutText, TextNothing
<1>6. PICK rewritten : rewritten = [i \in DOMAIN calls |->
                                      [calls[i] EXCEPT !.arguments = <<Compacted(calls[i].arguments[1])>>]]
  OBVIOUS
<1>7. rewritten \in Seq(ReplyCalls)
  <2>1. ASSUME NEW i \in DOMAIN calls PROVE rewritten[i] \in ReplyCalls
    <3>1. calls[i] \in ReplyCalls
      BY MemberOf
    <3>2. calls[i].arguments[1] \in Text
      BY <3>1, OneTexts DEF ReplyCalls
    <3>3. <<Compacted(calls[i].arguments[1])>> \in OneText
      BY <3>2, CompactedType, OneTexts
    <3> QED BY <1>6, <3>1, <3>3 DEF ReplyCalls
  <2>2. rewritten = [i \in DOMAIN calls |-> rewritten[i]]
    BY <1>6
  <2> QED BY <2>1, <2>2, EachOf
<1>8. << >> \in OptionalText /\ <<thought>> \in OptionalText
  BY OptionalTexts
<1>9. CASE echo = "verbatim"
  <2>1. Echoed(echo) = Assistant(content_, << >>, calls)
    BY <1>1, <1>2, <1>9 DEF Echoed
  <2> QED BY <1>8, <2>1, AssistantIs
<1>10. CASE echo = "rewritten"
  <2>1. Echoed(echo) = Assistant(content_, << >>, rewritten)
    BY <1>1, <1>2, <1>6, <1>10 DEF Echoed
  <2> QED BY <1>7, <1>8, <2>1, AssistantIs
<1>11. CASE echo = "apart"
  <2>1. Echoed(echo) = Assistant(answer, IF closed THEN <<thought>> ELSE << >>, rewritten)
    BY <1>1, <1>2, <1>3, <1>4, <1>5, <1>6, <1>11 DEF Echoed
  <2>2. (IF closed THEN <<thought>> ELSE << >>) \in OptionalText
    BY <1>8
  <2> QED BY <1>7, <2>1, <2>2, AssistantIs
<1>12. CASE echo = "dropped"
  <2>1. Echoed(echo) = Assistant(answer, << >>, calls)
    BY <1>1, <1>2, <1>3, <1>4, <1>12 DEF Echoed
  <2> QED BY <1>8, <2>1, AssistantIs
<1> QED BY <1>9, <1>10, <1>11, <1>12 DEF Echoes

LEMMA MessageIs ==
  ASSUME NEW role, NEW content_ \in Text
  PROVE  IsMessage(Message(role, content_))
<1>1. << >> \in ArgumentTexts
  <2>1. \A S : << >> \in Seq(S)
    OBVIOUS
  <2> QED BY <2>1 DEF ArgumentTexts
<1>2. << >> \in OptionalText /\ <<content_>> \in OptionalText
  BY OptionalTexts
<1> QED BY <1>1, <1>2 DEF IsMessage, Message

LEMMA FollowsAre ==
  ASSUME NEW added \in Follows
  PROVE  AreMessages(added) /\ added # << >>
<1>1. ASSUME NEW a, IsMessage(a) PROVE AreMessages(<<a>>) /\ <<a>> # << >>
  <2>1. DOMAIN <<a>> = 1..1 /\ <<a>>[1] = a
    OBVIOUS
  <2>2. <<a>> \in Seq(Range(<<a>>))
    BY DEF Range
  <2> QED BY <1>1, <2>1, <2>2 DEF AreMessages
<1>2. ASSUME NEW a, NEW b, IsMessage(a), IsMessage(b) PROVE AreMessages(<<a, b>>) /\ <<a, b>> # << >>
  <2>1. DOMAIN <<a, b>> = 1..2 /\ <<a, b>>[1] = a /\ <<a, b>>[2] = b
    OBVIOUS
  <2>2. <<a, b>> \in Seq(Range(<<a, b>>))
    BY DEF Range
  <2> QED BY <1>2, <2>1, <2>2 DEF AreMessages
<1>3. CASE added \in {<<Message("user", q)>> : q \in Questions}
  <2>1. PICK q \in Questions : added = <<Message("user", q)>>
    BY <1>3
  <2>2. q \in Text
    BY ConversationAssumption, StringsAreText
  <2> QED BY <1>1, <2>1, <2>2, MessageIs
<1>4. CASE added \in UNION {{<<Message("tool", r)>>, <<Message("user", Wrapped(r))>>,
                             <<Message("tool", r), Message("function", r)>>} : r \in Results}
  <2>1. PICK r \in Results :
          added \in {<<Message("tool", r)>>, <<Message("user", Wrapped(r))>>,
                     <<Message("tool", r), Message("function", r)>>}
    BY <1>4
  <2>2. r \in Text
    BY ConversationAssumption, StringsAreText
  <2>3. Wrapped(r) \in Text
    <3>1. PICK line \in Text : line = <<"\n">>
      BY LineText
    <3>2. TOOL_RESPONSE \in Text /\ END_TOOL_RESPONSE \in Text
      BY MarkerTexts
    <3>3. TOOL_RESPONSE \o line \o r \o line \o END_TOOL_RESPONSE \in Text
      BY <2>2, <3>1, <3>2, TextConcat
    <3> QED BY <3>1, <3>3 DEF Wrapped
  <2>4. IsMessage(Message("tool", r)) /\ IsMessage(Message("function", r))
        /\ IsMessage(Message("user", Wrapped(r)))
    BY <2>2, <2>3, MessageIs
  <2> QED BY <1>1, <1>2, <2>1, <2>4
<1> QED BY <1>3, <1>4 DEF Follows

LEMMA MessagesAppended ==
  ASSUME NEW messages, AreMessages(messages), NEW x, IsMessage(x), NEW added, AreMessages(added)
  PROVE  /\ AreMessages(Append(messages, x) \o added)
         /\ DOMAIN messages \subseteq DOMAIN (Append(messages, x) \o added)
         /\ \A i \in DOMAIN messages : (Append(messages, x) \o added)[i] = messages[i]
<1>1. PICK M : M = {m \in Range(messages) \cup {x} \cup Range(added) : IsMessage(m)}
  OBVIOUS
<1>2. messages \in Seq(M)
  <2>1. messages \in Seq(Range(messages)) /\ \A i \in DOMAIN messages : IsMessage(messages[i])
    BY DEF AreMessages
  <2>2. Range(messages) \subseteq M
    BY <1>1, <2>1 DEF Range
  <2>3. \A S, T : S \subseteq T => Seq(S) \subseteq Seq(T)
    OBVIOUS
  <2> QED BY <2>1, <2>2, <2>3
<1>3. added \in Seq(M)
  <2>1. added \in Seq(Range(added)) /\ \A i \in DOMAIN added : IsMessage(added[i])
    BY DEF AreMessages
  <2>2. Range(added) \subseteq M
    BY <1>1, <2>1 DEF Range
  <2>3. \A S, T : S \subseteq T => Seq(S) \subseteq Seq(T)
    OBVIOUS
  <2> QED BY <2>1, <2>2, <2>3
<1>4. x \in M
  BY <1>1
<1>5. PICK all : all = Append(messages, x) \o added
  OBVIOUS
<1>6. all \in Seq(M)
  BY <1>2, <1>3, <1>4, <1>5
<1>7. \A s \in Seq(M) : AreMessages(s)
  <2> TAKE s \in Seq(M)
  <2>1. s \in Seq(Range(s))
    BY DEF Range
  <2>2. \A i \in DOMAIN s : s[i] \in M
    OBVIOUS
  <2> QED BY <1>1, <2>1, <2>2 DEF AreMessages
<1>8. ASSUME NEW i \in DOMAIN messages PROVE i \in DOMAIN all /\ all[i] = messages[i]
  BY <1>2, <1>3, <1>4, <1>5
<1> QED BY <1>5, <1>6, <1>7, <1>8

-----------------------------------------------------------------------------
(***************************************************************************)
(* The conversation's invariant.                                           *)
(***************************************************************************)
\* A history goes on from an earlier one.
Continues(more, messages) ==
  DOMAIN messages \subseteq DOMAIN more /\ \A i \in DOMAIN messages : more[i] = messages[i]

ConversationInv ==
  /\ server \in Servers /\ IsRequest(sent)
  /\ job # NoJob => job = Job(sent, server)
  /\ turn # NoTurn => job.status = "submitted" /\ ReplyTyped(received)
  /\ last # NoExchange =>
       /\ IsRequest(last.request)
       /\ last.job = Job(last.request, server) /\ last.job.status = "submitted"
       /\ Continues(sent.messages, last.request.messages)

LEMMA ConversationStarts ==
  ConversationInit => ConversationInv
<1> SUFFICES ASSUME ConversationInit PROVE ConversationInv
  OBVIOUS
<1>1. PICK settings \in Settings, opening \in Openings : sent = With(settings, opening)
  BY DEF ConversationInit
<1>2. AreMessages(opening)
  <2>1. \A m \in RequestMessages : IsMessage(m)
    <3> TAKE m \in RequestMessages
    <3>1. \A S, T : S \subseteq T => Seq(S) \subseteq Seq(T) /\ Optional(S) \subseteq Optional(T)
      BY DEF Optional
    <3>2. Optional(Seq(STRING)) \subseteq OptionalText
      BY <3>1, StringsAreText DEF Optional, OptionalText
    <3>3. [name : Seq(STRING), arguments : Optional(Seq(STRING))]
          \subseteq [name : Text, arguments : OptionalText]
      BY <3>2, StringsAreText
    <3>4. Seq([name : Seq(STRING), arguments : Optional(Seq(STRING))]) \subseteq ArgumentTexts
      <4>1. \A S, T : S \subseteq T => Seq(S) \subseteq Seq(T)
        OBVIOUS
      <4>2. PICK A : A = [name : Seq(STRING), arguments : Optional(Seq(STRING))]
        OBVIOUS
      <4>3. PICK B : B = [name : Text, arguments : OptionalText]
        OBVIOUS
      <4>4. A \subseteq B
        BY <3>3, <4>2, <4>3, Zenon
      <4>5. Seq(A) \subseteq Seq(B)
        BY <4>1, <4>4, Zenon
      <4> QED BY <4>2, <4>3, <4>5, Zenon DEF ArgumentTexts
    <3>5. /\ m.content \in Optional(Seq(STRING)) /\ m.reasoning_content \in Optional(Seq(STRING))
          /\ m.tool_calls \in Seq([name : Seq(STRING), arguments : Optional(Seq(STRING))])
      BY DEF RequestMessages
    <3> QED BY <3>2, <3>4, <3>5 DEF IsMessage
  <2>2. opening \in Seq(RequestMessages)
    BY ConversationAssumption
  <2>3. opening \in Seq(Range(opening)) /\ \A i \in DOMAIN opening : opening[i] \in RequestMessages
    BY <2>2 DEF Range
  <2> QED BY <2>1, <2>3 DEF AreMessages
<1>3. IsRequest(sent)
  BY <1>1, <1>2, WithIs
<1>4. server \in Servers /\ job = NoJob /\ turn = NoTurn /\ last = NoExchange
  BY DEF ConversationInit
<1> QED BY <1>3, <1>4 DEF ConversationInv

LEMMA ConversationKeeps ==
  ASSUME ConversationInv, [ConversationNext]_conversationVars
  PROVE  ConversationInv'
<1>1. CASE UNCHANGED conversationVars
  BY <1>1 DEF ConversationInv, conversationVars, ReplyTyped
<1>2. CASE Chat
  <2>1. job' = Job(sent, server) /\ UNCHANGED <<server, sent, turn, received, last, turns>> /\ job = NoJob
    BY <1>2 DEF Chat
  <2>2. turn = NoTurn
    <3>1. NoJob.status # "submitted"
      BY DEF NoJob
    <3> QED BY <2>1, <3>1 DEF ConversationInv
  <2> QED BY <2>1, <2>2 DEF ConversationInv
<1>3. CASE Generate
  <2>1. /\ job.status = "submitted" /\ turn' \in Turns
        /\ received' = Reply(Written(turn', job.thinking_open))
        /\ UNCHANGED <<server, sent, job, last>>
    BY <1>3 DEF Generate
  <2>2. ReplyTyped(received')
    <3>1. Written(turn', job.thinking_open) \in Text
      BY <2>1, WrittenType
    <3> QED BY <2>1, <3>1, ReplyType
  <2> QED BY <2>1, <2>2 DEF ConversationInv, ReplyTyped
<1>4. CASE Follow
  <2>1. PICK echo \in Echoes, settings \in Settings, added \in Follows :
          /\ sent' = With(settings, Append(sent.messages, Echoed(echo)) \o added)
          /\ last' = [echo |-> echo, request |-> sent, job |-> job, turn |-> turn, raw |-> received.raw]
    BY <1>4 DEF Follow
  <2>2. turn # NoTurn /\ job' = NoJob /\ turn' = NoTurn /\ server' = server
    BY <1>4 DEF Follow
  <2>3. IsRequest(sent) /\ job.status = "submitted" /\ ReplyTyped(received) /\ server \in Servers
    BY <2>2 DEF ConversationInv
  <2>4. job = Job(sent, server)
    <3>1. NoJob.status # "submitted"
      BY DEF NoJob
    <3> QED BY <2>3, <3>1 DEF ConversationInv
  <2>5. IsMessage(Echoed(echo)) /\ AreMessages(added) /\ AreMessages(sent.messages)
    BY <2>3, EchoedIs, FollowsAre, RequestIs
  <2>6. PICK messages : messages = Append(sent.messages, Echoed(echo)) \o added
    OBVIOUS
  <2>7. AreMessages(messages) /\ Continues(messages, sent.messages)
    BY <2>5, <2>6, MessagesAppended DEF Continues
  <2>8. sent' = With(settings, messages)
    BY <2>1, <2>6
  <2>9. IsRequest(sent') /\ sent'.messages = messages
    BY <2>7, <2>8, WithIs
  <2>10. last'.request = sent /\ last'.job = job
    BY <2>1
  <2> QED BY <2>2, <2>3, <2>4, <2>7, <2>9, <2>10 DEF ConversationInv
<1> QED BY <1>1, <1>2, <1>3, <1>4 DEF ConversationNext

\* In every state of every conversation a request is of texts, and the job, the
\* reply and the exchange before are what the server makes of it.
THEOREM ConversationIsInvariant == ConversationSpec => []ConversationInv
<1>1. ConversationInit => ConversationInv
  BY ConversationStarts
<1>2. ConversationInv /\ [ConversationNext]_conversationVars => ConversationInv'
  BY ConversationKeeps
<1> QED BY <1>1, <1>2, PTL DEF ConversationSpec
-----------------------------------------------------------------------------
\* The messages of two requests, one going on from the other.
LEMMA SameMessages ==
  ASSUME NEW r, NEW q, Continues(r.messages, q.messages)
  PROVE  Continues(ChatMessages(r), ChatMessages(q))
<1>1. \A i \in DOMAIN q.messages : i \in DOMAIN r.messages /\ ChatMessages(r)[i] = ChatMessages(q)[i]
  BY DEF Continues, ChatMessages
<1>2. DOMAIN ChatMessages(q) = DOMAIN q.messages /\ DOMAIN ChatMessages(r) = DOMAIN r.messages
  BY DEF ChatMessages
<1> QED BY <1>1, <1>2 DEF Continues

\* Every message but the last is rendered by what surrounds it and the query.
LEMMA RenderedAgain ==
  ASSUME NEW messages \in Seq(ChatTexts), NEW more \in Seq(ChatTexts),
         Continues(more, messages), LastQueryIndex(more) = LastQueryIndex(messages),
         NEW i \in 1..(Len(messages) - 1)
  PROVE  Rendered(messages, i) = Rendered(more, i)
<1>1. PICK n \in Nat : n = Len(messages) /\ DOMAIN messages = 1..n
  OBVIOUS
<1>2. PICK m \in Nat : DOMAIN more = 1..m
  OBVIOUS
<1>3. i \in DOMAIN messages /\ i + 1 \in DOMAIN messages
  BY <1>1
<1>4. \A k \in DOMAIN messages : k \in DOMAIN more /\ more[k] = messages[k]
  BY DEF Continues
<1>5. i - 1 \in DOMAIN more <=> i - 1 \in DOMAIN messages
  BY <1>1, <1>2, <1>3, <1>4
<1>6. ToolTurn(messages, i) = ToolTurn(more, i)
  <2>1. PICK before \in BOOLEAN : before = (i - 1 \in DOMAIN messages /\ messages[i - 1].role = "tool")
    OBVIOUS
  <2>2. before = (i - 1 \in DOMAIN more /\ more[i - 1].role = "tool")
    BY <1>4, <1>5, <2>1
  <2>3. PICK after \in BOOLEAN : after = (i + 1 \in DOMAIN messages /\ messages[i + 1].role = "tool")
    OBVIOUS
  <2>4. after = (i + 1 \in DOMAIN more /\ more[i + 1].role = "tool")
    BY <1>3, <1>4, <2>3
  <2>5. more[i].content = messages[i].content
    BY <1>3, <1>4
  <2> QED BY <2>1, <2>2, <2>3, <2>4, <2>5, Zenon DEF ToolTurn
<1>7. more[i] = messages[i]
  BY <1>3, <1>4
<1>8. messages[i].role \in {"system", "user", "assistant", "tool"}
  <2>1. messages[i] \in ChatTexts
    BY <1>3, MemberOf
  <2> QED BY <2>1 DEF ChatTexts
<1>9. CASE messages[i].role = "system"
  BY <1>7, <1>9 DEF Rendered
<1>10. CASE messages[i].role = "user"
  BY <1>7, <1>10 DEF Rendered
<1>11. CASE messages[i].role = "assistant"
  BY <1>7, <1>11 DEF Rendered
<1>12. CASE messages[i].role = "tool"
  BY <1>6, <1>7, <1>12 DEF Rendered
<1> QED BY <1>8, <1>9, <1>10, <1>11, <1>12

\* The boundary a prompt is cached at is a prefix of it, and of the prompt of the
\* next request within the query, however the client echoed the turn and whatever
\* it added.
THEOREM StablePrefixesRepeat == ConversationSpec => []StablePrefixRepeats
<1>1. ASSUME ConversationInv PROVE StablePrefixRepeats
  <2>1. ASSUME job.status = "submitted" PROVE job = Job(sent, server) /\ IsRequest(sent) /\ server \in Servers
    <3>1. NoJob.status # "submitted"
      BY DEF NoJob
    <3> QED BY <1>1, <2>1, <3>1 DEF ConversationInv
  <2>2. ASSUME NEW r, NEW q, IsRequest(r), IsRequest(q), server \in Servers,
               Job(r, server).status = "submitted", Job(q, server).status = "submitted",
               Continues(r.messages, q.messages), ToolDefinitions(r) = ToolDefinitions(q),
               LastQueryIndex(ChatMessages(r)) = LastQueryIndex(ChatMessages(q))
        PROVE  IsPrefix(Job(q, server).stable_prefix, Job(r, server).prompt)
    <3>1. PICK mine : mine = ChatMessages(q)
      OBVIOUS
    <3>2. PICK more : more = ChatMessages(r)
      OBVIOUS
    <3>3. PICK tools : tools = ToolDefinitions(q)
      OBVIOUS
    <3>4. /\ mine \in Seq(ChatTexts) /\ more \in Seq(ChatTexts) /\ tools \in Seq(Tools)
          /\ Len(mine) \in Nat \ {0} /\ Len(more) \in Nat \ {0}
          /\ Job(r, server).prompt \in Text
      BY <2>2, <3>1, <3>2, <3>3, SubmittedIs
    <3>5. Job(q, server).stable_prefix = HistoryPrefix(mine, tools)
      BY <2>2, <3>1, <3>3, JobIs
    <3>6. CASE Len(mine) < 2
      <4>1. Job(q, server).stable_prefix = << >>
        BY <3>5, <3>6 DEF HistoryPrefix
      <4> QED BY <3>4, <4>1, PrefixReflexive
    <3>7. CASE ~(Len(mine) < 2)
      <4>1. PICK n : n = Len(mine) - 1
        OBVIOUS
      <4>2. n \in 0..Len(mine) /\ n \in Nat /\ Len(mine) = n + 1
        BY <3>4, <4>1
      <4>3. Job(q, server).stable_prefix = RenderedUpTo(mine, tools, n)
        BY <3>5, <3>7, <4>1 DEF HistoryPrefix
      <4>4. Continues(more, mine)
        BY <2>2, <3>1, <3>2, SameMessages
      <4>5. \A i \in 1..n : Rendered(mine, i) = Rendered(more, i)
        BY <2>2, <3>1, <3>2, <3>4, <4>1, <4>4, RenderedAgain
      <4>6. Len(mine) <= Len(more) /\ 1 \in DOMAIN mine /\ more # << >> /\ mine # << >>
        <5>1. DOMAIN mine = 1..Len(mine) /\ DOMAIN more = 1..Len(more)
          BY <3>4
        <5>2. Len(mine) \in DOMAIN mine /\ 1 \in DOMAIN mine
          BY <3>4, <5>1
        <5>3. Len(mine) \in DOMAIN more
          BY <4>4, <5>2 DEF Continues
        <5>4. \A s : s = << >> => Len(s) = 0
          OBVIOUS
        <5> QED BY <3>4, <5>1, <5>2, <5>3, <5>4
      <4>7. SystemBlock(mine, tools) = SystemBlock(more, tools)
        <5>1. mine[1] = more[1]
          BY <4>4, <4>6 DEF Continues
        <5> QED BY <4>6, <5>1, Zenon DEF SystemBlock
      <4>8. Len(more) \in n..Len(more)
        BY <3>4, <4>2, <4>6
      <4>9. IsPrefix(RenderedUpTo(mine, tools, n), RenderedUpTo(more, tools, Len(more)))
        BY <3>4, <4>2, <4>5, <4>7, <4>8, PromptGrows
      <4>10. RenderedUpTo(mine, tools, n) \in Text /\ RenderedUpTo(more, tools, Len(more)) \in Text
        <5>1. Len(more) \in 0..Len(more)
          BY <3>4
        <5> QED BY <3>4, <4>2, <5>1, RenderedUpToType
      <4>11. PICK tail \in Text : Job(r, server).prompt = RenderedUpTo(more, tools, Len(more)) \o tail
        BY <2>2, <3>2, <3>3, SubmittedIs
      <4>12. IsPrefix(RenderedUpTo(more, tools, Len(more)), Job(r, server).prompt)
        BY <4>10, <4>11, PrefixOfLonger
      <4> QED BY <3>4, <4>3, <4>9, <4>10, <4>12, PrefixTransitive
    <3> QED BY <3>6, <3>7
  <2>3. ASSUME job.status = "submitted" PROVE IsPrefix(job.stable_prefix, job.prompt)
    <3>1. Continues(sent.messages, sent.messages)
      BY DEF Continues
    <3> QED BY <2>1, <2>2, <2>3, <3>1
  <2>4. ASSUME Answering, SameQuery PROVE IsPrefix(last.job.stable_prefix, job.prompt)
    <3>1. job.status = "submitted" /\ last # NoExchange
      BY <2>4 DEF Answering
    <3>2. /\ IsRequest(last.request) /\ last.job = Job(last.request, server)
          /\ last.job.status = "submitted" /\ Continues(sent.messages, last.request.messages)
      BY <1>1, <3>1 DEF ConversationInv
    <3> QED BY <2>1, <2>2, <2>4, <3>1, <3>2 DEF SameQuery
  <2> QED BY <2>3, <2>4 DEF StablePrefixRepeats
<1>2. ConversationInv => StablePrefixRepeats
  BY <1>1
<1> QED BY <1>2, ConversationIsInvariant, PTL

-----------------------------------------------------------------------------
(***************************************************************************)
(* Jobs the engine can serve.                                              *)
(***************************************************************************)
IsPair(text, a, b) == text \in Text /\ text = <<a, b>>

LEMMA SuffixAt ==
  ASSUME NEW x \in Text, NEW a \in Symbols, NEW b \in Symbols, NEW c \in Symbols, NEW d \in Symbols,
         NEW s, IsPair(s, c, d), NEW u, IsPair(u, a, b)
  PROVE  IsSuffix(s, x \o u) <=> c = a /\ d = b
<1>1. s = <<c, d>>
  BY DEF IsPair
<1>2. PICK t : t = x \o <<a, b>>
  OBVIOUS
<1>0. t = x \o u
  BY <1>2, Zenon DEF IsPair
<1>3. PICK l \in Nat : l = Len(x)
  BY LenOfText
<1>4. s \in Text /\ Len(s) = 2 /\ s[1] = c /\ s[2] = d
  BY <1>1, PairText
<1>5. t \in Text /\ Len(t) = l + 2 /\ t[l + 1] = a /\ t[l + 2] = b
  <2>1. \A S : \A y \in Seq(S), p, q \in S :
          /\ y \o <<p, q>> \in Seq(S) /\ Len(y \o <<p, q>>) = Len(y) + 2
          /\ (y \o <<p, q>>)[Len(y) + 1] = p /\ (y \o <<p, q>>)[Len(y) + 2] = q
    OBVIOUS
  <2> QED BY <1>2, <1>3, <2>1 DEF Text
<1>6. PICK rs : rs = Reverse(s)
  OBVIOUS
<1>7. PICK rt : rt = Reverse(t)
  OBVIOUS
<1>8. rs \in Text /\ Len(rs) = 2 /\ rs[1] = d /\ rs[2] = c
  <2>1. rs = [i \in 1..2 |-> s[(2 - i) + 1]]
    BY <1>4, <1>6 DEF Reverse
  <2>2. rs \in Text
    BY <1>4, <1>6, ReverseType
  <2>3. rs[1] = s[(2 - 1) + 1] /\ rs[2] = s[(2 - 2) + 1] /\ (2 - 1) + 1 = 2 /\ (2 - 2) + 1 = 1
    BY <2>1
  <2>4. Len(rs) = 2
    BY <2>1
  <2> QED BY <1>4, <2>2, <2>3, <2>4
<1>9. rt \in Text /\ Len(rt) = l + 2 /\ rt[1] = b /\ rt[2] = a
  <2>1. rt = [i \in 1..(l + 2) |-> t[((l + 2) - i) + 1]]
    BY <1>5, <1>7 DEF Reverse
  <2>2. rt \in Text
    BY <1>5, <1>7, ReverseType
  <2>3. rt[1] = t[((l + 2) - 1) + 1] /\ rt[2] = t[((l + 2) - 2) + 1]
        /\ ((l + 2) - 1) + 1 = l + 2 /\ ((l + 2) - 2) + 1 = l + 1
    BY <1>3, <2>1
  <2>4. Len(rt) = l + 2
    BY <1>3, <2>1
  <2> QED BY <1>5, <2>2, <2>3, <2>4
<1>10. IsPrefix(rs, rt) <=> Extends(rt, rs)
  BY <1>8, <1>9, PrefixAt
<1>11. Extends(rt, rs) <=> rt[1] = rs[1] /\ rt[2] = rs[2]
  <2>1. 1..2 = {1, 2} /\ 2 <= l + 2
    BY <1>3
  <2> QED BY <1>8, <1>9, <2>1 DEF Extends
<1> QED BY <1>0, <1>6, <1>7, <1>8, <1>9, <1>10, <1>11 DEF IsSuffix

Associates(r, s, u) == (r \o s) \o u = r \o (s \o u)
LEMMA TextsAssociate ==
  ASSUME NEW r \in Text, NEW s \in Text, NEW u \in Text
  PROVE  Associates(r, s, u)
BY TextAssoc DEF Associates

LEMMA EndsOtherwise ==
  ASSUME NEW x \in Text, NEW a \in Symbols, NEW b \in Symbols, NEW c \in Symbols, b # c,
         NEW s, IsPair(s, b, a), NEW u, IsPair(u, c, a)
  PROVE  ~IsSuffix(s, x \o u)
BY SuffixAt

\* How a prompt may end.
LEMMA PromptEnds ==
  ASSUME NEW x \in Text, NEW a \in Symbols, NEW th \in Symbols, NEW as \in Symbols,
         th # a, th # as,
         NEW opening \in Text, IsPair(opening, th, a), NEW closing \in Text, IsPair(closing, a, a),
         NEW header \in Text, IsPair(header, as, a)
  PROVE  /\ ~IsSuffix(opening, x \o (IM_START \o header))
         /\ IsSuffix(opening, x \o (IM_START \o header \o opening))
         /\ ~IsSuffix(opening, x \o (IM_START \o header \o (THINK \o closing \o END_THINK \o closing)))
<1>1. IM_START \in Text /\ THINK \in Text /\ END_THINK \in Text
  BY MarkerTexts
<1>2. PICK start \in Text : start = x \o IM_START
  BY <1>1, TextConcat
<1>3. PICK assistant \in Text : assistant = IM_START \o header
  BY <1>1, TextConcat
<1>4. PICK y \in Text : y = x \o assistant
  BY <1>3, TextConcat
<1>5. ~IsSuffix(opening, x \o (IM_START \o header))
  <2>1. x \o (IM_START \o header) = start \o header
    <3>1. Associates(x, IM_START, header)
      BY <1>1, <1>2, TextsAssociate
    <3> QED BY <3>1, <1>1, <1>2 DEF Associates
  <2>2. ~IsSuffix(opening, start \o header)
    BY <1>2, EndsOtherwise
  <2> QED BY <2>1, <2>2, Zenon
<1>6. IsSuffix(opening, x \o (IM_START \o header \o opening))
  <2>1. x \o (assistant \o opening) = y \o opening
    <3>1. Associates(x, assistant, opening)
      BY <1>3, <1>4, TextsAssociate
    <3> QED BY <3>1, <1>3, <1>4 DEF Associates
  <2>2. IsSuffix(opening, y \o opening)
    BY <1>4, SuffixAt
  <2> QED BY <1>3, <2>1, <2>2, Zenon
<1>7. ~IsSuffix(opening, x \o (IM_START \o header \o (THINK \o closing \o END_THINK \o closing)))
  <2>1. PICK z \in Text : z = THINK \o closing \o END_THINK
    BY <1>1, TextConcat
  <2>2. PICK w \in Text : w = y \o z
    BY <1>4, <2>1, TextConcat
  <2>3. PICK block \in Text : block = z \o closing
    BY <2>1, TextConcat
  <2>4. x \o (assistant \o block) = y \o block
    <3>1. Associates(x, assistant, block)
      BY <1>3, <1>4, <2>3, TextsAssociate
    <3> QED BY <3>1, <1>3, <1>4, <2>3 DEF Associates
  <2>5. y \o block = w \o closing
    <3>1. Associates(y, z, closing)
      BY <1>4, <2>1, <2>2, <2>3, TextsAssociate
    <3> QED BY <3>1, <1>4, <2>1, <2>2, <2>3 DEF Associates
  <2>6. ~IsSuffix(opening, w \o closing)
    BY <2>2, SuffixAt
  <2> QED BY <1>3, <2>1, <2>3, <2>4, <2>5, <2>6, Zenon
<1> QED BY <1>5, <1>6, <1>7

\* The prompt leaves a thinking block open exactly where a plan does.
LEMMA OpensThinking ==
  ASSUME NEW x \in Text, NEW supports \in BOOLEAN, NEW open \in BOOLEAN, open => supports
  PROVE  open <=> IsSuffix(THINK \o <<"\n">>, x \o GenerationPrompt(supports, open))
<1>1. PICK a : a = "\n"
  OBVIOUS
<1>2. PICK th : th = "<think>"
  OBVIOUS
<1>3. PICK as : as = "assistant"
  OBVIOUS
<1>4. a \in Symbols /\ th \in Symbols /\ as \in Symbols
  <2>1. "\n" \in Symbols /\ "<think>" \in Symbols
    BY Zenon DEF Symbols
  <2>2. "assistant" \in Symbols
    BY RolesAreSymbols
  <2> QED BY <1>1, <1>2, <1>3, <2>1, <2>2, Zenon
<1>5. th # a /\ th # as
  <2>1. "<think>" # "\n"
    BY Zenon
  <2>2. "<think>" # "assistant"
    BY Zenon
  <2> QED BY <1>1, <1>2, <1>3, <2>1, <2>2, Zenon
<1>6. PICK opening \in Text : opening = <<th, a>>
  BY <1>4, PairText
<1>7. PICK closing \in Text : closing = <<a, a>>
  BY <1>4, PairText
<1>8. PICK header \in Text : header = <<as, a>>
  BY <1>4, PairText
<1>9. THINK = <<th>> /\ THINK \o <<"\n">> = opening
  <2>1. PICK both \in Text : both = <<th>> \o <<a>>
    <3>1. \A S : \A p \in S, q \in S : <<p>> \o <<q>> \in Seq(S)
      OBVIOUS
    <3> QED BY <1>4, <3>1 DEF Text
  <2>2. both = opening
    <3>1. \A S : \A p \in S, q \in S : Len(<<p>> \o <<q>>) = 2 /\ (<<p>> \o <<q>>)[1] = p /\ (<<p>> \o <<q>>)[2] = q
      OBVIOUS
    <3>2. Len(both) = 2 /\ both[1] = th /\ both[2] = a
      BY <1>4, <2>1, <3>1
    <3>3. Len(opening) = 2 /\ opening[1] = th /\ opening[2] = a
      BY <1>6
    <3>4. \A i \in 1..2 : both[i] = opening[i]
      BY <3>2, <3>3
    <3> QED BY <2>1, <3>2, <3>3, <3>4, SeqEqual DEF Text
  <2>3. THINK = <<th>>
    BY <1>2, Zenon DEF THINK
  <2> QED BY <1>1, <2>1, <2>2, <2>3, Zenon
<1>10. /\ ~IsSuffix(opening, x \o (IM_START \o header))
       /\ IsSuffix(opening, x \o (IM_START \o header \o opening))
       /\ ~IsSuffix(opening, x \o (IM_START \o header \o (THINK \o closing \o END_THINK \o closing)))
  <2>1. IsPair(opening, th, a) /\ IsPair(closing, a, a) /\ IsPair(header, as, a)
    BY <1>6, <1>7, <1>8, Zenon DEF IsPair
  <2> QED BY <1>4, <1>5, <2>1, PromptEnds DEF IsPair
<1>11. PICK prompt : prompt = GenerationPrompt(supports, open)
  OBVIOUS
<1>12. CASE ~supports
  <2>1. prompt = IM_START \o header \o << >>
    BY <1>1, <1>3, <1>8, <1>11, <1>12, Zenon DEF GenerationPrompt
  <2>2. IM_START \o header \o << >> = IM_START \o header
    <3>1. \A t \in Text : (IM_START \o t) \o << >> = IM_START \o t
      BY MarkerTexts, TextConcat, TextNothing
    <3> QED BY <1>8, <3>1, Zenon
  <2> QED BY <1>9, <1>10, <1>11, <1>12, <2>1, <2>2, Zenon
<1>13. CASE supports /\ open
  <2>1. prompt = IM_START \o header \o opening
    BY <1>1, <1>3, <1>8, <1>9, <1>11, <1>13, Zenon DEF GenerationPrompt
  <2> QED BY <1>9, <1>10, <1>11, <1>13, <2>1, Zenon
<1>14. CASE supports /\ ~open
  <2>1. prompt = IM_START \o header \o (THINK \o closing \o END_THINK \o closing)
    BY <1>1, <1>3, <1>7, <1>8, <1>11, <1>14, Zenon DEF GenerationPrompt
  <2> QED BY <1>9, <1>10, <1>11, <1>14, <2>1, Zenon
<1> QED BY <1>12, <1>13, <1>14, Zenon
-----------------------------------------------------------------------------
\* The fields of a request are those of its settings.
LEMMA RequestFields ==
  ASSUME NEW r, IsRequest(r)
  PROVE  /\ r.max_tokens \in Optional(Nat) /\ r.max_completion_tokens \in Optional(Nat)
         /\ r.thinking_budget \in Optional(Nat)
<1>1. PICK settings \in Settings : r = With(settings, r.messages)
  BY RequestIs
<1>2. settings \in RequestSettings
  BY ConversationAssumption
<1>3. /\ r.max_tokens = settings.max_tokens /\ r.max_completion_tokens = settings.max_completion_tokens
      /\ r.thinking_budget = settings.thinking_budget
  BY <1>1, <1>2 DEF With, RequestSettings
<1> QED BY <1>2, <1>3 DEF RequestSettings

LEMMA OptionalIs ==
  ASSUME NEW S, NEW option \in Optional(S), option # << >>
  PROVE  option[1] \in S
<1>1. \A s \in Seq(S) : s # << >> => s[1] \in S
  OBVIOUS
<1> QED BY <1>1 DEF Optional

LEMMA OfTwo ==
  ASSUME NEW a \in Nat, NEW b \in Nat
  PROVE  /\ Min({a, b}) \in {a, b} /\ Min({a, b}) <= a /\ Min({a, b}) <= b
         /\ Max({a, b}) \in {a, b} /\ a <= Max({a, b}) /\ b <= Max({a, b})
<1>1. {a, b} \in SUBSET Nat /\ {a, b} # {}
  OBVIOUS
<1>2. a + b \in Nat /\ {a, b} \in SUBSET (0..(a + b))
  OBVIOUS
<1> QED BY <1>1, <1>2, MinIsLeast, MaxIsGreatest

\* A plan's budget is within the operator's ceiling and at least a token, and there
\* is one wherever there is a ceiling and a block to think in.
LEMMA PlanIs ==
  ASSUME NEW r, IsRequest(r), NEW s \in Servers
  PROVE  LET plan == Plan(r, s)
             ceiling == s.policy.max_budget
         IN  /\ plan.open \in BOOLEAN
             /\ plan.open => s.supports
             /\ plan.budget # << >> =>
                  /\ plan.open /\ plan.budget[1] >= 1
                  /\ ceiling # << >> => plan.budget[1] <= ceiling[1]
             /\ plan.open /\ ceiling # << >> => plan.budget # << >>
<1>1. PICK policy : policy = s.policy
  OBVIOUS
<1>2. IsPolicy(policy)
  BY <1>1, ConversationAssumption
<1>3. PICK open \in BOOLEAN :
        open = (s.supports /\ OrElse(EnableThinking(r), policy.enabled_by_default))
  OBVIOUS
<1>4. PICK effort : effort = ReasoningEffort(r)
  OBVIOUS
<1>5. PICK level : level = IF effort # << >> /\ effort[1] \in DOMAIN policy.effort_budgets
                           THEN <<policy.effort_budgets[effort[1]]>> ELSE << >>
  OBVIOUS
<1>6. PICK budget : budget = Or(r.thinking_budget, Or(level, policy.default_budget))
  OBVIOUS
<1>7. PICK bounded : bounded = IF budget # << >> /\ policy.max_budget # << >>
                               THEN <<Min({budget[1], policy.max_budget[1]})>>
                               ELSE Or(budget, policy.max_budget)
  OBVIOUS
<1>8. PICK kept : kept = IF open /\ bounded # << >> THEN <<Max({1, bounded[1]})>> ELSE << >>
  OBVIOUS
<1>9. Plan(r, s) = [open |-> open, budget |-> kept]
  BY <1>1, <1>3, <1>4, <1>5, <1>6, <1>7, <1>8, Zenon DEF Plan
<1>10. budget # << >> => budget[1] \in Nat
  <2>1. r.thinking_budget # << >> => r.thinking_budget[1] \in Nat
    BY RequestFields, OptionalIs
  <2>2. level # << >> => level[1] \in Nat
    BY <1>2, <1>5 DEF IsPolicy
  <2>3. policy.default_budget # << >> => policy.default_budget[1] \in Nat
    <3>1. policy.default_budget # << >> => policy.default_budget[1] \in Nat \ {0}
      BY <1>2, OptionalIs DEF IsPolicy
    <3> QED BY <3>1
  <2> QED BY <1>6, <2>1, <2>2, <2>3 DEF Or
<1>11. policy.max_budget # << >> => policy.max_budget[1] \in Nat /\ policy.max_budget[1] >= 1
  <2>1. policy.max_budget # << >> => policy.max_budget[1] \in Nat \ {0}
    BY <1>2, OptionalIs DEF IsPolicy
  <2> QED BY <2>1
<1>12. /\ bounded # << >> => bounded[1] \in Nat
       /\ policy.max_budget # << >> => bounded # << >> /\ bounded[1] <= policy.max_budget[1]
  <2>1. CASE budget # << >> /\ policy.max_budget # << >>
    <3>1. PICK a \in Nat : a = budget[1]
      BY <1>10, <2>1
    <3>2. PICK b \in Nat : b = policy.max_budget[1]
      BY <1>11, <2>1
    <3>3. bounded = <<Min({a, b})>>
      BY <1>7, <2>1, <3>1, <3>2
    <3>4. Min({a, b}) \in Nat /\ Min({a, b}) <= b
      BY OfTwo
    <3> QED BY <3>2, <3>3, <3>4
  <2>2. CASE budget = << >>
    <3>1. bounded = policy.max_budget
      BY <1>7, <2>2 DEF Or
    <3> QED BY <1>11, <3>1
  <2>3. CASE budget # << >> /\ policy.max_budget = << >>
    <3>1. bounded = budget
      BY <1>7, <2>3 DEF Or
    <3> QED BY <1>10, <2>3, <3>1
  <2> QED BY <2>1, <2>2, <2>3
<1>13. kept # << >> =>
         /\ open /\ kept[1] >= 1
         /\ policy.max_budget # << >> => kept[1] <= policy.max_budget[1]
  <2> SUFFICES ASSUME kept # << >>
               PROVE  /\ open /\ kept[1] >= 1
                      /\ policy.max_budget # << >> => kept[1] <= policy.max_budget[1]
    OBVIOUS
  <2>1. open /\ bounded # << >> /\ kept = <<Max({1, bounded[1]})>>
    BY <1>8
  <2>2. PICK b \in Nat : b = bounded[1]
    BY <1>12, <2>1
  <2>3. kept[1] = Max({1, b})
    BY <2>1, <2>2
  <2>4. Max({1, b}) \in {1, b} /\ 1 <= Max({1, b})
    BY OfTwo
  <2> QED BY <1>11, <1>12, <2>1, <2>2, <2>3, <2>4
<1>14. open /\ policy.max_budget # << >> => kept # << >>
  BY <1>8, <1>12
<1> QED BY <1>1, <1>3, <1>9, <1>13, <1>14, ConversationAssumption

\* The options a job runs with.
LEMMA OptionsAre ==
  ASSUME NEW r, IsRequest(r), Resolvable(r), NEW s \in Servers, NEW plan
  PROVE  LET options == ResolveOptions(s.defaults, r, plan)
         IN  /\ options.thinking_budget = IF plan.open THEN plan.budget ELSE << >>
             /\ options.temperature > 0 => EffectiveSpeculativeMode(options) = "off"
             /\ options.max_new_tokens \in 1..MAX_OUTPUT_TOKENS
<1>1. s.defaults \in Options
  BY ConversationAssumption
<1> DEFINE filter(field, none) ==
             IF r[field] = << >> THEN s.defaults[field]
             ELSE IF r[field][1] = none THEN << >> ELSE r[field]
<1>2. PICK d : d = s.defaults
  OBVIOUS
<1>3. PICK n, temperature, p, k, m, b :
        /\ n = Min({OrElse(MaxNewTokens(r), d.max_new_tokens), MAX_OUTPUT_TOKENS})
        /\ temperature = OrElse(r.temperature, d.temperature)
        /\ p = filter("top_p", 100) /\ k = Or(r.top_k, d.top_k) /\ m = filter("min_p", 0)
        /\ b = IF plan.open THEN plan.budget ELSE << >>
  OBVIOUS
<1>4. PICK o : o = [d EXCEPT !.max_new_tokens = n, !.temperature = temperature, !.top_p = p,
                             !.top_k = k, !.min_p = m, !.thinking_budget = b]
  OBVIOUS
<1>5. ResolveOptions(s.defaults, r, plan) = DisableSpeculationForSampling(o)
  BY <1>2, <1>3, <1>4, Zenon DEF ResolveOptions
<1>6. /\ DOMAIN o = {"max_new_tokens", "temperature", "top_p", "top_k", "min_p", "thinking_budget",
                     "speculative_mode", "speculative_mtp_draft_tokens", "speculative_ngram_draft_tokens"}
      /\ o = [field \in DOMAIN o |-> o[field]]
      /\ o.max_new_tokens = n /\ o.thinking_budget = b
  BY <1>1, <1>2, <1>4 DEF Options
<1>7. PICK off : off = [o EXCEPT !.speculative_mode = "off", !.speculative_mtp_draft_tokens = 0,
                                 !.speculative_ngram_draft_tokens = 0]
  OBVIOUS
<1>8. /\ off.speculative_mode = "off" /\ off.speculative_mtp_draft_tokens = 0
      /\ off.speculative_ngram_draft_tokens = 0 /\ off.thinking_budget = o.thinking_budget
      /\ off.max_new_tokens = o.max_new_tokens /\ off.temperature = o.temperature
  BY <1>6, <1>7
<1>9. EffectiveSpeculativeMode(off) = "off"
  BY <1>8 DEF EffectiveSpeculativeMode
<1>10. DisableSpeculationForSampling(o) =
        IF o.temperature > 0 /\ EffectiveSpeculativeMode(o) # "off" THEN off ELSE o
  BY <1>7, Zenon DEF DisableSpeculationForSampling
<1>11. o.max_new_tokens \in 1..MAX_OUTPUT_TOKENS
  <2>1. PICK limit \in Nat \ {0} : limit = d.max_new_tokens
    BY <1>1, <1>2 DEF Options
  <2>2. n = Min({OrElse(MaxNewTokens(r), limit), MAX_OUTPUT_TOKENS}) /\ OrElse(MaxNewTokens(r), limit) \in Nat \ {0}
    <3>1. MaxNewTokens(r) # << >> => MaxNewTokens(r)[1] \in Nat
      <4>1. MaxNewTokens(r) \in Optional(Nat)
        BY RequestFields DEF MaxNewTokens, Or
      <4> QED BY <4>1, OptionalIs
    <3>2. MaxNewTokens(r) # << >> => MaxNewTokens(r)[1] >= 1
      BY DEF Resolvable, AtLeast
    <3>3. MaxNewTokens(r) # << >> => MaxNewTokens(r)[1] \in Nat \ {0}
      BY <3>1, <3>2
    <3> QED BY <1>3, <2>1, <3>3 DEF OrElse
  <2>3. MAX_OUTPUT_TOKENS \in Nat \ {0}
    BY ConversationAssumption
  <2>4. n \in {OrElse(MaxNewTokens(r), limit), MAX_OUTPUT_TOKENS} /\ n <= MAX_OUTPUT_TOKENS
    BY <2>2, <2>3, OfTwo
  <2> QED BY <1>6, <2>2, <2>3, <2>4
<1>12. CASE o.temperature > 0 /\ EffectiveSpeculativeMode(o) # "off"
  BY <1>3, <1>5, <1>6, <1>8, <1>9, <1>10, <1>11, <1>12
<1>13. CASE ~(o.temperature > 0 /\ EffectiveSpeculativeMode(o) # "off")
  BY <1>3, <1>5, <1>6, <1>10, <1>11, <1>13
<1> QED BY <1>12, <1>13

-----------------------------------------------------------------------------
Joins(s, t, m, l) ==
  /\ s \o t \in Text /\ Len(s \o t) = m + l
  /\ \A k \in 1..m : (s \o t)[k] = s[k]
  /\ \A k \in 1..l : (s \o t)[m + k] = t[k]
LEMMA ConcatAt ==
  ASSUME NEW s \in Text, NEW t \in Text, NEW m \in Nat, Len(s) = m, NEW l \in Nat, Len(t) = l
  PROVE  Joins(s, t, m, l)
BY TextConcat DEF Joins

\* What a turn's first symbols are, and the one after its body.
LEMMA TurnAt ==
  ASSUME NEW role \in Symbols, NEW body \in Text, NEW n \in Nat, n = Len(body),
         NEW t, t = Turn(role, body)
  PROVE  /\ t \in Text /\ Len(t) = n + 5 /\ t[1] = IM_START[1] /\ t[2] = role /\ t[3] = "\n"
         /\ \A k \in 1..n : t[k + 3] = body[k]
         /\ t[n + 4] = IM_END[1]
<1>1. PICK a : a = "\n"
  OBVIOUS
<1>2. PICK header \in Text : header = <<role, a>> /\ Len(header) = 2 /\ header[1] = role /\ header[2] = a
  <2>1. a \in Symbols
    <3>1. "\n" \in Symbols
      BY Zenon DEF Symbols
    <3> QED BY <1>1, <3>1
  <2> QED BY <2>1, PairText
<1>3. PICK start \in Text : start = IM_START /\ Len(start) = 1
  <2>1. \A b : Len(<<b>>) = 1
    OBVIOUS
  <2> QED BY <2>1, MarkerTexts DEF IM_START
<1>4. PICK end \in Text : end = IM_END /\ Len(end) = 2
  <2>1. \A b, c : Len(<<b, c>>) = 2
    OBVIOUS
  <2> QED BY <2>1, MarkerTexts DEF IM_END
<1>5. t = start \o header \o body \o end
  BY <1>1, <1>2, <1>3, <1>4, Zenon DEF Turn
<1>6. PICK u \in Text : u = start \o header
  BY <1>2, <1>3, TextConcat
<1>7. Len(u) = 3 /\ u[1] = start[1] /\ u[2] = role /\ u[3] = a
  <2>1. header \in Text /\ Len(header) = 2
    BY <1>2
  <2>2. /\ Len(u) = 1 + 2 /\ (\A k \in 1..1 : u[k] = start[k])
        /\ \A k \in 1..2 : u[1 + k] = header[k]
    <3>1. Joins(start, header, 1, 2)
      BY <1>3, <1>6, <2>1, ConcatAt
    <3> QED BY <1>3, <1>6, <2>1, <3>1 DEF Joins
  <2>3. u[1] = start[1] /\ u[1 + 1] = header[1] /\ u[1 + 2] = header[2]
    BY <2>2
  <2>4. 1 + 1 = 2 /\ 1 + 2 = 3
    OBVIOUS
  <2> QED BY <1>2, <2>2, <2>3, <2>4
<1>8. PICK v \in Text : v = u \o body
  BY <1>6, TextConcat
<1>9. Len(v) = n + 3 /\ (\A k \in 1..3 : v[k] = u[k]) /\ \A k \in 1..n : v[k + 3] = body[k]
  <2>1. /\ Len(v) = 3 + n /\ (\A k \in 1..3 : v[k] = u[k])
        /\ \A k \in 1..n : v[3 + k] = body[k]
    <3>1. Joins(u, body, 3, n)
      BY <1>6, <1>7, <1>8, ConcatAt
    <3> QED BY <1>6, <1>7, <1>8, <3>1 DEF Joins
  <2>2. \A k \in 1..n : 3 + k = k + 3
    OBVIOUS
  <2> QED BY <2>1, <2>2
<1>10. t \in Text /\ Len(t) = n + 5 /\ (\A k \in 1..(n + 3) : t[k] = v[k]) /\ t[n + 4] = end[1]
  <2>1. t = v \o end
    BY <1>5, <1>6, <1>8
  <2>2. end \in Text /\ v \in Text /\ Len(end) = 2 /\ Len(v) = n + 3 /\ n + 3 \in Nat
    BY <1>4, <1>8, <1>9
  <2>3. /\ t \in Text /\ Len(t) = (n + 3) + 2 /\ (\A k \in 1..(n + 3) : t[k] = v[k])
        /\ \A k \in 1..2 : t[(n + 3) + k] = end[k]
    <3>1. Joins(v, end, n + 3, 2)
      BY <2>1, <2>2, ConcatAt
    <3> QED BY <2>1, <2>2, <3>1 DEF Joins
  <2>4. t[(n + 3) + 1] = end[1] /\ (n + 3) + 2 = n + 5 /\ (n + 3) + 1 = n + 4
    BY <2>3
  <2> QED BY <2>3, <2>4
<1>11. 1 \in 1..3 /\ 2 \in 1..3 /\ 3 \in 1..3 /\ \A k \in 1..3 : k \in 1..(n + 3)
  OBVIOUS
<1>12. \A k \in 1..n : k + 3 \in 1..(n + 3)
  OBVIOUS
<1> QED BY <1>1, <1>3, <1>4, <1>7, <1>9, <1>10, <1>11, <1>12

\* Whose turn is rendered first.
LEMMA OneSpeaks ==
  ASSUME NEW messages \in Seq(ChatTexts), NEW i \in DOMAIN messages,
         messages[i].role # "system",
         ~(i - 1 \in DOMAIN messages /\ messages[i - 1].role = "tool")
  PROVE  \E role \in {"user", "assistant"} : Speaks(Rendered(messages, i), role)
<1>1. PICK message \in ChatTexts : message = messages[i]
  <2>1. \A S : \A s \in Seq(S) : \A k \in DOMAIN s : s[k] \in S
    OBVIOUS
  <2> QED BY <2>1
<1>2. message.role \in {"user", "assistant", "tool"} /\ message.content \in Text
  BY <1>1 DEF ChatTexts
<1>3. ASSUME NEW role \in Symbols, NEW body \in Text PROVE Speaks(Turn(role, body), role)
  <2>1. PICK n \in Nat : n = Len(body)
    BY LenOfText
  <2>2. PICK t : t = Turn(role, body)
    OBVIOUS
  <2>3. t \in Text /\ Len(t) = n + 5 /\ t[2] = role
    BY <2>1, <2>2, TurnAt
  <2> QED BY <2>2, <2>3 DEF Speaks
<1>4. CASE message.role = "user"
  <2>1. Rendered(messages, i) = Turn("user", Trim(message.content))
    BY <1>1, <1>4 DEF Rendered
  <2>2. Trim(message.content) \in Text
    BY <1>2, TrimType
  <2> QED BY <1>3, <2>1, <2>2, RolesAreSymbols
<1>5. CASE message.role = "assistant"
  <2>1. Rendered(messages, i) = AssistantTurn(message, LastQueryIndex(messages) \in 1..(i - 1))
    BY <1>1, <1>5 DEF Rendered
  <2>2. PICK body \in Text : Rendered(messages, i) = Turn("assistant", body)
    BY <2>1, AssistantTurnIs
  <2> QED BY <1>3, <2>2, RolesAreSymbols
<1>6. CASE message.role = "tool"
  <2>1. Rendered(messages, i) = ToolTurn(messages, i)
    BY <1>1, <1>6 DEF Rendered
  <2>2. messages[i].content \in Text
    BY <1>1, <1>2
  <2>3. Speaks(ToolTurn(messages, i), "user")
    BY <2>2, ToolTurnType
  <2> QED BY <2>1, <2>3
<1> QED BY <1>2, <1>4, <1>5, <1>6

\* Without a system's text nor tools a prompt begins with somebody else's turn.
LEMMA SomebodySpeaks ==
  ASSUME NEW messages \in Seq(ChatTexts), Renderable(messages),
         NEW n \in Nat \ {0}, n = Len(messages), SystemBlock(messages, << >>) = << >>
  PROVE  \E role \in {"user", "assistant"} : Speaks(RenderedUpTo(messages, << >>, n), role)
<1>1. PICK f : f = [i \in 1..n |-> Rendered(messages, i)]
  OBVIOUS
<1>2. << >> \in Seq(Tools) /\ n \in 0..Len(messages)
  OBVIOUS
<1>3. f \in Seq(Text) /\ Len(f) = n
  BY <1>1, <1>2, RenderedUpToType
<1>4. RenderedUpTo(messages, << >>, n) = FlattenSeq(f)
  <2>1. RenderedUpTo(messages, << >>, n) = << >> \o FlattenSeq(f)
    BY <1>1, Zenon DEF RenderedUpTo
  <2>2. FlattenSeq(f) \in Text
    BY <1>3, FlattenType
  <2> QED BY <2>1, <2>2, TextNothing
<1>5. DOMAIN messages = 1..n
  OBVIOUS
<1>6. f # << >> /\ Head(f) = f[1] /\ 1 \in 1..n
  <2>1. \A S : \A s \in Seq(S) : Len(s) # 0 => s # << >> /\ Head(s) = s[1]
    OBVIOUS
  <2> QED BY <1>3, <2>1
<1>7. PICK rest \in Seq(Text) : rest = Tail(f) /\ Len(rest) = n - 1 /\ \A k \in 1..(n - 1) : rest[k] = f[k + 1]
  <2>1. \A S : \A s \in Seq(S) : \A m \in Nat \ {0} : Len(s) = m =>
          Tail(s) \in Seq(S) /\ Len(Tail(s)) = m - 1 /\ \A k \in 1..(m - 1) : Tail(s)[k] = s[k + 1]
    OBVIOUS
  <2> QED BY <1>3, <2>1
<1>8. FlattenSeq(f) = f[1] \o FlattenSeq(rest) /\ FlattenSeq(rest) \in Text
  BY <1>3, <1>6, <1>7, FlattenCons, FlattenType
<1>9. CASE messages[1].role # "system"
  <2>1. 1 - 1 \notin DOMAIN messages /\ 1 \in DOMAIN messages
    BY <1>5, <1>6
  <2>2. PICK role \in {"user", "assistant"} : Speaks(Rendered(messages, 1), role)
    BY <1>9, <2>1, OneSpeaks
  <2>3. f[1] = Rendered(messages, 1)
    BY <1>1, <1>6
  <2> QED BY <1>4, <1>8, <2>2, <2>3, StillSpeaks
<1>10. CASE messages[1].role = "system"
  <2>1. PICK u \in DOMAIN messages : messages[u].role = "user"
    BY DEF Renderable
  <2>2. messages[u].role # messages[1].role
    <3>1. "user" # "system"
      BY Zenon
    <3> QED BY <1>10, <2>1, <3>1, Zenon
  <2>3. n >= 2 /\ 2 \in DOMAIN messages /\ 1 \in 1..(n - 1) /\ 2 \in 2..Len(messages) /\ 2 \in 1..n
    BY <1>5, <2>1, <2>2
  <2>4. messages[2].role # "system"
    BY <2>3 DEF Renderable
  <2>5. messages[2 - 1].role # "tool"
    <3>1. "tool" # "system" /\ 2 - 1 = 1
      OBVIOUS
    <3> QED BY <1>10, <3>1
  <2>6. PICK role \in {"user", "assistant"} : Speaks(Rendered(messages, 2), role)
    BY <2>3, <2>4, <2>5, OneSpeaks
  <2>7. f[1] = << >>
    <3>1. Rendered(messages, 1) = << >>
      BY <1>10 DEF Rendered
    <3> QED BY <1>1, <1>6, <3>1
  <2>8. FlattenSeq(f) = FlattenSeq(rest)
    BY <1>8, <2>7, TextNothing
  <2>9. rest # << >> /\ Head(rest) = rest[1]
    <3>1. \A S : \A s \in Seq(S) : Len(s) # 0 => s # << >> /\ Head(s) = s[1]
      OBVIOUS
    <3>2. Len(rest) # 0
      BY <1>7, <2>3
    <3> QED BY <3>1, <3>2
  <2>10. rest[1] = Rendered(messages, 2)
    <3>1. rest[1] = f[1 + 1] /\ 1 + 1 = 2
      BY <1>7, <2>3
    <3> QED BY <1>1, <2>3, <3>1
  <2>11. FlattenSeq(rest) = rest[1] \o FlattenSeq(Tail(rest)) /\ FlattenSeq(Tail(rest)) \in Text
    <3>1. \A S : \A s \in Seq(S) : s # << >> => Tail(s) \in Seq(S)
      OBVIOUS
    <3> QED BY <1>7, <2>9, <3>1, FlattenCons, FlattenType
  <2> QED BY <1>4, <2>6, <2>8, <2>10, <2>11, StillSpeaks
<1> QED BY <1>9, <1>10


\* Where a prompt lists the tools.
LEMMA HeadingAt ==
  /\ ListHeading \in Text /\ Len(ListHeading) = 2 /\ ListHeading[2] # IM_END[1]
  /\ ToolsHeading \in Text /\ Len(ToolsHeading) = 5
  /\ ToolsHeading[1] = IM_START[1] /\ ToolsHeading[2] = "system" /\ ToolsHeading[3] = "\n"
  /\ ToolsHeading[4] = ListHeading[1] /\ ToolsHeading[5] = ListHeading[2]
<1>1. PICK a \in Symbols : a = "\n"
  <2>1. "\n" \in Symbols
    BY Zenon DEF Symbols
  <2> QED BY <2>1
<1>2. PICK b \in Symbols : b = "# Tools"
  <2>1. "# Tools" \in Symbols
    BY Zenon DEF Symbols
  <2> QED BY <2>1
<1>3. PICK c \in Symbols : c = "<tools>"
  <2>1. "<tools>" \in Symbols
    BY Zenon DEF Symbols
  <2> QED BY <2>1
<1>4. PICK d \in Symbols : d = "system"
  BY RolesAreSymbols
<1>5. PICK e : e = "<|im_end|>"
  OBVIOUS
<1>6. c # e
  <2>1. "<tools>" # "<|im_end|>"
    BY Zenon
  <2> QED BY <1>3, <1>5, <2>1, Zenon
<1>7. PICK list : list = <<b, c>>
  OBVIOUS
<1>8. list \in Text /\ Len(list) = 2 /\ list[1] = b /\ list[2] = c
  BY <1>2, <1>3, <1>7, PairText
<1>9. ListHeading = list
  BY <1>2, <1>3, <1>7, Zenon DEF ListHeading
<1>10. IM_END[1] = e
  <2>1. IM_END = <<e, a>>
    BY <1>1, <1>5, Zenon DEF IM_END
  <2> QED BY <2>1
<1>11. PICK said : said = <<d, a, b, c>>
  OBVIOUS
<1>12. said \in Text /\ Len(said) = 4 /\ said[1] = d /\ said[2] = a /\ said[3] = b /\ said[4] = c
  <2>1. \A S : \A p, q, r, s \in S : <<p, q, r, s>> \in Seq(S)
    OBVIOUS
  <2> QED BY <1>1, <1>2, <1>3, <1>4, <1>11, <2>1 DEF Text
<1>13. PICK start \in Text : start = IM_START /\ Len(start) = 1
  <2>1. \A p : Len(<<p>>) = 1
    OBVIOUS
  <2> QED BY <2>1, MarkerTexts DEF IM_START
<1>14. ToolsHeading = start \o said
  BY <1>1, <1>2, <1>3, <1>4, <1>11, <1>13, Zenon DEF ToolsHeading
<1>15. PICK heading : heading = start \o said
  OBVIOUS
<1>16. /\ heading \in Text /\ Len(heading) = 5 /\ heading[1] = start[1] /\ heading[2] = d
       /\ heading[3] = a /\ heading[4] = b /\ heading[5] = c
  <2>1. Joins(start, said, 1, 4)
    BY <1>12, <1>13, ConcatAt
  <2>2. heading \in Text /\ Len(heading) = 1 + 4 /\ heading[1] = start[1]
        /\ \A k \in 1..4 : heading[1 + k] = said[k]
    BY <1>15, <2>1 DEF Joins
  <2>3. heading[1 + 1] = said[1] /\ heading[1 + 2] = said[2] /\ heading[1 + 3] = said[3]
        /\ heading[1 + 4] = said[4]
    BY <2>2
  <2>4. 1 + 1 = 2 /\ 1 + 2 = 3 /\ 1 + 3 = 4 /\ 1 + 4 = 5
    OBVIOUS
  <2> QED BY <1>12, <2>2, <2>3, <2>4
<1>17. ListHeading \in Text /\ Len(ListHeading) = 2 /\ ListHeading[2] # IM_END[1]
  BY <1>6, <1>8, <1>9, <1>10, Zenon
<1>18. ToolsHeading \in Text /\ Len(ToolsHeading) = 5
  BY <1>14, <1>15, <1>16, Zenon
<1>19. ToolsHeading[1] = IM_START[1] /\ ToolsHeading[2] = "system" /\ ToolsHeading[3] = "\n"
  BY <1>1, <1>4, <1>13, <1>14, <1>15, <1>16, Zenon
<1>20. ToolsHeading[4] = ListHeading[1] /\ ToolsHeading[5] = ListHeading[2]
  BY <1>8, <1>9, <1>14, <1>15, <1>16, Zenon
<1> QED BY <1>17, <1>18, <1>19, <1>20, Zenon

LEMMA ListingTurn ==
  ASSUME NEW body \in Text, NEW rest \in Text, NEW x, x = Turn("system", body) \o rest
  PROVE  /\ IsPrefix(ListHeading, body) => IsPrefix(ToolsHeading, x)
         /\ IsPrefix(ToolsHeading, x) /\ body # << >> => IsPrefix(ListHeading, body)
<1>1. PICK n \in Nat : n = Len(body)
  BY LenOfText
<1>2. PICK t : t = Turn("system", body)
  OBVIOUS
<1>3. PICK l \in Nat : l = Len(rest)
  BY LenOfText
<1>4. PICK heading \in Text : heading = ToolsHeading
  BY HeadingAt
<1>5. PICK list \in Text : list = ListHeading
  BY HeadingAt
<1>6. PICK e : e = IM_END[1]
  OBVIOUS
<1>7. /\ Len(list) = 2 /\ list[2] # e /\ Len(heading) = 5
      /\ heading[4] = list[1] /\ heading[5] = list[2]
  BY <1>4, <1>5, <1>6, HeadingAt, Zenon
<1>8. /\ t \in Text /\ Len(t) = n + 5 /\ t[1] = heading[1] /\ t[2] = heading[2] /\ t[3] = heading[3]
      /\ (\A k \in 1..n : t[k + 3] = body[k]) /\ t[n + 4] = e
  <2>1. /\ t \in Text /\ Len(t) = n + 5 /\ t[1] = IM_START[1] /\ t[2] = "system" /\ t[3] = "\n"
        /\ (\A k \in 1..n : t[k + 3] = body[k]) /\ t[n + 4] = IM_END[1]
    BY <1>1, <1>2, TurnAt, RolesAreSymbols
  <2> QED BY <1>4, <1>6, <2>1, HeadingAt, Zenon
<1>9. x \in Text /\ Len(x) = (n + 5) + l /\ \A k \in 1..(n + 5) : x[k] = t[k]
  <2>1. Joins(t, rest, n + 5, l)
    <3>1. n + 5 \in Nat
      OBVIOUS
    <3> QED BY <1>3, <1>8, <3>1, ConcatAt
  <2> QED BY <1>2, <2>1 DEF Joins
<1>10. /\ x[1] = heading[1] /\ x[2] = heading[2] /\ x[3] = heading[3]
       /\ x[4] = t[4] /\ x[5] = t[5] /\ Len(x) >= 5
  <2>1. 1 \in 1..(n + 5) /\ 2 \in 1..(n + 5) /\ 3 \in 1..(n + 5) /\ 4 \in 1..(n + 5) /\ 5 \in 1..(n + 5)
        /\ (n + 5) + l >= 5
    OBVIOUS
  <2> QED BY <1>8, <1>9, <2>1
<1>11. 1..5 = {1, 2, 3, 4, 5} /\ 1..2 = {1, 2}
  OBVIOUS
<1>12. IsPrefix(heading, x) <=> x[4] = list[1] /\ x[5] = list[2]
  <2>1. IsPrefix(heading, x) <=> Extends(x, heading)
    BY <1>9, PrefixAt
  <2> QED BY <1>7, <1>10, <1>11, <2>1 DEF Extends
<1>13. IsPrefix(list, body) <=> n >= 2 /\ body[1] = list[1] /\ body[2] = list[2]
  <2>1. IsPrefix(list, body) <=> Extends(body, list)
    BY PrefixAt
  <2> QED BY <1>1, <1>7, <1>11, <2>1 DEF Extends
<1>14. n >= 1 => t[4] = body[1]
  <2>1. n >= 1 => t[1 + 3] = body[1]
    BY <1>8
  <2> QED BY <2>1
<1>15. n >= 2 => t[5] = body[2]
  <2>1. n >= 2 => t[2 + 3] = body[2]
    BY <1>8
  <2> QED BY <2>1
<1>16. n = 1 => t[5] = e
  BY <1>8
<1>17. body # << >> => n >= 1
  BY <1>1, LenOfText
<1>18. IsPrefix(list, body) => IsPrefix(heading, x)
  BY <1>10, <1>12, <1>13, <1>14, <1>15
<1>19. IsPrefix(heading, x) /\ body # << >> => IsPrefix(list, body)
  BY <1>7, <1>10, <1>12, <1>13, <1>14, <1>15, <1>16, <1>17
<1> QED BY <1>4, <1>5, <1>18, <1>19

LEMMA TrimNothing == Trim(<< >>) = << >>
<1>1. PICK n : n = << >>
  OBVIOUS
<1>2. Inked(n) = {}
  BY <1>1 DEF Inked
<1>3. TrimStart(n) = n /\ TrimEnd(n) = n
  BY <1>1, <1>2 DEF TrimStart, TrimEnd
<1> QED BY <1>1, <1>3 DEF Trim

\* A prompt lists the tools exactly if the request has some, but for a client's own list.
LEMMA ToolsAreListed ==
  ASSUME NEW r, IsRequest(r), NEW s \in Servers, Job(r, s).status = "submitted"
  PROVE  /\ ToolDefinitions(r) # << >> => IsPrefix(ToolsHeading, Job(r, s).prompt)
         /\ IsPrefix(ToolsHeading, Job(r, s).prompt) =>
              ToolDefinitions(r) # << >> \/ OwnHeading(r.messages[1])
<1>1. PICK messages \in Seq(ChatTexts) : messages = ChatMessages(r)
  BY SubmittedIs
<1>2. PICK tools \in Seq(Tools) : tools = ToolDefinitions(r)
  BY SubmittedIs
<1>3. PICK n \in Nat \ {0} : n = Len(messages)
  BY <1>1, SubmittedIs
<1>4. PICK gen \in Text : Job(r, s).prompt = RenderedUpTo(messages, tools, n) \o gen
  BY <1>1, <1>2, <1>3, SubmittedIs
<1>5. PICK prompt : prompt = Job(r, s).prompt
  OBVIOUS
<1>6. PICK f : f = [i \in 1..n |-> Rendered(messages, i)]
  OBVIOUS
<1>7. PICK flat \in Text : flat = FlattenSeq(f)
  <2>1. n \in 0..Len(messages)
    BY <1>3
  <2>2. f \in Seq(Text)
    BY <1>6, <2>1, RenderedUpToType
  <2> QED BY <2>2, FlattenType
<1>8. PICK block \in Text : block = SystemBlock(messages, tools)
  BY SystemBlockType
<1>9. PICK rest \in Text : rest = flat \o gen
  BY <1>7, <1>4, TextConcat
<1>10. prompt = block \o rest
  <2>1. RenderedUpTo(messages, tools, n) = block \o flat
    BY <1>6, <1>7, <1>8, Zenon DEF RenderedUpTo
  <2>2. Associates(block, flat, gen)
    BY <1>4, <1>7, <1>8, TextsAssociate
  <2> QED BY <1>4, <1>5, <1>9, <2>1, <2>2 DEF Associates
<1>11. CASE tools # << >>
  <2>1. PICK body \in Text : IsPrefix(ListHeading, body) /\ block = Turn("system", body)
    BY <1>8, <1>11, SystemBlockIs
  <2>2. IsPrefix(ToolsHeading, prompt)
    BY <1>9, <1>10, <2>1, ListingTurn
  <2> QED BY <1>2, <1>5, <1>11, <2>2
<1>12. CASE tools = << >>
  <2> SUFFICES ASSUME IsPrefix(ToolsHeading, prompt)
               PROVE  OwnHeading(r.messages[1])
    BY <1>2, <1>5, <1>12
  <2>1. PICK system \in Text : system = SystemText(messages)
    BY SystemBlockIs
  <2>2. system # << >>
    <3> SUFFICES ASSUME system = << >> PROVE FALSE
      OBVIOUS
    <3>1. SystemBlock(messages, << >>) = << >>
      BY <1>12, <2>1, SystemBlockIs
    <3>2. Renderable(messages)
      BY <1>1, JobIs DEF Acceptable
    <3>3. PICK role \in {"user", "assistant"} : Speaks(RenderedUpTo(messages, << >>, n), role)
      BY <1>3, <3>1, <3>2, SomebodySpeaks
    <3>4. Speaks(prompt, role)
      BY <1>4, <1>5, <1>12, <3>3, StillSpeaks
    <3>5. prompt[2] = "system"
      <4>1. prompt \in Text /\ ToolsHeading \in Text /\ Len(ToolsHeading) = 5
        BY <3>4, HeadingAt DEF Speaks
      <4>2. Extends(prompt, ToolsHeading)
        BY <4>1, PrefixAt
      <4>3. prompt[2] = ToolsHeading[2]
        BY <4>1, <4>2 DEF Extends
      <4> QED BY <4>3, HeadingAt, Zenon
    <3>6. role # "system"
      BY <3>3
    <3> QED BY <3>4, <3>5, <3>6 DEF Speaks
  <2>3. block = Turn("system", system)
    BY <1>8, <1>12, <2>1, <2>2, SystemBlockIs
  <2>4. IsPrefix(ListHeading, system)
    BY <1>9, <1>10, <2>2, <2>3, ListingTurn
  <2>5. messages # << >> /\ system = Trim(messages[1].content)
    BY <2>1, <2>2 DEF SystemText
  <2>6. PICK message : message = r.messages[1]
    OBVIOUS
  <2>7. messages[1].content = OrElse(message.content, << >>)
    <3>1. 1 \in DOMAIN r.messages
      <4>1. DOMAIN messages = DOMAIN r.messages
        BY <1>1, SubmittedIs
      <4>2. 1 \in DOMAIN messages
        BY <1>3
      <4> QED BY <4>1, <4>2
    <3> QED BY <1>1, <2>6, <3>1 DEF ChatMessages
  <2>8. message.content # << >>
    <3> SUFFICES ASSUME message.content = << >> PROVE FALSE
      OBVIOUS
    <3>1. messages[1].content = << >>
      BY <2>7 DEF OrElse
    <3> QED BY <2>2, <2>5, <3>1, TrimNothing
  <2>9. system = Trim(message.content[1])
    BY <2>5, <2>7, <2>8 DEF OrElse
  <2> QED BY <2>4, <2>6, <2>8, <2>9, Zenon DEF OwnHeading, ListHeading
<1> QED BY <1>11, <1>12

\* A job the engine can serve, in every conversation.
THEOREM JobsAreServed == ConversationSpec => []JobsAreServable
<1>1. ASSUME ConversationInv PROVE JobsAreServable
  <2> SUFFICES ASSUME job.status = "submitted"
               PROVE  LET options == job.options
                          ceiling == server.policy.max_budget
                      IN  /\ job.thinking_open <=> IsSuffix(THINK \o <<"\n">>, job.prompt)
                          /\ options.thinking_budget # << >> =>
                               /\ job.thinking_open /\ options.thinking_budget[1] >= 1
                               /\ ceiling # << >> => options.thinking_budget[1] <= ceiling[1]
                          /\ job.thinking_open /\ ceiling # << >> => options.thinking_budget # << >>
                          /\ options.temperature > 0 => EffectiveSpeculativeMode(options) = "off"
                          /\ options.max_new_tokens \in 1..MAX_OUTPUT_TOKENS
                          /\ << >> \notin job.stop_strings
                          /\ job.tools_enabled => IsPrefix(ToolsHeading, job.prompt)
                          /\ IsPrefix(ToolsHeading, job.prompt) =>
                               job.tools_enabled \/ OwnHeading(sent.messages[1])
    BY Zenon DEF JobsAreServable
  <2>1. server \in Servers /\ IsRequest(sent) /\ job = Job(sent, server)
    <3>1. NoJob.status # "submitted"
      BY DEF NoJob
    <3> QED BY <1>1, <3>1 DEF ConversationInv
  <2>2. PICK plan : plan = Plan(sent, server)
    OBVIOUS
  <2>3. Acceptable(sent) /\ Resolvable(sent)
    BY <2>1, JobIs DEF Acceptable
  <2>4. /\ job.thinking_open = plan.open /\ job.options = ResolveOptions(server.defaults, sent, plan)
        /\ job.stop_strings = StopStrings(sent) /\ job.tools_enabled = (ToolDefinitions(sent) # << >>)
    BY <2>1, <2>2, JobIs
  <2>5. /\ plan.open \in BOOLEAN
        /\ plan.open => server.supports
        /\ plan.budget # << >> =>
             /\ plan.open /\ plan.budget[1] >= 1
             /\ server.policy.max_budget # << >> => plan.budget[1] <= server.policy.max_budget[1]
        /\ plan.open /\ server.policy.max_budget # << >> => plan.budget # << >>
    BY <2>1, <2>2, PlanIs, Zenon
  <2>6. /\ job.options.thinking_budget = IF plan.open THEN plan.budget ELSE << >>
        /\ job.options.temperature > 0 => EffectiveSpeculativeMode(job.options) = "off"
        /\ job.options.max_new_tokens \in 1..MAX_OUTPUT_TOKENS
    BY <2>1, <2>3, <2>4, OptionsAre, Zenon
  <2>7. job.thinking_open <=> IsSuffix(THINK \o <<"\n">>, job.prompt)
    <3>1. PICK messages \in Seq(ChatTexts) : messages = ChatMessages(sent) /\ Len(messages) \in Nat
      BY <2>1, SubmittedIs
    <3>2. PICK tools \in Seq(Tools) : tools = ToolDefinitions(sent)
      BY <2>1, SubmittedIs
    <3>3. Len(messages) \in 0..Len(messages)
      BY <3>1
    <3>4. PICK x \in Text : x = RenderedUpTo(messages, tools, Len(messages))
      BY <3>3, RenderedUpToType
    <3>5. job.prompt = x \o GenerationPrompt(server.supports, plan.open)
      BY <2>1, <2>2, <3>1, <3>2, <3>4, SubmittedIs
    <3>6. PICK supports \in BOOLEAN : supports = server.supports
      BY <2>1, ConversationAssumption
    <3>7. PICK open \in BOOLEAN : open = plan.open
      BY <2>5, Zenon
    <3>8. open => supports
      BY <2>5, <3>6, <3>7, Zenon
    <3>9. open <=> IsSuffix(THINK \o <<"\n">>, x \o GenerationPrompt(supports, open))
      BY <3>8, OpensThinking
    <3> QED BY <2>4, <3>5, <3>6, <3>7, <3>9, Zenon
  <2>8. job.options.thinking_budget # << >> =>
          /\ job.thinking_open /\ job.options.thinking_budget[1] >= 1
          /\ server.policy.max_budget # << >> =>
               job.options.thinking_budget[1] <= server.policy.max_budget[1]
    <3>1. CASE plan.open
      BY <2>4, <2>5, <2>6, <3>1
    <3>2. CASE ~plan.open
      BY <2>6, <3>2
    <3> QED BY <3>1, <3>2
  <2>9. job.thinking_open /\ server.policy.max_budget # << >> => job.options.thinking_budget # << >>
    BY <2>4, <2>5, <2>6, Zenon
  <2>10. << >> \notin job.stop_strings
    BY <2>4 DEF StopStrings
  <2>11. job.tools_enabled => IsPrefix(ToolsHeading, job.prompt)
    BY <2>1, <2>4, ToolsAreListed, Zenon
  <2>12. IsPrefix(ToolsHeading, job.prompt) => job.tools_enabled \/ OwnHeading(sent.messages[1])
    BY <2>1, <2>4, ToolsAreListed, Zenon
  <2> QED BY <2>6, <2>7, <2>8, <2>9, <2>10, <2>11, <2>12, Zenon
<1>2. ConversationInv => JobsAreServable
  BY <1>1
<1> QED BY <1>2, ConversationIsInvariant, PTL
=============================================================================
