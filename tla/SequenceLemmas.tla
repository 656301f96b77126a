--------------------------- MODULE SequenceLemmas ---------------------------
(***************************************************************************)
(* What the proofs about several components need of numbers and sequences: *)
(* induction in the form of a statement about a set of naturals, the sums  *)
(* that FoldLeft computes, products, RemoveAt, FlattenSeq, sets as lists,  *)
(* and chains of calls.                                                    *)
(***************************************************************************)
EXTENDS Integers, SequencesExt, SortedSets, FiniteSetTheorems, SequenceTheorems,
        WellFoundedInduction, TLAPS

\* A set of naturals that holds 0 and with each number the next is all of them.
LEMMA Induction ==
  ASSUME NEW T \in SUBSET Nat, 0 \in T, \A n \in T : n + 1 \in T
  PROVE  T = Nat
<1> DEFINE R == {ss \in Nat \X Nat : ss[1] < ss[2]}
           U == Nat \ T
<1>1. SUFFICES ASSUME U # {} PROVE FALSE
  OBVIOUS
<1>2. IsWellFoundedOn(R, Nat)
  BY NatLessThanWellFounded DEF OpToRel
<1>3. PICK n \in U : \A m \in U : <<m, n>> \notin R
  <2> HIDE DEF R
  <2> QED  BY <1>1, <1>2, WFMin
<1>4. n \in Nat /\ n # 0 /\ n - 1 \in Nat /\ n - 1 \notin T
  OBVIOUS
<1>5. <<n - 1, n>> \in R
  <2>1. <<n - 1, n>> \in Nat \X Nat /\ <<n - 1, n>>[1] < <<n - 1, n>>[2]
    BY <1>4
  <2> QED  BY <2>1
<1> QED  BY <1>3, <1>4, <1>5

LEMMA MaxOfPrefix ==
  ASSUME NEW n \in Nat, NEW s \in SUBSET (1 .. n), n \in s
  PROVE  Max(s) = n
<1>1. n \in s /\ \A y \in s : n >= y
  OBVIOUS
<1>2. Max(s) \in s /\ \A y \in s : Max(s) >= y
  BY <1>1 DEF Max
<1> DEFINE m == Max(s)
<1>3. m \in 1 .. n /\ m >= n
  BY <1>1, <1>2
<1> HIDE DEF m
<1>4. m = n
  BY <1>3
<1> QED  BY <1>4 DEF m

\* Numbers up to a bound have a largest one.
LEMMA MaxIn ==
  ASSUME NEW n \in Nat, NEW s \in SUBSET (1 .. n), s # {}
  PROVE  Max(s) \in s
<1> DEFINE T == {m \in Nat : \A t \in SUBSET (1 .. m) : t # {} => \E x \in t : \A y \in t : x >= y}
<1>1. 0 \in T
  <2>1. 1 .. 0 = {}
    OBVIOUS
  <2> QED  BY <2>1
<1>2. ASSUME NEW m \in T PROVE m + 1 \in T
  <2>1. m \in Nat
    OBVIOUS
  <2>2. ASSUME NEW t \in SUBSET (1 .. m + 1), t # {}
        PROVE  \E x \in t : \A y \in t : x >= y
    <3>1. CASE m + 1 \in t
      <4>1. \A y \in t : m + 1 >= y
        BY <2>1
      <4> QED  BY <3>1, <4>1
    <3>2. CASE m + 1 \notin t
      <4>1. \A y \in 1 .. m + 1 : y # m + 1 => y \in 1 .. m
        BY <2>1
      <4>2. t \in SUBSET (1 .. m)
        BY <3>2, <4>1
      <4> QED  BY <2>2, <4>2
    <3> QED  BY <3>1, <3>2
  <2> QED  BY <2>1, <2>2
<1>3. T = Nat
  <2>1. T \in SUBSET Nat
    OBVIOUS
  <2> HIDE DEF T
  <2> QED  BY <1>1, <1>2, <2>1, Induction
<1>4. \E x \in s : \A y \in s : x >= y
  BY <1>3
<1> QED  BY <1>4 DEF Max

\* What FoldLeft computes, with the weights of the elements as a function.
Sums(g, w, n) ==
  [s \in SUBSET (1 .. n) |-> IF s = {} THEN 0 ELSE g[s \ {Max(s)}] + w[Max(s)]]

LEMMA SumsExist ==
  ASSUME NEW w, NEW n \in Nat
  PROVE  \E g : g = Sums(g, w, n)
<1> DEFINE T == {m \in Nat : \E g : g = Sums(g, w, m)}
<1>1. 0 \in T
  <2> DEFINE g == [s \in SUBSET (1 .. 0) |-> 0]
  <2>1. SUBSET (1 .. 0) = {{}}
    OBVIOUS
  <2>2. g = Sums(g, w, 0)
    BY <2>1 DEF Sums
  <2> QED  BY <2>2
<1>2. ASSUME NEW m \in T PROVE m + 1 \in T
  <2>1. m \in Nat /\ \E g : g = Sums(g, w, m)
    OBVIOUS
  <2>g. PICK g : g = Sums(g, w, m)
    BY <2>1
  <2> DEFINE k == m + 1
             h == [s \in SUBSET (1 .. k) |-> IF k \in s THEN g[s \ {k}] + w[k] ELSE g[s]]
  <2>2. ASSUME NEW s \in SUBSET (1 .. k)
        PROVE  h[s] = IF s = {} THEN 0 ELSE h[s \ {Max(s)}] + w[Max(s)]
    <3>1. CASE k \in s
      <4>1. Max(s) = k
        BY <3>1, MaxOfPrefix
      <4>2. s \ {k} \in SUBSET (1 .. k) /\ k \notin s \ {k}
        OBVIOUS
      <4>3. h[s] = g[s \ {k}] + w[k] /\ h[s \ {k}] = g[s \ {k}]
        BY <3>1, <4>2
      <4> HIDE DEF h, k
      <4> QED  BY <3>1, <4>1, <4>3
    <3>2. CASE k \notin s
      <4>1. s \in SUBSET (1 .. m)
        <5>1. \A x \in 1 .. k : x # k => x \in 1 .. m
          BY <2>1
        <5> HIDE DEF k
        <5> QED  BY <3>2, <5>1
      <4>2. s \ {Max(s)} \in SUBSET (1 .. k) /\ k \notin s \ {Max(s)}
        BY <3>2
      <4>3. h[s] = g[s] /\ h[s \ {Max(s)}] = g[s \ {Max(s)}]
        BY <3>2, <4>2
      <4>4. g[s] = IF s = {} THEN 0 ELSE g[s \ {Max(s)}] + w[Max(s)]
        BY <2>g, <4>1 DEF Sums
      <4> HIDE DEF h, k
      <4> QED  BY <4>3, <4>4
    <3> QED  BY <3>1, <3>2
  <2>3. h = [s \in SUBSET (1 .. k) |-> h[s]]
    OBVIOUS
  <2>4. h = Sums(h, w, k)
    <3> HIDE DEF h, k
    <3> QED  BY <2>2, <2>3 DEF Sums
  <2> QED  BY <2>4
<1>3. T = Nat
  <2> HIDE DEF T
  <2>1. T \in SUBSET Nat BY DEF T
  <2> QED  BY <1>1, <1>2, <2>1, Induction
<1> QED  BY <1>3

\* The sums over prefixes grow by the weight of the last element.
LEMMA SumsStep ==
  ASSUME NEW w, NEW n \in Nat, NEW g, g = Sums(g, w, n)
  PROVE  /\ g[1 .. 0] = 0
         /\ \A k \in 1 .. n : g[1 .. k] = g[1 .. k - 1] + w[k]
<1>1. g[1 .. 0] = 0
  BY DEF Sums
<1>2. ASSUME NEW k \in 1 .. n PROVE g[1 .. k] = g[1 .. k - 1] + w[k]
  <2>1. 1 .. k \in SUBSET (1 .. n) /\ Max(1 .. k) = k /\ (1 .. k) \ {k} = 1 .. k - 1 /\ 1 .. k # {}
    <3>1. Max(1 .. k) = k
      BY MaxOfPrefix
    <3> QED  BY <3>1
  <2>2. g[1 .. k] = g[(1 .. k) \ {Max(1 .. k)}] + w[Max(1 .. k)]
    BY <2>1 DEF Sums
  <2> QED  BY <2>1, <2>2
<1> QED  BY <1>1, <1>2

\* Sums over one prefix agree, whatever sequences it is a prefix of.
LEMMA SumsAgree ==
  ASSUME NEW v, NEW w, NEW n \in Nat, NEW m \in Nat,
         NEW g, g = Sums(g, v, n), NEW h, h = Sums(h, w, m),
         NEW k \in Nat, k <= n, k <= m, \A i \in 1 .. k : v[i] = w[i]
  PROVE  g[1 .. k] = h[1 .. k]
<1>a. g[1 .. 0] = 0 /\ \A j \in 1 .. n : g[1 .. j] = g[1 .. j - 1] + v[j]
  BY SumsStep
<1>b. h[1 .. 0] = 0 /\ \A j \in 1 .. m : h[1 .. j] = h[1 .. j - 1] + w[j]
  BY SumsStep
<1> DEFINE T == {i \in Nat : i <= k => g[1 .. i] = h[1 .. i]}
<1>1. 0 \in T
  BY <1>a, <1>b
<1>2. ASSUME NEW i \in T PROVE i + 1 \in T
  <2>1. SUFFICES ASSUME i + 1 <= k PROVE g[1 .. i + 1] = h[1 .. i + 1]
    OBVIOUS
  <2>2. i \in Nat /\ i + 1 \in 1 .. n /\ i + 1 \in 1 .. m /\ (i + 1) - 1 = i /\ i + 1 \in 1 .. k
    BY <2>1
  <2>3. g[1 .. i] = h[1 .. i]
    BY <2>1, <2>2
  <2>4. g[1 .. i + 1] = g[1 .. (i + 1) - 1] + v[i + 1]
    BY <1>a, <2>2
  <2>5. h[1 .. i + 1] = h[1 .. (i + 1) - 1] + w[i + 1]
    BY <1>b, <2>2
  <2> QED  BY <2>2, <2>3, <2>4, <2>5
<1>3. T = Nat
  <2>1. T \in SUBSET Nat
    OBVIOUS
  <2> HIDE DEF T
  <2> QED  BY <1>1, <1>2, <2>1, Induction
<1> QED  BY <1>3

\* Sums of naturals are naturals.
LEMMA SumsType ==
  ASSUME NEW n \in Nat, NEW w \in [1 .. n -> Nat], NEW g, g = Sums(g, w, n)
  PROVE  \A k \in 0 .. n : g[1 .. k] \in Nat
<1> DEFINE T == {i \in Nat : i <= n => g[1 .. i] \in Nat}
<1>1. 0 \in T
  BY SumsStep
<1>2. ASSUME NEW i \in T PROVE i + 1 \in T
  <2>1. SUFFICES ASSUME i + 1 <= n PROVE g[1 .. i + 1] \in Nat
    OBVIOUS
  <2>2. i \in Nat /\ i + 1 \in 1 .. n /\ (i + 1) - 1 = i
    BY <2>1
  <2>3. g[1 .. i] \in Nat
    BY <2>1, <2>2
  <2>4. g[1 .. i + 1] = g[1 .. (i + 1) - 1] + w[i + 1]
    <3>1. \A k \in 1 .. n : g[1 .. k] = g[1 .. k - 1] + w[k]
      BY SumsStep
    <3> QED  BY <2>2, <3>1
  <2> QED  BY <2>2, <2>3, <2>4
<1>3. T = Nat
  <2>1. T \in SUBSET Nat
    OBVIOUS
  <2> HIDE DEF T
  <2> QED  BY <1>1, <1>2, <2>1, Induction
<1> QED  BY <1>3

\* A function on 1 .. n is a sequence of length n.
LEMMA FunctionIsSeq ==
  ASSUME NEW T, NEW n \in Nat, NEW f \in [1 .. n -> T]
  PROVE  f \in Seq(T) /\ Len(f) = n
<1>1. f \in Seq(T)
  <2>1. Seq(T) = UNION {[1 .. k -> T] : k \in Nat}
    BY SeqDef
  <2> QED  BY <2>1, Zenon
<1>2. Len(f) \in Nat /\ 1 .. Len(f) = 1 .. n
  BY <1>1, LenProperties
<1> QED  BY <1>1, <1>2

\* RemoveAt takes one element out and keeps the order of the others.
LEMMA RemoveAtProperties ==
  ASSUME NEW S, NEW s \in Seq(S), NEW i \in 1 .. Len(s)
  PROVE  /\ RemoveAt(s, i) \in Seq(S)
         /\ Len(RemoveAt(s, i)) = Len(s) - 1
         /\ \A j \in 1 .. Len(s) - 1 :
              RemoveAt(s, i)[j] = IF j < i THEN s[j] ELSE s[j + 1]
<1> DEFINE p == SubSeq(s, 1, i - 1)
           q == SubSeq(s, i + 1, Len(s))
           n == Len(s)
<1>1. n \in Nat /\ i \in Int /\ i >= 1 /\ i <= n /\ \A j \in 1 .. n : s[j] \in S
  BY LenProperties, ElementOfSeq
<1>2. /\ p \in Seq(S) /\ Len(p) = i - 1
      /\ \A j \in 1 .. i - 1 : p[j] = s[j]
  BY <1>1, SubSeqProperties
<1>3. /\ q \in Seq(S) /\ Len(q) = n - i
      /\ \A j \in 1 .. n - i : q[j] = s[i + j]
  <2>1. \A j \in i + 1 .. n : s[j] \in S
    BY <1>1
  <2>2. /\ q \in Seq(S)
        /\ Len(q) = IF i + 1 <= n THEN n - (i + 1) + 1 ELSE 0
        /\ \A j \in 1 .. n - (i + 1) + 1 : q[j] = s[(i + 1) + j - 1]
    BY <1>1, <2>1, SubSeqProperties
  <2> HIDE DEF q, n
  <2> QED  BY <1>1, <2>2
<1>4. RemoveAt(s, i) = p \o q
  BY DEF RemoveAt
<1> HIDE DEF p, q, n
<1>5. /\ p \o q \in Seq(S) /\ Len(p \o q) = n - 1
      /\ \A j \in 1 .. n - 1 : (p \o q)[j] = IF j <= i - 1 THEN p[j] ELSE q[j - (i - 1)]
  <2>1. /\ p \o q \in Seq(S) /\ Len(p \o q) = Len(p) + Len(q)
        /\ \A j \in 1 .. Len(p) + Len(q) : (p \o q)[j] = IF j <= Len(p) THEN p[j] ELSE q[j - Len(p)]
    BY <1>2, <1>3, ConcatProperties
  <2>2. Len(p) + Len(q) = n - 1
    BY <1>1, <1>2, <1>3
  <2> QED  BY <1>2, <2>1, <2>2
<1>6. ASSUME NEW j \in 1 .. n - 1
      PROVE  (p \o q)[j] = IF j < i THEN s[j] ELSE s[j + 1]
  <2>1. CASE j < i
    <3>1. j \in 1 .. i - 1 /\ j <= i - 1
      BY <1>1, <2>1
    <3> QED  BY <1>2, <1>5, <2>1, <3>1
  <2>2. CASE ~(j < i)
    <3>1. j - (i - 1) \in 1 .. n - i /\ i + (j - (i - 1)) = j + 1 /\ ~(j <= i - 1)
      BY <1>1, <2>2
    <3> QED  BY <1>3, <1>5, <2>2, <3>1
  <2> QED  BY <2>1, <2>2
<1> QED  BY <1>4, <1>5, <1>6 DEF n
-----------------------------------------------------------------------------
(* Sequences of sequences *)

\* All that the sequences of a sequence hold.
Elements(q) == UNION {Range(q[i]) : i \in 1 .. Len(q)}

LEMMA InElements ==
  ASSUME NEW q, NEW r
  PROVE  r \in Elements(q) <=> \E i \in 1 .. Len(q) : r \in Range(q[i])
BY DEF Elements

LEMMA InRange ==
  ASSUME NEW S, NEW s \in Seq(S), NEW r
  PROVE  r \in Range(s) <=> \E i \in 1 .. Len(s) : r = s[i]
BY RangeEquality

LEMMA RangeAppend ==
  ASSUME NEW S, NEW s \in Seq(S), NEW r \in S
  PROVE  Range(Append(s, r)) = Range(s) \cup {r}
<1> DEFINE a == Append(s, r)
<1>1. /\ a \in Seq(S) /\ Len(a) = Len(s) + 1 /\ Len(s) \in Nat
      /\ \A i \in 1 .. Len(s) : a[i] = s[i]
      /\ a[Len(s) + 1] = r
  BY AppendProperties, LenProperties
<1> HIDE DEF a
<1>2. \A i \in 1 .. Len(a) : i \in 1 .. Len(s) \/ i = Len(s) + 1
  BY <1>1
<1>3. Len(s) + 1 \in 1 .. Len(a) /\ \A i \in 1 .. Len(s) : i \in 1 .. Len(a)
  BY <1>1
<1>4. \A x : x \in Range(a) <=> x \in Range(s) \/ x = r
  BY <1>1, <1>2, <1>3, InRange
<1> QED  BY <1>4 DEF a

LEMMA RangeRemoveAt ==
  ASSUME NEW S, NEW s \in Seq(S), NEW i \in 1 .. Len(s)
  PROVE  Range(RemoveAt(s, i)) \subseteq Range(s) /\ s[i] \in Range(s)
<1> DEFINE t == RemoveAt(s, i)
<1>1. /\ t \in Seq(S) /\ Len(t) = Len(s) - 1 /\ Len(s) \in Nat
      /\ \A j \in 1 .. Len(s) - 1 : t[j] = IF j < i THEN s[j] ELSE s[j + 1]
  BY RemoveAtProperties, LenProperties
<1> HIDE DEF t
<1>2. ASSUME NEW r \in Range(t) PROVE r \in Range(s)
  <2>1. PICK j \in 1 .. Len(t) : r = t[j]
    BY <1>1, InRange
  <2>2. j \in 1 .. Len(s) /\ j + 1 \in 1 .. Len(s) /\ (r = s[j] \/ r = s[j + 1])
    BY <1>1, <2>1
  <2> QED  BY <2>2, InRange
<1> QED  BY <1>2, InRange DEF t

LEMMA ElementsConcat ==
  ASSUME NEW S, NEW p \in Seq(Seq(S)), NEW q \in Seq(Seq(S))
  PROVE  Elements(p \o q) = Elements(p) \cup Elements(q)
<1> DEFINE c == p \o q
           T == Seq(S)
<1>1. /\ Len(p) \in Nat /\ Len(q) \in Nat /\ Len(c) = Len(p) + Len(q)
      /\ \A i \in 1 .. Len(p) + Len(q) : c[i] = IF i <= Len(p) THEN p[i] ELSE q[i - Len(p)]
  <2>1. p \in Seq(T) /\ q \in Seq(T)
    OBVIOUS
  <2> HIDE DEF T
  <2> QED  BY <2>1, ConcatProperties, LenProperties
<1> HIDE DEF c, T
<1>2. \A i \in 1 .. Len(p) : i \in 1 .. Len(c) /\ c[i] = p[i]
  BY <1>1
<1>3. \A j \in 1 .. Len(q) : Len(p) + j \in 1 .. Len(c) /\ c[Len(p) + j] = q[j]
  BY <1>1, SMTT(30)
<1>4. ASSUME NEW i \in 1 .. Len(c)
      PROVE  (i \in 1 .. Len(p) /\ c[i] = p[i]) \/ (\E j \in 1 .. Len(q) : c[i] = q[j])
  <2>1. CASE i <= Len(p)
    BY <1>1, <2>1
  <2>2. CASE ~(i <= Len(p))
    <3>1. i - Len(p) \in 1 .. Len(q) /\ c[i] = q[i - Len(p)]
      BY <1>1, <2>2
    <3> QED  BY <3>1
  <2> QED  BY <2>1, <2>2
<1>5. \A r : r \in Elements(c) <=> r \in Elements(p) \/ r \in Elements(q)
  <2> TAKE r
  <2>1. ASSUME r \in Elements(c) PROVE r \in Elements(p) \/ r \in Elements(q)
    BY <1>4, <2>1, InElements
  <2>2. ASSUME r \in Elements(p) PROVE r \in Elements(c)
    BY <1>2, <2>2, InElements
  <2>3. ASSUME r \in Elements(q) PROVE r \in Elements(c)
    BY <1>3, <2>3, InElements
  <2> QED  BY <2>1, <2>2, <2>3
<1> QED  BY <1>5 DEF c

LEMMA ElementsSingle ==
  ASSUME NEW b
  PROVE  Elements(<<b>>) = Range(b)
<1>1. Len(<<b>>) = 1 /\ <<b>>[1] = b
  OBVIOUS
<1> QED  BY <1>1 DEF Elements

LEMMA ElementsAppend ==
  ASSUME NEW S, NEW q \in Seq(Seq(S)), NEW b \in Seq(S)
  PROVE  Elements(Append(q, b)) = Elements(q) \cup Range(b)
<1>1. Append(q, b) = q \o <<b>> /\ <<b>> \in Seq(Seq(S))
  <2> DEFINE T == Seq(S)
  <2>1. q \in Seq(T) /\ b \in T
    OBVIOUS
  <2> HIDE DEF T
  <2>2. Append(q, b) = q \o <<b>> /\ <<b>> \in Seq(T)
    BY <2>1, AppendIsConcat
  <2> QED  BY <2>2 DEF T
<1>2. Elements(q \o <<b>>) = Elements(q) \cup Elements(<<b>>)
  BY <1>1, ElementsConcat, ZenonT(40)
<1> QED  BY <1>1, <1>2, ElementsSingle

LEMMA ElementsHeadTail ==
  ASSUME NEW S, NEW q \in Seq(Seq(S)), q # <<>>
  PROVE  Elements(q) = Range(Head(q)) \cup Elements(Tail(q))
<1> DEFINE T == Seq(S)
           h == Head(q)
           t == Tail(q)
<1>1. h \in T /\ t \in Seq(T) /\ q = <<h>> \o t /\ <<h>> \in Seq(T)
  <2>1. q \in Seq(T)
    OBVIOUS
  <2> HIDE DEF T
  <2>2. h \in T /\ t \in Seq(T) /\ q = <<h>> \o t
    BY <2>1, HeadTailProperties
  <2> QED  BY <2>2
<1> HIDE DEF h, t
<1>2. Elements(<<h>> \o t) = Elements(<<h>>) \cup Elements(t)
  BY <1>1, ElementsConcat, ZenonT(40)
<1> QED  BY <1>1, <1>2, ElementsSingle DEF h, t

\* Leaving one sequence out, and leaving elements out of one.
LEMMA ElementsRemoveAt ==
  ASSUME NEW S, NEW q \in Seq(Seq(S)), NEW i \in 1 .. Len(q)
  PROVE  Elements(RemoveAt(q, i)) \subseteq Elements(q) /\ Range(q[i]) \subseteq Elements(q)
<1> DEFINE t == RemoveAt(q, i)
           T == Seq(S)
<1>1. /\ Len(t) = Len(q) - 1 /\ Len(q) \in Nat
      /\ \A j \in 1 .. Len(q) - 1 : t[j] = IF j < i THEN q[j] ELSE q[j + 1]
  <2>1. q \in Seq(T)
    OBVIOUS
  <2> HIDE DEF T
  <2> QED  BY <2>1, RemoveAtProperties, LenProperties
<1> HIDE DEF t, T
<1>2. ASSUME NEW r \in Elements(t) PROVE r \in Elements(q)
  <2>1. PICK j \in 1 .. Len(t) : r \in Range(t[j])
    BY InElements
  <2>2. j \in 1 .. Len(q) /\ j + 1 \in 1 .. Len(q) /\ (t[j] = q[j] \/ t[j] = q[j + 1])
    BY <1>1, <2>1
  <2> QED  BY <2>1, <2>2, InElements
<1> QED  BY <1>2, InElements DEF t

LEMMA ElementsExcept ==
  ASSUME NEW S, NEW q \in Seq(Seq(S)), NEW i \in 1 .. Len(q), NEW b \in Seq(S)
  PROVE  /\ Elements([q EXCEPT ![i] = b]) \subseteq Elements(q) \cup Range(b)
         /\ [q EXCEPT ![i] = b] \in Seq(Seq(S)) /\ Len([q EXCEPT ![i] = b]) = Len(q)
         /\ \A j \in 1 .. Len(q) : [q EXCEPT ![i] = b][j] = IF j = i THEN b ELSE q[j]
<1> DEFINE t == [q EXCEPT ![i] = b]
           T == Seq(S)
<1>1. /\ t \in Seq(T) /\ Len(t) = Len(q)
      /\ \A j \in 1 .. Len(q) : t[j] = IF j = i THEN b ELSE q[j]
  <2>1. q \in Seq(T) /\ b \in T
    OBVIOUS
  <2> HIDE DEF T
  <2> QED  BY <2>1, ExceptSeq
<1> HIDE DEF t
<1>2. ASSUME NEW r \in Elements(t) PROVE r \in Elements(q) \cup Range(b)
  BY <1>1, InElements
<1> QED  BY <1>1, <1>2 DEF t

-----------------------------------------------------------------------------
(* Products, quotients and remainders *)

LEMMA ProductsAreNat ==
  ASSUME NEW a \in Nat, NEW b \in Nat
  PROVE  a * b \in Nat
OBVIOUS

\* Products keep the order of their factors.
LEMMA ProductsOrdered ==
  ASSUME NEW a \in Nat, NEW x \in Int, NEW y \in Int, x <= y
  PROVE  a * x <= a * y /\ x * a <= y * a
BY Z3

\* And show it.
LEMMA OrderOfProducts ==
  ASSUME NEW a \in Nat \ {0}, NEW x \in Int, NEW y \in Int, x * a < y * a
  PROVE  x < y
BY Z3

LEMMA Distributes ==
  ASSUME NEW a \in Int, NEW x \in Int, NEW y \in Int
  PROVE  a * (x + y) = a * x + a * y /\ (x + y) * a = x * a + y * a
BY Z3

LEMMA DivParts ==
  ASSUME NEW h \in Int, NEW d \in Nat, d >= 1
  PROVE  h \div d \in Int /\ h % d \in 0 .. d - 1 /\ h = (h \div d) * d + (h % d)
OBVIOUS

LEMMA DivApart ==
  ASSUME NEW d \in Nat, NEW n \in Int, NEW k \in 0 .. d - 1, NEW o \in Int, NEW l \in 0 .. d - 1,
         n < o
  PROVE  n * d + k < o * d + l
<1>1. n + 1 <= o /\ o - n \in Nat /\ k < d /\ l >= 0 /\ k \in Int /\ l \in Int
  OBVIOUS
<1>2. (o - n) * d >= d
  <2>1. \A a \in Nat : \A b \in Nat : a >= 1 => a * b >= b
    OBVIOUS
  <2>2. o - n \in Nat /\ o - n >= 1 /\ d \in Nat
    BY <1>1
  <2> QED BY <2>1, <2>2
<1>3. o * d = n * d + (o - n) * d
  OBVIOUS
<1> QED BY <1>1, <1>2, <1>3

LEMMA DivOfParts ==
  ASSUME NEW d \in Nat, d >= 1, NEW n \in Int, NEW k \in 0 .. d - 1
  PROVE  (n * d + k) \div d = n /\ (n * d + k) % d = k
<1> DEFINE h == n * d + k
           q == h \div d
           r == h % d
<1>1. h \in Int /\ k \in Int
  OBVIOUS
<1>2. q \in Int /\ r \in 0 .. d - 1 /\ h = q * d + r
  BY <1>1, DivParts
<1> HIDE DEF q, r
<1>3. ~(q < n) /\ ~(n < q)
  <2>1. q < n => q * d + r < h
    BY <1>2, DivApart
  <2>2. n < q => h < q * d + r
    BY <1>2, DivApart
  <2> HIDE DEF h
  <2> QED BY <1>1, <1>2, <2>1, <2>2
<1>4. q = n
  BY <1>2, <1>3
<1>5. r = k
  <2> DEFINE p == n * d
  <2>1. p \in Int /\ h = p + k /\ h = p + r /\ r \in Int
    BY <1>2, <1>4
  <2> HIDE DEF h, p
  <2> QED BY <1>1, <2>1
<1> QED BY <1>4, <1>5 DEF q, r

\* Within a block of d that starts at a multiple of d.
LEMMA ModInBlock ==
  ASSUME NEW d \in Nat, d >= 1, NEW a \in Int, a % d = 0, NEW r \in 0 .. d - 1
  PROVE  (a + r) % d = r
<1> DEFINE q == a \div d
<1>1. q \in Int /\ a = q * d
  <2>1. q \in Int /\ a = q * d + (a % d)
    BY DivParts
  <2> QED BY <2>1
<1> HIDE DEF q
<1> QED BY <1>1, DivOfParts

-----------------------------------------------------------------------------
(* Queues in the order of a relation: R holds of every two elements, the   *)
(* earlier first.                                                          *)

Ordered(q, R) == \A i, j \in 1 .. Len(q) : i < j => <<q[i], q[j]>> \in R

\* The head of a queue is out of it after Tail, and R holds of it and the rest.
LEMMA OrderedTail ==
  ASSUME NEW S, NEW q \in Seq(S), NEW R, q # <<>>, Ordered(q, R)
  PROVE  /\ Head(q) \in S /\ Tail(q) \in Seq(S) /\ Range(q) = {Head(q)} \cup Range(Tail(q))
         /\ Ordered(Tail(q), R)
         /\ \A x \in Range(Tail(q)) : <<Head(q), x>> \in R
<1> DEFINE t == Tail(q)
           n == Len(q)
           x == Head(q)
<1>1. /\ n \in Nat /\ n >= 1 /\ x \in S /\ t \in Seq(S) /\ Len(t) = n - 1 /\ x = q[1]
      /\ \A i \in 1 .. Len(t) : t[i] = q[i + 1]
  BY HeadTailProperties, LenProperties, EmptySeq
<1>2. \A i, j \in 1 .. n : i < j => <<q[i], q[j]>> \in R
  BY DEF Ordered
<1>3. \A y : y \in Range(q) <=> \E i \in 1 .. n : y = q[i]
  BY InRange
<1>4. \A y : y \in Range(t) <=> \E i \in 1 .. Len(t) : y = t[i]
  BY <1>1, InRange
<1> HIDE DEF n, t, x
<1>5. \A i \in 1 .. Len(t) : i + 1 \in 1 .. n /\ 1 < i + 1 /\ 1 \in 1 .. n
  BY <1>1
<1>6. Range(q) = {x} \cup Range(t)
  <2>1. ASSUME NEW y \in Range(q) PROVE y = x \/ y \in Range(t)
    <3>1. PICK i \in 1 .. n : y = q[i]
      BY <1>3
    <3>2. CASE i = 1
      BY <1>1, <3>1, <3>2
    <3>3. CASE i # 1
      <4>1. i - 1 \in 1 .. Len(t) /\ (i - 1) + 1 = i
        BY <1>1, <3>3
      <4>2. t[i - 1] = q[(i - 1) + 1]
        BY <1>1, <4>1
      <4> QED BY <1>4, <3>1, <4>1, <4>2
    <3> QED BY <3>2, <3>3
  <2>2. x \in Range(q)
    <3>1. 1 \in 1 .. n
      BY <1>1
    <3> QED BY <1>1, <1>3, <3>1
  <2>3. ASSUME NEW y \in Range(t) PROVE y \in Range(q)
    BY <1>1, <1>3, <1>4, <1>5
  <2> QED BY <2>1, <2>2, <2>3
<1>7. \A i, j \in 1 .. Len(t) : i < j => <<t[i], t[j]>> \in R
  <2>1. SUFFICES ASSUME NEW i \in 1 .. Len(t), NEW j \in 1 .. Len(t), i < j PROVE <<t[i], t[j]>> \in R
    OBVIOUS
  <2>2. i + 1 \in 1 .. n /\ j + 1 \in 1 .. n /\ i + 1 < j + 1 /\ t[i] = q[i + 1] /\ t[j] = q[j + 1]
    BY <1>1, <1>5, <2>1
  <2> QED BY <1>2, <2>2
<1>8. \A y \in Range(t) : <<x, y>> \in R
  <2>1. SUFFICES ASSUME NEW y \in Range(t) PROVE <<x, y>> \in R
    OBVIOUS
  <2>2. PICK i \in 1 .. Len(t) : y = t[i]
    BY <1>4
  <2>3. i + 1 \in 1 .. n /\ 1 \in 1 .. n /\ 1 < i + 1 /\ y = q[i + 1] /\ x = q[1]
    BY <1>1, <1>5, <2>2
  <2> QED BY <1>2, <2>3
<1> QED BY <1>1, <1>6, <1>7, <1>8 DEF Ordered, t, x

LEMMA OrderedAppend ==
  ASSUME NEW S, NEW q \in Seq(S), NEW R, NEW x \in S, Ordered(q, R),
         \A y \in Range(q) : <<y, x>> \in R
  PROVE  /\ Append(q, x) \in Seq(S) /\ Range(Append(q, x)) = Range(q) \cup {x}
         /\ Ordered(Append(q, x), R)
<1> DEFINE a == Append(q, x)
           n == Len(q)
<1>1. /\ n \in Nat /\ a \in Seq(S) /\ Len(a) = n + 1 /\ a[n + 1] = x
      /\ \A i \in 1 .. n : a[i] = q[i] /\ q[i] \in Range(q)
  BY AppendProperties, LenProperties, InRange
<1>2. \A i, j \in 1 .. n : i < j => <<q[i], q[j]>> \in R
  BY DEF Ordered
<1> HIDE DEF a, n
<1>3. ASSUME NEW i \in 1 .. n + 1, NEW j \in 1 .. n + 1, i < j PROVE <<a[i], a[j]>> \in R
  <2>1. i \in 1 .. n /\ (j = n + 1 \/ j \in 1 .. n)
    BY <1>1, <1>3
  <2>2. CASE j = n + 1
    BY <1>1, <2>1, <2>2
  <2>3. CASE j \in 1 .. n
    <3>1. a[i] = q[i] /\ a[j] = q[j]
      BY <1>1, <2>1, <2>3
    <3> QED BY <1>2, <1>3, <2>1, <2>3, <3>1
  <2> QED BY <2>1, <2>2, <2>3
<1>4. Ordered(a, R)
  BY <1>1, <1>3 DEF Ordered
<1> QED BY <1>1, <1>4, RangeAppend DEF a

-----------------------------------------------------------------------------
(* FlattenSeq *)

\* What the recursive function of FlattenSeq is, over the first n sequences.
Flattened(seqs, n, f) == f = [i \in 1 .. n |-> IF i = 1 THEN seqs[i] ELSE f[i - 1] \o seqs[i]]

LEMMA FlattenedExists ==
  ASSUME NEW seqs, NEW n \in Nat
  PROVE  \E f : Flattened(seqs, n, f)
<1> DEFINE T == {m \in Nat : \E f : Flattened(seqs, m, f)}
<1>1. 0 \in T
  <2> DEFINE f == [i \in 1 .. 0 |-> seqs]
  <2>1. f = [i \in 1 .. 0 |-> IF i = 1 THEN seqs[i] ELSE f[i - 1] \o seqs[i]]
    OBVIOUS
  <2> HIDE DEF f
  <2>2. Flattened(seqs, 0, f)
    BY <2>1 DEF Flattened
  <2> QED BY <2>2
<1>2. ASSUME NEW m \in T PROVE m + 1 \in T
  <2>1. m \in Nat
    OBVIOUS
  <2>2. PICK f : Flattened(seqs, m, f)
    OBVIOUS
  <2> DEFINE k == m + 1
             next == IF k = 1 THEN seqs[k] ELSE f[m] \o seqs[k]
             g == [i \in 1 .. k |-> IF i = k THEN next ELSE f[i]]
  <2>3. ASSUME NEW i \in 1 .. k
        PROVE  g[i] = IF i = 1 THEN seqs[i] ELSE g[i - 1] \o seqs[i]
    <3>1. CASE i = k
      <4>1. CASE k = 1
        BY <3>1, <4>1
      <4>2. CASE k # 1
        <5>0. i - 1 \in 1 .. k /\ i - 1 # k /\ i - 1 = m
          BY <2>1, <3>1, <4>2
        <5>1. g[i] = f[m] \o seqs[k]
          BY <3>1, <4>2
        <5>2. g[i - 1] = f[m]
          BY <5>0
        <5> HIDE DEF g, k
        <5> QED BY <3>1, <4>2, <5>0, <5>1, <5>2
      <4> QED BY <4>1, <4>2
    <3>2. CASE i # k
      <4>1. i \in 1 .. m /\ g[i] = f[i]
        BY <2>1, <3>2
      <4>2. f[i] = IF i = 1 THEN seqs[i] ELSE f[i - 1] \o seqs[i]
        BY <2>2, <4>1 DEF Flattened
      <4>3. i # 1 => g[i - 1] = f[i - 1]
        BY <2>1, <4>1
      <4> HIDE DEF g
      <4> QED BY <4>1, <4>2, <4>3
    <3> QED BY <3>1, <3>2
  <2>4. g = [i \in 1 .. k |-> g[i]]
    OBVIOUS
  <2> HIDE DEF g
  <2>5. Flattened(seqs, k, g)
    BY <2>3, <2>4 DEF Flattened
  <2> QED BY <2>1, <2>5
<1>3. T = Nat
  <2> HIDE DEF T
  <2>1. T \in SUBSET Nat BY DEF T
  <2> QED BY <1>1, <1>2, <2>1, Induction
<1> QED BY <1>3

\* What holds of the first sequence, and goes on holding as each one follows,
\* holds of all of them together.
LEMMA FlattenIn ==
  ASSUME NEW T, NEW seqs \in Seq(T), Len(seqs) # 0, NEW A, seqs[1] \in A[1],
         \A i \in 1 .. Len(seqs) - 1 : \A s \in A[i] : s \o seqs[i + 1] \in A[i + 1]
  PROVE  FlattenSeq(seqs) \in A[Len(seqs)]
<1> DEFINE n == Len(seqs)
           f == CHOOSE f : Flattened(seqs, n, f)
<1>1. n \in Nat /\ n >= 1
  BY LenProperties
<1>2. FlattenSeq(seqs) = f[n]
  BY DEF FlattenSeq, Flattened
<1>3. Flattened(seqs, n, f)
  BY <1>1, FlattenedExists
<1> HIDE DEF f
<1> DEFINE P == {i \in Nat : i + 1 <= n => f[i + 1] \in A[i + 1]}
<1>4. 0 \in P
  <2>1. f[1] = seqs[1]
    BY <1>1, <1>3 DEF Flattened
  <2> QED BY <2>1
<1>5. ASSUME NEW i \in P PROVE i + 1 \in P
  <2> DEFINE k == i + 1
  <2>1. SUFFICES ASSUME k + 1 <= n PROVE f[k + 1] \in A[k + 1]
    OBVIOUS
  <2>2. k \in 1 .. n - 1 /\ k + 1 \in 1 .. n /\ k + 1 # 1 /\ (k + 1) - 1 = k
    BY <1>1, <2>1
  <2>3. f[k] \in A[k]
    BY <1>1, <2>1
  <2> HIDE DEF k
  <2>4. f[k + 1] = f[(k + 1) - 1] \o seqs[k + 1]
    BY <1>3, <2>2 DEF Flattened
  <2> QED BY <2>2, <2>3, <2>4
<1>6. P = Nat
  <2> HIDE DEF P
  <2>1. P \in SUBSET Nat BY DEF P
  <2> QED BY <1>4, <1>5, <2>1, Induction
<1> HIDE DEF n
<1>7. n - 1 \in Nat /\ (n - 1) + 1 = n
  BY <1>1
<1>8. f[(n - 1) + 1] \in A[(n - 1) + 1]
  <2> HIDE DEF P
  <2>1. n - 1 \in P
    BY <1>6, <1>7
  <2>2. (n - 1) + 1 <= n
    BY <1>1, <1>7
  <2> QED BY <2>1, <2>2 DEF P
<1> QED BY <1>2, <1>7, <1>8 DEF n

-----------------------------------------------------------------------------
(* Sets of numbers as lists *)

\* Sorted lists each number of a finite set once.
LEMMA SortedProperties ==
  ASSUME NEW S \in SUBSET Nat, IsFiniteSet(S)
  PROVE  /\ Cardinality(S) \in Nat
         /\ Sorted(S) \in [1 .. Cardinality(S) -> S]
         /\ \A i, j \in 1 .. Cardinality(S) : Sorted(S)[i] = Sorted(S)[j] => i = j
<1> DEFINE n == Cardinality(S)
           Below(p) == {q \in S : q < p}
           r == [p \in S |-> Cardinality(Below(p))]
           At(x) == CHOOSE p \in S : Cardinality(Below(p)) = x - 1
<1>a. Sorted(S) = [x \in 1 .. n |-> At(x)]
  BY DEF Sorted
<1>1. n \in Nat
  BY FS_CardinalityType
<1>2. ASSUME NEW p \in S
      PROVE  Cardinality(Below(p)) \in 0 .. n - 1 /\ IsFiniteSet(Below(p))
  <2>1. IsFiniteSet(S \ {p}) /\ Cardinality(S \ {p}) = n - 1
    BY FS_RemoveElement
  <2>2. Below(p) \in SUBSET (S \ {p})
    OBVIOUS
  <2> HIDE DEF Below, n
  <2>3. IsFiniteSet(Below(p)) /\ Cardinality(Below(p)) <= Cardinality(S \ {p})
    BY <2>1, <2>2, FS_Subset
  <2>4. Cardinality(Below(p)) \in Nat
    BY <2>3, FS_CardinalityType
  <2> QED BY <1>1, <2>1, <2>3, <2>4
<1>3. ASSUME NEW p \in S, NEW q \in S, p < q
      PROVE  Cardinality(Below(p)) < Cardinality(Below(q))
  <2>1. Below(p) \in SUBSET Below(q) /\ p \in Below(q) /\ p \notin Below(p)
    <3>1. p \in Nat /\ q \in Nat /\ \A x \in S : x \in Nat
      OBVIOUS
    <3>2. p \in Below(q) /\ p \notin Below(p)
      BY <1>3, <3>1
    <3>3. \A x \in S : x < p => x < q
      BY <1>3, <3>1
    <3>4. Below(p) \in SUBSET Below(q)
      BY <3>3
    <3> QED BY <3>2, <3>4
  <2>2. IsFiniteSet(Below(q)) /\ Cardinality(Below(p)) \in Nat /\ Cardinality(Below(q)) \in Nat
    BY <1>2
  <2> HIDE DEF Below
  <2>3. Cardinality(Below(p)) <= Cardinality(Below(q))
        /\ (Cardinality(Below(q)) = Cardinality(Below(p)) => Below(q) = Below(p))
    BY <2>1, <2>2, FS_Subset
  <2> QED BY <2>1, <2>2, <2>3
<1>4. r \in Injection(S, 0 .. n - 1)
  <2>1. r \in [S -> 0 .. n - 1]
    BY <1>2
  <2>2. ASSUME NEW p \in S, NEW q \in S, r[p] = r[q] PROVE p = q
    <3>1. ~(p < q) /\ ~(q < p)
      <4>1. r[p] = Cardinality(Below(p)) /\ r[q] = Cardinality(Below(q))
        OBVIOUS
      <4>2. Cardinality(Below(p)) \in 0 .. n - 1 /\ Cardinality(Below(q)) \in 0 .. n - 1
        BY <1>2
      <4>3. Cardinality(Below(p)) = Cardinality(Below(q))
        BY <2>2, <4>1
      <4>4. ASSUME NEW x \in 0 .. n - 1 PROVE ~(x < x)
        BY <1>1
      <4> HIDE DEF r, Below, n
      <4> QED BY <1>3, <4>2, <4>3, <4>4
    <3> QED BY <3>1
  <2> HIDE DEF r
  <2> QED BY <2>1, <2>2 DEF Injection, IsInjective
<1>5. r \in Surjection(S, 0 .. n - 1)
  <2>1. IsFiniteSet(0 .. n - 1) /\ Cardinality(0 .. n - 1) = n
    <3> HIDE DEF n
    <3>1. 0 \in Int /\ n - 1 \in Int
      BY <1>1
    <3>2. IsFiniteSet(0 .. n - 1) /\ Cardinality(0 .. n - 1) = IF 0 > n - 1 THEN 0 ELSE (n - 1) - 0 + 1
      BY <3>1, FS_Interval
    <3> QED BY <1>1, <3>2
  <2> HIDE DEF r
  <2> QED BY <1>4, <2>1, FS_Injection
<1>6. ASSUME NEW i \in 1 .. n
      PROVE  /\ Sorted(S)[i] \in S
             /\ Cardinality(Below(Sorted(S)[i])) = i - 1
  <2>1. i - 1 \in 0 .. n - 1
    BY <1>1
  <2>2. \E p \in S : r[p] = i - 1
    <3> HIDE DEF r, n
    <3> QED BY <1>5, <2>1 DEF Surjection
  <2>3. \E p \in S : Cardinality(Below(p)) = i - 1
    BY <2>2
  <2>4. Sorted(S)[i] = CHOOSE p \in S : Cardinality(Below(p)) = i - 1
    <3>1. Sorted(S)[i] = At(i)
      <4> HIDE DEF At, n
      <4> QED BY <1>a
    <3> QED BY <3>1
  <2> HIDE DEF Below
  <2> QED BY <2>3, <2>4
<1>7. Sorted(S) \in [1 .. n -> S]
  <2>1. DOMAIN Sorted(S) = 1 .. n /\ Sorted(S) = [i \in 1 .. n |-> Sorted(S)[i]]
    <3> HIDE DEF At, n
    <3> QED BY <1>a
  <2> HIDE DEF n
  <2> QED BY <1>6, <2>1
<1>8. ASSUME NEW i \in 1 .. n, NEW j \in 1 .. n, Sorted(S)[i] = Sorted(S)[j] PROVE i = j
  <2>1. Cardinality(Below(Sorted(S)[i])) = i - 1 /\ Cardinality(Below(Sorted(S)[j])) = j - 1
    BY <1>6
  <2> HIDE DEF Below, n
  <2> QED BY <1>1, <1>8, <2>1
<1> QED BY <1>1, <1>7, <1>8

\* ... and misses none.
LEMMA SortedAll ==
  ASSUME NEW S \in SUBSET Nat, IsFiniteSet(S)
  PROVE  \A p \in S : \E i \in 1 .. Cardinality(S) : Sorted(S)[i] = p
<1> DEFINE n == Cardinality(S)
           f == Sorted(S)
<1>1. n \in Nat /\ f \in [1 .. n -> S]
      /\ \A i, j \in 1 .. n : f[i] = f[j] => i = j
  BY SortedProperties
<1> HIDE DEF f
<1>2. f \in Injection(1 .. n, S)
  BY <1>1 DEF Injection, IsInjective
<1>3. IsFiniteSet(1 .. n) /\ Cardinality(1 .. n) = n
  <2> HIDE DEF n
  <2>1. IsFiniteSet(1 .. n) /\ Cardinality(1 .. n) = IF 1 > n THEN 0 ELSE n - 1 + 1
    BY <1>1, FS_Interval
  <2> QED BY <1>1, <2>1
<1>4. f \in Surjection(1 .. n, S)
  BY <1>2, <1>3, FS_Injection
<1>5. \A p \in S : \E i \in 1 .. n : f[i] = p
  <2> HIDE DEF n
  <2> QED BY <1>4 DEF Surjection
<1> QED BY <1>5 DEF f

-----------------------------------------------------------------------------
(* Chains: each element is what next says comes after the one before *)

\* The chains over S that start with a and that b comes after.
Linked(S, next, a, b) ==
  {s \in Seq(S) : /\ s # <<>> /\ s[1] = a /\ next[s[Len(s)]] = b
                  /\ \A i \in 1 .. Len(s) - 1 : s[i + 1] = next[s[i]]}

LEMMA LinkedOne ==
  ASSUME NEW S, NEW next, NEW a \in S
  PROVE  <<a>> \in Linked(S, next, a, next[a])
<1>1. <<a>> \in Seq(S) /\ Len(<<a>>) = 1 /\ <<a>>[1] = a /\ <<a>> # <<>>
  OBVIOUS
<1> QED BY <1>1 DEF Linked

LEMMA LinkedConcat ==
  ASSUME NEW S, NEW next, NEW a, NEW b, NEW c,
         NEW s \in Linked(S, next, a, b), NEW t \in Linked(S, next, b, c)
  PROVE  s \o t \in Linked(S, next, a, c)
<1> DEFINE m == Len(s)
           n == Len(t)
           u == s \o t
<1>1. /\ s \in Seq(S) /\ t \in Seq(S)
      /\ s[1] = a /\ next[s[m]] = b /\ \A i \in 1 .. m - 1 : s[i + 1] = next[s[i]]
      /\ t[1] = b /\ next[t[n]] = c /\ \A i \in 1 .. n - 1 : t[i + 1] = next[t[i]]
      /\ s # <<>> /\ t # <<>>
  BY DEF Linked
<1>2. m \in Nat /\ n \in Nat /\ m >= 1 /\ n >= 1
  BY <1>1, LenProperties, EmptySeq
<1>3. /\ u \in Seq(S) /\ Len(u) = m + n
      /\ \A i \in 1 .. m + n : u[i] = IF i <= m THEN s[i] ELSE t[i - m]
  BY <1>1, ConcatProperties
<1> HIDE DEF u, m, n
<1>4. u[1] = a /\ u # <<>>
  <2>1. 1 \in 1 .. m + n /\ 1 <= m /\ Len(u) # 0
    BY <1>2, <1>3
  <2> QED BY <1>1, <1>3, <2>1, EmptySeq
<1>5. next[u[m + n]] = c
  <2>1. m + n \in 1 .. m + n /\ ~(m + n <= m) /\ (m + n) - m = n
    BY <1>2
  <2>2. u[m + n] = t[n]
    BY <1>3, <2>1
  <2> QED BY <1>1, <2>2
<1>6. ASSUME NEW i \in 1 .. m + n - 1 PROVE u[i + 1] = next[u[i]]
  <2>0. i \in 1 .. m + n /\ i + 1 \in 1 .. m + n
    BY <1>2
  <2>1. CASE i < m
    <3>1. u[i] = s[i] /\ u[i + 1] = s[i + 1] /\ i \in 1 .. m - 1
      BY <1>2, <1>3, <2>0, <2>1
    <3> QED BY <1>1, <3>1
  <2>2. CASE i = m
    <3>1. u[i] = s[m] /\ u[i + 1] = t[1]
      <4>1. i <= m /\ ~(i + 1 <= m) /\ (i + 1) - m = 1
        BY <1>2, <2>2
      <4> QED BY <1>3, <2>0, <2>2, <4>1
    <3> QED BY <1>1, <3>1
  <2>3. CASE i > m
    <3> DEFINE j == i - m
    <3>1. j \in 1 .. n - 1 /\ (i + 1) - m = j + 1 /\ ~(i <= m) /\ ~(i + 1 <= m)
      BY <1>2, <2>3
    <3>2. u[i] = t[j] /\ u[i + 1] = t[j + 1]
      BY <1>3, <2>0, <3>1
    <3> HIDE DEF j
    <3> QED BY <1>1, <3>1, <3>2
  <2> QED BY <1>2, <2>1, <2>2, <2>3
<1>7. u \in Linked(S, next, a, c)
  <2>0. Len(u) = m + n
    BY <1>3
  <2>1. next[u[Len(u)]] = c
    BY <1>5, <2>0
  <2>2. ASSUME NEW i \in 1 .. Len(u) - 1 PROVE u[i + 1] = next[u[i]]
    <3>1. i \in 1 .. m + n - 1
      BY <1>2, <2>0
    <3> QED BY <1>6, <3>1
  <2> QED BY <1>3, <1>4, <2>1, <2>2 DEF Linked
<1> QED BY <1>7 DEF u

LEMMA LinkedTwo ==
  ASSUME NEW S, NEW next, NEW a \in S, NEW b \in S, b = next[a]
  PROVE  <<a, b>> \in Linked(S, next, a, next[b])
<1>1. <<a>> \o <<b>> \in Linked(S, next, a, next[b])
  BY LinkedOne, LinkedConcat
<1>2. <<a>> \o <<b>> = <<a, b>>
  <2> DEFINE u == <<a>> \o <<b>>
             v == <<a, b>>
  <2>1. <<a>> \in Seq(S) /\ <<b>> \in Seq(S) /\ Len(<<a>>) = 1 /\ Len(<<b>>) = 1
        /\ <<a>>[1] = a /\ <<b>>[1] = b
    OBVIOUS
  <2>2. u \in Seq(S) /\ Len(u) = 2 /\ u[1] = a /\ u[2] = b
    BY <2>1, ConcatProperties
  <2>3. v \in Seq(S) /\ Len(v) = 2 /\ v[1] = a /\ v[2] = b
    OBVIOUS
  <2> HIDE DEF u, v
  <2>4. u = v
    BY <2>2, <2>3, SeqEqual
  <2> QED BY <2>4 DEF u, v
<1> QED BY <1>1, <1>2

\* An element that is there or not.
LEMMA LinkedOptional ==
  ASSUME NEW S, NEW next, NEW a, NEW b \in S, NEW c, NEW C \in BOOLEAN,
         NEW s \in Linked(S, next, a, IF C THEN b ELSE c), C => next[b] = c
  PROVE  s \o (IF C THEN <<b>> ELSE <<>>) \in Linked(S, next, a, c)
<1>1. CASE C
  BY <1>1, LinkedOne, LinkedConcat
<1>2. CASE ~C
  <2>1. s \in Seq(S)
    BY DEF Linked
  <2>2. s \o <<>> = s
    BY <2>1, ConcatEmptySeq
  <2> QED BY <1>2, <2>2
<1> QED BY <1>1, <1>2

\* Chains that lead from each e[i] to the next are one chain together.
LEMMA LinkedFlatten ==
  ASSUME NEW S, NEW next, NEW n \in Nat \ {0}, NEW e, NEW seqs,
         seqs = [i \in 1 .. n |-> seqs[i]],
         \A i \in 1 .. n : seqs[i] \in Linked(S, next, e[i], e[i + 1])
  PROVE  FlattenSeq(seqs) \in Linked(S, next, e[1], e[n + 1])
<1> DEFINE A == [i \in 1 .. n |-> Linked(S, next, e[1], e[i + 1])]
           T == Seq(S)
<1>1. seqs \in Seq(T) /\ Len(seqs) = n
  <2>1. \A i \in 1 .. n : seqs[i] \in T
    BY DEF Linked
  <2> HIDE DEF T
  <2> QED BY <2>1, FunctionIsSeq
<1>2. seqs[1] \in A[1]
  <2>1. 1 \in 1 .. n
    OBVIOUS
  <2> QED BY <2>1
<1>3. ASSUME NEW i \in 1 .. n - 1, NEW s \in A[i] PROVE s \o seqs[i + 1] \in A[i + 1]
  <2>1. i \in 1 .. n /\ i + 1 \in 1 .. n
    OBVIOUS
  <2>2. s \in Linked(S, next, e[1], e[i + 1]) /\ A[i + 1] = Linked(S, next, e[1], e[(i + 1) + 1])
    BY <2>1
  <2>3. seqs[i + 1] \in Linked(S, next, e[i + 1], e[(i + 1) + 1])
    BY <2>1
  <2> HIDE DEF A
  <2> QED BY <2>2, <2>3, LinkedConcat
<1>4. n \in 1 .. n /\ Len(seqs) # 0
  BY <1>1
<1>5. A[n] = Linked(S, next, e[1], e[n + 1])
  BY <1>4
<1> HIDE DEF A, T
<1>6. FlattenSeq(seqs) \in A[Len(seqs)]
  BY <1>1, <1>2, <1>3, <1>4, FlattenIn
<1> QED BY <1>1, <1>5, <1>6

-----------------------------------------------------------------------------
(* Short sequences *)

LEMMA NoElements == Range(<<>>) = {}
BY DEF Range

LEMMA OneElement ==
  ASSUME NEW a
  PROVE  /\ Head(<<a>>) = a /\ Tail(<<a>>) = <<>> /\ Range(<<a>>) = {a} /\ <<a>> # <<>>
         /\ Append(<<>>, a) = <<a>>
<1>1. Range(<<a>>) = {a}
  BY DEF Range
<1>2. Append(<<>>, a) = <<a>>
  OBVIOUS
<1> QED BY <1>1, <1>2

LEMMA TwoElements ==
  ASSUME NEW a, NEW b
  PROVE  /\ Head(<<a, b>>) = a /\ Tail(<<a, b>>) = <<b>> /\ Range(<<a, b>>) = {a, b} /\ <<a, b>> # <<>>
         /\ Append(<<a>>, b) = <<a, b>> /\ <<>> \o <<a, b>> = <<a, b>>
<1>1. Range(<<a, b>>) = {a, b}
  BY DEF Range
<1>2. Append(<<a>>, b) = <<a, b>>
  <2> DEFINE u == Append(<<a>>, b)
             v == <<a, b>>
             S == {a, b}
  <2>1. <<a>> \in Seq(S) /\ b \in S /\ Len(<<a>>) = 1 /\ <<a>>[1] = a
    OBVIOUS
  <2>2. u \in Seq(S) /\ Len(u) = 2 /\ u[1] = a /\ u[2] = b
    BY <2>1, AppendProperties
  <2>3. v \in Seq(S) /\ Len(v) = 2 /\ v[1] = a /\ v[2] = b
    OBVIOUS
  <2> HIDE DEF u, v
  <2>4. u = v
    BY <2>2, <2>3, SeqEqual
  <2> QED BY <2>4 DEF u, v
<1>3. <<>> \o <<a, b>> = <<a, b>>
  OBVIOUS
<1> QED BY <1>1, <1>2, <1>3

LEMMA ThreeElements ==
  ASSUME NEW a, NEW b, NEW c
  PROVE  /\ Head(<<a, b, c>>) = a /\ Tail(<<a, b, c>>) = <<b, c>> /\ Range(<<a, b, c>>) = {a, b, c}
         /\ <<a, b, c>> # <<>>
<1>1. Range(<<a, b, c>>) = {a, b, c}
  BY DEF Range
<1>2. Tail(<<a, b, c>>) = <<b, c>>
  OBVIOUS
<1> QED BY <1>1, <1>2

LEMMA OneAndTwo ==
  ASSUME NEW a, NEW b, NEW c
  PROVE  <<a>> \o <<b, c>> = <<a, b, c>>
<1>1. QED
  <2> DEFINE u == <<a>> \o <<b, c>>
             v == <<a, b, c>>
             S == {a, b, c}
  <2>1. <<a>> \in Seq(S) /\ <<b, c>> \in Seq(S) /\ Len(<<a>>) = 1 /\ Len(<<b, c>>) = 2
        /\ <<a>>[1] = a /\ <<b, c>>[1] = b /\ <<b, c>>[2] = c
    OBVIOUS
  <2>2. u \in Seq(S) /\ Len(u) = 3 /\ u[1] = a /\ u[2] = b /\ u[3] = c
    BY <2>1, ConcatProperties
  <2>3. v \in Seq(S) /\ Len(v) = 3 /\ v[1] = a /\ v[2] = b /\ v[3] = c
    OBVIOUS
  <2> HIDE DEF u, v
  <2>4. u = v
    BY <2>2, <2>3, SeqEqual
  <2> QED BY <2>4 DEF u, v
=============================================================================
