-------------------------- MODULE ModelRunnerProofs --------------------------
(***************************************************************************)
(* For every number of layers and of decoded tokens and every class of     *)
(* model, the engine's calls compute the transformer's logits; and for     *)
(* every configuration, what the ranks have loaded fits together.          *)
(***************************************************************************)
EXTENDS ModelRunner, SequenceLemmas

-----------------------------------------------------------------------------
(* The stream *)

\* What the recursive function is, up to layer n.
StreamTo(n, f) ==
  f = [l \in 0 .. n |->
        [t \in Nat |-> IF l = 0 THEN Embedding(t) ELSE WithExperts(l - 1, f[l - 1], t)]]

LEMMA StreamExists ==
  ASSUME NEW n \in Nat
  PROVE  \E f : StreamTo(n, f)
<1> DEFINE T == {m \in Nat : \E f : StreamTo(m, f)}
<1>1. 0 \in T
  <2> DEFINE f == [l \in 0 .. 0 |-> [t \in Nat |-> Embedding(t)]]
  <2>1. f = [l \in 0 .. 0 |->
              [t \in Nat |-> IF l = 0 THEN Embedding(t) ELSE WithExperts(l - 1, f[l - 1], t)]]
    BY \A l \in 0 .. 0 : l = 0
  <2> HIDE DEF f
  <2>2. StreamTo(0, f)
    BY <2>1 DEF StreamTo
  <2> QED BY <2>2
<1>2. ASSUME NEW m \in T PROVE m + 1 \in T
  <2>1. m \in Nat
    OBVIOUS
  <2>2. PICK f : StreamTo(m, f)
    OBVIOUS
  <2> DEFINE k == m + 1
             next == [t \in Nat |-> WithExperts(m, f[m], t)]
             g == [l \in 0 .. k |-> IF l = k THEN next ELSE f[l]]
  <2>3. ASSUME NEW l \in 0 .. k
        PROVE  g[l] = [t \in Nat |-> IF l = 0 THEN Embedding(t) ELSE WithExperts(l - 1, g[l - 1], t)]
    <3>1. CASE l = k
      <4>1. l # 0 /\ l - 1 \in 0 .. k /\ l - 1 # k /\ l - 1 = m
        BY <2>1, <3>1
      <4>2. g[l] = next
        BY <3>1
      <4>3. g[l - 1] = f[m]
        BY <4>1
      <4> HIDE DEF g, k
      <4> QED BY <4>1, <4>2, <4>3
    <3>2. CASE l # k
      <4>1. l \in 0 .. m /\ g[l] = f[l]
        BY <2>1, <3>2
      <4>2. f[l] = [t \in Nat |-> IF l = 0 THEN Embedding(t) ELSE WithExperts(l - 1, f[l - 1], t)]
        BY <2>2, <4>1 DEF StreamTo
      <4>3. CASE l = 0
        <5> HIDE DEF g, k
        <5> QED BY <4>1, <4>2, <4>3
      <4>4. CASE l # 0
        <5>1. l - 1 \in 0 .. k /\ l - 1 # k
          BY <2>1, <4>1, <4>4
        <5>2. g[l - 1] = f[l - 1]
          BY <5>1
        <5> HIDE DEF g, k
        <5> QED BY <4>1, <4>2, <5>2
      <4> QED BY <4>3, <4>4
    <3> QED BY <3>1, <3>2
  <2>4. g = [l \in 0 .. k |-> g[l]]
    OBVIOUS
  <2> HIDE DEF g
  <2>5. StreamTo(k, g)
    BY <2>3, <2>4 DEF StreamTo
  <2> QED BY <2>1, <2>5
<1>3. T = Nat
  <2> HIDE DEF T
  <2>1. T \in SUBSET Nat BY DEF T
  <2> QED BY <1>1, <1>2, <2>1, Induction
<1> QED BY <1>3

FirstLayer == [t \in Nat |-> Embedding(t)]
LayerAfter(l, x) == [t \in Nat |-> WithExperts(l, x, t)]

LEMMA StreamAt ==
  ASSUME NEW n, NEW f, StreamTo(n, f), NEW k \in 0 .. n
  PROVE  /\ k = 0 => f[k] = FirstLayer
         /\ k # 0 => f[k] = LayerAfter(k - 1, f[k - 1])
<1>1. f[k] = [t \in Nat |-> IF k = 0 THEN Embedding(t) ELSE WithExperts(k - 1, f[k - 1], t)]
  BY DEF StreamTo
<1>2. CASE k = 0
  BY <1>1, <1>2 DEF FirstLayer
<1>3. CASE k # 0
  BY <1>1, <1>3 DEF LayerAfter
<1> QED BY <1>2, <1>3

\* Two of them agree on the layers they share.
LEMMA StreamUnique ==
  ASSUME NEW m \in Nat, NEW n \in Nat, NEW f, NEW g, StreamTo(m, f), StreamTo(n, g)
  PROVE  \A l \in Nat : l <= m /\ l <= n => f[l] = g[l]
<1> DEFINE T == {l \in Nat : l <= m /\ l <= n => f[l] = g[l]}
<1>1. 0 \in T
  <2>1. 0 \in 0 .. m /\ 0 \in 0 .. n
    OBVIOUS
  <2>2. f[0] = FirstLayer /\ g[0] = FirstLayer
    BY <2>1, StreamAt
  <2> QED BY <2>2
<1>2. ASSUME NEW l \in T PROVE l + 1 \in T
  <2> DEFINE k == l + 1
  <2>1. SUFFICES ASSUME k <= m, k <= n PROVE f[k] = g[k]
    OBVIOUS
  <2>2. k \in 0 .. m /\ k \in 0 .. n /\ k # 0 /\ k - 1 = l /\ f[l] = g[l]
    BY <2>1
  <2> HIDE DEF k
  <2>3. f[k] = LayerAfter(k - 1, f[k - 1])
    BY <2>2, StreamAt
  <2>4. g[k] = LayerAfter(k - 1, g[k - 1])
    BY <2>2, StreamAt
  <2> QED BY <2>2, <2>3, <2>4
<1>3. T = Nat
  <2> HIDE DEF T
  <2>1. T \in SUBSET Nat BY DEF T
  <2> QED BY <1>1, <1>2, <2>1, Induction
<1> QED BY <1>3

LEMMA StreamLayers ==
  /\ Stream[0] = [t \in Nat |-> Embedding(t)]
  /\ \A l \in Nat : Stream[l + 1] = [t \in Nat |-> WithExperts(l, Stream[l], t)]
<1> DEFINE F(n) == CHOOSE f : StreamTo(n, f)
           s == [l \in Nat |-> F(l)[l]]
           Defined(f) == f = [l \in Nat |->
             [t \in Nat |-> IF l = 0 THEN Embedding(t) ELSE WithExperts(l - 1, f[l - 1], t)]]
<1>1. \A n \in Nat : StreamTo(n, F(n))
  BY StreamExists
<1> HIDE DEF F
<1>2. ASSUME NEW l \in Nat
      PROVE  s[l] = [t \in Nat |-> IF l = 0 THEN Embedding(t) ELSE WithExperts(l - 1, s[l - 1], t)]
  <2>1. s[l] = F(l)[l] /\ l \in 0 .. l
    OBVIOUS
  <2>2. F(l)[l] = [t \in Nat |-> IF l = 0 THEN Embedding(t) ELSE WithExperts(l - 1, F(l)[l - 1], t)]
    BY <1>1, <2>1 DEF StreamTo
  <2>3. CASE l = 0
    <3> HIDE DEF s
    <3> QED BY <2>1, <2>2, <2>3
  <2>4. CASE l # 0
    <3>1. l - 1 \in Nat /\ l - 1 <= l /\ l - 1 <= l - 1
      BY <2>4
    <3>2. F(l)[l - 1] = F(l - 1)[l - 1]
      BY <1>1, <3>1, StreamUnique
    <3>3. s[l - 1] = F(l - 1)[l - 1]
      BY <3>1
    <3> HIDE DEF s
    <3> QED BY <2>1, <2>2, <3>2, <3>3
  <2> QED BY <2>3, <2>4
<1>3. s = [l \in Nat |-> s[l]]
  OBVIOUS
<1> HIDE DEF s
<1>4. Defined(s)
  BY <1>2, <1>3
<1>5. Stream = CHOOSE f : Defined(f)
  BY DEF Stream
<1>6. Defined(Stream)
  BY <1>4, <1>5
<1>7. Stream[0] = [t \in Nat |-> Embedding(t)]
  BY <1>6
<1>8. ASSUME NEW l \in Nat PROVE Stream[l + 1] = [t \in Nat |-> WithExperts(l, Stream[l], t)]
  <2> DEFINE k == l + 1
  <2>1. k \in Nat /\ k # 0 /\ k - 1 = l
    OBVIOUS
  <2> HIDE DEF k
  <2>2. Stream[k] = [t \in Nat |-> WithExperts(k - 1, Stream[k - 1], t)]
    BY <1>6, <2>1
  <2> QED BY <2>1, <2>2 DEF k
<1> QED BY <1>7, <1>8

\* It depends on the class alone.
LEMMA StreamConstant ==
  ASSUME class' = class
  PROVE  \A l \in Nat : Stream'[l] = Stream[l]
<1> DEFINE T == {l \in Nat : Stream'[l] = Stream[l]}
<1>1. (/\ Stream[0] = [t \in Nat |-> Embedding(t)]
       /\ \A l \in Nat : Stream[l + 1] = [t \in Nat |-> WithExperts(l, Stream[l], t)])'
  BY StreamLayers, PTL
<1>2. 0 \in T
  BY <1>1, StreamLayers DEF Embedding
<1>3. ASSUME NEW l \in T PROVE l + 1 \in T
  <2>1. l \in Nat /\ Stream'[l] = Stream[l]
    OBVIOUS
  <2>2. ASSUME NEW s, NEW t PROVE WithExperts(l, s, t)' = WithExperts(l, s, t)
    BY DEF WithExperts, WithAttention, Key, QKV, MoE, Norm, OProj, Attended
  <2>3. Stream'[l + 1] = [t \in Nat |-> WithExperts(l, Stream[l], t)']
    BY <1>1, <2>1
  <2>4. Stream[l + 1] = [t \in Nat |-> WithExperts(l, Stream[l], t)]
    BY <2>1, StreamLayers
  <2> QED BY <2>1, <2>2, <2>3, <2>4
<1>4. T = Nat
  <2> HIDE DEF T
  <2>1. T \in SUBSET Nat BY DEF T
  <2> QED BY <1>2, <1>3, <2>1, Induction
<1> QED BY <1>4

-----------------------------------------------------------------------------
(* Sums *)

\* No attention or mixture of experts from layer l on is in x, the embedding is.
Grown(l, x) ==
  /\ \E t : <<"embed", t, {}>> \in x
  /\ \A m \in Nat : m >= l => \A y : <<"o", m, y>> \notin x /\ <<"moe", m, y>> \notin x

LEMMA GrownNotNone ==
  ASSUME NEW l, NEW x, Grown(l, x)
  PROVE  x # None
<1>1. PICK t : <<"embed", t, {}>> \in x
  BY DEF Grown
<1>2. <<"embed", t, {}>> # <<"none", 0, {}>>
  <2>1. <<"embed", t, {}>>[1] # <<"none", 0, {}>>[1]
    OBVIOUS
  <2> QED BY <2>1
<1> QED BY <1>1, <1>2 DEF None

\* The two sums of a layer lose nothing, in either order.
Adds(x, y, sum) == Plus(x, y) = sum /\ Plus(y, x) = sum

LEMMA SumsKeepAll ==
  ASSUME NEW l \in Nat, NEW x, Grown(l, x), NEW a, NEW b,
         NEW mid, mid = x \union OProj(l, a), NEW out, out = mid \union MoE(l, b)
  PROVE  mid # None /\ Adds(x, OProj(l, a), mid) /\ Adds(mid, MoE(l, b), out) /\ Grown(l + 1, out)
<1> DEFINE o == <<"o", l, a>>
           moe == <<"moe", l, b>>
<1>1. OProj(l, a) = {o} /\ MoE(l, b) = {moe}
  BY DEF OProj, MoE
<1>2. o \notin x /\ moe \notin x
  <2>1. l >= l
    OBVIOUS
  <2>2. \A y : <<"o", l, y>> \notin x /\ <<"moe", l, y>> \notin x
    BY <2>1 DEF Grown
  <2> QED BY <2>2
<1>3. moe # o
  <2>1. moe[1] # o[1]
    OBVIOUS
  <2> QED BY <2>1
<1>4. mid = x \union {o} /\ out = x \union {o, moe}
  BY <1>1
<1>5. PICK t : <<"embed", t, {}>> \in x
  BY DEF Grown
<1>6. ASSUME NEW m \in Nat, m >= l + 1, NEW y
      PROVE  <<"o", m, y>> \notin out /\ <<"moe", m, y>> \notin out
  <2>1. m >= l /\ m # l
    BY <1>6
  <2>2. <<"o", m, y>> \notin x /\ <<"moe", m, y>> \notin x
    BY <2>1 DEF Grown
  <2>3. ASSUME NEW name PROVE <<name, m, y>> # o /\ <<name, m, y>> # moe
    <3>1. <<name, m, y>>[2] = m /\ o[2] = l /\ moe[2] = l
      OBVIOUS
    <3> HIDE DEF o, moe
    <3> QED BY <2>1, <3>1
  <2> HIDE DEF o, moe
  <2> QED BY <1>4, <2>2, <2>3
<1> HIDE DEF o, moe
<1>7. Grown(l + 1, out)
  <2>1. <<"embed", t, {}>> \in out
    BY <1>4, <1>5
  <2> QED BY <1>6, <2>1 DEF Grown
<1>8. Plus(x, {o}) = mid /\ Plus({o}, x) = mid
  BY <1>2, <1>4 DEF Plus
<1>9. moe \notin mid
  BY <1>2, <1>3, <1>4
<1>10. Plus(mid, {moe}) = out /\ Plus({moe}, mid) = out
  <2> QED BY <1>1, <1>9, <1>4 DEF Plus
<1>11. mid # None
  <2>1. Grown(l + 1, mid)
    <3>1. <<"embed", t, {}>> \in mid /\ mid \subseteq out
      BY <1>4, <1>5
    <3> QED BY <1>6, <3>1 DEF Grown
  <2> QED BY <2>1, GrownNotNone
<1> QED BY <1>1, <1>7, <1>8, <1>10, <1>11 DEF Adds

LEMMA StreamGrown ==
  \A l \in Nat : \A t \in Nat : Grown(l, Stream[l][t])
<1> DEFINE T == {l \in Nat : \A t \in Nat : Grown(l, Stream[l][t])}
<1>1. 0 \in T
  <2>1. ASSUME NEW t \in Nat PROVE Grown(0, Stream[0][t])
    <3>1. Stream[0][t] = {<<"embed", t, {}>>}
      BY StreamLayers DEF Embedding
    <3>2. ASSUME NEW name, NEW m, NEW y, name # "embed"
          PROVE  <<name, m, y>> # <<"embed", t, {}>>
      <4>1. <<name, m, y>>[1] # <<"embed", t, {}>>[1]
        BY <3>2
      <4> QED BY <4>1
    <3>3. "o" # "embed" /\ "moe" # "embed"
      OBVIOUS
    <3> QED BY <3>1, <3>2, <3>3 DEF Grown
  <2> QED BY <2>1
<1>2. ASSUME NEW l \in T PROVE l + 1 \in T
  <2>1. ASSUME NEW t \in Nat PROVE Grown(l + 1, Stream[l + 1][t])
    <3>1. l \in Nat /\ Grown(l, Stream[l][t])
      OBVIOUS
    <3>2. Stream[l + 1][t] = WithExperts(l, Stream[l], t)
      BY <3>1, StreamLayers
    <3> DEFINE s == Stream[l]
               a == Attended(l, Key(l, s, t), {<<u, Key(l, s, u)>> : u \in 0 .. t})
               mid == s[t] \union OProj(l, a)
               b == Norm(l, "norm2", mid)
    <3>3. WithAttention(l, s, t) = mid
      BY DEF WithAttention
    <3>4. WithExperts(l, s, t) = mid \union MoE(l, b)
      BY <3>3 DEF WithExperts
    <3> DEFINE out == mid \union MoE(l, b)
    <3>5. Grown(l + 1, out)
      <4> DEFINE x == s[t]
      <4>1. Grown(l, x) /\ l \in Nat /\ mid = x \union OProj(l, a) /\ out = mid \union MoE(l, b)
        BY <3>1
      <4> HIDE DEF out, mid, a, b, x
      <4> QED BY <4>1, SumsKeepAll
    <3> QED BY <3>2, <3>4, <3>5
  <2> QED BY <2>1
<1>3. T = Nat
  <2> HIDE DEF T
  <2>1. T \in SUBSET Nat BY DEF T
  <2> QED BY <1>1, <1>2, <2>1, Induction
<1> QED BY <1>3

-----------------------------------------------------------------------------
(* What passes through a layer: token t at layer l *)

Incoming(l, t) == Stream[l][t]
KeyOf(l, t) == Key(l, Stream[l], t)
Attention(l, t) == Attended(l, KeyOf(l, t), {<<u, KeyOf(l, u)>> : u \in 0 .. t})
Mid(l, t) == WithAttention(l, Stream[l], t)
Expert(l, t) == MoE(l, Norm(l, "norm2", Mid(l, t)))
Logit(t) == LMHead(Norm(Layers, "norm", Incoming(Layers, t)))

LEMMA LayerValues ==
  ASSUME NEW l \in Nat, NEW t \in Nat
  PROVE  /\ Incoming(0, t) = Embedding(t)
         /\ KeyOf(l, t) = QKV(class, l, Norm(l, "norm1", Incoming(l, t)), t)
         /\ Incoming(l, t) # None /\ Mid(l, t) # None
         /\ Expert(l, t) # None /\ Attention(l, t) # None
         /\ Plus(Incoming(l, t), OProj(l, Attention(l, t))) = Mid(l, t)
         /\ Plus(OProj(l, Attention(l, t)), Incoming(l, t)) = Mid(l, t)
         /\ Plus(Mid(l, t), Expert(l, t)) = Incoming(l + 1, t)
         /\ Plus(Expert(l, t), Mid(l, t)) = Incoming(l + 1, t)
<1> DEFINE x == Incoming(l, t)
           a == Attention(l, t)
           mid == Mid(l, t)
           b == Norm(l, "norm2", mid)
<1>1. Grown(l, x)
  BY StreamGrown DEF Incoming
<1>2. mid = x \union OProj(l, a)
  BY DEF Mid, WithAttention, Attention, KeyOf, Incoming
<1>3. Incoming(l + 1, t) = mid \union MoE(l, b)
  BY StreamLayers DEF Incoming, WithExperts, Mid
<1>4. Expert(l, t) = MoE(l, b)
  BY DEF Expert
<1>5. ASSUME NEW name, name # "none", NEW y PROVE {<<name, l, y>>} # None
  <2>1. <<name, l, y>>[1] # <<"none", 0, {}>>[1]
    BY <1>5
  <2>2. <<name, l, y>> # <<"none", 0, {}>>
    BY <2>1
  <2> QED BY <2>2 DEF None
<1>6. Expert(l, t) # None /\ a # None
  <2>1. "moe" # "none" /\ "attn" # "none"
    OBVIOUS
  <2>2. MoE(l, b) # None
    BY <1>5, <2>1 DEF MoE
  <2>3. \A q, keys : Attended(l, q, keys) # None
    BY <1>5, <2>1 DEF Attended
  <2> QED BY <1>4, <2>2, <2>3 DEF Attention
<1>7. Incoming(0, t) = Embedding(t) /\ KeyOf(l, t) = QKV(class, l, Norm(l, "norm1", x), t)
  BY StreamLayers DEF Incoming, KeyOf, Key
<1>8. x # None
  BY <1>1, GrownNotNone
<1> HIDE DEF x, a, mid, b
<1> DEFINE out == mid \union MoE(l, b)
<1>9. /\ mid # None
      /\ Plus(x, OProj(l, a)) = mid /\ Plus(OProj(l, a), x) = mid
      /\ Plus(mid, MoE(l, b)) = out /\ Plus(MoE(l, b), mid) = out
  <2>1. out = mid \union MoE(l, b)
    OBVIOUS
  <2> HIDE DEF out
  <2>2. mid # None /\ Adds(x, OProj(l, a), mid) /\ Adds(mid, MoE(l, b), out)
    BY <1>1, <1>2, <2>1, SumsKeepAll
  <2> QED BY <2>2 DEF Adds
<1> QED BY <1>3, <1>4, <1>6, <1>7, <1>8, <1>9 DEF x, a, mid

\* What a batch carries into layer l, by class.
CarriedHidden(l, t) ==
  IF l = 0 THEN None ELSE IF class = "dbrx" THEN Incoming(l, t) ELSE Expert(l - 1, t)
CarriedResidual(l, t) ==
  IF l = 0 \/ class = "dbrx" THEN None ELSE Mid(l - 1, t)

Carried(l, t) == hidden_states = CarriedHidden(l, t) /\ residual = CarriedResidual(l, t)

Ready ==
  /\ class \in Models /\ layer \in 0 .. Layers - 1 /\ input_ids \in Nat
  /\ positions = input_ids

\* What the first layer's input is, and every other's: the stream, once summed.
EnteredHidden == IF layer = 0 THEN Embedding(input_ids) ELSE hidden_states
EnteredResidual == IF layer = 0 THEN None ELSE residual

LEMMA Entered ==
  ASSUME Ready, Carried(layer, input_ids), NEW part, Before(part)
  PROVE  LET h == EnteredHidden
             r == EnteredResidual
             x == Incoming(layer, input_ids)
         IN  /\ Entering(part, hidden_states, residual) = Out(h, r) /\ h # None
             /\ class # "dbrx" => (IF r = None THEN h ELSE Plus(h, r)) = x
             /\ class = "dbrx" => h = x
<1> DEFINE l == layer
           t == input_ids
           x == Incoming(l, t)
           h == EnteredHidden
           r == EnteredResidual
<1> USE DEF EnteredHidden, EnteredResidual
<1>0. l \in Nat /\ t \in Nat
  BY ForwardAssumption DEF Ready
<1>1. x # None
  BY <1>0, LayerValues
<1>2. l = 0 => x = Embedding(t)
  BY <1>0, LayerValues
<1>3. Entering(part, hidden_states, residual) = Out(h, r) /\ h # None
  <2>0. part # "CPU_ATTN"
    BY DEF Before
  <2>1. CASE l = 0
    BY <1>1, <1>2, <2>0, <2>1 DEF Carried, CarriedHidden, Entering
  <2>2. CASE l # 0
    <3>1. l - 1 \in Nat
      BY <1>0, <2>2
    <3>2. Expert(l - 1, t) # None
      BY <1>0, <3>1, LayerValues
    <3> QED BY <1>1, <2>2, <3>2 DEF Carried, CarriedHidden, Entering
  <2> QED BY <2>1, <2>2
<1>4. ASSUME class # "dbrx"
      PROVE  (IF r = None THEN h ELSE Plus(h, r)) = x
  <2>1. CASE l = 0
    BY <1>2, <2>1
  <2>2. CASE l # 0
    <3>1. l - 1 \in Nat /\ (l - 1) + 1 = l
      BY <1>0, <2>2
    <3>2. Mid(l - 1, t) # None /\ Plus(Expert(l - 1, t), Mid(l - 1, t)) = Incoming((l - 1) + 1, t)
      BY <1>0, <3>1, LayerValues
    <3> QED BY <1>4, <2>2, <3>1, <3>2 DEF Carried, CarriedHidden, CarriedResidual
  <2> QED BY <2>1, <2>2
<1>5. class = "dbrx" => h = x
  BY <1>2 DEF Carried, CarriedHidden
<1> QED BY <1>3, <1>4, <1>5

\* Up to the projections, whatever the class carries is the stream.
LEMMA Projected ==
  ASSUME Ready, Carried(layer, input_ids)
  PROVE  forward_pre_attn = Out(KeyOf(layer, input_ids), Incoming(layer, input_ids))
<1> DEFINE l == layer
           x == Incoming(l, input_ids)
           k == QKV(class, l, Norm(l, "norm1", x), input_ids)
           h == EnteredHidden
           r == EnteredResidual
<1>0. l \in Nat /\ input_ids \in Nat /\ positions = input_ids
  BY ForwardAssumption DEF Ready
<1>1. KeyOf(l, input_ids) = k
  BY <1>0, LayerValues
<1>2. ~IsLast(l, "PREATTN") /\ ~After("PREATTN") /\ Before("PREATTN")
  BY DEF IsLast, After, Before
<1>3. /\ Entering("PREATTN", hidden_states, residual) = Out(h, r) /\ h # None
      /\ class # "dbrx" => (IF r = None THEN h ELSE Plus(h, r)) = x
      /\ class = "dbrx" => h = x
  BY <1>2, Entered
<1> HIDE DEF x, h, r
<1>4. CASE class = "mixtral"
  <2>1. RMSNorm(l, "norm1", h, r) = Out(Norm(l, "norm1", x), x)
    BY <1>3, <1>4 DEF RMSNorm, LayerNormWithResidual
  <2>2. MixtralDecoderLayer(l, "PREATTN", h, r) = Out(k, x)
    BY <1>0, <1>2, <1>4, <2>1 DEF MixtralDecoderLayer, MixtralAttention, Staged, Out
  <2>3. MixtralModel(l, "PREATTN", hidden_states, residual) = Out(k, x)
    BY <1>2, <1>3, <2>2 DEF MixtralModel, Out
  <2> QED BY <1>1, <1>2, <1>4, <2>3 DEF forward_pre_attn, model_forward, MixtralForCausalLMOff,
                                        LogitsProcessor, x
<1>5. CASE class = "phi"
  <2>1. LayerNormWithResidual(l, "norm1", h, r) = Out(Norm(l, "norm1", x), x)
    BY <1>3, <1>5 DEF LayerNormWithResidual
  <2>2. PhiDecoderLayer(l, "PREATTN", h, r) = Out(k, x)
    BY <1>0, <1>2, <1>3, <1>5, <2>1 DEF PhiDecoderLayer, PhiAttention, Staged, Out
  <2>3. PhiModel(l, "PREATTN", hidden_states, residual) = Out(k, x)
    BY <1>2, <1>3, <2>2 DEF PhiModel, Out
  <2> QED BY <1>1, <1>2, <1>5, <2>3 DEF forward_pre_attn, model_forward, PhiMoEForCausalLMOff,
                                        LogitsProcessor, x
<1>6. CASE class = "dbrx"
  <2>1. DbrxFusedNormAttention(l, "PREATTN", h, None) = Out(k, x)
    BY <1>0, <1>2, <1>3, <1>6 DEF DbrxFusedNormAttention, DbrxAttention, Staged, Out
  <2>2. DbrxBlock(l, "PREATTN", h, residual) = Out(k, x)
    BY <1>2, <2>1 DEF DbrxBlock
  <2>3. DbrxModel(l, "PREATTN", hidden_states, residual) = Out(k, x)
    BY <1>2, <1>3, <2>2 DEF DbrxModel, Out
  <2> QED BY <1>1, <1>2, <1>6, <2>3 DEF forward_pre_attn, model_forward, DbrxForCausalLMOff,
                                        LogitsProcessor, x
<1> QED BY <1>4, <1>5, <1>6 DEF Ready, Models

\* What a layer leaves: what is carried into the next, or the logits.
Leaves(out, l, t) ==
  IF l < Layers - 1
    THEN out.hidden = CarriedHidden(l + 1, t) /\ out.residual = CarriedResidual(l + 1, t)
    ELSE out.hidden = Logit(t)

\* From what a class's layer returns.
LEMMA MixtralLeaves ==
  ASSUME NEW part, After(part), class = "mixtral", Ready, NEW h, NEW r, NEW h2, NEW r2,
         Entering(part, h, r) = Out(h2, r2),
         MixtralDecoderLayer(layer, part, h2, r2) =
           Out(Expert(layer, input_ids), Mid(layer, input_ids))
  PROVE  Leaves(MixtralForCausalLMOff(layer, part, h, r), layer, input_ids)
<1> DEFINE l == layer
           t == input_ids
           e == Expert(l, t)
           mid == Mid(l, t)
           x == Incoming(l + 1, t)
<1>0. l \in Nat /\ t \in Nat /\ l + 1 # 0 /\ (l + 1) - 1 = l /\ l <= Layers - 1 /\ Layers \in Nat
  BY ForwardAssumption DEF Ready
<1>1. mid # None /\ Plus(e, mid) = x
  BY <1>0, LayerValues
<1>2. RMSNorm(Layers, "norm", e, mid) = Out(Norm(Layers, "norm", x), x)
  <2> HIDE DEF e, mid, x
  <2> QED BY <1>1 DEF RMSNorm, LayerNormWithResidual
<1>3. MixtralModel(l, part, h, r)
        = IF IsLast(l, part) THEN Out(Norm(Layers, "norm", x), x) ELSE Out(e, mid)
  BY <1>2 DEF MixtralModel, Out
<1>4. CASE l = Layers - 1
  <2>1. IsLast(l, part) /\ x = Incoming(Layers, t)
    BY <1>0, <1>4 DEF IsLast
  <2>2. MixtralForCausalLMOff(l, part, h, r) = Out(Logit(t), None)
    BY <1>3, <2>1 DEF MixtralForCausalLMOff, LogitsProcessor, Logit, Out
  <2> QED BY <1>4, <2>2 DEF Leaves, Out
<1>5. CASE l < Layers - 1
  <2>1. ~IsLast(l, part)
    BY <1>0, <1>5 DEF IsLast
  <2>2. MixtralForCausalLMOff(l, part, h, r) = Out(e, mid)
    BY <1>3, <2>1 DEF MixtralForCausalLMOff, LogitsProcessor
  <2>3. CarriedHidden(l + 1, t) = e /\ CarriedResidual(l + 1, t) = mid
    BY <1>0 DEF CarriedHidden, CarriedResidual
  <2> QED BY <1>5, <2>2, <2>3 DEF Leaves, Out
<1> QED BY <1>0, <1>4, <1>5

LEMMA PhiLeaves ==
  ASSUME NEW part, After(part), class = "phi", Ready, NEW h, NEW r, NEW h2, NEW r2,
         Entering(part, h, r) = Out(h2, r2),
         PhiDecoderLayer(layer, part, h2, r2) =
           Out(Expert(layer, input_ids), Mid(layer, input_ids))
  PROVE  Leaves(PhiMoEForCausalLMOff(layer, part, h, r), layer, input_ids)
<1> DEFINE l == layer
           t == input_ids
           e == Expert(l, t)
           mid == Mid(l, t)
           x == Incoming(l + 1, t)
<1>0. l \in Nat /\ t \in Nat /\ l + 1 # 0 /\ (l + 1) - 1 = l /\ l <= Layers - 1 /\ Layers \in Nat
  BY ForwardAssumption DEF Ready
<1>1. mid # None /\ Plus(e, mid) = x
  BY <1>0, LayerValues
<1>2. LayerNormWithResidual(Layers, "norm", e, mid) = Out(Norm(Layers, "norm", x), x)
  <2> HIDE DEF e, mid, x
  <2> QED BY <1>1 DEF LayerNormWithResidual
<1>3. PhiModel(l, part, h, r)
        = IF IsLast(l, part) THEN Out(Norm(Layers, "norm", x), x) ELSE Out(e, mid)
  BY <1>2 DEF PhiModel, Out
<1>4. CASE l = Layers - 1
  <2>1. IsLast(l, part) /\ x = Incoming(Layers, t)
    BY <1>0, <1>4 DEF IsLast
  <2>2. PhiMoEForCausalLMOff(l, part, h, r) = Out(Logit(t), None)
    BY <1>3, <2>1 DEF PhiMoEForCausalLMOff, LogitsProcessor, Logit, Out
  <2> QED BY <1>4, <2>2 DEF Leaves, Out
<1>5. CASE l < Layers - 1
  <2>1. ~IsLast(l, part)
    BY <1>0, <1>5 DEF IsLast
  <2>2. PhiMoEForCausalLMOff(l, part, h, r) = Out(e, mid)
    BY <1>3, <2>1 DEF PhiMoEForCausalLMOff, LogitsProcessor
  <2>3. CarriedHidden(l + 1, t) = e /\ CarriedResidual(l + 1, t) = mid
    BY <1>0 DEF CarriedHidden, CarriedResidual
  <2> QED BY <1>5, <2>2, <2>3 DEF Leaves, Out
<1> QED BY <1>0, <1>4, <1>5

LEMMA DbrxLeaves ==
  ASSUME NEW part, After(part), class = "dbrx", Ready, NEW h, NEW r, NEW h2, NEW r2,
         Entering(part, h, r) = Out(h2, r2),
         DbrxBlock(layer, part, h2, r) = Out(Incoming(layer + 1, input_ids), None)
  PROVE  Leaves(DbrxForCausalLMOff(layer, part, h, r), layer, input_ids)
<1> DEFINE l == layer
           t == input_ids
           x == Incoming(l + 1, t)
<1>0. l \in Nat /\ t \in Nat /\ l + 1 # 0 /\ l <= Layers - 1 /\ Layers \in Nat
  BY ForwardAssumption DEF Ready
<1>1. DbrxModel(l, part, h, r)
        = IF IsLast(l, part) THEN Out(Norm(Layers, "norm", x), None) ELSE Out(x, None)
  BY DEF DbrxModel, Out
<1>2. CASE l = Layers - 1
  <2>1. IsLast(l, part) /\ x = Incoming(Layers, t)
    BY <1>0, <1>2 DEF IsLast
  <2>2. DbrxForCausalLMOff(l, part, h, r) = Out(Logit(t), None)
    BY <1>1, <2>1 DEF DbrxForCausalLMOff, LogitsProcessor, Logit, Out
  <2> QED BY <1>2, <2>2 DEF Leaves, Out
<1>3. CASE l < Layers - 1
  <2>1. ~IsLast(l, part)
    BY <1>0, <1>3 DEF IsLast
  <2>2. DbrxForCausalLMOff(l, part, h, r) = Out(x, None)
    BY <1>1, <2>1 DEF DbrxForCausalLMOff, LogitsProcessor
  <2>3. CarriedHidden(l + 1, t) = x /\ CarriedResidual(l + 1, t) = None
    BY <1>0 DEF CarriedHidden, CarriedResidual
  <2> QED BY <1>3, <2>2, <2>3 DEF Leaves, Out
<1> QED BY <1>0, <1>2, <1>3

\* The attention that a call of the host returns.
LEMMA HostAttention ==
  ASSUME class \in Models
  PROVE  forward_cpu_attn.hidden = cpu_decode_forward_cpp(layer)
<1> DEFINE a == cpu_decode_forward_cpp(layer)
<1>1. ~IsLast(layer, "CPU_ATTN") /\ ~After("CPU_ATTN") /\ ~Before("CPU_ATTN")
  BY DEF IsLast, After, Before
<1>2. Entering("CPU_ATTN", None, None) = Out(None, None)
  BY DEF Entering
<1>3. \A l, x, q : Staged(l, "CPU_ATTN", x, q) = cpu_decode_forward_cpp(l)
  BY DEF Staged
<1> HIDE DEF a
<1>4. CASE class = "mixtral"
  <2>1. MixtralDecoderLayer(layer, "CPU_ATTN", None, None) = Out(a, None)
    BY <1>1, <1>3 DEF MixtralDecoderLayer, MixtralAttention, Out, a
  <2>2. MixtralModel(layer, "CPU_ATTN", None, None) = Out(a, None)
    BY <1>1, <1>2, <2>1 DEF MixtralModel, Out
  <2> QED BY <1>1, <1>4, <2>2 DEF forward_cpu_attn, model_forward, MixtralForCausalLMOff,
                                  LogitsProcessor, Out, a
<1>5. CASE class = "phi"
  <2>1. PhiDecoderLayer(layer, "CPU_ATTN", None, None) = Out(a, None)
    BY <1>1, <1>3 DEF PhiDecoderLayer, PhiAttention, Out, a
  <2>2. PhiModel(layer, "CPU_ATTN", None, None) = Out(a, None)
    BY <1>1, <1>2, <2>1 DEF PhiModel, Out
  <2> QED BY <1>1, <1>5, <2>2 DEF forward_cpu_attn, model_forward, PhiMoEForCausalLMOff,
                                  LogitsProcessor, Out, a
<1>6. CASE class = "dbrx"
  <2>1. DbrxFusedNormAttention(layer, "CPU_ATTN", None, None) = Out(a, None)
    BY <1>1, <1>3 DEF DbrxFusedNormAttention, DbrxAttention, Out, a
  <2>2. DbrxBlock(layer, "CPU_ATTN", None, None) = Out(a, None)
    BY <1>1, <2>1 DEF DbrxBlock
  <2>3. DbrxModel(layer, "CPU_ATTN", None, None) = Out(a, None)
    BY <1>1, <1>2, <2>2 DEF DbrxModel, Out
  <2> QED BY <1>1, <1>6, <2>3 DEF forward_cpu_attn, model_forward, DbrxForCausalLMOff,
                                  LogitsProcessor, Out, a
<1> QED BY <1>4, <1>5, <1>6 DEF Models

\* The rest of a layer, from the attention's result.
LEMMA Finished ==
  ASSUME Ready, hidden_states = Attention(layer, input_ids), residual = Incoming(layer, input_ids)
  PROVE  Leaves(forward_post_attn, layer, input_ids)
<1> DEFINE l == layer
           x == Incoming(l, input_ids)
           a == Attention(l, input_ids)
           o == OProj(l, a)
           mid == Mid(l, input_ids)
           e == Expert(l, input_ids)
<1>0. l \in Nat /\ input_ids \in Nat
  BY ForwardAssumption DEF Ready
<1>1. /\ x # None /\ a # None /\ Plus(x, o) = mid /\ Plus(o, x) = mid
      /\ Plus(e, mid) = Incoming(l + 1, input_ids) /\ e = MoE(l, Norm(l, "norm2", mid))
  BY <1>0, LayerValues DEF Expert
<1>2. After("POSTATTN") /\ ~Before("POSTATTN")
  BY DEF After, Before
<1>3. Entering("POSTATTN", hidden_states, residual) = Out(a, x)
  BY <1>1 DEF Entering
<1>4. \A q : Staged(l, "POSTATTN", a, q) = o
  BY DEF Staged
<1> HIDE DEF x, a, o, mid, e
<1>5. CASE class = "mixtral"
  <2>1. RMSNorm(l, "norm2", o, x) = Out(Norm(l, "norm2", mid), mid)
    BY <1>1 DEF RMSNorm, LayerNormWithResidual
  <2>2. MixtralDecoderLayer(l, "POSTATTN", a, x) = Out(e, mid)
    BY <1>1, <1>2, <1>4, <2>1 DEF MixtralDecoderLayer, MixtralAttention, Out
  <2>3. Leaves(MixtralForCausalLMOff(l, "POSTATTN", hidden_states, residual), l, input_ids)
    BY <1>2, <1>3, <1>5, <2>2, MixtralLeaves DEF e, mid
  <2> QED BY <1>5, <2>3 DEF forward_post_attn, model_forward
<1>6. CASE class = "phi"
  <2>1. LayerNormWithResidual(l, "norm2", o, x) = Out(Norm(l, "norm2", mid), mid)
    BY <1>1 DEF LayerNormWithResidual
  <2>2. PhiDecoderLayer(l, "POSTATTN", a, x) = Out(e, mid)
    BY <1>1, <1>2, <1>4, <2>1 DEF PhiDecoderLayer, PhiAttention, Out
  <2>3. Leaves(PhiMoEForCausalLMOff(l, "POSTATTN", hidden_states, residual), l, input_ids)
    BY <1>2, <1>3, <1>6, <2>2, PhiLeaves DEF e, mid
  <2> QED BY <1>6, <2>3 DEF forward_post_attn, model_forward
<1>7. CASE class = "dbrx"
  <2>1. DbrxFusedNormAttention(l, "POSTATTN", a, x) = Out(Norm(l, "norm2", mid), mid)
    BY <1>1, <1>2, <1>4 DEF DbrxFusedNormAttention, DbrxAttention, Out
  <2>2. DbrxBlock(l, "POSTATTN", a, x) = Out(Incoming(l + 1, input_ids), None)
    BY <1>1, <1>2, <2>1 DEF DbrxBlock, Out
  <2>3. Leaves(DbrxForCausalLMOff(l, "POSTATTN", hidden_states, residual), l, input_ids)
    BY <1>2, <1>3, <1>7, <2>2, DbrxLeaves DEF x
  <2> QED BY <1>7, <2>3 DEF forward_post_attn, model_forward
<1> QED BY <1>5, <1>6, <1>7 DEF Ready, Models

\* A whole layer of the prompt.
LEMMA Prefilled ==
  ASSUME Ready, Carried(layer, input_ids), input_ids = 0
  PROVE  Leaves(forward_prefill, layer, input_ids)
<1> DEFINE l == layer
           x == Incoming(l, input_ids)
           k == QKV(class, l, Norm(l, "norm1", x), input_ids)
           a == Attention(l, input_ids)
           o == OProj(l, a)
           mid == Mid(l, input_ids)
           e == Expert(l, input_ids)
           h == EnteredHidden
           r == EnteredResidual
<1>0. l \in Nat /\ input_ids \in Nat /\ positions = input_ids
  BY ForwardAssumption DEF Ready
<1>1. /\ x # None /\ Plus(x, o) = mid /\ Plus(o, x) = mid
      /\ Plus(e, mid) = Incoming(l + 1, input_ids) /\ e = MoE(l, Norm(l, "norm2", mid))
  BY <1>0, LayerValues DEF Expert
<1>2. After("ALL") /\ Before("ALL")
  BY DEF After, Before
<1>3. /\ Entering("ALL", hidden_states, residual) = Out(h, r) /\ h # None
      /\ class # "dbrx" => (IF r = None THEN h ELSE Plus(h, r)) = x
      /\ class = "dbrx" => h = x
  BY <1>2, Entered
<1>4. a = prefill_forward(l, k)
  <2>1. KeyOf(l, input_ids) = k
    BY <1>0, LayerValues
  <2>2. {<<u, KeyOf(l, u)>> : u \in 0 .. input_ids} = {<<0, k>>}
    <3>1. \A u \in 0 .. input_ids : u = input_ids
      OBVIOUS
    <3>2. input_ids \in 0 .. input_ids
      OBVIOUS
    <3> HIDE DEF k
    <3> QED BY <2>1, <3>1, <3>2
  <2> QED BY <2>1, <2>2 DEF Attention, prefill_forward
<1>5. \A y : Staged(l, "ALL", y, k) = o
  BY <1>4 DEF Staged
<1> HIDE DEF x, a, o, mid, e, h, r
<1>6. CASE class = "mixtral"
  <2>1. RMSNorm(l, "norm1", h, r) = Out(Norm(l, "norm1", x), x)
    BY <1>3, <1>6 DEF RMSNorm, LayerNormWithResidual
  <2>2. MixtralAttention(l, "ALL", Norm(l, "norm1", x)) = o
    BY <1>0, <1>5, <1>6 DEF MixtralAttention
  <2>3. RMSNorm(l, "norm2", o, x) = Out(Norm(l, "norm2", mid), mid)
    BY <1>1 DEF RMSNorm, LayerNormWithResidual
  <2>4. MixtralDecoderLayer(l, "ALL", h, r) = Out(e, mid)
    BY <1>1, <1>2, <2>1, <2>2, <2>3 DEF MixtralDecoderLayer, Out
  <2>5. Leaves(MixtralForCausalLMOff(l, "ALL", hidden_states, residual), l, input_ids)
    BY <1>2, <1>3, <1>6, <2>4, MixtralLeaves DEF e, mid
  <2> QED BY <1>6, <2>5 DEF forward_prefill, model_forward
<1>7. CASE class = "phi"
  <2>1. LayerNormWithResidual(l, "norm1", h, r) = Out(Norm(l, "norm1", x), x)
    BY <1>3, <1>7 DEF LayerNormWithResidual
  <2>2. PhiAttention(l, "ALL", Norm(l, "norm1", x)) = o
    BY <1>0, <1>5, <1>7 DEF PhiAttention
  <2>3. LayerNormWithResidual(l, "norm2", o, x) = Out(Norm(l, "norm2", mid), mid)
    BY <1>1 DEF LayerNormWithResidual
  <2>4. PhiDecoderLayer(l, "ALL", h, r) = Out(e, mid)
    BY <1>1, <1>2, <1>3, <2>1, <2>2, <2>3 DEF PhiDecoderLayer, Out
  <2>5. Leaves(PhiMoEForCausalLMOff(l, "ALL", hidden_states, residual), l, input_ids)
    BY <1>2, <1>3, <1>7, <2>4, PhiLeaves DEF e, mid
  <2> QED BY <1>7, <2>5 DEF forward_prefill, model_forward
<1>8. CASE class = "dbrx"
  <2>1. DbrxAttention(l, "ALL", Norm(l, "norm1", x)) = o
    BY <1>0, <1>5, <1>8 DEF DbrxAttention
  <2>2. \A r2 : DbrxFusedNormAttention(l, "ALL", h, r2) = Out(Norm(l, "norm2", mid), mid)
    BY <1>1, <1>2, <1>3, <1>8, <2>1 DEF DbrxFusedNormAttention, Out
  <2>3. DbrxBlock(l, "ALL", h, residual) = Out(Incoming(l + 1, input_ids), None)
    BY <1>1, <1>2, <2>2 DEF DbrxBlock, Out
  <2>4. Leaves(DbrxForCausalLMOff(l, "ALL", hidden_states, residual), l, input_ids)
    BY <1>2, <1>3, <1>8, <2>3, DbrxLeaves
  <2> QED BY <1>8, <2>4 DEF forward_prefill, model_forward
<1> QED BY <1>6, <1>7, <1>8 DEF Ready, Models

-----------------------------------------------------------------------------
(* The invariant of the calls *)

Stages == {"prefill", "prepare_for_decode", "pre_attention", "offload_qkv", "cpu_attention",
           "load_hidden", "post_attention"}

PlaceInv ==
  /\ class \in Models /\ layer \in 0 .. Layers - 1 /\ stage \in Stages
  /\ input_ids \in 0 .. DecodeSteps
  /\ seq_lens = input_ids + 1 /\ decode_out_cache_loc = input_ids
  /\ stage = "prefill" => input_ids = 0
  /\ stage = "prepare_for_decode" => layer = 0

\* The rows whose keys and values of layer l are stored.
RowsStored(l) ==
  IF \/ l < layer \/ stage = "prepare_for_decode"
     \/ l = layer /\ stage \in {"load_hidden", "post_attention"}
    THEN 0 .. input_ids ELSE 0 .. input_ids - 1

PoolInv ==
  /\ kv = [l \in 0 .. Layers - 1 |-> [row \in Rows |-> kv[l][row]]]
  /\ \A l \in 0 .. Layers - 1 : \A row \in RowsStored(l) : kv[l][row] = KeyOf(l, row)

\* Where the result of the last call is, and the residual that waits for the
\* attention.
HandedOnInv ==
  /\ stage \in {"prefill", "prepare_for_decode", "pre_attention"} => Carried(layer, input_ids)
  /\ stage = "offload_qkv" => qkv = KeyOf(layer, input_ids)
  /\ stage = "cpu_attention" => qkv_pin = KeyOf(layer, input_ids)
  /\ stage = "load_hidden" => hidden_pin = Attention(layer, input_ids)
  /\ stage = "post_attention" => hidden_states = Attention(layer, input_ids)
  /\ stage \in {"offload_qkv", "cpu_attention", "load_hidden", "post_attention"} =>
       residual = Incoming(layer, input_ids)

LogitsInv ==
  /\ logits \in Seq({Logit(t) : t \in 0 .. DecodeSteps})
  /\ Len(logits) = IF stage = "prepare_for_decode" THEN input_ids + 1 ELSE input_ids
  /\ \A t \in 0 .. Len(logits) - 1 : logits[t + 1] = Logit(t)

ForwardInv == PlaceInv /\ PoolInv /\ HandedOnInv /\ LogitsInv

LEMMA SameValues ==
  ASSUME class' = class
  PROVE  \A l \in Nat : \A t \in Nat :
           /\ Incoming(l, t)' = Incoming(l, t) /\ KeyOf(l, t)' = KeyOf(l, t)
           /\ Attention(l, t)' = Attention(l, t) /\ Logit(t)' = Logit(t)
           /\ CarriedHidden(l, t)' = CarriedHidden(l, t)
           /\ CarriedResidual(l, t)' = CarriedResidual(l, t)
<1>1. \A l \in Nat : Stream'[l] = Stream[l]
  BY StreamConstant
<1>2. ASSUME NEW l \in Nat, NEW t \in Nat PROVE Incoming(l, t)' = Incoming(l, t)
  BY <1>1 DEF Incoming
<1>3. ASSUME NEW l \in Nat, NEW t PROVE KeyOf(l, t)' = KeyOf(l, t)
  BY <1>1 DEF KeyOf, Key, QKV, Norm
<1>4. ASSUME NEW l \in Nat, NEW t \in Nat
      PROVE  {<<u, KeyOf(l, u)>> : u \in 0 .. t}' = {<<u, KeyOf(l, u)>> : u \in 0 .. t}
  BY <1>3
<1>5. ASSUME NEW l \in Nat, NEW t \in Nat PROVE Attention(l, t)' = Attention(l, t)
  BY <1>3, <1>4 DEF Attention, Attended
<1>6. ASSUME NEW l \in Nat, NEW t \in Nat PROVE Mid(l, t)' = Mid(l, t)
  <2>1. Mid(l, t) = Incoming(l, t) \union OProj(l, Attention(l, t))
    BY DEF Mid, WithAttention, Attention, KeyOf, Incoming
  <2>2. Mid(l, t)' = Incoming(l, t)' \union OProj(l, Attention(l, t)')
    BY DEF Mid, WithAttention, Attention, KeyOf, Incoming, OProj
  <2> QED BY <1>2, <1>5, <2>1, <2>2
<1>7. ASSUME NEW l \in Nat, NEW t \in Nat PROVE Expert(l, t)' = Expert(l, t)
  BY <1>6 DEF Expert, MoE, Norm
<1>8. ASSUME NEW t \in Nat PROVE Logit(t)' = Logit(t)
  BY <1>2, ForwardAssumption DEF Logit, LMHead, Norm
<1>9. ASSUME NEW l \in Nat, NEW t \in Nat
      PROVE  /\ CarriedHidden(l, t)' = CarriedHidden(l, t)
             /\ CarriedResidual(l, t)' = CarriedResidual(l, t)
  <2>1. CASE l = 0
    BY <2>1 DEF CarriedHidden, CarriedResidual, None
  <2>2. CASE l # 0
    <3>1. l - 1 \in Nat
      BY <2>2
    <3>2. Expert(l - 1, t)' = Expert(l - 1, t) /\ Mid(l - 1, t)' = Mid(l - 1, t)
      BY <1>6, <1>7, <3>1
    <3> QED BY <1>2, <2>2, <3>2 DEF CarriedHidden, CarriedResidual, None
  <2> QED BY <2>1, <2>2
<1> QED BY <1>2, <1>3, <1>5, <1>8, <1>9

LEMMA ForwardStarts ==
  ASSUME NEW model \in Models, ForwardInit(model)
  PROVE  ForwardInv
<1> USE ForwardAssumption DEF ForwardInit
<1>1. PlaceInv
  BY DEF PlaceInv, Stages
<1>2. PoolInv
  <2>1. \A l \in 0 .. Layers - 1 : RowsStored(l) = {}
    BY DEF RowsStored
  <2>2. kv = [l \in 0 .. Layers - 1 |-> [row \in Rows |-> kv[l][row]]]
    OBVIOUS
  <2> QED BY <2>1, <2>2 DEF PoolInv
<1>3. HandedOnInv
  BY DEF HandedOnInv, Carried, CarriedHidden, CarriedResidual
<1>4. LogitsInv
  <2>1. logits = <<>> /\ input_ids = 0 /\ stage = "prefill"
    OBVIOUS
  <2>2. <<>> \in Seq({Logit(t) : t \in 0 .. DecodeSteps}) /\ Len(<<>>) = 0
    OBVIOUS
  <2> QED BY <2>1, <2>2 DEF LogitsInv
<1> QED BY <1>1, <1>2, <1>3, <1>4 DEF ForwardInv

\* Every row that counts as stored was stored, or is stored by this step.
LEMMA PoolStep ==
  ASSUME PlaceInv, PoolInv, class' = class, input_ids' \in Nat,
         \/ /\ kv' = kv
            /\ \A l \in 0 .. Layers - 1 : RowsStored(l)' \subseteq RowsStored(l)
         \/ /\ kv' = [kv EXCEPT ![layer][input_ids] = KeyOf(layer, input_ids)]
            /\ \A l \in 0 .. Layers - 1 : \A row \in RowsStored(l)' :
                 row \in RowsStored(l) \/ (l = layer /\ row = input_ids)
  PROVE  PoolInv'
<1> USE ForwardAssumption
<1>1. layer \in 0 .. Layers - 1 /\ input_ids \in Rows /\ input_ids \in Nat
  BY DEF PlaceInv, Rows
<1>2. \A l \in 0 .. Layers - 1 : RowsStored(l) \subseteq Rows /\ RowsStored(l) \subseteq Nat
  BY DEF PlaceInv, RowsStored, Rows
<1>3. \A l \in 0 .. Layers - 1 : \A row \in Nat : KeyOf(l, row)' = KeyOf(l, row)
  BY SameValues
<1>4. CASE kv' = kv /\ \A l \in 0 .. Layers - 1 : RowsStored(l)' \subseteq RowsStored(l)
  <2>1. ASSUME NEW l \in 0 .. Layers - 1, NEW row \in RowsStored(l)'
        PROVE  kv'[l][row] = KeyOf(l, row)'
    <3>1. row \in Nat /\ kv[l][row] = KeyOf(l, row)
      BY <1>2, <1>4 DEF PoolInv
    <3> QED BY <1>3, <1>4, <3>1
  <2>2. kv' = [l \in 0 .. Layers - 1 |-> [row \in Rows |-> kv'[l][row]]]
    BY <1>4 DEF PoolInv
  <2> QED BY <2>1, <2>2 DEF PoolInv, Rows
<1>5. CASE /\ kv' = [kv EXCEPT ![layer][input_ids] = KeyOf(layer, input_ids)]
           /\ \A l \in 0 .. Layers - 1 : \A row \in RowsStored(l)' :
                row \in RowsStored(l) \/ (l = layer /\ row = input_ids)
  <2> DEFINE k == KeyOf(layer, input_ids)
  <2>0. kv = [l \in 0 .. Layers - 1 |-> [row \in Rows |-> kv[l][row]]]
    BY DEF PoolInv
  <2> HIDE DEF k
  <2>1. \A l \in 0 .. Layers - 1 : \A row \in Rows :
          kv'[l][row] = IF l = layer /\ row = input_ids THEN k ELSE kv[l][row]
    BY <1>1, <1>5, <2>0 DEF k
  <2>2. kv' = [l \in 0 .. Layers - 1 |-> [row \in Rows |-> kv'[l][row]]]
    BY <1>1, <1>5, <2>0 DEF k
  <2>3. ASSUME NEW l \in 0 .. Layers - 1, NEW row \in RowsStored(l)'
        PROVE  kv'[l][row] = KeyOf(l, row)'
    <3>1. CASE l = layer /\ row = input_ids
      BY <1>1, <1>3, <2>1, <3>1 DEF k
    <3>2. CASE ~(l = layer /\ row = input_ids)
      <4>1. row \in Nat /\ row \in Rows /\ kv[l][row] = KeyOf(l, row)
        BY <1>2, <1>5, <3>2 DEF PoolInv
      <4> QED BY <1>3, <2>1, <3>2, <4>1
    <3> QED BY <3>1, <3>2
  <2> QED BY <2>2, <2>3 DEF PoolInv, Rows
<1> QED BY <1>4, <1>5

LEMMA LogitsKept ==
  ASSUME PlaceInv, LogitsInv, class' = class, logits' = logits,
         stage' # "prepare_for_decode" /\ input_ids' = Len(logits)
  PROVE  LogitsInv'
<1>1. \A t \in 0 .. DecodeSteps : Logit(t)' = Logit(t)
  BY SameValues, ForwardAssumption
<1>2. {Logit(t) : t \in 0 .. DecodeSteps}' = {Logit(t) : t \in 0 .. DecodeSteps}
  BY <1>1
<1>3. Len(logits) \in Nat /\ Len(logits) <= DecodeSteps + 1
  BY ForwardAssumption DEF LogitsInv, PlaceInv
<1>4. \A t \in 0 .. Len(logits) - 1 : logits[t + 1] = Logit(t)'
  BY <1>1, <1>3, ForwardAssumption DEF LogitsInv
<1> QED BY <1>2, <1>4 DEF LogitsInv

LEMMA LayerDone ==
  ASSUME ForwardInv, NEW out, Leaves(out, layer, input_ids), NEW next, AfterLayer(out, next),
         \/ stage = "prefill" /\ next = "prefill"
         \/ stage = "post_attention" /\ next = "pre_attention",
         UNCHANGED <<class, tokens>>
  PROVE  PlaceInv' /\ HandedOnInv' /\ LogitsInv'
<1> USE ForwardAssumption
<1>0. PlaceInv /\ LogitsInv /\ class' = class
  BY DEF ForwardInv
<1>1. /\ layer \in Nat /\ layer <= Layers - 1 /\ input_ids \in Nat /\ input_ids <= DecodeSteps
      /\ input_ids' = input_ids /\ seq_lens' = seq_lens
      /\ decode_out_cache_loc' = decode_out_cache_loc
      /\ stage # "prepare_for_decode"
  BY <1>0 DEF PlaceInv, tokens
<1>2. CASE layer < Layers - 1
  <2>1. /\ hidden_states' = out.hidden /\ residual' = out.residual
        /\ layer' = layer + 1 /\ stage' = next /\ logits' = logits
    BY <1>2 DEF AfterLayer
  <2>2. PlaceInv'
    BY <1>0, <1>1, <1>2, <2>1 DEF PlaceInv, Stages
  <2>3. /\ hidden_states' = CarriedHidden(layer + 1, input_ids)
        /\ residual' = CarriedResidual(layer + 1, input_ids)
    BY <1>2, <2>1 DEF Leaves
  <2>4. /\ CarriedHidden(layer + 1, input_ids) = CarriedHidden(layer, input_ids)'
        /\ CarriedResidual(layer + 1, input_ids) = CarriedResidual(layer, input_ids)'
    <3>1. layer + 1 \in Nat
      BY <1>1
    <3>2. \A l \in Nat : \A t \in Nat : /\ CarriedHidden(l, t)' = CarriedHidden(l, t)
                                      /\ CarriedResidual(l, t)' = CarriedResidual(l, t)
      BY <1>0, SameValues
    <3> QED BY <1>1, <2>1, <3>1, <3>2
  <2>5. Carried(layer, input_ids)'
    BY <2>3, <2>4 DEF Carried
  <2>6. HandedOnInv'
    BY <2>1, <2>5 DEF HandedOnInv
  <2>7. Len(logits) = input_ids
    BY <1>0, <1>1 DEF LogitsInv
  <2>8. LogitsInv'
    BY <1>0, <1>1, <2>1, <2>7, LogitsKept
  <2> QED BY <2>2, <2>6, <2>8
<1>3. CASE layer = Layers - 1
  <2>0. ~(layer < Layers - 1)
    BY <1>1, <1>3
  <2>1. /\ logits' = Append(logits, out.hidden) /\ hidden_states' = None /\ residual' = None
        /\ layer' = 0 /\ stage' = "prepare_for_decode"
    BY <2>0 DEF AfterLayer, Kept
  <2>2. PlaceInv'
    BY <1>0, <1>1, <2>1 DEF PlaceInv, Stages
  <2>3. HandedOnInv'
    BY <2>1 DEF HandedOnInv, Carried, CarriedHidden, CarriedResidual, None
  <2>4. out.hidden = Logit(input_ids)
    BY <2>0 DEF Leaves
  <2> DEFINE T == {Logit(t) : t \in 0 .. DecodeSteps}
             g == Logit(input_ids)
  <2>5. \A t \in 0 .. DecodeSteps : Logit(t)' = Logit(t)
    BY <1>0, SameValues
  <2>6. T' = T /\ g \in T
    BY <1>1, <2>5
  <2>7. logits \in Seq(T) /\ Len(logits) = input_ids
        /\ \A t \in 0 .. input_ids - 1 : logits[t + 1] = Logit(t)
    BY <1>0, <1>1 DEF LogitsInv
  <2>8. /\ logits' \in Seq(T) /\ Len(logits') = input_ids + 1
        /\ \A i \in 1 .. input_ids : logits'[i] = logits[i]
        /\ logits'[input_ids + 1] = g
    <3> HIDE DEF T, g
    <3> QED BY <1>1, <2>1, <2>4, <2>6, <2>7 DEF g
  <2>9. ASSUME NEW t \in 0 .. input_ids PROVE logits'[t + 1] = Logit(t)'
    <3>1. CASE t = input_ids
      BY <1>1, <2>5, <2>8, <3>1
    <3>2. CASE t # input_ids
      <4>1. t + 1 \in 1 .. input_ids /\ t \in 0 .. input_ids - 1 /\ t \in 0 .. DecodeSteps
        BY <1>1, <3>2
      <4> QED BY <2>5, <2>7, <2>8, <4>1
    <3> QED BY <3>1, <3>2
  <2>10. (input_ids + 1) - 1 = input_ids
    BY <1>1
  <2>11. LogitsInv'
    <3>1. logits' \in Seq({Logit(t) : t \in 0 .. DecodeSteps}')
      BY <2>6, <2>8
    <3> HIDE DEF T, g
    <3> QED BY <1>1, <2>1, <2>8, <2>9, <2>10, <3>1 DEF LogitsInv
  <2> QED BY <2>2, <2>3, <2>11
<1> QED BY <1>1, <1>2, <1>3

LEMMA ForwardReady ==
  ASSUME PlaceInv
  PROVE  /\ Ready /\ layer \in Nat /\ layer <= Layers - 1 /\ layer \in 0 .. Layers - 1
         /\ input_ids \in Nat /\ input_ids <= DecodeSteps
         /\ seq_lens = input_ids + 1 /\ decode_out_cache_loc = input_ids
BY ForwardAssumption DEF PlaceInv, Ready, positions

\* The actions
LEMMA PrefillPreserves ==
  ASSUME ForwardInv, prefill
  PROVE  ForwardInv'
<1> USE ForwardAssumption
<1>0. /\ PlaceInv /\ PoolInv /\ HandedOnInv /\ stage = "prefill" /\ input_ids = 0
      /\ class' = class /\ UNCHANGED tokens
  BY DEF ForwardInv, prefill, PlaceInv
<1>1. Ready /\ layer \in 0 .. Layers - 1 /\ layer \in Nat /\ input_ids' = input_ids
  BY <1>0, ForwardReady DEF tokens
<1>2. Carried(layer, input_ids)
  BY <1>0 DEF HandedOnInv
<1>3. Leaves(forward_prefill, layer, input_ids)
  BY <1>0, <1>1, <1>2, Prefilled
<1>4. PlaceInv' /\ HandedOnInv' /\ LogitsInv'
  <2>1. AfterLayer(forward_prefill, "prefill")
    BY DEF prefill
  <2> HIDE DEF prefill
  <2> QED BY <1>0, <1>3, <2>1, LayerDone
<1>5. forward_pre_attn.hidden = KeyOf(layer, input_ids)
  BY <1>1, <1>2, Projected DEF Out
<1>6. kv' = [kv EXCEPT ![layer][input_ids] = KeyOf(layer, input_ids)]
  BY <1>0, <1>5 DEF prefill, store_kv_cache
<1>7. \/ layer < Layers - 1 /\ stage' = "prefill" /\ layer' = layer + 1
      \/ layer = Layers - 1 /\ stage' = "prepare_for_decode" /\ layer' = 0
  BY <1>1 DEF prefill, AfterLayer
<1>8. ASSUME NEW l \in 0 .. Layers - 1, NEW row \in RowsStored(l)'
      PROVE  row \in RowsStored(l) \/ (l = layer /\ row = input_ids)
  <2>1. row = 0 /\ l <= layer
    BY <1>0, <1>1, <1>7 DEF RowsStored
  <2>2. l < layer => row \in RowsStored(l)
    BY <1>0, <2>1 DEF RowsStored
  <2> QED BY <1>0, <1>1, <2>1, <2>2
<1>9. PoolInv'
  BY <1>0, <1>1, <1>6, <1>8, PoolStep
<1> QED BY <1>4, <1>9 DEF ForwardInv

LEMMA PreparePreserves ==
  ASSUME ForwardInv, prepare_for_decode
  PROVE  ForwardInv'
<1> USE ForwardAssumption
<1>0. /\ PlaceInv /\ PoolInv /\ HandedOnInv /\ LogitsInv /\ stage = "prepare_for_decode"
      /\ stage' = "pre_attention" /\ input_ids' = input_ids + 1 /\ input_ids < DecodeSteps
      /\ seq_lens' = seq_lens + 1 /\ decode_out_cache_loc' = decode_out_cache_loc + 1
      /\ UNCHANGED <<class, layer, hidden_states, residual, kv, logits>> /\ layer = 0
  BY DEF ForwardInv, prepare_for_decode, PlaceInv
<1>1. input_ids \in Nat /\ seq_lens = input_ids + 1 /\ decode_out_cache_loc = input_ids
  BY <1>0, ForwardReady
<1>2. PlaceInv'
  BY <1>0, <1>1 DEF PlaceInv, Stages
<1>3. HandedOnInv'
  BY <1>0 DEF HandedOnInv, Carried, CarriedHidden, CarriedResidual, None
<1>4. LogitsInv'
  <2>1. input_ids' = Len(logits)
    BY <1>0, <1>1 DEF LogitsInv
  <2> QED BY <1>0, <2>1, LogitsKept
<1>5. \A l \in 0 .. Layers - 1 : RowsStored(l)' \subseteq RowsStored(l)
  BY <1>0, <1>1 DEF RowsStored
<1>6. PoolInv'
  BY <1>0, <1>1, <1>5, PoolStep
<1> QED BY <1>2, <1>3, <1>4, <1>6 DEF ForwardInv

\* A call within a layer leaves the place, and the logits.
LEMMA CallWithin ==
  ASSUME ForwardInv, stage' \in Stages, UNCHANGED <<class, layer, tokens, logits>>,
         {stage, stage'} \subseteq {"pre_attention", "offload_qkv", "cpu_attention", "load_hidden",
                                   "post_attention"}
  PROVE  /\ PlaceInv' /\ LogitsInv'
         /\ KeyOf(layer, input_ids)' = KeyOf(layer, input_ids)
         /\ Attention(layer, input_ids)' = Attention(layer, input_ids)
         /\ Incoming(layer, input_ids)' = Incoming(layer, input_ids)
<1>0. PlaceInv /\ LogitsInv
  BY DEF ForwardInv
<1>1. layer \in Nat /\ input_ids \in Nat
  BY <1>0, ForwardReady
<1>2. PlaceInv'
  BY <1>0 DEF PlaceInv, tokens
<1>3. LogitsInv'
  <2>1. input_ids' = Len(logits)
    BY <1>0 DEF LogitsInv, tokens
  <2> QED BY <1>0, <2>1, LogitsKept
<1> QED BY <1>1, <1>2, <1>3, SameValues DEF tokens

LEMMA PreAttentionPreserves ==
  ASSUME ForwardInv, pre_attention
  PROVE  ForwardInv'
<1>0. /\ PlaceInv /\ PoolInv /\ HandedOnInv /\ stage = "pre_attention" /\ stage' = "offload_qkv"
      /\ class' = class /\ kv' = kv /\ layer' = layer /\ input_ids' = input_ids /\ Ready
      /\ input_ids \in Nat
  BY ForwardReady DEF ForwardInv, pre_attention, tokens
<1>1. PlaceInv' /\ LogitsInv' /\ KeyOf(layer, input_ids)' = KeyOf(layer, input_ids)
      /\ Incoming(layer, input_ids)' = Incoming(layer, input_ids)
  BY <1>0, CallWithin DEF pre_attention, Stages
<1>2. Carried(layer, input_ids)
  BY <1>0 DEF HandedOnInv
<1>3. qkv' = KeyOf(layer, input_ids) /\ residual' = Incoming(layer, input_ids)
  BY <1>0, <1>2, Projected DEF pre_attention, Out
<1>4. HandedOnInv'
  BY <1>0, <1>1, <1>3 DEF HandedOnInv
<1>5. PoolInv'
  <2>1. \A l \in 0 .. Layers - 1 : RowsStored(l)' \subseteq RowsStored(l)
    BY <1>0 DEF RowsStored
  <2> QED BY <1>0, <2>1, PoolStep
<1> QED BY <1>1, <1>4, <1>5 DEF ForwardInv

LEMMA OffloadPreserves ==
  ASSUME ForwardInv, offload_qkv
  PROVE  ForwardInv'
<1>0. /\ PlaceInv /\ PoolInv /\ HandedOnInv /\ stage = "offload_qkv" /\ stage' = "cpu_attention"
      /\ class' = class /\ kv' = kv /\ layer' = layer /\ input_ids' = input_ids
      /\ input_ids \in Nat
  BY ForwardReady DEF ForwardInv, offload_qkv, tokens
<1>1. PlaceInv' /\ LogitsInv' /\ KeyOf(layer, input_ids)' = KeyOf(layer, input_ids)
      /\ Incoming(layer, input_ids)' = Incoming(layer, input_ids)
  BY <1>0, CallWithin DEF offload_qkv, Stages
<1>2. HandedOnInv'
  BY <1>0, <1>1 DEF HandedOnInv, offload_qkv
<1>3. PoolInv'
  <2>1. \A l \in 0 .. Layers - 1 : RowsStored(l)' \subseteq RowsStored(l)
    BY <1>0 DEF RowsStored
  <2> QED BY <1>0, <2>1, PoolStep
<1> QED BY <1>1, <1>2, <1>3 DEF ForwardInv

LEMMA CpuAttentionPreserves ==
  ASSUME ForwardInv, cpu_attention
  PROVE  ForwardInv'
<1>0. /\ PlaceInv /\ PoolInv /\ HandedOnInv /\ stage = "cpu_attention" /\ stage' = "load_hidden"
      /\ class' = class /\ residual' = residual /\ layer' = layer /\ input_ids' = input_ids
      /\ decode_out_cache_loc = input_ids /\ seq_lens = input_ids + 1
      /\ layer \in 0 .. Layers - 1 /\ input_ids \in Nat /\ class \in Models
      /\ input_ids <= DecodeSteps
  BY ForwardReady DEF ForwardInv, cpu_attention, tokens, PlaceInv
<1>1. PlaceInv' /\ LogitsInv' /\ Attention(layer, input_ids)' = Attention(layer, input_ids)
      /\ Incoming(layer, input_ids)' = Incoming(layer, input_ids)
  BY <1>0, CallWithin DEF cpu_attention, Stages
<1>2. qkv_pin = KeyOf(layer, input_ids) /\ residual = Incoming(layer, input_ids)
  BY <1>0 DEF HandedOnInv
<1>3. kv' = [kv EXCEPT ![layer][input_ids] = KeyOf(layer, input_ids)]
  BY <1>0, <1>2 DEF cpu_attention, store_kv_cache_cpu
<1>4. cpu_decode_forward_cpp(layer) = Attention(layer, input_ids)
  <2> DEFINE store == store_kv_cache_cpu(layer, qkv_pin)
  <2>1. store = [kv EXCEPT ![layer][input_ids] = qkv_pin]
    BY <1>0 DEF store_kv_cache_cpu
  <2>2. kv = [l \in 0 .. Layers - 1 |-> [row \in Rows |-> kv[l][row]]]
    BY <1>0 DEF PoolInv
  <2>3. ASSUME NEW row \in 0 .. input_ids PROVE store[layer][row] = KeyOf(layer, row)
    <3>1. row \in Rows /\ input_ids \in Rows
      BY <1>0, ForwardAssumption DEF Rows
    <3>2. CASE row = input_ids
      BY <1>0, <1>2, <2>1, <2>2, <3>1, <3>2
    <3>3. CASE row # input_ids
      <4>1. row \in RowsStored(layer)
        BY <1>0, <3>3, ForwardAssumption DEF RowsStored
      <4>2. kv[layer][row] = KeyOf(layer, row)
        BY <1>0, <4>1 DEF PoolInv
      <4> QED BY <1>0, <2>1, <2>2, <3>1, <3>3, <4>2
    <3> QED BY <3>2, <3>3
  <2> HIDE DEF store
  <2>4. Pool(layer, store) = {<<u, KeyOf(layer, u)>> : u \in 0 .. input_ids}
    <3>1. seq_lens - 1 = input_ids
      BY <1>0
    <3> QED BY <2>3, <3>1 DEF Pool
  <2> QED BY <1>2, <2>4 DEF cpu_decode_forward_cpp, Attention, store
<1>5. hidden_pin' = Attention(layer, input_ids)
  BY <1>0, <1>4, HostAttention DEF cpu_attention
<1>6. HandedOnInv'
  BY <1>0, <1>1, <1>2, <1>5 DEF HandedOnInv
<1>7. PoolInv'
  <2>1. ASSUME NEW l \in 0 .. Layers - 1, NEW row \in RowsStored(l)'
        PROVE  row \in RowsStored(l) \/ (l = layer /\ row = input_ids)
    <3>1. CASE l < layer
      BY <1>0, <3>1 DEF RowsStored
    <3>2. CASE l = layer
      <4>1. row \in 0 .. input_ids
        BY <1>0, <3>2 DEF RowsStored
      <4> QED BY <1>0, <3>2, <4>1 DEF RowsStored
    <3>3. CASE l > layer
      BY <1>0, <3>3 DEF RowsStored
    <3> QED BY <1>0, <3>1, <3>2, <3>3
  <2> QED BY <1>0, <1>3, <2>1, PoolStep
<1> QED BY <1>1, <1>6, <1>7 DEF ForwardInv

LEMMA LoadHiddenPreserves ==
  ASSUME ForwardInv, load_hidden
  PROVE  ForwardInv'
<1>0. /\ PlaceInv /\ PoolInv /\ HandedOnInv /\ stage = "load_hidden" /\ stage' = "post_attention"
      /\ class' = class /\ kv' = kv /\ layer' = layer /\ input_ids' = input_ids
      /\ input_ids \in Nat
  BY ForwardReady DEF ForwardInv, load_hidden, tokens
<1>1. PlaceInv' /\ LogitsInv' /\ Attention(layer, input_ids)' = Attention(layer, input_ids)
      /\ Incoming(layer, input_ids)' = Incoming(layer, input_ids)
  BY <1>0, CallWithin DEF load_hidden, Stages
<1>2. HandedOnInv'
  BY <1>0, <1>1 DEF HandedOnInv, load_hidden
<1>3. PoolInv'
  <2>1. \A l \in 0 .. Layers - 1 : RowsStored(l)' \subseteq RowsStored(l)
    BY <1>0 DEF RowsStored
  <2> QED BY <1>0, <2>1, PoolStep
<1> QED BY <1>1, <1>2, <1>3 DEF ForwardInv

LEMMA PostAttentionPreserves ==
  ASSUME ForwardInv, post_attention
  PROVE  ForwardInv'
<1> USE ForwardAssumption
<1>0. /\ PlaceInv /\ PoolInv /\ HandedOnInv /\ stage = "post_attention"
      /\ class' = class /\ kv' = kv /\ input_ids' = input_ids /\ UNCHANGED tokens
      /\ layer \in Nat /\ layer <= Layers - 1 /\ input_ids \in Nat /\ Ready
  BY ForwardReady DEF ForwardInv, post_attention, tokens
<1>1. hidden_states = Attention(layer, input_ids) /\ residual = Incoming(layer, input_ids)
  BY <1>0 DEF HandedOnInv
<1>2. Leaves(forward_post_attn, layer, input_ids)
  BY <1>0, <1>1, Finished
<1>3. PlaceInv' /\ HandedOnInv' /\ LogitsInv'
  BY <1>0, <1>2, LayerDone DEF post_attention
<1>4. \/ layer < Layers - 1 /\ stage' = "pre_attention" /\ layer' = layer + 1
      \/ layer = Layers - 1 /\ stage' = "prepare_for_decode" /\ layer' = 0
  BY <1>0 DEF post_attention, AfterLayer
<1>5. \A l \in 0 .. Layers - 1 : RowsStored(l)' \subseteq RowsStored(l)
  BY <1>0, <1>4 DEF RowsStored
<1>6. PoolInv'
  BY <1>0, <1>5, PoolStep
<1> QED BY <1>3, <1>6 DEF ForwardInv

LEMMA ForwardStutters ==
  ASSUME ForwardInv, UNCHANGED forward_vars
  PROVE  ForwardInv'
<1>0. /\ PlaceInv /\ PoolInv /\ HandedOnInv /\ LogitsInv /\ class' = class /\ kv' = kv
      /\ stage' = stage /\ layer' = layer /\ input_ids' = input_ids
      /\ input_ids \in Nat /\ layer \in Nat
  BY ForwardReady DEF ForwardInv, forward_vars, tokens
<1>1. PlaceInv'
  BY <1>0 DEF PlaceInv, forward_vars, tokens
<1>2. PoolInv'
  <2>1. \A l \in 0 .. Layers - 1 : RowsStored(l)' \subseteq RowsStored(l)
    BY <1>0 DEF RowsStored
  <2> QED BY <1>0, <2>1, PoolStep
<1>3. HandedOnInv'
  BY <1>0, SameValues DEF HandedOnInv, Carried, forward_vars
<1>4. LogitsInv'
  <2>1. \A t \in 0 .. DecodeSteps : Logit(t)' = Logit(t)
    BY <1>0, SameValues, ForwardAssumption
  <2>2. {Logit(t) : t \in 0 .. DecodeSteps}' = {Logit(t) : t \in 0 .. DecodeSteps}
    BY <2>1
  <2>3. Len(logits) <= DecodeSteps + 1 /\ logits' = logits
    BY <1>0, ForwardAssumption DEF LogitsInv, PlaceInv, forward_vars
  <2>4. \A t \in 0 .. Len(logits) - 1 : logits[t + 1] = Logit(t)'
    BY <1>0, <2>1, <2>3, ForwardAssumption DEF LogitsInv
  <2> QED BY <1>0, <2>2, <2>3, <2>4 DEF LogitsInv
<1> QED BY <1>1, <1>2, <1>3, <1>4 DEF ForwardInv

LEMMA ForwardPreserves ==
  ASSUME ForwardInv, ForwardNext
  PROVE  ForwardInv'
BY PrefillPreserves, PreparePreserves, PreAttentionPreserves, OffloadPreserves,
   CpuAttentionPreserves, LoadHiddenPreserves, PostAttentionPreserves DEF ForwardNext

\* Every token's logits are the transformer's, for every class of model, number
\* of layers and of decoded tokens.
THEOREM LogitsExactAlways == Spec => []LogitsExact
<1>1. Init => ForwardInv
  BY ForwardStarts, ConfigAssumption DEF Init, LoadingInit
<1>2. ForwardInv /\ [Next]_vars => ForwardInv'
  BY ForwardPreserves, ForwardStutters DEF Next, Load, Forward, vars
<1>3. ForwardInv => LogitsExact
  BY DEF ForwardInv, LogitsInv, LogitsExact, Logit, Incoming
<1> QED BY <1>1, <1>2, <1>3, PTL DEF Spec

-----------------------------------------------------------------------------
(* Heads and sizes *)

LEMMA DivExact ==
  ASSUME NEW a \in Nat \ {0}, NEW b \in Nat \ {0}, a % b = 0
  PROVE  a \div b \in Nat \ {0} /\ a = (a \div b) * b
<1> DEFINE q == a \div b
<1>1. q \in Int /\ a = q * b + (a % b)
  BY DivParts
<1> HIDE DEF q
<1>2. a = q * b
  BY <1>1
<1>3. q >= 1
  <2>1. q <= 0 => q * b <= 0
    <3>1. \A m \in Int, n \in Nat : m <= 0 => m * n <= 0
      OBVIOUS
    <3> QED BY <1>1, <3>1
  <2> QED BY <1>1, <1>2, <2>1
<1> QED BY <1>1, <1>2, <1>3 DEF q

\* Equal multiples are multiples of equals.
LEMMA Cancel ==
  ASSUME NEW a \in Int, NEW b \in Int, NEW n \in Nat \ {0}, a * n = b * n
  PROVE  a = b
<1>1. n \in Nat /\ n >= 1 /\ 0 \in 0 .. n - 1 /\ a * n + 0 = b * n + 0
  OBVIOUS
<1>2. (a * n + 0) \div n = a /\ (b * n + 0) \div n = b
  BY <1>1, DivOfParts
<1> QED BY <1>1, <1>2

\* Below a multiple, what is left is below what it is a multiple of.
LEMMA DivBelow ==
  ASSUME NEW d \in Nat \ {0}, NEW k \in Nat, NEW h \in 0 .. k * d - 1
  PROVE  h \div d \in 0 .. k - 1
<1> DEFINE q == h \div d
           p == h % d
<1>0. k * d \in Int /\ h \in Int /\ h >= 0 /\ h < k * d
  <2>1. k * d \in Int
    OBVIOUS
  <2> QED BY <2>1
<1>1. q \in Int /\ p \in 0 .. d - 1 /\ h = q * d + p
  BY <1>0, DivParts
<1> HIDE DEF q, p
<1>2. q >= 0
  <2>1. q < 0 => q * d + p < 0 * d + 0
    BY <1>1, DivApart
  <2> QED BY <1>0, <1>1, <2>1
<1>3. q < k
  <2>1. k < q => k * d + 0 < q * d + p
    BY <1>1, DivApart
  <2>2. k = q => k * d <= q * d + p
    BY <1>1
  <2> DEFINE m == k * d
             n == q * d
  <2> HIDE DEF m, n
  <2>3. n \in Int /\ m \in Int
    BY <1>0, <1>1 DEF m, n
  <2>4. h < m /\ h = n + p /\ (k < q => m + 0 < n + p) /\ (k = q => m <= n + p)
    BY <1>0, <1>1, <2>1, <2>2 DEF m, n
  <2> QED BY <1>1, <2>3, <2>4
<1> QED BY <1>1, <1>2, <1>3 DEF q

\* A place in one of several equal parts is below their sum.
LEMMA PartBelow ==
  ASSUME NEW d \in Nat, NEW k \in Nat, NEW i \in 0 .. k - 1, NEW x \in 0 .. d - 1
  PROVE  i * d + x \in 0 .. k * d - 1
<1>1. i * d + x < k * d + 0
  BY DivApart
<1>2. i * d \in Nat /\ x \in Nat /\ k * d \in Nat
  OBVIOUS
<1> DEFINE m == i * d
           n == k * d
<1> HIDE DEF m, n
<1>3. m \in Nat /\ n \in Nat /\ m + x < n + 0
  BY <1>1, <1>2 DEF m, n
<1>4. m + x \in 0 .. n - 1
  BY <1>2, <1>3
<1> QED BY <1>4 DEF m, n

LEMMA DivByOne ==
  ASSUME NEW a \in Int
  PROVE  a \div 1 = a
<1>1. 1 \in Nat /\ 1 >= 1 /\ 0 \in 0 .. 1 - 1 /\ a * 1 + 0 = a
  OBVIOUS
<1>2. (a * 1 + 0) \div 1 = a
  BY <1>1, DivOfParts
<1> QED BY <1>1, <1>2

\* The sizes of a configuration, without its quotients.
LEMMA ConfigNumbers ==
  ASSUME config \in Configs
  PROVE  /\ config.model \in Models /\ config.experts \in Nat
         /\ config.tp_size \in Nat \ {0} /\ config.layers \in Nat \ {0}
         /\ config.heads \in Nat \ {0} /\ config.kv_heads \in Nat \ {0}
         /\ head_size \in Nat \ {0} /\ hidden_size \in Nat \ {0}
         /\ config.intermediate \in Nat \ {0}
         /\ config.heads % config.kv_heads = 0 /\ config.heads % config.tp_size = 0
         /\ config.intermediate % config.tp_size = 0
         /\ config.kv_heads >= config.tp_size => config.kv_heads % config.tp_size = 0
         /\ config.kv_heads < config.tp_size => config.tp_size % config.kv_heads = 0
<1>1. /\ config.model \in Models /\ config.experts \in Nat
      /\ {config.tp_size, config.layers, config.heads, config.kv_heads, config.head_size,
          config.hidden, config.intermediate} \subseteq Nat \ {0}
      /\ config.heads % config.kv_heads = 0 /\ config.intermediate % config.tp_size = 0
      /\ config.model = "mixtral" => MixtralHeads(config)
      /\ config.model = "phi" => PhiHeads(config)
      /\ config.model = "dbrx" => DbrxHeads(config)
  BY ConfigAssumption
<1>2. HeadsShared(config)
  BY <1>1 DEF Models, MixtralHeads, PhiHeads, DbrxHeads
<1>3. /\ config.tp_size \in Nat \ {0} /\ config.layers \in Nat \ {0}
      /\ config.heads \in Nat \ {0} /\ config.kv_heads \in Nat \ {0}
      /\ head_size \in Nat \ {0} /\ hidden_size \in Nat \ {0}
      /\ config.intermediate \in Nat \ {0}
  BY <1>1 DEF head_size, hidden_size
<1> QED BY <1>1, <1>2, <1>3 DEF HeadsShared

\* Local key heads, and what they are copies of.
LEMMA KeyHeads ==
  ASSUME config \in Configs
  PROVE  /\ num_heads \in Nat \ {0} /\ num_kv_heads \in Nat \ {0}
         /\ num_kv_head_replicas \in Nat \ {0}
         /\ config.heads = num_heads * config.tp_size
         /\ kv_heads = num_kv_heads /\ q_heads = num_heads
         /\ \/ /\ config.kv_heads >= config.tp_size /\ num_kv_head_replicas = 1
               /\ config.kv_heads = num_kv_heads * config.tp_size
            \/ /\ config.kv_heads < config.tp_size /\ num_kv_heads = 1
               /\ config.tp_size = num_kv_head_replicas * config.kv_heads
<1> DEFINE tp == config.tp_size
           kv_all == config.kv_heads
<1>1. /\ tp \in Nat \ {0} /\ kv_all \in Nat \ {0} /\ config.heads \in Nat \ {0}
      /\ config.heads % tp = 0 /\ (kv_all >= tp => kv_all % tp = 0)
      /\ (kv_all < tp => tp % kv_all = 0)
  BY ConfigNumbers
<1>2. num_heads \in Nat \ {0} /\ config.heads = num_heads * tp /\ q_heads = num_heads
  BY <1>1, DivExact DEF num_heads, q_heads
<1> DEFINE q == kv_all \div tp
           m == tp \div kv_all
<1>3. CASE kv_all >= tp
  <2>1. q \in Nat \ {0} /\ kv_all = q * tp
    BY <1>1, <1>3, DivExact
  <2>2. kv_heads = q
    <3>1. kv_heads = Max({1, q})
      BY DEF kv_heads
    <3> HIDE DEF q
    <3> QED BY <2>1, <3>1 DEF Max
  <2>3. CASE kv_all = tp
    <3>1. q = 1 /\ m = 1
      <4>1. kv_all * 1 + 0 = kv_all /\ 1 * kv_all + 0 = kv_all /\ 0 \in 0 .. kv_all - 1 /\ kv_all >= 1
            /\ kv_all \in Nat
        BY <1>1
      <4>2. (1 * kv_all + 0) \div kv_all = 1
        BY <4>1, DivOfParts
      <4> QED BY <2>3, <4>1, <4>2
    <3> QED BY <1>1, <1>2, <2>1, <2>2, <2>3, <3>1 DEF num_kv_heads, num_kv_head_replicas
  <2>4. CASE kv_all # tp
    <3>1. ~(tp >= kv_all)
      BY <1>1, <1>3, <2>4
    <3>2. num_kv_heads = q /\ num_kv_head_replicas = 1
      BY <3>1 DEF num_kv_heads, num_kv_head_replicas
    <3> QED BY <1>2, <1>3, <2>1, <2>2, <3>2
  <2> QED BY <2>3, <2>4
<1>4. CASE kv_all < tp
  <2>1. m \in Nat \ {0} /\ tp = m * kv_all
    BY <1>1, <1>4, DivExact
  <2>2. num_kv_heads = 1 /\ num_kv_head_replicas = m
    BY <1>1, <1>4 DEF num_kv_heads, num_kv_head_replicas
  <2>3. q = 0
    <3>1. 0 * tp + kv_all = kv_all /\ kv_all \in 0 .. tp - 1 /\ tp >= 1 /\ tp \in Nat
      BY <1>1, <1>4
    <3> QED BY <3>1, DivOfParts
  <2>4. kv_heads = 1
    <3>1. kv_heads = Max({1, 0})
      BY <2>3 DEF kv_heads
    <3> QED BY <3>1 DEF Max
  <2> QED BY <1>2, <1>4, <2>1, <2>2, <2>4
<1> QED BY <1>1, <1>3, <1>4

\* The key head that a rank's query head attends with is the one it belongs to.
LEMMA GroupsMeet ==
  ASSUME config \in Configs, NEW r \in Ranks, NEW h \in 0 .. num_heads - 1,
         NEW id \in {"k", "v"}
  PROVE  /\ LocalKVHead(h) \in 0 .. num_kv_heads - 1 /\ shard_id(r, id) \in Nat
         /\ shard_id(r, id) * num_kv_heads + LocalKVHead(h)
              = (r * num_heads + h) \div (config.heads \div config.kv_heads)
<1> DEFINE tp == config.tp_size
           kv_all == config.kv_heads
           n == num_heads
           k == num_kv_heads
           m == num_kv_head_replicas
           g == config.heads \div kv_all
<1>1. /\ tp \in Nat \ {0} /\ kv_all \in Nat \ {0} /\ config.heads \in Nat \ {0}
      /\ config.heads % kv_all = 0 /\ r \in Nat
  BY ConfigNumbers DEF Ranks
<1>2. g \in Nat \ {0} /\ config.heads = g * kv_all
  BY <1>1, DivExact
<1>3. /\ n \in Nat \ {0} /\ k \in Nat \ {0} /\ m \in Nat \ {0} /\ config.heads = n * tp
      /\ \/ m = 1 /\ kv_all = k * tp
         \/ k = 1 /\ tp = m * kv_all
  BY KeyHeads
<1>4. /\ LocalKVHead(h) = h \div (n \div k)
      /\ shard_id(r, id) = r \div m
  BY KeyHeads DEF LocalKVHead, shard_id
<1> HIDE DEF tp, kv_all, n, k, m, g
<1>5. h \in 0 .. n - 1
  BY DEF n
<1>6. CASE m = 1 /\ kv_all = k * tp
  <2>1. n = g * k
    <3>1. n * tp = (g * k) * tp
      BY <1>1, <1>2, <1>3, <1>6
    <3>2. g * k \in Int /\ n \in Int
      BY <1>2, <1>3
    <3> QED BY <1>1, <3>1, <3>2, Cancel
  <2>2. n \div k = g
    <3>1. g * k + 0 = n /\ 0 \in 0 .. k - 1 /\ k >= 1 /\ g \in Int
      BY <1>2, <1>3, <2>1
    <3> QED BY <1>3, <3>1, DivOfParts
  <2>3. shard_id(r, id) = r
    BY <1>1, <1>4, <1>6, DivByOne
  <2>4. h \div g \in 0 .. k - 1
    <3>1. h \in 0 .. k * g - 1
      BY <1>2, <1>3, <1>5, <2>1
    <3> QED BY <1>2, <1>3, <3>1, DivBelow
  <2>5. (r * n + h) \div g = r * k + h \div g
    <3> DEFINE q == h \div g
               p == h % g
    <3>1. q \in Int /\ p \in 0 .. g - 1 /\ h = q * g + p
      <4>1. h \in Int /\ g \in Nat /\ g >= 1
        BY <1>2, <1>3, <1>5
      <4> QED BY <4>1, DivParts
    <3> HIDE DEF q, p
    <3>2. r * n + h = (r * k + q) * g + p
      BY <1>1, <1>2, <1>3, <2>1, <3>1
    <3>3. r * k + q \in Int /\ g >= 1
      BY <1>1, <1>2, <1>3, <3>1
    <3>4. ((r * k + q) * g + p) \div g = r * k + q
      BY <1>2, <3>1, <3>3, DivOfParts
    <3> QED BY <3>2, <3>4 DEF q
  <2> QED BY <1>1, <1>4, <2>2, <2>3, <2>4, <2>5 DEF g, n, k, kv_all
<1>7. CASE k = 1 /\ tp = m * kv_all
  <2>1. g = n * m
    <3>1. g * kv_all = (n * m) * kv_all
      BY <1>1, <1>2, <1>3, <1>7
    <3>2. n * m \in Int /\ g \in Int
      BY <1>2, <1>3
    <3> QED BY <1>1, <3>1, <3>2, Cancel
  <2>2. LocalKVHead(h) = 0
    <3>1. n \div k = n
      BY <1>3, <1>7, DivByOne
    <3>2. 0 * n + h = h /\ n >= 1 /\ n \in Nat
      BY <1>3, <1>5
    <3>3. (0 * n + h) \div n = 0
      BY <1>5, <3>2, DivOfParts
    <3> QED BY <1>4, <3>1, <3>2, <3>3
  <2> DEFINE q == r \div m
             p == r % m
  <2>3. q \in Int /\ p \in 0 .. m - 1 /\ r = q * m + p
    BY <1>1, <1>3, DivParts
  <2>4. q \in Nat
    <3> HIDE DEF q, p
    <3>1. q < 0 => q * m + p < 0 * m + 0
      BY <1>3, <2>3, DivApart
    <3> QED BY <1>1, <1>3, <2>3, <3>1
  <2>5. (r * n + h) \div g = q
    <3> HIDE DEF q, p
    <3>1. p * n + h \in 0 .. m * n - 1
      BY <1>3, <1>5, <2>3, PartBelow
    <3>2. p * n + h \in 0 .. g - 1 /\ g \in Nat /\ g >= 1
      BY <1>2, <1>3, <2>1, <3>1
    <3>3. r * n + h = q * g + (p * n + h)
      BY <1>3, <1>5, <2>1, <2>3
    <3>4. (q * g + (p * n + h)) \div g = q
      BY <2>3, <3>2, DivOfParts
    <3> QED BY <3>3, <3>4
  <2>6. shard_id(r, id) = q
    BY <1>4
  <2> HIDE DEF q
  <2>7. shard_id(r, id) * k + LocalKVHead(h) = q
    BY <1>7, <2>2, <2>4, <2>6
  <2> QED BY <1>7, <2>2, <2>4, <2>5, <2>6, <2>7 DEF g, n, k, kv_all
<1> QED BY <1>3, <1>6, <1>7

LEMMA Sizes ==
  ASSUME config \in Configs
  PROVE  /\ intermediate_size \in Nat \ {0} /\ w3_offset \in Nat
         /\ w2_offset = w3_offset + w3_offset
         /\ RowSize = num_heads * head_size
         /\ ColumnSize("q") = num_heads * head_size
         /\ config.model = "phi" /\ WholeHeads =>
              /\ ColumnSize("k") = num_kv_heads * head_size
              /\ ColumnSize("v") = num_kv_heads * head_size
<1> DEFINE tp == config.tp_size
           d == head_size
           n == num_heads
           k == num_kv_heads
           i == intermediate_size
<1>1. /\ tp \in Nat \ {0} /\ d \in Nat \ {0} /\ hidden_size \in Nat \ {0}
      /\ config.intermediate \in Nat \ {0} /\ config.intermediate % tp = 0
      /\ n \in Nat \ {0} /\ k \in Nat \ {0} /\ config.heads = n * tp
      /\ config.kv_heads \in Nat \ {0}
  BY ConfigNumbers, KeyHeads
<1>2. i \in Nat \ {0}
  BY <1>1, DivExact DEF intermediate_size
<1>3. w3_offset \in Nat /\ w2_offset = w3_offset + w3_offset
  <2>1. \A a \in Nat, b \in Nat : a * b \in Nat /\ (2 * a) * b = a * b + a * b
    OBVIOUS
  <2>2. hidden_size \in Nat /\ i \in Nat
    BY <1>1, <1>2
  <2> HIDE DEF i
  <2>3. w3_offset = i * hidden_size /\ w2_offset = (2 * i) * hidden_size
    BY DEF w3_offset, w2_offset, i
  <2> QED BY <2>1, <2>2, <2>3
<1>4. ASSUME NEW m \in Nat PROVE ((m * tp) * d) \div tp = m * d
  <2> HIDE DEF tp, d
  <2>1. (m * tp) * d = (m * d) * tp + 0
    BY <1>1
  <2>2. m * d \in Int /\ 0 \in 0 .. tp - 1 /\ tp >= 1 /\ tp \in Nat
    BY <1>1
  <2>3. ((m * d) * tp + 0) \div tp = m * d
    BY <2>2, DivOfParts
  <2> QED BY <2>1, <2>3
<1>5. RowSize = n * d
  BY <1>1, <1>4 DEF RowSize
<1>6. ColumnSize("q") = n * d
  <2>1. ColumnSize("q") = (config.heads * d) \div tp
    BY DEF ColumnSize
  <2> HIDE DEF n, tp, d
  <2> QED BY <1>1, <1>4, <2>1
<1>7. ASSUME config.model = "phi", WholeHeads
      PROVE  ColumnSize("k") = k * d /\ ColumnSize("v") = k * d
  <2>1. config.kv_heads >= tp
    BY <1>7 DEF WholeHeads
  <2>2. config.kv_heads = k * tp
    BY <1>1, <2>1, KeyHeads
  <2>3. ColumnSize("k") = (config.kv_heads * d) \div tp /\ ColumnSize("v") = (config.kv_heads * d) \div tp
    BY DEF ColumnSize
  <2> HIDE DEF k, tp, d
  <2> QED BY <1>1, <1>4, <2>2, <2>3
<1> QED BY <1>2, <1>3, <1>5, <1>6, <1>7

\* The tensors of a checkpoint.
Tensors(c) ==
  ((IF c.model = "dbrx" THEN {"gate", "Wqkv", "o"} \union Experts ELSE {"gate", "q", "k", "v", "o"})
     \X LayersOf(c) \X {0})
  \union (IF c.model = "dbrx" THEN {} ELSE Experts \X LayersOf(c) \X ExpertsOf(c))

-----------------------------------------------------------------------------
(* What each place of a rank's parameters is to hold *)

\* The part of the packed projections that place x is in.
PartAt(x) ==
  IF x < shard_offset("k") THEN "q" ELSE IF x < shard_offset("v") THEN "k" ELSE "v"

\* The matrix of a page that place x is in, and how it is laid out there.
MatrixAt(x) == IF x < w3_offset THEN "w1" ELSE IF x < w2_offset THEN "w3" ELSE "w2"

LaidOut(name) ==
  CASE name = "w1" -> RowMajor(0)
    [] name = "w3" -> RowMajor(w3_offset)
    [] name = "w2" -> ColumnMajor(w2_offset)

ElementAt(r, place) ==
  LET name == place[1]
      l == place[2]
      x == place[4]
  IN  CASE name = "gate" -> <<"gate", l, 0, 0, 0>>
        [] name = "o" -> <<"o", l, 0, 0, r * RowSize + x>>
        [] name \in {"q", "k", "v"} -> <<name, l, 0, r * ColumnSize(name) + x, 0>>
        [] name = "qkv" ->
             <<PartAt(x), l, 0,
               shard_id(r, PartAt(x)) * shard_size(PartAt(x)) + x - shard_offset(PartAt(x)), 0>>
        [] name = "ws" ->
             LET xy == LaidOut(MatrixAt(x))[x]
             IN  <<MatrixAt(x), l, place[3], r * intermediate_size + xy[1], xy[2]>>

LEMMA Shards ==
  ASSUME config \in Configs
  PROVE  /\ shard_offset("q") = 0 /\ shard_offset("k") = num_heads * head_size
         /\ shard_offset("v") = num_heads * head_size + num_kv_heads * head_size
         /\ shard_size("q") = num_heads * head_size
         /\ shard_size("k") = num_kv_heads * head_size
         /\ shard_size("v") = num_kv_heads * head_size
         /\ num_heads * head_size \in Nat /\ num_kv_heads * head_size \in Nat
<1> DEFINE n == num_heads
           k == num_kv_heads
           d == head_size
<1>1. n \in Nat /\ k \in Nat /\ d \in Nat
  BY KeyHeads, ConfigNumbers
<1>2. /\ shard_offset("q") = 0 /\ shard_offset("k") = n * d
      /\ shard_offset("v") = (n + k) * d
      /\ shard_size("q") = d * n /\ shard_size("k") = d * k /\ shard_size("v") = d * k
  BY DEF shard_offset, shard_size
<1> HIDE DEF n, k, d
<1>3. (n + k) * d = n * d + k * d /\ d * n = n * d /\ d * k = k * d /\ n * d \in Nat /\ k * d \in Nat
  BY <1>1
<1> QED BY <1>2, <1>3 DEF n, k, d

LEMMA PartFound ==
  ASSUME config \in Configs, NEW id \in {"q", "k", "v"}, NEW x \in 0 .. shard_size(id) - 1
  PROVE  PartAt(shard_offset(id) + x) = id /\ shard_offset(id) + x \in Nat
<1> DEFINE a == num_heads * head_size
           b == num_kv_heads * head_size
<1>1. /\ shard_offset("q") = 0 /\ shard_offset("k") = a /\ shard_offset("v") = a + b
      /\ shard_size("q") = a /\ shard_size("k") = b /\ shard_size("v") = b
      /\ a \in Nat /\ b \in Nat
  BY Shards
<1> HIDE DEF a, b
<1>2. CASE id = "q"
  BY <1>1, <1>2 DEF PartAt
<1>3. CASE id = "k"
  BY <1>1, <1>3 DEF PartAt
<1>4. CASE id = "v"
  BY <1>1, <1>4 DEF PartAt
<1> QED BY <1>2, <1>3, <1>4

LEMMA MatrixFound ==
  ASSUME config \in Configs, NEW name \in Experts, NEW x \in DOMAIN LaidOut(name)
  PROVE  MatrixAt(x) = name /\ x \in Nat
<1>1. w3_offset \in Nat /\ w2_offset = w3_offset + w3_offset
  BY Sizes
<1>2. CASE name = "w1"
  <2>1. x \in 0 .. 0 + w3_offset - 1
    BY <1>2 DEF LaidOut, RowMajor
  <2> QED BY <1>1, <1>2, <2>1 DEF MatrixAt
<1>3. CASE name = "w3"
  <2>1. x \in w3_offset .. w3_offset + w3_offset - 1
    BY <1>3 DEF LaidOut, RowMajor
  <2> QED BY <1>1, <1>3, <2>1 DEF MatrixAt
<1>4. CASE name = "w2"
  <2>1. x \in w2_offset .. w2_offset + w3_offset - 1
    BY <1>4 DEF LaidOut, ColumnMajor
  <2> QED BY <1>1, <1>4, <2>1 DEF MatrixAt
<1> QED BY <1>2, <1>3, <1>4 DEF Experts

\* Shard by shard
LEMMA QKVShardHolds ==
  ASSUME config \in Configs, NEW r \in Ranks, NEW id \in {"q", "k", "v"}, NEW t, t[1] = id,
         NEW place \in DOMAIN QKVShard(r, t, 0)
  PROVE  QKVShard(r, t, 0)[place] = ElementAt(r, place)
<1> DEFINE off == shard_offset(id)
           size == shard_size(id)
           at == shard_id(r, id) * size
<1>1. QKVShard(r, t, 0) =
        [p \in {<<"qkv", t[2], 0, off + x>> : x \in 0 .. size - 1} |->
           <<id, t[2], 0, 0 + at + p[4] - off, 0>>]
  BY DEF QKVShard
<1>2. PICK x \in 0 .. size - 1 : place = <<"qkv", t[2], 0, off + x>>
  BY <1>1
<1>3. place[1] = "qkv" /\ place[2] = t[2] /\ place[4] = off + x
  BY <1>2
<1>4. PartAt(off + x) = id
  BY PartFound
<1>5. QKVShard(r, t, 0)[place] = <<id, t[2], 0, 0 + at + (off + x) - off, 0>>
  BY <1>1, <1>2, <1>3
<1>6. ElementAt(r, place) = <<id, t[2], 0, at + (off + x) - off, 0>>
  BY <1>3, <1>4 DEF ElementAt
<1>7. 0 + at = at
  <2>1. shard_id(r, id) \in Int /\ size \in Int
    <3>1. r \in Nat /\ num_kv_head_replicas \in Nat \ {0}
      BY KeyHeads, ConfigNumbers DEF Ranks
    <3>2. shard_id(r, id) \in Int
      BY <3>1 DEF shard_id
    <3> QED BY <3>2, Shards
  <2> HIDE DEF size
  <2> QED BY <2>1
<1> QED BY <1>5, <1>6, <1>7

LEMMA PageHolds ==
  ASSUME config \in Configs, NEW r \in Ranks, NEW name \in Experts, NEW l, NEW e,
         NEW place \in DOMAIN Page(r, name, l, e)
  PROVE  Page(r, name, l, e)[place] = ElementAt(r, place) /\ place[3] = e
<1>1. Page(r, name, l, e) =
        [p \in {<<"ws", l, e, x>> : x \in DOMAIN LaidOut(name)} |->
           <<name, l, e, r * intermediate_size + LaidOut(name)[p[4]][1], LaidOut(name)[p[4]][2]>>]
  BY DEF Page, LaidOut
<1>2. PICK x \in DOMAIN LaidOut(name) : place = <<"ws", l, e, x>>
  BY <1>1
<1>3. place[1] = "ws" /\ place[2] = l /\ place[3] = e /\ place[4] = x
  BY <1>2
<1>4. MatrixAt(x) = name
  BY MatrixFound
<1>5. ElementAt(r, place) =
        <<name, l, e, r * intermediate_size + LaidOut(name)[x][1], LaidOut(name)[x][2]>>
  BY <1>3, <1>4 DEF ElementAt
<1> QED BY <1>1, <1>2, <1>3, <1>5

LEMMA PackedHolds ==
  ASSUME config \in Configs, NEW r \in Ranks, NEW l
  PROVE  /\ \A place \in DOMAIN PackedQKV(r, l) : PackedQKV(r, l)[place] = ElementAt(r, place)
         /\ \A id \in {"q", "k", "v"} : DOMAIN QKVShard(r, <<id, l>>, 0) \subseteq DOMAIN PackedQKV(r, l)
<1> DEFINE q == QKVShard(r, <<"q", l>>, 0)
           k == QKVShard(r, <<"k", l>>, 0)
           v == QKVShard(r, <<"v", l>>, 0)
           Right(f) == \A place \in DOMAIN f : f[place] = ElementAt(r, place)
<1>1. Right(q) /\ Right(k) /\ Right(v)
  <2>1. ASSUME NEW id \in {"q", "k", "v"} PROVE Right(QKVShard(r, <<id, l>>, 0))
    <3>1. <<id, l>>[1] = id
      OBVIOUS
    <3> QED BY <3>1, QKVShardHolds
  <2> QED BY <2>1
<1>2. PackedQKV(r, l) = CopiedTo(CopiedTo(q, k), v)
  BY DEF PackedQKV
<1> HIDE DEF q, k, v
<1>3. ASSUME NEW f, NEW g, Right(f), Right(g)
      PROVE  Right(CopiedTo(f, g)) /\ DOMAIN CopiedTo(f, g) = DOMAIN f \union DOMAIN g
  BY <1>3 DEF CopiedTo
<1> HIDE DEF Right
<1>4. Right(CopiedTo(q, k)) /\ DOMAIN CopiedTo(q, k) = DOMAIN q \union DOMAIN k
  BY <1>1, <1>3
<1>5. Right(PackedQKV(r, l)) /\ DOMAIN PackedQKV(r, l) = DOMAIN q \union DOMAIN k \union DOMAIN v
  BY <1>1, <1>2, <1>3, <1>4
<1> QED BY <1>5 DEF q, k, v, Right

LEMMA AllPagesHold ==
  ASSUME config \in Configs, NEW r \in Ranks, NEW t, t[1] \in Experts,
         NEW place \in DOMAIN DbrxExperts_weight_loader(r, t)
  PROVE  DbrxExperts_weight_loader(r, t)[place] = ElementAt(r, place)
<1>1. DOMAIN DbrxExperts_weight_loader(r, t)
        = UNION {DOMAIN Page(r, t[1], t[2], e) : e \in ExpertsOf(config)}
  BY DEF DbrxExperts_weight_loader
<1>2. PICK e \in ExpertsOf(config) : place \in DOMAIN Page(r, t[1], t[2], e)
  BY <1>1
<1>3. place[3] = e /\ Page(r, t[1], t[2], e)[place] = ElementAt(r, place)
  BY <1>2, PageHolds
<1>4. DbrxExperts_weight_loader(r, t)[place] = Page(r, t[1], t[2], place[3])[place]
  BY <1>1 DEF DbrxExperts_weight_loader
<1> QED BY <1>3, <1>4

LEMMA OtherShardsHold ==
  ASSUME NEW r \in Ranks, NEW t
  PROVE  /\ \A place \in DOMAIN GateWeight(t) : GateWeight(t)[place] = ElementAt(r, place)
         /\ \A place \in DOMAIN RowShard(r, t) : RowShard(r, t)[place] = ElementAt(r, place)
         /\ t[1] \in {"q", "k", "v"} =>
              \A place \in DOMAIN ColumnShard(r, t) : ColumnShard(r, t)[place] = ElementAt(r, place)
<1>1. ASSUME NEW place \in DOMAIN GateWeight(t) PROVE GateWeight(t)[place] = ElementAt(r, place)
  <2>1. place = <<"gate", t[2], 0, 0>> /\ GateWeight(t)[place] = <<"gate", t[2], 0, 0, 0>>
    BY DEF GateWeight
  <2>2. place[1] = "gate" /\ place[2] = t[2]
    BY <2>1
  <2> QED BY <2>1, <2>2 DEF ElementAt
<1>2. ASSUME NEW place \in DOMAIN RowShard(r, t) PROVE RowShard(r, t)[place] = ElementAt(r, place)
  <2>1. RowShard(r, t)[place] = <<"o", t[2], 0, 0, r * RowSize + place[4]>>
    BY DEF RowShard
  <2>2. PICK x \in 0 .. RowSize - 1 : place = <<"o", t[2], 0, x>>
    BY DEF RowShard
  <2>3. place[1] = "o" /\ place[2] = t[2]
    BY <2>2
  <2> QED BY <2>1, <2>3 DEF ElementAt
<1>3. ASSUME t[1] \in {"q", "k", "v"}, NEW place \in DOMAIN ColumnShard(r, t)
      PROVE  ColumnShard(r, t)[place] = ElementAt(r, place)
  <2>1. ColumnShard(r, t)[place] = <<t[1], t[2], 0, r * ColumnSize(t[1]) + place[4], 0>>
    BY DEF ColumnShard
  <2>2. PICK x \in 0 .. ColumnSize(t[1]) - 1 : place = <<t[1], t[2], 0, x>>
    BY DEF ColumnShard
  <2>3. place[1] = t[1] /\ place[2] = t[2]
    BY <2>2
  <2> QED BY <1>3, <2>1, <2>3 DEF ElementAt
<1> QED BY <1>1, <1>2, <1>3

\* Every tensor's elements go where the places expect them.
LEMMA StoredHolds ==
  ASSUME config \in Configs, NEW r \in Ranks, NEW t \in Tensors(config),
         NEW place \in DOMAIN Stored(r, t)
  PROVE  Stored(r, t)[place] = ElementAt(r, place)
<1>0. config.model \in Models
  BY ConfigNumbers
<1>1. CASE config.model = "mixtral"
  <2>1. Stored(r, t) = Mixtral_load_weights(r, t)
    BY <1>1 DEF Stored
  <2>2. t[1] \in {"gate", "q", "k", "v", "o"} \union Experts
    BY <1>1 DEF Tensors
  <2>3. CASE t[1] = "gate"
    BY <2>1, <2>3, OtherShardsHold DEF Mixtral_load_weights, Experts
  <2>4. CASE t[1] \in {"q", "k", "v"}
    <3>1. Stored(r, t) = QKVShard(r, t, 0)
      BY <2>1, <2>4 DEF Mixtral_load_weights, Experts
    <3> QED BY <2>4, <3>1, QKVShardHolds
  <2>5. CASE t[1] = "o"
    BY <2>1, <2>5, OtherShardsHold DEF Mixtral_load_weights, Experts
  <2>6. CASE t[1] \in Experts
    <3>1. Stored(r, t) = Page(r, t[1], t[2], t[3])
      BY <2>1, <2>6 DEF Mixtral_load_weights, MixtralMoE_weight_loader, Experts
    <3> QED BY <2>6, <3>1, PageHolds
  <2> QED BY <2>2, <2>3, <2>4, <2>5, <2>6
<1>2. CASE config.model = "phi"
  <2>1. Stored(r, t) = Phi_load_weights(r, t)
    BY <1>2 DEF Stored
  <2>2. t[1] \in {"gate", "q", "k", "v", "o"} \union Experts
    BY <1>2 DEF Tensors
  <2>3. CASE t[1] = "gate"
    BY <2>1, <2>3, OtherShardsHold DEF Phi_load_weights, Experts
  <2>4. CASE t[1] \in {"q", "k", "v"}
    <3>1. Stored(r, t) = ColumnShard(r, t)
      BY <2>1, <2>4 DEF Phi_load_weights, Experts
    <3> QED BY <2>4, <3>1, OtherShardsHold
  <2>5. CASE t[1] = "o"
    BY <2>1, <2>5, OtherShardsHold DEF Phi_load_weights, Experts
  <2>6. CASE t[1] \in Experts
    <3>1. Stored(r, t) = Page(r, t[1], t[2], t[3])
      BY <2>1, <2>6 DEF Phi_load_weights, PhiMoE_weight_loader, Experts
    <3> QED BY <2>6, <3>1, PageHolds
  <2> QED BY <2>2, <2>3, <2>4, <2>5, <2>6
<1>3. CASE config.model = "dbrx"
  <2>1. Stored(r, t) = Dbrx_load_weights(r, t)
    BY <1>3 DEF Stored
  <2>2. t[1] \in {"gate", "Wqkv", "o"} \union Experts
    BY <1>3 DEF Tensors
  <2>3. CASE t[1] = "gate"
    BY <2>1, <2>3, OtherShardsHold DEF Dbrx_load_weights, Experts
  <2>4. CASE t[1] = "Wqkv"
    <3>1. Stored(r, t) = PackedQKV(r, t[2])
      BY <2>1, <2>4 DEF Dbrx_load_weights, Experts
    <3> QED BY <3>1, PackedHolds
  <2>5. CASE t[1] = "o"
    BY <2>1, <2>5, OtherShardsHold DEF Dbrx_load_weights, Experts
  <2>6. CASE t[1] \in Experts
    <3>1. Stored(r, t) = DbrxExperts_weight_loader(r, t)
      BY <2>1, <2>6 DEF Dbrx_load_weights, Experts
    <3> QED BY <2>6, <3>1, AllPagesHold
  <2> QED BY <2>2, <2>3, <2>4, <2>5, <2>6
<1> QED BY <1>0, <1>1, <1>2, <1>3 DEF Models

-----------------------------------------------------------------------------
(* The checkpoint holds its tensors *)

LEMMA RangeConcat ==
  ASSUME NEW T, NEW s \in Seq(T), NEW q \in Seq(T)
  PROVE  s \o q \in Seq(T) /\ Range(s) \subseteq Range(s \o q) /\ Range(q) \subseteq Range(s \o q)
<1> DEFINE c == s \o q
<1>1. /\ c \in Seq(T) /\ Len(c) = Len(s) + Len(q) /\ Len(s) \in Nat /\ Len(q) \in Nat
      /\ \A i \in 1 .. Len(s) + Len(q) : c[i] = IF i <= Len(s) THEN s[i] ELSE q[i - Len(s)]
  BY ConcatProperties, LenProperties
<1> HIDE DEF c
<1>2. ASSUME NEW r \in Range(s) PROVE r \in Range(c)
  <2>1. PICK i \in 1 .. Len(s) : r = s[i]
    BY InRange
  <2>2. i \in 1 .. Len(c) /\ c[i] = r
    BY <1>1, <2>1
  <2> QED BY <1>1, <2>2, InRange
<1>3. ASSUME NEW r \in Range(q) PROVE r \in Range(c)
  <2>1. PICK i \in 1 .. Len(q) : r = q[i]
    BY InRange
  <2> DEFINE j == i + Len(s)
  <2>2. j \in 1 .. Len(c) /\ ~(j <= Len(s)) /\ j - Len(s) = i
    BY <1>1
  <2> HIDE DEF j
  <2>3. c[j] = r
    BY <1>1, <2>1, <2>2
  <2> QED BY <1>1, <2>2, <2>3, InRange
<1> QED BY <1>1, <1>2, <1>3 DEF c

\* FlattenSeq loses nothing of its sequences, and adds nothing.
LEMMA FlattenAll ==
  ASSUME NEW T, NEW seqs \in Seq(Seq(T))
  PROVE  /\ FlattenSeq(seqs) \in Seq(T)
         /\ \A i \in 1 .. Len(seqs) : Range(seqs[i]) \subseteq Range(FlattenSeq(seqs))
<1> DEFINE S == Seq(T)
           n == Len(seqs)
           A == [i \in 1 .. n |-> {s \in S : \A j \in 1 .. i : Range(seqs[j]) \subseteq Range(s)}]
<1>0. n \in Nat /\ seqs \in Seq(S) /\ \A i \in 1 .. n : seqs[i] \in S
  <2>1. seqs \in Seq(S)
    OBVIOUS
  <2> HIDE DEF S
  <2> QED BY <2>1, LenProperties, ElementOfSeq
<1>1. CASE n = 0
  <2>1. FlattenSeq(seqs) = seqs
    BY <1>1 DEF FlattenSeq
  <2>2. seqs = <<>>
    <3> HIDE DEF S
    <3> QED BY <1>0, <1>1, EmptySeq
  <2> QED BY <1>0, <1>1, <2>1, <2>2
<1>2. CASE n # 0
  <2>0. n \in 1 .. n /\ 1 \in 1 .. n
    BY <1>0, <1>2
  <2>1. seqs[1] \in A[1]
    <3>1. \A j \in 1 .. 1 : j = 1
      OBVIOUS
    <3> HIDE DEF S
    <3> QED BY <1>0, <2>0, <3>1
  <2>2. ASSUME NEW i \in 1 .. n - 1, NEW s \in A[i] PROVE s \o seqs[i + 1] \in A[i + 1]
    <3> DEFINE q == seqs[i + 1]
    <3>1. i \in 1 .. n /\ i + 1 \in 1 .. n /\ q \in S
      BY <1>0
    <3>2. s \in S /\ \A j \in 1 .. i : Range(seqs[j]) \subseteq Range(s)
      BY <3>1
    <3> HIDE DEF q
    <3>3. s \o q \in S /\ Range(s) \subseteq Range(s \o q) /\ Range(q) \subseteq Range(s \o q)
      BY <3>1, <3>2, RangeConcat
    <3> HIDE DEF S
    <3>4. ASSUME NEW j \in 1 .. i + 1 PROVE Range(seqs[j]) \subseteq Range(s \o q)
      <4>1. j \in 1 .. i \/ j = i + 1
        OBVIOUS
      <4>2. CASE j \in 1 .. i
        BY <3>2, <3>3, <4>2
      <4>3. CASE j = i + 1
        BY <3>3, <4>3 DEF q
      <4> QED BY <4>1, <4>2, <4>3
    <3>5. A[i + 1] = {u \in S : \A j \in 1 .. i + 1 : Range(seqs[j]) \subseteq Range(u)}
      BY <3>1
    <3> QED BY <3>3, <3>4, <3>5 DEF q
  <2>3. FlattenSeq(seqs) \in A[n]
    <3> HIDE DEF S, A
    <3> QED BY <1>0, <1>2, <2>1, <2>2, FlattenIn
  <2> HIDE DEF S
  <2> QED BY <2>0, <2>3 DEF S
<1> QED BY <1>1, <1>2

LEMMA RangeReverse ==
  ASSUME NEW T, NEW s \in Seq(T)
  PROVE  Reverse(s) \in Seq(T) /\ Range(s) \subseteq Range(Reverse(s))
<1> DEFINE n == Len(s)
           q == Reverse(s)
<1>0. n \in Nat /\ \A i \in 1 .. n : s[i] \in T
  BY LenProperties, ElementOfSeq
<1>1. q = [i \in 1 .. n |-> s[(n - i) + 1]]
  BY DEF Reverse
<1>2. \A i \in 1 .. n : (n - i) + 1 \in 1 .. n /\ (n - ((n - i) + 1)) + 1 = i
  BY <1>0
<1> HIDE DEF n, q
<1>3. q \in [1 .. n -> T]
  BY <1>0, <1>1, <1>2
<1>4. q \in Seq(T) /\ Len(q) = n
  BY <1>0, <1>3, FunctionIsSeq
<1>5. ASSUME NEW r \in Range(s) PROVE r \in Range(q)
  <2>1. PICK i \in 1 .. n : r = s[i]
    BY InRange DEF n
  <2>2. q[(n - i) + 1] = r /\ (n - i) + 1 \in 1 .. n
    BY <1>1, <1>2, <2>1
  <2> QED BY <1>4, <2>2, InRange
<1> QED BY <1>4, <1>5 DEF q
LEMMA ElementInRange ==
  ASSUME NEW T, NEW s \in Seq(T), NEW i \in 1 .. Len(s)
  PROVE  s[i] \in Range(s)
BY InRange

LEMMA SixInSeq ==
  ASSUME NEW T, NEW a \in T, NEW b \in T, NEW c \in T, NEW d \in T, NEW e \in T, NEW f \in T
  PROVE  <<a, b, c, d, e, f>> \in Seq(T) /\ {a, b, c, d, e, f} \subseteq Range(<<a, b, c, d, e, f>>)
<1> DEFINE s == <<a, b, c, d, e, f>>
<1>1. s \in Seq(T) /\ Len(s) = 6
  OBVIOUS
<1>2. s[1] = a /\ s[2] = b /\ s[3] = c /\ s[4] = d /\ s[5] = e /\ s[6] = f
  OBVIOUS
<1> HIDE DEF s
<1>3. \A i \in 1 .. 6 : s[i] \in Range(s)
  BY <1>1, ElementInRange
<1> QED BY <1>1, <1>2, <1>3 DEF s

LEMMA FiveInSeq ==
  ASSUME NEW T, NEW a \in T, NEW b \in T, NEW c \in T, NEW d \in T, NEW e \in T
  PROVE  <<a, b, c, d, e>> \in Seq(T) /\ {a, b, c, d, e} \subseteq Range(<<a, b, c, d, e>>)
<1> DEFINE s == <<a, b, c, d, e>>
<1>1. s \in Seq(T) /\ Len(s) = 5
  OBVIOUS
<1>2. s[1] = a /\ s[2] = b /\ s[3] = c /\ s[4] = d /\ s[5] = e
  OBVIOUS
<1> HIDE DEF s
<1>3. \A i \in 1 .. 5 : s[i] \in Range(s)
  BY <1>1, ElementInRange
<1> QED BY <1>1, <1>2, <1>3 DEF s

LEMMA ThreeInSeq ==
  ASSUME NEW T, NEW a \in T, NEW b \in T, NEW c \in T
  PROVE  <<a, b, c>> \in Seq(T) /\ {a, b, c} \subseteq Range(<<a, b, c>>)
<1> DEFINE s == <<a, b, c>>
<1>1. s \in Seq(T) /\ Len(s) = 3
  OBVIOUS
<1>2. s[1] = a /\ s[2] = b /\ s[3] = c
  OBVIOUS
<1> HIDE DEF s
<1>3. \A i \in 1 .. 3 : s[i] \in Range(s)
  BY <1>1, ElementInRange
<1> QED BY <1>1, <1>2, <1>3 DEF s

\* The tensors of the experts of one layer, for the classes that hold them apart.
ExpertTensors(c, l) ==
  [e \in 1 .. c.experts |-> << <<"w1", l, e - 1>>, <<"w2", l, e - 1>>, <<"w3", l, e - 1>> >>]

LEMMA TensorsOfExperts ==
  ASSUME config \in Configs, config.model # "dbrx", NEW l \in LayersOf(config)
  PROVE  /\ FlattenSeq(ExpertTensors(config, l)) \in Seq(Tensors(config))
         /\ \A w \in Experts, e \in ExpertsOf(config) :
              <<w, l, e>> \in Range(FlattenSeq(ExpertTensors(config, l)))
<1> DEFINE T == Tensors(config)
           n == config.experts
           seqs == ExpertTensors(config, l)
<1>0. n \in Nat
  BY ConfigNumbers
<1>1. ASSUME NEW e \in ExpertsOf(config), NEW w \in Experts PROVE <<w, l, e>> \in T
  BY <1>1 DEF Tensors
<1>2. ASSUME NEW i \in 1 .. n
      PROVE  seqs[i] \in Seq(T) /\ \A w \in Experts : <<w, l, i - 1>> \in Range(seqs[i])
  <2>1. i - 1 \in ExpertsOf(config)
    BY <1>0 DEF ExpertsOf
  <2>2. <<"w1", l, i - 1>> \in T /\ <<"w2", l, i - 1>> \in T /\ <<"w3", l, i - 1>> \in T
    BY <1>1, <2>1 DEF Experts
  <2>3. seqs[i] = << <<"w1", l, i - 1>>, <<"w2", l, i - 1>>, <<"w3", l, i - 1>> >>
    BY DEF ExpertTensors
  <2> HIDE DEF T, seqs
  <2>4. /\ seqs[i] \in Seq(T)
        /\ {<<"w1", l, i - 1>>, <<"w2", l, i - 1>>, <<"w3", l, i - 1>>} \subseteq Range(seqs[i])
    BY <2>2, <2>3, ThreeInSeq
  <2> QED BY <2>4 DEF Experts
<1>3. seqs \in Seq(Seq(T)) /\ Len(seqs) = n
  <2> DEFINE S == Seq(T)
  <2>1. seqs \in [1 .. n -> S]
    BY <1>2 DEF ExpertTensors
  <2> HIDE DEF S, seqs
  <2>2. seqs \in Seq(S) /\ Len(seqs) = n
    BY <1>0, <2>1, FunctionIsSeq
  <2> QED BY <2>2 DEF S
<1> HIDE DEF T, seqs, n
<1>4. /\ FlattenSeq(seqs) \in Seq(T)
      /\ \A i \in 1 .. n : Range(seqs[i]) \subseteq Range(FlattenSeq(seqs))
  BY <1>3, FlattenAll
<1>5. ASSUME NEW w \in Experts, NEW e \in ExpertsOf(config)
      PROVE  <<w, l, e>> \in Range(FlattenSeq(seqs))
  <2>1. e + 1 \in 1 .. n /\ (e + 1) - 1 = e
    BY <1>0 DEF ExpertsOf, n
  <2>2. <<w, l, e>> \in Range(seqs[e + 1])
    BY <1>2, <2>1
  <2> QED BY <1>4, <2>1, <2>2
<1> QED BY <1>4, <1>5 DEF T, seqs

LEMMA TensorsOfLayer ==
  ASSUME config \in Configs, NEW l \in LayersOf(config)
  PROVE  /\ LayerTensors(config, l) \in Seq(Tensors(config))
         /\ \A t \in Tensors(config) : t[2] = l => t \in Range(LayerTensors(config, l))
<1> DEFINE T == Tensors(config)
           s == LayerTensors(config, l)
<1>1. CASE config.model = "dbrx"
  <2>1. s = << <<"gate", l, 0>>, <<"Wqkv", l, 0>>, <<"o", l, 0>>,
               <<"w1", l, 0>>, <<"w3", l, 0>>, <<"w2", l, 0>> >>
    BY <1>1 DEF LayerTensors
  <2>2. T = ({"gate", "Wqkv", "o"} \union Experts) \X LayersOf(config) \X {0}
    BY <1>1 DEF Tensors
  <2>3. /\ <<"gate", l, 0>> \in T /\ <<"Wqkv", l, 0>> \in T /\ <<"o", l, 0>> \in T
        /\ <<"w1", l, 0>> \in T /\ <<"w3", l, 0>> \in T /\ <<"w2", l, 0>> \in T
    BY <2>2 DEF Experts
  <2> HIDE DEF s
  <2>4. /\ s \in Seq(T)
        /\ {<<"gate", l, 0>>, <<"Wqkv", l, 0>>, <<"o", l, 0>>,
            <<"w1", l, 0>>, <<"w3", l, 0>>, <<"w2", l, 0>>} \subseteq Range(s)
    <3> HIDE DEF T
    <3> QED BY <2>1, <2>3, SixInSeq
  <2>5. ASSUME NEW t \in T, t[2] = l PROVE t \in Range(s)
    <3>1. t = <<t[1], l, 0>> /\ t[1] \in {"gate", "Wqkv", "o", "w1", "w2", "w3"}
      BY <2>2, <2>5 DEF Experts
    <3> QED BY <2>4, <3>1
  <2> QED BY <2>4, <2>5 DEF s
<1>2. CASE config.model # "dbrx"
  <2> DEFINE a == << <<"gate", l, 0>>, <<"q", l, 0>>, <<"k", l, 0>>, <<"v", l, 0>>, <<"o", l, 0>> >>
             b == FlattenSeq(ExpertTensors(config, l))
  <2>1. s = a \o b
    BY <1>2 DEF LayerTensors, ExpertTensors
  <2>2. T = ({"gate", "q", "k", "v", "o"} \X LayersOf(config) \X {0})
              \union (Experts \X LayersOf(config) \X ExpertsOf(config))
    BY <1>2 DEF Tensors
  <2>3. /\ <<"gate", l, 0>> \in T /\ <<"q", l, 0>> \in T /\ <<"k", l, 0>> \in T
        /\ <<"v", l, 0>> \in T /\ <<"o", l, 0>> \in T
    BY <2>2
  <2>4. /\ b \in Seq(T)
        /\ \A w \in Experts, e \in ExpertsOf(config) : <<w, l, e>> \in Range(b)
    BY <1>2, TensorsOfExperts
  <2>5. /\ a \in Seq(T)
        /\ {<<"gate", l, 0>>, <<"q", l, 0>>, <<"k", l, 0>>, <<"v", l, 0>>, <<"o", l, 0>>}
             \subseteq Range(a)
    <3> HIDE DEF T
    <3> QED BY <2>3, FiveInSeq
  <2> HIDE DEF a, b, s
  <2>6. s \in Seq(T) /\ Range(a) \subseteq Range(s) /\ Range(b) \subseteq Range(s)
    <3> HIDE DEF T
    <3> QED BY <2>1, <2>4, <2>5, RangeConcat
  <2>7. ASSUME NEW t \in T, t[2] = l PROVE t \in Range(s)
    <3>1. \/ t[1] \in {"gate", "q", "k", "v", "o"} /\ t = <<t[1], l, 0>>
          \/ t[1] \in Experts /\ t[3] \in ExpertsOf(config) /\ t = <<t[1], l, t[3]>>
      BY <2>2, <2>7
    <3> QED BY <2>4, <2>5, <2>6, <3>1
  <2> QED BY <2>6, <2>7 DEF s
<1> QED BY <1>1, <1>2

LEMMA CheckpointAll ==
  ASSUME config \in Configs
  PROVE  /\ Checkpoint(config) \in Seq(Tensors(config))
         /\ Tensors(config) \subseteq Range(Checkpoint(config))
<1> DEFINE T == Tensors(config)
           n == config.layers
           seqs == [l \in 1 .. n |-> LayerTensors(config, l - 1)]
<1>0. n \in Nat /\ LayersOf(config) = 0 .. n - 1
  BY ConfigNumbers DEF LayersOf
<1>1. ASSUME NEW i \in 1 .. n
      PROVE  seqs[i] \in Seq(T) /\ \A t \in T : t[2] = i - 1 => t \in Range(seqs[i])
  <2>1. i - 1 \in LayersOf(config)
    BY <1>0
  <2> QED BY <2>1, TensorsOfLayer
<1>2. seqs \in Seq(Seq(T)) /\ Len(seqs) = n
  <2> DEFINE S == Seq(T)
  <2>1. seqs \in [1 .. n -> S]
    BY <1>1
  <2> HIDE DEF S, seqs
  <2>2. seqs \in Seq(S) /\ Len(seqs) = n
    BY <1>0, <2>1, FunctionIsSeq
  <2> QED BY <2>2 DEF S
<1>3. Checkpoint(config) = FlattenSeq(seqs)
  BY DEF Checkpoint
<1>4. \A t \in T : t[2] \in LayersOf(config)
  BY DEF Tensors
<1> HIDE DEF T, seqs, n
<1>5. /\ FlattenSeq(seqs) \in Seq(T)
      /\ \A i \in 1 .. n : Range(seqs[i]) \subseteq Range(FlattenSeq(seqs))
  BY <1>2, FlattenAll
<1>6. ASSUME NEW t \in T PROVE t \in Range(FlattenSeq(seqs))
  <2>1. t[2] + 1 \in 1 .. n /\ t[2] = (t[2] + 1) - 1
    BY <1>0, <1>4
  <2>2. t \in Range(seqs[t[2] + 1])
    BY <1>1, <2>1
  <2> QED BY <1>5, <2>1, <2>2
<1> QED BY <1>3, <1>5, <1>6 DEF T

-----------------------------------------------------------------------------
(* What has been loaded is where it belongs *)

NamesInv ==
  /\ config \in Configs
  /\ names \in Seq(Tensors(config))
  /\ Tensors(config) \subseteq Range(names)

Right(r, param) == \A place \in DOMAIN param : param[place] = ElementAt(r, place)

RankLoaded(r) ==
  /\ loaded[r] \in 0 .. Len(names)
  /\ Right(r, params[r])
  /\ \A i \in 1 .. loaded[r] : DOMAIN Stored(r, names[i]) \subseteq DOMAIN params[r]

LoadInv ==
  /\ NamesInv
  /\ loaded \in [Ranks -> Nat]
  /\ DOMAIN params = Ranks
  /\ \A r \in Ranks : RankLoaded(r)

LEMMA LoadStarts ==
  ASSUME LoadingInit
  PROVE  LoadInv
<1>1. /\ config \in Configs /\ names \in {Checkpoint(config), Reverse(Checkpoint(config))}
      /\ loaded = [r \in Ranks |-> 0] /\ params = [r \in Ranks |-> <<>>]
  BY DEF LoadingInit
<1>2. NamesInv
  <2> DEFINE T == Tensors(config)
             c == Checkpoint(config)
  <2>1. c \in Seq(T) /\ T \subseteq Range(c)
    BY <1>1, CheckpointAll
  <2>2. Reverse(c) \in Seq(T) /\ Range(c) \subseteq Range(Reverse(c))
    <3> HIDE DEF T, c
    <3> QED BY <2>1, RangeReverse
  <2> HIDE DEF T, c
  <2>3. names = c \/ names = Reverse(c)
    BY <1>1 DEF c
  <2>4. names \in Seq(T) /\ T \subseteq Range(names)
    BY <2>1, <2>2, <2>3
  <2> QED BY <1>1, <2>4 DEF NamesInv, T
<1>3. Len(names) \in Nat
  BY <1>2, LenProperties DEF NamesInv
<1>4. ASSUME NEW r \in Ranks PROVE RankLoaded(r)
  <2>1. loaded[r] = 0 /\ DOMAIN params[r] = {}
    BY <1>1
  <2> QED BY <1>3, <2>1 DEF RankLoaded, Right
<1>5. loaded \in [Ranks -> Nat] /\ DOMAIN params = Ranks
  BY <1>1
<1> QED BY <1>2, <1>4, <1>5 DEF LoadInv

LEMMA CopiedHolds ==
  ASSUME NEW r, NEW f, NEW g, Right(r, f), Right(r, g)
  PROVE  /\ Right(r, CopiedTo(f, g))
         /\ DOMAIN f \subseteq DOMAIN CopiedTo(f, g) /\ DOMAIN g \subseteq DOMAIN CopiedTo(f, g)
BY DEF CopiedTo, Right

\* What a rank has of its place in memory depends on the configuration alone.
LEMMA ElementKept ==
  ASSUME config' = config, NEW r, NEW place
  PROVE  ElementAt(r, place)' = ElementAt(r, place)
BY DEF ElementAt, PartAt, MatrixAt, LaidOut, RowMajor, ColumnMajor, shard_offset, shard_size,
       shard_id, num_heads, num_kv_heads, num_kv_head_replicas, head_size, hidden_size,
       intermediate_size, w3_offset, w2_offset, RowSize, ColumnSize

LEMMA StoredKept ==
  ASSUME config' = config, NEW r, NEW t
  PROVE  Stored(r, t)' = Stored(r, t)
BY DEF Stored, Mixtral_load_weights, Phi_load_weights, Dbrx_load_weights, GateWeight, QKVShard,
       PackedQKV, CopiedTo, ColumnShard, RowShard, MixtralMoE_weight_loader,
       PhiMoE_weight_loader, DbrxExperts_weight_loader, Page, RowMajor, ColumnMajor, shard_offset,
       shard_size, shard_id, num_heads, num_kv_heads, num_kv_head_replicas, head_size, hidden_size,
       intermediate_size, w3_offset, w2_offset, RowSize, ColumnSize, ExpertsOf, Experts

\* A rank that does nothing keeps what it has.
LEMMA RankKept ==
  ASSUME config' = config, names' = names, NEW r, RankLoaded(r),
         loaded'[r] = loaded[r], params'[r] = params[r]
  PROVE  RankLoaded(r)'
<1>1. \A place : ElementAt(r, place)' = ElementAt(r, place)
  BY ElementKept
<1>2. \A t : Stored(r, t)' = Stored(r, t)
  BY StoredKept
<1>3. /\ loaded'[r] \in 0 .. Len(names')
      /\ Right(r, params'[r])
      /\ \A i \in 1 .. loaded'[r] : DOMAIN Stored(r, names'[i]) \subseteq DOMAIN params'[r]
  BY DEF RankLoaded
<1>4. /\ \A place \in DOMAIN params'[r] : params'[r][place] = ElementAt(r, place)'
      /\ \A i \in 1 .. loaded'[r] : DOMAIN Stored(r, names[i])' \subseteq DOMAIN params'[r]
  BY <1>1, <1>2, <1>3 DEF Right
<1> QED BY <1>3, <1>4 DEF RankLoaded, Right

LEMMA LoadPreserves ==
  ASSUME LoadInv, NEW q \in Ranks, LoadNext(q)
  PROVE  LoadInv'
<1> DEFINE n == loaded[q]
           shard == Stored(q, names[n + 1])
<1>1. /\ n < Len(names) /\ config' = config /\ names' = names
      /\ params' = [params EXCEPT ![q] = CopiedTo(params[q], shard)]
      /\ loaded' = [loaded EXCEPT ![q] = n + 1]
  BY DEF LoadNext
<1>2. /\ config \in Configs /\ names \in Seq(Tensors(config)) /\ loaded \in [Ranks -> Nat]
      /\ DOMAIN params = Ranks /\ n \in Nat /\ Len(names) \in Nat
      /\ \A r \in Ranks : RankLoaded(r)
  BY LenProperties DEF LoadInv, NamesInv
<1>3. Ranks' = Ranks
  BY <1>1 DEF Ranks
<1>4. NamesInv'
  <2>1. Tensors(config)' = Tensors(config)
    BY <1>1
  <2> QED BY <1>1, <2>1 DEF LoadInv, NamesInv
<1>5. loaded' \in [Ranks -> Nat] /\ DOMAIN params' = Ranks /\ loaded'[q] = n + 1
      /\ params'[q] = CopiedTo(params[q], shard)
  BY <1>1, <1>2
<1>6. RankLoaded(q)'
  <2>1. names[n + 1] \in Tensors(config) /\ n + 1 \in 1 .. Len(names)
    BY <1>1, <1>2, ElementOfSeq
  <2>2. Right(q, shard)
    BY <1>2, <2>1, StoredHolds DEF Right
  <2>3. /\ Right(q, params[q])
        /\ \A i \in 1 .. n : DOMAIN Stored(q, names[i]) \subseteq DOMAIN params[q]
    BY <1>2 DEF RankLoaded
  <2>4. \A place : ElementAt(q, place)' = ElementAt(q, place)
    BY <1>1, ElementKept
  <2>5. \A t : Stored(q, t)' = Stored(q, t)
    BY <1>1, StoredKept
  <2> HIDE DEF shard
  <2>6. /\ Right(q, params'[q])
        /\ DOMAIN params[q] \subseteq DOMAIN params'[q] /\ DOMAIN shard \subseteq DOMAIN params'[q]
    BY <1>5, <2>2, <2>3, CopiedHolds
  <2>7. ASSUME NEW i \in 1 .. n + 1
        PROVE  DOMAIN Stored(q, names[i]) \subseteq DOMAIN params'[q]
    <3>1. i \in 1 .. n \/ i = n + 1
      BY <1>2
    <3>2. CASE i \in 1 .. n
      BY <2>3, <2>6, <3>2
    <3>3. CASE i = n + 1
      BY <2>6, <3>3 DEF shard
    <3> QED BY <3>1, <3>2, <3>3
  <2>8. loaded'[q] \in 0 .. Len(names')
    BY <1>1, <1>2, <1>5, <2>1
  <2>9. \A place \in DOMAIN params'[q] : params'[q][place] = ElementAt(q, place)'
    BY <2>4, <2>6 DEF Right
  <2>10. ASSUME NEW i \in 1 .. loaded'[q]
         PROVE  DOMAIN Stored(q, names[i])' \subseteq DOMAIN params'[q]
    <3>1. Stored(q, names[i])' = Stored(q, names[i])
      BY <1>1, <2>5
    <3>2. DOMAIN Stored(q, names[i]) \subseteq DOMAIN params'[q]
      BY <1>5, <2>7
    <3> QED BY <3>1, <3>2
  <2> QED BY <1>1, <2>8, <2>9, <2>10 DEF RankLoaded, Right
<1>7. ASSUME NEW r \in Ranks, r # q PROVE RankLoaded(r)'
  <2>1. loaded'[r] = loaded[r] /\ params'[r] = params[r]
    BY <1>1, <1>2, <1>7
  <2> QED BY <1>1, <1>2, <2>1, RankKept
<1> QED BY <1>3, <1>4, <1>5, <1>6, <1>7 DEF LoadInv

LEMMA LoadStutters ==
  ASSUME LoadInv, UNCHANGED loading_vars
  PROVE  LoadInv'
<1>1. config' = config /\ names' = names /\ loaded' = loaded /\ params' = params
  BY DEF loading_vars
<1>2. Ranks' = Ranks
  BY <1>1 DEF Ranks
<1>3. NamesInv' /\ loaded' \in [Ranks -> Nat] /\ DOMAIN params' = Ranks
  BY <1>1 DEF LoadInv, NamesInv, Tensors, LayersOf, ExpertsOf, Experts
<1>4. \A r \in Ranks : RankLoaded(r)'
  BY <1>1, RankKept DEF LoadInv
<1> QED BY <1>2, <1>3, <1>4 DEF LoadInv

LEMMA Held ==
  ASSUME LoadInv, AllLoaded, NEW r \in Ranks, NEW t \in Tensors(config),
         NEW place \in DOMAIN Stored(r, t)
  PROVE  params[r][place] = ElementAt(r, place)
<1> DEFINE T == Tensors(config)
<1>1. names \in Seq(T) /\ T \subseteq Range(names)
  BY DEF LoadInv, NamesInv
<1>2. RankLoaded(r) /\ loaded[r] = Len(names)
  BY DEF LoadInv, AllLoaded
<1>3. PICK i \in 1 .. Len(names) : t = names[i]
  <2>1. t \in Range(names)
    BY <1>1
  <2> HIDE DEF T
  <2> QED BY <1>1, <2>1, InRange
<1>4. DOMAIN Stored(r, t) \subseteq DOMAIN params[r]
  BY <1>2, <1>3 DEF RankLoaded
<1> QED BY <1>2, <1>4 DEF RankLoaded, Right

\* mixtral's and dbrx's packed projections
LEMMA PackedHeld ==
  ASSUME LoadInv, AllLoaded, NEW r \in Ranks, NEW l \in LayersOf(config), config.model # "phi",
         NEW id \in {"q", "k", "v"}, NEW x \in 0 .. shard_size(id) - 1
  PROVE  params[r][<<"qkv", l, 0, shard_offset(id) + x>>]
           = <<id, l, 0, shard_id(r, id) * shard_size(id) + (shard_offset(id) + x) - shard_offset(id), 0>>
<1> DEFINE place == <<"qkv", l, 0, shard_offset(id) + x>>
<1>0. config \in Configs /\ config.model \in Models
  BY ConfigNumbers DEF LoadInv, NamesInv
<1>1. ElementAt(r, place)
        = <<id, l, 0, shard_id(r, id) * shard_size(id) + (shard_offset(id) + x) - shard_offset(id), 0>>
  <2>1. PartAt(shard_offset(id) + x) = id
    BY <1>0, PartFound
  <2>2. place[1] = "qkv" /\ place[2] = l /\ place[4] = shard_offset(id) + x
    OBVIOUS
  <2> HIDE DEF place
  <2> QED BY <2>1, <2>2 DEF ElementAt
<1>2. \E t \in Tensors(config) : place \in DOMAIN Stored(r, t)
  <2>1. CASE config.model = "mixtral"
    <3> DEFINE t == <<id, l, 0>>
    <3>1. t \in Tensors(config)
      BY <2>1 DEF Tensors
    <3>2. t[1] = id /\ t[2] = l
      OBVIOUS
    <3>3. Stored(r, t) = QKVShard(r, t, 0)
      <4> HIDE DEF t
      <4> QED BY <2>1, <3>2 DEF Stored, Mixtral_load_weights, Experts
    <3>4. place \in DOMAIN QKVShard(r, t, 0)
      BY DEF QKVShard
    <3> HIDE DEF t
    <3> QED BY <3>1, <3>3, <3>4
  <2>2. CASE config.model = "dbrx"
    <3> DEFINE t == <<"Wqkv", l, 0>>
    <3>1. t \in Tensors(config)
      BY <2>2 DEF Tensors
    <3>2. t[1] = "Wqkv" /\ t[2] = l
      OBVIOUS
    <3>3. Stored(r, t) = PackedQKV(r, l)
      <4> HIDE DEF t
      <4> QED BY <2>2, <3>2 DEF Stored, Dbrx_load_weights, Experts
    <3>4. place \in DOMAIN QKVShard(r, <<id, l>>, 0)
      BY DEF QKVShard
    <3>5. DOMAIN QKVShard(r, <<id, l>>, 0) \subseteq DOMAIN PackedQKV(r, l)
      BY <1>0, PackedHolds
    <3> HIDE DEF t, place
    <3> QED BY <3>1, <3>3, <3>4, <3>5
  <2> QED BY <1>0, <2>1, <2>2 DEF Models
<1> HIDE DEF place
<1>3. params[r][place] = ElementAt(r, place)
  BY <1>2, Held
<1> QED BY <1>1, <1>3 DEF place

\* phi's projections
LEMMA ColumnsHeld ==
  ASSUME LoadInv, AllLoaded, NEW r \in Ranks, NEW l \in LayersOf(config), config.model = "phi",
         NEW id \in {"q", "k", "v"}, NEW x \in 0 .. ColumnSize(id) - 1
  PROVE  params[r][<<id, l, 0, x>>] = <<id, l, 0, r * ColumnSize(id) + x, 0>>
<1> DEFINE place == <<id, l, 0, x>>
           t == <<id, l, 0>>
<1>1. ElementAt(r, place) = <<id, l, 0, r * ColumnSize(id) + x, 0>>
  <2>1. place[1] = id /\ place[2] = l /\ place[4] = x
    OBVIOUS
  <2> HIDE DEF place
  <2> QED BY <2>1 DEF ElementAt
<1>2. t \in Tensors(config)
  BY DEF Tensors
<1>3. t[1] = id /\ t[2] = l
  OBVIOUS
<1>4. Stored(r, t) = ColumnShard(r, t)
  <2> HIDE DEF t
  <2> QED BY <1>3 DEF Stored, Phi_load_weights, Experts
<1>5. place \in DOMAIN ColumnShard(r, t)
  BY DEF ColumnShard
<1> HIDE DEF t, place
<1>6. params[r][place] = ElementAt(r, place)
  BY <1>2, <1>4, <1>5, Held
<1> QED BY <1>1, <1>6 DEF place

LEMMA OutputHeld ==
  ASSUME LoadInv, AllLoaded, NEW r \in Ranks, NEW l \in LayersOf(config),
         NEW x \in 0 .. RowSize - 1
  PROVE  params[r][<<"o", l, 0, x>>] = <<"o", l, 0, 0, r * RowSize + x>>
<1> DEFINE place == <<"o", l, 0, x>>
           t == <<"o", l, 0>>
<1>0. config.model \in Models
  BY ConfigNumbers DEF LoadInv, NamesInv
<1>1. ElementAt(r, place) = <<"o", l, 0, 0, r * RowSize + x>>
  <2>1. place[1] = "o" /\ place[2] = l /\ place[4] = x
    OBVIOUS
  <2> HIDE DEF place
  <2> QED BY <2>1 DEF ElementAt
<1>2. t \in Tensors(config)
  BY DEF Tensors
<1>3. t[1] = "o" /\ t[2] = l
  OBVIOUS
<1>4. Stored(r, t) = RowShard(r, t)
  <2> HIDE DEF t
  <2>1. CASE config.model = "mixtral"
    BY <1>3, <2>1 DEF Stored, Mixtral_load_weights, Experts
  <2>2. CASE config.model = "phi"
    BY <1>3, <2>2 DEF Stored, Phi_load_weights, Experts
  <2>3. CASE config.model = "dbrx"
    BY <1>3, <2>3 DEF Stored, Dbrx_load_weights, Experts
  <2> QED BY <1>0, <2>1, <2>2, <2>3 DEF Models
<1>5. place \in DOMAIN RowShard(r, t)
  BY DEF RowShard
<1> HIDE DEF t, place
<1>6. params[r][place] = ElementAt(r, place)
  BY <1>2, <1>4, <1>5, Held
<1> QED BY <1>1, <1>6 DEF place

LEMMA PagesHeld ==
  ASSUME LoadInv, AllLoaded, NEW r \in Ranks, NEW l \in LayersOf(config),
         NEW e \in ExpertsOf(config), NEW name \in Experts, NEW x \in DOMAIN LaidOut(name)
  PROVE  params[r][<<"ws", l, e, x>>]
           = <<name, l, e, r * intermediate_size + LaidOut(name)[x][1], LaidOut(name)[x][2]>>
<1> DEFINE place == <<"ws", l, e, x>>
<1>0. config \in Configs /\ config.model \in Models
  BY ConfigNumbers DEF LoadInv, NamesInv
<1>1. ElementAt(r, place)
        = <<name, l, e, r * intermediate_size + LaidOut(name)[x][1], LaidOut(name)[x][2]>>
  <2>1. MatrixAt(x) = name
    BY <1>0, MatrixFound
  <2>2. place[1] = "ws" /\ place[2] = l /\ place[3] = e /\ place[4] = x
    OBVIOUS
  <2> HIDE DEF place
  <2> QED BY <2>1, <2>2 DEF ElementAt
<1>2. place \in DOMAIN Page(r, name, l, e)
  <2>1. DOMAIN Page(r, name, l, e) = {<<"ws", l, e, p>> : p \in DOMAIN LaidOut(name)}
    BY DEF Page, LaidOut
  <2> QED BY <2>1
<1>3. \E t \in Tensors(config) : place \in DOMAIN Stored(r, t)
  <2>1. CASE config.model # "dbrx"
    <3> DEFINE t == <<name, l, e>>
    <3>1. t \in Tensors(config)
      BY <2>1 DEF Tensors
    <3>2. t[1] = name /\ t[2] = l /\ t[3] = e
      OBVIOUS
    <3> HIDE DEF t, place
    <3>3. Stored(r, t) = Page(r, name, l, e)
      <4>1. CASE config.model = "mixtral"
        BY <3>2, <4>1 DEF Stored, Mixtral_load_weights, MixtralMoE_weight_loader, Experts
      <4>2. CASE config.model = "phi"
        BY <3>2, <4>2 DEF Stored, Phi_load_weights, PhiMoE_weight_loader, Experts
      <4> QED BY <1>0, <2>1, <4>1, <4>2 DEF Models
    <3> QED BY <1>2, <3>1, <3>3
  <2>2. CASE config.model = "dbrx"
    <3> DEFINE t == <<name, l, 0>>
    <3>1. t \in Tensors(config)
      BY <2>2 DEF Tensors
    <3>2. t[1] = name /\ t[2] = l
      OBVIOUS
    <3> HIDE DEF t, place
    <3>3. Stored(r, t) = DbrxExperts_weight_loader(r, t)
      BY <2>2, <3>2 DEF Stored, Dbrx_load_weights, Experts
    <3>4. DOMAIN DbrxExperts_weight_loader(r, t)
            = UNION {DOMAIN Page(r, t[1], t[2], i) : i \in ExpertsOf(config)}
      BY DEF DbrxExperts_weight_loader
    <3> QED BY <1>2, <3>1, <3>2, <3>3, <3>4
  <2> QED BY <2>1, <2>2
<1> HIDE DEF place
<1>4. params[r][place] = ElementAt(r, place)
  BY <1>3, Held
<1> QED BY <1>1, <1>4 DEF place

-----------------------------------------------------------------------------
(* What the model reads *)

\* Element x of head h among a rank's, counted from the first rank's.
LEMMA HeadOfRank ==
  ASSUME NEW r \in Nat, NEW n \in Nat, NEW d \in Nat, NEW h \in Nat, NEW x \in Nat
  PROVE  r * (n * d) + (h * d + x) = (r * n + h) * d + x
<1>1. r * (n * d) = (r * n) * d /\ (r * n + h) * d = (r * n) * d + h * d
  OBVIOUS
<1>2. (r * n) * d \in Nat /\ h * d \in Nat
  OBVIOUS
<1> QED BY <1>1, <1>2

LEMMA QueriesMeet ==
  ASSUME LoadInv, AllLoaded, NEW r \in Ranks, NEW l \in LayersOf(config),
         NEW h \in 0 .. num_heads - 1, NEW x \in 0 .. head_size - 1
  PROVE  /\ QElement(r, l, h * head_size + x)
              = <<"q", l, 0, (r * num_heads + h) * head_size + x, 0>>
         /\ params[r][<<"o", l, 0, h * head_size + x>>]
              = <<"o", l, 0, 0, (r * num_heads + h) * head_size + x>>
<1> DEFINE n == num_heads
           d == head_size
           y == h * d + x
<1>0. config \in Configs
  BY DEF LoadInv, NamesInv
<1>1. n \in Nat /\ d \in Nat /\ r \in Nat /\ h \in Nat /\ x \in Nat /\ h \in 0 .. n - 1 /\ x \in 0 .. d - 1
  BY <1>0, ConfigNumbers, KeyHeads DEF Ranks
<1>2. /\ shard_offset("q") = 0 /\ shard_size("q") = n * d /\ RowSize = n * d
      /\ config.model = "phi" => ColumnSize("q") = n * d
  BY <1>0, Shards, Sizes
<1>3. shard_id(r, "q") = r
  BY DEF shard_id
<1> HIDE DEF n, d
<1>4. y \in 0 .. n * d - 1 /\ r * (n * d) + y = (r * n + h) * d + x
  BY <1>1, PartBelow, HeadOfRank
<1> HIDE DEF y
<1>5. 0 + y = y /\ r * (n * d) + y - 0 = r * (n * d) + y
  <2>1. n * d \in Nat
    BY <1>1
  <2>2. r * (n * d) \in Nat
    BY <1>1, <2>1
  <2> DEFINE m == r * (n * d)
             k == n * d
  <2> HIDE DEF m, k
  <2>3. m \in Nat /\ k \in Nat /\ y \in 0 .. k - 1
    BY <1>4, <2>1, <2>2 DEF m, k
  <2>4. 0 + y = y /\ m + y - 0 = m + y
    BY <2>3
  <2> QED BY <2>4 DEF m, k
<1>6. params[r][<<"o", l, 0, y>>] = <<"o", l, 0, 0, r * (n * d) + y>>
  BY <1>2, <1>4, OutputHeld
<1>7. QElement(r, l, y) = <<"q", l, 0, r * (n * d) + y, 0>>
  <2>1. CASE config.model = "phi"
    <3>1. params[r][<<"q", l, 0, y>>] = <<"q", l, 0, r * ColumnSize("q") + y, 0>>
      BY <1>2, <1>4, <2>1, ColumnsHeld
    <3> QED BY <1>2, <2>1, <3>1 DEF QElement
  <2>2. CASE config.model # "phi"
    <3>1. params[r][<<"qkv", l, 0, 0 + y>>] = <<"q", l, 0, r * (n * d) + (0 + y) - 0, 0>>
      BY <1>2, <1>3, <1>4, <2>2, PackedHeld
    <3> QED BY <1>5, <2>2, <3>1 DEF QElement
  <2> QED BY <2>1, <2>2
<1> QED BY <1>4, <1>6, <1>7 DEF n, d, y

LEMMA KeysMeet ==
  ASSUME LoadInv, AllLoaded, WholeHeads, NEW r \in Ranks, NEW l \in LayersOf(config),
         NEW h \in 0 .. num_heads - 1, NEW x \in 0 .. head_size - 1, NEW name \in {"k", "v"}
  PROVE  KVElement(r, l, name, LocalKVHead(h) * head_size + x)
           = <<name, l, 0, ((r * num_heads + h) \div (config.heads \div config.kv_heads)) * head_size + x, 0>>
<1> DEFINE n == num_heads
           k == num_kv_heads
           d == head_size
           local == LocalKVHead(h)
           s == shard_id(r, name)
           y == local * d + x
           kv_head == (r * num_heads + h) \div (config.heads \div config.kv_heads)
<1>0. config \in Configs
  BY DEF LoadInv, NamesInv
<1>1. n \in Nat /\ k \in Nat /\ d \in Nat /\ x \in Nat /\ x \in 0 .. d - 1
  BY <1>0, ConfigNumbers, KeyHeads
<1>2. local \in 0 .. k - 1 /\ s \in Nat /\ s * k + local = kv_head
  BY <1>0, GroupsMeet
<1>3. /\ shard_size(name) = k * d
      /\ shard_offset("k") = n * d /\ shard_offset("v") = n * d + k * d
      /\ config.model = "phi" => ColumnSize(name) = k * d
  BY <1>0, Shards, Sizes
<1>4. q_heads = n /\ kv_heads = k
  BY <1>0, KeyHeads
<1>5. config.model = "phi" => s = r
  <2>1. ASSUME config.model = "phi" PROVE num_kv_head_replicas = 1 /\ r \in Int
    BY <1>0, <2>1, ConfigNumbers, KeyHeads DEF Ranks, WholeHeads
  <2> QED BY <2>1, DivByOne DEF shard_id
<1>6. KVElement(r, l, name, y) =
        IF config.model = "phi" THEN params[r][<<name, l, 0, y>>]
        ELSE params[r][<<"qkv", l, 0, (n + (IF name = "k" THEN 0 ELSE k)) * d + y>>]
  BY <1>4 DEF KVElement, KVPlace
<1> HIDE DEF n, k, d, local, s, kv_head
<1>7. local \in Nat
  BY <1>1, <1>2
<1>8. y \in 0 .. k * d - 1 /\ s * (k * d) + y = kv_head * d + x
  BY <1>1, <1>2, <1>7, PartBelow, HeadOfRank
<1>9. (n + (IF name = "k" THEN 0 ELSE k)) * d = shard_offset(name) /\ shard_offset(name) \in Nat
  <2>1. (n + 0) * d = n * d /\ (n + k) * d = n * d + k * d /\ n * d \in Nat /\ k * d \in Nat
    BY <1>1
  <2>2. CASE name = "k"
    BY <1>3, <2>1, <2>2
  <2>3. CASE name = "v"
    BY <1>3, <2>1, <2>3
  <2> QED BY <2>2, <2>3
<1> HIDE DEF y
<1>10. KVElement(r, l, name, y) = <<name, l, 0, s * (k * d) + y, 0>>
  <2>1. CASE config.model = "phi"
    <3>1. params[r][<<name, l, 0, y>>] = <<name, l, 0, r * ColumnSize(name) + y, 0>>
      BY <1>3, <1>8, <2>1, ColumnsHeld
    <3> QED BY <1>3, <1>5, <1>6, <2>1, <3>1
  <2>2. CASE config.model # "phi"
    <3>1. params[r][<<"qkv", l, 0, shard_offset(name) + y>>]
            = <<name, l, 0, s * (k * d) + (shard_offset(name) + y) - shard_offset(name), 0>>
      BY <1>3, <1>8, <2>2, PackedHeld DEF s
    <3>2. s * (k * d) + (shard_offset(name) + y) - shard_offset(name) = s * (k * d) + y
      <4> DEFINE m == s * (k * d)
                 o == shard_offset(name)
      <4>1. k * d \in Nat
        BY <1>1
      <4>2. m \in Nat /\ o \in Nat /\ y \in Int
        BY <1>2, <1>8, <1>9, <4>1
      <4> HIDE DEF m, o
      <4>3. m + (o + y) - o = m + y
        BY <4>2
      <4> QED BY <4>3 DEF m, o
    <3> QED BY <1>6, <1>9, <2>2, <3>1, <3>2
  <2> QED BY <2>1, <2>2
<1> QED BY <1>8, <1>10 DEF y, local, d, kv_head

\* Where the kernel looks for an element of a page is where its matrix is laid out.
LEMMA PlacesInPage ==
  ASSUME config \in Configs, NEW x \in 0 .. intermediate_size - 1, NEW y \in 0 .. hidden_size - 1
  PROVE  LET a == x * hidden_size + y
             b == (intermediate_size + x) * hidden_size + y
             c == 2 * hidden_size * intermediate_size + y * intermediate_size + x
         IN  /\ a \in DOMAIN LaidOut("w1") /\ LaidOut("w1")[a] = <<x, y>>
             /\ b \in DOMAIN LaidOut("w3") /\ LaidOut("w3")[b] = <<x, y>>
             /\ c \in DOMAIN LaidOut("w2") /\ LaidOut("w2")[c] = <<x, y>>
<1> DEFINE i == intermediate_size
           d == hidden_size
           w == w3_offset
           o == w2_offset
           row == x * d + y
           column == y * i + x
<1>1. /\ i \in Nat /\ i >= 1 /\ d \in Nat /\ d >= 1 /\ w \in Nat /\ w = i * d
      /\ o = w + w /\ x \in 0 .. i - 1 /\ y \in 0 .. d - 1
  BY ConfigNumbers, Sizes DEF w3_offset
<1>2. /\ LaidOut("w1") = [p \in 0 .. 0 + w - 1 |-> <<(p - 0) \div d, (p - 0) % d>>]
      /\ LaidOut("w3") = [p \in w .. w + w - 1 |-> <<(p - w) \div d, (p - w) % d>>]
      /\ LaidOut("w2") = [p \in o .. o + w - 1 |-> <<(p - o) % i, (p - o) \div i>>]
  BY DEF LaidOut, RowMajor, ColumnMajor
<1> HIDE DEF i, d, w, o
<1>3. row \in 0 .. w - 1 /\ row \div d = x /\ row % d = y
  <2>1. row \in 0 .. i * d - 1
    BY <1>1, PartBelow
  <2>2. x \in Int
    BY <1>1
  <2> QED BY <1>1, <2>1, <2>2, DivOfParts
<1>4. column \in 0 .. w - 1 /\ column \div i = y /\ column % i = x
  <2>1. column \in 0 .. d * i - 1 /\ d * i = i * d
    BY <1>1, PartBelow
  <2>2. y \in Int
    BY <1>1
  <2> QED BY <1>1, <2>1, <2>2, DivOfParts
<1>5. /\ (i + x) * d + y = w + row
      /\ 2 * d * i + y * i + x = o + column
  <2>1. (i + x) * d = i * d + x * d /\ 2 * d * i = i * d + i * d
    BY <1>1
  <2>2. x * d \in Int /\ y * i \in Int /\ x \in Int /\ y \in Int
    BY <1>1
  <2> DEFINE m == x * d
             k == y * i
             j == i * d
  <2> HIDE DEF m, k, j
  <2>3. /\ m \in Int /\ k \in Int /\ j \in Int /\ x \in Int /\ y \in Int
        /\ (i + x) * d = j + m /\ 2 * d * i = j + j /\ w = j /\ o = j + j
        /\ row = m + y /\ column = k + x
    BY <1>1, <2>1, <2>2 DEF m, k, j
  <2>4. (j + m) + y = j + (m + y) /\ (j + j) + k + x = (j + j) + (k + x)
    BY <2>3
  <2> QED BY <2>3, <2>4 DEF k
<1> HIDE DEF row, column
<1>6. row \in DOMAIN LaidOut("w1") /\ LaidOut("w1")[row] = <<x, y>>
  <2>1. row \in 0 .. 0 + w - 1 /\ row - 0 = row
    BY <1>1, <1>3
  <2> QED BY <1>2, <1>3, <2>1
<1>7. w + row \in DOMAIN LaidOut("w3") /\ LaidOut("w3")[w + row] = <<x, y>>
  <2>1. w + row \in w .. w + w - 1 /\ (w + row) - w = row
    BY <1>1, <1>3
  <2> QED BY <1>2, <1>3, <2>1
<1>8. o + column \in DOMAIN LaidOut("w2") /\ LaidOut("w2")[o + column] = <<x, y>>
  <2>1. o + column \in o .. o + w - 1 /\ (o + column) - o = column
    BY <1>1, <1>4
  <2> QED BY <1>2, <1>4, <2>1
<1> QED BY <1>5, <1>6, <1>7, <1>8 DEF i, d, row

-----------------------------------------------------------------------------
(* The theorems *)

LEMMA LoadInvAlways == Spec => []LoadInv
<1>1. Init => LoadInv
  BY LoadStarts DEF Init
<1>2. LoadInv /\ [Next]_vars => LoadInv'
  BY LoadPreserves, LoadStutters DEF Next, Load, Forward, vars
<1> QED BY <1>1, <1>2, PTL DEF Spec

\* Of a key head phi's projections bring a rank the rows of its share, and where
\* there are fewer key heads than ranks the share is less than a head.
InShare(place) ==
  config.model = "phi" /\ place[1] \in {"k", "v"} => place[4] \in 0 .. ColumnSize(place[1]) - 1

SharesInv == \A r \in Ranks : \A place \in DOMAIN params[r] : InShare(place)

LEMMA StoredInShare ==
  ASSUME config \in Configs, NEW r \in Ranks, NEW t \in Tensors(config),
         NEW place \in DOMAIN Stored(r, t)
  PROVE  InShare(place)
<1> SUFFICES ASSUME config.model = "phi", place[1] \in {"k", "v"}
             PROVE  place[4] \in 0 .. ColumnSize(place[1]) - 1
  BY DEF InShare
<1>1. Stored(r, t) = Phi_load_weights(r, t)
  BY DEF Stored
<1>2. t[1] \in {"gate", "q", "k", "v", "o"} \union Experts
  BY DEF Tensors
<1>3. CASE t[1] = "gate"
  <2>1. Stored(r, t) = GateWeight(t)
    BY <1>1, <1>3 DEF Phi_load_weights, Experts
  <2>2. place \in {<<"gate", t[2], 0, 0>>}
    BY <2>1 DEF GateWeight
  <2> QED BY <2>2
<1>4. CASE t[1] \in {"q", "k", "v"}
  <2>1. Stored(r, t) = ColumnShard(r, t)
    <3>1. t[1] # "gate"
      BY <1>4
    <3> QED BY <1>1, <1>4, <3>1 DEF Phi_load_weights, Experts
  <2>2. PICK x \in 0 .. ColumnSize(t[1]) - 1 : place = <<t[1], t[2], 0, x>>
    BY <2>1 DEF ColumnShard
  <2>3. place[1] = t[1] /\ place[4] = x
    BY <2>2
  <2> QED BY <2>2, <2>3
<1>5. CASE t[1] = "o"
  <2>1. Stored(r, t) = RowShard(r, t)
    BY <1>1, <1>5 DEF Phi_load_weights, Experts
  <2>2. PICK x \in 0 .. RowSize - 1 : place = <<"o", t[2], 0, x>>
    BY <2>1 DEF RowShard
  <2> QED BY <2>2
<1>6. CASE t[1] \in Experts
  <2>1. Stored(r, t) = Page(r, t[1], t[2], t[3])
    BY <1>1, <1>6 DEF Phi_load_weights, PhiMoE_weight_loader, Experts
  <2>2. Page(r, t[1], t[2], t[3]) =
          [p \in {<<"ws", t[2], t[3], x>> : x \in DOMAIN LaidOut(t[1])} |->
             <<t[1], t[2], t[3], r * intermediate_size + LaidOut(t[1])[p[4]][1],
               LaidOut(t[1])[p[4]][2]>>]
    BY DEF Page, LaidOut
  <2>3. PICK x \in DOMAIN LaidOut(t[1]) : place = <<"ws", t[2], t[3], x>>
    BY <2>1, <2>2
  <2> QED BY <2>3
<1> QED BY <1>2, <1>3, <1>4, <1>5, <1>6

LEMMA SharesAlways == Spec => []SharesInv
<1>1. Init => SharesInv
  <2> SUFFICES ASSUME Init, NEW r \in Ranks PROVE DOMAIN params[r] = {}
    BY DEF SharesInv
  <2>1. params[r] = <<>>
    BY DEF Init, LoadingInit
  <2> QED BY <2>1
<1>2. LoadInv /\ SharesInv /\ [Next]_vars => SharesInv'
  <2> SUFFICES ASSUME LoadInv, SharesInv, [Next]_vars PROVE SharesInv'
    OBVIOUS
  <2>1. CASE UNCHANGED loading_vars
    BY <2>1 DEF loading_vars, SharesInv, InShare, Ranks, ColumnSize, head_size
  <2>2. ASSUME NEW q \in Ranks, LoadNext(q) PROVE SharesInv'
    <3> DEFINE shard == Stored(q, names[loaded[q] + 1])
    <3>1. /\ config' = config /\ params' = [params EXCEPT ![q] = CopiedTo(params[q], shard)]
          /\ loaded[q] < Len(names)
      BY <2>2 DEF LoadNext
    <3>2. /\ config \in Configs /\ DOMAIN params = Ranks /\ names \in Seq(Tensors(config))
          /\ loaded[q] \in Nat /\ Len(names) \in Nat
      BY LenProperties DEF LoadInv, NamesInv
    <3>3. names[loaded[q] + 1] \in Tensors(config)
      <4>1. loaded[q] + 1 \in 1 .. Len(names)
        BY <3>1, <3>2
      <4> QED BY <3>2, <4>1, ElementOfSeq
    <3>4. \A place \in DOMAIN shard : InShare(place)
      BY <3>2, <3>3, StoredInShare
    <3>5. Ranks' = Ranks /\ \A place : InShare(place)' <=> InShare(place)
      BY <3>1 DEF Ranks, InShare, ColumnSize, head_size
    <3> HIDE DEF shard
    <3>6. DOMAIN CopiedTo(params[q], shard) = DOMAIN params[q] \union DOMAIN shard
      BY DEF CopiedTo
    <3>7. ASSUME NEW r \in Ranks, NEW place \in DOMAIN params'[r] PROVE InShare(place)
      <4>1. CASE r = q
        BY <3>1, <3>2, <3>4, <3>6, <3>7, <4>1 DEF SharesInv
      <4>2. CASE r # q
        BY <3>1, <3>2, <3>7, <4>2 DEF SharesInv
      <4> QED BY <4>1, <4>2
    <3> QED BY <3>5, <3>7 DEF SharesInv
  <2> QED BY <2>1, <2>2 DEF Next, Load, Forward, vars
<1> QED BY <1>1, <1>2, LoadInvAlways, PTL DEF Spec

LEMMA LessThanAHead ==
  ASSUME config \in Configs, ~WholeHeads, NEW name \in {"k", "v"}
  PROVE  config.model = "phi" /\ head_size - 1 \notin 0 .. ColumnSize(name) - 1
<1> DEFINE tp == config.tp_size
           k == config.kv_heads
           d == head_size
           q == ColumnSize(name)
<1>1. config.model = "phi" /\ ~(k >= tp)
  BY DEF WholeHeads
<1>2. tp \in Nat \ {0} /\ k \in Nat \ {0} /\ d \in Nat \ {0} /\ (k * d) % tp = 0
  BY <1>1, ConfigNumbers, ConfigAssumption DEF PhiHeads, head_size
<1>3. q = (k * d) \div tp
  BY DEF ColumnSize
<1>4. k < tp
  BY <1>1, <1>2
<1> HIDE DEF tp, k, d, q
<1>5. k * d \in Nat \ {0}
  BY <1>2
<1>6. q \in Nat /\ k * d = q * tp
  BY <1>2, <1>3, <1>5, DivExact
<1>7. q >= d => q * tp >= d * tp
  <2>1. \A a \in Nat, b \in Nat, c \in Nat : a >= b => a * c >= b * c
    OBVIOUS
  <2> QED BY <1>2, <1>6, <2>1
<1>8. k * d < d * tp
  <2>1. \A a \in Nat, b \in Nat, c \in Nat \ {0} : a < b => a * c < c * b
    OBVIOUS
  <2> QED BY <1>2, <1>4, <2>1
<1>9. q < d
  BY <1>2, <1>6, <1>7, <1>8
<1> QED BY <1>1, <1>2, <1>6, <1>9 DEF d, q

\* For every configuration that the attention and its projections accept, once
\* the checkpoint is loaded each rank's query heads meet the columns of the output
\* projection that consume them; and all of the key head they belong to, but for
\* phi with fewer key heads than ranks, where no rank has all of a key head.
THEOREM HeadsMeetAlways == Spec => []HeadsMeet
<1>1. LoadInv /\ SharesInv => HeadsMeet
  <2> SUFFICES ASSUME LoadInv, SharesInv, AllLoaded, NEW r \in Ranks, NEW l \in LayersOf(config),
                      NEW h \in 0 .. q_heads - 1, NEW x \in 0 .. head_size - 1
               PROVE  LET head == r * q_heads + h
                          kv_head == head \div (config.heads \div config.kv_heads)
                      IN  /\ QElement(r, l, h * head_size + x) = <<"q", l, 0, head * head_size + x, 0>>
                          /\ \A name \in {"k", "v"} :
                               IF WholeHeads
                               THEN KVElement(r, l, name, LocalKVHead(h) * head_size + x)
                                      = <<name, l, 0, kv_head * head_size + x, 0>>
                               ELSE KVPlace(l, name, head_size - 1) \notin DOMAIN params[r]
                          /\ params[r][<<"o", l, 0, h * head_size + x>>]
                               = <<"o", l, 0, 0, head * head_size + x>>
    BY DEF HeadsMeet
  <2>1. q_heads = num_heads
    BY DEF q_heads, num_heads
  <2>2. h \in 0 .. num_heads - 1
    BY <2>1
  <2>3. ASSUME ~WholeHeads, NEW name \in {"k", "v"}
        PROVE  KVPlace(l, name, head_size - 1) \notin DOMAIN params[r]
    <3>1. config \in Configs
      BY DEF LoadInv, NamesInv
    <3>2. config.model = "phi" /\ head_size - 1 \notin 0 .. ColumnSize(name) - 1
      BY <2>3, <3>1, LessThanAHead
    <3> DEFINE place == <<name, l, 0, head_size - 1>>
    <3>3. KVPlace(l, name, head_size - 1) = place
      BY <3>2 DEF KVPlace
    <3>4. place[1] = name /\ place[4] = head_size - 1
      OBVIOUS
    <3> HIDE DEF place
    <3>5. ~InShare(place)
      BY <3>2, <3>4 DEF InShare
    <3> QED BY <3>3, <3>5 DEF SharesInv
  <2> QED BY <2>1, <2>2, <2>3, QueriesMeet, KeysMeet
<1> QED BY <1>1, LoadInvAlways, SharesAlways, PTL

\* For every configuration, every page of a rank holds w1, w3 and w2 of its
\* layer's expert where the MoE kernel looks for them, for the same part of
\* the intermediate elements.
THEOREM PagesMatchAlways == Spec => []PagesMatch
<1>1. LoadInv => PagesMatch
  <2> SUFFICES ASSUME LoadInv, AllLoaded, NEW r \in Ranks, NEW l \in LayersOf(config),
                      NEW e \in ExpertsOf(config), NEW x \in 0 .. intermediate_size - 1,
                      NEW y \in 0 .. hidden_size - 1
               PROVE  LET element == r * intermediate_size + x
                          At(place) == params[r][<<"ws", l, e, place>>]
                      IN  /\ At(x * hidden_size + y) = <<"w1", l, e, element, y>>
                          /\ At((intermediate_size + x) * hidden_size + y)
                               = <<"w3", l, e, element, y>>
                          /\ At(2 * hidden_size * intermediate_size + y * intermediate_size + x)
                               = <<"w2", l, e, element, y>>
    BY DEF PagesMatch
  <2> DEFINE a == x * hidden_size + y
             b == (intermediate_size + x) * hidden_size + y
             c == 2 * hidden_size * intermediate_size + y * intermediate_size + x
             element == r * intermediate_size + x
  <2>1. config \in Configs
    BY DEF LoadInv, NamesInv
  <2>2. /\ a \in DOMAIN LaidOut("w1") /\ LaidOut("w1")[a] = <<x, y>>
        /\ b \in DOMAIN LaidOut("w3") /\ LaidOut("w3")[b] = <<x, y>>
        /\ c \in DOMAIN LaidOut("w2") /\ LaidOut("w2")[c] = <<x, y>>
    BY <2>1, PlacesInPage
  <2> HIDE DEF a, b, c
  <2>3. ASSUME NEW name \in Experts, NEW place \in DOMAIN LaidOut(name),
               LaidOut(name)[place] = <<x, y>>
        PROVE  params[r][<<"ws", l, e, place>>] = <<name, l, e, element, y>>
    BY <2>3, PagesHeld
  <2>4. /\ params[r][<<"ws", l, e, a>>] = <<"w1", l, e, element, y>>
        /\ params[r][<<"ws", l, e, b>>] = <<"w3", l, e, element, y>>
        /\ params[r][<<"ws", l, e, c>>] = <<"w2", l, e, element, y>>
    BY <2>2, <2>3 DEF Experts
  <2> QED BY <2>4 DEF a, b, c
<1> QED BY <1>1, LoadInvAlways, PTL
=============================================================================
