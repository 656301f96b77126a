------------------------ MODULE PrefillKernelsProofs ------------------------
(***************************************************************************)
(* The mixture of experts on the GPU, for every number of tokens, experts, *)
(* experts per token and columns, all block and group sizes, any routing   *)
(* and any order of the programs: a program finds its tokens and its       *)
(* expert inside the arrays (LoadsInBounds), and the layer computes what   *)
(* it should (MoEExact).                                                   *)
(***************************************************************************)
EXTENDS PrefillKernels, SequenceLemmas

-----------------------------------------------------------------------------
(* Numbers of blocks *)

\* cdiv(a, b) blocks of b are enough for a numbers, and no block is empty.
LEMMA Blocks ==
  ASSUME NEW a \in Nat, NEW b \in Nat \ {0}
  PROVE  cdiv(a, b) \in Nat /\ a <= b * cdiv(a, b) /\ b * cdiv(a, b) <= a + b - 1
<1> DEFINE q == (a + b - 1) \div b
           r == (a + b - 1) % b
<1>1. q \in Int /\ r \in 0 .. b - 1 /\ a + b - 1 = q * b + r
  <2> DEFINE h == a + b - 1
  <2>1. h \in Int /\ b \in Nat /\ b >= 1
    OBVIOUS
  <2> HIDE DEF h
  <2>2. h \div b \in Int /\ h % b \in 0 .. b - 1 /\ h = (h \div b) * b + (h % b)
    BY <2>1, DivParts
  <2> QED BY <2>2 DEF h
<1>2. cdiv(a, b) = q
  BY DEF cdiv
<1> HIDE DEF q, r
<1>3. q >= 0
  <2>1. SUFFICES ASSUME q <= -1 PROVE FALSE
    BY <1>1
  <2>2. q * b <= -1 * b
    BY <1>1, <2>1, ProductsOrdered
  <2> QED BY <1>1, <2>2
<1>4. b * q = q * b
  BY <1>1
<1> QED BY <1>1, <1>2, <1>3, <1>4

\* A number below a is in one of the cdiv(a, b) blocks.
LEMMA BlockOf ==
  ASSUME NEW a \in Nat, NEW b \in Nat \ {0}, NEW x \in 0 .. a - 1
  PROVE  /\ x \div b \in 0 .. cdiv(a, b) - 1
         /\ x % b \in 0 .. b - 1
         /\ x = (x \div b) * b + (x % b)
<1> DEFINE q == x \div b
           r == x % b
           c == cdiv(a, b)
<1>1. q \in Int /\ r \in 0 .. b - 1 /\ x = q * b + r
  BY DivParts
<1>2. c \in Nat /\ a <= b * c
  BY Blocks
<1> HIDE DEF q, r, c
<1>3. q >= 0
  <2>1. SUFFICES ASSUME q <= -1 PROVE FALSE
    BY <1>1
  <2>2. q * b <= -1 * b
    BY <1>1, <2>1, ProductsOrdered
  <2> QED BY <1>1, <2>2
<1>4. q * b < c * b
  <2>1. c * b = b * c
    BY <1>2
  <2>2. q * b \in Int
    BY <1>1
  <2> QED BY <1>1, <1>2, <2>1, <2>2
<1>5. q < c
  BY <1>1, <1>2, <1>4, OrderOfProducts
<1>6. q \in 0 .. c - 1
  BY <1>1, <1>2, <1>3, <1>5
<1>7. q \in 0 .. c - 1 /\ r \in 0 .. b - 1 /\ x = q * b + r
  BY <1>1, <1>6
<1> QED BY <1>7 DEF q, r, c

\* The turns of the loop over k take every number of a row, and no other.
LEMMA AllAccumulated ==
  ASSUME NEW k \in Nat, BLOCK_SIZE_K \in Nat \ {0}
  PROVE  Accumulated(k) = 0 .. k - 1
<1> DEFINE b == BLOCK_SIZE_K
           Turn(j) == {j * b + x : x \in {y \in 0 .. b - 1 : y < k - j * b}}
<1>1. Accumulated(k) = UNION {Turn(j) : j \in 0 .. cdiv(k, b) - 1}
  BY DEF Accumulated
<1>2. ASSUME NEW j \in 0 .. cdiv(k, b) - 1, NEW v \in Turn(j)
      PROVE  v \in 0 .. k - 1
  <2>1. cdiv(k, b) \in Nat
    BY Blocks
  <2>2. PICK x \in 0 .. b - 1 : x < k - j * b /\ v = j * b + x
    OBVIOUS
  <2>3. j \in Nat /\ j * b \in Nat
    BY <2>1, ProductsAreNat
  <2> QED BY <2>2, <2>3
<1>3. ASSUME NEW v \in 0 .. k - 1
      PROVE  \E j \in 0 .. cdiv(k, b) - 1 : v \in Turn(j)
  <2>1. v \div b \in 0 .. cdiv(k, b) - 1 /\ v % b \in 0 .. b - 1 /\ v = (v \div b) * b + (v % b)
    BY BlockOf
  <2>2. (v \div b) * b \in Int
    BY <2>1, Blocks
  <2>3. v % b < k - (v \div b) * b
    BY <2>1, <2>2
  <2>4. v \in Turn(v \div b)
    BY <2>1, <2>3
  <2> QED BY <2>1, <2>4
<1> HIDE DEF Turn
<1> QED BY <1>1, <1>2, <1>3

-----------------------------------------------------------------------------
(* Sizes, and the two launches *)

LEMMA Sizes ==
  /\ M \in Nat \ {0} /\ topk \in Nat \ {0} /\ E \in Nat \ {0}
  /\ H \in Nat \ {0} /\ inter \in Nat \ {0}
  /\ BLOCK_SIZE_M \in Nat \ {0} /\ BLOCK_SIZE_N \in Nat \ {0} /\ BLOCK_SIZE_K \in Nat \ {0}
  /\ GROUP_SIZE_M \in Nat \ {0}
  /\ numel \in Nat \ {0}
  /\ E * (BLOCK_SIZE_M - 1) \in Nat /\ EM \in Nat \ {0} /\ EM = numel + E * (BLOCK_SIZE_M - 1)
<1>1. /\ M \in Nat \ {0} /\ topk \in Nat \ {0} /\ E \in Nat \ {0}
      /\ H \in Nat \ {0} /\ inter \in Nat \ {0}
      /\ BLOCK_SIZE_M \in Nat \ {0} /\ BLOCK_SIZE_N \in Nat \ {0}
      /\ BLOCK_SIZE_K \in Nat \ {0} /\ GROUP_SIZE_M \in Nat \ {0}
  BY MoEAssumption
<1>2. numel \in Nat \ {0}
  <2>1. \A a, b \in Nat \ {0} : a * b \in Nat \ {0}
    BY Z3
  <2> QED BY <1>1, <2>1 DEF numel
<1>3. E * (BLOCK_SIZE_M - 1) \in Nat
  BY <1>1, ProductsAreNat
<1> QED BY <1>1, <1>2, <1>3 DEF EM

\* The rows of w1 and w3, one after the other.
LEMMA Columns == N = 2 * inter /\ N \div 2 = inter /\ N \in Nat \ {0}
<1> DEFINE p == inter * H
<1>1. inter \in Nat \ {0} /\ H \in Nat \ {0} /\ p \in Nat
  BY Sizes, ProductsAreNat
<1>2. page_size = 3 * p
  <2>1. 3 * inter * H = 3 * (inter * H)
    BY <1>1, Z3
  <2> QED BY <2>1 DEF page_size
<1>3. (2 * inter) * H = 2 * p
  BY <1>1, Z3
<1> HIDE DEF p
<1>4. (2 * page_size) \div 3 = 2 * p
  BY <1>1, <1>2
<1>5. ((2 * inter) * H + 0) \div H = 2 * inter
  <2>1. H \in Nat /\ H >= 1 /\ 2 * inter \in Int /\ 0 \in 0 .. H - 1
    BY <1>1
  <2> QED BY <2>1, DivOfParts
<1>6. (2 * inter) * H + 0 = (2 * page_size) \div 3
  BY <1>1, <1>3, <1>4
<1>7. N = 2 * inter
  BY <1>5, <1>6 DEF N
<1> QED BY <1>1, <1>7

Classes == {"mixtral", "phi", "dbrx"}

LEMMA BothLaunches ==
  ASSUME model \in Classes
  PROVE  /\ Launched("gate_up")
              = [cols |-> N, K |-> H, top_k |-> topk, w2_off |-> 0, weighted |-> FALSE]
         /\ Launched("down")
              = [cols |-> H, K |-> N \div 2, top_k |-> 1, w2_off |-> 2 * H, weighted |-> TRUE]
<1>1. /\ stack_fused_moe.gate_up
           = [cols |-> N, K |-> H, top_k |-> topk, w2_off |-> 0, weighted |-> FALSE]
      /\ stack_fused_moe.down
           = [cols |-> H, K |-> N \div 2, top_k |-> 1, w2_off |-> 2 * H, weighted |-> TRUE]
  BY Zenon DEF stack_fused_moe
<1>2. _stack_fused_moe_with_routing_info = stack_fused_moe
  BY Zenon DEF stack_fused_moe, _stack_fused_moe_with_routing_info
<1> HIDE DEF stack_fused_moe, _stack_fused_moe_with_routing_info
<1>3. \A name : Launched(name) = stack_fused_moe[name]
  BY <1>2 DEF Launched, Classes, MixtralMoE_forward, DbrxExperts_forward, PhiMoE_forward
<1> QED BY <1>1, <1>3

-----------------------------------------------------------------------------
(* Programs and the tiles of the result *)

\* The programs of one group share their first row of tiles, of which there
\* is at least one.
LEMMA Group ==
  ASSUME NEW cols \in Nat \ {0}, NEW pid \in Grid(cols)
  PROVE  /\ num_pid_m \in Nat /\ num_pid_n(cols) \in Nat \ {0}
         /\ num_pid_in_group(cols) \in Nat \ {0}
         /\ first_pid_m(pid, cols) \in 0 .. num_pid_m - 1
         /\ group_size_m(pid, cols) \in 1 .. num_pid_m - first_pid_m(pid, cols)
         /\ pid % num_pid_in_group(cols) \in Nat
<1> DEFINE g == GROUP_SIZE_M
           m == num_pid_m
           n == num_pid_n(cols)
           p == num_pid_in_group(cols)
           q == pid \div p
           r == pid % p
<1>1. g \in Nat \ {0} /\ m \in Nat /\ n \in Nat
  BY Sizes, Blocks DEF num_pid_m, num_pid_n
<1>2. pid \in 0 .. m * n - 1
  BY DEF Grid
<1>3. n # 0
  BY <1>1, <1>2
<1>4. p = g * n /\ p \in Nat \ {0}
  <2>1. \A a, b \in Nat \ {0} : a * b \in Nat \ {0}
    BY Z3
  <2> QED BY <1>1, <1>3, <2>1 DEF num_pid_in_group
<1>5. q \in Int /\ r \in 0 .. p - 1 /\ pid = q * p + r
  <2>1. pid \in Int /\ p \in Nat /\ p >= 1
    BY <1>1, <1>2, <1>4
  <2> HIDE DEF p
  <2> QED BY <2>1, DivParts
<1>6. first_pid_m(pid, cols) = g * q
  BY DEF first_pid_m
<1>7. group_size_m(pid, cols) = IF m - g * q < g THEN m - g * q ELSE g
  BY <1>6 DEF group_size_m
<1>8. r \in Nat
  BY <1>4, <1>5
<1> HIDE DEF g, m, n, p, q, r
<1>9. q >= 0
  <2>1. SUFFICES ASSUME q <= -1 PROVE FALSE
    BY <1>5
  <2>2. q * p <= -1 * p
    BY <1>4, <1>5, <2>1, ProductsOrdered
  <2>3. pid >= 0
    BY <1>1, <1>2
  <2> QED BY <1>4, <1>5, <2>2, <2>3
<1>10. g * q \in Nat /\ g * q < m
  <2>1. g * q \in Nat /\ q \in Nat
    BY <1>1, <1>5, <1>9, ProductsAreNat
  <2>2. q * p = (g * q) * n
    <3>1. q * (g * n) = (g * q) * n
      BY <1>1, <2>1, Z3
    <3> QED BY <1>4, <3>1
  <2>3. (g * q) * n \in Nat /\ m * n \in Nat
    BY <1>1, <2>1, ProductsAreNat
  <2>4. (g * q) * n < m * n
    BY <1>2, <1>5, <1>4, <2>2, <2>3
  <2> QED BY <1>1, <1>3, <2>1, <2>4, OrderOfProducts
<1>11. first_pid_m(pid, cols) \in 0 .. m - 1
  BY <1>1, <1>6, <1>10
<1>12. group_size_m(pid, cols) \in 1 .. m - first_pid_m(pid, cols)
  BY <1>1, <1>6, <1>7, <1>10
<1> QED BY <1>1, <1>3, <1>4, <1>8, <1>11, <1>12 DEF m, n, p, r

LEMMA TileOfProgram ==
  ASSUME NEW cols \in Nat \ {0}, NEW pid \in Grid(cols)
  PROVE  pid_m(pid, cols) \in Nat /\ pid_n(pid, cols) \in Nat
<1> DEFINE s == group_size_m(pid, cols)
           r == pid % num_pid_in_group(cols)
<1>1. s \in Nat \ {0} /\ r \in Nat /\ first_pid_m(pid, cols) \in Nat
  <2>1. num_pid_m \in Nat /\ first_pid_m(pid, cols) \in 0 .. num_pid_m - 1
        /\ s \in 1 .. num_pid_m - first_pid_m(pid, cols) /\ r \in Nat
    BY Group
  <2> HIDE DEF s, r
  <2> QED BY <2>1
<1>2. pid_m(pid, cols) = first_pid_m(pid, cols) + (r % s) /\ pid_n(pid, cols) = r \div s
  BY DEF pid_m, pid_n
<1> HIDE DEF s, r
<1>3. r % s \in 0 .. s - 1
  <2>1. s \in Nat /\ s >= 1 /\ r \in Int
    BY <1>1
  <2> QED BY <2>1, DivParts
<1>4. r \div s \in Nat
  <2>1. PICK a \in Nat : r \in 0 .. a - 1
    <3>1. r + 1 \in Nat /\ r \in 0 .. (r + 1) - 1
      BY <1>1
    <3> QED BY <3>1
  <2>2. r \div s \in 0 .. cdiv(a, s) - 1 /\ cdiv(a, s) \in Nat
    BY <1>1, <2>1, BlockOf, Blocks
  <2> QED BY <2>2
<1> QED BY <1>1, <1>2, <1>3, <1>4

\* Every tile has a program.
LEMMA ProgramOfTile ==
  ASSUME NEW cols \in Nat \ {0}, NEW i \in 0 .. num_pid_m - 1, NEW j \in 0 .. num_pid_n(cols) - 1
  PROVE  \E pid \in Grid(cols) : pid_m(pid, cols) = i /\ pid_n(pid, cols) = j
<1> DEFINE g == GROUP_SIZE_M
           m == num_pid_m
           n == num_pid_n(cols)
           p == num_pid_in_group(cols)
           q == i \div g
           f == g * q
           s == IF m - f < g THEN m - f ELSE g
           r == j * s + (i - f)
           pid == q * p + r
<1>1. g \in Nat \ {0} /\ m \in Nat /\ n \in Nat
  BY Sizes, Blocks DEF num_pid_m, num_pid_n
<1>2. i \in 0 .. m - 1 /\ j \in 0 .. n - 1 /\ n \in Nat \ {0}
  BY <1>1
<1>3. p = g * n /\ p \in Nat \ {0}
  <2>1. \A a, b \in Nat \ {0} : a * b \in Nat \ {0}
    BY Z3
  <2> QED BY <1>1, <1>2, <2>1 DEF num_pid_in_group
<1>4. q \in Nat /\ i - f \in 0 .. g - 1 /\ f \in Nat
  <2>1. q \in 0 .. cdiv(m, g) - 1 /\ i % g \in 0 .. g - 1 /\ i = q * g + (i % g)
        /\ cdiv(m, g) \in Nat
    BY <1>1, <1>2, BlockOf, Blocks
  <2>2. q \in Nat
    BY <2>1
  <2> HIDE DEF q
  <2>3. f = q * g /\ f \in Nat
    BY <1>1, <2>2, ProductsAreNat
  <2> HIDE DEF f
  <2> QED BY <1>1, <1>2, <2>1, <2>2, <2>3
<1>5. s \in 1 .. m - f /\ s <= g /\ i - f \in 0 .. s - 1 /\ s \in Nat \ {0}
  <2> HIDE DEF f, g, m
  <2> QED BY <1>1, <1>2, <1>4
<1>6. r \in Nat /\ r < n * s
  <2> HIDE DEF g, m, n, f, s
  <2>1. j * s \in Nat /\ n * s \in Nat /\ j \in Nat
    BY <1>1, <1>2, <1>5, ProductsAreNat
  <2>2. (j + 1) * s <= n * s
    <3>1. j + 1 <= n /\ j + 1 \in Int /\ n \in Int /\ s \in Nat
      BY <1>2, <1>5, <2>1
    <3> QED BY <3>1, ProductsOrdered
  <2>3. (j + 1) * s = j * s + s
    BY <1>5, <2>1, Distributes
  <2> QED BY <1>5, <2>1, <2>2, <2>3
<1>7. r \in 0 .. p - 1
  <2> HIDE DEF g, m, n, f, s, r
  <2>1. n * s <= n * g
    BY <1>1, <1>5, ProductsOrdered
  <2>2. n * g = p /\ n * s \in Nat /\ n * g \in Nat
    BY <1>1, <1>3, <1>5, ProductsAreNat
  <2> QED BY <1>3, <1>6, <2>1, <2>2
<1>8. pid \div p = q /\ pid % p = r
  <2>1. p \in Nat /\ p >= 1 /\ q \in Int
    BY <1>3, <1>4
  <2> HIDE DEF p, q, r
  <2> QED BY <1>7, <2>1, DivOfParts
<1>9. pid \in Grid(cols)
  <2>1. Grid(cols) = 0 .. m * n - 1
    BY DEF Grid
  <2> HIDE DEF g, m, n, p, q, f, s, r
  <2>2. q * p = f * n
    <3>1. q * (g * n) = (g * q) * n
      BY <1>1, <1>4, Z3
    <3> QED BY <1>3, <3>1 DEF f
  <2>3. f * n + s * n <= m * n
    <3>1. (f + s) * n <= m * n
      <4>1. f + s \in Int /\ m \in Int /\ f + s <= m /\ n \in Nat
        BY <1>1, <1>4, <1>5
      <4> QED BY <4>1, ProductsOrdered
    <3>2. (f + s) * n = f * n + s * n
      BY <1>1, <1>4, <1>5, Distributes
    <3> QED BY <3>1, <3>2
  <2>4. n * s = s * n
    BY <1>1, <1>5
  <2>5. f * n \in Nat /\ s * n \in Nat /\ m * n \in Nat
    BY <1>1, <1>4, <1>5, ProductsAreNat
  <2>6. pid \in Nat /\ pid < m * n
    BY <1>6, <2>2, <2>3, <2>4, <2>5
  <2> QED BY <2>1, <2>5, <2>6
<1>10. first_pid_m(pid, cols) = f /\ group_size_m(pid, cols) = s
  <2>1. first_pid_m(pid, cols) = f
    BY <1>8, Zenon DEF first_pid_m
  <2> HIDE DEF pid, f
  <2>2. group_size_m(pid, cols) = s
    BY <2>1, Zenon DEF group_size_m
  <2> QED BY <2>1, <2>2
<1>11. r % s = i - f /\ r \div s = j
  <2>1. s \in Nat /\ s >= 1 /\ j \in Int
    BY <1>1, <1>2, <1>5
  <2> HIDE DEF f, s
  <2> QED BY <1>5, <2>1, DivOfParts
<1>12. pid_m(pid, cols) = i /\ pid_n(pid, cols) = j
  <2>1. pid_m(pid, cols) = f + (r % s) /\ pid_n(pid, cols) = r \div s
    <3> HIDE DEF pid, f, s, r
    <3> QED BY <1>8, <1>10, Zenon DEF pid_m, pid_n
  <2> HIDE DEF pid, f, s, r
  <2> QED BY <1>2, <1>4, <1>11, <2>1
<1> HIDE DEF pid
<1> QED BY <1>9, <1>12

-----------------------------------------------------------------------------
(* moe_align_block_size *)

Routed == topk_ids \in [0 .. M - 1 -> [1 .. topk -> 0 .. E - 1]]

LEMMA PairsRouted ==
  ASSUME Routed, NEW pair \in 0 .. numel - 1
  PROVE  ExpertOf(pair) \in 0 .. E - 1
<1>1. /\ M \in Nat \ {0} /\ topk \in Nat \ {0} /\ numel = M * topk /\ numel \in Nat
      /\ E \in Nat \ {0}
  BY Sizes DEF numel
<1>2. /\ pair \div topk \in 0 .. cdiv(numel, topk) - 1 /\ cdiv(numel, topk) \in Nat
      /\ pair % topk \in 0 .. topk - 1
      /\ pair = (pair \div topk) * topk + (pair % topk)
  BY <1>1, BlockOf, Blocks
<1> DEFINE q == pair \div topk
           r == pair % topk
<1>3. q \in Nat /\ r \in 0 .. topk - 1 /\ pair = q * topk + r
  BY <1>2
<1>4. ExpertOf(pair) = topk_ids[q][1 + r]
  BY DEF ExpertOf
<1> HIDE DEF q, r
<1>5. q * topk \in Nat /\ M * topk \in Nat
  BY <1>1, <1>3, ProductsAreNat
<1>6. q < M
  BY <1>1, <1>3, <1>5, OrderOfProducts
<1>7. q \in 0 .. M - 1 /\ 1 + r \in 1 .. topk
  BY <1>1, <1>3, <1>6
<1>8. topk_ids[q] \in [1 .. topk -> 0 .. E - 1]
  BY <1>7 DEF Routed
<1>9. topk_ids[q][1 + r] \in 0 .. E - 1
  BY <1>7, <1>8
<1> QED BY <1>4, <1>9

\* The blocks of an expert hold its pairs, and less than a block of padding.
LEMMA BlocksOfExpert ==
  ASSUME NEW e \in 0 .. E - 1
  PROVE  /\ Pairs(e) \in SUBSET (0 .. numel - 1) /\ Pairs(e) \in SUBSET Nat
         /\ IsFiniteSet(Pairs(e)) /\ Cardinality(Pairs(e)) \in Nat
         /\ BlocksOf(e) \in Nat /\ BLOCK_SIZE_M * BlocksOf(e) \in Nat
         /\ Cardinality(Pairs(e)) <= BLOCK_SIZE_M * BlocksOf(e)
         /\ BLOCK_SIZE_M * BlocksOf(e) <= Cardinality(Pairs(e)) + BLOCK_SIZE_M - 1
<1>1. numel \in Nat /\ BLOCK_SIZE_M \in Nat \ {0}
  BY Sizes
<1>2. Pairs(e) \in SUBSET (0 .. numel - 1)
  BY DEF Pairs
<1>3. Pairs(e) \in SUBSET Nat
  BY <1>1, <1>2
<1>4. IsFiniteSet(0 .. numel - 1)
  BY <1>1, FS_Interval
<1>5. IsFiniteSet(Pairs(e)) /\ Cardinality(Pairs(e)) \in Nat
  BY <1>2, <1>4, FS_Subset, FS_CardinalityType
<1>6. /\ BlocksOf(e) \in Nat
      /\ Cardinality(Pairs(e)) <= BLOCK_SIZE_M * BlocksOf(e)
      /\ BLOCK_SIZE_M * BlocksOf(e) <= Cardinality(Pairs(e)) + BLOCK_SIZE_M - 1
  BY <1>1, <1>5, Blocks DEF BlocksOf
<1> QED BY <1>1, <1>2, <1>3, <1>5, <1>6, ProductsAreNat

\* g[1 .. e] is the number of blocks of the experts before expert e.
BlocksBefore(g) == g = Sums(g, [x \in 1 .. E |-> BlocksOf(x - 1)], E)

LEMMA BlocksAddUp ==
  ASSUME NEW g, BlocksBefore(g)
  PROVE  /\ g[1 .. 0] = 0
         /\ \A e \in 0 .. E - 1 : g[1 .. e + 1] = g[1 .. e] + BlocksOf(e)
         /\ \A e \in 0 .. E : g[1 .. e] \in Nat
<1> DEFINE w == [x \in 1 .. E |-> BlocksOf(x - 1)]
<1>1. E \in Nat /\ w \in [1 .. E -> Nat] /\ g = Sums(g, w, E)
  <2>1. \A x \in 1 .. E : BlocksOf(x - 1) \in Nat
    <3>1. \A x \in 1 .. E : x - 1 \in 0 .. E - 1
      BY Sizes
    <3> QED BY <3>1, BlocksOfExpert
  <2> QED BY <2>1, Sizes DEF BlocksBefore
<1>2. \A e \in 0 .. E - 1 : w[e + 1] = BlocksOf(e)
  <2>1. \A e \in 0 .. E - 1 : e + 1 \in 1 .. E /\ (e + 1) - 1 = e
    BY <1>1
  <2> QED BY <2>1
<1> HIDE DEF w
<1>3. g[1 .. 0] = 0 /\ \A k \in 1 .. E : g[1 .. k] = g[1 .. k - 1] + w[k]
  BY <1>1, SumsStep
<1>4. \A e \in 0 .. E : g[1 .. e] \in Nat
  BY <1>1, SumsType
<1>5. ASSUME NEW e \in 0 .. E - 1 PROVE g[1 .. e + 1] = g[1 .. e] + BlocksOf(e)
  <2>1. e + 1 \in 1 .. E /\ (e + 1) - 1 = e
    BY <1>1
  <2>2. g[1 .. e + 1] = g[1 .. (e + 1) - 1] + w[e + 1]
    BY <1>3, <2>1
  <2> QED BY <1>2, <2>1, <2>2
<1> QED BY <1>3, <1>4, <1>5

LEMMA BlocksGrow ==
  ASSUME NEW g, BlocksBefore(g), NEW e \in 0 .. E, NEW f \in e .. E
  PROVE  g[1 .. e] <= g[1 .. f]
<1> DEFINE D == {d \in Nat : e + d <= E => g[1 .. e] <= g[1 .. e + d]}
<1>1. /\ E \in Nat /\ e \in Nat
      /\ \A k \in 0 .. E : g[1 .. k] \in Nat
      /\ \A k \in 0 .. E - 1 : g[1 .. k + 1] = g[1 .. k] + BlocksOf(k) /\ BlocksOf(k) \in Nat
  BY Sizes, BlocksAddUp, BlocksOfExpert
<1>2. 0 \in D
  <2>1. e + 0 = e
    BY <1>1
  <2> QED BY <1>1, <2>1
<1>3. ASSUME NEW d \in D PROVE d + 1 \in D
  <2>1. SUFFICES ASSUME e + (d + 1) <= E PROVE g[1 .. e] <= g[1 .. e + (d + 1)]
    OBVIOUS
  <2> DEFINE k == e + d
  <2>2. k \in 0 .. E - 1 /\ k \in 0 .. E /\ e + (d + 1) = k + 1 /\ e + d <= E
    BY <1>1, <2>1
  <2>3. g[1 .. e] <= g[1 .. k]
    BY <2>2
  <2> HIDE DEF k
  <2>4. g[1 .. e] <= g[1 .. k + 1]
    BY <1>1, <2>2, <2>3
  <2> QED BY <2>2, <2>4
<1>4. D = Nat
  <2> HIDE DEF D
  <2>1. D \in SUBSET Nat
    BY DEF D
  <2> QED BY <1>2, <1>3, <2>1, Induction
<1>5. f - e \in Nat /\ e + (f - e) = f /\ e + (f - e) <= E
  BY <1>1
<1>6. f - e \in D
  BY <1>4, <1>5
<1>7. g[1 .. e] <= g[1 .. e + (f - e)]
  BY <1>5, <1>6
<1> QED BY <1>5, <1>7

\* All blocks fit the array: each expert pads less than one.
LEMMA BlocksFit ==
  ASSUME Routed, NEW g, BlocksBefore(g)
  PROVE  BLOCK_SIZE_M * g[1 .. E] <= EM
<1> DEFINE b == BLOCK_SIZE_M
           Before(e) == {pair \in 0 .. numel - 1 : ExpertOf(pair) < e}
           T == {e \in Nat : e <= E =>
                   b * g[1 .. e] <= Cardinality(Before(e)) + e * (b - 1)}
<1>1. /\ numel \in Nat /\ b \in Nat \ {0} /\ E \in Nat \ {0} /\ b - 1 \in Nat
      /\ EM = numel + E * (b - 1) /\ E * (b - 1) \in Nat
  BY Sizes
<1>2. /\ g[1 .. 0] = 0
      /\ \A e \in 0 .. E - 1 : g[1 .. e + 1] = g[1 .. e] + BlocksOf(e)
      /\ \A e \in 0 .. E : g[1 .. e] \in Nat
  BY BlocksAddUp
<1>3. IsFiniteSet(0 .. numel - 1) /\ Cardinality(0 .. numel - 1) = numel
  <2>1. Cardinality(0 .. numel - 1) = IF 0 > numel - 1 THEN 0 ELSE (numel - 1) - 0 + 1
    BY <1>1, FS_Interval
  <2> QED BY <1>1, <2>1, FS_Interval
<1>4. \A pair \in 0 .. numel - 1 : ExpertOf(pair) \in 0 .. E - 1
  BY PairsRouted
<1>5. ASSUME NEW e \in Nat
      PROVE  IsFiniteSet(Before(e)) /\ Cardinality(Before(e)) \in Nat
  BY <1>3, FS_Subset, FS_CardinalityType
<1>6. ASSUME NEW e \in 0 .. E - 1
      PROVE  Cardinality(Before(e + 1)) = Cardinality(Before(e)) + Cardinality(Pairs(e))
  <2>1. Before(e + 1) = Before(e) \cup Pairs(e)
    <3>1. \A pair \in 0 .. numel - 1 : ExpertOf(pair) < e + 1 <=> ExpertOf(pair) < e \/ ExpertOf(pair) = e
      BY <1>1, <1>4
    <3> QED BY <3>1 DEF Pairs
  <2>2. Before(e) \cap Pairs(e) = {}
    <3>1. \A pair \in 0 .. numel - 1 : ~(ExpertOf(pair) < e /\ ExpertOf(pair) = e)
      BY <1>1, <1>4
    <3> QED BY <3>1 DEF Pairs
  <2>3. IsFiniteSet(Before(e)) /\ Cardinality(Before(e)) \in Nat
        /\ IsFiniteSet(Pairs(e)) /\ Cardinality(Pairs(e)) \in Nat
    <3>1. e \in Nat
      BY <1>1
    <3> HIDE DEF Before
    <3> QED BY <1>5, <3>1, BlocksOfExpert
  <2> HIDE DEF Before
  <2>4. Cardinality(Before(e) \cup Pairs(e))
          = Cardinality(Before(e)) + Cardinality(Pairs(e)) - Cardinality({})
    BY <2>2, <2>3, FS_Union
  <2>5. Cardinality({}) = 0
    BY FS_EmptySet
  <2>6. Cardinality(Before(e + 1)) = Cardinality(Before(e) \cup Pairs(e))
    BY <2>1
  <2> QED BY <2>3, <2>4, <2>5, <2>6
<1>7. 0 \in T
  <2>1. Cardinality(Before(0)) \in Nat
    BY <1>5
  <2>2. b * 0 = 0 /\ 0 * (b - 1) = 0
    BY <1>1
  <2> HIDE DEF Before
  <2> QED BY <1>2, <2>1, <2>2
<1>8. ASSUME NEW e \in T PROVE e + 1 \in T
  <2>1. SUFFICES ASSUME e + 1 <= E
                 PROVE  b * g[1 .. e + 1] <= Cardinality(Before(e + 1)) + (e + 1) * (b - 1)
    OBVIOUS
  <2>2. e \in Nat /\ e \in 0 .. E - 1 /\ e \in 0 .. E
    BY <1>1, <2>1
  <2>3. b * g[1 .. e] <= Cardinality(Before(e)) + e * (b - 1)
    BY <1>1, <2>1, <2>2
  <2>4. g[1 .. e + 1] = g[1 .. e] + BlocksOf(e) /\ g[1 .. e] \in Nat
    BY <1>2, <2>2
  <2>5. Cardinality(Before(e + 1)) = Cardinality(Before(e)) + Cardinality(Pairs(e))
    BY <1>6, <2>2
  <2>6. Cardinality(Before(e)) \in Nat
    BY <1>5, <2>2
  <2> HIDE DEF Before, b
  <2>7. /\ BlocksOf(e) \in Nat /\ b * BlocksOf(e) \in Nat /\ Cardinality(Pairs(e)) \in Nat
        /\ b * BlocksOf(e) <= Cardinality(Pairs(e)) + b - 1
    BY <2>2, BlocksOfExpert DEF b
  <2>8. b * (g[1 .. e] + BlocksOf(e)) = b * g[1 .. e] + b * BlocksOf(e)
    BY <1>1, <2>4, <2>7, Distributes
  <2>9. (e + 1) * (b - 1) = e * (b - 1) + (b - 1)
    BY <1>1, <2>2, Distributes
  <2>10. b * g[1 .. e] \in Nat /\ e * (b - 1) \in Nat
    BY <1>1, <2>2, <2>4, ProductsAreNat
  <2>11. b * g[1 .. e + 1] = b * g[1 .. e] + b * BlocksOf(e)
    BY <2>4, <2>8
  <2> DEFINE u == b * g[1 .. e]
             v == b * BlocksOf(e)
             c == Cardinality(Before(e))
             d == Cardinality(Pairs(e))
             t == e * (b - 1)
  <2>12. /\ u \in Nat /\ v \in Nat /\ c \in Nat /\ d \in Nat /\ t \in Nat
         /\ u <= c + t /\ v <= d + b - 1
    BY <2>3, <2>6, <2>7, <2>10
  <2>13. /\ b * g[1 .. e + 1] = u + v
         /\ Cardinality(Before(e + 1)) = c + d
         /\ (e + 1) * (b - 1) = t + (b - 1)
    BY <2>5, <2>9, <2>11
  <2> HIDE DEF u, v, c, d, t
  <2>14. u + v <= (c + d) + (t + (b - 1))
    BY <1>1, <2>12
  <2> QED BY <2>13, <2>14
<1>9. T = Nat
  <2> HIDE DEF T
  <2>1. T \in SUBSET Nat
    BY DEF T
  <2> QED BY <1>7, <1>8, <2>1, Induction
<1>10. b * g[1 .. E] <= Cardinality(Before(E)) + E * (b - 1)
  <2>1. E \in T /\ E <= E
    <3> HIDE DEF T
    <3> QED BY <1>1, <1>9
  <2> HIDE DEF Before, b
  <2> QED BY <2>1 DEF T
<1>11. Cardinality(Before(E)) <= numel /\ Cardinality(Before(E)) \in Nat
  BY <1>1, <1>3, <1>5, FS_Subset
<1>12. b * g[1 .. E] \in Nat
  BY <1>1, <1>2, ProductsAreNat
<1> HIDE DEF Before, b
<1> QED BY <1>1, <1>10, <1>11, <1>12 DEF b

\* What the blocks of an expert hold.
Segment(e) ==
  [y \in 1 .. BLOCK_SIZE_M * BlocksOf(e) |->
     IF y <= Len(Sorted(Pairs(e))) THEN Sorted(Pairs(e))[y] ELSE numel]

LEMMA SegmentHolds ==
  ASSUME NEW e \in 0 .. E - 1
  PROVE  /\ Segment(e) \in Seq(0 .. numel)
         /\ Len(Segment(e)) = BLOCK_SIZE_M * BlocksOf(e)
         /\ \A y \in 1 .. Len(Segment(e)) :
              Segment(e)[y] = numel \/ Segment(e)[y] \in Pairs(e)
         /\ \A pair \in Pairs(e) : \E y \in 1 .. Len(Segment(e)) : Segment(e)[y] = pair
<1> DEFINE p == Sorted(Pairs(e))
           n == Cardinality(Pairs(e))
           l == BLOCK_SIZE_M * BlocksOf(e)
           s == Segment(e)
<1>1. /\ Pairs(e) \in SUBSET (0 .. numel - 1) /\ Pairs(e) \in SUBSET Nat
      /\ IsFiniteSet(Pairs(e)) /\ n \in Nat /\ l \in Nat /\ n <= l
  BY BlocksOfExpert
<1>2. p \in [1 .. n -> Pairs(e)] /\ \A pair \in Pairs(e) : \E i \in 1 .. n : p[i] = pair
  BY <1>1, SortedProperties, SortedAll
<1>3. Len(p) = n
  <2> HIDE DEF p, n
  <2> QED BY <1>1, <1>2, FunctionIsSeq
<1>4. s = [y \in 1 .. l |-> IF y <= n THEN p[y] ELSE numel]
  <2> HIDE DEF n
  <2> QED BY <1>3 DEF Segment
<1> HIDE DEF p, n, l, s
<1>5. numel \in Nat
  BY Sizes
<1>6. \A y \in 1 .. l : (y <= n => s[y] = p[y] /\ s[y] \in Pairs(e)) /\ (~(y <= n) => s[y] = numel)
  BY <1>1, <1>2, <1>4
<1>7. s \in [1 .. l -> 0 .. numel]
  <2>1. \A y \in 1 .. l : s[y] \in 0 .. numel
    BY <1>1, <1>5, <1>6
  <2> QED BY <1>4, <2>1
<1>8. s \in Seq(0 .. numel) /\ Len(s) = l
  BY <1>1, <1>7, FunctionIsSeq
<1>9. \A y \in 1 .. l : s[y] = numel \/ s[y] \in Pairs(e)
  BY <1>6
<1>10. ASSUME NEW pair \in Pairs(e) PROVE \E y \in 1 .. l : s[y] = pair
  <2>1. PICK y \in 1 .. n : p[y] = pair
    BY <1>2
  <2>2. y \in 1 .. l /\ y <= n
    BY <1>1
  <2> QED BY <1>6, <2>1, <2>2
<1> QED BY <1>8, <1>9, <1>10 DEF s, l

\* The pairs of the first k experts, each within its expert's blocks.
AlignedTo(g, k) ==
  {s \in Seq(0 .. numel) :
     /\ Len(s) = BLOCK_SIZE_M * g[1 .. k]
     /\ \A x \in 1 .. Len(s) : s[x] # numel =>
          /\ s[x] \in 0 .. numel - 1
          /\ BLOCK_SIZE_M * g[1 .. ExpertOf(s[x])] < x
          /\ x <= BLOCK_SIZE_M * g[1 .. ExpertOf(s[x]) + 1]
     /\ \A pair \in 0 .. numel - 1 :
          ExpertOf(pair) < k => \E x \in 1 .. Len(s) : s[x] = pair}

LEMMA AlignedStep ==
  ASSUME Routed, NEW g, BlocksBefore(g), NEW e \in 0 .. E - 1, NEW s \in AlignedTo(g, e)
  PROVE  s \o Segment(e) \in AlignedTo(g, e + 1)
<1> DEFINE b == BLOCK_SIZE_M
           t == Segment(e)
           u == s \o t
           m == Len(s)
           n == Len(t)
<1>1. /\ s \in Seq(0 .. numel) /\ m = b * g[1 .. e]
      /\ \A x \in 1 .. m : s[x] # numel =>
           /\ s[x] \in 0 .. numel - 1
           /\ b * g[1 .. ExpertOf(s[x])] < x
           /\ x <= b * g[1 .. ExpertOf(s[x]) + 1]
      /\ \A pair \in 0 .. numel - 1 :
           ExpertOf(pair) < e => \E x \in 1 .. m : s[x] = pair
  BY DEF AlignedTo
<1>2. /\ t \in Seq(0 .. numel) /\ n = b * BlocksOf(e)
      /\ \A y \in 1 .. n : t[y] = numel \/ t[y] \in Pairs(e)
      /\ \A pair \in Pairs(e) : \E y \in 1 .. n : t[y] = pair
  BY SegmentHolds
<1>3. m \in Nat /\ n \in Nat
  BY <1>1, <1>2, LenProperties
<1>4. /\ u \in Seq(0 .. numel) /\ Len(u) = m + n
      /\ \A x \in 1 .. m + n : u[x] = IF x <= m THEN s[x] ELSE t[x - m]
  BY <1>1, <1>2, ConcatProperties
<1>5. g[1 .. e + 1] = g[1 .. e] + BlocksOf(e) /\ g[1 .. e] \in Nat /\ BlocksOf(e) \in Nat
  <2>1. e \in 0 .. E
    BY Sizes
  <2> QED BY <2>1, BlocksAddUp, BlocksOfExpert
<1>6. b * g[1 .. e + 1] = m + n
  <2>1. b \in Int
    BY Sizes
  <2> QED BY <1>1, <1>2, <1>5, <2>1, Distributes
<1>7. \A pair \in 0 .. numel - 1 : ExpertOf(pair) \in 0 .. E - 1
  BY PairsRouted
<1>8. \A pair \in Pairs(e) : pair \in 0 .. numel - 1 /\ ExpertOf(pair) = e
  BY DEF Pairs
<1>9. e \in Nat /\ E \in Nat /\ numel \in Nat
  BY Sizes
<1> HIDE DEF b, t, u, m, n
<1>10. ASSUME NEW x \in 1 .. m + n, u[x] # numel
       PROVE  /\ u[x] \in 0 .. numel - 1
              /\ b * g[1 .. ExpertOf(u[x])] < x
              /\ x <= b * g[1 .. ExpertOf(u[x]) + 1]
  <2>1. CASE x <= m
    <3>1. x \in 1 .. m /\ u[x] = s[x]
      BY <1>3, <1>4, <2>1
    <3> QED BY <1>1, <1>10, <3>1
  <2>2. CASE ~(x <= m)
    <3>1. x - m \in 1 .. n /\ u[x] = t[x - m]
      BY <1>3, <1>4, <2>2
    <3>2. u[x] \in Pairs(e)
      BY <1>2, <1>10, <3>1
    <3>3. u[x] \in 0 .. numel - 1 /\ ExpertOf(u[x]) = e
      BY <1>8, <3>2
    <3>4. b * g[1 .. e] < x /\ x <= b * g[1 .. e + 1]
      BY <1>1, <1>3, <1>6, <2>2
    <3> QED BY <3>3, <3>4
  <2> QED BY <2>1, <2>2
<1>11. ASSUME NEW pair \in 0 .. numel - 1, ExpertOf(pair) < e + 1
       PROVE  \E x \in 1 .. m + n : u[x] = pair
  <2>1. CASE ExpertOf(pair) < e
    <3>1. PICK x \in 1 .. m : s[x] = pair
      BY <1>1, <2>1
    <3>2. x \in 1 .. m + n /\ x <= m
      BY <1>3
    <3> QED BY <1>4, <3>1, <3>2
  <2>2. CASE ExpertOf(pair) = e
    <3>1. pair \in Pairs(e)
      BY <2>2 DEF Pairs
    <3>2. PICK y \in 1 .. n : t[y] = pair
      BY <1>2, <3>1
    <3>3. m + y \in 1 .. m + n /\ ~(m + y <= m) /\ (m + y) - m = y
      BY <1>3
    <3>4. u[m + y] = pair
      BY <1>4, <3>2, <3>3
    <3> QED BY <3>3, <3>4
  <2>3. ExpertOf(pair) < e \/ ExpertOf(pair) = e
    BY <1>7, <1>9, <1>11
  <2> QED BY <2>1, <2>2, <2>3
<1>12. Len(u) = b * g[1 .. e + 1]
  BY <1>4, <1>6
<1>13. u \in AlignedTo(g, e + 1)
  BY <1>4, <1>10, <1>11, <1>12 DEF AlignedTo, b
<1> QED BY <1>13 DEF u, t

LEMMA NoneAligned ==
  ASSUME Routed, NEW g, BlocksBefore(g)
  PROVE  <<>> \in AlignedTo(g, 0)
<1>1. g[1 .. 0] = 0 /\ BLOCK_SIZE_M * 0 = 0
  BY BlocksAddUp, Sizes
<1>2. <<>> \in Seq(0 .. numel) /\ Len(<<>>) = 0
  OBVIOUS
<1>3. \A pair \in 0 .. numel - 1 : ~(ExpertOf(pair) < 0)
  <2>1. \A pair \in 0 .. numel - 1 : ExpertOf(pair) \in 0 .. E - 1
    BY PairsRouted
  <2> QED BY <2>1, Sizes
<1>4. 1 .. 0 = {}
  OBVIOUS
<1>5. Len(<<>>) = BLOCK_SIZE_M * g[1 .. 0]
  BY <1>1, <1>2
<1>6. 1 .. Len(<<>>) = {}
  BY <1>2, <1>4
<1> QED BY <1>2, <1>3, <1>5, <1>6 DEF AlignedTo

LEMMA AllAligned ==
  ASSUME Routed, NEW g, BlocksBefore(g)
  PROVE  aligned \in AlignedTo(g, E)
<1> DEFINE seqs == [x \in 1 .. E |-> Segment(x - 1)]
           A == [x \in 1 .. E |-> AlignedTo(g, x)]
           T == Seq(0 .. numel)
<1>1. aligned = FlattenSeq(seqs)
  <2>1. \A x \in 1 .. E : Segment(x - 1) =
          LET pairs == Sorted(Pairs(x - 1))
          IN  [y \in 1 .. BLOCK_SIZE_M * BlocksOf(x - 1) |->
                 IF y <= Len(pairs) THEN pairs[y] ELSE numel]
    BY DEF Segment
  <2> QED BY <2>1, Zenon DEF aligned, Segment
<1>2. E \in Nat /\ E >= 1 /\ \A x \in 1 .. E : x - 1 \in 0 .. E - 1
  BY Sizes
<1>3. seqs \in Seq(T) /\ Len(seqs) = E
  <2>1. \A x \in 1 .. E : Segment(x - 1) \in T
    BY <1>2, SegmentHolds
  <2>2. seqs \in [1 .. E -> T]
    BY <2>1
  <2> HIDE DEF seqs
  <2> QED BY <1>2, <2>2, FunctionIsSeq
<1>4. seqs[1] \in A[1]
  <2>1. 0 \in 0 .. E - 1 /\ 1 \in 1 .. E /\ 1 - 1 = 0 /\ 0 + 1 = 1
    BY <1>2
  <2>2. <<>> \o Segment(0) \in AlignedTo(g, 0 + 1)
    BY <2>1, NoneAligned, AlignedStep
  <2>3. <<>> \o Segment(0) = Segment(0)
    BY <2>1, SegmentHolds, ConcatEmptySeq
  <2> QED BY <2>1, <2>2, <2>3
<1>5. ASSUME NEW i \in 1 .. E - 1, NEW s \in A[i]
      PROVE  s \o seqs[i + 1] \in A[i + 1]
  <2>1. i \in 0 .. E - 1 /\ i \in 1 .. E /\ i + 1 \in 1 .. E /\ (i + 1) - 1 = i
    BY <1>2
  <2>2. s \in AlignedTo(g, i) /\ seqs[i + 1] = Segment(i) /\ A[i + 1] = AlignedTo(g, i + 1)
    BY <2>1
  <2> HIDE DEF seqs, A
  <2> QED BY <2>1, <2>2, AlignedStep
<1>6. FlattenSeq(seqs) \in A[E]
  <2> HIDE DEF seqs, A, T
  <2>1. Len(seqs) # 0
    BY <1>2, <1>3
  <2> QED BY <1>3, <1>4, <1>5, <2>1, FlattenIn
<1>7. E \in 1 .. E
  BY <1>2
<1> HIDE DEF seqs
<1> QED BY <1>1, <1>6, <1>7

\* The blocks' experts, for the first k experts.
ExpertsTo(g, k) ==
  {s \in Seq(0 .. E - 1) :
     /\ Len(s) = g[1 .. k]
     /\ \A e \in 0 .. k - 1 : \A i \in 1 .. Len(s) :
          g[1 .. e] < i /\ i <= g[1 .. e + 1] => s[i] = e}

LEMMA ExpertsStep ==
  ASSUME NEW g, BlocksBefore(g), NEW k \in 0 .. E - 1, NEW s \in ExpertsTo(g, k)
  PROVE  s \o [y \in 1 .. BlocksOf(k) |-> k] \in ExpertsTo(g, k + 1)
<1> DEFINE t == [y \in 1 .. BlocksOf(k) |-> k]
           u == s \o t
           m == Len(s)
           n == BlocksOf(k)
<1>1. /\ s \in Seq(0 .. E - 1) /\ m = g[1 .. k] /\ m \in Nat
      /\ \A e \in 0 .. k - 1 : \A i \in 1 .. m :
           g[1 .. e] < i /\ i <= g[1 .. e + 1] => s[i] = e
  BY LenProperties DEF ExpertsTo
<1>2. n \in Nat
  BY BlocksOfExpert
<1>3. t \in Seq(0 .. E - 1) /\ Len(t) = n /\ \A y \in 1 .. n : t[y] = k
  <2>1. t \in [1 .. n -> 0 .. E - 1] /\ \A y \in 1 .. n : t[y] = k
    OBVIOUS
  <2> HIDE DEF t, n
  <2> QED BY <1>2, <2>1, FunctionIsSeq
<1>4. /\ u \in Seq(0 .. E - 1) /\ Len(u) = m + n
      /\ \A i \in 1 .. m + n : u[i] = IF i <= m THEN s[i] ELSE t[i - m]
  <2> HIDE DEF t, n
  <2> QED BY <1>1, <1>3, ConcatProperties
<1>5. g[1 .. k + 1] = m + n
  BY <1>1, BlocksAddUp
<1>6. k \in Nat /\ E \in Nat /\ \A e \in 0 .. E : g[1 .. e] \in Nat
  BY BlocksAddUp, Sizes
<1>7. \A e \in 0 .. k : g[1 .. e] <= g[1 .. k]
  <2>1. \A e \in 0 .. k : e \in 0 .. E /\ k \in e .. E
    BY <1>6
  <2> QED BY <2>1, BlocksGrow
<1> HIDE DEF t, u, m, n
<1>8. ASSUME NEW e \in 0 .. (k + 1) - 1, NEW i \in 1 .. m + n, g[1 .. e] < i, i <= g[1 .. e + 1]
      PROVE  u[i] = e
  <2>1. CASE e < k
    <3>1. e \in 0 .. k - 1 /\ e + 1 \in 0 .. k /\ e + 1 \in 0 .. E /\ k \in 0 .. E
      BY <1>6, <2>1
    <3>2. g[1 .. e + 1] <= m /\ g[1 .. e + 1] \in Nat
      BY <1>1, <1>6, <1>7, <3>1
    <3>3. i \in 1 .. m /\ i <= m
      BY <1>1, <1>2, <1>8, <3>2
    <3>4. u[i] = s[i]
      BY <1>4, <3>3
    <3>5. s[i] = e
      BY <1>1, <1>8, <3>1, <3>3
    <3> QED BY <3>4, <3>5
  <2>2. CASE e = k
    <3>1. ~(i <= m) /\ i - m \in 1 .. n
      BY <1>1, <1>2, <1>8, <2>2
    <3> QED BY <1>3, <1>4, <2>2, <3>1
  <2> QED BY <1>6, <2>1, <2>2
<1>9. Len(u) = g[1 .. k + 1]
  BY <1>4, <1>5
<1>10. u \in ExpertsTo(g, k + 1)
  BY <1>4, <1>8, <1>9 DEF ExpertsTo
<1> QED BY <1>10 DEF u, t

LEMMA AllExperts ==
  ASSUME NEW g, BlocksBefore(g)
  PROVE  FlattenSeq([x \in 1 .. E |-> [y \in 1 .. BlocksOf(x - 1) |-> x - 1]])
           \in ExpertsTo(g, E)
<1> DEFINE Run(e) == [y \in 1 .. BlocksOf(e) |-> e]
           seqs == [x \in 1 .. E |-> Run(x - 1)]
           A == [x \in 1 .. E |-> ExpertsTo(g, x)]
           T == Seq(0 .. E - 1)
<1>1. E \in Nat /\ E >= 1 /\ \A x \in 1 .. E : x - 1 \in 0 .. E - 1
  BY Sizes
<1>2. ASSUME NEW e \in 0 .. E - 1 PROVE Run(e) \in T
  <2>1. BlocksOf(e) \in Nat /\ Run(e) \in [1 .. BlocksOf(e) -> 0 .. E - 1]
    BY BlocksOfExpert
  <2> HIDE DEF Run
  <2> QED BY <2>1, FunctionIsSeq
<1>3. <<>> \in ExpertsTo(g, 0)
  <2>1. g[1 .. 0] = 0
    BY BlocksAddUp
  <2>2. <<>> \in T /\ Len(<<>>) = 0 /\ 0 .. 0 - 1 = {}
    OBVIOUS
  <2> QED BY <2>1, <2>2 DEF ExpertsTo
<1> HIDE DEF Run
<1>4. \A k \in 0 .. E - 1 : \A s \in ExpertsTo(g, k) : s \o Run(k) \in ExpertsTo(g, k + 1)
  BY ExpertsStep DEF Run
<1>5. seqs \in Seq(T) /\ Len(seqs) = E
  <2>1. \A x \in 1 .. E : Run(x - 1) \in T
    BY <1>1, <1>2
  <2>2. seqs \in [1 .. E -> T]
    BY <2>1
  <2> HIDE DEF seqs
  <2> QED BY <1>1, <2>2, FunctionIsSeq
<1>6. seqs[1] \in A[1]
  <2>1. 0 \in 0 .. E - 1 /\ 1 \in 1 .. E /\ 1 - 1 = 0 /\ 0 + 1 = 1
    BY <1>1
  <2>2. <<>> \o Run(0) \in ExpertsTo(g, 0 + 1)
    BY <1>3, <1>4, <2>1
  <2>3. <<>> \o Run(0) = Run(0)
    BY <1>2, <2>1, ConcatEmptySeq
  <2> QED BY <2>1, <2>2, <2>3
<1>7. ASSUME NEW i \in 1 .. E - 1, NEW s \in A[i]
      PROVE  s \o seqs[i + 1] \in A[i + 1]
  <2>1. i \in 0 .. E - 1 /\ i \in 1 .. E /\ i + 1 \in 1 .. E /\ (i + 1) - 1 = i
    BY <1>1
  <2>2. s \in ExpertsTo(g, i) /\ seqs[i + 1] = Run(i) /\ A[i + 1] = ExpertsTo(g, i + 1)
    BY <2>1
  <2> HIDE DEF seqs, A
  <2> QED BY <1>4, <2>1, <2>2
<1>8. FlattenSeq(seqs) \in A[E]
  <2> HIDE DEF seqs, A, T
  <2>1. Len(seqs) # 0
    BY <1>1, <1>5
  <2> QED BY <1>5, <1>6, <1>7, <2>1, FlattenIn
<1>9. E \in 1 .. E
  BY <1>1
<1>10. FlattenSeq(seqs) \in ExpertsTo(g, E)
  BY <1>8, <1>9
<1> QED BY <1>10 DEF seqs, Run

\* What moe_align_block_size returns: every block has pairs of one expert and
\* padding, every pair is in a block, the blocks fit the arrays.
AlignedArrays(token_ids, experts, total) ==
  /\ experts \in Seq(0 .. E - 1)
  /\ total = BLOCK_SIZE_M * Len(experts)
  /\ total <= EM
  /\ token_ids \in [0 .. EM - 1 -> 0 .. numel]
  /\ \A x \in 0 .. EM - 1 : token_ids[x] # numel =>
       /\ x \div BLOCK_SIZE_M < Len(experts)
       /\ experts[1 + (x \div BLOCK_SIZE_M)] = ExpertOf(token_ids[x])
  /\ \A pair \in 0 .. numel - 1 : \E x \in 0 .. total - 1 : token_ids[x] = pair

LEMMA AlignReturns ==
  ASSUME Routed
  PROVE  AlignedArrays(
           [x \in 0 .. EM - 1 |-> IF x < Len(aligned) THEN aligned[x + 1] ELSE numel],
           FlattenSeq([x \in 1 .. E |-> [y \in 1 .. BlocksOf(x - 1) |-> x - 1]]),
           Len(aligned))
<1>0. PICK g : BlocksBefore(g)
  BY Sizes, SumsExist DEF BlocksBefore
<1> DEFINE b == BLOCK_SIZE_M
           s == aligned
           experts == FlattenSeq([x \in 1 .. E |-> [y \in 1 .. BlocksOf(x - 1) |-> x - 1]])
           ids == [x \in 0 .. EM - 1 |-> IF x < Len(s) THEN s[x + 1] ELSE numel]
           l == g[1 .. E]
<1>1. /\ b \in Nat \ {0} /\ numel \in Nat /\ EM \in Nat /\ E \in Nat \ {0}
  BY Sizes
<1>2. /\ s \in Seq(0 .. numel) /\ Len(s) = b * l
      /\ \A x \in 1 .. Len(s) : s[x] # numel =>
           /\ s[x] \in 0 .. numel - 1
           /\ b * g[1 .. ExpertOf(s[x])] < x
           /\ x <= b * g[1 .. ExpertOf(s[x]) + 1]
      /\ \A pair \in 0 .. numel - 1 :
           ExpertOf(pair) < E => \E x \in 1 .. Len(s) : s[x] = pair
  <2> HIDE DEF s
  <2>1. s \in AlignedTo(g, E)
    BY <1>0, AllAligned DEF s
  <2> QED BY <2>1 DEF AlignedTo
<1>3. /\ experts \in Seq(0 .. E - 1) /\ Len(experts) = l
      /\ \A e \in 0 .. E - 1 : \A i \in 1 .. Len(experts) :
           g[1 .. e] < i /\ i <= g[1 .. e + 1] => experts[i] = e
  <2> HIDE DEF experts
  <2>1. experts \in ExpertsTo(g, E)
    BY <1>0, AllExperts DEF experts
  <2> QED BY <2>1 DEF ExpertsTo
<1>4. Len(s) <= EM
  BY <1>0, <1>2, BlocksFit
<1>5. \A e \in 0 .. E : g[1 .. e] \in Nat
  BY <1>0, BlocksAddUp
<1>6. l \in Nat /\ Len(s) \in Nat
  BY <1>1, <1>2, <1>5, LenProperties
<1>7. \A pair \in 0 .. numel - 1 : ExpertOf(pair) \in 0 .. E - 1
  BY PairsRouted
<1>8. \A x \in 0 .. EM - 1 : ids[x] = IF x < Len(s) THEN s[x + 1] ELSE numel
  OBVIOUS
<1>9. ids = [x \in 0 .. EM - 1 |-> ids[x]]
  OBVIOUS
<1> HIDE DEF b, s, experts, ids
<1>10. ids \in [0 .. EM - 1 -> 0 .. numel]
  <2>1. ASSUME NEW x \in 0 .. EM - 1 PROVE ids[x] \in 0 .. numel
    <3>1. CASE x < Len(s)
      <4>1. x + 1 \in 1 .. Len(s) /\ ids[x] = s[x + 1]
        BY <1>1, <1>6, <1>8, <3>1
      <4> QED BY <1>2, <4>1, ElementOfSeq
    <3>2. CASE ~(x < Len(s))
      BY <1>1, <1>8, <3>2
    <3> QED BY <3>1, <3>2
  <2> QED BY <1>9, <2>1
<1>11. ASSUME NEW x \in 0 .. EM - 1, ids[x] # numel
       PROVE  /\ x \div b < Len(experts)
              /\ experts[1 + (x \div b)] = ExpertOf(ids[x])
  <2>1. x + 1 \in 1 .. Len(s) /\ ids[x] = s[x + 1]
    BY <1>1, <1>6, <1>8, <1>11
  <2> DEFINE e == ExpertOf(ids[x])
             q == x \div b
             r == x % b
  <2>2. /\ ids[x] \in 0 .. numel - 1
        /\ b * g[1 .. e] < x + 1
        /\ x + 1 <= b * g[1 .. e + 1]
    BY <1>2, <1>11, <2>1
  <2>3. e \in 0 .. E - 1 /\ e \in 0 .. E /\ e + 1 \in 0 .. E
    BY <1>1, <1>7, <2>2
  <2>4. g[1 .. e] \in Nat /\ g[1 .. e + 1] \in Nat
    BY <1>5, <2>3
  <2>5. q \in Nat /\ r \in 0 .. b - 1 /\ x = q * b + r
    <3>1. q \in 0 .. cdiv(EM, b) - 1 /\ cdiv(EM, b) \in Nat
          /\ r \in 0 .. b - 1 /\ x = q * b + r
      BY <1>1, BlockOf, Blocks
    <3> HIDE DEF q, r
    <3> QED BY <3>1
  <2> HIDE DEF e, q, r
  <2>6. q < g[1 .. e + 1]
    <3>1. q * b < g[1 .. e + 1] * b
      <4>1. g[1 .. e + 1] * b = b * g[1 .. e + 1] /\ b * g[1 .. e + 1] \in Nat /\ q * b \in Nat
        BY <1>1, <2>4, <2>5, ProductsAreNat
      <4> QED BY <1>1, <2>2, <2>5, <4>1
    <3> QED BY <1>1, <2>4, <2>5, <3>1, OrderOfProducts
  <2>7. g[1 .. e] <= q
    <3>1. g[1 .. e] * b < (q + 1) * b
      <4>1. /\ g[1 .. e] * b = b * g[1 .. e] /\ b * g[1 .. e] \in Nat /\ q * b \in Nat
            /\ (q + 1) * b = q * b + b
        BY <1>1, <2>4, <2>5, ProductsAreNat, Distributes
      <4> QED BY <1>1, <2>2, <2>5, <4>1
    <3>2. g[1 .. e] < q + 1
      <4>1. q + 1 \in Int
        BY <2>5
      <4> QED BY <1>1, <2>4, <3>1, <4>1, OrderOfProducts
    <3> QED BY <2>4, <2>5, <3>2
  <2>8. g[1 .. e + 1] <= l
    <3>1. e + 1 \in 0 .. E /\ E \in e + 1 .. E
      BY <1>1, <2>3
    <3> QED BY <1>0, <3>1, BlocksGrow
  <2>9. 1 + q \in 1 .. Len(experts) /\ q < Len(experts)
    BY <1>3, <1>6, <2>4, <2>5, <2>6, <2>8
  <2>10. g[1 .. e] < 1 + q /\ 1 + q <= g[1 .. e + 1]
    BY <2>4, <2>5, <2>6, <2>7
  <2>11. experts[1 + q] = e
    BY <1>3, <2>3, <2>9, <2>10
  <2> QED BY <2>9, <2>11 DEF q, e
<1>12. ASSUME NEW pair \in 0 .. numel - 1 PROVE \E x \in 0 .. Len(s) - 1 : ids[x] = pair
  <2>0. ExpertOf(pair) < E
    BY <1>1, <1>7
  <2>1. PICK x \in 1 .. Len(s) : s[x] = pair
    BY <1>2, <2>0
  <2>2. x - 1 \in 0 .. Len(s) - 1 /\ x - 1 \in 0 .. EM - 1 /\ (x - 1) + 1 = x
    BY <1>1, <1>4, <1>6
  <2>3. ids[x - 1] = pair
    BY <1>6, <1>8, <2>1, <2>2
  <2> QED BY <2>2, <2>3
<1>13. Len(s) = b * Len(experts)
  BY <1>2, <1>3
<1>14. AlignedArrays(ids, experts, Len(s))
  BY <1>3, <1>4, <1>10, <1>11, <1>12, <1>13 DEF AlignedArrays, b
<1> QED BY <1>14 DEF ids, experts, s

-----------------------------------------------------------------------------
(* What a program stores *)

\* The cells of a row-major matrix are apart.
LEMMA CellsApart ==
  ASSUME NEW d \in Nat \ {0}, NEW p \in Nat, NEW q \in Nat,
         NEW k \in 0 .. d - 1, NEW l \in 0 .. d - 1, p * d + k = q * d + l
  PROVE  p = q /\ k = l
<1>1. (p * d + k) \div d = p /\ (p * d + k) % d = k
  BY DivOfParts
<1>2. (q * d + l) \div d = q /\ (q * d + l) % d = l
  BY DivOfParts
<1> QED BY <1>1, <1>2

LEMMA CellInside ==
  ASSUME NEW d \in Nat \ {0}, NEW n \in Nat, NEW p \in 0 .. n - 1, NEW k \in 0 .. d - 1
  PROVE  p * d + k \in 0 .. n * d - 1
<1>1. p * d \in Nat /\ n * d \in Nat
  BY ProductsAreNat
<1>2. (p + 1) * d <= n * d
  <2>1. p + 1 \in Int /\ n \in Int /\ d \in Nat /\ p + 1 <= n
    OBVIOUS
  <2> QED BY <2>1, ProductsOrdered
<1>3. (p + 1) * d = p * d + d
  BY Distributes
<1> QED BY <1>1, <1>2, <1>3

InTile(pid, cols, pair, c) == pair \in offs_token(pid, cols) /\ c \in offs_cn(pid, cols)

\* Cell <<pair, c>> of a tile, computed by program pid.
Cell(pid, cols, k, t, off, w, pair, c) ==
  [a |-> pair \div t,
   page |-> indicies[expert_ids[1 + pid_m(pid, cols)]],
   b |-> (off + (c % cols)) * k,
   over |-> Accumulated(k),
   weight |-> IF w THEN pair ELSE numel]

\* g is f with the tile of program pid stored.
TileStored(g, f, pid, cols, k, t, off, w) ==
  /\ DOMAIN g = 0 .. numel * cols - 1
  /\ \A pair \in 0 .. numel - 1 : \A c \in 0 .. cols - 1 :
       g[pair * cols + c] =
         IF InTile(pid, cols, pair, c) THEN Cell(pid, cols, k, t, off, w, pair, c)
                                       ELSE f[pair * cols + c]

LEMMA StoredIs ==
  ASSUME NEW cols \in Nat \ {0}, NEW k, NEW t, NEW off, NEW w, NEW pid \in Grid(cols),
         NEW f, DOMAIN f = 0 .. numel * cols - 1, offs_token(pid, cols) \in SUBSET (0 .. numel)
  PROVE  TileStored(Stored(f, pid, cols, k, t, off, w), f, pid, cols, k, t, off, w)
<1> DEFINE page == indicies[expert_ids[1 + pid_m(pid, cols)]]
           tokens == {x \in offs_token(pid, cols) : token_mask(x)}
           written == {tc \in tokens \X offs_cn(pid, cols) : c_mask(tc[2], cols)}
           Address(tc) == tc[1] * cols + tc[2]
           Product(x, c) == [a |-> x \div t,
                             page |-> page,
                             b |-> (off + (c % cols)) * k,
                             over |-> Accumulated(k),
                             weight |-> IF w THEN x ELSE numel]
           At(a) == CHOOSE tc \in written : a = Address(tc)
           D == DOMAIN f \union {Address(tc) : tc \in written}
           g == [a \in D |-> IF \E tc \in written : a = Address(tc)
                               THEN Product(At(a)[1], At(a)[2]) ELSE f[a]]
<1>1. Stored(f, pid, cols, k, t, off, w) = g
  BY DEF Stored
<1>2. numel \in Nat /\ BLOCK_SIZE_N \in Nat \ {0}
  BY Sizes
<1>3. offs_cn(pid, cols) \in SUBSET Nat
  <2>1. pid_n(pid, cols) * BLOCK_SIZE_N \in Nat
    BY <1>2, TileOfProgram, ProductsAreNat
  <2> QED BY <1>2, <2>1 DEF offs_cn
<1>4. \A tc \in written : tc = <<tc[1], tc[2]>> /\ tc[1] \in 0 .. numel - 1 /\ tc[2] \in 0 .. cols - 1
  <2>1. ASSUME NEW tc \in written
        PROVE  tc = <<tc[1], tc[2]>> /\ tc[1] \in 0 .. numel - 1 /\ tc[2] \in 0 .. cols - 1
    <3>1. tc = <<tc[1], tc[2]>> /\ tc[1] \in offs_token(pid, cols) /\ tc[1] < numel
          /\ tc[2] \in offs_cn(pid, cols) /\ tc[2] < cols
      BY DEF token_mask, c_mask
    <3> QED BY <1>2, <1>3, <3>1
  <2> QED BY <2>1
<1>5. \A pair \in 0 .. numel - 1 : \A c \in 0 .. cols - 1 :
        <<pair, c>> \in written <=> InTile(pid, cols, pair, c)
  <2>1. ASSUME NEW pair \in 0 .. numel - 1, NEW c \in 0 .. cols - 1
        PROVE  <<pair, c>> \in written <=> InTile(pid, cols, pair, c)
    <3>1. pair < numel /\ c < cols
      BY <1>2
    <3>2. <<pair, c>>[2] = c
      OBVIOUS
    <3> QED BY <3>1, <3>2 DEF InTile, token_mask, c_mask
  <2> QED BY <2>1
<1> HIDE DEF written
<1>6. D = 0 .. numel * cols - 1
  <2>1. \A tc \in written : Address(tc) \in 0 .. numel * cols - 1
    BY <1>2, <1>4, CellInside
  <2> HIDE DEF Address
  <2> QED BY <2>1
<1>7. ASSUME NEW pair \in 0 .. numel - 1, NEW c \in 0 .. cols - 1
      PROVE  g[pair * cols + c] = IF InTile(pid, cols, pair, c) THEN Product(pair, c)
                                                                ELSE f[pair * cols + c]
  <2> DEFINE a == pair * cols + c
  <2>1. a \in D
    BY <1>2, <1>6, CellInside
  <2>2. \A tc \in written : a = Address(tc) => tc[1] = pair /\ tc[2] = c /\ tc = <<pair, c>>
    <3>1. ASSUME NEW tc \in written, a = Address(tc)
          PROVE  tc[1] = pair /\ tc[2] = c /\ tc = <<pair, c>>
      <4>1. tc = <<tc[1], tc[2]>> /\ tc[1] \in Nat /\ tc[2] \in 0 .. cols - 1 /\ pair \in Nat
        BY <1>2, <1>4
      <4>2. tc[1] = pair /\ tc[2] = c
        BY <3>1, <4>1, CellsApart
      <4> QED BY <4>1, <4>2
    <3> QED BY <3>1
  <2>3. a = Address(<<pair, c>>)
    OBVIOUS
  <2>4. g[a] = IF \E tc \in written : a = Address(tc)
                 THEN Product(At(a)[1], At(a)[2]) ELSE f[a]
    BY <2>1
  <2> HIDE DEF a, Address, Product, g, D
  <2>5. CASE InTile(pid, cols, pair, c)
    <3>1. <<pair, c>> \in written
      BY <1>5, <2>5
    <3>2. At(a) \in written /\ a = Address(At(a))
      BY <2>3, <3>1
    <3> HIDE DEF At
    <3>3. At(a)[1] = pair /\ At(a)[2] = c
      BY <2>2, <3>2
    <3> QED BY <2>3, <2>4, <2>5, <3>1, <3>3 DEF a
  <2>6. CASE ~InTile(pid, cols, pair, c)
    <3>1. ~(\E tc \in written : a = Address(tc))
      BY <1>5, <2>2, <2>6
    <3> QED BY <2>4, <2>6, <3>1 DEF a
  <2> QED BY <2>5, <2>6
<1>8. DOMAIN g = D
  OBVIOUS
<1>9. \A pair \in 0 .. numel - 1 : \A c \in 0 .. cols - 1 :
        Product(pair, c) = Cell(pid, cols, k, t, off, w, pair, c)
  BY DEF Cell
<1> HIDE DEF g, D, Product
<1>10. TileStored(g, f, pid, cols, k, t, off, w)
  BY <1>6, <1>7, <1>8, <1>9 DEF TileStored
<1> QED BY <1>1, <1>10

-----------------------------------------------------------------------------
(* A launch: tiles that are done stay done *)

IsAligned == AlignedArrays(sorted_token_ids, expert_ids, num_tokens_post_padded)

LEMMA AlignedFacts ==
  ASSUME IsAligned
  PROVE  /\ Len(expert_ids) \in Nat
         /\ num_tokens_post_padded = BLOCK_SIZE_M * Len(expert_ids)
         /\ num_tokens_post_padded \in Nat /\ num_tokens_post_padded <= EM
         /\ sorted_token_ids \in [0 .. EM - 1 -> 0 .. numel]
<1>1. Len(expert_ids) \in Nat /\ num_tokens_post_padded = BLOCK_SIZE_M * Len(expert_ids)
      /\ num_tokens_post_padded <= EM /\ sorted_token_ids \in [0 .. EM - 1 -> 0 .. numel]
  BY LenProperties DEF IsAligned, AlignedArrays
<1>2. BLOCK_SIZE_M \in Nat
  BY Sizes
<1> QED BY <1>1, <1>2, ProductsAreNat

\* A program that goes on has a block of the arrays.
LEMMA BlockInside ==
  ASSUME IsAligned, NEW cols \in Nat \ {0}, NEW pid \in Grid(cols), HasTokens(pid, cols)
  PROVE  /\ pid_m(pid, cols) < Len(expert_ids)
         /\ offs_token_id(pid, cols) \in SUBSET (0 .. EM - 1)
         /\ \A x \in offs_token_id(pid, cols) : x \div BLOCK_SIZE_M = pid_m(pid, cols)
<1> DEFINE b == BLOCK_SIZE_M
           i == pid_m(pid, cols)
           l == Len(expert_ids)
<1>1. b \in Nat \ {0} /\ i \in Nat /\ l \in Nat /\ EM \in Nat
      /\ num_tokens_post_padded = b * l /\ b * l <= EM /\ b * l \in Nat
  BY Sizes, AlignedFacts, TileOfProgram
<1>2. i * b < b * l
  BY <1>1 DEF HasTokens
<1>3. offs_token_id(pid, cols) = {i * b + x : x \in 0 .. b - 1}
  BY DEF offs_token_id
<1> HIDE DEF b, i, l
<1>4. b * l = l * b /\ i * b \in Nat
  BY <1>1, ProductsAreNat
<1>5. i < l
  BY <1>1, <1>2, <1>4, OrderOfProducts
<1>6. ASSUME NEW x \in 0 .. b - 1
      PROVE  i * b + x \in 0 .. EM - 1 /\ (i * b + x) \div b = i
  <2>1. (i + 1) * b <= l * b /\ (i + 1) * b = i * b + b
    <3>1. i + 1 \in Int /\ l \in Int /\ b \in Nat /\ i + 1 <= l
      BY <1>1, <1>5
    <3> QED BY <1>1, <3>1, ProductsOrdered, Distributes
  <2>2. i * b + x \in 0 .. EM - 1
    BY <1>1, <1>4, <2>1
  <2>3. (i * b + x) \div b = i
    BY <1>1, DivOfParts
  <2> QED BY <2>2, <2>3
<1>7. ASSUME NEW y \in offs_token_id(pid, cols)
      PROVE  y \in 0 .. EM - 1 /\ y \div b = i
  BY <1>3, <1>6
<1> QED BY <1>5, <1>7 DEF i, l, b

\* The block's pairs are of the block's expert.
LEMMA ExpertOfTile ==
  ASSUME IsAligned, NEW cols \in Nat \ {0}, NEW pid \in Grid(cols), HasTokens(pid, cols)
  PROVE  /\ offs_token(pid, cols) \in SUBSET (0 .. numel)
         /\ \A pair \in 0 .. numel - 1 :
              pair \in offs_token(pid, cols) => expert_ids[1 + pid_m(pid, cols)] = ExpertOf(pair)
<1>1. /\ offs_token_id(pid, cols) \in SUBSET (0 .. EM - 1)
      /\ \A x \in offs_token_id(pid, cols) : x \div BLOCK_SIZE_M = pid_m(pid, cols)
  BY BlockInside
<1>2. /\ sorted_token_ids \in [0 .. EM - 1 -> 0 .. numel]
      /\ \A x \in 0 .. EM - 1 : sorted_token_ids[x] # numel =>
           expert_ids[1 + (x \div BLOCK_SIZE_M)] = ExpertOf(sorted_token_ids[x])
  BY DEF IsAligned, AlignedArrays
<1>3. offs_token(pid, cols) = {sorted_token_ids[x] : x \in offs_token_id(pid, cols)}
  BY DEF offs_token
<1>4. offs_token(pid, cols) \in SUBSET (0 .. numel)
  BY <1>1, <1>2, <1>3
<1>5. ASSUME NEW pair \in 0 .. numel - 1, pair \in offs_token(pid, cols)
      PROVE  expert_ids[1 + pid_m(pid, cols)] = ExpertOf(pair)
  <2>1. PICK x \in offs_token_id(pid, cols) : sorted_token_ids[x] = pair
    BY <1>3, <1>5
  <2>2. pair # numel
    BY Sizes
  <2>3. x \in 0 .. EM - 1 /\ x \div BLOCK_SIZE_M = pid_m(pid, cols)
    BY <1>1
  <2>4. expert_ids[1 + (x \div BLOCK_SIZE_M)] = ExpertOf(sorted_token_ids[x])
    BY <1>2, <2>1, <2>2, <2>3
  <2> QED BY <2>1, <2>3, <2>4
<1> QED BY <1>4, <1>5

\* What the programs in S have stored in f is what cells has.
TilesDone(cols, f, cells, S) ==
  \A pid \in S : HasTokens(pid, cols) =>
    \A pair \in 0 .. numel - 1 : \A c \in 0 .. cols - 1 :
      InTile(pid, cols, pair, c) => f[pair * cols + c] = cells[pair][c]

\* The cells that a launch with these arguments should compute.
CellsAre(cells, cols, k, t, off, w) ==
  \A pair \in 0 .. numel - 1 : \A c \in 0 .. cols - 1 :
    cells[pair][c] = [a |-> pair \div t,
                      page |-> indicies[ExpertOf(pair)],
                      b |-> (off + (c % cols)) * k,
                      over |-> Accumulated(k),
                      weight |-> IF w THEN pair ELSE numel]

AfterProgram(g, f, pid, cols, k, t, off, w) ==
  g = IF HasTokens(pid, cols) THEN Stored(f, pid, cols, k, t, off, w) ELSE f

LEMMA ProgramDone ==
  ASSUME IsAligned, NEW cols \in Nat \ {0}, NEW k, NEW t, NEW off, NEW w \in BOOLEAN,
         NEW f, NEW cells, NEW S \in SUBSET Grid(cols), NEW pid \in Grid(cols),
         DOMAIN f = 0 .. numel * cols - 1,
         CellsAre(cells, cols, k, t, off, w),
         TilesDone(cols, f, cells, S),
         NEW g, AfterProgram(g, f, pid, cols, k, t, off, w)
  PROVE  DOMAIN g = 0 .. numel * cols - 1 /\ TilesDone(cols, g, cells, S \union {pid})
<1>1. CASE ~HasTokens(pid, cols)
  BY <1>1 DEF TilesDone, AfterProgram
<1>2. CASE HasTokens(pid, cols)
  <2>1. /\ offs_token(pid, cols) \in SUBSET (0 .. numel)
        /\ \A pair \in 0 .. numel - 1 :
             pair \in offs_token(pid, cols) => expert_ids[1 + pid_m(pid, cols)] = ExpertOf(pair)
    BY <1>2, ExpertOfTile
  <2>2. g = Stored(f, pid, cols, k, t, off, w)
    BY <1>2 DEF AfterProgram
  <2>3. TileStored(g, f, pid, cols, k, t, off, w)
    <3>1. offs_token(pid, cols) \in SUBSET (0 .. numel)
      BY <2>1
    <3>2. TileStored(Stored(f, pid, cols, k, t, off, w), f, pid, cols, k, t, off, w)
      BY <3>1, StoredIs, ZenonT(60)
    <3> QED BY <2>2, <3>2
  <2>4. ASSUME NEW pair \in 0 .. numel - 1, NEW c \in 0 .. cols - 1
        PROVE  g[pair * cols + c] = IF InTile(pid, cols, pair, c) THEN cells[pair][c]
                                                                  ELSE f[pair * cols + c]
    <3>1. g[pair * cols + c] =
            IF InTile(pid, cols, pair, c) THEN Cell(pid, cols, k, t, off, w, pair, c)
                                          ELSE f[pair * cols + c]
      BY <2>3 DEF TileStored
    <3>2. InTile(pid, cols, pair, c) => expert_ids[1 + pid_m(pid, cols)] = ExpertOf(pair)
      BY <2>1 DEF InTile
    <3>3. CASE InTile(pid, cols, pair, c)
      <4>1. Cell(pid, cols, k, t, off, w, pair, c) = cells[pair][c]
        BY <3>2, <3>3 DEF Cell, CellsAre
      <4> QED BY <3>1, <3>3, <4>1
    <3>4. CASE ~InTile(pid, cols, pair, c)
      BY <3>1, <3>4
    <3> QED BY <3>3, <3>4
  <2>5. ASSUME NEW q \in S \union {pid}, HasTokens(q, cols),
               NEW pair \in 0 .. numel - 1, NEW c \in 0 .. cols - 1, InTile(q, cols, pair, c)
        PROVE  g[pair * cols + c] = cells[pair][c]
    <3>1. CASE InTile(pid, cols, pair, c)
      BY <2>4, <3>1
    <3>2. CASE ~InTile(pid, cols, pair, c)
      <4>1. q \in S
        BY <2>5, <3>2
      <4>2. f[pair * cols + c] = cells[pair][c]
        BY <2>5, <4>1 DEF TilesDone
      <4> QED BY <2>4, <3>2, <4>2
    <3> QED BY <3>1, <3>2
  <2>6. TilesDone(cols, g, cells, S \union {pid})
    BY <2>5 DEF TilesDone
  <2>7. DOMAIN g = 0 .. numel * cols - 1
    BY <2>3 DEF TileStored
  <2> QED BY <2>6, <2>7
<1> QED BY <1>1, <1>2

\* All programs together store every cell.
LEMMA AllTiles ==
  ASSUME IsAligned, NEW cols \in Nat \ {0}, NEW f, NEW cells,
         TilesDone(cols, f, cells, Grid(cols)),
         NEW pair \in 0 .. numel - 1, NEW c \in 0 .. cols - 1
  PROVE  f[pair * cols + c] = cells[pair][c]
<1>1. PICK x \in 0 .. num_tokens_post_padded - 1 : sorted_token_ids[x] = pair
  BY DEF IsAligned, AlignedArrays
<1> DEFINE i == x \div BLOCK_SIZE_M
           y == x % BLOCK_SIZE_M
           j == c \div BLOCK_SIZE_N
           z == c % BLOCK_SIZE_N
<1>2. BLOCK_SIZE_M \in Nat \ {0} /\ BLOCK_SIZE_N \in Nat \ {0} /\ EM \in Nat
      /\ num_tokens_post_padded \in Nat /\ num_tokens_post_padded <= EM
  BY Sizes, AlignedFacts
<1>3. x \in 0 .. EM - 1
  BY <1>2
<1>4. i \in 0 .. num_pid_m - 1 /\ y \in 0 .. BLOCK_SIZE_M - 1 /\ x = i * BLOCK_SIZE_M + y
  BY <1>2, <1>3, BlockOf DEF num_pid_m
<1>5. j \in 0 .. num_pid_n(cols) - 1 /\ z \in 0 .. BLOCK_SIZE_N - 1 /\ c = j * BLOCK_SIZE_N + z
  BY <1>2, BlockOf DEF num_pid_n
<1> HIDE DEF i, y, j, z
<1>6. PICK pid \in Grid(cols) : pid_m(pid, cols) = i /\ pid_n(pid, cols) = j
  BY <1>4, <1>5, ProgramOfTile
<1>7. HasTokens(pid, cols)
  <2>1. i \in Nat
    BY <1>6, TileOfProgram
  <2>2. i * BLOCK_SIZE_M \in Nat
    BY <1>2, <2>1, ProductsAreNat
  <2>3. i * BLOCK_SIZE_M < num_tokens_post_padded
    BY <1>2, <1>4, <2>2
  <2> QED BY <1>6, <2>3 DEF HasTokens
<1>8. x \in offs_token_id(pid, cols)
  BY <1>4, <1>6 DEF offs_token_id
<1>9. pair \in offs_token(pid, cols)
  BY <1>1, <1>8 DEF offs_token
<1>10. c \in offs_cn(pid, cols)
  BY <1>5, <1>6 DEF offs_cn
<1> QED BY <1>7, <1>9, <1>10 DEF TilesDone, InTile

-----------------------------------------------------------------------------
(* The inductive invariant *)

GateUpCells ==
  [pair \in 0 .. numel - 1 |-> [c \in 0 .. N - 1 |->
     [a |-> pair \div topk, page |-> indicies[ExpertOf(pair)], b |-> c * H,
      over |-> 0 .. H - 1, weight |-> numel]]]

DownCells == [pair \in 0 .. numel - 1 |-> [h \in 0 .. H - 1 |-> Down(pair, h)]]

LEMMA GateUpCell ==
  ASSUME NEW pair \in 0 .. numel - 1, NEW c \in 0 .. N - 1
  PROVE  GateUpCells[pair][c] =
           [a |-> pair \div topk, page |-> indicies[ExpertOf(pair)], b |-> (0 + (c % N)) * H,
            over |-> Accumulated(H), weight |-> IF FALSE THEN pair ELSE numel]
<1>1. N \in Nat \ {0} /\ H \in Nat /\ BLOCK_SIZE_K \in Nat \ {0}
  BY Columns, Sizes
<1>2. Accumulated(H) = 0 .. H - 1
  BY <1>1, AllAccumulated
<1>3. 0 + (c % N) = c
  <2>1. (0 * N + c) % N = c /\ 0 * N + c = c
    BY <1>1, DivOfParts
  <2> QED BY <2>1
<1> QED BY <1>2, <1>3 DEF GateUpCells

LEMMA DownCell ==
  ASSUME NEW pair \in 0 .. numel - 1, NEW c \in 0 .. H - 1
  PROVE  DownCells[pair][c] =
           [a |-> pair \div 1, page |-> indicies[ExpertOf(pair)],
            b |-> (2 * H + (c % H)) * (N \div 2),
            over |-> Accumulated(N \div 2), weight |-> IF TRUE THEN pair ELSE numel]
<1>1. N \div 2 = inter /\ inter \in Nat /\ H \in Nat \ {0} /\ BLOCK_SIZE_K \in Nat \ {0}
      /\ numel \in Nat
  BY Columns, Sizes
<1>2. Accumulated(inter) = 0 .. inter - 1
  BY <1>1, AllAccumulated
<1>3. c % H = c
  <2>1. (0 * H + c) % H = c /\ 0 * H + c = c
    BY <1>1, DivOfParts
  <2> QED BY <2>1
<1>4. pair \div 1 = pair
  BY <1>1
<1>5. (2 * H + c) * inter = w2(c)
  <2>1. (2 * H + c) * inter = 2 * inter * H + c * inter
    BY <1>1, Z3
  <2> QED BY <2>1 DEF w2
<1>6. DownCells[pair][c] = Down(pair, c)
  BY DEF DownCells
<1> QED BY <1>1, <1>2, <1>3, <1>4, <1>5, <1>6 DEF Down

KernelInv ==
  /\ model \in Classes /\ Routed
  /\ launch \in {"attention", "align", "gate_up", "down", "done"}
  /\ launch \in {"attention", "align"} => ran = {}
  /\ launch \in {"gate_up", "down"} => IsAligned
  /\ DOMAIN intermediate_cache1 = 0 .. numel * N - 1
  /\ DOMAIN intermediate_cache2 = 0 .. numel * (N \div 2) - 1
  /\ DOMAIN intermediate_cache3 = 0 .. numel * H - 1
  /\ launch = "gate_up" =>
       ran \in SUBSET Grid(N) /\ TilesDone(N, intermediate_cache1, GateUpCells, ran)
  /\ launch = "down" =>
       ran \in SUBSET Grid(H) /\ TilesDone(H, intermediate_cache3, DownCells, ran)
  /\ MoEExact

LEMMA KernelInit == Init => KernelInv
<1>1. SUFFICES ASSUME Init PROVE KernelInv
  OBVIOUS
<1>2. MoEInit /\ launch = "attention"
  BY <1>1 DEF Init
<1>3. PICK c \in Calls : model = c.model /\ topk_ids = c.topk_ids
  BY <1>2 DEF MoEInit
<1>4. model \in Classes /\ Routed
  BY <1>3, MoEAssumption DEF Classes, Routed
<1>5. /\ ran = {}
      /\ DOMAIN intermediate_cache1 = 0 .. numel * N - 1
      /\ DOMAIN intermediate_cache2 = 0 .. numel * (N \div 2) - 1
      /\ DOMAIN intermediate_cache3 = 0 .. numel * H - 1
  BY <1>2 DEF MoEInit, Blank
<1> QED BY <1>2, <1>4, <1>5 DEF KernelInv, MoEExact

\* As long as the routing and the arrays stay, so does what is said of them.
LEMMA PairingKept ==
  ASSUME UNCHANGED pairing
  PROVE  /\ model' = model /\ (Routed <=> Routed') /\ (IsAligned <=> IsAligned')
         /\ \A pair : ExpertOf(pair)' = ExpertOf(pair)
         /\ GateUpCells' = GateUpCells /\ DownCells' = DownCells
<1>1. /\ model' = model /\ topk_ids' = topk_ids /\ sorted_token_ids' = sorted_token_ids
      /\ expert_ids' = expert_ids /\ num_tokens_post_padded' = num_tokens_post_padded
  BY DEF pairing
<1>2. \A pair : ExpertOf(pair)' = ExpertOf(pair)
  BY <1>1 DEF ExpertOf
<1>3. Routed <=> Routed'
  BY <1>1 DEF Routed
<1>4. IsAligned <=> IsAligned'
  BY <1>1 DEF IsAligned, AlignedArrays, ExpertOf
<1>5. GateUpCells' = GateUpCells
  BY <1>1 DEF GateUpCells, ExpertOf
<1>6. DownCells' = DownCells
  BY <1>1 DEF DownCells, Down, ExpertOf
<1> QED BY <1>1, <1>2, <1>3, <1>4, <1>5, <1>6

LEMMA TilesKept ==
  ASSUME UNCHANGED pairing
  PROVE  \A pid, cols : /\ HasTokens(pid, cols)' = HasTokens(pid, cols)
                        /\ \A pair, c : InTile(pid, cols, pair, c)' = InTile(pid, cols, pair, c)
BY DEF pairing, HasTokens, InTile, offs_token

LEMMA ExactKept ==
  ASSUME UNCHANGED pairing
  PROVE  \A pair, x : /\ Gate(pair, x)' = Gate(pair, x) /\ Up(pair, x)' = Up(pair, x)
                      /\ Down(pair, x)' = Down(pair, x)
BY PairingKept DEF Gate, Up, Down

LEMMA KernelStays ==
  ASSUME KernelInv, UNCHANGED moe_vars
  PROVE  KernelInv'
<1>1. /\ UNCHANGED pairing /\ launch' = launch /\ ran' = ran
      /\ intermediate_cache1' = intermediate_cache1
      /\ intermediate_cache2' = intermediate_cache2
      /\ intermediate_cache3' = intermediate_cache3 /\ moe_out' = moe_out
  BY DEF moe_vars
<1>2. /\ model' = model /\ (Routed <=> Routed') /\ (IsAligned <=> IsAligned')
      /\ GateUpCells' = GateUpCells /\ DownCells' = DownCells
  BY <1>1, PairingKept
<1>3. /\ TilesDone(N, intermediate_cache1, GateUpCells, ran)
           <=> TilesDone(N, intermediate_cache1, GateUpCells, ran)'
      /\ TilesDone(H, intermediate_cache3, DownCells, ran)
           <=> TilesDone(H, intermediate_cache3, DownCells, ran)'
  BY <1>1, <1>2, TilesKept DEF TilesDone
<1>4. MoEExact <=> MoEExact'
  BY <1>1, ExactKept DEF MoEExact
<1> QED BY <1>1, <1>2, <1>3, <1>4 DEF KernelInv

LEMMA StartPreserves ==
  ASSUME KernelInv, StartMoE
  PROVE  KernelInv'
<1>1. /\ UNCHANGED pairing /\ launch = "attention" /\ launch' = "align" /\ ran' = ran
      /\ intermediate_cache1' = intermediate_cache1
      /\ intermediate_cache2' = intermediate_cache2
      /\ intermediate_cache3' = intermediate_cache3
  BY DEF StartMoE
<1>2. model' = model /\ (Routed <=> Routed')
  BY <1>1, PairingKept
<1> QED BY <1>1, <1>2 DEF KernelInv, MoEExact

LEMMA AlignPreserves ==
  ASSUME KernelInv, moe_align_block_size
  PROVE  KernelInv'
<1>1. /\ launch = "align" /\ launch' = "gate_up" /\ model' = model /\ topk_ids' = topk_ids
      /\ ran' = ran /\ ran = {}
      /\ intermediate_cache1' = intermediate_cache1
      /\ intermediate_cache2' = intermediate_cache2
      /\ intermediate_cache3' = intermediate_cache3
  BY DEF KernelInv, moe_align_block_size
<1>2. Routed /\ Routed'
  BY <1>1 DEF KernelInv, Routed
<1>3. IsAligned'
  <2>1. AlignedArrays(sorted_token_ids', expert_ids', num_tokens_post_padded')
    BY <1>2, AlignReturns DEF moe_align_block_size
  <2> QED BY <1>1, <2>1 DEF IsAligned, AlignedArrays, ExpertOf
<1>4. ran' \in SUBSET Grid(N) /\ TilesDone(N, intermediate_cache1, GateUpCells, ran)'
  BY <1>1 DEF TilesDone
<1> QED BY <1>1, <1>2, <1>3, <1>4 DEF KernelInv, MoEExact

LEMMA GateUpPreserves ==
  ASSUME KernelInv, NEW pid \in Grid(N), GateUpProgram(pid)
  PROVE  KernelInv'
<1>1. /\ UNCHANGED pairing /\ launch = "gate_up" /\ launch' = "gate_up"
      /\ ran' = ran \union {pid}
      /\ intermediate_cache1' = Program("gate_up", intermediate_cache1, pid)
      /\ intermediate_cache2' = intermediate_cache2
      /\ intermediate_cache3' = intermediate_cache3
  BY DEF GateUpProgram
<1>2. /\ model \in Classes /\ IsAligned /\ N \in Nat \ {0}
      /\ DOMAIN intermediate_cache1 = 0 .. numel * N - 1
      /\ ran \in SUBSET Grid(N) /\ TilesDone(N, intermediate_cache1, GateUpCells, ran)
  BY <1>1, Columns DEF KernelInv
<1> DEFINE g == intermediate_cache1'
<1>3. AfterProgram(g, intermediate_cache1, pid, N, H, topk, 0, FALSE)
  <2> DEFINE x == Launched("gate_up")
  <2>1. /\ x.cols = N /\ x.K = H /\ x.top_k = topk
        /\ x.w2_off = 0 /\ x.weighted = FALSE
    BY <1>2, BothLaunches
  <2> HIDE DEF x
  <2>2. g = IF HasTokens(pid, x.cols)
              THEN Stored(intermediate_cache1, pid, x.cols, x.K, x.top_k, x.w2_off, x.weighted)
              ELSE intermediate_cache1
    BY <1>1 DEF Program, x
  <2> HIDE DEF g
  <2> QED BY <2>1, <2>2 DEF AfterProgram
<1>4. DOMAIN g = 0 .. numel * N - 1 /\ TilesDone(N, g, GateUpCells, ran \union {pid})
  <2>1. CellsAre(GateUpCells, N, H, topk, 0, FALSE)
    BY GateUpCell DEF CellsAre
  <2>2. FALSE \in BOOLEAN /\ TRUE \in BOOLEAN
    OBVIOUS
  <2> HIDE DEF g
  <2> QED BY <1>2, <1>3, <2>1, <2>2, ProgramDone
<1>5. ran' \in SUBSET Grid(N)
  BY <1>1, <1>2
<1>6. TilesDone(N, intermediate_cache1, GateUpCells, ran)'
  <2>1. GateUpCells' = GateUpCells
    BY <1>1, PairingKept
  <2> QED BY <1>1, <1>4, <2>1, TilesKept DEF TilesDone
<1>7. model' = model /\ (Routed <=> Routed') /\ (IsAligned <=> IsAligned')
  BY <1>1, PairingKept
<1> QED BY <1>1, <1>4, <1>5, <1>6, <1>7 DEF KernelInv, MoEExact

LEMMA DownPreserves ==
  ASSUME KernelInv, NEW pid \in Grid(H), DownProgram(pid)
  PROVE  KernelInv'
<1>1. /\ UNCHANGED pairing /\ launch = "down" /\ launch' = "down"
      /\ ran' = ran \union {pid}
      /\ intermediate_cache3' = Program("down", intermediate_cache3, pid)
      /\ intermediate_cache1' = intermediate_cache1
      /\ intermediate_cache2' = intermediate_cache2
  BY DEF DownProgram
<1>2. /\ model \in Classes /\ IsAligned /\ H \in Nat \ {0}
      /\ DOMAIN intermediate_cache3 = 0 .. numel * H - 1
      /\ ran \in SUBSET Grid(H) /\ TilesDone(H, intermediate_cache3, DownCells, ran)
      /\ MoEExact
  BY <1>1, Sizes DEF KernelInv
<1> DEFINE g == intermediate_cache3'
<1>3. AfterProgram(g, intermediate_cache3, pid, H, N \div 2, 1, 2 * H, TRUE)
  <2> DEFINE x == Launched("down")
  <2>1. /\ x.cols = H /\ x.K = N \div 2 /\ x.top_k = 1
        /\ x.w2_off = 2 * H /\ x.weighted = TRUE
    BY <1>2, BothLaunches
  <2> HIDE DEF x
  <2>2. g = IF HasTokens(pid, x.cols)
              THEN Stored(intermediate_cache3, pid, x.cols, x.K, x.top_k, x.w2_off, x.weighted)
              ELSE intermediate_cache3
    BY <1>1 DEF Program, x
  <2> HIDE DEF g
  <2> QED BY <2>1, <2>2 DEF AfterProgram
<1>4. DOMAIN g = 0 .. numel * H - 1 /\ TilesDone(H, g, DownCells, ran \union {pid})
  <2>1. CellsAre(DownCells, H, N \div 2, 1, 2 * H, TRUE)
    BY DownCell DEF CellsAre
  <2>2. FALSE \in BOOLEAN /\ TRUE \in BOOLEAN
    OBVIOUS
  <2> HIDE DEF g
  <2> QED BY <1>2, <1>3, <2>1, <2>2, ProgramDone
<1>5. ran' \in SUBSET Grid(H)
  BY <1>1, <1>2
<1>6. TilesDone(H, intermediate_cache3, DownCells, ran)'
  <2>1. DownCells' = DownCells
    BY <1>1, PairingKept
  <2> QED BY <1>1, <1>4, <2>1, TilesKept DEF TilesDone
<1>7. model' = model /\ (Routed <=> Routed') /\ (IsAligned <=> IsAligned')
  BY <1>1, PairingKept
<1>8. MoEExact'
  BY <1>1, <1>2, ExactKept DEF MoEExact
<1> QED BY <1>1, <1>4, <1>5, <1>6, <1>7, <1>8 DEF KernelInv

LEMMA ActivationPreserves ==
  ASSUME KernelInv, silu_and_mul
  PROVE  KernelInv'
<1>1. /\ UNCHANGED pairing /\ launch = "gate_up" /\ launch' = "down" /\ ran = Grid(N) /\ ran' = {}
      /\ intermediate_cache1' = intermediate_cache1
      /\ intermediate_cache3' = intermediate_cache3
      /\ DOMAIN intermediate_cache2' = DOMAIN intermediate_cache2
  BY DEF silu_and_mul
<1>2. /\ IsAligned /\ N = 2 * inter /\ N \div 2 = inter /\ N \in Nat \ {0} /\ inter \in Nat \ {0}
      /\ numel \in Nat /\ H \in Nat \ {0}
      /\ DOMAIN intermediate_cache2 = 0 .. numel * inter - 1
      /\ TilesDone(N, intermediate_cache1, GateUpCells, Grid(N))
  BY <1>1, Columns, Sizes DEF KernelInv
<1>3. ASSUME NEW pair \in 0 .. numel - 1, NEW x \in 0 .. inter - 1
      PROVE  intermediate_cache2'[pair * inter + x] = <<Gate(pair, x), Up(pair, x)>>
  <2> DEFINE a == pair * inter + x
  <2>1. a \in DOMAIN intermediate_cache2
    BY <1>2, CellInside
  <2>2. a \div inter = pair /\ a % inter = x
    BY <1>2, DivOfParts
  <2>3. intermediate_cache2'[a] = <<intermediate_cache1[pair * N + x],
                                    intermediate_cache1[pair * N + inter + x]>>
    <3> HIDE DEF a
    <3> QED BY <1>2, <2>1, <2>2 DEF silu_and_mul
  <2>4. x \in 0 .. N - 1 /\ inter + x \in 0 .. N - 1
    BY <1>2
  <2>5. intermediate_cache1[pair * N + x] = GateUpCells[pair][x]
        /\ intermediate_cache1[pair * N + (inter + x)] = GateUpCells[pair][inter + x]
    <3>1. \A c \in 0 .. N - 1 : intermediate_cache1[pair * N + c] = GateUpCells[pair][c]
      <4>1. IsAligned /\ N \in Nat \ {0}
            /\ TilesDone(N, intermediate_cache1, GateUpCells, Grid(N))
        BY <1>2
      <4> QED BY <4>1, AllTiles
    <3> QED BY <2>4, <3>1
  <2>6. pair * N + inter + x = pair * N + (inter + x)
    <3>1. pair * N \in Nat
      BY <1>2, ProductsAreNat
    <3> QED BY <1>2, <3>1
  <2>7. GateUpCells[pair][x] = Gate(pair, x)
    BY <2>4 DEF GateUpCells, Gate, w1
  <2>8. GateUpCells[pair][inter + x] = Up(pair, x)
    <3>1. (inter + x) * H = w3(x)
      <4>1. (inter + x) * H = inter * H + x * H
        BY <1>2, Distributes
      <4> QED BY <4>1 DEF w3
    <3>2. Up(pair, x) = [a |-> pair \div topk, page |-> indicies[ExpertOf(pair)], b |-> w3(x),
                         over |-> 0 .. H - 1, weight |-> numel]
      BY DEF Up, Gate
    <3> QED BY <2>4, <3>1, <3>2 DEF GateUpCells
  <2> QED BY <2>3, <2>5, <2>6, <2>7, <2>8
<1>4. MoEExact'
  BY <1>1, <1>2, <1>3, ExactKept DEF MoEExact
<1>5. model' = model /\ (Routed <=> Routed') /\ (IsAligned <=> IsAligned')
  BY <1>1, PairingKept
<1>6. ran' \in SUBSET Grid(H) /\ TilesDone(H, intermediate_cache3, DownCells, ran)'
  BY <1>1 DEF TilesDone
<1> QED BY <1>1, <1>2, <1>4, <1>5, <1>6 DEF KernelInv

LEMMA SumPreserves ==
  ASSUME KernelInv, SumExperts
  PROVE  KernelInv'
<1>1. /\ UNCHANGED pairing /\ launch = "down" /\ launch' = "done" /\ ran = Grid(H)
      /\ intermediate_cache1' = intermediate_cache1
      /\ intermediate_cache2' = intermediate_cache2
      /\ intermediate_cache3' = intermediate_cache3
  BY DEF SumExperts
<1>2. /\ IsAligned /\ H \in Nat \ {0} /\ topk \in Nat \ {0} /\ M \in Nat /\ numel = M * topk
      /\ TilesDone(H, intermediate_cache3, DownCells, Grid(H))
  BY <1>1, Sizes DEF KernelInv, numel
<1>3. ASSUME NEW t \in 0 .. M - 1, NEW h \in 0 .. H - 1
      PROVE  moe_out'[t][h] = {Down(t * topk + x, h) : x \in 0 .. topk - 1}
  <2>1. ASSUME NEW x \in 0 .. topk - 1
        PROVE  intermediate_cache3[(t * topk + x) * H + h] = Down(t * topk + x, h)
    <3> DEFINE pair == t * topk + x
    <3>1. pair \in 0 .. numel - 1
      BY <1>2, CellInside
    <3> HIDE DEF pair
    <3>2. intermediate_cache3[pair * H + h] = DownCells[pair][h]
      BY <1>2, <3>1, AllTiles
    <3>3. DownCells[pair][h] = Down(pair, h)
      BY <3>1 DEF DownCells
    <3> QED BY <3>2, <3>3 DEF pair
  <2>2. moe_out'[t][h] = {intermediate_cache3[(t * topk + x) * H + h] : x \in 0 .. topk - 1}
    BY DEF SumExperts
  <2> QED BY <2>1, <2>2
<1>4. MoEExact'
  BY <1>1, <1>3, ExactKept DEF MoEExact
<1>5. model' = model /\ (Routed <=> Routed')
  BY <1>1, PairingKept
<1> QED BY <1>1, <1>4, <1>5 DEF KernelInv

LEMMA KernelInvAlways == Spec => []KernelInv
<1>1. Init => KernelInv
  BY KernelInit
<1>2. KernelInv /\ [Next]_layer_vars => KernelInv'
  <2>1. SUFFICES ASSUME KernelInv, [Next]_layer_vars PROVE KernelInv'
    OBVIOUS
  <2>2. CASE Attend
    BY <2>1, <2>2, KernelStays DEF Attend
  <2>3. CASE StartMoE
    BY <2>1, <2>3, StartPreserves
  <2>4. CASE Mix
    <3>1. CASE moe_align_block_size
      BY <2>1, <3>1, AlignPreserves
    <3>2. CASE \E pid \in Grid(N) : GateUpProgram(pid)
      BY <2>1, <3>2, GateUpPreserves
    <3>3. CASE silu_and_mul
      BY <2>1, <3>3, ActivationPreserves
    <3>4. CASE \E pid \in Grid(H) : DownProgram(pid)
      BY <2>1, <3>4, DownPreserves
    <3>5. CASE SumExperts
      BY <2>1, <3>5, SumPreserves
    <3> QED BY <2>4, <3>1, <3>2, <3>3, <3>4, <3>5 DEF Mix, MoENext
  <2>5. CASE PickLast
    BY <2>1, <2>5, KernelStays DEF PickLast
  <2>6. CASE UNCHANGED layer_vars
    BY <2>1, <2>6, KernelStays DEF layer_vars
  <2> QED BY <2>1, <2>2, <2>3, <2>4, <2>5, <2>6 DEF Next
<1> QED BY <1>1, <1>2, PTL DEF Spec

-----------------------------------------------------------------------------
(* The theorems *)

\* For all sizes and any routing, a program that goes on reads its pairs and
\* its expert inside the arrays that moe_align_block_size returned.
THEOREM LoadsInBoundsAlways == Spec => []LoadsInBounds
<1>1. KernelInv => LoadsInBounds
  <2>1. SUFFICES ASSUME KernelInv, launch \in {"gate_up", "down"},
                        NEW cols \in {N, H}, NEW pid \in Grid(cols), HasTokens(pid, cols)
                 PROVE  /\ offs_token_id(pid, cols) \subseteq 0 .. EM - 1
                        /\ pid_m(pid, cols) < Len(expert_ids)
    BY DEF LoadsInBounds
  <2>2. cols \in Nat \ {0}
    BY Columns, Sizes
  <2>3. IsAligned
    BY <2>1 DEF KernelInv
  <2> QED BY <2>1, <2>2, <2>3, BlockInside
<1> QED BY <1>1, KernelInvAlways, PTL

\* For all sizes, any routing and any order of the programs, the activations
\* are made of the right rows of each pair's expert and every token gets the
\* weighted sum of its experts' results.
THEOREM MoEExactAlways == Spec => []MoEExact
<1>1. KernelInv => MoEExact
  BY DEF KernelInv
<1> QED BY <1>1, KernelInvAlways, PTL
=============================================================================
