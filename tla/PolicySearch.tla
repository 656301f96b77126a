---------------------------- MODULE PolicySearch ----------------------------
(***************************************************************************)
(* How the engine finds its policy at start-up (backend/optimizer.py):     *)
(* `solve` tries micro-batch sizes gbs, finds for each the largest number  *)
(* of micro-batches that fits (get_nb_ub: doubling, then bisection), and   *)
(* walks up to it while the throughput does not fall.  Each question goes  *)
(* to a linear program, which is small enough to be solved by hand: the    *)
(* share wg of the experts on the GPU is its only free variable.           *)
(*                                                                         *)
(* Sizes and times are integers in units of their own, `config` gives what *)
(* solve_lp computes from the model and the hardware.  wg is a multiple of *)
(* 1 / WgUnit, fine enough for the optimum to be one.                      *)
(***************************************************************************)
EXTENDS Integers, FiniteSetsExt

CONSTANT Configs    \* the CostModelConfigs a server may be started with

Quantities == {
  "gmem", "cmem",       \* memory the program may plan with
  "w_other",            \* weights other than experts
  "prefill",            \* GPU bytes per request of the batch while prefilling
  "buffer",             \* ... per request of a micro-batch while prefilling
  "inter",              \* intermediate results per request of a micro-batch
  "cache",              \* CPU bytes per request: keys, values, hidden states
  "attention",          \* time of CPU attention per request
  "flops",              \* time of the MoE's arithmetic per request
  "bytes", "weights"}   \* time of its memory traffic per request, per micro-batch

ASSUME ConfigAssumption ==
  \A c \in Configs :
    /\ \A q \in Quantities : c[q] \in Nat
    /\ c.l \in Nat /\ c.l > 2             \* layers
    /\ c.wi \in Nat \ {0}                 \* size of a layer's experts, time to copy them
    /\ c.decode \in Nat \ {0}             \* GPU bytes per request while decoding

-----------------------------------------------------------------------------
(* solve_lp for a batch of bls requests in micro-batches of gbs *)

WgUnit(c) == c.wi * (c.l - 2)

gpu_home_d(c, bls) == c.decode * bls
gpu_home_p(c, bls, gbs) == c.prefill * bls + c.buffer * gbs

Larger(a, b) == IF a >= b THEN a ELSE b

\* GPU memory left for experts beyond the two pages of weights in flight.
gpu_room(c, bls, gbs) ==
  c.gmem - c.w_other - 2 * c.wi - c.inter * gbs
    - Larger(gpu_home_d(c, bls), gpu_home_p(c, bls, gbs))

\* Time only falls with wg: the program takes as much as the GPU has room for.
wg(c, bls, gbs) ==
  IF gpu_room(c, bls, gbs) < WgUnit(c) THEN gpu_room(c, bls, gbs) ELSE WgUnit(c)

\* Experts on the CPU, with the two pages of pinned memory, and the caches.
cpu_fits(c, bls, gbs) ==
  (c.l + 2) * c.wi * (WgUnit(c) - wg(c, bls, gbs)) + c.cache * bls * WgUnit(c)
     <= c.cmem * WgUnit(c)

\* status = 1, or else -1.
Feasible(c, bls, gbs) == gpu_room(c, bls, gbs) >= 0 /\ cpu_fits(c, bls, gbs)

\* The slowest of loading experts, CPU attention and the MoE, times WgUnit.
LayerTime(c, bls, gbs) ==
  Max({c.wi * (WgUnit(c) - wg(c, bls, gbs)),
       c.attention * bls * WgUnit(c),
       c.flops * bls * WgUnit(c),
       (c.weights + c.bytes * gbs) * (bls \div gbs) * WgUnit(c)})

\* Requests per time, as a fraction.
Throughput(c, bls, gbs) == <<bls, LayerTime(c, bls, gbs)>>
AtLeast(t, u) == t[1] * u[2] >= u[1] * t[2]

-----------------------------------------------------------------------------
VARIABLES
  config,
  pc,                      \* where solve and get_nb_ub are
  gbs,                     \* micro-batch size being tried
  nb, left, right,         \* get_nb_ub's
  nb_ub,                   \* its result
  prev,                    \* prev_throughput
  best_policy              \* with max_throughput

search_vars == <<config, pc, gbs, nb, left, right, nb_ub, prev, best_policy>>

NoPolicy == [ubs |-> 0, n_ub |-> 0, throughput |-> <<0, 1>>]

TypeOK ==
  /\ config \in Configs
  /\ pc \in {"doubling", "bisecting", "walking", "done"}
  /\ gbs \in Nat \ {0} /\ nb \in Nat \ {0}
  /\ left \in Nat \ {0} /\ right \in Nat \ {0}
  /\ nb_ub \in Nat

SearchInit ==
  /\ config \in Configs
  /\ pc = "doubling"
  /\ gbs = 1
  /\ nb = 1 /\ left = 1 /\ right = 1
  /\ nb_ub = 0
  /\ prev = <<0, 1>>
  /\ best_policy = NoPolicy

-----------------------------------------------------------------------------
(* get_nb_ub *)

Fits(n) == Feasible(config, gbs * n, gbs)

Double ==
  /\ pc = "doubling" /\ Fits(nb)
  /\ nb' = 2 * nb
  /\ UNCHANGED <<config, pc, gbs, left, right, nb_ub, prev, best_policy>>

\* Mutation: the bisection starts at the number that did not fit.
FirstLeft_mutant == nb

FirstLeft == Larger(nb \div 2, 1)

Bisect ==
  /\ pc = "doubling" /\ ~Fits(nb)
  /\ pc' = "bisecting"
  /\ left' = FirstLeft
  /\ right' = nb
  /\ UNCHANGED <<config, gbs, nb, nb_ub, prev, best_policy>>

\* Mutation: rounded up.
mid_mutant == (left + right + 1) \div 2

mid == (left + right) \div 2

Raise ==
  /\ pc = "bisecting" /\ left < right /\ Fits(mid)
  /\ left' = mid + 1
  /\ UNCHANGED <<config, pc, gbs, nb, right, nb_ub, prev, best_policy>>

Lower ==
  /\ pc = "bisecting" /\ left < right /\ ~Fits(mid)
  /\ right' = mid
  /\ UNCHANGED <<config, pc, gbs, nb, left, nb_ub, prev, best_policy>>

Bounded ==
  /\ pc = "bisecting" /\ ~(left < right)
  /\ nb_ub' = left - 1
  /\ pc' = IF left - 1 = 0 THEN "done" ELSE "walking"
  /\ nb' = 1
  /\ prev' = <<0, 1>>
  /\ UNCHANGED <<config, gbs, left, right, best_policy>>

-----------------------------------------------------------------------------
(* solve *)

\* Mutation: compared with the best of all sizes, not with the number before.
Falls_mutant ==
  ~AtLeast(Throughput(config, gbs * nb, gbs), best_policy.throughput)

Falls == ~AtLeast(Throughput(config, gbs * nb, gbs), prev)

best(p) == IF AtLeast(p.throughput, best_policy.throughput) THEN p ELSE best_policy

Walk ==
  /\ pc = "walking" /\ nb <= nb_ub /\ ~Falls
  /\ LET t == Throughput(config, gbs * nb, gbs)
     IN  /\ prev' = t
         /\ best_policy' = best([ubs |-> gbs, n_ub |-> nb, throughput |-> t])
  /\ nb' = nb + 1
  /\ UNCHANGED <<config, pc, gbs, left, right, nb_ub>>

NextGbs(g) == IF g < 4 THEN g + 1 ELSE g + 32

NextSize ==
  /\ pc = "walking" /\ (nb > nb_ub \/ Falls)
  /\ gbs' = NextGbs(gbs)
  /\ nb' = 1 /\ left' = 1 /\ right' = 1
  /\ pc' = "doubling"
  /\ UNCHANGED <<config, nb_ub, prev, best_policy>>

SearchNext == Double \/ Bisect \/ Raise \/ Lower \/ Bounded \/ Walk \/ NextSize

SearchSpec == SearchInit /\ [][SearchNext]_search_vars /\ WF_search_vars(SearchNext)

-----------------------------------------------------------------------------
(* Properties *)

\* get_nb_ub returns the largest number of micro-batches that fits: every
\* smaller one fits, and no larger one does.
BoundExact ==
  pc \in {"walking", "done"} =>
    \A n \in 1 .. 2 * (nb_ub + 1) : Fits(n) <=> n <= nb_ub

\* solve stops at the first number of micro-batches that is slower than the
\* one before, and at the first size of which not even one fits.  It misses
\* nothing by that: no policy of a size it went past, or of a larger one, that
\* fits is faster than its answer.
BestFound ==
  pc = "done" =>
    \A g \in {1, 2, 3, 4} \cup {36} : \A n \in 1 .. config.gmem :
      Feasible(config, g * n, g) =>
        AtLeast(best_policy.throughput, Throughput(config, g * n, g))

\* The search ends, whatever the memory (the solver answers 1 or -1).
SearchEnds == <>(pc = "done")
=============================================================================
