----------------------------- MODULE Bandwidth -----------------------------
(***************************************************************************)
(* What a tick makes of the errors of the predictions: the average error   *)
(* and the confidence of each page (predictor.c), the priority that        *)
(* pipeline_prioritize gives the page, the weights of the channels, and    *)
(* the bandwidth bw_allocate grants them (tier.c).  Channel c serves tier  *)
(* c - 1.                                                                  *)
(*                                                                         *)
(* Errors and their averages are in tenths; confidences, heats, weights    *)
(* and what they are made of in thousandths; bandwidth in the unit of      *)
(* BandwidthMax.                                                           *)
(***************************************************************************)
EXTENDS Integers, Sequences, FiniteSetsExt

CONSTANTS
    NumPages,
    Foreseen,       \* the pages for which predictor_get returns a state
    Heats,          \* values of heat.value
    Speeds,         \* lengths of motion.velocity, in whole units
    Errors          \* distances of a prediction from what came

\* tier_registry_init_defaults, in GB/s; USB and the file are left out.
BandwidthMax == <<20, 500, 3>>

Channels == DOMAIN BandwidthMax
Pages == 1 .. NumPages

ASSUME BandwidthAssumption ==
    /\ NumPages \in Nat /\ Foreseen \subseteq Pages
    /\ Heats \subseteq 1 .. 1000 /\ Speeds \subseteq Nat /\ Errors \subseteq 0 .. 20

VARIABLES
    served,    \* the pages: channel, heat and speed, and from their states
               \* last_dt > 0, error_ema and confidence
    weight,    \* weight of each channel
    alloc      \* bandwidth_alloc of each channel

bandwidthVars == <<served, weight, alloc>>

SumOver(f) == MapThenSumSet(LAMBDA c: f[c], DOMAIN f)
Least(a, b) == IF a < b THEN a ELSE b

-----------------------------------------------------------------------------
(* predictor_lms_update.  What the gradient does to the rotation shows in    *)
(* the errors to come, which are any.                                       *)

LmsUpdated(page, error) ==
    IF error = 0 THEN page
    ELSE LET ema == (9 * page.ema + error + 5) \div 10
         IN  [page EXCEPT !.ema = ema, !.confidence = 1000 \div (1 + ema)]

\* pipeline_predict: the comparison, if there is something to compare with,
\* and predictor_step, which stores the velocity.
Compared(page, error, speed) ==
    LET updated == IF page.compared THEN LmsUpdated(page, error) ELSE page
    IN  [updated EXCEPT !.compared = TRUE, !.speed = speed]

-----------------------------------------------------------------------------
(* The relativistic priority.  No code calls motion_update, so the greatest *)
(* motion.speed is always 0, and 1 is taken for it.                         *)

\* lorentz_factor(speed, 1): beta is 0, or cut at 0.9999.
LorentzFactor(speed) == IF speed = 0 THEN 1000 ELSE 70712

Thousandth(a, b) == (a * b) \div 1000

\* relativistic_priority.  A page at rest is expected in a million seconds:
\* what is left of its heat is rounded up.
Priority(page) ==
    LET gamma == LorentzFactor(page.speed)
        gain == 10000 \div (10 + page.ema)
        gained == Thousandth(Thousandth(Thousandth(gamma, page.confidence), gain), page.heat)
        cost == (1000 - 1000000 \div gamma) \div 2
    IN  IF page.speed = 0 THEN 1 ELSE gained * page.speed - cost

\* pipeline_prioritize
Weight(c, pages) ==
    SumOver([p \in {q \in Pages: pages[q].channel = c} |->
                IF p \in Foreseen THEN Priority(pages[p]) ELSE pages[p].heat])

-----------------------------------------------------------------------------
(* bw_allocate, over the sum of all tiers' bandwidth (pipeline_throttle).   *)

TotalBudget == SumOver(BandwidthMax)

\* Mutant: the sum of the weights is only compared with zero.
BudgetsOfAnySum(weights) ==
    LET sum == SumOver(weights)
    IN  [c \in Channels |-> IF sum = 0 THEN TotalBudget \div Len(BandwidthMax)
                            ELSE (weights[c] * TotalBudget) \div sum]

\* The shares, before they are cut.
Budgets(weights) ==
    LET sum == SumOver(weights)
    IN  [c \in Channels |-> IF sum <= 0 THEN TotalBudget \div Len(BandwidthMax)
                            ELSE (weights[c] * TotalBudget) \div sum]

\* bw_allocate with bw_effective; bandwidth_desired is bandwidth_max in every
\* command.
Allocated(weights) ==
    LET budget == Budgets(weights)
    IN  [c \in Channels |-> Least(BandwidthMax[c], budget[c])]

-----------------------------------------------------------------------------
\* page_alloc, and the channels of cmd_run; nothing is granted yet.
BandwidthInit ==
    /\ served \in [Pages -> [channel: Channels, heat: Heats, speed: {0}, compared: {FALSE},
                             ema: {0}, confidence: {500}]]
    /\ weight = [c \in Channels |-> 1000]
    /\ alloc = <<>>

\* pipeline_tick: predict, prioritize and throttle.  Since the last tick the
\* heat and the velocity of a page became any, and it moved one tier at most.
TickBandwidth ==
    /\ \E heat \in [Pages -> Heats], speed \in [Foreseen -> Speeds],
          error \in [Foreseen -> Errors], move \in [Pages -> {-1, 0, 1}]:
         /\ \A p \in Pages: served[p].channel + move[p] \in Channels
         /\ served' = [p \in Pages |->
                [IF p \in Foreseen THEN Compared(served[p], error[p], speed[p]) ELSE served[p]
                    EXCEPT !.heat = heat[p], !.channel = @ + move[p]]]
    /\ weight' = [c \in Channels |-> Weight(c, served')]
    /\ alloc' = Allocated(weight')

BandwidthSpec == BandwidthInit /\ [][TickBandwidth]_bandwidthVars

-----------------------------------------------------------------------------
(* Properties                                                              *)

(* Whatever the weights are, the priorities of moving pages that were badly   *)
(* predicted being negative, the channel with the greatest weight is granted  *)
(* at least an equal part of the bandwidth, or all it can carry               *)
(* (tier.c:96-128).                                                          *)
BusiestIsServed ==
    \A c \in Channels:
        alloc # <<>> /\ (\A d \in Channels: weight[d] <= weight[c])
            => alloc[c] >= Least(BandwidthMax[c], TotalBudget \div Len(BandwidthMax))

(* "Allocate bandwidth B_j^{alloc}(t) within budget" (README.md:68): no       *)
(* channel is granted less than nothing.                                    *)
GrantsNothingNegative == \A c \in DOMAIN alloc: alloc[c] >= 0
=============================================================================
