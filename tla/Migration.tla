----------------------------- MODULE Migration -----------------------------
(***************************************************************************)
(* The migration step of the pipeline over the page table: migrate.c and   *)
(* pipeline_migrate.  Between two ticks the application allocates, frees,  *)
(* maps, accesses and pins pages; a tick evaluates the pages one by one,   *)
(* enqueues what is approved, executes the queue entry by entry and clears *)
(* it.  Both run in one thread: nothing comes between the steps of a tick. *)
(*                                                                         *)
(* The other steps of a tick only decide the heat level and the speed of a *)
(* page, from floating-point state: here a choice at each evaluation.      *)
(***************************************************************************)
EXTENDS PageTable

CONSTANTS
    TierCapacity,   \* tier -> capacity, or Unlimited (UINT64_MAX)
    Unlimited,
    Latency,        \* tier -> latency
    Energy,         \* tier -> energy_cost
    TransferTime,   \* tier -> time for one unit of size: 1 / bandwidth_max
    LatencyWeight,  \* latency_weight and energy_weight, in 1 / Scale
    EnergyWeight,
    Scale,
    Threshold,      \* benefit_threshold
    Horizon,        \* prediction_horizon
    Motions,        \* values of motion_factor, at least 1
    Levels,         \* heat levels an evaluation may find
    HotAbove,       \* access_count > 50 is hot
    ColdBelow,      \* access_count < 10 may be cold
    QueueMax        \* UFTA_MAX_MIGRATE_QUEUE

\* Tiers are numbered from the fastest to the slowest: an access never gets
\* cheaper from a tier to the next (tier_registry_init_defaults).
ASSUME MigrationAssumption ==
    /\ Latency \in [Tiers -> Nat] /\ Energy \in [Tiers -> Nat]
    /\ TransferTime \in [Tiers -> Nat]
    /\ \A t \in Tiers: TierCapacity[t] = Unlimited \/ TierCapacity[t] \in Nat
    /\ LatencyWeight \in Nat /\ EnergyWeight \in Nat
    /\ Scale \in Nat /\ Threshold \in Nat /\ Horizon \in Nat
    /\ Motions \subseteq Nat \ {0} /\ Levels \subseteq {"cold", "warm", "hot"}
    /\ HotAbove \in Nat /\ ColdBelow \in Nat /\ QueueMax \in Nat
    /\ \A s, t \in Tiers: s < t =>
          Latency[s] <= Latency[t] /\ Energy[s] <= Energy[t]

VARIABLES
    pc,     \* "idle" between ticks, "evaluate" or "execute" in one
    at,     \* the place in the page array, or in the queue, of that loop
    queue   \* me->queue[0 .. queue_len-1]

vars == <<tableVars, pc, at, queue>>

Decision == [id: Nat, from: Tiers, to: Tiers]

-----------------------------------------------------------------------------
(* Gain and cost (migrate.c)                                               *)

Larger(a, b) == IF a >= b THEN a ELSE b

\* tier_access_cost
AccessCost(t) == LatencyWeight * Latency[t] + EnergyWeight * Energy[t]

\* predicted_accesses
Predicted(p, motion) == Larger(1, p.accesses) * motion * Horizon

\* migrate_compute_gain
Gain(p, from, to, motion) ==
    (AccessCost(from) - AccessCost(to)) * Predicted(p, motion)

\* migrate_compute_cost: the slower of the two bandwidths counts, and latency
\* and energy enter without their weights.
Cost(p, from, to) ==
    p.size * Larger(TransferTime[from], TransferTime[to])
      + Scale * (Latency[from] + Latency[to] + Energy[from] + Energy[to])

\* Mutant: the threshold is taken for a tolerated loss.
ApprovedWithinLoss(p, from, to, motion) ==
    /\ ~p.pinned
    /\ Gain(p, from, to, motion) - Cost(p, from, to) > 0 - Threshold

\* migrate_evaluate
Approved(p, from, to, motion) ==
    /\ ~p.pinned
    /\ Gain(p, from, to, motion) - Cost(p, from, to) > Threshold

-----------------------------------------------------------------------------
(* One tick                                                                *)

IsHot(p, level) == level = "hot" \/ p.accesses > HotAbove
IsCold(p, level) == level = "cold" /\ p.accesses < ColdBelow

\* The decisions a page brings to migrate_enqueue, in order.
Decisions(p, level, motion) ==
    LET up == IsHot(p, level) /\ p.tier > 0
                /\ Approved(p, p.tier, p.tier - 1, motion)
        down == IsCold(p, level) /\ p.tier < NumTiers - 1
                /\ Approved(p, p.tier, p.tier + 1, motion)
        to(t) == <<[id |-> p.id, from |-> p.tier, to |-> t]>>
    IN  (IF up THEN to(p.tier - 1) ELSE <<>>)
          \o (IF down THEN to(p.tier + 1) ELSE <<>>)

\* Mutant: the last entry of the queue is never used.
EnqueueOneShort(q, ds) == IF Len(q) + 1 < QueueMax THEN q \o ds ELSE q

\* migrate_enqueue: what does not fit is refused, and nobody looks.
Enqueue(q, ds) == SubSeq(q \o ds, 1, IF Len(q \o ds) <= QueueMax
                                       THEN Len(q \o ds) ELSE QueueMax)

StartTick ==
    /\ pc = "idle"
    /\ pc' = "evaluate" /\ at' = 1
    /\ UNCHANGED <<tableVars, queue>>

\* The body of the loop of pipeline_migrate for one page.
Evaluate ==
    /\ pc = "evaluate" /\ at <= Len(pages)
    /\ \E level \in Levels, motion \in Motions:
          queue' = IF pages[at].pinned THEN queue
                   ELSE Enqueue(queue, Decisions(pages[at], level, motion))
    /\ at' = at + 1
    /\ UNCHANGED <<tableVars, pc>>

StartExecute ==
    /\ pc = "evaluate" /\ at > Len(pages)
    /\ pc' = "execute" /\ at' = 1
    /\ UNCHANGED <<tableVars, queue>>

\* Mutant: the destination was found to have room when the page was evaluated.
HasRoomBefore(t, size) ==
    TierCapacity[t] = Unlimited \/ used[t] < TierCapacity[t]

HasRoom(t, size) ==
    TierCapacity[t] = Unlimited \/ used[t] + size <= TierCapacity[t]

\* The move itself: from_tier is the page's tier, whatever the decision says.
Move(k, to) ==
    LET p == pages[k]
        left == [used EXCEPT ![p.tier] = Less(@, p.size)]
        fewer == [residents EXCEPT ![p.tier] = Less(@, 1)]
    IN  /\ used' = [left EXCEPT ![to] = @ + p.size]
        /\ residents' = [fewer EXCEPT ![to] = @ + 1]
        /\ pages' = [pages EXCEPT ![k].tier = to]
        /\ UNCHANGED <<nextVaddr, addrMap>>

\* One entry of the queue in migrate_execute.  An entry whose page is gone or
\* pinned, or whose destination is full, is skipped.
Execute ==
    /\ pc = "execute" /\ at <= Len(queue)
    /\ LET k == Find(queue[at].id)
           to == queue[at].to
       IN  IF k # 0 /\ ~pages[k].pinned /\ HasRoom(to, pages[k].size)
             THEN Move(k, to)
             ELSE UNCHANGED tableVars
    /\ at' = at + 1
    /\ UNCHANGED <<pc, queue>>

\* Mutant: the queue is not cleared.
EndTickKeepsQueue ==
    /\ pc = "execute" /\ at > Len(queue)
    /\ pc' = "idle" /\ at' = 1
    /\ UNCHANGED <<tableVars, queue>>

EndTick ==
    /\ pc = "execute" /\ at > Len(queue)
    /\ pc' = "idle" /\ at' = 1 /\ queue' = <<>>
    /\ UNCHANGED tableVars

-----------------------------------------------------------------------------
Init == TableInit /\ pc = "idle" /\ at = 1 /\ queue = <<>>

Application == pc = "idle" /\ TableNext /\ UNCHANGED <<pc, at, queue>>

Tick == StartTick \/ Evaluate \/ StartExecute \/ Execute \/ EndTick

Next == Application \/ Tick

Spec == Init /\ [][Next]_vars

\* pipeline_run and the loops of the demo, validation and GUI commands tick
\* again and again (pipeline.c:269-278): ticks start, and end.
FairSpec == Spec /\ WF_vars(Tick)

-----------------------------------------------------------------------------
(* Properties                                                              *)

TypeOK ==
    /\ pages \in Seq(Page) /\ Len(pages) <= Capacity
    /\ nextVaddr \in Nat
    /\ used \in [Tiers -> Nat] /\ residents \in [Tiers -> Nat]
    /\ DOMAIN addrMap \subseteq Nat
    /\ \A i \in DOMAIN addrMap: addrMap[i] \in Nat
    /\ pc \in {"idle", "evaluate", "execute"}
    /\ at \in Nat \ {0}
    /\ queue \in Seq(Decision) /\ Len(queue) <= QueueMax

(* Only promotions by one tier are ever approved: for a colder, slower tier  *)
(* the gain of migrate_compute_gain is never positive, so no heat, access    *)
(* count, size or speed gets the second half of pipeline_migrate             *)
(* (pipeline.c:193-202) past the threshold.                                  *)
QueuedUp == \A i \in DOMAIN queue: queue[i].to = queue[i].from - 1

(* A tick moves a page to the next faster tier or leaves it, and leaves a    *)
(* pinned page: the decisions executed are those of this tick, about the     *)
(* tier the page is still on (migrate.c:134-178), as long as no two pages    *)
(* share an id.                                                              *)
OneTierUp == [][pc # "idle" /\ IdsUnique =>
    \A k \in DOMAIN pages: pages'[k].tier # pages[k].tier =>
        ~pages[k].pinned /\ pages'[k].tier = pages[k].tier - 1]_vars

(* A tick never fills a tier past its capacity, though all its decisions     *)
(* were taken before the first of them was executed (migrate.c:149-155), and *)
(* though page_alloc may have overfilled it.                                 *)
NoOvercommit == [][pc # "idle" =>
    \A t \in Tiers: used'[t] > used[t] =>
        TierCapacity[t] = Unlimited \/ used'[t] <= TierCapacity[t]]_vars

\* Page k would be approved at any speed, and its destination has room.
Promotable(k) ==
    /\ k \in DOMAIN pages
    /\ pages[k].tier > 0 /\ IsHot(pages[k], "cold")
    /\ \A motion \in Motions:
          Approved(pages[k], pages[k].tier, pages[k].tier - 1, motion)
    /\ HasRoom(pages[k].tier - 1, pages[k].size)

(* A page worth promoting that has room does not wait for ever, if it is one *)
(* of the first pages of the table, as many as the queue has entries: they   *)
(* are evaluated first, and find room in the queue (migrate.c:118-125).      *)
HotClimbs == []IdsUnique => \A k \in 1 .. QueueMax: []<>~Promotable(k)

(* A page that nobody accesses and that is evaluated as cold leaves for a    *)
(* slower tier that has room: "Try migrating to slower tier if cold"         *)
(* (pipeline.c:193).                                                         *)
ColdSinks == \A k \in 1 .. Capacity: []<>~
    /\ k \in DOMAIN pages
    /\ IsCold(pages[k], "cold") /\ ~pages[k].pinned
    /\ pages[k].tier < NumTiers - 1
    /\ HasRoom(pages[k].tier + 1, pages[k].size)
=============================================================================
