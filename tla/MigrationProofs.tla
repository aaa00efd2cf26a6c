-------------------------- MODULE MigrationProofs --------------------------
(***************************************************************************)
(* The page table and the migration step for every tier registry, weight,  *)
(* threshold, horizon, queue length and table size: types, what can be     *)
(* queued, where live pages lie and what their addresses translate to,     *)
(* what a tick may move, and that the counters of the tiers are exact.     *)
(* Then the bandwidth of the tiers' channels, which needs the same facts   *)
(* about sums over a finite set.                                           *)
(***************************************************************************)
EXTENDS Migration, Bandwidth, SequenceTheorems, FiniteSetTheorems, WellFoundedInduction, TLAPS

\* A set of naturals has a least element: what Min of FiniteSetsExt returns.
LEMMA LeastElement ==
    ASSUME NEW S \in SUBSET Nat, S # {}
    PROVE  \E n \in S : \A m \in S : n <= m
<1> DEFINE R == OpToRel(<, Nat)
<1>1. IsWellFoundedOn(R, Nat)
  BY NatLessThanWellFounded
<1>2. \A x, y \in Nat : x < y => <<x, y>> \in R
  BY DEF OpToRel
<1> HIDE DEF R
<1>3. \E n \in S : \A m \in S : ~ (<<m, n>> \in R)
  BY <1>1, WFMin
<1>4. PICK n \in S : \A m \in S : ~ (<<m, n>> \in R)
  BY <1>3
<1>5. ASSUME NEW m \in S PROVE n <= m
  <2>1. ~ (m < n)
    BY <1>2, <1>4, Zenon
  <2> QED
    BY <2>1
<1> QED
  BY <1>5

\* page_find returns a place of the array with the id, or none.
LEMMA FindResult ==
    ASSUME NEW id, pages \in Seq(Page)
    PROVE  /\ Find(id) \in 0 .. Len(pages)
           /\ Find(id) # 0 => pages[Find(id)].id = id
<1> DEFINE I == {m \in 1 .. Len(pages): pages[m].id = id}
<1>1. CASE I = {}
  BY <1>1 DEF Find, SelectInSeq
<1>2. CASE I # {}
  <2>1. I \in SUBSET Nat
    OBVIOUS
  <2>2. PICK n \in I : \A m \in I : n <= m
    BY <1>2, <2>1, LeastElement
  <2>3. Min(I) \in I
    BY <2>2 DEF Min
  <2> QED
    BY <1>2, <2>3 DEF Find, SelectInSeq
<1> QED
  BY <1>1, <1>2

\* page_find finds a page of the table, if no other has its id.
LEMMA FindLive ==
    ASSUME pages \in Seq(Page), NEW k \in 1 .. Len(pages), IdsUnique
    PROVE  Find(pages[k].id) = k
<1> DEFINE id == pages[k].id
           I == {m \in 1 .. Len(pages) : pages[m].id = id}
<1>1. Len(pages) \in Nat /\ DOMAIN pages = 1 .. Len(pages)
  BY LenProperties
<1>2. I = {k}
  BY <1>1 DEF IdsUnique
<1>3. Min(I) = k
  <2>1. \A m \in I : k <= m
    BY <1>1, <1>2
  <2> QED
    BY <1>2, <2>1 DEF Min
<1>4. Find(id) = IF I # {} THEN Min(I) ELSE 0
  BY <1>1 DEF Find, SelectInSeq
<1> QED
  BY <1>2, <1>3, <1>4
-----------------------------------------------------------------------------
(* Sequences of pages.                                                     *)

\* What remains of the page array after page_free's memmove.
LEMMA RemoveAtPages ==
    ASSUME NEW k \in 1 .. Len(pages), pages \in Seq(Page)
    PROVE  /\ RemoveAt(pages, k) \in Seq(Page)
           /\ Len(RemoveAt(pages, k)) = Len(pages) - 1
           /\ \A m \in 1 .. Len(pages) - 1 :
                 RemoveAt(pages, k)[m] = IF m < k THEN pages[m] ELSE pages[m + 1]
<1> DEFINE front == SubSeq(pages, 1, k - 1)
           back == SubSeq(pages, k + 1, Len(pages))
<1>1. Len(pages) \in Nat /\ \A m \in 1 .. Len(pages) : pages[m] \in Page
  BY LenProperties, ElementOfSeq
<1>2. /\ front \in Seq(Page) /\ Len(front) = k - 1
      /\ \A m \in 1 .. k - 1 : front[m] = pages[m]
  <2>1. \A m \in 1 .. k - 1 : pages[m] \in Page
    BY <1>1
  <2>2. /\ front \in Seq(Page)
        /\ Len(front) = IF 1 <= k - 1 THEN k - 1 - 1 + 1 ELSE 0
        /\ \A m \in 1 .. k - 1 - 1 + 1 : front[m] = pages[1 + m - 1]
    BY <2>1, SubSeqProperties
  <2> QED
    BY <1>1, <2>2
<1>3. /\ back \in Seq(Page) /\ Len(back) = Len(pages) - k
      /\ \A m \in 1 .. Len(pages) - k : back[m] = pages[k + m]
  <2>1. \A m \in k + 1 .. Len(pages) : pages[m] \in Page
    BY <1>1
  <2>2. /\ back \in Seq(Page)
        /\ Len(back) = IF k + 1 <= Len(pages) THEN Len(pages) - (k + 1) + 1 ELSE 0
        /\ \A m \in 1 .. Len(pages) - (k + 1) + 1 : back[m] = pages[(k + 1) + m - 1]
    BY <1>1, <2>1, SubSeqProperties
  <2> QED
    BY <1>1, <2>2
<1>4. /\ front \o back \in Seq(Page)
      /\ Len(front \o back) = Len(front) + Len(back)
      /\ \A m \in 1 .. Len(front) + Len(back) :
            (front \o back)[m] = IF m <= Len(front) THEN front[m]
                                                    ELSE back[m - Len(front)]
  BY <1>2, <1>3, ConcatProperties
<1>5. RemoveAt(pages, k) = front \o back
  BY DEF RemoveAt
<1> HIDE DEF front, back
<1>6. Len(front) + Len(back) = Len(pages) - 1
  BY <1>1, <1>2, <1>3
<1>7. ASSUME NEW m \in 1 .. Len(pages) - 1
      PROVE  (front \o back)[m] = IF m < k THEN pages[m] ELSE pages[m + 1]
  <2>1. CASE m < k
    BY <1>1, <1>2, <1>4, <1>6, <2>1
  <2>2. CASE m >= k
    <3>1. m - (k - 1) \in 1 .. Len(pages) - k /\ k + (m - (k - 1)) = m + 1
      BY <1>1, <2>2
    <3>2. (front \o back)[m] = back[m - (k - 1)]
      BY <1>1, <1>2, <1>4, <1>6, <2>2
    <3> QED
      BY <1>3, <2>2, <3>1, <3>2
  <2>3. m < k \/ m >= k
    BY <1>1
  <2> QED
    BY <2>1, <2>2, <2>3, Zenon
<1> QED
  BY <1>4, <1>5, <1>6, <1>7

-----------------------------------------------------------------------------
(* What can be approved.                                                   *)

\* An access costs no less at a slower tier.
LEMMA AccessCostMonotone ==
    ASSUME NEW s \in Tiers, NEW t \in Tiers, s < t
    PROVE  /\ AccessCost(s) \in Nat /\ AccessCost(t) \in Nat
           /\ AccessCost(s) <= AccessCost(t)
<1>1. /\ Latency[s] \in Nat /\ Latency[t] \in Nat
      /\ Energy[s] \in Nat /\ Energy[t] \in Nat
      /\ Latency[s] <= Latency[t] /\ Energy[s] <= Energy[t]
  BY MigrationAssumption
<1>2. \A w, a, b \in Nat : a <= b =>
         w * a \in Nat /\ w * b \in Nat /\ w * a <= w * b
  OBVIOUS
<1>3. /\ LatencyWeight * Latency[s] \in Nat /\ LatencyWeight * Latency[t] \in Nat
      /\ LatencyWeight * Latency[s] <= LatencyWeight * Latency[t]
  BY <1>1, <1>2, MigrationAssumption
<1>4. /\ EnergyWeight * Energy[s] \in Nat /\ EnergyWeight * Energy[t] \in Nat
      /\ EnergyWeight * Energy[s] <= EnergyWeight * Energy[t]
  BY <1>1, <1>2, MigrationAssumption
<1> QED
  BY <1>3, <1>4 DEF AccessCost

\* migrate_evaluate approves no move to a slower tier: the gain is not
\* positive, the cost is not negative, and the threshold is not negative.
LEMMA NeverWorthDemoting ==
    ASSUME NEW p \in Page, NEW s \in Tiers, NEW t \in Tiers, s < t,
           NEW motion \in Motions
    PROVE  ~ Approved(p, s, t, motion)
<1>1. Predicted(p, motion) \in Nat
  <2>1. Larger(1, p.accesses) \in Nat /\ motion \in Nat /\ Horizon \in Nat
    BY MigrationAssumption DEF Larger, Page
  <2>2. \A a, b, c \in Nat : a * b * c \in Nat
    OBVIOUS
  <2> QED
    BY <2>1, <2>2 DEF Predicted
<1>2. AccessCost(s) - AccessCost(t) \in Int /\ AccessCost(s) - AccessCost(t) <= 0
  BY AccessCostMonotone
<1>3. \A a \in Int, b \in Nat : a <= 0 => a * b \in Int /\ a * b <= 0
  OBVIOUS
<1>4. Gain(p, s, t, motion) \in Int /\ Gain(p, s, t, motion) <= 0
  BY <1>1, <1>2, <1>3 DEF Gain
<1>5. Cost(p, s, t) \in Nat
  <2>1. /\ p.size \in Nat /\ Scale \in Nat
        /\ Larger(TransferTime[s], TransferTime[t]) \in Nat
        /\ Latency[s] + Latency[t] + Energy[s] + Energy[t] \in Nat
    BY MigrationAssumption DEF Larger, Page
  <2>2. \A a, b, c, d \in Nat : a * b + c * d \in Nat
    OBVIOUS
  <2> QED
    BY <2>1, <2>2 DEF Cost
<1>6. Threshold \in Nat
  BY MigrationAssumption
<1> QED
  BY <1>4, <1>5, <1>6 DEF Approved

\* What a page brings to the queue is a promotion from its tier, or nothing.
LEMMA DecisionsUp ==
    ASSUME NEW p \in Page, NEW level, NEW motion \in Motions
    PROVE  \/ Decisions(p, level, motion) = << >>
           \/ \E d \in Decision : /\ d.id = p.id /\ d.from = p.tier /\ d.to = p.tier - 1
                                 /\ Decisions(p, level, motion) = <<d>>
<1> DEFINE d == [id |-> p.id, from |-> p.tier, to |-> p.tier - 1]
           up == IsHot(p, level) /\ p.tier > 0 /\ Approved(p, p.tier, p.tier - 1, motion)
           down == IsCold(p, level) /\ p.tier < NumTiers - 1
                     /\ Approved(p, p.tier, p.tier + 1, motion)
           sinks == [id |-> p.id, from |-> p.tier, to |-> p.tier + 1]
<1>1. p.id \in Nat /\ p.tier \in Tiers /\ Tiers = 0 .. NumTiers - 1 /\ NumTiers \in Nat
  BY PageTableAssumption DEF Page, Tiers
<1>2. ~ down
  BY <1>1, NeverWorthDemoting
<1>3. up => d \in Decision
  BY <1>1 DEF Decision
<1>4. Decisions(p, level, motion)
        = (IF up THEN <<d>> ELSE << >>) \o (IF down THEN <<sinks>> ELSE << >>)
  BY DEF Decisions
<1>5. d.id = p.id /\ d.from = p.tier /\ d.to = p.tier - 1
  OBVIOUS
<1> HIDE DEF d, up, down
<1>6. Decisions(p, level, motion) = IF up THEN <<d>> ELSE << >>
  BY <1>2, <1>3, <1>4
<1> QED
  BY <1>3, <1>5, <1>6

\* migrate_enqueue leaves what is in the queue where it is, and puts a decision
\* behind it if there is room.
LEMMA EnqueueEffect ==
    ASSUME NEW q \in Seq(Decision), Len(q) <= QueueMax
    PROVE  /\ Enqueue(q, << >>) = q
           /\ \A d \in Decision :
                 \/ Enqueue(q, <<d>>) = q
                 \/ Enqueue(q, <<d>>) = Append(q, d) /\ Len(q) < QueueMax
<1>1. Len(q) \in Nat /\ QueueMax \in Nat /\ q \o << >> = q
  BY MigrationAssumption, LenProperties
<1>2. Enqueue(q, << >>) = q
  <2>1. Enqueue(q, << >>) = SubSeq(q, 1, Len(q))
    BY <1>1 DEF Enqueue
  <2> QED
    BY <2>1
<1>3. ASSUME NEW d \in Decision
      PROVE  \/ Enqueue(q, <<d>>) = q
             \/ Enqueue(q, <<d>>) = Append(q, d) /\ Len(q) < QueueMax
  <2>1. /\ Append(q, d) \in Seq(Decision) /\ Len(Append(q, d)) = Len(q) + 1
        /\ \A m \in 1 .. Len(q) : Append(q, d)[m] = q[m]
    BY <1>1
  <2>2. q \o <<d>> = Append(q, d)
    OBVIOUS
  <2>3. CASE Len(q) < QueueMax
    <3>1. Enqueue(q, <<d>>) = SubSeq(Append(q, d), 1, Len(Append(q, d)))
      BY <1>1, <2>1, <2>2, <2>3 DEF Enqueue
    <3> QED
      BY <2>1, <2>3, <3>1
  <2>4. CASE Len(q) = QueueMax
    <3>1. Enqueue(q, <<d>>) = SubSeq(Append(q, d), 1, Len(q))
      BY <1>1, <2>1, <2>2, <2>4 DEF Enqueue
    <3> QED
      BY <1>1, <2>1, <3>1
  <2> QED
    BY <1>1, <2>3, <2>4
<1> QED
  BY <1>2, <1>3

\* The body of the loop of pipeline_migrate adds a promotion of the page at
\* hand from the tier it is on, or nothing.
LEMMA EvaluateQueue ==
    ASSUME TypeOK, Evaluate
    PROVE  /\ at \in 1 .. Len(pages)
           /\ \/ queue' = queue
              \/ \E d \in Decision :
                    /\ d.id = pages[at].id /\ d.from = pages[at].tier /\ d.to = d.from - 1
                    /\ queue' = Append(queue, d) /\ Len(queue) < QueueMax
<1>1. /\ at \in 1 .. Len(pages) /\ pages[at] \in Page
      /\ queue \in Seq(Decision) /\ Len(queue) <= QueueMax
  BY LenProperties, ElementOfSeq DEF Evaluate, TypeOK
<1>2. PICK level \in Levels, motion \in Motions :
        queue' = IF pages[at].pinned THEN queue
                 ELSE Enqueue(queue, Decisions(pages[at], level, motion))
  BY DEF Evaluate
<1>3. CASE queue' = Enqueue(queue, << >>)
  BY <1>1, <1>3, EnqueueEffect
<1>4. ASSUME NEW d \in Decision, d.id = pages[at].id, d.from = pages[at].tier,
             d.to = pages[at].tier - 1, queue' = Enqueue(queue, <<d>>)
      PROVE  queue' = queue \/ (queue' = Append(queue, d) /\ Len(queue) < QueueMax)
  BY <1>1, <1>4, EnqueueEffect
<1> QED
  BY <1>1, <1>2, <1>3, <1>4, DecisionsUp

-----------------------------------------------------------------------------
(* Type correctness.                                                       *)

\* A step leaves every page its place in the array, its id, address and size.
SamePlaces ==
    /\ Len(pages') = Len(pages)
    /\ \A m \in 1 .. Len(pages) :
          /\ pages'[m].id = pages[m].id
          /\ pages'[m].vaddr = pages[m].vaddr /\ pages'[m].size = pages[m].size

\* One page of the array is updated in a field that is not its place.
LEMMA UpdatePage ==
    ASSUME pages \in Seq(Page), NEW k \in 1 .. Len(pages), NEW q \in Page,
           pages' = [pages EXCEPT ![k] = q],
           q.id = pages[k].id, q.vaddr = pages[k].vaddr, q.size = pages[k].size
    PROVE  pages' \in Seq(Page) /\ SamePlaces
<1>1. /\ pages' \in Seq(Page) /\ Len(pages') = Len(pages)
      /\ \A m \in 1 .. Len(pages) : pages'[m] = IF m = k THEN q ELSE pages[m]
  BY ExceptSeq
<1> QED
  BY <1>1 DEF SamePlaces

\* page_access, a change of the pinned field and a migration leave every page
\* its id, address and size.
LEMMA PagesStay ==
    ASSUME TypeOK, NEW k \in 1 .. Len(pages),
           \/ \E n \in Bursts : Access(k, n)
           \/ \E b \in BOOLEAN : SetPinned(k, b)
           \/ \E t \in Tiers : Move(k, t)
    PROVE  pages' \in Seq(Page) /\ SamePlaces
<1>1. pages \in Seq(Page) /\ pages[k] \in Page
  BY ElementOfSeq DEF TypeOK
<1>2. ASSUME NEW n \in Bursts, Access(k, n)
      PROVE  \E q \in Page : /\ pages' = [pages EXCEPT ![k] = q]
                             /\ q.id = pages[k].id
                             /\ q.vaddr = pages[k].vaddr /\ q.size = pages[k].size
  <2>a. n \in Nat
    BY PageTableAssumption
  <2>b. pages[k].accesses \in Nat
    BY <1>1 DEF Page
  <2>0. pages[k].accesses + n \in Nat
    BY <2>a, <2>b
  <2>1. [pages[k] EXCEPT !.accesses = @ + n] \in Page
    BY <1>1, <2>0 DEF Page
  <2>2. pages' = [pages EXCEPT ![k] = [pages[k] EXCEPT !.accesses = @ + n]]
    BY <1>2 DEF Access
  <2> QED
    BY <1>1, <2>1, <2>2 DEF Page
<1>3. ASSUME NEW b \in BOOLEAN, SetPinned(k, b)
      PROVE  \E q \in Page : /\ pages' = [pages EXCEPT ![k] = q]
                             /\ q.id = pages[k].id
                             /\ q.vaddr = pages[k].vaddr /\ q.size = pages[k].size
  <2>1. [pages[k] EXCEPT !.pinned = b] \in Page
    BY <1>1 DEF Page
  <2>2. pages' = [pages EXCEPT ![k] = [pages[k] EXCEPT !.pinned = b]]
    BY <1>3 DEF SetPinned
  <2> QED
    BY <1>1, <2>1, <2>2 DEF Page
<1>4. ASSUME NEW t \in Tiers, Move(k, t)
      PROVE  \E q \in Page : /\ pages' = [pages EXCEPT ![k] = q]
                             /\ q.id = pages[k].id
                             /\ q.vaddr = pages[k].vaddr /\ q.size = pages[k].size
  <2>1. [pages[k] EXCEPT !.tier = t] \in Page
    BY <1>1 DEF Page
  <2>2. pages' = [pages EXCEPT ![k] = [pages[k] EXCEPT !.tier = t]]
    BY <1>4 DEF Move
  <2> QED
    BY <1>1, <2>1, <2>2 DEF Page
<1>5. PICK q \in Page : /\ pages' = [pages EXCEPT ![k] = q]
                        /\ q.id = pages[k].id
                        /\ q.vaddr = pages[k].vaddr /\ q.size = pages[k].size
  BY <1>2, <1>3, <1>4
<1> QED
  BY <1>1, <1>5, UpdatePage

\* What page_free and migrate_execute leave of a counter is a natural number.
LEMMA LessNat ==
    ASSUME NEW count \in Nat, NEW amount \in Nat
    PROVE  Less(count, amount) \in Nat
BY DEF Less

\* The index of an address in the map is a natural number.
LEMMA QuotientNat ==
    ASSUME NEW a \in Nat, NEW b \in Nat \ {0}
    PROVE  a \div b \in Nat
BY SMTT(30)

\* page_table_init and migrate_engine_init.
LEMMA TypeInit == Init => TypeOK
<1> SUFFICES ASSUME Init PROVE TypeOK
  OBVIOUS
<1>1. /\ pages \in Seq(Page) /\ Len(pages) = 0
      /\ queue \in Seq(Decision) /\ Len(queue) = 0 /\ QueueMax \in Nat
  BY EmptySeq, MigrationAssumption DEF Init, TableInit
<1>2. DOMAIN addrMap = {}
  BY DEF Init, TableInit
<1> QED
  BY <1>1, <1>2, PageTableAssumption DEF Init, TableInit, TypeOK

\* The steps of the application on the page table.
LEMMA TypeTable == TypeOK /\ Application => TypeOK'
<1> SUFFICES ASSUME TypeOK, Application PROVE TypeOK'
  OBVIOUS
<1> USE DEF TypeOK
<1>0. /\ TableNext /\ UNCHANGED <<pc, at, queue>>
      /\ Len(pages) \in Nat /\ DOMAIN pages = 1 .. Len(pages)
      /\ \A m \in 1 .. Len(pages) : pages[m] \in Page
  BY LenProperties, ElementOfSeq DEF Application
<1>1. ASSUME NEW asked \in Sizes, NEW t \in Tiers, Alloc(asked, t) PROVE TypeOK'
  <2> DEFINE p == [id |-> Len(pages) + 1, size |-> SizeOf(asked), tier |-> t,
                   vaddr |-> nextVaddr, pinned |-> FALSE, accesses |-> 0]
  <2>1. SizeOf(asked) \in Nat
    BY PageTableAssumption DEF SizeOf
  <2>2. p \in Page
    BY <1>0, <2>1 DEF Page
  <2>3. pages' = Append(pages, p)
    BY <1>1 DEF Alloc
  <2> HIDE DEF p
  <2>4. pages' \in Seq(Page) /\ Len(pages') = Len(pages) + 1
    BY <2>2, <2>3
  <2>5. Len(pages') <= Capacity
    BY <1>0, <1>1, <2>4, PageTableAssumption DEF Alloc
  <2>6. nextVaddr' \in Nat /\ used' \in [Tiers -> Nat] /\ residents' \in [Tiers -> Nat]
    BY <1>1, <2>1 DEF Alloc, NextFree
  <2> QED
    BY <1>0, <1>1, <2>4, <2>5, <2>6 DEF Alloc
<1>2. ASSUME NEW id \in 1 .. Capacity, Free(id) PROVE TypeOK'
  <2> DEFINE k == Find(id)
  <2>1. k \in 1 .. Len(pages)
    BY <1>0, <1>2, FindResult DEF Free
  <2>2. /\ pages' = RemoveAt(pages, k)
        /\ used' = [used EXCEPT ![pages[k].tier] = Less(@, pages[k].size)]
        /\ residents' = [residents EXCEPT ![pages[k].tier] = Less(@, 1)]
        /\ UNCHANGED <<nextVaddr, addrMap>>
    BY <1>2 DEF Free
  <2> HIDE DEF k
  <2>3. pages' \in Seq(Page) /\ Len(pages') <= Capacity
    <3>1. pages' \in Seq(Page) /\ Len(pages') = Len(pages) - 1
      BY <2>1, <2>2, RemoveAtPages
    <3> QED
      BY <1>0, <3>1, PageTableAssumption
  <2>4. pages[k].tier \in Tiers /\ pages[k].size \in Nat
    BY <1>0, <2>1 DEF Page
  <2>5. used' \in [Tiers -> Nat] /\ residents' \in [Tiers -> Nat]
    BY <2>2, <2>4, LessNat
  <2> QED
    BY <1>0, <2>2, <2>3, <2>5
<1>3. ASSUME NEW k \in DOMAIN pages, MapInsert(k) PROVE TypeOK'
  <2>1. pages[k].id \in Nat /\ pages[k].vaddr \in Nat
    BY <1>0 DEF Page
  <2>2. MapIndex(pages[k].vaddr) \in Nat
    BY <2>1, QuotientNat, PageTableAssumption DEF MapIndex
  <2> QED
    BY <1>0, <1>3, <2>1, <2>2 DEF MapInsert
<1>4. ASSUME NEW k \in DOMAIN pages, NEW n \in Bursts, Access(k, n) PROVE TypeOK'
  <2>1. pages' \in Seq(Page) /\ Len(pages') = Len(pages)
    BY <1>0, <1>4, PagesStay DEF SamePlaces
  <2> QED
    BY <1>0, <1>4, <2>1 DEF Access
<1>5. ASSUME NEW k \in DOMAIN pages, NEW b \in BOOLEAN, SetPinned(k, b) PROVE TypeOK'
  <2>1. pages' \in Seq(Page) /\ Len(pages') = Len(pages)
    BY <1>0, <1>5, PagesStay DEF SamePlaces
  <2> QED
    BY <1>0, <1>5, <2>1 DEF SetPinned
<1> QED
  BY <1>0, <1>1, <1>2, <1>3, <1>4, <1>5 DEF TableNext

\* The moving branch of migrate_execute.
LEMMA TypeMove ==
    ASSUME TypeOK, NEW k \in 1 .. Len(pages), NEW t \in Tiers, Move(k, t)
    PROVE  /\ pages' \in Seq(Page) /\ Len(pages') = Len(pages)
           /\ used' \in [Tiers -> Nat] /\ residents' \in [Tiers -> Nat]
           /\ UNCHANGED <<nextVaddr, addrMap>>
<1>0. pages[k] \in Page
  BY ElementOfSeq DEF TypeOK
<1>1. pages[k].tier \in Tiers /\ pages[k].size \in Nat
  BY <1>0 DEF Page
<1>2. pages' \in Seq(Page) /\ Len(pages') = Len(pages)
  BY PagesStay DEF SamePlaces
<1>3. /\ [used EXCEPT ![pages[k].tier] = Less(@, pages[k].size)] \in [Tiers -> Nat]
      /\ [residents EXCEPT ![pages[k].tier] = Less(@, 1)] \in [Tiers -> Nat]
  BY <1>1, LessNat DEF TypeOK
<1> DEFINE left == [used EXCEPT ![pages[k].tier] = Less(@, pages[k].size)]
           fewer == [residents EXCEPT ![pages[k].tier] = Less(@, 1)]
<1>4. used' \in [Tiers -> Nat] /\ residents' \in [Tiers -> Nat]
  <2>1. /\ used' = [left EXCEPT ![t] = @ + pages[k].size]
        /\ residents' = [fewer EXCEPT ![t] = @ + 1]
    BY DEF Move
  <2>2. left[t] + pages[k].size \in Nat /\ fewer[t] + 1 \in Nat
    BY <1>1, <1>3
  <2> HIDE DEF left, fewer
  <2> QED
    BY <1>3, <2>1, <2>2 DEF left, fewer
<1> QED
  BY <1>2, <1>4 DEF Move

\* The steps of a tick.
LEMMA TypeTick == TypeOK /\ Tick => TypeOK'
<1> SUFFICES ASSUME TypeOK, Tick PROVE TypeOK'
  OBVIOUS
<1> USE DEF TypeOK
<1>1. CASE StartTick
  BY <1>1 DEF StartTick, tableVars
<1>2. CASE Evaluate
  <2>1. queue' \in Seq(Decision) /\ Len(queue') <= QueueMax
    <3>1. CASE queue' = queue
      BY <3>1
    <3>2. ASSUME NEW d \in Decision, queue' = Append(queue, d), Len(queue) < QueueMax
          PROVE  queue' \in Seq(Decision) /\ Len(queue') <= QueueMax
      <4>1. queue' \in Seq(Decision) /\ Len(queue') = Len(queue) + 1 /\ Len(queue) \in Nat
        BY <3>2, LenProperties
      <4> QED
        BY <3>2, <4>1, MigrationAssumption
    <3> QED
      BY <1>2, <3>1, <3>2, EvaluateQueue
  <2> QED
    BY <1>2, <2>1 DEF Evaluate, tableVars
<1>3. CASE StartExecute
  BY <1>3 DEF StartExecute, tableVars
<1>4. CASE Execute
  <2>1. queue[at] \in Decision
    BY <1>4, LenProperties, ElementOfSeq DEF Execute
  <2> DEFINE k == Find(queue[at].id)
             to == queue[at].to
  <2>2. to \in Tiers /\ k \in 0 .. Len(pages)
    BY <2>1, FindResult DEF Decision
  <2>3. (k # 0 /\ Move(k, to)) \/ UNCHANGED tableVars
    BY <1>4 DEF Execute
  <2>4. pc' = pc /\ queue' = queue /\ at' = at + 1
    BY <1>4 DEF Execute
  <2> HIDE DEF k, to
  <2>5. CASE k # 0 /\ Move(k, to)
    <3>1. k \in 1 .. Len(pages)
      BY <2>2, <2>5, LenProperties
    <3> QED
      BY <2>2, <2>4, <2>5, <3>1, TypeMove
  <2>6. CASE UNCHANGED tableVars
    BY <2>4, <2>6 DEF tableVars
  <2> QED
    BY <2>3, <2>5, <2>6
<1>5. CASE EndTick
  <2>1. queue' \in Seq(Decision) /\ Len(queue') = 0 /\ QueueMax \in Nat
    BY <1>5, EmptySeq, MigrationAssumption DEF EndTick
  <2> QED
    BY <1>5, <2>1 DEF EndTick, tableVars
<1> QED
  BY <1>1, <1>2, <1>3, <1>4, <1>5 DEF Tick

\* Every step, of the application or of a tick, keeps the types.
LEMMA MigrationTypeStep == TypeOK /\ [Next]_vars => TypeOK'
<1> SUFFICES ASSUME TypeOK, [Next]_vars PROVE TypeOK'
  OBVIOUS
<1>1. CASE UNCHANGED vars
  BY <1>1 DEF vars, tableVars, TypeOK
<1> QED
  BY <1>1, TypeTable, TypeTick DEF Next

(* The page table, the tiers' counters and the queue keep their types: ids,  *)
(* tiers and sizes of pages and decisions stay in range through every        *)
(* operation of page.c and migrate.c.                                        *)
THEOREM MigrationTypeCorrect == Spec => []TypeOK
BY TypeInit, MigrationTypeStep, PTL DEF Spec
-----------------------------------------------------------------------------
(* Promotions only.                                                        *)

(* Every decision in the migration queue is a promotion by one tier, for     *)
(* every tier registry whose access costs grow with the tier, every set of   *)
(* weights, every threshold and every history: pipeline_migrate's second     *)
(* half, "Try migrating to slower tier if cold" (pipeline.c:193-202), never  *)
(* enqueues anything.                                                        *)
THEOREM OnlyPromotionsQueued == Spec => []QueuedUp
<1>1. Init => QueuedUp
  BY DEF Init, QueuedUp
<1>2. TypeOK /\ QueuedUp /\ [Next]_vars => QueuedUp'
  <2> SUFFICES ASSUME TypeOK, QueuedUp, [Next]_vars PROVE QueuedUp'
    OBVIOUS
  <2>1. ASSUME UNCHANGED queue PROVE QueuedUp'
    BY <2>1 DEF QueuedUp
  <2>2. ASSUME Evaluate PROVE QueuedUp'
    <3>1. ASSUME NEW d \in Decision, d.to = d.from - 1, queue' = Append(queue, d)
          PROVE  QueuedUp'
      <4>1. queue \in Seq(Decision) /\ Len(queue) \in Nat /\ DOMAIN queue = 1 .. Len(queue)
        BY LenProperties DEF TypeOK
      <4>2. DOMAIN queue' = 1 .. Len(queue) + 1 /\ queue'[Len(queue) + 1] = d
            /\ \A m \in 1 .. Len(queue) : queue'[m] = queue[m]
        BY <3>1, <4>1
      <4> QED
        BY <3>1, <4>1, <4>2 DEF QueuedUp
    <3> QED
      BY <2>1, <2>2, <3>1, EvaluateQueue
  <2>3. ASSUME EndTick PROVE QueuedUp'
    BY <2>3 DEF EndTick, QueuedUp
  <2>4. QueuedUp' \/ UNCHANGED queue
    BY <2>2, <2>3 DEF Next, Application, Tick, StartTick, StartExecute, Execute, vars
  <2> QED
    BY <2>1, <2>4
<1> QED
  BY <1>1, <1>2, MigrationTypeCorrect, PTL DEF Spec

-----------------------------------------------------------------------------
(* What a step does to the page array.                                     *)

\* Everything TypeOK says of the page array.
LEMMA PagesTyped ==
    ASSUME TypeOK
    PROVE  /\ pages \in Seq(Page) /\ Len(pages) \in Nat /\ DOMAIN pages = 1 .. Len(pages)
           /\ \A m \in 1 .. Len(pages) :
                 /\ pages[m] \in Page /\ pages[m].id \in Nat /\ pages[m].tier \in Tiers
                 /\ pages[m].vaddr \in Nat /\ pages[m].size \in Nat
           /\ nextVaddr \in Nat
<1>1. \A m \in 1 .. Len(pages) : pages[m] \in Page
  BY ElementOfSeq DEF TypeOK
<1> QED
  BY <1>1, LenProperties DEF TypeOK, Page

\* page_alloc appends a page at the next free address.
LEMMA AllocPages ==
    ASSUME TypeOK, NEW asked \in Sizes, NEW t \in Tiers, Alloc(asked, t)
    PROVE  /\ SizeOf(asked) \in Nat
           /\ Len(pages') = Len(pages) + 1 /\ DOMAIN pages' = 1 .. Len(pages) + 1
           /\ \A m \in 1 .. Len(pages) : pages'[m] = pages[m]
           /\ pages'[Len(pages) + 1].vaddr = nextVaddr
           /\ pages'[Len(pages) + 1].size = SizeOf(asked)
           /\ pages'[Len(pages) + 1].tier = t
           /\ nextVaddr' = nextVaddr + SizeOf(asked)
<1> DEFINE p == [id |-> Len(pages) + 1, size |-> SizeOf(asked), tier |-> t,
                 vaddr |-> nextVaddr, pinned |-> FALSE, accesses |-> 0]
<1>1. SizeOf(asked) \in Nat
  BY PageTableAssumption DEF SizeOf
<1>2. p \in Page
  BY <1>1, PagesTyped DEF Page
<1>3. pages' = Append(pages, p) /\ nextVaddr' = nextVaddr + SizeOf(asked)
  BY DEF Alloc, NextFree
<1> HIDE DEF p
<1>4. /\ Len(pages') = Len(pages) + 1 /\ DOMAIN pages' = 1 .. Len(pages) + 1
      /\ \A m \in 1 .. Len(pages) : pages'[m] = pages[m]
      /\ pages'[Len(pages) + 1] = p
  BY <1>2, <1>3, PagesTyped
<1>5. p.vaddr = nextVaddr /\ p.size = SizeOf(asked) /\ p.tier = t
  BY DEF p
<1> QED
  BY <1>1, <1>3, <1>4, <1>5

\* page_free closes the gap of the page it takes out; nothing else is new.
LEMMA FreePages ==
    ASSUME TypeOK, NEW id \in 1 .. Capacity, Free(id)
    PROVE  /\ \E k \in 1 .. Len(pages) :
                 /\ Len(pages') = Len(pages) - 1 /\ DOMAIN pages' = 1 .. Len(pages) - 1
                 /\ \A m \in 1 .. Len(pages) - 1 :
                       pages'[m] = pages[IF m < k THEN m ELSE m + 1]
           /\ UNCHANGED <<nextVaddr, addrMap>>
<1> DEFINE k == Find(id)
<1>1. k \in 1 .. Len(pages)
  BY FindResult, PagesTyped DEF Free
<1>2. pages' = RemoveAt(pages, k) /\ UNCHANGED <<nextVaddr, addrMap>>
  BY DEF Free
<1> HIDE DEF k
<1>3. /\ pages' \in Seq(Page) /\ Len(pages') = Len(pages) - 1
      /\ \A m \in 1 .. Len(pages) - 1 :
            pages'[m] = IF m < k THEN pages[m] ELSE pages[m + 1]
  BY <1>1, <1>2, PagesTyped, RemoveAtPages
<1>4. DOMAIN pages' = 1 .. Len(pages) - 1
  BY <1>3, LenProperties
<1> QED
  BY <1>1, <1>2, <1>3, <1>4

\* An entry of the queue moves a page of the table that has room, or nothing.
LEMMA ExecuteMoves ==
    ASSUME TypeOK, Execute
    PROVE  \/ UNCHANGED tableVars
           \/ /\ Find(queue[at].id) \in 1 .. Len(pages)
              /\ queue[at].to \in Tiers
              /\ ~pages[Find(queue[at].id)].pinned
              /\ HasRoom(queue[at].to, pages[Find(queue[at].id)].size)
              /\ Move(Find(queue[at].id), queue[at].to)
<1>1. queue[at] \in Decision
  BY LenProperties, ElementOfSeq DEF Execute, TypeOK
<1>2. queue[at].to \in Tiers /\ Find(queue[at].id) \in 0 .. Len(pages)
  BY <1>1, FindResult, PagesTyped DEF Decision
<1> QED
  BY <1>2, PagesTyped DEF Execute

\* Only page_alloc and page_free change places, only addr_map_insert the map.
LEMMA TableStep ==
    ASSUME TypeOK, [Next]_vars
    PROVE  \/ SamePlaces /\ UNCHANGED <<nextVaddr, addrMap>>
           \/ \E asked \in Sizes, t \in Tiers : Alloc(asked, t)
           \/ \E id \in 1 .. Capacity : Free(id)
           \/ \E k \in 1 .. Len(pages) : MapInsert(k)
<1> USE PagesTyped
<1>1. ASSUME UNCHANGED tableVars PROVE SamePlaces /\ UNCHANGED <<nextVaddr, addrMap>>
  BY <1>1 DEF tableVars, SamePlaces
<1>2. ASSUME NEW k \in 1 .. Len(pages), NEW n \in Bursts, Access(k, n)
      PROVE  SamePlaces /\ UNCHANGED <<nextVaddr, addrMap>>
  BY <1>2, PagesStay DEF Access
<1>3. ASSUME NEW k \in 1 .. Len(pages), NEW b \in BOOLEAN, SetPinned(k, b)
      PROVE  SamePlaces /\ UNCHANGED <<nextVaddr, addrMap>>
  BY <1>3, PagesStay DEF SetPinned
<1>4. ASSUME Execute PROVE SamePlaces /\ UNCHANGED <<nextVaddr, addrMap>>
  <2>1. ASSUME NEW k \in 1 .. Len(pages), NEW t \in Tiers, Move(k, t)
        PROVE  SamePlaces /\ UNCHANGED <<nextVaddr, addrMap>>
    BY <2>1, PagesStay DEF Move
  <2> QED
    BY <1>1, <1>4, <2>1, ExecuteMoves
<1>5. Application => \/ SamePlaces /\ UNCHANGED <<nextVaddr, addrMap>>
                     \/ \E asked \in Sizes, t \in Tiers : Alloc(asked, t)
                     \/ \E id \in 1 .. Capacity : Free(id)
                     \/ \E k \in 1 .. Len(pages) : MapInsert(k)
  BY <1>2, <1>3 DEF Application, TableNext
<1>6. Execute \/ UNCHANGED tableVars \/ Application
  BY DEF Next, Tick, StartTick, Evaluate, StartExecute, EndTick, vars, tableVars
<1> QED
  BY <1>1, <1>4, <1>5, <1>6

-----------------------------------------------------------------------------
(* Addresses.                                                              *)

(* Live pages never share an address, whatever is allocated, freed and moved *)
(* and in whatever order: the bump allocator of page_alloc never takes an    *)
(* address back, and page_free's compaction keeps the array in address order.*)
THEOREM PagesNeverOverlap == Spec => []AddressesDisjoint
<1>1. Init => AddressesDisjoint
  BY DEF Init, TableInit, AddressesDisjoint
<1>2. TypeOK /\ AddressesDisjoint /\ [Next]_vars => AddressesDisjoint'
  <2> SUFFICES ASSUME TypeOK, AddressesDisjoint, [Next]_vars
               PROVE  AddressesDisjoint'
    OBVIOUS
  <2> USE PagesTyped DEF AddressesDisjoint
  <2>1. CASE SamePlaces /\ UNCHANGED <<nextVaddr, addrMap>>
    <3>1. DOMAIN pages' = 1 .. Len(pages)
      BY <2>1, LenProperties, MigrationTypeStep DEF SamePlaces, TypeOK
    <3> QED
      BY <2>1, <3>1 DEF SamePlaces
  <2>2. ASSUME NEW asked \in Sizes, NEW t \in Tiers, Alloc(asked, t)
        PROVE  AddressesDisjoint'
    <3> DEFINE n == Len(pages) + 1
               s == SizeOf(asked)
    <3>1. /\ s \in Nat /\ nextVaddr' = nextVaddr + s /\ DOMAIN pages' = 1 .. n
          /\ \A m \in 1 .. Len(pages) : pages'[m] = pages[m]
          /\ pages'[n].vaddr = nextVaddr /\ pages'[n].size = s
      BY <2>2, AllocPages
    <3> HIDE DEF s
    <3>2. \A k \in DOMAIN pages' : pages'[k].vaddr + pages'[k].size <= nextVaddr'
      BY <3>1
    <3>3. \A j, k \in DOMAIN pages' :
             j < k => pages'[j].vaddr + pages'[j].size <= pages'[k].vaddr
      <4> SUFFICES ASSUME NEW j \in 1 .. n, NEW k \in 1 .. n, j < k
                   PROVE  pages'[j].vaddr + pages'[j].size <= pages'[k].vaddr
        BY <3>1
      <4>1. j \in 1 .. Len(pages) /\ pages'[j] = pages[j]
        BY <3>1
      <4>2. CASE k = n
        <5>1. pages[j].vaddr + pages[j].size <= nextVaddr
          BY <4>1
        <5> QED
          BY <3>1, <4>1, <4>2, <5>1
      <4>3. CASE k \in 1 .. Len(pages)
        <5>1. pages[j].vaddr + pages[j].size <= pages[k].vaddr
          BY <4>1, <4>3
        <5>2. pages'[k] = pages[k]
          BY <3>1, <4>3
        <5> QED
          BY <4>1, <5>1, <5>2
      <4>4. k = n \/ k \in 1 .. Len(pages)
        OBVIOUS
      <4> QED
        BY <4>2, <4>3, <4>4, Zenon
    <3> QED
      BY <3>2, <3>3
  <2>3. ASSUME NEW id \in 1 .. Capacity, Free(id) PROVE AddressesDisjoint'
    <3>1. PICK k \in 1 .. Len(pages) :
             /\ DOMAIN pages' = 1 .. Len(pages) - 1
             /\ \A m \in 1 .. Len(pages) - 1 :
                   pages'[m] = pages[IF m < k THEN m ELSE m + 1]
      BY <2>3, FreePages
    <3>2. nextVaddr' = nextVaddr
      BY <2>3, FreePages
    <3> DEFINE old(m) == IF m < k THEN m ELSE m + 1
    <3>3. \A m \in 1 .. Len(pages) - 1 :
             old(m) \in 1 .. Len(pages) /\ pages'[m] = pages[old(m)]
      BY <3>1
    <3>4. \A m, n \in 1 .. Len(pages) - 1 : m < n => old(m) < old(n)
      OBVIOUS
    <3> HIDE DEF old
    <3>5. \A m \in DOMAIN pages' : pages'[m].vaddr + pages'[m].size <= nextVaddr'
      BY <3>1, <3>2, <3>3
    <3>6. \A m, n \in DOMAIN pages' :
             m < n => pages'[m].vaddr + pages'[m].size <= pages'[n].vaddr
      BY <3>1, <3>3, <3>4
    <3> QED
      BY <3>5, <3>6
  <2>4. ASSUME NEW k \in 1 .. Len(pages), MapInsert(k) PROVE AddressesDisjoint'
    BY <2>4 DEF MapInsert
  <2> QED
    BY <2>1, <2>2, <2>3, <2>4, TableStep
<1> QED
  BY <1>1, <1>2, MigrationTypeCorrect, PTL DEF Spec

-----------------------------------------------------------------------------
(* The address map.                                                        *)

\* No page asked of page_alloc is smaller than a page of the map.
WholeMapPages == \A s \in Sizes : SizeOf(s) >= PageSize

\* An address a page further on has an index further on.
LEMMA IndexGrows ==
    ASSUME NEW a \in Nat, NEW b \in Nat, a + PageSize <= b
    PROVE  MapIndex(a) \in Nat /\ MapIndex(b) \in Nat /\ MapIndex(a) < MapIndex(b)
<1> DEFINE x == MapIndex(a)
           y == MapIndex(b)
<1>1. PageSize \in Nat /\ PageSize > 0
  BY PageTableAssumption
<1>2. x \in Nat /\ y \in Nat
  BY <1>1, QuotientNat DEF MapIndex
<1>3. PageSize * x <= a /\ b < PageSize * (y + 1)
  BY <1>1, SMTT(30) DEF MapIndex
<1> HIDE DEF x, y
<1>4. PageSize * (x + 1) <= b
  BY <1>1, <1>2, <1>3
<1>5. \A u, v \in Nat : u <= v => PageSize * u <= PageSize * v
  BY <1>1
<1>6. PageSize * (x + 1) \in Nat /\ PageSize * (y + 1) \in Nat
  BY <1>1, <1>2
<1>7. ~ (y + 1 <= x + 1)
  BY <1>2, <1>3, <1>4, <1>5, <1>6
<1> QED
  BY <1>2, <1>7 DEF x, y

\* Two pages never share an index of the map, and the entry at the index of a
\* live page, if there is one, is that page's.
MapInv ==
    WholeMapPages =>
        /\ \A m \in DOMAIN pages : pages[m].size >= PageSize
        /\ \A i \in DOMAIN addrMap : i < MapIndex(nextVaddr)
        /\ \A m \in DOMAIN pages : MapIndex(pages[m].vaddr) \in DOMAIN addrMap =>
              addrMap[MapIndex(pages[m].vaddr)] = pages[m].id

\* Insertions, frees and moves keep the entries of the live pages.
LEMMA MapStep == TypeOK /\ AddressesDisjoint /\ MapInv /\ [Next]_vars => MapInv'
<1> SUFFICES ASSUME TypeOK, AddressesDisjoint, MapInv, [Next]_vars, WholeMapPages
             PROVE  MapInv'
  BY DEF MapInv, WholeMapPages, SizeOf
<1> USE PagesTyped
<1>0. DOMAIN addrMap \subseteq Nat /\ PageSize \in Nat \ {0}
  BY PageTableAssumption DEF TypeOK
<1>1. CASE SamePlaces /\ UNCHANGED <<nextVaddr, addrMap>>
  <2>1. DOMAIN pages' = 1 .. Len(pages)
    BY <1>1, LenProperties, MigrationTypeStep DEF SamePlaces, TypeOK
  <2> QED
    BY <1>1, <2>1 DEF SamePlaces, MapInv, MapIndex
<1>2. ASSUME NEW asked \in Sizes, NEW t \in Tiers, Alloc(asked, t) PROVE MapInv'
  <2>1. /\ SizeOf(asked) \in Nat /\ nextVaddr' = nextVaddr + SizeOf(asked)
        /\ DOMAIN pages' = 1 .. Len(pages) + 1
        /\ \A m \in 1 .. Len(pages) : pages'[m] = pages[m]
        /\ pages'[Len(pages) + 1].vaddr = nextVaddr
        /\ pages'[Len(pages) + 1].size = SizeOf(asked)
        /\ addrMap' = addrMap
    BY <1>2, AllocPages DEF Alloc
  <2>2. SizeOf(asked) >= PageSize
    BY DEF WholeMapPages
  <2>3. MapIndex(nextVaddr) \in Nat /\ MapIndex(nextVaddr') \in Nat
        /\ MapIndex(nextVaddr) < MapIndex(nextVaddr')
    BY <1>0, <2>1, <2>2, IndexGrows
  <2>4. MapIndex(nextVaddr) \notin DOMAIN addrMap
    BY <1>0, <2>3 DEF MapInv
  <2>5. \A m \in DOMAIN pages' : pages'[m].size >= PageSize
    BY <2>1, <2>2 DEF MapInv
  <2>6. \A i \in DOMAIN addrMap' : i < MapIndex(nextVaddr')
    BY <1>0, <2>1, <2>3 DEF MapInv
  <2>7. \A m \in DOMAIN pages' : MapIndex(pages'[m].vaddr) \in DOMAIN addrMap' =>
           addrMap'[MapIndex(pages'[m].vaddr)] = pages'[m].id
    BY <2>1, <2>4 DEF MapInv
  <2>8. MapIndex(nextVaddr)' = MapIndex(nextVaddr')
    BY DEF MapIndex
  <2> QED
    BY <2>5, <2>6, <2>7 DEF MapInv, MapIndex
<1>3. ASSUME NEW id \in 1 .. Capacity, Free(id) PROVE MapInv'
  <2>1. PICK k \in 1 .. Len(pages) :
           /\ DOMAIN pages' = 1 .. Len(pages) - 1
           /\ \A m \in 1 .. Len(pages) - 1 :
                 pages'[m] = pages[IF m < k THEN m ELSE m + 1]
    BY <1>3, FreePages
  <2>2. ASSUME NEW m \in DOMAIN pages' PROVE \E n \in DOMAIN pages : pages'[m] = pages[n]
    <3> DEFINE n == IF m < k THEN m ELSE m + 1
    <3>1. pages'[m] = pages[n]
      BY <2>1
    <3>2. n \in DOMAIN pages
      BY <2>1, PagesTyped
    <3> QED
      BY <3>1, <3>2
  <2>3. UNCHANGED <<nextVaddr, addrMap>>
    BY <1>3, FreePages
  <2> QED
    BY <2>2, <2>3 DEF MapInv, MapIndex
<1>4. ASSUME NEW k \in 1 .. Len(pages), MapInsert(k) PROVE MapInv'
  <2> DEFINE i == MapIndex(pages[k].vaddr)
  <2>1. /\ addrMap' = [j \in DOMAIN addrMap \cup {i} |->
                          IF j = i THEN pages[k].id ELSE addrMap[j]]
        /\ UNCHANGED <<pages, nextVaddr>>
    BY <1>4 DEF MapInsert
  <2>2. \A m \in 1 .. Len(pages) : m # k => MapIndex(pages[m].vaddr) # i
    <3>1. ASSUME NEW m \in 1 .. Len(pages), NEW n \in 1 .. Len(pages), m < n
          PROVE  MapIndex(pages[m].vaddr) # MapIndex(pages[n].vaddr)
      <4>1. pages[m].vaddr + pages[m].size <= pages[n].vaddr /\ pages[m].size >= PageSize
        BY <3>1 DEF AddressesDisjoint, MapInv
      <4>2. pages[m].vaddr + PageSize <= pages[n].vaddr
        BY <1>0, <4>1
      <4> QED
        BY <4>2, IndexGrows
    <3> QED
      BY <3>1
  <2>3. i < MapIndex(nextVaddr)
    <3>1. pages[k].vaddr + pages[k].size <= nextVaddr /\ pages[k].size >= PageSize
      BY DEF AddressesDisjoint, MapInv
    <3>2. pages[k].vaddr + PageSize <= nextVaddr
      BY <1>0, <3>1
    <3> QED
      BY <3>2, IndexGrows
  <2> HIDE DEF i
  <2>4. \A j \in DOMAIN addrMap' : j < MapIndex(nextVaddr)
    BY <2>1, <2>3 DEF MapInv
  <2>5. \A m \in DOMAIN pages : MapIndex(pages[m].vaddr) \in DOMAIN addrMap' =>
           addrMap'[MapIndex(pages[m].vaddr)] = pages[m].id
    <3>1. ASSUME NEW m \in DOMAIN pages, MapIndex(pages[m].vaddr) \in DOMAIN addrMap', m # k
          PROVE  addrMap'[MapIndex(pages[m].vaddr)] = pages[m].id
      BY <2>1, <2>2, <3>1 DEF MapInv
    <3>2. addrMap'[i] = pages[k].id
      BY <2>1
    <3> QED
      BY <3>1, <3>2 DEF i
  <2> QED
    BY <2>1, <2>4, <2>5 DEF MapInv, MapIndex
<1> QED
  BY <1>1, <1>2, <1>3, <1>4, TableStep

(* A live page that was mapped translates to itself (addr_translate,         *)
(* page.c:169-176) as long as ids are unique, for every order of allocations,*)
(* frees, insertions and moves: an index is never used by two pages, because *)
(* addresses are not taken back and no page is smaller than a map page.      *)
THEOREM MappedPagesTranslate == Spec => []LiveTranslation
<1>1. Init => MapInv
  BY DEF Init, TableInit, MapInv
<1>2. TypeOK /\ MapInv => LiveTranslation
  <2> SUFFICES ASSUME TypeOK, MapInv, IdsUnique, WholeMapPages,
                      NEW k \in DOMAIN pages, MapIndex(pages[k].vaddr) \in DOMAIN addrMap
               PROVE  Translate(pages[k].vaddr) = k
    BY DEF LiveTranslation, WholeMapPages
  <2>1. Translate(pages[k].vaddr) = Find(pages[k].id)
    BY DEF Translate, MapInv
  <2>2. Find(pages[k].id) = k
    BY PagesTyped, FindLive
  <2> QED
    BY <2>1, <2>2
<1> QED
  BY <1>1, <1>2, MapStep, MigrationTypeCorrect, PagesNeverOverlap, PTL DEF Spec

-----------------------------------------------------------------------------
(* What a tick may do.                                                     *)

(* A tick never fills a tier past its capacity (migrate.c:149-155), for      *)
(* every queue, every capacity and every way the tiers were filled before:   *)
(* the room is looked for when the entry is executed, and what a page gives  *)
(* back to the tier it leaves is no more than was counted there.             *)
THEOREM MovesNeverOvercommit == Spec => NoOvercommit
<1> DEFINE A == pc # "idle" =>
      \A t \in Tiers : used'[t] > used[t] =>
         TierCapacity[t] = Unlimited \/ used'[t] <= TierCapacity[t]
<1>1. ASSUME TypeOK, Next PROVE A
  <2>0. used \in [Tiers -> Nat]
    BY <1>1 DEF TypeOK
  <2>1. ASSUME used' = used PROVE A
    BY <2>0, <2>1
  <2>2. CASE Execute
    <3> DEFINE k == Find(queue[at].id)
               to == queue[at].to
               p == pages[k]
    <3> HIDE DEF k, to
    <3>1. CASE k \in 1 .. Len(pages) /\ to \in Tiers /\ HasRoom(to, p.size) /\ Move(k, to)
      <4> DEFINE left == [used EXCEPT ![p.tier] = Less(@, p.size)]
      <4>1. used' = [left EXCEPT ![to] = @ + p.size]
        BY <3>1 DEF Move
      <4>2. p.tier \in Tiers /\ p.size \in Nat /\ used \in [Tiers -> Nat]
        BY <1>1, <2>0, <3>1, PagesTyped
      <4>3. Less(used[p.tier], p.size) \in Nat /\ Less(used[p.tier], p.size) <= used[p.tier]
        BY <4>2 DEF Less
      <4>4. left \in [Tiers -> Nat] /\ \A t \in Tiers : left[t] <= used[t]
        BY <4>2, <4>3
      <4> HIDE DEF left
      <4>5. \A t \in Tiers : used'[t] = IF t = to THEN left[t] + p.size ELSE left[t]
        BY <4>1, <4>4
      <4>6. ASSUME NEW t \in Tiers, used'[t] > used[t]
            PROVE  t = to /\ used'[t] <= used[t] + p.size
        BY <4>2, <4>4, <4>5, <4>6
      <4>7. TierCapacity[to] = Unlimited \/ used[to] + p.size <= TierCapacity[to]
        BY <3>1 DEF HasRoom
      <4>8. ASSUME NEW t \in Tiers, used'[t] > used[t], TierCapacity[t] # Unlimited
            PROVE  used'[t] <= TierCapacity[t]
        <5>1. TierCapacity[t] \in Nat
          BY <4>8, MigrationAssumption
        <5>2. t = to /\ used'[t] <= used[t] + p.size /\ used[t] + p.size <= TierCapacity[t]
          BY <4>6, <4>7, <4>8
        <5>3. used'[t] \in Nat /\ used[t] + p.size \in Nat
          BY <3>1, <4>2, <4>4, <4>5
        <5> QED
          BY <5>1, <5>2, <5>3
      <4> QED
        BY <4>8
    <3> QED
      BY <1>1, <2>1, <2>2, <3>1, ExecuteMoves DEF k, to, tableVars
  <2>3. CASE Application
    BY <2>3 DEF Application
  <2>4. Execute \/ Application \/ used' = used
    BY <1>1 DEF Next, Tick, StartTick, Evaluate, StartExecute, EndTick, tableVars
  <2> QED
    BY <2>1, <2>2, <2>3, <2>4
<1>2. TypeOK /\ [Next]_vars => [A]_vars
  BY <1>1
<1> QED
  BY <1>2, MigrationTypeCorrect, PTL DEF Spec, NoOvercommit

\* The entries of the queue that are still to be executed in this tick.
Waiting(n) == n \in 1 .. Len(queue) /\ (pc = "execute" => n >= at)

\* While ids are unique a waiting decision is about the tier its page is on;
\* no page has two of them, and the page has been evaluated.
QueueInv ==
    /\ pc = "idle" => queue = << >>
    /\ IdsUnique =>
          /\ \A n \in 1 .. Len(queue), k \in 1 .. Len(pages) :
                Waiting(n) /\ pages[k].id = queue[n].id =>
                   /\ pages[k].tier = queue[n].from
                   /\ pc = "evaluate" => k < at
          /\ \A m, n \in 1 .. Len(queue) : queue[m].id = queue[n].id => m = n

\* migrate_execute moves one page, the first with the decision's id.
LEMMA MovePages ==
    ASSUME TypeOK, NEW k \in 1 .. Len(pages), NEW t \in Tiers, Move(k, t)
    PROVE  /\ SamePlaces /\ DOMAIN pages' = 1 .. Len(pages)
           /\ \A m \in 1 .. Len(pages) :
                 pages'[m].tier = IF m = k THEN t ELSE pages[m].tier
<1>1. SamePlaces /\ DOMAIN pages' = 1 .. Len(pages)
  BY PagesStay, PagesTyped, LenProperties DEF SamePlaces
<1>2. pages' = [pages EXCEPT ![k] = [pages[k] EXCEPT !.tier = t]]
  BY DEF Move
<1>3. /\ [pages[k] EXCEPT !.tier = t].tier = t
      /\ \A m \in 1 .. Len(pages) :
            pages'[m] = IF m = k THEN [pages[k] EXCEPT !.tier = t] ELSE pages[m]
  BY <1>2, PagesTyped DEF Page
<1> QED
  BY <1>1, <1>3

\* The decisions of a tick stay those about where the pages are.
LEMMA QueueStep == TypeOK /\ QueueInv /\ [Next]_vars => QueueInv'
<1> SUFFICES ASSUME TypeOK, QueueInv, [Next]_vars PROVE QueueInv'
  OBVIOUS
<1> USE PagesTyped
<1>0. /\ queue \in Seq(Decision) /\ Len(queue) \in Nat /\ at \in Nat \ {0}
      /\ pc \in {"idle", "evaluate", "execute"}
  BY LenProperties DEF TypeOK
<1>1. ASSUME queue' = << >> PROVE QueueInv'
  <2>1. Len(queue') = 0
    BY <1>1
  <2> QED
    BY <1>1, <2>1 DEF QueueInv
<1>2. CASE Application \/ EndTick
  BY <1>1, <1>2 DEF Application, EndTick, QueueInv
<1>3. CASE UNCHANGED vars
  BY <1>3 DEF vars, tableVars, QueueInv, Waiting, IdsUnique
<1>4. CASE StartTick
  BY <1>1, <1>4 DEF StartTick, QueueInv
<1>5. CASE StartExecute
  BY <1>0, <1>5 DEF StartExecute, tableVars, QueueInv, Waiting, IdsUnique
<1>6. CASE Evaluate
  <2>1. /\ UNCHANGED <<pages, pc>> /\ at' = at + 1 /\ pc = "evaluate"
        /\ IdsUnique' = IdsUnique
    BY <1>6 DEF Evaluate, tableVars, IdsUnique
  <2>2. CASE queue' = queue
    BY <1>0, <2>1, <2>2 DEF QueueInv, Waiting
  <2>3. ASSUME NEW d \in Decision, d.id = pages[at].id, d.from = pages[at].tier,
               at \in 1 .. Len(pages), queue' = Append(queue, d)
        PROVE  QueueInv'
    <3> DEFINE l == Len(queue) + 1
    <3>1. Len(queue') = l /\ queue'[l] = d /\ \A n \in 1 .. Len(queue) : queue'[n] = queue[n]
      BY <1>0, <2>3
    <3>2. ASSUME IdsUnique, NEW n \in 1 .. Len(queue), NEW k \in 1 .. Len(pages),
                 pages[k].id = queue[n].id
          PROVE  pages[k].tier = queue[n].from /\ k < at
      BY <2>1, <3>2 DEF QueueInv, Waiting
    <3>3. ASSUME IdsUnique, NEW k \in 1 .. Len(pages), pages[k].id = d.id
          PROVE  k = at
      BY <2>3, <3>3 DEF IdsUnique
    <3>4. ASSUME IdsUnique, NEW n \in 1 .. l, NEW k \in 1 .. Len(pages),
                 pages[k].id = queue'[n].id
          PROVE  pages[k].tier = queue'[n].from /\ k < at'
      <4>1. CASE n = l
        BY <1>0, <2>1, <2>3, <3>1, <3>3, <3>4, <4>1
      <4>2. CASE n \in 1 .. Len(queue)
        BY <1>0, <2>1, <3>1, <3>2, <3>4, <4>2
      <4> QED
        BY <1>0, <4>1, <4>2
    <3>5. ASSUME IdsUnique, NEW n \in 1 .. Len(queue) PROVE queue[n].id # d.id
      BY <1>0, <2>3, <3>2, <3>5
    <3>6. ASSUME IdsUnique, NEW m \in 1 .. l, NEW n \in 1 .. l, queue'[m].id = queue'[n].id
          PROVE  m = n
      <4>1. CASE m = l
        BY <1>0, <3>1, <3>5, <3>6, <4>1
      <4>2. CASE n = l
        <5>1. queue'[m].id = d.id
          BY <3>1, <3>6, <4>2
        <5>2. ~ (m \in 1 .. Len(queue))
          BY <3>1, <3>5, <3>6, <5>1
        <5> QED
          BY <1>0, <4>2, <5>2
      <4>3. ASSUME m \in 1 .. Len(queue), n \in 1 .. Len(queue) PROVE m = n
        <5>1. queue[m].id = queue[n].id
          BY <3>1, <3>6, <4>3
        <5>2. \A a, b \in 1 .. Len(queue) : queue[a].id = queue[b].id => a = b
          BY <3>6 DEF QueueInv
        <5> QED
          BY <4>3, <5>1, <5>2
      <4>4. m = l \/ n = l \/ (m \in 1 .. Len(queue) /\ n \in 1 .. Len(queue))
        BY <1>0
      <4> QED
        BY <4>1, <4>2, <4>3, <4>4, Zenon
    <3> QED
      BY <2>1, <3>1, <3>4, <3>6 DEF QueueInv
  <2> QED
    BY <1>6, <2>2, <2>3, EvaluateQueue
<1>7. CASE Execute
  <2>1. /\ pc = "execute" /\ pc' = pc /\ queue' = queue /\ at' = at + 1
        /\ at \in 1 .. Len(queue)
    BY <1>0, <1>7 DEF Execute
  <2>2. CASE UNCHANGED tableVars
    <3>1. UNCHANGED <<pages, pc, queue>> /\ IdsUnique' = IdsUnique
      BY <2>1, <2>2 DEF tableVars, IdsUnique
    <3>2. \A n : Waiting(n)' => Waiting(n)
      BY <1>0, <2>1 DEF Waiting
    <3> QED
      BY <2>1, <3>1, <3>2 DEF QueueInv
  <2>3. CASE Find(queue[at].id) \in 1 .. Len(pages) /\ queue[at].to \in Tiers
             /\ Move(Find(queue[at].id), queue[at].to)
    <3>1. /\ SamePlaces /\ DOMAIN pages' = 1 .. Len(pages)
          /\ \A m \in 1 .. Len(pages) :
                pages[m].id # queue[at].id => pages'[m].tier = pages[m].tier
      BY <2>3, MovePages, FindResult
    <3>2. IdsUnique' = IdsUnique
      BY <3>1 DEF SamePlaces, IdsUnique
    <3>3. ASSUME IdsUnique, NEW n \in 1 .. Len(queue), NEW k \in 1 .. Len(pages),
                 n >= at + 1, pages'[k].id = queue[n].id
          PROVE  pages'[k].tier = queue[n].from
      <4>1. queue[n].id # queue[at].id
        BY <1>0, <2>1, <3>3 DEF QueueInv
      <4>2. pages[k].id = queue[n].id /\ pages'[k].tier = pages[k].tier
        BY <3>1, <3>3, <4>1 DEF SamePlaces
      <4> QED
        BY <1>0, <2>1, <3>3, <4>2 DEF QueueInv, Waiting
    <3>4. Len(pages') = Len(pages)
      BY <3>1 DEF SamePlaces
    <3> QED
      BY <1>0, <2>1, <3>2, <3>3, <3>4 DEF QueueInv, Waiting
  <2> QED
    BY <1>7, <2>2, <2>3, ExecuteMoves
<1> QED
  BY <1>2, <1>3, <1>4, <1>5, <1>6, <1>7 DEF Next, Tick

(* While ids are unique a tick moves a page to the next faster tier or       *)
(* leaves it, and leaves a pinned page (migrate.c:134-178): though all its   *)
(* decisions were taken before the first of them is executed, and the tier   *)
(* to leave is looked up again, no decision is out of date when its turn     *)
(* comes.                                                                    *)
THEOREM TickMovesOneTierUp == Spec => OneTierUp
<1> DEFINE A == pc # "idle" /\ IdsUnique =>
      \A k \in DOMAIN pages : pages'[k].tier # pages[k].tier =>
         ~pages[k].pinned /\ pages'[k].tier = pages[k].tier - 1
<1>1. Init => QueueInv
  <2>1. Init => Len(queue) = 0
    BY DEF Init
  <2> QED
    BY <2>1 DEF Init, QueueInv
<1>2. ASSUME TypeOK, QueueInv, QueuedUp, Next PROVE A
  <2> SUFFICES ASSUME pc # "idle", IdsUnique, NEW m \in DOMAIN pages,
                      pages'[m].tier # pages[m].tier
               PROVE  ~pages[m].pinned /\ pages'[m].tier = pages[m].tier - 1
    OBVIOUS
  <2>1. Execute /\ ~UNCHANGED tableVars
    BY <1>2 DEF Next, Application, Tick, StartTick, Evaluate, StartExecute, EndTick, tableVars
  <2> DEFINE k == Find(queue[at].id)
  <2>2. /\ k \in 1 .. Len(pages) /\ queue[at].to \in Tiers
        /\ ~pages[k].pinned /\ Move(k, queue[at].to)
    BY <1>2, <2>1, ExecuteMoves
  <2>3. pages[k].id = queue[at].id
    BY <1>2, <2>2, FindResult, PagesTyped
  <2> HIDE DEF k
  <2>4. m = k /\ pages'[k].tier = queue[at].to
    BY <1>2, <2>2, MovePages, PagesTyped
  <2>5. pc = "execute" /\ at \in 1 .. Len(queue) /\ DOMAIN queue = 1 .. Len(queue)
    BY <1>2, <2>1, LenProperties DEF Execute, TypeOK
  <2>6. pages[k].tier = queue[at].from
    BY <1>2, <2>2, <2>3, <2>5 DEF QueueInv, Waiting
  <2>7. queue[at].to = queue[at].from - 1
    BY <1>2, <2>5 DEF QueuedUp
  <2> QED
    BY <2>2, <2>4, <2>6, <2>7
<1>3. TypeOK /\ QueueInv /\ QueuedUp /\ [Next]_vars => [A]_vars
  BY <1>2
<1> QED
  BY <1>1, <1>3, QueueStep, MigrationTypeCorrect, OnlyPromotionsQueued, PTL
     DEF Spec, OneTierUp

-----------------------------------------------------------------------------
(* Sums over a finite set: what MapThenSumSet of FiniteSetsExt computes.   *)

\* The sum of f over S, and what the fold that computes it is defined by.
Total(f, S) == MapThenSumSet(LAMBDA x : f[x], S)

First(s) == CHOOSE x \in s : TRUE

Solves(g, f, S) ==
    g = [s \in SUBSET S |-> IF s = {} THEN 0 ELSE f[First(s)] + g[s \ {First(s)}]]

\* MapThenSumSet is a fold over a finite set.
LEMMA TotalFold == ASSUME NEW f, NEW S PROVE Total(f, S) = (CHOOSE g : Solves(g, f, S))[S]
BY DEF Total, Solves, First, MapThenSumSet, MapThenFoldSet

\* Among bad subsets of a finite set one has no bad subset of its own.
LEMMA MinimalSubset ==
    ASSUME NEW S, IsFiniteSet(S), NEW B \in SUBSET SUBSET S, B # {}
    PROVE  \E u \in B : \A v \in SUBSET u : v # u => v \notin B
<1> DEFINE N == {Cardinality(u) : u \in B}
<1>1. ASSUME NEW u \in B PROVE IsFiniteSet(u) /\ Cardinality(u) \in Nat
  BY FS_Subset, FS_CardinalityType
<1>2. N \in SUBSET Nat /\ N # {}
  BY <1>1
<1>3. PICK n \in N : \A m \in N : n <= m
  BY <1>2, LeastElement
<1>4. PICK u \in B : Cardinality(u) = n
  BY <1>3
<1>5. ASSUME NEW v \in SUBSET u, v # u, v \in B PROVE FALSE
  <2>1. Cardinality(v) <= Cardinality(u) /\ Cardinality(v) # Cardinality(u)
    BY <1>1, <1>5, FS_Subset
  <2>2. Cardinality(v) \in N /\ Cardinality(v) \in Nat
    BY <1>1, <1>5
  <2> QED
    BY <1>1, <1>3, <1>4, <2>1, <2>2
<1> QED
  BY <1>5

\* The term the fold takes first is one of the set.
LEMMA FirstIn == ASSUME NEW s, s # {} PROVE First(s) \in s
BY DEF First

\* One step of the fold.
LEMMA FoldStep ==
    ASSUME NEW g, NEW f, NEW S, Solves(g, f, S)
    PROVE  /\ g[{}] = 0
           /\ \A u \in SUBSET S : u # {} => g[u] = f[First(u)] + g[u \ {First(u)}]
<1>1. \A u \in SUBSET S :
         g[u] = IF u = {} THEN 0 ELSE f[First(u)] + g[u \ {First(u)}]
  BY DEF Solves
<1> QED
  BY <1>1

\* Two folds of functions that agree on a finite set have the same sum on it.
LEMMA FoldUnique ==
    ASSUME NEW g, NEW f, NEW S, Solves(g, f, S), NEW h, NEW e, NEW T, Solves(h, e, T),
           NEW s, IsFiniteSet(s), s \subseteq S, s \subseteq T, \A x \in s : f[x] = e[x]
    PROVE  g[s] = h[s]
<1> DEFINE B == {u \in SUBSET s : g[u] # h[u]}
<1> SUFFICES ASSUME B # {} PROVE FALSE
  OBVIOUS
<1>0. B \in SUBSET SUBSET s
  OBVIOUS
<1>1. PICK u \in B : \A v \in SUBSET u : v # u => v \notin B
  <2> HIDE DEF B
  <2> QED
    BY <1>0, MinimalSubset
<1>2. u # {}
  BY FoldStep
<1>3. First(u) \in u
  BY <1>2, FirstIn
<1>4. g[u] = f[First(u)] + g[u \ {First(u)}] /\ h[u] = e[First(u)] + h[u \ {First(u)}]
  BY <1>2, FoldStep
<1>5. g[u \ {First(u)}] = h[u \ {First(u)}]
  BY <1>1, <1>3
<1> QED
  BY <1>3, <1>4, <1>5

\* The fold over a finite set exists.
LEMMA FoldExists ==
    ASSUME NEW S, IsFiniteSet(S), NEW f
    PROVE  \E g : Solves(g, f, S)
<1> DEFINE B == {u \in SUBSET S : ~ \E g : Solves(g, f, u)}
<1> SUFFICES ASSUME B # {} PROVE FALSE
  OBVIOUS
<1>0. B \in SUBSET SUBSET S
  OBVIOUS
<1>1. PICK u \in B : \A v \in SUBSET u : v # u => v \notin B
  <2> HIDE DEF B
  <2> QED
    BY <1>0, MinimalSubset
<1> DEFINE G(s) == CHOOSE g : Solves(g, f, s)
           rest == u \ {First(u)}
           h == [s \in SUBSET u |-> IF s = u THEN IF u = {} THEN 0 ELSE f[First(u)] + G(rest)[rest]
                                              ELSE G(s)[s]]
<1>2. ASSUME NEW s \in SUBSET u, s # u PROVE Solves(G(s), f, s)
  BY <1>1, <1>2
<1>3. ASSUME NEW s \in SUBSET u, s # {}
      PROVE  h[s] = f[First(s)] + h[s \ {First(s)}]
  <2>1. First(s) \in s
    BY <1>3, FirstIn
  <2>2. s \ {First(s)} \in SUBSET u /\ s \ {First(s)} # u
    BY <2>1
  <2>3. CASE s = u
    BY <1>3, <2>2, <2>3
  <2>4. CASE s # u
    <3>1. Solves(G(s), f, s) /\ Solves(G(s \ {First(s)}), f, s \ {First(s)})
      BY <1>2, <2>2, <2>4
    <3>2. IsFiniteSet(s \ {First(s)})
      BY FS_Subset
    <3>3. G(s)[s \ {First(s)}] = G(s \ {First(s)})[s \ {First(s)}]
      BY <3>1, <3>2, FoldUnique
    <3>4. G(s)[s] = f[First(s)] + G(s)[s \ {First(s)}]
      BY <1>3, <3>1, FoldStep
    <3>5. h[s] = G(s)[s] /\ h[s \ {First(s)}] = G(s \ {First(s)})[s \ {First(s)}]
      BY <2>2, <2>4
    <3> QED
      BY <3>3, <3>4, <3>5
  <2> QED
    BY <2>3, <2>4
<1>4. h[{}] = 0
  <2>1. CASE u = {}
    BY <2>1
  <2>2. CASE u # {}
    <3>1. Solves(G({}), f, {})
      BY <1>2, <2>2
    <3> QED
      BY <2>2, <3>1, FoldStep
  <2> QED
    BY <2>1, <2>2
<1>5. h = [s \in SUBSET u |-> IF s = {} THEN 0 ELSE f[First(s)] + h[s \ {First(s)}]]
  <2>1. h = [s \in SUBSET u |-> h[s]]
    OBVIOUS
  <2> HIDE DEF h
  <2> QED
    BY <1>3, <1>4, <2>1
<1>6. Solves(h, f, u)
  BY <1>5 DEF Solves
<1> QED
  BY <1>6

\* A sum over a finite set is its first term and the sum over the rest.
LEMMA TotalFirst ==
    ASSUME NEW S, IsFiniteSet(S), NEW f
    PROVE  Total(f, S) = IF S = {} THEN 0 ELSE f[First(S)] + Total(f, S \ {First(S)})
<1> DEFINE G(s) == CHOOSE g : Solves(g, f, s)
           R == S \ {First(S)}
<1>1. Solves(G(S), f, S) /\ Solves(G(R), f, R)
  BY FoldExists, FS_Subset
<1>2. Total(f, S) = G(S)[S] /\ Total(f, R) = G(R)[R]
  BY TotalFold
<1> HIDE DEF G
<1>3. G(S)[R] = G(R)[R]
  BY <1>1, FS_Subset, FoldUnique
<1>4. S # {} => G(S)[S] = f[First(S)] + G(S)[R]
  BY <1>1, FoldStep
<1>5. G(S)[{}] = 0
  BY <1>1, FoldStep
<1> QED
  BY <1>2, <1>3, <1>4, <1>5

\* A sum depends on the terms only.
LEMMA TotalSame ==
    ASSUME NEW S, IsFiniteSet(S), NEW f, NEW e, \A x \in S : f[x] = e[x]
    PROVE  Total(f, S) = Total(e, S)
<1>1. PICK g : Solves(g, f, S) /\ Total(f, S) = g[S]
  BY FoldExists, TotalFold
<1>2. PICK h : Solves(h, e, S) /\ Total(e, S) = h[S]
  BY FoldExists, TotalFold
<1> QED
  BY <1>1, <1>2, FoldUnique

\* A sum of integers is one, and one of naturals a natural.
LEMMA TotalInt ==
    ASSUME NEW S, IsFiniteSet(S), NEW f, \A x \in S : f[x] \in Int
    PROVE  Total(f, S) \in Int
<1> DEFINE B == {u \in SUBSET S : Total(f, u) \notin Int}
<1> SUFFICES ASSUME B # {} PROVE FALSE
  OBVIOUS
<1>0. B \in SUBSET SUBSET S
  OBVIOUS
<1>1. PICK u \in B : \A v \in SUBSET u : v # u => v \notin B
  <2> HIDE DEF B
  <2> QED
    BY <1>0, MinimalSubset
<1>2. IsFiniteSet(u) /\ Total(f, u) \notin Int /\ u \subseteq S
  BY FS_Subset
<1>3. u # {} /\ First(u) \in u
  <2>1. u = {} => Total(f, u) = 0
    BY <1>2, TotalFirst
  <2> QED
    BY <1>2, <2>1, FirstIn
<1>4. Total(f, u \ {First(u)}) \in Int
  BY <1>1, <1>3
<1>5. Total(f, u) = f[First(u)] + Total(f, u \ {First(u)})
  BY <1>2, <1>3, TotalFirst
<1> QED
  BY <1>2, <1>3, <1>4, <1>5

LEMMA TotalNat ==
    ASSUME NEW S, IsFiniteSet(S), NEW f, \A x \in S : f[x] \in Nat
    PROVE  Total(f, S) \in Nat
<1> DEFINE B == {u \in SUBSET S : Total(f, u) \notin Nat}
<1> SUFFICES ASSUME B # {} PROVE FALSE
  OBVIOUS
<1>0. B \in SUBSET SUBSET S
  OBVIOUS
<1>1. PICK u \in B : \A v \in SUBSET u : v # u => v \notin B
  <2> HIDE DEF B
  <2> QED
    BY <1>0, MinimalSubset
<1>2. IsFiniteSet(u) /\ Total(f, u) \notin Nat /\ u \subseteq S
  BY FS_Subset
<1>3. u # {} /\ First(u) \in u
  <2>1. u = {} => Total(f, u) = 0
    BY <1>2, TotalFirst
  <2> QED
    BY <1>2, <2>1, FirstIn
<1>4. Total(f, u \ {First(u)}) \in Nat
  BY <1>1, <1>3
<1>5. Total(f, u) = f[First(u)] + Total(f, u \ {First(u)})
  BY <1>2, <1>3, TotalFirst
<1> QED
  BY <1>2, <1>3, <1>4, <1>5

\* Any term may be taken out first.
LEMMA TotalSplit ==
    ASSUME NEW S, IsFiniteSet(S), NEW f, \A x \in S : f[x] \in Int
    PROVE  \A a \in S : Total(f, S) = f[a] + Total(f, S \ {a})
<1> DEFINE B == {u \in SUBSET S : \E a \in u : Total(f, u) # f[a] + Total(f, u \ {a})}
<1> SUFFICES ASSUME B # {} PROVE FALSE
  OBVIOUS
<1>0. B \in SUBSET SUBSET S
  OBVIOUS
<1>1. PICK u \in B : \A v \in SUBSET u : v # u => v \notin B
  <2> HIDE DEF B
  <2> QED
    BY <1>0, MinimalSubset
<1>2. PICK a \in u : Total(f, u) # f[a] + Total(f, u \ {a})
  OBVIOUS
<1>3. /\ IsFiniteSet(u) /\ u \subseteq S
      /\ \A v \in SUBSET u : IsFiniteSet(v) /\ Total(f, v) \in Int
  BY FS_Subset, TotalInt
<1> DEFINE c == First(u)
<1>4. c \in u
  BY FirstIn
<1>5. Total(f, u) = f[c] + Total(f, u \ {c})
  BY <1>3, TotalFirst
<1> HIDE DEF c
<1>6. c # a
  BY <1>2, <1>5
<1>7. Total(f, u \ {c}) = f[a] + Total(f, (u \ {c}) \ {a})
  BY <1>1, <1>4, <1>6
<1>8. Total(f, u \ {a}) = f[c] + Total(f, (u \ {a}) \ {c})
  BY <1>1, <1>4, <1>6
<1>9. (u \ {a}) \ {c} = (u \ {c}) \ {a}
  OBVIOUS
<1>10. f[a] \in Int /\ f[c] \in Int /\ Total(f, (u \ {c}) \ {a}) \in Int
  BY <1>3, <1>4
<1> DEFINE rest == Total(f, (u \ {c}) \ {a})
<1>11. Total(f, u) = f[c] + (f[a] + rest)
  BY <1>5, <1>7, Zenon
<1>12. Total(f, u \ {a}) = f[c] + rest
  BY <1>8, <1>9, Zenon
<1>13. rest \in Int
  BY <1>10
<1> HIDE DEF rest
<1>14. f[c] + (f[a] + rest) = f[a] + (f[c] + rest)
  BY <1>10, <1>13
<1> QED
  BY <1>2, <1>11, <1>12, <1>14, Zenon

\* Renaming keeps a finite set finite, and its size.
LEMMA RenamedSet ==
    ASSUME NEW S, IsFiniteSet(S), NEW b, \A x, y \in S : b[x] = b[y] => x = y
    PROVE  /\ IsFiniteSet({b[x] : x \in S})
           /\ Cardinality({b[x] : x \in S}) = Cardinality(S)
<1> DEFINE T == {b[x] : x \in S}
           g == [x \in S |-> b[x]]
<1>1. g \in Bijection(S, T)
  BY DEF Bijection, Injection, Surjection, IsInjective
<1>2. ExistsBijection(S, T)
  BY <1>1 DEF ExistsBijection
<1> QED
  BY <1>2, FS_Bijection

\* A sum does not change when its terms are renamed.
LEMMA TotalRenamed ==
    ASSUME NEW S, IsFiniteSet(S), NEW f, \A x \in S : f[x] \in Nat, NEW b, NEW e,
           \A x \in S : f[x] = e[b[x]],
           \A x, y \in S : b[x] = b[y] => x = y
    PROVE  Total(f, S) = Total(e, {b[x] : x \in S})
<1> DEFINE Im(u) == {b[x] : x \in u}
           B == {u \in SUBSET S : Total(f, u) # Total(e, Im(u))}
<1> SUFFICES ASSUME B # {} PROVE FALSE
  OBVIOUS
<1>0. B \in SUBSET SUBSET S
  OBVIOUS
<1>1. PICK u \in B : \A v \in SUBSET u : v # u => v \notin B
  <2> HIDE DEF B
  <2> QED
    BY <1>0, MinimalSubset
<1>2. IsFiniteSet(u) /\ IsFiniteSet(Im(u)) /\ u \subseteq S
  BY FS_Subset, RenamedSet
<1>3. u # {}
  <2>1. SUFFICES ASSUME u = {} PROVE FALSE
    OBVIOUS
  <2>2. Im(u) = {}
    BY <2>1
  <2> QED
    BY <1>2, <2>1, <2>2, TotalFirst
<1>4. PICK a \in u : TRUE
  BY <1>3
<1>5. Total(f, u) = f[a] + Total(f, u \ {a})
  BY <1>2, TotalSplit
<1>6. Total(e, Im(u)) = e[b[a]] + Total(e, Im(u) \ {b[a]})
  <2>1. \A y \in Im(u) : e[y] \in Nat
    BY <1>2
  <2> QED
    BY <1>2, <2>1, TotalSplit
<1>7. Im(u) \ {b[a]} = Im(u \ {a})
  BY <1>2
<1>8. Total(f, u \ {a}) = Total(e, Im(u \ {a}))
  BY <1>1
<1> QED
  BY <1>2, <1>5, <1>6, <1>7, <1>8

-----------------------------------------------------------------------------
(* The counters of the tiers.                                              *)

\* The sizes of the pages, per place of the array.
SizesOf(ps) == [k \in DOMAIN ps |-> ps[k].size]

\* Accounting, with the sum over a function of the pages' sizes.
Counted == \A t \in Tiers :
    /\ used[t] = Total(SizesOf(pages), On(t))
    /\ residents[t] = Cardinality(On(t))

\* What the sum of Accounting is defined by.
SizeFold(g, S) ==
    g = [s \in SUBSET S |-> IF s = {} THEN 0 ELSE pages[First(s)].size + g[s \ {First(s)}]]

\* The pages of a tier are finitely many, with sizes that can be added.
LEMMA OnFinite ==
    ASSUME TypeOK, NEW t
    PROVE  /\ IsFiniteSet(On(t)) /\ On(t) \subseteq DOMAIN pages
           /\ \A k \in On(t) : SizesOf(pages)[k] \in Nat
<1>1. IsFiniteSet(1 .. Len(pages))
  BY PagesTyped, FS_Interval
<1>2. On(t) \subseteq DOMAIN pages
  BY DEF On
<1> QED
  BY <1>1, <1>2, PagesTyped, FS_Subset DEF SizesOf

\* The sum of Accounting is the one of Counted.
LEMMA SizesTotal ==
    ASSUME TypeOK, NEW t
    PROVE  MapThenSumSet(LAMBDA k : pages[k].size, On(t)) = Total(SizesOf(pages), On(t))
<1> DEFINE f == SizesOf(pages)
           S == On(t)
<1>1. IsFiniteSet(S) /\ S \subseteq DOMAIN pages
  BY OnFinite
<1>2. \A k \in S : f[k] = pages[k].size
  BY <1>1 DEF SizesOf
<1>3. MapThenSumSet(LAMBDA k : pages[k].size, S) = (CHOOSE g : SizeFold(g, S))[S]
  BY DEF SizeFold, First, MapThenSumSet, MapThenFoldSet
<1>4. PICK h : Solves(h, f, S) /\ Total(f, S) = h[S]
  BY <1>1, FoldExists, TotalFold
<1> HIDE DEF f, S
<1>5. ASSUME NEW s \in SUBSET S, NEW g
      PROVE  (IF s = {} THEN 0 ELSE f[First(s)] + g[s \ {First(s)}])
               = (IF s = {} THEN 0 ELSE pages[First(s)].size + g[s \ {First(s)}])
  BY <1>2, <1>5, FirstIn
<1>6. \A g : SizeFold(g, S) <=> Solves(g, f, S)
  BY <1>5 DEF SizeFold, Solves
<1>7. PICK g : SizeFold(g, S) /\ g = (CHOOSE x : SizeFold(x, S))
  BY <1>4, <1>6
<1>8. Solves(g, f, S)
  BY <1>6, <1>7
<1>9. g[S] = h[S]
  BY <1>1, <1>4, <1>8, FoldUnique
<1> QED
  BY <1>3, <1>4, <1>7, <1>9 DEF f, S

\* The two sums are one.
LEMMA CountedIsAccounting == TypeOK /\ Counted => Accounting
<1> SUFFICES ASSUME TypeOK, Counted PROVE Accounting
  OBVIOUS
<1>1. ASSUME NEW t \in Tiers
      PROVE  /\ used[t] = MapThenSumSet(LAMBDA k : pages[k].size, On(t))
             /\ residents[t] = Cardinality(On(t))
  <2>1. used[t] = Total(SizesOf(pages), On(t)) /\ residents[t] = Cardinality(On(t))
    BY DEF Counted
  <2>2. MapThenSumSet(LAMBDA k : pages[k].size, On(t)) = Total(SizesOf(pages), On(t))
    BY SizesTotal
  <2> QED
    BY <2>1, <2>2
<1> QED
  BY <1>1 DEF Accounting

\* A term more.
LEMMA JoinSum ==
    ASSUME NEW S, IsFiniteSet(S), NEW k, k \notin S, NEW f, NEW e,
           \A x \in S : f[x] \in Nat, \A x \in S : e[x] = f[x], e[k] \in Nat
    PROVE  /\ Total(e, S \cup {k}) = Total(f, S) + e[k]
           /\ Cardinality(S \cup {k}) = Cardinality(S) + 1
<1> DEFINE T == S \cup {k}
<1>1. IsFiniteSet(T) /\ Cardinality(T) = Cardinality(S) + 1
  BY FS_AddElement
<1>2. T \ {k} = S /\ k \in T
  OBVIOUS
<1>3. \A x \in T : e[x] \in Nat
  OBVIOUS
<1> HIDE DEF T
<1>4. Total(e, T) = e[k] + Total(e, S)
  BY <1>1, <1>2, <1>3, TotalSplit
<1>5. Total(e, S) = Total(f, S) /\ Total(f, S) \in Nat
  BY TotalSame, TotalNat
<1> QED
  BY <1>1, <1>4, <1>5 DEF T

\* A term less: the subtraction of page_free and migrate_execute is exact.
LEMMA LeaveSum ==
    ASSUME NEW S, IsFiniteSet(S), NEW k \in S, NEW f, \A x \in S : f[x] \in Nat
    PROVE  /\ Total(f, S \ {k}) = Less(Total(f, S), f[k])
           /\ Cardinality(S \ {k}) = Less(Cardinality(S), 1)
<1>1. IsFiniteSet(S \ {k}) /\ Cardinality(S \ {k}) = Cardinality(S) - 1
  BY FS_RemoveElement
<1>2. Cardinality(S \ {k}) \in Nat /\ Cardinality(S) \in Nat
  BY <1>1, FS_CardinalityType
<1>3. Total(f, S) = f[k] + Total(f, S \ {k})
  BY TotalSplit
<1>4. Total(f, S \ {k}) \in Nat /\ f[k] \in Nat
  BY <1>1, TotalNat
<1>5. Total(f, S \ {k}) = Less(Total(f, S), f[k])
  BY <1>3, <1>4 DEF Less
<1>6. Cardinality(S \ {k}) = Less(Cardinality(S), 1)
  BY <1>1, <1>2 DEF Less
<1> QED
  BY <1>5, <1>6

\* What the counters are between the two halves of a move, and after page_free:
\* those of the pages without the one taken out.
LEMMA TakenOut ==
    ASSUME TypeOK, Counted, NEW k \in 1 .. Len(pages), NEW t \in Tiers
    PROVE  /\ [used EXCEPT ![pages[k].tier] = Less(@, pages[k].size)][t]
                = Total(SizesOf(pages), On(t) \ {k})
           /\ [residents EXCEPT ![pages[k].tier] = Less(@, 1)][t]
                = Cardinality(On(t) \ {k})
<1> DEFINE S == On(t)
           f == SizesOf(pages)
<1>1. /\ IsFiniteSet(S) /\ \A x \in S : f[x] \in Nat
      /\ used[t] = Total(f, S) /\ residents[t] = Cardinality(S)
      /\ used \in [Tiers -> Nat] /\ residents \in [Tiers -> Nat]
  BY OnFinite DEF Counted, TypeOK
<1>2. k \in S <=> pages[k].tier = t
  BY PagesTyped DEF On
<1>3. f[k] = pages[k].size
  BY PagesTyped DEF SizesOf
<1> HIDE DEF f, S
<1>4. CASE k \in S
  <2>1. /\ Total(f, S \ {k}) = Less(Total(f, S), f[k])
        /\ Cardinality(S \ {k}) = Less(Cardinality(S), 1)
    BY <1>1, <1>4, LeaveSum
  <2>2. pages[k].tier = t
    BY <1>2, <1>4
  <2> QED
    BY <1>1, <1>3, <2>1, <2>2 DEF f, S
<1>5. CASE k \notin S
  <2>1. S \ {k} = S
    BY <1>5
  <2> QED
    BY <1>1, <1>2, <2>1, <1>5, PagesTyped DEF f, S
<1> QED
  BY <1>4, <1>5

\* An array whose pages keep their tiers and sizes.
LEMMA CountedSame ==
    ASSUME TypeOK, Counted, UNCHANGED <<used, residents>>, DOMAIN pages' = DOMAIN pages,
           \A m \in DOMAIN pages : pages'[m].tier = pages[m].tier
                                     /\ pages'[m].size = pages[m].size
    PROVE  Counted'
<1>1. ASSUME NEW t \in Tiers
      PROVE  /\ used'[t] = Total(SizesOf(pages'), On(t)')
             /\ residents'[t] = Cardinality(On(t)')
  <2>1. On(t)' = On(t)
    BY DEF On
  <2>2. IsFiniteSet(On(t)) /\ On(t) \subseteq DOMAIN pages
    BY OnFinite
  <2>3. \A m \in On(t) : SizesOf(pages)[m] = SizesOf(pages')[m]
    BY <2>2 DEF SizesOf
  <2>4. Total(SizesOf(pages), On(t)) = Total(SizesOf(pages'), On(t))
    BY <2>2, <2>3, TotalSame
  <2> QED
    BY <2>1, <2>4 DEF Counted
<1> QED
  BY <1>1 DEF Counted

\* page_alloc adds the page and its size to the tier asked for.
LEMMA CountedAlloc ==
    ASSUME TypeOK, Counted, NEW asked \in Sizes, NEW to \in Tiers, Alloc(asked, to)
    PROVE  Counted'
<1> DEFINE n == Len(pages) + 1
           s == SizeOf(asked)
           f == SizesOf(pages)
           e == SizesOf(pages')
<1>1. /\ s \in Nat /\ DOMAIN pages' = 1 .. n
      /\ \A m \in 1 .. Len(pages) : pages'[m] = pages[m]
      /\ pages'[n].size = s /\ pages'[n].tier = to
  BY AllocPages
<1>2. /\ used' = [used EXCEPT ![to] = @ + s]
      /\ residents' = [residents EXCEPT ![to] = @ + 1]
      /\ used \in [Tiers -> Nat] /\ residents \in [Tiers -> Nat]
  BY DEF Alloc, TypeOK
<1>3. DOMAIN pages = 1 .. Len(pages) /\ Len(pages) \in Nat
  BY PagesTyped
<1>4. e[n] = s /\ \A m \in DOMAIN pages : e[m] = f[m]
  BY <1>1, <1>3 DEF SizesOf
<1> HIDE DEF s, f, e
<1>5. ASSUME NEW t \in Tiers
      PROVE  /\ used'[t] = Total(e, On(t)')
             /\ residents'[t] = Cardinality(On(t)')
  <2> DEFINE S == On(t)
  <2>1. On(t)' = IF t = to THEN S \cup {n} ELSE S
    BY <1>1, <1>3 DEF On
  <2>2. /\ IsFiniteSet(S) /\ S \subseteq DOMAIN pages
        /\ \A m \in S : f[m] \in Nat
    BY OnFinite DEF f
  <2>3. n \notin S /\ \A m \in S : e[m] = f[m]
    BY <1>3, <1>4, <2>2
  <2>4. used[t] = Total(f, S) /\ residents[t] = Cardinality(S)
    BY DEF Counted, f
  <2> HIDE DEF n, S
  <2>5. CASE t = to
    <3>0. e[n] \in Nat
      BY <1>1, <1>4
    <3>1. /\ Total(e, S \cup {n}) = Total(f, S) + e[n]
          /\ Cardinality(S \cup {n}) = Cardinality(S) + 1
      BY <2>2, <2>3, <3>0, JoinSum
    <3> QED
      BY <1>2, <1>4, <2>1, <2>4, <2>5, <3>1
  <2>6. CASE t # to
    <3>1. Total(e, S) = Total(f, S)
      BY <2>2, <2>3, TotalSame
    <3> QED
      BY <1>2, <2>1, <2>4, <2>6, <3>1
  <2> QED
    BY <2>5, <2>6
<1> QED
  BY <1>5 DEF Counted, e

\* page_free takes the page it finds from the counters of its tier.
LEMMA CountedFree ==
    ASSUME TypeOK, Counted, NEW id \in 1 .. Capacity, Free(id)
    PROVE  Counted'
<1> DEFINE k == Find(id)
           f == SizesOf(pages)
           e == SizesOf(pages')
           b == [m \in 1 .. Len(pages) |-> IF m < k THEN m ELSE m - 1]
<1>1. k \in 1 .. Len(pages) /\ Len(pages) \in Nat /\ DOMAIN pages = 1 .. Len(pages)
  BY FindResult, PagesTyped DEF Free
<1>2. /\ pages' = RemoveAt(pages, k)
      /\ used' = [used EXCEPT ![pages[k].tier] = Less(@, pages[k].size)]
      /\ residents' = [residents EXCEPT ![pages[k].tier] = Less(@, 1)]
  BY DEF Free
<1> HIDE DEF k
<1>3. /\ DOMAIN pages' = 1 .. Len(pages) - 1
      /\ \A m \in 1 .. Len(pages) - 1 :
            pages'[m] = IF m < k THEN pages[m] ELSE pages[m + 1]
  BY <1>1, <1>2, PagesTyped, RemoveAtPages, LenProperties
<1>4. ASSUME NEW m \in 1 .. Len(pages), m # k
      PROVE  b[m] \in 1 .. Len(pages) - 1 /\ pages'[b[m]] = pages[m]
  BY <1>1, <1>3, <1>4
<1>5. ASSUME NEW t \in Tiers
      PROVE  /\ used'[t] = Total(e, On(t)')
             /\ residents'[t] = Cardinality(On(t)')
  <2> DEFINE S == On(t) \ {k}
  <2>1. used'[t] = Total(f, S) /\ residents'[t] = Cardinality(S)
    BY <1>1, <1>2, TakenOut
  <2>2. /\ IsFiniteSet(S) /\ S \subseteq 1 .. Len(pages)
        /\ \A m \in S : f[m] \in Nat
    BY <1>1, OnFinite, FS_Subset
  <2>3. \A m \in S : f[m] = e[b[m]]
    BY <1>1, <1>3, <1>4, <2>2 DEF SizesOf
  <2>4. \A x, y \in S : b[x] = b[y] => x = y
    BY <1>1, <2>2
  <2>5. On(t)' = {b[m] : m \in S}
    <3>1. ASSUME NEW m \in S PROVE b[m] \in On(t)'
      <4>1. m \in 1 .. Len(pages) /\ m # k /\ pages[m].tier = t
        BY <1>1 DEF On
      <4> QED
        BY <1>3, <1>4, <4>1 DEF On
    <3>2. ASSUME NEW j \in On(t)' PROVE \E m \in S : j = b[m]
      <4>1. j \in 1 .. Len(pages) - 1 /\ pages'[j].tier = t
        BY <1>3 DEF On
      <4>2. CASE j < k
        <5>1. j \in S /\ b[j] = j
          BY <1>1, <1>3, <4>1, <4>2 DEF On
        <5> QED
          BY <5>1
      <4>3. CASE j >= k
        <5>1. j + 1 \in S /\ b[j + 1] = j
          BY <1>1, <1>3, <4>1, <4>3 DEF On
        <5> QED
          BY <5>1
      <4> QED
        BY <1>1, <4>1, <4>2, <4>3
    <3> QED
      BY <3>1, <3>2
  <2> HIDE DEF S, b, e, f
  <2>6. Total(f, S) = Total(e, {b[m] : m \in S})
    <3>1. IsFiniteSet(S) /\ \A m \in S : f[m] \in Nat
      BY <2>2
    <3> QED
      BY <2>3, <2>4, <3>1, TotalRenamed
  <2>7. Cardinality({b[m] : m \in S}) = Cardinality(S)
    BY <2>2, <2>4, RenamedSet
  <2> QED
    BY <2>1, <2>5, <2>6, <2>7
<1> QED
  BY <1>5 DEF Counted

\* migrate_execute takes a page from one tier and adds it to another.
LEMMA CountedMove ==
    ASSUME TypeOK, Counted, NEW k \in 1 .. Len(pages), NEW to \in Tiers, Move(k, to)
    PROVE  Counted'
<1> DEFINE p == pages[k]
           left == [used EXCEPT ![p.tier] = Less(@, p.size)]
           fewer == [residents EXCEPT ![p.tier] = Less(@, 1)]
           f == SizesOf(pages)
           e == SizesOf(pages')
<1>1. /\ used' = [left EXCEPT ![to] = @ + p.size]
      /\ residents' = [fewer EXCEPT ![to] = @ + 1]
      /\ DOMAIN left = Tiers /\ DOMAIN fewer = Tiers
  BY DEF Move, TypeOK
<1>2. /\ DOMAIN pages = 1 .. Len(pages) /\ DOMAIN pages' = 1 .. Len(pages)
      /\ \A m \in 1 .. Len(pages) :
            /\ pages'[m].tier = IF m = k THEN to ELSE pages[m].tier
            /\ pages'[m].size = pages[m].size
  BY MovePages, PagesTyped DEF SamePlaces
<1>3. \A m \in 1 .. Len(pages) : e[m] = f[m]
  BY <1>2 DEF SizesOf
<1>4. e[k] = p.size /\ p.size \in Nat
  BY <1>2, PagesTyped DEF SizesOf
<1>5. \A t \in Tiers : left[t] = Total(f, On(t) \ {k}) /\ fewer[t] = Cardinality(On(t) \ {k})
  BY TakenOut
<1> HIDE DEF left, fewer, p, f, e
<1>6. ASSUME NEW t \in Tiers
      PROVE  /\ used'[t] = Total(e, On(t)')
             /\ residents'[t] = Cardinality(On(t)')
  <2> DEFINE S == On(t) \ {k}
  <2>1. /\ IsFiniteSet(S) /\ S \subseteq 1 .. Len(pages) /\ k \notin S
        /\ \A m \in S : f[m] \in Nat
    BY <1>2, OnFinite, FS_Subset DEF f
  <2>2. \A m \in S : e[m] = f[m]
    BY <1>3, <2>1
  <2>3. On(t)' = IF t = to THEN S \cup {k} ELSE S
    BY <1>2 DEF On
  <2>4. left[t] = Total(f, S) /\ fewer[t] = Cardinality(S)
    BY <1>5
  <2> HIDE DEF S
  <2>5. CASE t = to
    <3>1. /\ Total(e, S \cup {k}) = Total(f, S) + e[k]
          /\ Cardinality(S \cup {k}) = Cardinality(S) + 1
      BY <1>4, <2>1, <2>2, JoinSum
    <3> QED
      BY <1>1, <1>4, <2>3, <2>4, <2>5, <3>1
  <2>6. CASE t # to
    <3>1. Total(e, S) = Total(f, S)
      BY <2>1, <2>2, TotalSame
    <3> QED
      BY <1>1, <2>3, <2>4, <2>6, <3>1
  <2> QED
    BY <2>5, <2>6
<1> QED
  BY <1>6 DEF Counted, e

\* No step makes a counter drift.
LEMMA CountedStep == TypeOK /\ Counted /\ [Next]_vars => Counted'
<1> SUFFICES ASSUME TypeOK, Counted, [Next]_vars PROVE Counted'
  OBVIOUS
<1> USE PagesTyped
<1>1. ASSUME UNCHANGED <<pages, used, residents>> PROVE Counted'
  BY <1>1, CountedSame
<1>2. ASSUME NEW k \in 1 .. Len(pages), NEW n \in Bursts, Access(k, n) PROVE Counted'
  <2>1. pages' = [pages EXCEPT ![k].accesses = @ + n] /\ UNCHANGED <<used, residents>>
    BY <1>2 DEF Access
  <2>2. \A m \in DOMAIN pages : pages'[m].tier = pages[m].tier /\ pages'[m].size = pages[m].size
    BY <2>1 DEF Page
  <2> QED
    BY <2>1, <2>2, CountedSame
<1>3. ASSUME NEW k \in 1 .. Len(pages), NEW b \in BOOLEAN, SetPinned(k, b) PROVE Counted'
  <2>1. pages' = [pages EXCEPT ![k].pinned = b] /\ UNCHANGED <<used, residents>>
    BY <1>3 DEF SetPinned
  <2>2. \A m \in DOMAIN pages : pages'[m].tier = pages[m].tier /\ pages'[m].size = pages[m].size
    BY <2>1 DEF Page
  <2> QED
    BY <2>1, <2>2, CountedSame
<1>4. Application => Counted'
  BY <1>1, <1>2, <1>3, CountedAlloc, CountedFree DEF Application, TableNext, MapInsert
<1>5. Execute => Counted'
  BY <1>1, ExecuteMoves, CountedMove DEF tableVars
<1> QED
  BY <1>1, <1>4, <1>5
     DEF Next, Tick, StartTick, Evaluate, StartExecute, EndTick, vars, tableVars

(* The used bytes and the page count of every tier are exactly those of the  *)
(* pages on it, after any sequence of page_alloc, page_free, page_access and *)
(* ticks: the tests that stop the counters at zero (page.c:80-83,            *)
(* migrate.c:159-162) are never what keeps them right.                       *)
THEOREM CountersExact == Spec => []Accounting
<1>1. Init => Counted
  <2> SUFFICES ASSUME Init PROVE Counted
    OBVIOUS
  <2>1. ASSUME NEW t \in Tiers
        PROVE  used[t] = Total(SizesOf(pages), On(t)) /\ residents[t] = Cardinality(On(t))
    <3>1. On(t) = {} /\ used[t] = 0 /\ residents[t] = 0
      BY DEF Init, TableInit, On
    <3> QED
      BY <3>1, FS_EmptySet, TotalFirst
  <2> QED
    BY <2>1 DEF Counted
<1> QED
  BY <1>1, CountedStep, CountedIsAccounting, MigrationTypeCorrect, PTL DEF Spec

-----------------------------------------------------------------------------
(* The bandwidth of the channels                                           *)

ServedPages ==
    [channel : Channels, heat : Nat, speed : Nat, compared : BOOLEAN, ema : Nat, confidence : Nat]

\* The weights are integers of any sign, and what is granted is their cut.
BandwidthInv ==
    /\ served \in [Pages -> ServedPages] /\ weight \in [Channels -> Int]
    /\ alloc # << >> => alloc = Allocated(weight)

(* The default registry: three channels with 523 GB/s together.             *)
LEMMA ChannelFacts ==
    /\ Channels = {1, 2, 3} /\ DOMAIN BandwidthMax = {1, 2, 3} /\ Len(BandwidthMax) = 3
    /\ BandwidthMax[1] = 20 /\ BandwidthMax[2] = 500 /\ BandwidthMax[3] = 3
  BY DEF Channels, BandwidthMax

(* The sum over the channels.                                               *)
LEMMA ChannelSum ==
    ASSUME NEW f, DOMAIN f = {1, 2, 3}, f[1] \in Int, f[2] \in Int, f[3] \in Int
    PROVE  SumOver(f) = f[1] + f[2] + f[3]
<1>1. IsFiniteSet({1, 2, 3}) /\ IsFiniteSet({2, 3}) /\ IsFiniteSet({3}) /\ IsFiniteSet({})
  <2>1. {1, 2, 3} = 1 .. 3 /\ {2, 3} = 2 .. 3 /\ {3} = 3 .. 3
    OBVIOUS
  <2>2. IsFiniteSet(1 .. 3) /\ IsFiniteSet(2 .. 3) /\ IsFiniteSet(3 .. 3)
    <3>1. 1 \in Int /\ 2 \in Int /\ 3 \in Int
      OBVIOUS
    <3> QED
      BY <3>1, FS_Interval, Zenon
  <2> QED
    BY <2>1, <2>2, FS_EmptySet, Zenon
<1>2. Total(f, {1, 2, 3}) = f[1] + Total(f, {1, 2, 3} \ {1})
  BY <1>1, TotalSplit
<1>3. Total(f, {2, 3}) = f[2] + Total(f, {2, 3} \ {2})
  BY <1>1, TotalSplit
<1>4. Total(f, {3}) = f[3] + Total(f, {3} \ {3})
  BY <1>1, TotalSplit
<1>5. Total(f, {}) = 0
  BY <1>1, TotalFirst
<1>6. {1, 2, 3} \ {1} = {2, 3} /\ {2, 3} \ {2} = {3} /\ {3} \ {3} = {}
  OBVIOUS
<1>7. Total(f, {1, 2, 3}) = f[1] + (f[2] + (f[3] + 0))
  BY <1>2, <1>3, <1>4, <1>5, <1>6, Zenon
<1>8. SumOver(f) = Total(f, {1, 2, 3})
  BY DEF SumOver, Total
<1> QED
  BY <1>7, <1>8

(* What a quotient of naturals is.                                          *)
LEMMA Quotients ==
    /\ \A a, b \in Nat : Thousandth(a, b) \in Nat
    /\ \A a \in Nat, b \in Nat \ {0} : a \div b \in Nat
<1>1. \A a, b \in Nat : a * b \in Nat
  OBVIOUS
<1>2. \A a \in Nat, b \in Nat \ {0} : a \div b \in Nat
  OBVIOUS
<1> QED
  BY <1>1, <1>2 DEF Thousandth

(* The priority of a page is an integer, below zero for some moving pages.   *)
LEMMA PriorityInt == ASSUME NEW page \in ServedPages PROVE Priority(page) \in Int
<1> DEFINE gamma == LorentzFactor(page.speed)
           gain == 10000 \div (10 + page.ema)
           gained == Thousandth(Thousandth(Thousandth(gamma, page.confidence), gain), page.heat)
           cost == (1000 - 1000000 \div gamma) \div 2
<1>1. page.speed \in Nat /\ page.ema \in Nat /\ page.confidence \in Nat /\ page.heat \in Nat
  BY DEF ServedPages
<1>2. gamma \in {1000, 70712}
  BY DEF LorentzFactor
<1>3. gain \in Nat
  <2>1. 10 + page.ema \in Nat \ {0}
    BY <1>1
  <2>2. \A b \in Nat \ {0} : 10000 \div b \in Nat
    OBVIOUS
  <2> QED
    BY <2>1, <2>2
<1>4. gained \in Nat
  <2>1. gamma \in Nat
    BY <1>2
  <2> HIDE DEF gamma, gain
  <2> QED
    BY <1>1, <1>3, <2>1, Quotients, Zenon
<1>5. cost \in Int
  BY <1>2
<1>6. Priority(page) = IF page.speed = 0 THEN 1 ELSE gained * page.speed - cost
  BY DEF Priority
<1> HIDE DEF gained, cost
<1>7. gained * page.speed \in Nat
  BY <1>1, <1>4
<1> QED
  BY <1>5, <1>6, <1>7

(* A weight is an integer.                                                  *)
LEMMA WeightInt ==
    ASSUME NEW f \in [Pages -> ServedPages], NEW c
    PROVE  Weight(c, f) \in Int
<1> DEFINE S == {q \in Pages : f[q].channel = c}
           terms == [p \in S |-> IF p \in Foreseen THEN Priority(f[p]) ELSE f[p].heat]
<1>1. IsFiniteSet(S)
  BY BandwidthAssumption, FS_Interval, FS_Subset DEF Pages
<1>2. \A p \in S : terms[p] \in Int
  BY PriorityInt DEF ServedPages
<1>3. Weight(c, f) = Total(terms, S)
  BY DEF Weight, SumOver, Total
<1> HIDE DEF S, terms
<1> QED
  BY <1>1, <1>2, <1>3, TotalInt

(* What a comparison leaves of a page's error and confidence.                *)
LEMMA ComparedTyped ==
    ASSUME NEW page \in ServedPages, NEW error \in Errors, NEW speed \in Speeds
    PROVE  Compared(page, error, speed) \in ServedPages
<1>1. error \in Nat /\ speed \in Nat
  BY BandwidthAssumption
<1>2. LmsUpdated(page, error) \in ServedPages
  <2> DEFINE ema == (9 * page.ema + error + 5) \div 10
  <2>1. page.ema \in Nat
    BY DEF ServedPages
  <2>2. ema \in Nat
    BY <1>1, <2>1
  <2> HIDE DEF ema
  <2>3. 1000 \div (1 + ema) \in Nat
    BY <2>2, Quotients
  <2>4. LmsUpdated(page, error) =
           IF error = 0 THEN page
           ELSE [page EXCEPT !.ema = ema, !.confidence = 1000 \div (1 + ema)]
    BY DEF LmsUpdated, ema
  <2> DEFINE confidence == 1000 \div (1 + ema)
  <2>5. confidence \in Nat
    BY <2>3
  <2> HIDE DEF confidence
  <2>6. [page EXCEPT !.ema = ema, !.confidence = confidence] \in ServedPages
    BY <2>2, <2>5 DEF ServedPages
  <2> QED
    BY <2>4, <2>6 DEF confidence
<1> QED
  BY <1>1, <1>2 DEF Compared, ServedPages

LEMMA BandwidthStep ==
    ASSUME BandwidthInv, TickBandwidth
    PROVE  BandwidthInv'
<1>1. PICK heat \in [Pages -> Heats], speed \in [Foreseen -> Speeds],
           error \in [Foreseen -> Errors], move \in [Pages -> {-1, 0, 1}] :
         /\ \A p \in Pages : served[p].channel + move[p] \in Channels
         /\ served' = [p \in Pages |->
                [IF p \in Foreseen THEN Compared(served[p], error[p], speed[p]) ELSE served[p]
                    EXCEPT !.heat = heat[p], !.channel = @ + move[p]]]
  BY DEF TickBandwidth
<1>2. ASSUME NEW p \in Pages PROVE served'[p] \in ServedPages
  <2> DEFINE page == IF p \in Foreseen THEN Compared(served[p], error[p], speed[p]) ELSE served[p]
  <2>1. page \in ServedPages
    BY ComparedTyped DEF BandwidthInv
  <2>2. page.channel = served[p].channel
    BY DEF Compared, LmsUpdated, BandwidthInv, ServedPages
  <2>3. served'[p] = [page EXCEPT !.heat = heat[p], !.channel = @ + move[p]]
    BY <1>1
  <2> HIDE DEF page
  <2>4. served[p].channel + move[p] \in Channels
    BY <1>1
  <2>5. heat[p] \in Heats
    OBVIOUS
  <2>6. heat[p] \in Nat
    <3>1. Heats \subseteq Nat
      BY BandwidthAssumption
    <3> QED
      BY <2>5, <3>1
  <2>7. page.channel + move[p] \in Channels
    BY <2>2, <2>4, Zenon
  <2> QED
    BY <2>1, <2>3, <2>6, <2>7 DEF ServedPages
<1>3. served' \in [Pages -> ServedPages]
  BY <1>1, <1>2
<1>4. weight' \in [Channels -> Int]
  BY <1>3, WeightInt DEF TickBandwidth
<1>5. alloc' = Allocated(weight')
  BY DEF TickBandwidth
<1> QED
  BY <1>3, <1>4, <1>5 DEF BandwidthInv

(* A third of the budget, for a weight not below the two others.            *)
LEMMA GreatestShare ==
    ASSUME NEW w \in [Channels -> Int], NEW c \in Channels, \A d \in Channels : w[d] <= w[c]
    PROVE  Budgets(w)[c] \in Int /\ Budgets(w)[c] >= TotalBudget \div Len(BandwidthMax)
<1> DEFINE sum == w[1] + w[2] + w[3]
<1>1. w[1] \in Int /\ w[2] \in Int /\ w[3] \in Int /\ w[c] \in Int /\ sum \in Int
  BY ChannelFacts
<1>2. SumOver(w) = sum
  BY <1>1, ChannelFacts, ChannelSum
<1>3. TotalBudget = 523
  BY ChannelFacts, ChannelSum DEF TotalBudget
<1>4. sum <= 3 * w[c]
  BY <1>1, ChannelFacts
<1>5. Budgets(w)[c] = IF sum <= 0 THEN TotalBudget \div Len(BandwidthMax)
                                   ELSE (w[c] * TotalBudget) \div sum
  BY <1>2 DEF Budgets
<1> HIDE DEF sum
<1>6. TotalBudget \div Len(BandwidthMax) = 174
  BY <1>3, ChannelFacts
<1>7. ASSUME sum > 0 PROVE (w[c] * 523) \div sum \in Int /\ (w[c] * 523) \div sum >= 174
  <2> DEFINE q == (w[c] * 523) \div sum
  <2>1. \A a \in Int, b \in Nat \ {0} : a \div b \in Int /\ a < b * (a \div b) + b
    OBVIOUS
  <2>2. q \in Int /\ w[c] * 523 < sum * q + sum
    <3>1. w[c] * 523 \in Int /\ sum \in Nat \ {0}
      BY <1>1, <1>7
    <3> QED
      BY <2>1, <3>1, Zenon
  <2> HIDE DEF q
  <2>3. w[c] * 523 >= sum * 174
    BY <1>1, <1>4, <1>7
  <2>4. ASSUME q < 174 PROVE FALSE
    <3>1. 173 - q \in Nat /\ sum * (173 - q) >= 0
      BY <1>1, <1>7, <2>2, <2>4
    <3>2. sum * (173 - q) = sum * 173 - sum * q
      BY <1>1, <2>2
    <3> DEFINE sq == sum * q
    <3>3. sq \in Int /\ w[c] * 523 < sq + sum /\ sum * 173 - sq >= 0
      BY <1>1, <2>2, <3>1, <3>2
    <3> HIDE DEF sq
    <3> QED
      BY <1>1, <1>7, <2>3, <3>3
  <2> QED
    BY <2>2, <2>4 DEF q
<1> QED
  BY <1>1, <1>3, <1>5, <1>6, <1>7

(* Whatever the weights are, those below zero included, the channel with the *)
(* greatest one is granted an equal part of the bandwidth at least, or all    *)
(* it can carry, for any number of pages and any heats, speeds and errors     *)
(* (pipeline.c:107-163, tier.c:96-128).                                      *)
THEOREM GreatestWeightServed == BandwidthSpec => []BusiestIsServed
<1>1. BandwidthInit => BandwidthInv
  <2> SUFFICES ASSUME BandwidthInit PROVE BandwidthInv
    OBVIOUS
  <2> DEFINE NewPages == [channel : Channels, heat : Heats, speed : {0}, compared : {FALSE},
                          ema : {0}, confidence : {500}]
  <2>1. ASSUME NEW page \in NewPages PROVE page \in ServedPages
    <3>1. Heats \subseteq Nat
      BY BandwidthAssumption
    <3>2. page.channel \in Channels /\ page.heat \in Heats
      OBVIOUS
    <3>3. page.speed = 0 /\ page.ema = 0 /\ page.confidence = 500
      OBVIOUS
    <3>4. page.compared \in BOOLEAN
      OBVIOUS
    <3>5. page = [channel |-> page.channel, heat |-> page.heat, speed |-> page.speed,
                  compared |-> page.compared, ema |-> page.ema, confidence |-> page.confidence]
      OBVIOUS
    <3>6. page.heat \in Nat /\ page.speed \in Nat /\ page.ema \in Nat /\ page.confidence \in Nat
      <4>1. \A h \in Heats : h \in Nat
        BY <3>1
      <4> HIDE DEF NewPages
      <4> QED
        BY <3>2, <3>3, <4>1
    <3> HIDE DEF NewPages
    <3> QED
      BY <3>2, <3>4, <3>5, <3>6, Zenon DEF ServedPages
  <2>2. served \in [Pages -> ServedPages]
    BY <2>1 DEF BandwidthInit
  <2> QED
    BY <2>2 DEF BandwidthInit, BandwidthInv
<1>2. BandwidthInv /\ [TickBandwidth]_bandwidthVars => BandwidthInv'
  BY BandwidthStep DEF BandwidthInv, bandwidthVars
<1>3. BandwidthInv => BusiestIsServed
  <2> SUFFICES ASSUME BandwidthInv, NEW c \in Channels, alloc # << >>,
                      \A d \in Channels : weight[d] <= weight[c]
               PROVE  alloc[c] >= Least(BandwidthMax[c], TotalBudget \div Len(BandwidthMax))
    BY DEF BusiestIsServed
  <2>1. alloc[c] = Least(BandwidthMax[c], Budgets(weight)[c])
    BY DEF BandwidthInv, Allocated
  <2>2. /\ Budgets(weight)[c] \in Int
        /\ Budgets(weight)[c] >= TotalBudget \div Len(BandwidthMax)
    BY GreatestShare DEF BandwidthInv
  <2>3. BandwidthMax[c] \in Int /\ TotalBudget \div Len(BandwidthMax) \in Int
    BY ChannelFacts, ChannelSum DEF TotalBudget
  <2> QED
    BY <2>1, <2>2, <2>3 DEF Least
<1> QED
  BY <1>1, <1>2, <1>3, PTL DEF BandwidthSpec
=============================================================================
