----------------------------- MODULE PageTable -----------------------------
(***************************************************************************)
(* The page table of page.c: the array of pages, the bump allocator of     *)
(* virtual addresses, the address map, and the usage that the tiers carry  *)
(* (tier.h), which page_alloc and page_free keep up to date.               *)
(*                                                                         *)
(* A page is found by its id, by a scan of the array; an id is one more    *)
(* than the number of pages at the time of the allocation, and page_free   *)
(* compacts the array.  State vectors, motion and heat are left out: the   *)
(* pipeline's use of them is a choice in Migration.  Addresses and sizes   *)
(* share one unit (KiB in MCMigration).                                    *)
(***************************************************************************)
EXTENDS Integers, Sequences, SequencesExt, FiniteSetsExt

CONSTANTS
    NumTiers,      \* registry->num_tiers
    Capacity,      \* pt->capacity
    MapCapacity,   \* am->capacity
    BaseVaddr,     \* pt->next_vaddr at the start
    PageSize,      \* page size of the address map; a size of 0 means this
    Sizes,         \* sizes asked of page_alloc
    Bursts,        \* numbers of calls of page_access between two ticks
    MaxAccesses,   \* bound on access_count
    MaxVaddr       \* bound on next_vaddr

ASSUME PageTableAssumption ==
    /\ NumTiers \in Nat \ {0}
    /\ Capacity \in Nat /\ MapCapacity \in Nat
    /\ PageSize \in Nat \ {0} /\ BaseVaddr \in Nat
    /\ Sizes \subseteq Nat /\ Bursts \subseteq Nat
    /\ MaxAccesses \in Nat /\ MaxVaddr \in Nat

VARIABLES
    pages,      \* pt->pages[0 .. count-1]
    nextVaddr,  \* pt->next_vaddr
    used,       \* tier->used, per tier
    residents,  \* tier->page_count, per tier
    addrMap     \* am->entries: index -> page id, for the entries present

tableVars == <<pages, nextVaddr, used, residents, addrMap>>

Tiers == 0 .. NumTiers - 1

Page == [id: Nat, size: Nat, tier: Tiers, vaddr: Nat,
         pinned: BOOLEAN, accesses: Nat]

-----------------------------------------------------------------------------
(* Pure operators                                                          *)

SizeOf(asked) == IF asked = 0 THEN PageSize ELSE asked

\* page_find: the place of the first page with this id, 0 for NULL.
Find(id) == SelectInSeq(pages, LAMBDA p: p.id = id)

\* Mutant: page_shift is one too large (while (ps > 0) in addr_map_init).
MapIndexShiftedOnce(vaddr) == vaddr \div (2 * PageSize)

MapIndex(vaddr) == vaddr \div PageSize

\* addr_translate: the place of the page an address maps to, 0 for NULL.
Translate(vaddr) ==
    IF MapIndex(vaddr) \in DOMAIN addrMap THEN Find(addrMap[MapIndex(vaddr)])
                                          ELSE 0

\* Mutant: the test that keeps a counter from going below zero is strict.
LessStrict(count, amount) == IF count > amount THEN count - amount ELSE count

\* Mutant: the operands of the subtraction are swapped.
LessSwapped(count, amount) == IF count >= amount THEN amount - count ELSE count

\* What a tier loses with a page: both counters stop at zero.
Less(count, amount) == IF count >= amount THEN count - amount ELSE count

\* Mutant: a page takes one default page of addresses, whatever its size.
NextFreeFixed(size) == nextVaddr + PageSize

\* The bump allocator of addresses: never taken back.
NextFree(size) == nextVaddr + size

-----------------------------------------------------------------------------
(* Operations of the API                                                   *)

TableInit ==
    /\ pages = <<>>
    /\ nextVaddr = BaseVaddr
    /\ used = [t \in Tiers |-> 0]
    /\ residents = [t \in Tiers |-> 0]
    /\ addrMap = <<>>

\* page_alloc asks the tier for no room: used may pass its capacity.
Alloc(asked, t) ==
    /\ Len(pages) < Capacity
    /\ NextFree(SizeOf(asked)) <= MaxVaddr
    /\ pages' = Append(pages,
          [id |-> Len(pages) + 1, size |-> SizeOf(asked), tier |-> t,
           vaddr |-> nextVaddr, pinned |-> FALSE, accesses |-> 0])
    /\ nextVaddr' = NextFree(SizeOf(asked))
    /\ used' = [used EXCEPT ![t] = @ + SizeOf(asked)]
    /\ residents' = [residents EXCEPT ![t] = @ + 1]
    /\ UNCHANGED addrMap

\* page_free: the address map is not told.
Free(id) ==
    /\ Find(id) # 0
    /\ LET k == Find(id)
           p == pages[k]
       IN  /\ pages' = RemoveAt(pages, k)
           /\ used' = [used EXCEPT ![p.tier] = Less(@, p.size)]
           /\ residents' = [residents EXCEPT ![p.tier] = Less(@, 1)]
    /\ UNCHANGED <<nextVaddr, addrMap>>

\* addr_map_insert: UFTA_ERR_FULL changes nothing, and the entries skipped
\* on the way to the index are not present.
MapInsert(k) ==
    LET i == MapIndex(pages[k].vaddr) IN
    /\ i < MapCapacity
    /\ addrMap' = [j \in DOMAIN addrMap \cup {i} |->
                      IF j = i THEN pages[k].id ELSE addrMap[j]]
    /\ UNCHANGED <<pages, nextVaddr, used, residents>>

\* Calls of page_access.
Access(k, n) ==
    /\ pages[k].accesses + n <= MaxAccesses
    /\ pages' = [pages EXCEPT ![k].accesses = @ + n]
    /\ UNCHANGED <<nextVaddr, used, residents, addrMap>>

\* A caller sets or clears the pinned field (backend_text_read_page does).
SetPinned(k, b) ==
    /\ pages' = [pages EXCEPT ![k].pinned = b]
    /\ UNCHANGED <<nextVaddr, used, residents, addrMap>>

TableNext ==
    \/ \E asked \in Sizes, t \in Tiers: Alloc(asked, t)
    \/ \E id \in 1 .. Capacity: Free(id)
    \/ \E k \in DOMAIN pages: MapInsert(k)
    \/ \E k \in DOMAIN pages, n \in Bursts: Access(k, n)
    \/ \E k \in DOMAIN pages, b \in BOOLEAN: SetPinned(k, b)

-----------------------------------------------------------------------------
(* Properties                                                              *)

IdsUnique == \A j, k \in DOMAIN pages: pages[j].id = pages[k].id => j = k

On(t) == {k \in DOMAIN pages: pages[k].tier = t}

(* The used bytes and the page count of a tier are those of the pages on it, *)
(* through every order of page_alloc, page_free and migrate_execute: the     *)
(* tests that keep the counters from going below zero (page.c:80-83,         *)
(* migrate.c:159-162) never hide a drift.                                    *)
Accounting == \A t \in Tiers:
    /\ used[t] = MapThenSumSet(LAMBDA k: pages[k].size, On(t))
    /\ residents[t] = Cardinality(On(t))

(* Live pages never share an address, and none lies at or past next_vaddr    *)
(* (page.c:37, 63), after any sequence of allocations and frees.             *)
AddressesDisjoint ==
    /\ \A k \in DOMAIN pages: pages[k].vaddr + pages[k].size <= nextVaddr
    /\ \A j, k \in DOMAIN pages:
          j < k => pages[j].vaddr + pages[j].size <= pages[k].vaddr

(* Where ids are unique and no page asked for is smaller than a map page, a  *)
(* mapped live page's address translates to it (addr_translate, page.c:      *)
(* 169-176): frees, moves and other insertions do not disturb its entry.  A  *)
(* smaller page may share the index of a freed one, and its entry.           *)
LiveTranslation ==
    (IdsUnique /\ \A s \in Sizes: SizeOf(s) >= PageSize) =>
        \A k \in DOMAIN pages:
            MapIndex(pages[k].vaddr) \in DOMAIN addrMap
                => Translate(pages[k].vaddr) = k
=============================================================================
