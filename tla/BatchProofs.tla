---------------------------- MODULE BatchProofs ----------------------------
(***************************************************************************)
(* A batch of the fault worker, for every set of page indices, every batch *)
(* size and every cap of a transfer: the insertion sort and the walk over  *)
(* runs handle the requested pages in ascending order, each as often as it *)
(* was requested.                                                          *)
(***************************************************************************)
EXTENDS Batch, Integers, SequenceTheorems, FiniteSetTheorems, TLAPS

\* count
N == Len(request)

-----------------------------------------------------------------------------
(* The inductive invariant                                                 *)

\* A batch, the loop indices, and what has been handled.
BatchTypes ==
    /\ N \in Nat \ {0} /\ request \in [1 .. N -> Pages]
    /\ idx \in [1 .. N -> Pages]
    /\ pc \in {"sort", "shift", "walk", "extend", "resolve", "done"}
    /\ i \in Nat \ {0} /\ j \in Nat \ {0} /\ key \in Nat
    /\ runLen \in Nat /\ k \in Nat

\* s holds the entries of the request in some order.
Rearranged(s) ==
    \E b \in [1 .. N -> 1 .. N] :
        /\ \A x, y \in 1 .. N : b[x] = b[y] => x = y
        /\ \A y \in 1 .. N : \E x \in 1 .. N : b[x] = y
        /\ \A x \in 1 .. N : s[x] = request[b[x]]

\* The array with the key put back where the sort has its hole.
Whole == IF pc = "shift" THEN [idx EXCEPT ![j] = key] ELSE idx

\* The first h entries of a sorted array, but for the hole.
Ascending(h) ==
    \A x, y \in 1 .. N : x < y /\ y <= h /\ (pc = "shift" => x # j /\ y # j)
        => idx[x] <= idx[y]

\* worker.c:165-173: the entries up to i - 1 are sorted; while the key is out,
\* those after the hole are larger than it.
SortInv ==
    /\ pc = "sort" => i <= N + 1 /\ Ascending(i - 1)
    /\ pc = "shift" =>
          /\ i <= N /\ j <= i /\ Ascending(i)
          /\ \A y \in 1 .. N : j < y /\ y <= i => key < idx[y]
    /\ pc \in {"walk", "extend", "resolve", "done"} => Ascending(N)

\* The first h entries of the sorted array are what was handled.
HandledUpTo(h) ==
    /\ Len(handled) = h /\ h <= N
    /\ \A x \in 1 .. h : handled[x] = idx[x]

\* pagefault.c:208-297: a run is runLen consecutive pages of the array, and
\* what was handled is the part of the array before it.
WalkInv ==
    /\ handled \in Seq(Pages)
    /\ pc \in {"sort", "shift"} => HandledUpTo(0)
    /\ pc \in {"walk", "extend"} => HandledUpTo(i - 1)
    /\ pc = "resolve" => k <= runLen /\ HandledUpTo(i - 1 + k)
    /\ pc = "done" => HandledUpTo(N)
    /\ pc \in {"extend", "resolve"} =>
          /\ runLen >= 1 /\ runLen <= MaxRun /\ i + runLen - 1 <= N
          /\ \A x \in 0 .. runLen - 1 : idx[i + x] = key + x
    /\ pc = "resolve" => runLen = MaxRun \/ i + runLen > N
                           \/ idx[i + runLen] # key + runLen

\* The invariant of a batch.
BatchInv == BatchTypes /\ Rearranged(Whole) /\ SortInv /\ WalkInv

-----------------------------------------------------------------------------
(* The sort.                                                               *)

\* A drained batch, before the sort.
LEMMA BatchInit == Init => BatchInv
<1> SUFFICES ASSUME Init PROVE BatchInv
  OBVIOUS
<1>1. PICK n \in 1 .. MaxBatch : request \in [1 .. n -> Pages]
  BY DEF Init
<1>2. N = n /\ n \in Nat \ {0}
  BY <1>1, BatchAssumption DEF N
<1>3. BatchTypes
  BY <1>1, <1>2 DEF BatchTypes, Init
<1>4. Rearranged(Whole)
  <2> DEFINE b == [x \in 1 .. N |-> x]
  <2>1. Whole = request
    BY DEF Whole, Init
  <2>2. b \in [1 .. N -> 1 .. N] /\ \A x \in 1 .. N : b[x] = x
    OBVIOUS
  <2> HIDE DEF b
  <2> QED
    BY <2>1, <2>2 DEF Rearranged
<1>5. SortInv
  BY <1>2 DEF SortInv, Ascending, Init
<1>6. WalkInv
  BY <1>2, BatchAssumption DEF WalkInv, HandledUpTo, Init
<1> QED
  BY <1>3, <1>4, <1>5, <1>6 DEF BatchInv

\* The array of the batch, entry by entry.
LEMMA BatchArray ==
    ASSUME BatchTypes
    PROVE  /\ Len(idx) = N /\ DOMAIN idx = 1 .. N
           /\ \A x \in 1 .. N : idx[x] \in Pages /\ idx[x] \in Nat
<1>1. idx \in [1 .. N -> Pages] /\ N \in Nat
  BY DEF BatchTypes
<1>2. idx \in Seq(Pages)
  BY <1>1, SeqDef
<1>3. Len(idx) \in Nat /\ 1 .. Len(idx) = 1 .. N
  BY <1>1, <1>2, LenProperties
<1>4. Len(idx) = N
  BY <1>1, <1>3
<1>5. \A x \in 1 .. N : idx[x] \in Pages
  BY <1>1
<1> QED
  BY <1>1, <1>4, <1>5, BatchAssumption

\* Two entries of the array change places.
LEMMA Exchanged ==
    ASSUME N \in Nat, NEW s, Rearranged(s), NEW a \in 1 .. N, NEW c \in 1 .. N, NEW t,
           \A x \in 1 .. N : t[x] = IF x = a THEN s[c] ELSE IF x = c THEN s[a] ELSE s[x]
    PROVE  Rearranged(t)
<1>1. PICK b \in [1 .. N -> 1 .. N] :
         /\ \A x, y \in 1 .. N : b[x] = b[y] => x = y
         /\ \A y \in 1 .. N : \E x \in 1 .. N : b[x] = y
         /\ \A x \in 1 .. N : s[x] = request[b[x]]
  BY DEF Rearranged
<1> DEFINE d == [x \in 1 .. N |-> IF x = a THEN b[c] ELSE IF x = c THEN b[a] ELSE b[x]]
<1>2. /\ d \in [1 .. N -> 1 .. N]
      /\ \A x \in 1 .. N : d[x] = IF x = a THEN b[c] ELSE IF x = c THEN b[a] ELSE b[x]
  OBVIOUS
<1> HIDE DEF d
<1>3. ASSUME NEW x \in 1 .. N, NEW y \in 1 .. N, d[x] = d[y] PROVE x = y
  <2> DEFINE z(m) == IF m = a THEN c ELSE IF m = c THEN a ELSE m
  <2>1. z(x) \in 1 .. N /\ z(y) \in 1 .. N /\ d[x] = b[z(x)] /\ d[y] = b[z(y)]
    BY <1>2
  <2>2. z(x) = z(y)
    <3> HIDE DEF z
    <3> QED
      BY <1>1, <1>3, <2>1
  <2> QED
    BY <2>2
<1>4. ASSUME NEW y \in 1 .. N PROVE \E x \in 1 .. N : d[x] = y
  <2>1. PICK x \in 1 .. N : b[x] = y
    BY <1>1
  <2>2. d[IF x = a THEN c ELSE IF x = c THEN a ELSE x] = y
    BY <1>2, <2>1
  <2> QED
    BY <2>2
<1>5. ASSUME NEW x \in 1 .. N PROVE t[x] = request[d[x]]
  <2>1. s[a] = request[b[a]] /\ s[c] = request[b[c]] /\ s[x] = request[b[x]]
    BY <1>1
  <2>2. d[x] = IF x = a THEN b[c] ELSE IF x = c THEN b[a] ELSE b[x]
    BY <1>2
  <2>3. t[x] = IF x = a THEN s[c] ELSE IF x = c THEN s[a] ELSE s[x]
    OBVIOUS
  <2> QED
    BY <2>1, <2>2, <2>3, Zenon
<1> QED
  BY <1>2, <1>3, <1>4, <1>5 DEF Rearranged

\* The steps keep the types.
LEMMA BatchTypesStep ==
    ASSUME BatchInv, [Next]_vars
    PROVE  BatchTypes' /\ N' = N /\ request' = request
<1> USE DEF BatchTypes
<1>1. BatchTypes /\ request' = request /\ N' = N
  BY DEF BatchInv, Next, vars, N, TakeKey, Shift, Place, SortDone, StartRun, Extend, RunFound,
         Resolve, EndRun, Return
<1>2. Len(idx) = N /\ DOMAIN idx = 1 .. N /\ \A x \in 1 .. N : idx[x] \in Pages /\ idx[x] \in Nat
  BY <1>1, BatchArray
<1>3. TakeKey => BatchTypes'
  BY <1>1, <1>2 DEF TakeKey
<1>4. Shift => BatchTypes'
  <2> SUFFICES ASSUME Shift PROVE BatchTypes'
    OBVIOUS
  <2>1. j \in 2 .. N
    BY <1>1 DEF BatchInv, SortInv, Shift, MustShift
  <2>2. idx' \in [1 .. N -> Pages]
    BY <1>1, <1>2, <2>1 DEF Shift
  <2> QED
    BY <1>1, <2>1, <2>2 DEF Shift
<1>5. Place => BatchTypes'
  <2> SUFFICES ASSUME Place PROVE BatchTypes'
    OBVIOUS
  <2>1. Whole = [idx EXCEPT ![j] = key] /\ j \in 1 .. N
    BY <1>1 DEF BatchInv, SortInv, Place, Whole
  <2>2. key \in Pages
    <3>1. Whole[j] = key
      BY <1>1, <2>1
    <3>2. \A x \in 1 .. N : Whole[x] \in Pages
      <4>1. PICK b \in [1 .. N -> 1 .. N] : \A x \in 1 .. N : Whole[x] = request[b[x]]
        BY Zenon DEF BatchInv, Rearranged
      <4>2. \A x \in 1 .. N : request[b[x]] \in Pages
        BY <1>1
      <4> HIDE DEF Whole
      <4> QED
        BY <4>1, <4>2
    <3> QED
      BY <2>1, <3>1, <3>2
  <2>3. idx' \in [1 .. N -> Pages]
    BY <1>1, <2>1, <2>2 DEF Place
  <2> QED
    BY <1>1, <2>3 DEF Place
<1>6. SortDone \/ Extend \/ RunFound \/ Resolve \/ EndRun \/ Return \/ UNCHANGED vars
         => BatchTypes'
  <2>1. EndRun => i' \in Nat \ {0}
    BY <1>1 DEF EndRun
  <2> QED
    BY <1>1, <2>1 DEF SortDone, Extend, RunFound, Resolve, EndRun, Return, vars
<1>7. StartRun => BatchTypes'
  BY <1>1, <1>2 DEF StartRun
<1> QED
  BY <1>1, <1>3, <1>4, <1>5, <1>6, <1>7 DEF Next

\* The sort loses no entry of the batch and adds none.
LEMMA RearrangedStep ==
    ASSUME BatchInv, [Next]_vars
    PROVE  Rearranged(Whole)'
<1>1. BatchTypes /\ request' = request /\ N' = N /\ Rearranged(Whole)
  BY BatchTypesStep DEF BatchInv
<1>2. ASSUME NEW t, Whole' = t, Rearranged(t) PROVE Rearranged(Whole)'
  <2> HIDE DEF Whole
  <2>1. PICK b \in [1 .. N -> 1 .. N] :
           /\ \A x, y \in 1 .. N : b[x] = b[y] => x = y
           /\ \A y \in 1 .. N : \E x \in 1 .. N : b[x] = y
           /\ \A x \in 1 .. N : t[x] = request[b[x]]
    BY <1>2 DEF Rearranged
  <2>2. /\ b \in [1 .. N' -> 1 .. N']
        /\ \A x, y \in 1 .. N' : b[x] = b[y] => x = y
        /\ \A y \in 1 .. N' : \E x \in 1 .. N' : b[x] = y
        /\ \A x \in 1 .. N' : Whole'[x] = request'[b[x]]
    BY <1>1, <1>2, <2>1
  <2> QED
    BY <2>2 DEF Rearranged
<1>3. Len(idx) = N /\ DOMAIN idx = 1 .. N
  BY <1>1, BatchArray
<1>4. CASE TakeKey
  <2>1. Whole' = [idx EXCEPT ![i] = idx[i]] /\ Whole = idx
    BY <1>4 DEF TakeKey, Whole
  <2>2. Whole' = Whole
    BY <1>1, <2>1 DEF BatchTypes
  <2> QED
    BY <1>1, <1>2, <2>2
<1>5. CASE Shift
  <2>1. /\ Whole = [idx EXCEPT ![j] = key]
        /\ Whole' = [[idx EXCEPT ![j] = idx[j - 1]] EXCEPT ![j - 1] = key]
    BY <1>5 DEF Shift, Whole
  <2>2. j \in 1 .. N /\ j - 1 \in 1 .. N
    BY <1>1, <1>5 DEF BatchInv, BatchTypes, SortInv, Shift, MustShift
  <2>3. \A x \in 1 .. N :
           Whole'[x] = IF x = j THEN Whole[j - 1] ELSE IF x = j - 1 THEN Whole[j] ELSE Whole[x]
    BY <1>3, <2>1, <2>2
  <2>4. N \in Nat
    BY <1>1 DEF BatchTypes
  <2> HIDE DEF Whole
  <2> QED
    BY <1>1, <1>2, <2>2, <2>3, <2>4, Exchanged
<1>6. CASE Place
  <2>1. Whole' = Whole
    BY <1>6 DEF Place, Whole
  <2> QED
    BY <1>1, <1>2, <2>1
<1>7. CASE \/ SortDone \/ StartRun \/ Extend \/ RunFound \/ Resolve \/ EndRun \/ Return
           \/ UNCHANGED vars
  <2>1. Whole' = Whole
    BY <1>7 DEF SortDone, StartRun, Extend, RunFound, Resolve, EndRun, Return, vars, Whole
  <2> QED
    BY <1>1, <1>2, <2>1
<1> QED
  BY <1>4, <1>5, <1>6, <1>7 DEF Next

\* The entries before the one being placed stay in ascending order.
LEMMA SortStep ==
    ASSUME BatchInv, [Next]_vars
    PROVE  SortInv'
<1>1. BatchTypes /\ BatchTypes' /\ N' = N /\ SortInv
  BY BatchTypesStep DEF BatchInv
<1>2. /\ N \in Nat \ {0} /\ Len(idx) = N /\ DOMAIN idx = 1 .. N
      /\ i \in Nat \ {0} /\ j \in Nat \ {0} /\ key \in Nat
      /\ \A x \in 1 .. N : idx[x] \in Nat
  BY <1>1, BatchArray DEF BatchTypes
<1>3. CASE TakeKey
  <2>1. /\ pc = "sort" /\ pc' = "shift" /\ i <= N /\ i' = i /\ j' = i
        /\ key' = idx[i] /\ idx' = idx /\ Ascending(i - 1)
    BY <1>1, <1>2, <1>3 DEF TakeKey, SortInv
  <2>2. Ascending(i)'
    BY <1>1, <1>2, <2>1 DEF Ascending
  <2> QED
    BY <1>1, <1>2, <2>1, <2>2 DEF SortInv
<1>4. CASE Shift
  <2>1. /\ pc = "shift" /\ pc' = "shift" /\ i <= N /\ i' = i /\ j \in 2 .. i /\ j' = j - 1
        /\ key' = key /\ idx' = [idx EXCEPT ![j] = idx[j - 1]] /\ idx[j - 1] > key
        /\ Ascending(i) /\ \A y \in 1 .. N : j < y /\ y <= i => key < idx[y]
    BY <1>1, <1>2, <1>4 DEF Shift, MustShift, SortInv
  <2>2. \A x \in 1 .. N : idx'[x] = IF x = j THEN idx[j - 1] ELSE idx[x]
    BY <1>2, <2>1
  <2>3. ASSUME NEW y \in 1 .. N, j' < y, y <= i PROVE key < idx'[y]
    BY <1>2, <2>1, <2>2, <2>3
  <2>4. ASSUME NEW x \in 1 .. N, NEW y \in 1 .. N, x < y, y <= i, x # j - 1, y # j - 1
        PROVE  idx'[x] <= idx'[y]
    <3>0. \A u, v \in 1 .. N : u < v /\ v <= i /\ u # j /\ v # j => idx[u] <= idx[v]
      BY <2>1 DEF Ascending
    <3>1. CASE x = j
      BY <1>2, <2>1, <2>2, <2>4, <3>0, <3>1
    <3>2. CASE y = j
      BY <1>2, <2>1, <2>2, <2>4, <3>0, <3>2
    <3>3. CASE x # j /\ y # j
      BY <1>2, <2>1, <2>2, <2>4, <3>0, <3>3
    <3> QED
      BY <3>1, <3>2, <3>3
  <2>5. Ascending(i)'
    BY <1>1, <1>2, <2>1, <2>4 DEF Ascending
  <2> QED
    BY <1>1, <1>2, <2>1, <2>3, <2>5 DEF SortInv
<1>5. CASE Place
  <2>1. /\ pc = "shift" /\ pc' = "sort" /\ i <= N /\ i' = i + 1 /\ j \in 1 .. i
        /\ idx' = [idx EXCEPT ![j] = key] /\ (j = 1 \/ idx[j - 1] <= key)
        /\ Ascending(i) /\ \A y \in 1 .. N : j < y /\ y <= i => key < idx[y]
    BY <1>1, <1>2, <1>5 DEF Place, MustShift, SortInv
  <2>2. \A x \in 1 .. N : idx'[x] = IF x = j THEN key ELSE idx[x]
    BY <1>2, <2>1
  <2>3. ASSUME NEW x \in 1 .. N, NEW y \in 1 .. N, x < y, y <= i
        PROVE  idx'[x] <= idx'[y]
    <3>0. \A u, v \in 1 .. N : u < v /\ v <= i /\ u # j /\ v # j => idx[u] <= idx[v]
      BY <2>1 DEF Ascending
    <3>1. CASE x = j
      BY <1>2, <2>1, <2>2, <2>3, <3>1
    <3>2. CASE y = j
      <4>1. idx[j - 1] <= key /\ j - 1 \in 1 .. N /\ x <= j - 1
        BY <1>2, <2>1, <2>3, <3>2
      <4>2. idx[x] <= idx[j - 1]
        <5>1. CASE x = j - 1
          BY <1>2, <4>1, <5>1
        <5>2. CASE x < j - 1
          BY <1>2, <2>1, <3>0, <4>1, <5>2
        <5> QED
          BY <1>2, <4>1, <5>1, <5>2
      <4> QED
        BY <1>2, <2>1, <2>2, <2>3, <3>2, <4>1, <4>2
    <3>3. CASE x # j /\ y # j
      BY <1>2, <2>1, <2>2, <2>3, <3>0, <3>3
    <3> QED
      BY <3>1, <3>2, <3>3
  <2>4. Ascending(i - 1)'
    BY <1>1, <1>2, <2>1, <2>3 DEF Ascending
  <2> QED
    BY <1>1, <1>2, <2>1, <2>4 DEF SortInv
<1>6. CASE SortDone
  <2>1. pc = "sort" /\ pc' = "walk" /\ i = N + 1 /\ idx' = idx /\ Ascending(i - 1)
    BY <1>1, <1>2, <1>6 DEF SortDone, SortInv
  <2>2. Ascending(N)'
    BY <1>1, <1>2, <2>1 DEF Ascending
  <2> QED
    BY <2>1, <2>2 DEF SortInv
<1>7. CASE StartRun \/ Extend \/ RunFound \/ Resolve \/ EndRun \/ Return
  <2>1. /\ pc \in {"walk", "extend", "resolve"} /\ pc' \in {"walk", "extend", "resolve", "done"}
        /\ idx' = idx /\ Ascending(N)
    BY <1>1, <1>7 DEF StartRun, Extend, RunFound, Resolve, EndRun, Return, SortInv
  <2>2. Ascending(N)'
    BY <1>1, <1>2, <2>1 DEF Ascending
  <2> QED
    BY <2>1, <2>2 DEF SortInv
<1>8. CASE UNCHANGED vars
  BY <1>1, <1>8 DEF vars, SortInv, Ascending
<1> QED
  BY <1>3, <1>4, <1>5, <1>6, <1>7, <1>8 DEF Next

-----------------------------------------------------------------------------
(* The walk.                                                               *)

\* Resolving the pages of a run handles the next entry of the sorted array.
LEMMA ResolveHandlesNext ==
    ASSUME BatchInv, Resolve
    PROVE  LET h == Len(handled) IN
           /\ h \in Nat /\ h = i - 1 + k /\ h + 1 \in 1 .. N
           /\ \A x \in 1 .. h : handled[x] = idx[x]
           /\ key + k = idx[h + 1] /\ key + k \in Pages
           /\ handled' = Append(handled, idx[h + 1])
<1>1. BatchTypes /\ WalkInv /\ N \in Nat
  BY DEF BatchInv, BatchTypes
<1>2. /\ i \in Nat \ {0} /\ k \in Nat /\ runLen \in Nat /\ key \in Nat
      /\ k < runLen /\ i + runLen - 1 <= N /\ HandledUpTo(i - 1 + k)
      /\ \A x \in 0 .. runLen - 1 : idx[i + x] = key + x
      /\ handled' = Append(handled, key + k)
  BY <1>1 DEF Resolve, BatchTypes, WalkInv
<1> DEFINE h == Len(handled)
<1>3. h = i - 1 + k /\ \A x \in 1 .. h : handled[x] = idx[x]
  BY <1>2 DEF HandledUpTo
<1>4. h \in Nat /\ h + 1 = i + k /\ h + 1 \in 1 .. N
  BY <1>1, <1>2, <1>3
<1>5. idx[i + k] = key + k
  BY <1>2
<1>6. idx[h + 1] \in Pages
  BY <1>1, <1>4, BatchArray
<1> QED
  BY <1>2, <1>3, <1>4, <1>5, <1>6

\* The walk keeps its place in the sorted array.
LEMMA WalkStep ==
    ASSUME BatchInv, [Next]_vars
    PROVE  WalkInv'
<1>1. BatchTypes /\ BatchTypes' /\ N' = N /\ WalkInv
  BY BatchTypesStep DEF BatchInv
<1>2. /\ N \in Nat \ {0} /\ Len(idx) = N /\ i \in Nat \ {0} /\ k \in Nat /\ runLen \in Nat
      /\ key \in Nat /\ \A x \in 1 .. N : idx[x] \in Nat
  BY <1>1, BatchArray DEF BatchTypes
<1>3. CASE TakeKey \/ Shift \/ Place \/ SortDone
  <2>1. /\ pc \in {"sort", "shift"} /\ handled' = handled
        /\ pc' \in {"sort", "shift"} \/ (pc' = "walk" /\ i' = 1)
    BY <1>3 DEF TakeKey, Shift, Place, SortDone
  <2>2. handled \in Seq(Pages) /\ Len(handled) = 0
    BY <1>1, <2>1 DEF WalkInv, HandledUpTo
  <2>3. HandledUpTo(0)'
    BY <1>1, <1>2, <2>1, <2>2 DEF HandledUpTo
  <2>4. pc' = "walk" => HandledUpTo(i - 1)'
    BY <2>1, <2>3 DEF HandledUpTo
  <2> QED
    BY <2>1, <2>2, <2>3, <2>4 DEF WalkInv
<1>4. CASE StartRun
  <2>1. /\ pc = "walk" /\ pc' = "extend" /\ i' = i /\ i <= N /\ idx' = idx
        /\ handled' = handled /\ key' = idx[i] /\ runLen' = 1
    BY <1>2, <1>4 DEF StartRun
  <2>2. handled \in Seq(Pages) /\ HandledUpTo(i - 1)
    BY <1>1, <2>1 DEF WalkInv
  <2>3. HandledUpTo(i - 1)'
    BY <1>1, <2>1, <2>2 DEF HandledUpTo
  <2>4. /\ runLen' >= 1 /\ runLen' <= MaxRun /\ i' + runLen' - 1 <= N'
        /\ \A x \in 0 .. runLen' - 1 : idx'[i' + x] = key' + x
    BY <1>1, <1>2, <2>1, BatchAssumption
  <2> QED
    BY <2>1, <2>2, <2>3, <2>4 DEF WalkInv
<1>5. CASE Extend
  <2>1. /\ pc = "extend" /\ pc' = "extend" /\ i' = i /\ idx' = idx /\ key' = key
        /\ handled' = handled /\ runLen' = runLen + 1
        /\ i + runLen <= N /\ idx[i + runLen] = key + runLen /\ runLen + 1 <= MaxRun
    BY <1>2, <1>5 DEF Extend, Extends
  <2>2. /\ handled \in Seq(Pages) /\ HandledUpTo(i - 1) /\ runLen >= 1
        /\ \A x \in 0 .. runLen - 1 : idx[i + x] = key + x
    BY <1>1, <2>1 DEF WalkInv
  <2>3. HandledUpTo(i - 1)'
    BY <1>1, <2>1, <2>2 DEF HandledUpTo
  <2>4. \A x \in 0 .. runLen' - 1 : idx'[i' + x] = key' + x
    <3>1. ASSUME NEW x \in 0 .. runLen PROVE idx[i + x] = key + x
      <4>1. x \in 0 .. runLen - 1 \/ x = runLen
        BY <1>2
      <4> QED
        BY <2>1, <2>2, <4>1
    <3>2. runLen' - 1 = runLen
      BY <1>2, <2>1
    <3> QED
      BY <2>1, <3>1, <3>2
  <2>5. runLen' >= 1 /\ runLen' <= MaxRun /\ i' + runLen' - 1 <= N'
    BY <1>1, <1>2, <2>1, <2>2
  <2> QED
    BY <2>1, <2>2, <2>3, <2>4, <2>5 DEF WalkInv
<1>6. CASE RunFound
  <2>1. /\ pc = "extend" /\ pc' = "resolve" /\ k' = 0
        /\ UNCHANGED <<i, idx, key, handled, runLen>> /\ ~Extends
    BY <1>6 DEF RunFound
  <2>2. /\ handled \in Seq(Pages) /\ HandledUpTo(i - 1) /\ runLen >= 1
        /\ runLen <= MaxRun /\ i + runLen - 1 <= N
        /\ \A x \in 0 .. runLen - 1 : idx[i + x] = key + x
    BY <1>1, <2>1 DEF WalkInv
  <2>3. i - 1 + 0 = i - 1
    BY <1>2
  <2>4. HandledUpTo(i - 1 + k)'
    BY <1>1, <2>1, <2>2, <2>3 DEF HandledUpTo
  <2>5. runLen = MaxRun \/ i + runLen > N \/ idx[i + runLen] # key + runLen
    BY <1>2, <2>1, <2>2, BatchAssumption DEF Extends
  <2> QED
    BY <1>1, <1>2, <2>1, <2>2, <2>4, <2>5 DEF WalkInv
<1>7. CASE Resolve
  <2> DEFINE h == Len(handled)
  <2>1. /\ h \in Nat /\ h = i - 1 + k /\ h + 1 \in 1 .. N /\ idx[h + 1] \in Pages
        /\ \A x \in 1 .. h : handled[x] = idx[x]
        /\ handled' = Append(handled, idx[h + 1])
    BY <1>1, <1>7, ResolveHandlesNext
  <2>2. /\ pc = "resolve" /\ pc' = "resolve" /\ k' = k + 1 /\ k < runLen
        /\ UNCHANGED <<i, idx, key, runLen>>
    BY <1>7 DEF Resolve
  <2>3. /\ handled \in Seq(Pages) /\ runLen >= 1 /\ runLen <= MaxRun /\ i + runLen - 1 <= N
        /\ \A x \in 0 .. runLen - 1 : idx[i + x] = key + x
        /\ runLen = MaxRun \/ i + runLen > N \/ idx[i + runLen] # key + runLen
    BY <1>1, <2>2 DEF WalkInv
  <2>4. /\ handled' \in Seq(Pages) /\ Len(handled') = h + 1
        /\ \A x \in 1 .. h + 1 : handled'[x] = idx[x]
    BY <2>1, <2>3
  <2>5. i' - 1 + k' = h + 1 /\ k' <= runLen'
    BY <1>2, <2>1, <2>2
  <2>6. HandledUpTo(i - 1 + k)'
    BY <1>1, <2>1, <2>2, <2>4, <2>5 DEF HandledUpTo
  <2> QED
    BY <1>1, <2>2, <2>3, <2>4, <2>5, <2>6 DEF WalkInv
<1>8. CASE EndRun
  <2>1. /\ pc = "resolve" /\ pc' = "walk" /\ i' = i + runLen /\ k >= runLen
        /\ handled' = handled /\ idx' = idx
    BY <1>8 DEF EndRun
  <2>2. handled \in Seq(Pages) /\ HandledUpTo(i - 1 + k) /\ k <= runLen
    BY <1>1, <2>1 DEF WalkInv
  <2>3. i' - 1 = i - 1 + k
    BY <1>2, <2>1, <2>2
  <2>4. HandledUpTo(i - 1)'
    BY <1>1, <2>1, <2>2, <2>3 DEF HandledUpTo
  <2> QED
    BY <2>1, <2>2, <2>4 DEF WalkInv
<1>9. CASE Return
  <2>1. pc = "walk" /\ pc' = "done" /\ i > N /\ handled' = handled /\ idx' = idx
    BY <1>2, <1>9 DEF Return
  <2>2. handled \in Seq(Pages) /\ HandledUpTo(i - 1)
    BY <1>1, <2>1 DEF WalkInv
  <2>3. i - 1 = N
    BY <1>2, <2>1, <2>2 DEF HandledUpTo
  <2>4. HandledUpTo(N)'
    BY <1>1, <2>1, <2>2, <2>3 DEF HandledUpTo
  <2> QED
    BY <2>1, <2>2, <2>4 DEF WalkInv
<1>10. CASE UNCHANGED vars
  BY <1>1, <1>10 DEF vars, WalkInv, HandledUpTo
<1> QED
  BY <1>3, <1>4, <1>5, <1>6, <1>7, <1>8, <1>9, <1>10 DEF Next

\* The invariant holds throughout.
LEMMA BatchInvariant == Spec => []BatchInv
<1>1. BatchInv /\ [Next]_vars => BatchInv'
  BY BatchTypesStep, RearrangedStep, SortStep, WalkStep DEF BatchInv
<1> QED
  BY <1>1, BatchInit, PTL DEF Spec

(* No run passes the cap of one transfer, and none ends before the cap but   *)
(* at a gap, a repeated page or the end of the batch (pagefault.c:216-220),  *)
(* for every batch and every cap.                                            *)
THEOREM RunsAreMaximal == Spec => []RunsCapped
<1>1. BatchInv => RunsCapped
  <2> SUFFICES ASSUME BatchInv, pc = "resolve"
               PROVE  /\ runLen <= MaxRun
                      /\ runLen = MaxRun \/ i + runLen > Len(idx)
                           \/ idx[i + runLen] # idx[i + runLen - 1] + 1
    BY DEF RunsCapped
  <2>1. BatchTypes /\ WalkInv /\ Len(idx) = N
    BY BatchArray DEF BatchInv
  <2>2. /\ runLen >= 1 /\ runLen <= MaxRun
        /\ \A x \in 0 .. runLen - 1 : idx[i + x] = key + x
        /\ runLen = MaxRun \/ i + runLen > N \/ idx[i + runLen] # key + runLen
    BY <2>1 DEF WalkInv
  <2>3. i \in Nat /\ runLen \in Nat /\ key \in Nat
    BY <2>1 DEF BatchTypes
  <2>4. idx[i + (runLen - 1)] = key + (runLen - 1)
    BY <2>2, <2>3
  <2>5. i + (runLen - 1) = i + runLen - 1 /\ key + (runLen - 1) + 1 = key + runLen
    BY <2>3
  <2> QED
    BY <2>1, <2>2, <2>4, <2>5
<1> QED
  BY <1>1, BatchInvariant, PTL

-----------------------------------------------------------------------------
(* The promise of the batch.                                               *)

\* As many entries of the array as of the request are p.
LEMMA SameCounts ==
    ASSUME N \in Nat, NEW s, DOMAIN s = 1 .. N, DOMAIN request = 1 .. N, Rearranged(s), NEW p
    PROVE  Count(s, p) = Count(request, p)
<1>1. PICK b \in [1 .. N -> 1 .. N] :
         /\ \A x, y \in 1 .. N : b[x] = b[y] => x = y
         /\ \A y \in 1 .. N : \E x \in 1 .. N : b[x] = y
         /\ \A x \in 1 .. N : s[x] = request[b[x]]
  BY DEF Rearranged
<1> DEFINE S == {x \in 1 .. N : s[x] = p}
           T == {x \in 1 .. N : request[x] = p}
           g == [x \in S |-> b[x]]
<1>2. IsFiniteSet(S)
  BY FS_Interval, FS_Subset
<1>3. g \in Bijection(S, T)
  <2>1. \A x \in S : b[x] \in T
    BY <1>1
  <2>2. \A y \in T : \E x \in S : b[x] = y
    BY <1>1
  <2>3. \A x, y \in S : b[x] = b[y] => x = y
    BY <1>1
  <2> HIDE DEF S, T
  <2> QED
    BY <2>1, <2>2, <2>3 DEF Bijection, Injection, Surjection, IsInjective
<1>4. Cardinality(S) = Cardinality(T)
  <2> HIDE DEF S, T, g
  <2>1. ExistsBijection(S, T)
    BY <1>3 DEF ExistsBijection
  <2> QED
    BY <1>2, <2>1, FS_Bijection
<1> QED
  BY <1>4 DEF Count

\* An entry more counts for its own page.
LEMMA CountAppend ==
    ASSUME NEW s \in Seq(Pages), NEW q \in Pages, NEW p
    PROVE  /\ Count(s, p) \in Nat
           /\ Count(Append(s, q), p) = Count(s, p) + (IF p = q THEN 1 ELSE 0)
<1> DEFINE h == Len(s)
           S == {x \in 1 .. h : s[x] = p}
           t == Append(s, q)
<1>1. h \in Nat /\ DOMAIN s = 1 .. h
  BY LenProperties
<1>2. /\ DOMAIN t = 1 .. h + 1 /\ t[h + 1] = q
      /\ \A x \in 1 .. h : t[x] = s[x]
  BY <1>1
<1>3. IsFiniteSet(S) /\ Cardinality(S) \in Nat /\ h + 1 \notin S
  <2>1. IsFiniteSet(1 .. h)
    BY <1>1, FS_Interval
  <2>2. S \in SUBSET (1 .. h) /\ h + 1 \notin S
    BY <1>1
  <2> HIDE DEF S
  <2>3. IsFiniteSet(S)
    BY <2>1, <2>2, FS_Subset
  <2> QED
    BY <2>2, <2>3, FS_CardinalityType
<1>4. Count(s, p) = Cardinality(S)
  BY <1>1 DEF Count
<1> HIDE DEF t
<1>5. {x \in DOMAIN t : t[x] = p} = IF p = q THEN S \cup {h + 1} ELSE S
  BY <1>1, <1>2
<1> HIDE DEF S
<1>6. Cardinality(S \cup {h + 1}) = Cardinality(S) + 1
  BY <1>3, FS_AddElement
<1>7. Count(t, p) = Cardinality(IF p = q THEN S \cup {h + 1} ELSE S)
  BY <1>5 DEF Count
<1>8. Count(t, p) = Count(s, p) + (IF p = q THEN 1 ELSE 0)
  BY <1>3, <1>4, <1>6, <1>7
<1> QED
  BY <1>3, <1>4, <1>8 DEF t

\* The page resolved is the lowest of those still requested.
LEMMA NextIsLowest ==
    ASSUME BatchInv, pc # "shift", NEW h \in Nat, h = Len(handled), h + 1 \in 1 .. N,
           \A x \in 1 .. h : handled[x] = idx[x],
           \A x, y \in 1 .. N : x < y => idx[x] <= idx[y]
    PROVE  /\ Count(request, idx[h + 1]) > Count(handled, idx[h + 1])
           /\ \A q \in Pages : q < idx[h + 1] => Count(request, q) = Count(handled, q)
<1> DEFINE S(p) == {x \in 1 .. N : idx[x] = p}
           T(p) == {x \in 1 .. h : idx[x] = p}
<1>1. BatchTypes /\ WalkInv /\ N \in Nat
  BY DEF BatchInv, BatchTypes
<1>2. DOMAIN idx = 1 .. N /\ DOMAIN request = 1 .. N /\ \A x \in 1 .. N : idx[x] \in Nat
  BY <1>1, BatchArray DEF BatchTypes
<1>3. DOMAIN handled = 1 .. h
  BY <1>1, LenProperties DEF WalkInv
<1>4. ASSUME NEW p PROVE Count(request, p) = Cardinality(S(p))
  <2>1. Rearranged(idx)
    BY DEF BatchInv, Whole
  <2>2. Count(request, p) = Count(idx, p)
    BY <1>1, <1>2, <2>1, SameCounts
  <2> QED
    BY <1>2, <2>2 DEF Count
<1>5. ASSUME NEW p PROVE Count(handled, p) = Cardinality(T(p))
  <2>1. {x \in DOMAIN handled : handled[x] = p} = T(p)
    BY <1>3
  <2> QED
    BY <2>1 DEF Count
<1>6. ASSUME NEW p PROVE IsFiniteSet(S(p)) /\ T(p) \subseteq S(p)
  <2>1. IsFiniteSet(1 .. N)
    BY <1>1, FS_Interval
  <2>2. S(p) \in SUBSET (1 .. N) /\ T(p) \subseteq S(p)
    BY <1>1
  <2> HIDE DEF S
  <2> QED
    BY <2>1, <2>2, FS_Subset
<1>7. T(idx[h + 1]) # S(idx[h + 1])
  <2>1. h + 1 \in S(idx[h + 1]) /\ h + 1 \notin T(idx[h + 1])
    OBVIOUS
  <2> QED
    BY <2>1
<1>8. ASSUME NEW q \in Pages, q < idx[h + 1] PROVE T(q) = S(q)
  <2>1. ASSUME NEW x \in S(q) PROVE x \in 1 .. h
    <3>1. x \in 1 .. N /\ idx[x] = q /\ idx[h + 1] \in Nat /\ q \in Nat
      BY <1>2
    <3>2. ~ (x >= h + 1)
      BY <1>8, <3>1
    <3> QED
      BY <3>1, <3>2
  <2> QED
    BY <1>6, <2>1
<1> HIDE DEF S, T
<1>9. Cardinality(T(idx[h + 1])) < Cardinality(S(idx[h + 1]))
  <2>1. /\ Cardinality(T(idx[h + 1])) <= Cardinality(S(idx[h + 1]))
        /\ Cardinality(T(idx[h + 1])) # Cardinality(S(idx[h + 1]))
    BY <1>6, <1>7, FS_Subset
  <2>2. Cardinality(T(idx[h + 1])) \in Nat /\ Cardinality(S(idx[h + 1])) \in Nat
    BY <1>6, FS_Subset, FS_CardinalityType
  <2> QED
    BY <2>1, <2>2
<1> QED
  BY <1>4, <1>5, <1>8, <1>9

(* Sorting in place and resolving whole runs is what the worker promises:    *)
(* one requested page at a time, the lowest first, each as often as it was   *)
(* requested, and no page that was not (worker.c:165-173, pagefault.c:       *)
(* 208-297), for every batch, also with repeated pages and runs cut at the   *)
(* cap.                                                                      *)
THEOREM BatchImplementsSorted == Spec => ImplementsSortedBatch
<1>1. Init => Sorted!SortedInit
  <2> SUFFICES ASSUME Init PROVE Sorted!SortedInit
    OBVIOUS
  <2>1. BatchInv /\ handled = << >>
    BY BatchInit DEF Init
  <2>2. request \in [1 .. N -> Pages] /\ N \in Nat
    BY <2>1 DEF BatchInv, BatchTypes
  <2>3. ASSUME NEW p \in Pages PROVE Count(request, p) - Count(handled, p) \in Nat
    <3>1. Count(handled, p) = 0
      <4>1. {x \in DOMAIN handled : handled[x] = p} = {}
        BY <2>1
      <4> QED
        BY <4>1, FS_EmptySet DEF Count
    <3>2. Count(request, p) \in Nat
      BY <2>2, CountAppend, SeqDef
    <3> QED
      BY <3>1, <3>2
  <2>4. (IF handled = << >> THEN << >> ELSE << handled[Len(handled)] >>) = << >>
    BY <2>1
  <2> QED
    BY <2>3, <2>4 DEF Sorted!SortedInit
<1>2. BatchInv /\ [Next]_vars => [Sorted!SortedNext]_(Sorted!sortedVars)
  <2> SUFFICES ASSUME BatchInv, [Next]_vars
               PROVE  [Sorted!SortedNext]_(Sorted!sortedVars)
    OBVIOUS
  <2>1. CASE Resolve
    <3> DEFINE h == Len(handled)
               p == idx[h + 1]
               rest == [q \in Pages |-> Count(request, q) - Count(handled, q)]
               next == [q \in Pages |-> Count(request, q) - Count(handled', q)]
    <3>1. /\ h \in Nat /\ h + 1 \in 1 .. N /\ p \in Pages
          /\ \A x \in 1 .. h : handled[x] = idx[x]
          /\ handled' = Append(handled, p)
      BY <2>1, ResolveHandlesNext
    <3>2. /\ pc = "resolve" /\ handled \in Seq(Pages) /\ request' = request
          /\ \A x, y \in 1 .. N : x < y => idx[x] <= idx[y]
      BY <2>1 DEF Resolve, BatchInv, BatchTypes, SortInv, WalkInv, Ascending
    <3>3. /\ Count(request, p) > Count(handled, p)
          /\ \A q \in Pages : q < p => Count(request, q) = Count(handled, q)
      BY <3>1, <3>2, NextIsLowest
    <3>4. ASSUME NEW q \in Pages
          PROVE  /\ Count(handled, q) \in Nat /\ Count(request, q) \in Nat
                 /\ Count(handled', q) = Count(handled, q) + (IF q = p THEN 1 ELSE 0)
      <4>1. request \in Seq(Pages)
        BY SeqDef DEF BatchInv, BatchTypes
      <4> QED
        BY <3>1, <3>2, <4>1, CountAppend
    <3> HIDE DEF p
    <3>5. /\ rest[p] > 0
          /\ \A q \in Pages : q < p => rest[q] = 0
          /\ next = [rest EXCEPT ![p] = @ - 1]
      <4>1. rest[p] > 0
        BY <3>1, <3>3, <3>4
      <4>2. \A q \in Pages : q < p => rest[q] = 0
        BY <3>3, <3>4
      <4>3. \A q \in Pages : next[q] = IF q = p THEN rest[p] - 1 ELSE rest[q]
        BY <3>1, <3>4
      <4>4. next = [rest EXCEPT ![p] = @ - 1]
        BY <4>3
      <4> QED
        BY <4>1, <4>2, <4>4
    <3>6. handled' # << >> /\ handled'[Len(handled')] = p
      BY <3>1, <3>2
    <3>7. Sorted!Handle(p)
      BY <3>2, <3>5, <3>6 DEF Sorted!Handle
    <3> QED
      BY <3>1, <3>7 DEF Sorted!SortedNext
  <2>2. CASE ~Resolve
    <3>1. UNCHANGED <<request, handled>>
      BY <2>2 DEF Next, vars, TakeKey, Shift, Place, SortDone, StartRun, Extend, RunFound,
         EndRun, Return
    <3> QED
      BY <3>1 DEF Sorted!sortedVars
  <2> QED
    BY <2>1, <2>2
<1> QED
  BY <1>1, <1>2, BatchInvariant, PTL DEF Spec, ImplementsSortedBatch, Sorted!SortedSpec
=============================================================================
