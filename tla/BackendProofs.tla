--------------------------- MODULE BackendProofs ---------------------------
(***************************************************************************)
(* Theorems about the file of backend.c, for every set of pages, every     *)
(* content and file size, and every set of failing calls but the write of  *)
(* the header: backend_flush does not look at that one's result.  Writes   *)
(* are of one page, as backend_write_page takes them for granted.  Then    *)
(* the same for the clients of Storage, and the text format.               *)
(***************************************************************************)
EXTENDS Storage, FiniteSetTheorems, SequenceTheorems, TLAPS

IsFile(f) == \E len \in Nat: f = [u \in 0 .. len - 1 |-> f[u]]

\* What a restart that finds the file f needs of it.
Holds(f) ==
    /\ HasHeader(f, saved.counts)
    /\ \A id \in PageIds: saved.data[id] # {} =>
          Offset(id) \in DOMAIN f /\ f[Offset(id)] \in saved.data[id]

FilesInv ==
    /\ IsFile(cached) /\ IsFile(durable) /\ cut \in BOOLEAN
    /\ written = [id \in PageIds |-> written[id]]
    /\ saved = [counts |-> saved.counts, data |-> [id \in PageIds |-> saved.data[id]]]

\* The header a flush is about to sync is in the file.
HeaderInv == step = "sync" => 0 \in DOMAIN cached /\ cached[0] = Header(be.count)

\* As long as something is saved, no truncation is pending and both files
\* hold it: the kernel may write back any part of the one to the other.
SavedInv ==
    saved # NotSaved =>
        ~cut /\ saved.counts # {} /\ Holds(cached) /\ Holds(durable)

\* Creation cuts the file first, and what was saved with it.
CreateInv == step \in {"create_write", "create_extend"} => saved = NotSaved

BackendInv == FilesInv /\ ReadBack /\ HeaderInv /\ CreateInv /\ SavedInv

-----------------------------------------------------------------------------
(* Put                                                                     *)

(* A write leaves a file without gaps, however far behind the end it goes. *)
LEMMA PutIsFile ==
    ASSUME NEW f, IsFile(f), NEW u \in Nat, NEW n \in Nat, NEW x
    PROVE  IsFile(Put(f, u, n, x))
<1>1. PICK len \in Nat: f = [v \in 0 .. len - 1 |-> f[v]]
  BY DEF IsFile
<1>2. DOMAIN f = 0 .. len - 1
  BY <1>1
<1> DEFINE longer == IF u + n > len THEN u + n ELSE len
<1>3. longer \in Nat /\ (0 .. len - 1) \cup (0 .. u + n - 1) = 0 .. longer - 1
  OBVIOUS
<1>4. Put(f, u, n, x) = [v \in 0 .. longer - 1 |-> Put(f, u, n, x)[v]]
  BY <1>2, <1>3 DEF Put
<1> QED
  BY <1>3, <1>4 DEF IsFile

(* The units a write names have the content it gives.                      *)
LEMMA PutOwn ==
    ASSUME NEW f, NEW u \in Nat, NEW x
    PROVE  u \in DOMAIN Put(f, u, 1, x) /\ Put(f, u, 1, x)[u] = x
<1>1. u \in 0 .. u + 1 - 1 /\ u \in u .. u + 1 - 1
  OBVIOUS
<1> QED
  BY <1>1 DEF Put

(* A write changes no other unit of the file.                              *)
LEMMA PutOther ==
    ASSUME NEW f, NEW u \in Nat, NEW x, NEW v \in DOMAIN f, v # u
    PROVE  v \in DOMAIN Put(f, u, 1, x) /\ Put(f, u, 1, x)[v] = f[v]
<1>1. v \notin u .. u + 1 - 1
  OBVIOUS
<1> QED
  BY <1>1 DEF Put

(* Growing a file changes no unit of it.                                   *)
LEMMA GrowKeeps ==
    ASSUME NEW f, NEW n \in Nat, NEW v \in DOMAIN f
    PROVE  v \in DOMAIN Grow(f, n) /\ Grow(f, n)[v] = f[v]
<1>1. n .. n + 0 - 1 = {}
  OBVIOUS
<1> QED
  BY <1>1 DEF Grow, Put

(* Every page lies behind the header, and on its own.                      *)
LEMMA OffsetsApart ==
    /\ \A id \in PageIds: Offset(id) \in Nat /\ Offset(id) # 0
    /\ \A id, jd \in PageIds: id # jd => Offset(id) # Offset(jd)
  BY BackendAssumption DEF Offset

-----------------------------------------------------------------------------
(* Steps                                                                   *)

(* A file that keeps or gains what is saved still holds it.                *)
LEMMA HoldsKept ==
    ASSUME NEW f, NEW g, Holds(f),
           \A v \in DOMAIN f: v \in DOMAIN g /\ g[v] = f[v]
    PROVE  Holds(g)
  BY DEF Holds, HasHeader

(* Writing back one unit: the file on the disk has that unit or its own.   *)
LEMMA HoldsMixed ==
    ASSUME NEW u \in DOMAIN cached, u \in Nat, Holds(cached), Holds(durable)
    PROVE  Holds(Put(durable, u, 1, cached[u]))
<1> DEFINE g == Put(durable, u, 1, cached[u])
<1>1. u \in DOMAIN g /\ g[u] = cached[u]
  BY PutOwn
<1>2. \A v \in DOMAIN durable: v # u => v \in DOMAIN g /\ g[v] = durable[v]
  BY PutOther
<1> HIDE DEF g
<1>3. HasHeader(g, saved.counts)
  <2>1. CASE u = 0
    BY <2>1, <1>1 DEF Holds, HasHeader
  <2>2. CASE u # 0
    BY <2>2, <1>2 DEF Holds, HasHeader
  <2> QED
    BY <2>1, <2>2
<1>4. ASSUME NEW id \in PageIds, saved.data[id] # {}
      PROVE  Offset(id) \in DOMAIN g /\ g[Offset(id)] \in saved.data[id]
  <2>1. CASE u = Offset(id)
    BY <2>1, <1>1, <1>4 DEF Holds
  <2>2. CASE u # Offset(id)
    BY <2>2, <1>2, <1>4 DEF Holds
  <2> QED
    BY <2>1, <2>2
<1>5. Holds(g)
  BY <1>3, <1>4 DEF Holds
<1> QED
  BY <1>5 DEF g

(* What was last written to a page stays there while other units change.   *)
LEMMA ReadBackKept ==
    ASSUME NEW f, NEW g, NEW id \in PageIds, written[id] # Absent,
           ReadPage(f, id) = written[id],
           \A v \in DOMAIN f: v # 0 => v \in DOMAIN g /\ g[v] = f[v]
    PROVE  ReadPage(g, id) = written[id]
  BY OffsetsApart DEF ReadPage

(* backend_create.                                                         *)
LEMMA CreateStep ==
    ASSUME BackendInv, CreateOpen \/ CreateWrite \/ CreateExtend
    PROVE  BackendInv'
<1> USE DEF BackendInv
<1>1. CASE CreateOpen
  <2>1. IsFile(Empty)
    <3>1. Empty = [u \in 0 .. 0 - 1 |-> Empty[u]]
      BY DEF Empty
    <3> QED
      BY <3>1 DEF IsFile
  <2> QED
    BY <2>1, <1>1 DEF CreateOpen, FilesInv, ReadBack, HeaderInv, CreateInv, SavedInv, NotSaved
<1>2. CASE CreateWrite
  <2>1. saved = NotSaved /\ saved' = NotSaved
    BY <1>2 DEF CreateWrite, CreateInv
  <2>2. IsFile(cached') /\ \A v \in DOMAIN cached: v # 0 => v \in DOMAIN cached' /\ cached'[v] = cached[v]
    BY <1>2, PutIsFile, PutOther DEF CreateWrite, FilesInv
  <2>3. ReadBack'
    BY <1>2, <2>2, ReadBackKept DEF CreateWrite, ReadBack, ReadPage, Offset
  <2> QED
    BY <1>2, <2>1, <2>2, <2>3 DEF CreateWrite, FilesInv, HeaderInv, CreateInv, SavedInv
<1>3. CASE CreateExtend
  <2>1. saved = NotSaved /\ saved' = NotSaved
    BY <1>3 DEF CreateExtend, CreateInv
  <2>2. IsFile(cached') /\ \A v \in DOMAIN cached: v \in DOMAIN cached' /\ cached'[v] = cached[v]
    BY <1>3, PutIsFile, GrowKeeps, BackendAssumption DEF CreateExtend, FilesInv, Grow
  <2>3. ReadBack'
    BY <1>3, <2>2, ReadBackKept DEF CreateExtend, ReadBack, ReadPage, Offset
  <2> QED
    BY <1>3, <2>1, <2>2, <2>3 DEF CreateExtend, FilesInv, HeaderInv, CreateInv, SavedInv
<1> QED
  BY <1>1, <1>2, <1>3

(* backend_write_page of one page: it is in the file, or torn; the others  *)
(* and the header are as they were.                                        *)
LEMMA WriteStep ==
    ASSUME BackendInv, NEW id \in PageIds, WritePage(id, 1)
    PROVE  BackendInv'
<1> USE DEF BackendInv
<1> DEFINE o == Offset(id)
<1>1. o \in Nat /\ o # 0 /\ \A jd \in PageIds: jd # id => Offset(jd) # o
  BY OffsetsApart
<1>2. PICK x: /\ cached' = Put(cached, o, 1, x)
              /\ \/ x = ram[id] /\ written' = [written EXCEPT ![id] = ram[id]]
                 \/ x = Torn /\ written' = [written EXCEPT ![id] = Absent]
              /\ saved' = [saved EXCEPT !.data[id] = IF @ = {} THEN @ ELSE @ \cup {x}]
  BY DEF WritePage
<1>3. UNCHANGED <<durable, cut, be, step, ram>> /\ step = "idle"
  BY DEF WritePage
<1>4. IsFile(cached') /\ o \in DOMAIN cached' /\ cached'[o] = x
  BY <1>1, <1>2, PutIsFile, PutOwn DEF FilesInv
<1>5. \A v \in DOMAIN cached: v # o => v \in DOMAIN cached' /\ cached'[v] = cached[v]
  BY <1>1, <1>2, PutOther
<1>6. /\ saved'.counts = saved.counts
      /\ saved' = [counts |-> saved'.counts, data |-> [jd \in PageIds |-> saved'.data[jd]]]
      /\ \A jd \in PageIds: jd # id => saved'.data[jd] = saved.data[jd]
      /\ saved'.data[id] = IF saved.data[id] = {} THEN {} ELSE saved.data[id] \cup {x}
  BY <1>2 DEF FilesInv
<1>7. /\ written' = [jd \in PageIds |-> written'[jd]]
      /\ \A jd \in PageIds: jd # id => written'[jd] = written[jd]
      /\ written'[id] # Absent => written'[id] = x
  BY <1>2 DEF FilesInv
<1> HIDE DEF o
<1>8. FilesInv'
  BY <1>3, <1>4, <1>6, <1>7 DEF FilesInv
<1>9. ReadBack'
  <2> SUFFICES ASSUME NEW jd \in PageIds, written'[jd] # Absent
               PROVE  ReadPage(cached', jd) = written'[jd]
    BY DEF ReadBack, ReadPage, Offset
  <2>1. CASE jd = id
    BY <2>1, <1>4, <1>7 DEF ReadPage, o
  <2>2. CASE jd # id
    BY <2>2, <1>1, <1>5, <1>7 DEF ReadBack, ReadPage
  <2> QED
    BY <2>1, <2>2
<1>10. HeaderInv' /\ CreateInv'
  BY <1>3 DEF HeaderInv, CreateInv
<1>11. SavedInv'
  <2> SUFFICES ASSUME saved' # NotSaved
               PROVE  (~cut /\ saved.counts # {} /\ Holds(cached) /\ Holds(durable))'
    BY DEF SavedInv, NotSaved
  <2>1. saved # NotSaved
    <3>1. SUFFICES ASSUME saved = NotSaved PROVE saved' = NotSaved
      OBVIOUS
    <3>2. \A jd \in PageIds: saved'.data[jd] = {}
      BY <3>1, <1>6 DEF NotSaved
    <3>3. saved'.counts = {}
      BY <3>1, <1>6 DEF NotSaved
    <3>4. [jd \in PageIds |-> saved'.data[jd]] = [jd \in PageIds |-> {}]
      BY <3>2
    <3> QED
      BY <3>3, <3>4, <1>6 DEF NotSaved
  <2>2. ~cut /\ saved.counts # {} /\ Holds(cached) /\ Holds(durable)
    BY <2>1 DEF SavedInv
  <2>3. HasHeader(cached', saved'.counts) /\ HasHeader(durable', saved'.counts)
    BY <2>2, <1>1, <1>3, <1>5, <1>6 DEF Holds, HasHeader
  <2>4. ASSUME NEW jd \in PageIds, saved'.data[jd] # {}
        PROVE  /\ Offset(jd) \in DOMAIN cached' /\ cached'[Offset(jd)] \in saved'.data[jd]
               /\ Offset(jd) \in DOMAIN durable' /\ durable'[Offset(jd)] \in saved'.data[jd]
    <3>1. CASE jd = id
      BY <3>1, <2>2, <2>4, <1>3, <1>4, <1>6 DEF Holds, o
    <3>2. CASE jd # id
      BY <3>2, <2>2, <2>4, <1>1, <1>3, <1>5, <1>6 DEF Holds
    <3> QED
      BY <3>1, <3>2
  <2> QED
    BY <2>2, <2>3, <2>4, <1>3, <1>6 DEF Holds, Offset, HasHeader
<1> QED
  BY <1>8, <1>9, <1>10, <1>11

(* backend_sync_metadata, with a header that can be written.               *)
LEMMA HeaderStep ==
    ASSUME BackendInv, FlushHeader, ~Fails("header_write")
    PROVE  BackendInv'
<1> USE DEF BackendInv
<1>1. /\ cached' = Put(cached, 0, 1, Header(PageCount)) /\ be'.count = PageCount
      /\ saved' = [saved EXCEPT !.counts = IF @ = {} THEN @ ELSE @ \cup {PageCount}]
      /\ step = "idle" /\ step' = "sync" /\ UNCHANGED <<durable, cut, ram, written>>
  <2>1. be'.count = PageCount
    BY DEF FlushHeader
  <2> QED
    BY <2>1 DEF FlushHeader
<1>2. IsFile(cached') /\ 0 \in DOMAIN cached' /\ cached'[0] = Header(PageCount)
  BY <1>1, PutIsFile, PutOwn DEF FilesInv
<1>3. \A v \in DOMAIN cached: v # 0 => v \in DOMAIN cached' /\ cached'[v] = cached[v]
  BY <1>1, PutOther
<1>4. /\ saved'.counts = IF saved.counts = {} THEN {} ELSE saved.counts \cup {PageCount}
      /\ saved'.data = saved.data
      /\ saved' = [counts |-> saved'.counts, data |-> [jd \in PageIds |-> saved'.data[jd]]]
  BY <1>1 DEF FilesInv
<1>5. FilesInv'
  BY <1>1, <1>2, <1>4 DEF FilesInv
<1>6. ReadBack'
  BY <1>1, <1>3, ReadBackKept DEF ReadBack, ReadPage, Offset
<1>7. HeaderInv' /\ CreateInv'
  BY <1>1, <1>2 DEF HeaderInv, CreateInv
<1>8. SavedInv'
  <2> SUFFICES ASSUME saved' # NotSaved
               PROVE  (~cut /\ saved.counts # {} /\ Holds(cached) /\ Holds(durable))'
    BY DEF SavedInv, NotSaved
  <2>1. saved # NotSaved
    BY <1>4 DEF NotSaved, FilesInv
  <2>2. ~cut /\ saved.counts # {} /\ Holds(cached) /\ Holds(durable)
    BY <2>1 DEF SavedInv
  <2>3. saved'.counts = saved.counts \cup {PageCount}
    BY <2>2, <1>4
  <2>4. HasHeader(cached', saved'.counts) /\ HasHeader(durable', saved'.counts)
    BY <2>2, <2>3, <1>1, <1>2 DEF Holds, HasHeader
  <2>5. ASSUME NEW jd \in PageIds, saved'.data[jd] # {}
        PROVE  /\ Offset(jd) \in DOMAIN cached' /\ cached'[Offset(jd)] \in saved'.data[jd]
               /\ Offset(jd) \in DOMAIN durable' /\ durable'[Offset(jd)] \in saved'.data[jd]
    BY <2>2, <2>5, <1>1, <1>3, <1>4, OffsetsApart DEF Holds
  <2> QED
    BY <2>2, <2>3, <2>4, <2>5, <1>1 DEF Holds, Offset, HasHeader
<1> QED
  BY <1>5, <1>6, <1>7, <1>8

(* fsync: what was written and the header are on the disk, and saved.       *)
LEMMA SyncStep ==
    ASSUME BackendInv, FlushSync
    PROVE  BackendInv'
<1> USE DEF BackendInv
<1>1. CASE UNCHANGED <<durable, cut, saved>>
  BY <1>1 DEF FlushSync, FilesInv, ReadBack, ReadPage, Offset, HeaderInv, CreateInv, SavedInv,
              Holds, HasHeader, NotSaved
<1>2. CASE /\ durable' = cached /\ cut' = FALSE
           /\ saved' = [counts |-> {be.count},
                        data |-> [id \in PageIds |-> {written[id]} \ {Absent}]]
  <2>1. UNCHANGED <<cached, be, ram, written>> /\ step = "sync" /\ step' = "idle"
    BY DEF FlushSync
  <2>2. 0 \in DOMAIN cached /\ cached[0] = Header(be.count)
    BY <2>1 DEF HeaderInv
  <2>3. ASSUME NEW id \in PageIds, written[id] # Absent
        PROVE  Offset(id) \in DOMAIN cached /\ cached[Offset(id)] = written[id]
    BY <2>3 DEF ReadBack, ReadPage
  <2>4. saved'.counts = {be.count} /\ \A id \in PageIds: saved'.data[id] = {written[id]} \ {Absent}
    BY <1>2
  <2>5. Holds(cached)' /\ Holds(durable)'
    BY <2>1, <2>2, <2>3, <2>4, <1>2 DEF Holds, HasHeader, Offset
  <2>6. FilesInv'
    BY <2>1, <1>2 DEF FilesInv
  <2> QED
    BY <2>1, <2>4, <2>5, <2>6, <1>2
      DEF ReadBack, ReadPage, Offset, HeaderInv, CreateInv, SavedInv
<1> QED
  BY <1>1, <1>2 DEF FlushSync

(* The kernel writes back any unit, or the length, of the file.            *)
LEMMA WriteBackStep ==
    ASSUME BackendInv, WriteBack
    PROVE  BackendInv'
<1> USE DEF BackendInv
<1>1. UNCHANGED <<cached, be, step, ram, written, saved>>
  BY DEF WriteBack
<1>2. ReadBack' /\ HeaderInv' /\ CreateInv'
  BY <1>1 DEF ReadBack, ReadPage, Offset, HeaderInv, CreateInv, NotSaved
<1>3. CASE cut /\ durable' = Empty /\ cut' = FALSE
  <2>1. Empty = [u \in 0 .. 0 - 1 |-> Empty[u]]
    BY DEF Empty
  <2>2. IsFile(Empty)
    BY <2>1 DEF IsFile
  <2>3. saved = NotSaved
    BY <1>3 DEF SavedInv
  <2> QED
    BY <2>2, <2>3, <1>1, <1>2, <1>3 DEF FilesInv, SavedInv, NotSaved
<1>4. ASSUME ~cut, UNCHANGED cut, NEW u \in DOMAIN cached, durable' = Put(durable, u, 1, cached[u])
      PROVE  BackendInv'
  <2>1. u \in Nat
    BY <1>4 DEF FilesInv, IsFile
  <2>2. FilesInv'
    BY <2>1, <1>1, <1>4, PutIsFile DEF FilesInv
  <2>3. saved # NotSaved => Holds(durable)'
    BY <2>1, <1>1, <1>4, HoldsMixed DEF SavedInv, Holds, HasHeader, Offset
  <2> QED
    BY <2>2, <2>3, <1>1, <1>2, <1>4 DEF SavedInv, Holds, HasHeader, Offset, NotSaved
<1>5. ASSUME ~cut, UNCHANGED cut, durable' = Grow(durable, Cardinality(DOMAIN cached))
      PROVE  BackendInv'
  <2>1. Cardinality(DOMAIN cached) \in Nat
    <3>1. PICK len \in Nat: cached = [v \in 0 .. len - 1 |-> cached[v]]
      BY DEF FilesInv, IsFile
    <3>2. DOMAIN cached = 0 .. len - 1
      BY <3>1
    <3>3. IsFiniteSet(0 .. len - 1)
      BY FS_Interval
    <3> QED
      BY <3>2, <3>3, FS_CardinalityType
  <2>2. FilesInv'
    BY <2>1, <1>1, <1>5, PutIsFile DEF FilesInv, Grow
  <2>3. saved # NotSaved => Holds(durable)'
    <3>1. saved # NotSaved => Holds(Grow(durable, Cardinality(DOMAIN cached)))
      BY <2>1, GrowKeeps, HoldsKept DEF SavedInv
    <3> QED
      BY <3>1, <1>1, <1>5 DEF Holds, HasHeader, Offset
  <2> QED
    BY <2>2, <2>3, <1>1, <1>2, <1>5 DEF SavedInv, Holds, HasHeader, Offset, NotSaved
<1> QED
  BY <1>3, <1>4, <1>5 DEF WriteBack

(* A process that ends leaves the file; without power it is that of the disk. *)
LEMMA CrashStep ==
    ASSUME BackendInv, Kill \/ PowerFailure
    PROVE  BackendInv'
<1> USE DEF BackendInv
<1>1. CASE Kill
  BY <1>1 DEF Kill, LoseMemory, fileVars, FilesInv, ReadBack, ReadPage, Offset, HeaderInv,
              CreateInv, SavedInv, Holds, HasHeader, NotSaved
<1>2. CASE PowerFailure
  <2>1. /\ cached' = durable /\ cut' = FALSE /\ step' = "idle" /\ UNCHANGED <<durable, saved>>
        /\ written' = [id \in PageIds |-> ReadPage(durable, id)]
    BY <1>2 DEF PowerFailure, LoseMemory
  <2>2. FilesInv' /\ ReadBack'
    BY <2>1 DEF FilesInv, ReadBack, ReadPage, Offset
  <2>3. SavedInv'
    BY <2>1 DEF SavedInv, Holds, HasHeader, Offset, NotSaved
  <2> QED
    BY <2>1, <2>2, <2>3 DEF HeaderInv, CreateInv
<1> QED
  BY <1>1, <1>2

-----------------------------------------------------------------------------
(* Theorems                                                                *)

(* No file holds nothing, and nothing is saved.                            *)
LEMMA BackendStarts == BackendInit => BackendInv
<1> SUFFICES ASSUME BackendInit PROVE BackendInv
  OBVIOUS
<1>1. Empty = [u \in 0 .. 0 - 1 |-> Empty[u]]
  BY DEF Empty
<1>2. IsFile(Empty)
  BY <1>1 DEF IsFile
<1> QED
  BY <1>2 DEF BackendInit, BackendInv, FilesInv, ReadBack, HeaderInv, CreateInv, SavedInv, NotSaved

(* BackendInv is inductive when all writes are of one page and the header  *)
(* of a flush can be written (backend.c:9-147).                            *)
LEMMA BackendStep ==
    ASSUME Spans = {1}, ~Fails("header_write"), BackendInv, [BackendNext]_backendVars
    PROVE  BackendInv'
<1>1. CASE CreateOpen \/ CreateWrite \/ CreateExtend
  BY <1>1, CreateStep
<1>2. CASE Open \/ Close \/ \E id \in PageIds, v \in Values: Modify(id, v)
  <2>1. UNCHANGED <<fileVars, step, written, saved>> /\ step = "idle"
    BY <1>2 DEF Open, Close, Modify
  <2> QED
    BY <2>1 DEF BackendInv, fileVars, FilesInv, ReadBack, ReadPage, Offset, HeaderInv,
                CreateInv, SavedInv, Holds, HasHeader, NotSaved
<1>3. CASE FlushHeader
  BY <1>3, HeaderStep
<1>4. CASE FlushSync
  BY <1>4, SyncStep
<1>5. CASE \E id \in PageIds, n \in Spans: WritePage(id, n)
  BY <1>5, WriteStep
<1>6. CASE WriteBack
  BY <1>6, WriteBackStep
<1>7. CASE Kill \/ PowerFailure
  BY <1>7, CrashStep
<1>8. CASE UNCHANGED backendVars
  BY <1>8 DEF backendVars, BackendInv, fileVars, FilesInv, ReadBack, ReadPage, Offset, HeaderInv,
              CreateInv, SavedInv, Holds, HasHeader, NotSaved
<1> QED
  BY <1>1, <1>2, <1>3, <1>4, <1>5, <1>6, <1>7, <1>8 DEF BackendNext, Operation, Environment

(* The inductive invariant, for callers of backend.h in any order.         *)
THEOREM BackendInvariant ==
    ASSUME Spans = {1}, ~Fails("header_write")
    PROVE  BackendSpec => []BackendInv
  BY BackendStarts, BackendStep, PTL DEF BackendSpec

(* What backend_flush reported as flushed survives kills and power failures *)
(* at any point (backend.c:123-147), for any number of pages.               *)
THEOREM FlushedDataSurvives ==
    ASSUME Spans = {1}, ~Fails("header_write")
    PROVE  BackendSpec => []FlushedSurvives
<1>1. BackendInv => FlushedSurvives
  BY OffsetsApart DEF BackendInv, SavedInv, Holds, FlushedSurvives, ReadPage
<1> QED
  BY <1>1, BackendInvariant, PTL

(* A page reads back as it was last written (backend.c:95-120).            *)
THEOREM PagesReadBack ==
    ASSUME Spans = {1}, ~Fails("header_write")
    PROVE  BackendSpec => []ReadBack
<1>1. BackendInv => ReadBack
  BY DEF BackendInv
<1> QED
  BY <1>1, BackendInvariant, PTL

-----------------------------------------------------------------------------
(* The clients: cmd_run's use of the structure                             *)

\* Between the two calls of a flush the command is inside backend_flush.
ClientInv == client = "command" /\ step = "sync" => pc = "flush"

\* The backend_t on cmd_run's stack comes and goes with its frame.
Reframed == be' = Uninitialised /\ UNCHANGED <<fileVars, step, ram, written, saved>>

(* Each step of the command is one of the backend's, or leaves it alone, or  *)
(* is the frame's beginning or end, outside of any operation.                *)
LEMMA CommandUsesBackend ==
    ASSUME ClientInv, CommandStep, client' = client
    PROVE  /\ [BackendNext]_backendVars \/ (Reframed /\ step # "sync")
           /\ ClientInv'
<1> USE DEF ClientInv, CommandStep, Goto
<1>1. CASE Start \/ Exit
  BY <1>1 DEF Start, Exit, Reframed
<1>2. CASE InstallHandler \/ EnterLoop \/ TestRunning \/ Tick \/ Sleep
  BY <1>2 DEF InstallHandler, EnterLoop, TestRunning, Tick, Sleep, AfterRun, backendVars
<1>3. CASE Create \/ CreateHeader \/ CreateLength \/ OpenBackend
  BY <1>3 DEF Create, CreateHeader, CreateLength, OpenBackend, BackendNext, Operation,
              CreateOpen, CreateWrite, CreateExtend, Open, backendVars
<1>4. CASE FlushBackend
  BY <1>4 DEF FlushBackend, BackendNext, Operation, FlushHeader, FlushSync, backendVars
<1>5. CASE CloseBackend
  BY <1>5 DEF CloseBackend, BackendNext, Operation, Close, backendVars
<1>6. CASE Interrupt \/ Crash
  BY <1>6 DEF Interrupt, Crash, BackendNext, Environment, Kill, PowerFailure, LoseMemory, backendVars
<1>7. CASE Disk
  BY <1>7 DEF Disk, BackendNext, Environment, WriteBack
<1> QED
  BY <1>1, <1>2, <1>3, <1>4, <1>5, <1>6, <1>7 DEF Next, Command

(* Whether runs of the command use the file, which flush and close it after   *)
(* a creation or an opening that failed too, or callers of backend.h do, each *)
(* ended at any point: what was flushed is found again, and a page reads back *)
(* as it was written (backend.c:9-147, main.c:302-374).                      *)
THEOREM ClientsKeepFile ==
    ASSUME Spans = {1}, ~Fails("header_write")
    PROVE  StorageSpec => [](FlushedSurvives /\ ReadBack)
<1>1. StorageInit => BackendInv /\ ClientInv
  BY BackendStarts DEF StorageInit, Init, BackendInit, ClientInv
<1>2. BackendInv /\ ClientInv /\ [StorageNext]_storageVars => (BackendInv /\ ClientInv)'
  <2> SUFFICES ASSUME BackendInv, ClientInv, [StorageNext]_storageVars
               PROVE  BackendInv' /\ ClientInv'
    OBVIOUS
  <2>1. CASE CommandStep /\ client' = client
    <3>1. ([BackendNext]_backendVars \/ (Reframed /\ step # "sync")) /\ ClientInv'
      BY <2>1, CommandUsesBackend
    <3>2. ASSUME Reframed, step # "sync" PROVE BackendInv'
      BY <3>2 DEF Reframed, BackendInv, fileVars, FilesInv, ReadBack, ReadPage, Offset, HeaderInv,
                  CreateInv, SavedInv, Holds, HasHeader, NotSaved
    <3>3. ASSUME [BackendNext]_backendVars PROVE BackendInv'
      BY <3>3, BackendStep
    <3> QED
      BY <3>1, <3>2, <3>3
  <2>2. CASE CallerStep /\ client' = client
    BY <2>2, BackendStep DEF CallerStep, ClientInv
  <2>3. CASE UNCHANGED <<backendVars, pc, client>>
    BY <2>3, BackendStep DEF ClientInv, backendVars
  <2> QED
    BY <2>1, <2>2, <2>3 DEF StorageNext, storageVars, vars
<1>3. BackendInv => FlushedSurvives /\ ReadBack
  BY OffsetsApart DEF BackendInv, SavedInv, Holds, FlushedSurvives, ReadPage
<1> QED
  BY <1>1, <1>2, <1>3, PTL DEF StorageSpec

-----------------------------------------------------------------------------
(* The text format                                                         *)

Lines == [tag : Nat, page : Pages]
Texts == [0 .. FieldLines -> Pages]
Size == End + 1     \* lines of a record
Place(k) == Size * k  \* the last line of the first k records

Uncut == \A k \in DOMAIN lines : lines[k].tag # Cut

TextTypes == lines \in Seq(Lines) /\ wrote \in Seq(Pages)

\* The file is the records of what was written.
RecordsInv ==
    /\ Len(lines) = Place(Len(wrote))
    /\ \A k \in 1 .. Len(wrote) : \A i \in 1 .. Size :
          lines[Place(k - 1) + i] = [tag |-> i - 1, page |-> wrote[k]]

\* The reader stands behind the record it read last.
ReaderInv ==
    /\ got \in Seq(Texts) /\ Len(got) <= Len(wrote) /\ pos = Place(Len(got))
    /\ \A k \in 1 .. Len(got) : got[k] = WholePage(wrote[k])

\* ReadsInOrder does not say where the reader stands, nor what is ahead of it.
TextInv == TextTypes /\ (Uncut => RecordsInv /\ ReaderInv)

(* Sizes: a record has at least its first and last line.                    *)
LEMMA SizeFact == End \in Nat /\ End = FieldLines + 1 /\ Cut = End + 1 /\ Size \in Nat /\ Size = End + 1
  BY TextAssumption DEF End, Cut, Size

(* Records end before the next one begins.                                  *)
LEMMA RecordEnds ==
    ASSUME NEW k \in Nat
    PROVE  /\ Place(k) \in Nat /\ Place(k + 1) = Place(k) + Size
           /\ \A n \in Nat : k < n => Place(k) + Size <= Place(n)
<1>1. \A s, a, b \in Nat : s * a \in Nat /\ s * (a + 1) = s * a + s
  OBVIOUS
<1>2. \A s, a, b \in Nat : a <= b => s * a <= s * b
  <2> SUFFICES ASSUME NEW s \in Nat, NEW a \in Nat, NEW b \in Nat, a <= b PROVE s * a <= s * b
    OBVIOUS
  <2>1. s * (b - a) \in Nat /\ s * b = s * a + s * (b - a)
    BY SMT
  <2>2. s * a \in Nat
    OBVIOUS
  <2> HIDE DEF Size
  <2> QED
    BY <2>1, <2>2
<1>3. \A n \in Nat : k < n => Size * (k + 1) <= Size * n
  BY <1>2, SizeFact
<1> QED
  BY <1>1, <1>3, SizeFact DEF Place

LEMMA RecordLines ==
    ASSUME NEW p \in Pages
    PROVE  /\ Record(p) \in Seq(Lines) /\ Len(Record(p)) = Size
           /\ \A i \in 1 .. Size : Record(p)[i] = [tag |-> i - 1, page |-> p]
<1>1. Record(p) = [i \in 1 .. Size |-> [tag |-> i - 1, page |-> p]]
  BY DEF Record, Size
<1>2. \A i \in 1 .. Size : [tag |-> i - 1, page |-> p] \in Lines
  BY SizeFact DEF Lines
<1>3. Record(p) \in [1 .. Size -> Lines]
  BY <1>1, <1>2
<1>4. \A n \in Nat : \A f \in [1 .. n -> Lines] : f \in Seq(Lines) /\ Len(f) = n
  OBVIOUS
<1>5. Record(p) \in Seq(Lines) /\ Len(Record(p)) = Size
  BY <1>3, <1>4, SizeFact
<1> QED
  BY <1>1, <1>5

(* A write adds lines: what was cut short stays in the file.                *)
LEMMA JoinAdds ==
    ASSUME lines \in Seq(Lines), NEW new \in Seq(Lines), new # << >>
    PROVE  /\ Join(lines, new) \in Seq(Lines)
           /\ \A k \in DOMAIN lines :
                 k \in DOMAIN Join(lines, new) /\ Join(lines, new)[k] = lines[k]
           /\ Join(lines, new) = lines \o new \/ \E k \in DOMAIN lines : lines[k].tag = Cut
<1>1. CASE lines # << >> /\ Last(lines).tag = Cut
  <2>1. Len(lines) \in DOMAIN lines /\ lines[Len(lines)].tag = Cut
    BY <1>1 DEF Last
  <2>2. Join(lines, new) = lines \o Tail(new) /\ Tail(new) \in Seq(Lines)
    BY <1>1 DEF Join
  <2> QED
    BY <2>1, <2>2
<1>2. CASE ~ (lines # << >> /\ Last(lines).tag = Cut)
  <2>1. Join(lines, new) = lines \o new
    BY <1>2 DEF Join
  <2> QED
    BY <2>1
<1> QED
  BY <1>1, <1>2

(* The cut line of a record written in part.                                *)
LEMMA PartLines ==
    ASSUME NEW p \in Pages, NEW n \in 1 .. Len(Record(p))
    PROVE  LET part == SubSeq(Record(p), 1, n - 1) \o <<[tag |-> Cut, page |-> p]>>
           IN  part \in Seq(Lines) /\ Len(part) = n /\ part[n].tag = Cut
<1> DEFINE front == SubSeq(Record(p), 1, n - 1)
           cutLine == [tag |-> Cut, page |-> p]
<1>1. front \in Seq(Lines) /\ Len(front) = n - 1
  BY RecordLines, SizeFact
<1>2. cutLine \in Lines /\ cutLine.tag = Cut
  BY SizeFact DEF Lines
<1> HIDE DEF front, cutLine
<1>3. (front \o <<cutLine>>) \in Seq(Lines) /\ Len(front \o <<cutLine>>) = n
      /\ (front \o <<cutLine>>)[n] = cutLine
  BY <1>1, <1>2
<1> QED
  BY <1>2, <1>3 DEF front, cutLine

(* A whole record goes behind the ones there are; a part of one is a cut.    *)
LEMMA WriteRecordStep ==
    ASSUME TextInv, NEW p \in Pages, WriteRecord(p)
    PROVE  TextInv'
<1> DEFINE r == Record(p)
<1>1. /\ wrote' = Append(wrote, p) /\ pos' = pos /\ got' = got
      /\ wrote' \in Seq(Pages) /\ Len(wrote') = Len(wrote) + 1 /\ Len(wrote) \in Nat
      /\ wrote'[Len(wrote) + 1] = p /\ \A k \in 1 .. Len(wrote) : wrote'[k] = wrote[k]
  BY DEF WriteRecord, TextInv, TextTypes
<1>2. CASE lines' = Join(lines, r)
  <2>1. r \in Seq(Lines) /\ Len(r) = Size /\ r # << >>
        /\ \A i \in 1 .. Size : r[i] = [tag |-> i - 1, page |-> p]
    BY RecordLines, SizeFact
  <2> HIDE DEF r
  <2>2. lines \in Seq(Lines) /\ lines' \in Seq(Lines)
    BY <1>2, <2>1, JoinAdds DEF TextInv, TextTypes
  <2>3. Uncut' => Uncut /\ lines' = lines \o r
    BY <1>2, <2>1, <2>2, JoinAdds DEF Uncut
  <2>4. ASSUME Uncut' PROVE RecordsInv'
    <3>1. RecordsInv /\ lines' = lines \o r
      BY <2>3, <2>4 DEF TextInv
    <3>2. Len(lines) = Place(Len(wrote)) /\ Len(lines) \in Nat
      BY <2>2, <3>1 DEF RecordsInv
    <3>3. Len(lines') = Place(Len(wrote'))
      <4>1. Len(lines') = Place(Len(wrote)) + Size
        <5>1. Len(lines \o r) = Len(lines) + Len(r)
          BY <2>1, <2>2, ConcatProperties
        <5> QED
          BY <2>1, <3>1, <3>2, <5>1, Zenon
      <4>2. Place(Len(wrote) + 1) = Place(Len(wrote)) + Size
        BY <1>1, RecordEnds
      <4> QED
        BY <1>1, <4>1, <4>2, Zenon
    <3>4. ASSUME NEW k \in 1 .. Len(wrote), NEW i \in 1 .. Size
          PROVE  lines'[Place(k - 1) + i] = [tag |-> i - 1, page |-> wrote'[k]]
      <4>1. k - 1 \in Nat /\ k - 1 < Len(wrote)
        BY <1>1
      <4>2. Place(k - 1) \in Nat /\ Place(k - 1) + Size <= Place(Len(wrote))
        BY <1>1, <4>1, RecordEnds
      <4>3. Place(k - 1) + i \in 1 .. Len(lines)
        BY <3>2, <4>2, SizeFact
      <4>4. lines'[Place(k - 1) + i] = lines[Place(k - 1) + i]
        BY <2>1, <2>2, <3>1, <4>3
      <4> QED
        BY <1>1, <3>1, <4>4 DEF RecordsInv
    <3>5. ASSUME NEW i \in 1 .. Size
          PROVE  lines'[Place(Len(wrote)) + i] = [tag |-> i - 1, page |-> p]
      BY <2>1, <2>2, <3>1, <3>2, SizeFact
    <3>6. ASSUME NEW k \in 1 .. Len(wrote'), NEW i \in 1 .. Size
          PROVE  lines'[Place(k - 1) + i] = [tag |-> i - 1, page |-> wrote'[k]]
      <4>1. CASE k \in 1 .. Len(wrote)
        BY <3>4, <4>1
      <4>2. CASE k = Len(wrote) + 1
        <5>1. k - 1 = Len(wrote) /\ wrote'[k] = p
          BY <1>1, <4>2
        <5> QED
          BY <3>5, <5>1, Zenon
      <4>3. k \in 1 .. Len(wrote) \/ k = Len(wrote) + 1
        BY <1>1
      <4> QED
        BY <4>1, <4>2, <4>3, Zenon
    <3> QED
      BY <3>3, <3>6 DEF RecordsInv
  <2>5. ASSUME Uncut' PROVE ReaderInv'
    <3>1. ReaderInv
      BY <2>3, <2>5 DEF TextInv
    <3> QED
      BY <1>1, <3>1 DEF ReaderInv
  <2> QED
    BY <1>1, <2>2, <2>4, <2>5 DEF TextInv, TextTypes
<1>3. CASE \E n \in 1 .. Len(r) :
             lines' = Join(lines, SubSeq(r, 1, n - 1) \o <<[tag |-> Cut, page |-> p]>>)
  <2>1. PICK n \in 1 .. Len(r) :
             lines' = Join(lines, SubSeq(r, 1, n - 1) \o <<[tag |-> Cut, page |-> p]>>)
    BY <1>3
  <2> DEFINE part == SubSeq(r, 1, n - 1) \o <<[tag |-> Cut, page |-> p]>>
  <2>2. part \in Seq(Lines) /\ Len(part) = n /\ part[n].tag = Cut /\ n \in Nat \ {0}
    BY PartLines, RecordLines, SizeFact
  <2>3. lines' = Join(lines, part)
    BY <2>1
  <2> HIDE DEF part
  <2>4. part # << >>
    BY <2>2
  <2>5. lines \in Seq(Lines) /\ lines' \in Seq(Lines)
    BY <2>2, <2>3, <2>4, JoinAdds DEF TextInv, TextTypes
  <2>6. lines' = lines \o part \/ \E k \in DOMAIN lines : lines[k].tag = Cut
    BY <2>2, <2>3, <2>4, <2>5, JoinAdds
  <2>7. CASE lines' = lines \o part
    <3>1. Len(lines) + n \in DOMAIN lines' /\ lines'[Len(lines) + n] = part[n]
      BY <2>2, <2>5, <2>7
    <3> QED
      BY <1>1, <2>2, <2>5, <3>1 DEF TextInv, TextTypes, Uncut
  <2>8. CASE \E k \in DOMAIN lines : lines[k].tag = Cut
    <3>1. \E k \in DOMAIN lines' : lines'[k].tag = Cut
      BY <2>2, <2>3, <2>4, <2>5, <2>8, JoinAdds
    <3> QED
      BY <1>1, <2>5, <3>1 DEF TextInv, TextTypes, Uncut
  <2> QED
    BY <2>6, <2>7, <2>8
<1> QED
  BY <1>2, <1>3 DEF WriteRecord

\* The record that the reader comes to: lines pos + 1 to pos + Size.
Ahead == Len(got) + 1

LEMMA LinesAhead ==
    ASSUME TextTypes, RecordsInv, ReaderInv, Len(got) < Len(wrote)
    PROVE  /\ Ahead \in 1 .. Len(wrote) /\ wrote[Ahead] \in Pages
           /\ pos + Size <= Len(lines) /\ pos + Size = Place(Len(got) + 1)
           /\ \A i \in 1 .. Size :
                 /\ pos + i \in 1 .. Len(lines)
                 /\ lines[pos + i].tag = i - 1 /\ lines[pos + i].page = wrote[Ahead]
<1>1. /\ Len(got) \in Nat /\ Len(wrote) \in Nat /\ Len(lines) \in Nat
      /\ Ahead \in 1 .. Len(wrote) /\ Ahead - 1 = Len(got) /\ wrote[Ahead] \in Pages
  BY DEF TextTypes, ReaderInv, Ahead
<1>2. pos = Place(Len(got)) /\ Len(lines) = Place(Len(wrote))
  BY DEF ReaderInv, RecordsInv
<1>3. pos \in Nat /\ pos + Size = Place(Len(got) + 1)
  BY <1>1, <1>2, RecordEnds
<1>4. pos + Size <= Len(lines)
  BY <1>1, <1>2, RecordEnds
<1>5. ASSUME NEW i \in 1 .. Size
      PROVE  /\ pos + i \in 1 .. Len(lines)
             /\ lines[pos + i].tag = i - 1 /\ lines[pos + i].page = wrote[Ahead]
  <2>1. Len(lines) \in Nat /\ i \in Nat \ {0} /\ i <= Size
    BY <1>1, SizeFact
  <2>2. pos + i \in 1 .. Len(lines)
    BY <1>3, <1>4, <2>1, SizeFact
  <2>3. lines[Place(Ahead - 1) + i] = [tag |-> i - 1, page |-> wrote[Ahead]]
    BY <1>1 DEF RecordsInv
  <2>4. Place(Ahead - 1) = pos
    BY <1>1, <1>2, Zenon
  <2>5. lines[pos + i] = [tag |-> i - 1, page |-> wrote[Ahead]]
    BY <2>3, <2>4, Zenon
  <2> QED
    BY <2>2, <2>5
<1> QED
  BY <1>1, <1>3, <1>4, <1>5

(* The first END ahead is that of the record ahead; there is none behind the *)
(* last record.                                                              *)
LEMMA NextEndIsRecords ==
    ASSUME TextTypes, RecordsInv, ReaderInv
    PROVE  NextEnd = IF Len(got) < Len(wrote) THEN pos + Size ELSE 0
<1> DEFINE rest == SubSeq(lines, pos + 1, Len(lines))
           I == {m \in 1 .. Len(rest) : rest[m].tag = End}
           k == IF I # {} THEN Min(I) ELSE 0
<1>1. NextEnd = IF k = 0 THEN 0 ELSE pos + k
  BY DEF NextEnd, SelectInSeq
<1>2. /\ Len(got) \in Nat /\ Len(wrote) \in Nat /\ Len(lines) \in Nat /\ Len(got) <= Len(wrote)
  BY DEF TextTypes, ReaderInv
<1> DEFINE placed == pos = Place(Len(got)) /\ Len(lines) = Place(Len(wrote))
<1>3. placed
  BY DEF ReaderInv, RecordsInv
<1>4. pos \in Nat
  BY <1>2, <1>3, RecordEnds
<1>5. pos <= Len(lines)
  <2>1. CASE Len(got) < Len(wrote)
    <3>1. pos + Size <= Len(lines)
      BY <2>1, LinesAhead
    <3> QED
      BY <1>2, <1>4, <3>1, SizeFact
  <2>2. CASE Len(got) = Len(wrote)
    BY <1>2, <1>4, <1>3, <2>2
  <2> QED
    BY <1>2, <2>1, <2>2
<1> HIDE DEF placed
<1>6. Len(rest) = Len(lines) - pos /\ \A m \in 1 .. Len(rest) : rest[m] = lines[pos + m]
  BY <1>2, <1>4, <1>5 DEF TextTypes
<1> HIDE DEF rest
<1>7. CASE Len(got) < Len(wrote)
  <2>1. pos + Size <= Len(lines) /\ \A m \in 1 .. Size : lines[pos + m].tag = m - 1
    BY <1>7, LinesAhead
  <2>2. Size <= Len(rest) /\ \A m \in 1 .. Size : rest[m].tag = m - 1
    <3>1. Size <= Len(rest)
      BY <1>2, <1>4, <1>6, <2>1, SizeFact
    <3>2. \A m \in 1 .. Size : m \in 1 .. Len(rest)
      BY <1>2, <1>4, <1>6, <3>1, SizeFact
    <3> QED
      BY <1>6, <2>1, <3>1, <3>2
  <2>3. Size \in I
    BY <1>2, <1>4, <1>6, <2>2, SizeFact
  <2>4. \A m \in I : Size <= m
    <3> SUFFICES ASSUME NEW m \in I, m < Size PROVE FALSE
      BY <1>2, <1>4, <1>6, SizeFact
    <3>1. m \in 1 .. Size /\ rest[m].tag = End
      BY <1>2, <1>4, <1>6, SizeFact
    <3> QED
      BY <2>2, <3>1, SizeFact
  <2>5. Min(I) = Size
    <3>1. \A m \in I : m \in Nat
      BY <1>2, <1>4, <1>6
    <3> HIDE DEF I
    <3>2. Min(I) \in I /\ \A m \in I : Min(I) <= m
      BY <2>3, <2>4 DEF Min
    <3>3. Min(I) \in Nat /\ Min(I) <= Size /\ Size <= Min(I)
      BY <2>3, <2>4, <3>1, <3>2, Zenon
    <3> QED
      BY <3>3, SizeFact
  <2> HIDE DEF I
  <2>6. k = Size /\ k # 0
    BY <2>3, <2>5, SizeFact
  <2> QED
    BY <1>1, <1>7, <2>6
<1>8. CASE ~ (Len(got) < Len(wrote))
  <2>1. Len(got) = Len(wrote)
    BY <1>2, <1>8
  <2>2. Len(rest) = 0
    BY <1>2, <1>4, <1>3, <1>6, <2>1 DEF placed
  <2>3. I = {}
    BY <2>2
  <2> QED
    BY <1>1, <1>8, <2>3
<1> QED
  BY <1>7, <1>8

(* What the reader makes of the record ahead is the page that was written.   *)
LEMMA ParsedIsPage ==
    ASSUME TextTypes, RecordsInv, ReaderInv, Len(got) < Len(wrote)
    PROVE  Parsed(pos + 1, pos + Size) = WholePage(wrote[Ahead])
<1> DEFINE rec == SubSeq(lines, pos + 1, pos + Size)
<1>1. lines \in Seq(Lines) /\ Size \in Nat \ {0} /\ Len(lines) \in Nat /\ Len(got) \in Nat
  BY SizeFact DEF TextTypes, ReaderInv
<1>2. pos \in Nat
  BY <1>1, RecordEnds DEF ReaderInv
<1>3. /\ pos + Size <= Len(lines)
      /\ \A m \in 1 .. Size : lines[pos + m].tag = m - 1 /\ lines[pos + m].page = wrote[Ahead]
  BY LinesAhead
<1>4. Len(rec) = Size /\ \A m \in 1 .. Size : rec[m] = lines[pos + m]
  BY <1>1, <1>2, <1>3
<1> HIDE DEF rec
<1>5. ASSUME NEW t \in 0 .. FieldLines PROVE Field(t, pos + 1, pos + Size) = wrote[Ahead]
  <2> DEFINE I == {m \in 1 .. Len(rec) : rec[m].tag = t}
             k == IF I # {} THEN Max(I) ELSE 0
  <2>1. Field(t, pos + 1, pos + Size) = IF k = 0 THEN None ELSE lines[pos + 1 + k - 1].page
    BY DEF Field, SelectLastInSeq, rec
  <2>2. \A m \in 1 .. Size : rec[m].tag = m - 1
    BY <1>4, <1>3
  <2>3. t + 1 \in 1 .. Size /\ t \in Nat
    BY SizeFact, TextAssumption
  <2>4. I = {t + 1}
    BY <1>1, <1>4, <2>2, <2>3
  <2>5. Max(I) = t + 1
    BY <2>3, <2>4 DEF Max
  <2>6. k = t + 1 /\ k # 0
    BY <2>3, <2>4, <2>5
  <2> HIDE DEF k
  <2>7. pos + 1 + k - 1 = pos + (t + 1)
    BY <1>2, <2>3, <2>6
  <2>8. lines[pos + (t + 1)].page = wrote[Ahead]
    BY <1>3, <2>3
  <2> QED
    BY <2>1, <2>6, <2>7, <2>8
<1>6. \A t \in 0 .. FieldLines : Field(t, pos + 1, pos + Size) = wrote[Ahead]
  BY <1>5
<1> QED
  BY <1>6, Zenon DEF Parsed, WholePage

(* A read returns the page ahead and leaves the reader behind its record; at *)
(* the end of the file it leaves the reader there.                           *)
LEMMA ReadRecordStep ==
    ASSUME Resync, TextInv, ReadRecord \/ ReadFails
    PROVE  TextInv'
<1>1. lines' = lines /\ wrote' = wrote
  BY DEF ReadRecord, ReadFails
<1>2. TextTypes'
  BY <1>1 DEF TextInv, TextTypes
<1>3. ASSUME Uncut' PROVE RecordsInv' /\ ReaderInv'
  <2>1. TextTypes /\ RecordsInv /\ ReaderInv
    BY <1>1, <1>3 DEF TextInv, Uncut
  <2>2. RecordsInv'
    BY <1>1, <2>1 DEF RecordsInv
  <2>3. /\ Len(got) \in Nat /\ Len(wrote) \in Nat /\ Len(got) <= Len(wrote)
        /\ got \in Seq(Texts)
    BY <2>1 DEF TextTypes, ReaderInv
  <2>4. CASE ReadRecord
    <3>1. NextEnd = pos + Size /\ Len(got) < Len(wrote)
      BY <2>1, <2>4, NextEndIsRecords DEF ReadRecord
    <3>2. got' = Append(got, WholePage(wrote[Ahead])) /\ pos' = Place(Len(got) + 1)
      BY <2>1, <2>4, <3>1, ParsedIsPage, LinesAhead DEF ReadRecord
    <3>3. WholePage(wrote[Ahead]) \in Texts
      BY <2>1, <3>1, LinesAhead DEF WholePage, Texts
    <3> DEFINE text == WholePage(wrote[Ahead])
    <3> HIDE DEF text
    <3>4. got' = Append(got, text) /\ text \in Texts
      BY <3>2, <3>3 DEF text
    <3>5. /\ got' \in Seq(Texts) /\ Len(got') = Len(got) + 1
          /\ \A k \in 1 .. Len(got) : got'[k] = got[k]
          /\ got'[Len(got) + 1] = text
      BY <2>3, <3>4
    <3>6. ASSUME NEW k \in 1 .. Len(got') PROVE got'[k] = WholePage(wrote'[k])
      <4>1. CASE k \in 1 .. Len(got)
        BY <1>1, <2>1, <3>5, <4>1 DEF ReaderInv
      <4>2. CASE k = Len(got) + 1
        BY <1>1, <3>5, <4>2, Zenon DEF text, Ahead
      <4>3. k \in 1 .. Len(got) \/ k = Len(got) + 1
        BY <2>3, <3>5
      <4> QED
        BY <4>1, <4>2, <4>3, Zenon
    <3>7. Len(got') <= Len(wrote') /\ pos' = Place(Len(got'))
      BY <1>1, <2>3, <3>1, <3>2, <3>5
    <3> QED
      BY <2>2, <3>5, <3>6, <3>7 DEF ReaderInv
  <2>5. CASE ReadFails
    <3>1. NextEnd = 0 /\ got' = got /\ pos' = Len(lines)
      BY <2>5 DEF ReadFails
    <3>2. ~ (Len(got) < Len(wrote))
      <4> SUFFICES ASSUME Len(got) < Len(wrote) PROVE FALSE
        OBVIOUS
      <4>1. NextEnd = pos + Size /\ pos \in Nat
        BY <2>1, <2>3, NextEndIsRecords, RecordEnds DEF ReaderInv
      <4> QED
        BY <3>1, <4>1, SizeFact
    <3>3. Len(got) = Len(wrote)
      BY <2>3, <3>2
    <3> QED
      BY <1>1, <2>1, <2>2, <3>1, <3>3 DEF ReaderInv, RecordsInv
  <2> QED
    BY <2>4, <2>5
<1> QED
  BY <1>2, <1>3 DEF TextInv

(* With a C library whose fclose gives back what the stream read ahead: as    *)
(* long as no write was cut short, successive calls of the reader return the  *)
(* pages written, in order and without a gap, for every page, every number   *)
(* of fields and every interleaving with the writer (backend.c:168-235).     *)
THEOREM TextReadInOrder ==
    ASSUME Resync
    PROVE  StorageSpec => []ReadsInOrder
<1>1. StorageInit => TextInv
  BY RecordEnds, SizeFact DEF StorageInit, TextInit, TextInv, TextTypes, RecordsInv, ReaderInv, Place
<1>2. TextInv /\ [StorageNext]_storageVars => TextInv'
  <2> SUFFICES ASSUME TextInv, [StorageNext]_storageVars PROVE TextInv'
    OBVIOUS
  <2>1. CASE \E p \in Pages : WriteRecord(p)
    BY <2>1, WriteRecordStep
  <2>2. CASE ReadRecord \/ ReadFails
    BY <2>2, ReadRecordStep
  <2>3. CASE UNCHANGED textVars
    BY <2>3 DEF textVars, TextInv, TextTypes, Uncut, RecordsInv, ReaderInv
  <2> QED
    BY <2>1, <2>2, <2>3 DEF StorageNext, storageVars, TextStep, TextNext
<1>3. TextInv => ReadsInOrder
  BY DEF TextInv, TextTypes, Uncut, ReaderInv, ReadsInOrder
<1> QED
  BY <1>1, <1>2, <1>3, PTL DEF StorageSpec
=============================================================================
