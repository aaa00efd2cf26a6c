------------------------------ MODULE Backend ------------------------------
(***************************************************************************)
(* The .vmem file of backend.c: creation, opening, page transfers, flush   *)
(* and close by one process, with the file as processes see it and as the  *)
(* disk holds it.  The process may be killed and the power may fail        *)
(* between any two system calls.                                           *)
(*                                                                         *)
(* The file is a function on 0 .. length - 1 in units of one page, which   *)
(* is also the size of the header (UFTA_HEADER_SIZE and                    *)
(* UFTA_PAGE_SIZE_DEFAULT are both 4096): unit 0 is the header, all the    *)
(* fields of which but page_count stay what backend_create wrote.          *)
(***************************************************************************)
EXTENDS Integers, FiniteSets

CONSTANTS PageIds,   \* ids of the page table's pages
          Values,    \* contents of a page
          Zero,      \* the content of a hole
          Torn,      \* a page of which only a part was written
          Absent,    \* no page, or no content
          Total,     \* total_size, in units
          Spans,     \* sizes given to backend_write_page, in units
          Faults     \* the calls that may fail in this environment

FaultSites == {"create_open", "create_write", "create_extend", "open", "read",
               "header_write", "page_write", "fsync"}

ASSUME BackendAssumption ==
    /\ PageIds \subseteq Nat \ {0} /\ Zero \in Values
    /\ Absent # Torn /\ {Absent, Torn} \cap Values = {}
    /\ Total \in Nat /\ Spans \subseteq Nat \ {0} /\ Faults \subseteq FaultSites

VARIABLES
    cached,   \* the file as read and write see it
    durable,  \* the file as a restart after a power failure finds it
    cut,      \* the truncation of open(O_TRUNC) is not on the disk yet
    be,       \* the backend_t of the process
    step,     \* where the process is inside an operation, or "idle"
    ram,      \* the page table: contents in memory of its pages, or Absent
    written,  \* (history) what was last written to a page of the file
    saved     \* (history) what the file may hold since the last good flush

fileVars == <<cached, durable, cut>>
backendVars == <<fileVars, be, step, ram, written, saved>>

Fails(site) == site \in Faults

-----------------------------------------------------------------------------
(* Files                                                                   *)

Empty == [u \in {} |-> Zero]                 \* also: no file

Header(n) == <<"UFTA", n>>                   \* magic and page_count
HasHeader(file, counts) == 0 \in DOMAIN file /\ \E n \in counts: file[0] = Header(n)

\* write at unit u, n units long: the file grows, holes are zero.
Put(file, u, n, x) ==
    [v \in DOMAIN file \cup 0 .. u + n - 1 |->
        IF v \in u .. u + n - 1 THEN x
        ELSE IF v \in DOMAIN file THEN file[v] ELSE Zero]

\* ftruncate to a larger size.
Grow(file, n) == Put(file, n, 0, Zero)

\* Mutant: the data region starts where the header does.
OffsetFromStart(id) == id - 1

\* data_offset + (id - 1) * page_size
Offset(id) == 1 + (id - 1)

\* backend_read_page of one unit: UFTA_ERR_IO past the end of the file.
ReadPage(file, id) == IF Offset(id) \in DOMAIN file THEN file[Offset(id)] ELSE Absent

PageCount == Cardinality({id \in PageIds: ram[id] # Absent})    \* pt->count

-----------------------------------------------------------------------------
(* The process's structure.  fd is "wild" while nothing was assigned to it, *)
(* "none" for -1, "stale" once its descriptor is closed and still kept.     *)

Uninitialised == [fd |-> "wild", count |-> 0]

NotSaved == [counts |-> {}, data |-> [id \in PageIds |-> {}]]

BackendInit ==
    /\ cached = Empty /\ durable = Empty /\ cut = FALSE
    /\ be = Uninitialised /\ step = "idle"
    /\ ram = [id \in PageIds |-> Absent]
    /\ written = [id \in PageIds |-> Absent]
    /\ saved = NotSaved

-----------------------------------------------------------------------------
(* backend_create: open(O_CREAT | O_TRUNC), write the header, ftruncate.     *)
(* A step that fails leaves the file as the steps before it made it.         *)

CreateOpen ==
    /\ step = "idle" /\ be.fd # "open"
    /\ cached' = Empty /\ cut' = TRUE
    /\ written' = [id \in PageIds |-> Absent] /\ saved' = NotSaved
    /\ step' = "create_write"
    /\ UNCHANGED <<durable, be, ram>>

CreateWrite ==
    /\ step = "create_write"
    /\ \/ cached' = Put(cached, 0, 1, Header(0)) /\ step' = "create_extend"
       \/ Fails("create_write") /\ step' = "idle" /\ UNCHANGED cached
    /\ UNCHANGED <<durable, cut, be, ram, written, saved>>

CreateExtend ==
    /\ step = "create_extend"
    /\ \/ Total > 1 /\ cached' = Grow(cached, Total)
       \/ (Total <= 1 \/ Fails("create_extend")) /\ UNCHANGED cached
    /\ step' = "idle"
    /\ UNCHANGED <<durable, cut, be, ram, written, saved>>

\* backend_open clears the structure first.  A header that cannot be read or
\* has another magic closes the descriptor, which the structure keeps.
Open ==
    /\ step = "idle" /\ be.fd # "open"
    /\ \/ HasHeader(cached, 0 .. Cardinality(PageIds))
             /\ be' = [fd |-> "open", count |-> cached[0][2]]
       \/ (~HasHeader(cached, 0 .. Cardinality(PageIds)) \/ Fails("read"))
             /\ be' = [fd |-> "stale", count |-> 0]
       \/ Fails("open") /\ be' = [fd |-> "none", count |-> 0]
    /\ UNCHANGED <<fileVars, step, ram, written, saved>>

\* backend_close: what is mapped is never set.
Close ==
    /\ step = "idle" /\ be.fd = "open"
    /\ be' = [be EXCEPT !.fd = "none"]
    /\ UNCHANGED <<fileVars, step, ram, written, saved>>

\* backend_write_page of a page of the table: nobody compares the size with
\* page_size, and a short write is reported when a part is in the file.
WritePage(id, n) ==
    /\ step = "idle" /\ be.fd = "open" /\ ram[id] # Absent
    /\ \/ /\ cached' = Put(cached, Offset(id), n, ram[id])
          /\ written' = [written EXCEPT ![id] = ram[id]]
          /\ saved' = [saved EXCEPT !.data[id] = IF @ = {} THEN @ ELSE @ \cup {ram[id]}]
       \/ /\ Fails("page_write")
          /\ cached' = Put(cached, Offset(id), n, Torn)
          /\ written' = [written EXCEPT ![id] = Absent]
          /\ saved' = [saved EXCEPT !.data[id] = IF @ = {} THEN @ ELSE @ \cup {Torn}]
    /\ UNCHANGED <<durable, cut, be, step, ram>>

-----------------------------------------------------------------------------
(* backend_flush: backend_sync_metadata rewrites the header and does not look *)
(* at the result; then fsync.                                                *)

FlushHeader ==
    /\ step = "idle" /\ be.fd = "open"
    /\ be' = [be EXCEPT !.count = PageCount]
    /\ \/ /\ cached' = Put(cached, 0, 1, Header(PageCount))
          /\ saved' = [saved EXCEPT !.counts = IF @ = {} THEN @ ELSE @ \cup {PageCount}]
       \/ Fails("header_write") /\ UNCHANGED <<cached, saved>>
    /\ step' = "sync"
    /\ UNCHANGED <<durable, cut, ram, written>>

\* Mutant: the flush trusts the page cache.
FlushUnsynced ==
    /\ step = "sync"
    /\ step' = "idle"
    /\ saved' = [counts |-> {be.count}, data |-> [id \in PageIds |-> {written[id]} \ {Absent}]]
    /\ UNCHANGED <<fileVars, be, ram, written>>

FlushSync ==
    /\ step = "sync"
    /\ step' = "idle"
    /\ \/ /\ durable' = cached /\ cut' = FALSE
          /\ saved' = [counts |-> {be.count},
                       data |-> [id \in PageIds |-> {written[id]} \ {Absent}]]
       \/ Fails("fsync") /\ UNCHANGED <<durable, cut, saved>>
    /\ UNCHANGED <<cached, be, ram, written>>

-----------------------------------------------------------------------------
(* The application's pages, the kernel, and the ends of the process.         *)

Modify(id, v) ==
    /\ step = "idle" /\ ram[id] # v
    /\ ram' = [ram EXCEPT ![id] = v]
    /\ UNCHANGED <<fileVars, be, step, written, saved>>

\* The kernel writes back in any order, a truncation before anything else;
\* the length may reach the disk before the contents.
WriteBack ==
    /\ \/ cut /\ durable' = Empty /\ cut' = FALSE
       \/ ~cut /\ durable # cached /\ UNCHANGED cut
          /\ \/ \E u \in DOMAIN cached: durable' = Put(durable, u, 1, cached[u])
             \/ DOMAIN durable # DOMAIN cached
                  /\ durable' = Grow(durable, Cardinality(DOMAIN cached))
    /\ UNCHANGED <<cached, be, step, ram, written, saved>>

LoseMemory ==
    /\ be' = Uninitialised /\ step' = "idle"
    /\ ram' = [id \in PageIds |-> Absent]

Kill ==
    /\ LoseMemory
    /\ UNCHANGED <<fileVars, written, saved>>

PowerFailure ==
    /\ LoseMemory
    /\ cached' = durable /\ cut' = FALSE
    /\ written' = [id \in PageIds |-> ReadPage(durable, id)]
    /\ UNCHANGED <<durable, saved>>

-----------------------------------------------------------------------------
Operation ==
    \/ CreateOpen \/ CreateWrite \/ CreateExtend \/ Open \/ Close
    \/ FlushHeader \/ FlushSync
    \/ \E id \in PageIds, n \in Spans: WritePage(id, n)
    \/ \E id \in PageIds, v \in Values: Modify(id, v)

Environment == WriteBack \/ Kill \/ PowerFailure

BackendNext == Operation \/ Environment

BackendSpec == BackendInit /\ [][BackendNext]_backendVars

-----------------------------------------------------------------------------
(* Properties                                                              *)

(* What backend_flush reported as flushed survives a killed process and a    *)
(* power failure at any point, during a later write or flush too: a restart  *)
(* finds the page count of the header (backend.c:137-147), that of the flush *)
(* or of one begun since, and in each page written before the flush its      *)
(* content then or a later one (backend.c:108-133).                          *)
FlushedSurvives ==
    saved # NotSaved =>
        /\ HasHeader(durable, saved.counts)
        /\ \A id \in PageIds: saved.data[id] # {} =>
              ReadPage(durable, id) \in saved.data[id]

(* A page reads back as it was last written, in the process that wrote it or *)
(* a later one, whatever was written, flushed or grown since: writes to      *)
(* other pages and to the header stay off it (backend.c:95-120).             *)
ReadBack ==
    \A id \in PageIds: written[id] # Absent => ReadPage(cached, id) = written[id]

(* "Flush dirty pages to disk" (backend.h:90): after a flush that succeeds,  *)
(* the file holds the contents of the pages of the table.                    *)
PagesFlushed ==
    [][step = "sync" /\ durable' = cached' /\ step' = "idle" /\ be'.fd = "open" =>
        \A id \in PageIds: ram[id] # Absent => ReadPage(durable', id) = ram[id]]_backendVars
=============================================================================
