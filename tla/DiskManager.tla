----------------------------- MODULE DiskManager -----------------------------
(***************************************************************************)
(* MiniSQL's disk manager (storage/disk_manager.cpp): a database file of   *)
(* physical pages, the copy of the meta page kept in memory, and the       *)
(* allocation of logical pages through one free-page bitmap per extent.    *)
(*                                                                         *)
(* The content of a physical page is a value its last writer stored there: *)
(* a member of Data for WritePage, a bitmap for the allocator.  What the   *)
(* other kind of reader would see is AsBitmap and Data-ness, so a page     *)
(* that two kinds of writer share is modelled, not excluded.  The values   *)
(* of the two kinds are told apart, as their writers are.                  *)
(*                                                                         *)
(* AllocatePage chooses the extent by a count that the constructor starts  *)
(* at zero again and that any release decrements.  How much of its promise *)
(* it keeps depends on what its clients do; the history variable client    *)
(* says which kind the file has:                                           *)
(*   "careful"    hold fewer pages than one extent has, and allocate only  *)
(*                while they have not released more pages than they        *)
(*                allocated since the file was opened;                     *)
(*   "appending"  only allocate, into as many extents as there are;        *)
(*   "any"        do what the code allows: the run disk_after_restart      *)
(*                shows one of the things that then go wrong.              *)
(***************************************************************************)
EXTENDS Bitmap

CONSTANTS
  Data,             (* Page contents that clients write.                   *)
  ZeroPage,         (* The all-zero page, what is read beyond the file.    *)
  ReadAsBitmap,     (* The bitmap that each client page reads as.          *)
  Word,             (* uint32_t arithmetic is modulo Word (2^32).          *)
  MaxExtents,       (* The size of extent_used_page_: 1000 in the code.    *)
  Uninitialised,    (* Bound: values that a page_offset never assigned may *)
                    (* have, among those that name a page of an extent.    *)
  MaxPages,         (* Bound: pages that each kind of client holds at the  *)
                    (* same time.                                          *)
  Operations        (* Bound: the optional operations, among "free",       *)
                    (* "write" and "reopen", that each kind of client      *)
                    (* uses.                                               *)

ASSUME DiskAssumption ==
  /\ ZeroPage \in Data
  /\ ReadAsBitmap \in [Data -> BitmapType]
  /\ ReadAsBitmap[ZeroPage] = ZeroBitmap
  /\ \A d \in Data : d \notin BitmapType
  /\ MaxExtents \in Nat \ {0}
  /\ Word \in Nat /\ Word >= 2 * (MaxExtents * BITMAP_SIZE)
  /\ Uninitialised \subseteq Offsets /\ Uninitialised # {}
  /\ DOMAIN Operations \subseteq {"careful", "appending", "any"}
  /\ \A c \in DOMAIN Operations : /\ Operations[c] \subseteq {"free", "write", "reopen"}
                                  /\ MaxPages[c] \in 0 .. MaxExtents * BITMAP_SIZE
  /\ "appending" \in DOMAIN Operations => Operations["appending"] = {}

VARIABLES
  file,             (* The database file: physical page -> content.        *)
  failed,           (* db_io_.fail(): a seek before the file's beginning   *)
                    (* failed, and nothing clears the stream.              *)
  meta,             (* meta_data_, the meta page in memory.                *)
  held,             (* History: logical pages allocated and not freed.     *)
  written,          (* History: what the holder of a page wrote last.      *)
  missed,           (* History: how many pages were held when the file was *)
                    (* opened, which num_allocated_pages_ does not count.  *)
  client,           (* History: what kind of clients the file has.         *)
  reply             (* The last call and the page it returned or took.     *)

vars == <<file, failed, meta, held, written, missed, client, reply>>

META_PAGE_ID == 0

(* The extents that the meta page has room for. *)
Extents == 0 .. MaxExtents - 1

LogicalPages == 0 .. MaxExtents * BITMAP_SIZE - 1

(* What AllocatePage returns for an extent beyond these: a negative number *)
(* (-16384 and above in the code).                                         *)
NoPage == -1

(* Mutant: forgets the bitmap page of the extent. *)
MapPageIdOffByOne(logical_page_id) ==
  (BITMAP_SIZE + 1) * (logical_page_id \div BITMAP_SIZE)
    + (logical_page_id % BITMAP_SIZE) + 1

(* BITMAP_SIZE + 1 physical pages to an extent, after the meta page and    *)
(* the first bitmap.                                                       *)
MapPageId(logical_page_id) ==
  (BITMAP_SIZE + 1) * (logical_page_id \div BITMAP_SIZE)
    + (logical_page_id % BITMAP_SIZE) + 2

(* Where AllocatePage, DeAllocatePage and IsPageFree look for the bitmap.  *)
BitmapPhysicalPage(extent_id) == extent_id * BITMAP_SIZE + 1

PhysicalPages == 0 .. (BITMAP_SIZE + 1) * MaxExtents

(* ReadPhysicalPage and WritePhysicalPage: on a stream that has failed     *)
(* nothing is read, which leaves zeros, and nothing is written.            *)
ReadPhysicalPage(q) == IF failed THEN ZeroPage ELSE file[q]

WritePhysicalPage(q, content) ==
  file' = IF failed THEN file ELSE [file EXCEPT ![q] = content]

(* reinterpret_cast<BitmapPage *> of what ReadPhysicalPage returned. *)
AsBitmap(content) ==
  IF content \in Data THEN ReadAsBitmap[content] ELSE content

BitmapOf(extent_id) == AsBitmap(ReadPhysicalPage(BitmapPhysicalPage(extent_id)))

DiskIsPageFree(p) ==
  IsPageFree(BitmapOf(p \div BITMAP_SIZE), p % BITMAP_SIZE)

(* The meta page that the constructor finds in a page of zeros. *)
ZeroMeta == [num_allocated_pages_ |-> 0,
             num_extents_         |-> 0,
             extent_used_page_    |-> [e \in Extents |-> 0]]

NotWritten == "not written"

Init ==
  /\ file = [p \in PhysicalPages |-> ZeroPage]
  /\ failed = FALSE
  /\ meta = ZeroMeta
  /\ held = {}
  /\ written = [p \in LogicalPages |-> NotWritten]
  /\ missed = 0
  /\ client \in DOMAIN Operations
  /\ reply = [op |-> "open", page |-> 0]
-----------------------------------------------------------------------------
(***************************************************************************)
(* AllocatePage: the extent is chosen by the number of allocated pages,    *)
(* the result of the bitmap's AllocatePage is not looked at, and the       *)
(* bitmap is written back.  page_offset is what the bitmap assigned, or    *)
(* keeps the value it happened to have when the bitmap was full.           *)
(***************************************************************************)
PageOffsets(bitmap) ==
  IF IsFull(bitmap) THEN Uninitialised ELSE {AllocatedOffset(bitmap)}

AllocatedMeta(extent_id, used) ==
  [num_allocated_pages_ |-> (meta.num_allocated_pages_ + 1) % Word,
   num_extents_         |-> extent_id + 1,
   extent_used_page_    |-> used]

AllocateIn(extent_id, page_offset) ==
  LET bitmap == AfterAllocate(BitmapOf(extent_id))
      logical_page_id == page_offset + extent_id * BITMAP_SIZE
  IN
  /\ WritePhysicalPage(BitmapPhysicalPage(extent_id), bitmap)
  /\ meta' = AllocatedMeta(extent_id, [meta.extent_used_page_ EXCEPT
                                         ![extent_id] = bitmap.page_allocated_])
  /\ held' = held \cup {logical_page_id}
  /\ written' = [written EXCEPT ![logical_page_id] = NotWritten]
  /\ reply' = [op |-> "allocate", page |-> logical_page_id]
  /\ UNCHANGED <<failed, missed, client>>

(* A count that has wrapped below zero selects an extent beyond the meta   *)
(* page: its bitmap is looked for before the beginning of the file, which  *)
(* fails the stream, and extent_used_page_ is written out of bounds.       *)
(* Besides ending the program, after which Reopen is next, and going on    *)
(* with the failed stream, that write may change any memory, which is not  *)
(* represented.                                                            *)
AllocateOutOfBounds(extent_id) ==
  /\ failed' = TRUE
  /\ meta' = AllocatedMeta(extent_id, meta.extent_used_page_)
  /\ reply' = [op |-> "allocate", page |-> NoPage]
  /\ UNCHANGED <<file, held, written, missed, client>>

(* Allocations less releases since the file was opened. *)
Balance == Cardinality(held) - missed

(* What the clients keep to; MaxPages is the bound.                        *)
MayAllocate ==
  /\ Cardinality(held) < MaxPages[client]
  /\ client = "careful" => Cardinality(held) + 1 < BITMAP_SIZE /\ Balance >= 0

AllocatePage ==
  LET extent_id == meta.num_allocated_pages_ \div BITMAP_SIZE IN
  /\ MayAllocate
  /\ \/ /\ extent_id \in Extents
        /\ \E page_offset \in PageOffsets(BitmapOf(extent_id)) :
             AllocateIn(extent_id, page_offset)
     \/ /\ extent_id \notin Extents
        /\ AllocateOutOfBounds(extent_id)

(* DeAllocatePage: the count goes down whether or not the bitmap agreed.   *)
DeAllocateMeta(extent_id, bitmap) ==
  LET count == (meta.num_allocated_pages_ + Word - 1) % Word IN
  [num_allocated_pages_ |-> count,
   num_extents_         |-> count \div BITMAP_SIZE + 1,
   extent_used_page_    |->
     [meta.extent_used_page_ EXCEPT ![extent_id] = bitmap.page_allocated_]]

(* Clients release the pages they hold, whenever they allocated them.      *)
MayFree(logical_page_id) ==
  /\ "free" \in Operations[client]
  /\ logical_page_id \in held

(* Mutant: the bitmap stays in page_data. *)
DeAllocatePageNotWrittenBack(logical_page_id) ==
  LET extent_id == logical_page_id \div BITMAP_SIZE
      bitmap == AfterDeAllocate(BitmapOf(extent_id), logical_page_id % BITMAP_SIZE)
  IN
  /\ MayFree(logical_page_id)
  /\ meta' = DeAllocateMeta(extent_id, bitmap)
  /\ held' = held \ {logical_page_id}
  /\ reply' = [op |-> "free", page |-> logical_page_id]
  /\ UNCHANGED <<file, failed, written, missed, client>>

DeAllocatePage(logical_page_id) ==
  LET extent_id == logical_page_id \div BITMAP_SIZE
      bitmap == AfterDeAllocate(BitmapOf(extent_id), logical_page_id % BITMAP_SIZE)
  IN
  /\ MayFree(logical_page_id)
  /\ WritePhysicalPage(BitmapPhysicalPage(extent_id), bitmap)
  /\ meta' = DeAllocateMeta(extent_id, bitmap)
  /\ held' = held \ {logical_page_id}
  /\ written' = [written EXCEPT ![logical_page_id] = NotWritten]
  /\ reply' = [op |-> "free", page |-> logical_page_id]
  /\ UNCHANGED <<failed, missed, client>>

ReadPage(logical_page_id) == ReadPhysicalPage(MapPageId(logical_page_id))

WritePage(logical_page_id, page_data) ==
  /\ "write" \in Operations[client]
  /\ logical_page_id \in held
  /\ WritePhysicalPage(MapPageId(logical_page_id), page_data)
  /\ written' = [written EXCEPT ![logical_page_id] = page_data]
  /\ reply' = [op |-> "write", page |-> logical_page_id]
  /\ UNCHANGED <<failed, meta, held, missed, client>>

(* Close, or a crash, and the constructor on the same file: the meta page  *)
(* is read from physical page META_PAGE_ID, where nobody ever wrote it.    *)
(* Every write has been flushed.                                           *)
MetaOf(content) == IF content = ZeroPage THEN ZeroMeta ELSE content

Reopen ==
  /\ "reopen" \in Operations[client]
  /\ failed' = FALSE
  /\ meta' = MetaOf(file[META_PAGE_ID])
  /\ missed' = Cardinality(held)
  /\ reply' = [op |-> "open", page |-> 0]
  /\ UNCHANGED <<file, held, written, client>>

Next ==
  \/ AllocatePage
  \/ \E p \in held : DeAllocatePage(p)
  \/ \E p \in held, d \in Data : WritePage(p, d)
  \/ Reopen

Spec == Init /\ [][Next]_vars
-----------------------------------------------------------------------------
(* Every page of the file holds client data or a well-formed bitmap, and   *)
(* the meta page's counters stay in the range of their C types.            *)
TypeOK ==
  /\ file \in [PhysicalPages -> Data \cup BitmapType]
  /\ failed \in BOOLEAN
  /\ meta \in [num_allocated_pages_ : 0 .. Word - 1,
               num_extents_         : Nat,
               extent_used_page_    : [Extents -> 0 .. BITMAP_SIZE]]
  /\ held \subseteq LogicalPages
  /\ written \in [LogicalPages -> Data \cup {NotWritten}]
  /\ missed \in Nat
  /\ client \in DOMAIN Operations

(* `Get next free page from disk' (disk_manager.h): AllocatePage returns a *)
(* page of the file that nobody holds.  Not what the code does for clients *)
(* of every kind: it goes by a count that a restart resets (run            *)
(* disk_after_restart) and that does not say which extent has a free page. *)
AllocatesFreePage ==
  [][reply'.op = "allocate" => reply'.page \in LogicalPages \ held]_vars

(* A page read back is the page its holder wrote last: nobody else writes  *)
(* to its place in the file, as the layout in disk_manager.h has it, where *)
(* a bitmap follows the pages of an extent.  Not what the code does: it    *)
(* keeps the next extent's bitmap in the place of an extent's last page.   *)
(* ReadsLastWrite says it of careful clients, who do not get that far.     *)
EveryReadsLastWrite ==
  \A p \in held : written[p] # NotWritten => ReadPage(p) = written[p]

(* The clients for whom the allocator keeps its promises. *)
Orderly == client \in {"careful", "appending"}

(* The bitmaps on disk say exactly which pages are held, so that the       *)
(* allocator's state survives whatever happens to the copy in memory.      *)
BitmapsMatchHeld ==
  \A p \in LogicalPages : DiskIsPageFree(p) <=> p \notin held

(* The meta page in memory counts allocations less releases since the file *)
(* was opened, a negative balance wrapping round, and, when no page was    *)
(* held then, the pages that each extent's bitmap marks.                   *)
MetaCountsPages ==
  /\ meta.num_allocated_pages_ = IF Balance >= 0 THEN Balance ELSE Balance + Word
  /\ missed = 0 =>
       \A e \in Extents : meta.extent_used_page_[e] = Cardinality(BitmapOf(e).bytes)

(* Bitmaps on disk and counters in memory describe the pages that careful  *)
(* clients hold, after any order of their allocations, releases (also of   *)
(* pages allocated before a restart) and openings of the file, and those   *)
(* of appending clients in every extent.                                   *)
AllocationConsistent == Orderly => TypeOK /\ BitmapsMatchHeld /\ MetaCountsPages

(* A careful client, who never holds the last page of an extent, reads     *)
(* back what it wrote last, also after a restart.                          *)
ReadsLastWrite == Orderly => EveryReadsLastWrite
=============================================================================
