----------------------------- MODULE TableHeap -----------------------------
(***************************************************************************)
(* A MiniSQL table heap (storage/table_heap.cpp): a chain of slotted pages *)
(* that are reached through the buffer pool, and the iterator that scans   *)
(* it (storage/table_iterator.cpp) while the rows it stands on are deleted *)
(* and others are inserted or moved.                                       *)
(*                                                                         *)
(* A page is its slot directory and its next pointer; TablePage, which     *)
(* checks the bytes, justifies counting the free space here.  A row is     *)
(* represented by its serialized size, 0 stands for an empty slot, and     *)
(* slots are numbered from 1.  mem[p] is what FetchPage(p) returns, disk[p]*)
(* what a page has on disk; the pool may drop a page from memory between   *)
(* any two operations, and writes it out only if it was unpinned as dirty. *)
(***************************************************************************)
EXTENDS Integers, Sequences, FiniteSetsExt

CONSTANTS
  PageSpace,        (* Bytes of a page behind its header.                  *)
  SIZE_TUPLE,
  Rows,             (* Sizes that a row may serialize to.                  *)
  LastPageId,       (* Bound: the disk has the pages 0..LastPageId.        *)
  MaxSlots          (* Bound: slots in use in all pages together.          *)

PageIds == 0 .. LastPageId
INVALID_PAGE_ID == -1

(* A row fits into an empty page: InsertTuple appends pages for ever when  *)
(* it does not.                                                            *)
ASSUME TableHeapAssumption ==
  /\ PageSpace \in Nat /\ SIZE_TUPLE \in Nat \ {0}
  /\ LastPageId \in Nat \ {0} /\ MaxSlots \in Nat
  /\ Rows \subseteq Nat \ {0}
  /\ \A r \in Rows : r + SIZE_TUPLE <= PageSpace

VARIABLES
  mem, disk,        (* page id -> page, in the pool and on disk.           *)
  dirty,            (* Pages that the pool has to write out.               *)
  allocated,        (* Pages that the disk manager has given out.          *)
  first_page_id_, insert_page_id_,
  itr,              (* The iterator: its RowId.                            *)
  freeing,          (* FreeHeap: "no", "running" or "done".                *)
  owned,            (* History: the pages of the heap that FreeHeap frees. *)
  cur_page_id,      (* FreeHeap's local variable.                          *)
  rows,             (* History: row id -> the row the table should have.   *)
  strays,           (* History: rows that UpdateTuple marked in a page     *)
                    (* that it then unpinned as clean.                     *)
  lost,             (* History: rows that a refused UpdateTuple took out   *)
                    (* of the table.                                       *)
  owed              (* History of the scan: the rows that were in the      *)
                    (* table ever since Begin and are not yet returned.    *)

pageVars == <<mem, disk, dirty, allocated>>
scanVars == <<itr, owed>>
freeVars == <<freeing, cur_page_id, owned>>
histVars == <<rows, strays, lost>>
vars == <<pageVars, first_page_id_, insert_page_id_, scanVars, freeVars, histVars>>

(* Page 0 holds the catalog.  A page that was never written reads as zero. *)
ZeroPage == [next |-> 0, slots |-> <<>>]
FreshPage == [next |-> INVALID_PAGE_ID, slots |-> <<>>]
EndItr == <<INVALID_PAGE_ID, 0>>

(* The constructor that creates the heap. *)
Init ==
  /\ first_page_id_ = 1 /\ insert_page_id_ = 1
  /\ allocated = {0, 1}
  /\ disk = [p \in PageIds |-> ZeroPage]
  /\ mem = [disk EXCEPT ![1] = FreshPage]
  /\ dirty = {1}
  /\ itr = EndItr /\ owed = {}
  /\ freeing = "no" /\ cur_page_id = INVALID_PAGE_ID /\ owned = {}
  /\ rows = [rid \in {} |-> 0] /\ strays = {} /\ lost = {}
-----------------------------------------------------------------------------
(* TablePage's operations on a page. *)
IsDeleted(slot) == slot.deleted \/ slot.row = 0

FreeSpace(page) ==
  PageSpace - SIZE_TUPLE * Len(page.slots)
    - MapThenSumSet(LAMBDA i : page.slots[i].row, DOMAIN page.slots)

HasRoom(page, r) == FreeSpace(page) >= r + SIZE_TUPLE

SlotFor(page) == Min({i \in DOMAIN page.slots : page.slots[i].row = 0}
                       \cup {Len(page.slots) + 1})

WithSlot(page, i, slot) ==
  [page EXCEPT !.slots = [k \in DOMAIN page.slots \cup {i} |->
                            IF k = i THEN slot ELSE page.slots[k]]]

(* What changes in page p's slot i: MarkDelete, RollbackDelete, ApplyDelete*)
(* and a replacement in place.                                             *)
WithMark(m, p, i, mark) ==
  [m EXCEPT ![p] = WithSlot(@, i, [row |-> @.slots[i].row, deleted |-> mark])]

WithRow(p, i, r) == [mem EXCEPT ![p] = WithSlot(@, i, [row |-> r, deleted |-> FALSE])]

LiveSlots(p) == {i \in DOMAIN mem[p].slots : ~IsDeleted(mem[p].slots[i])}

(* The page n steps down the chain from page p. *)
Chain(p) ==
  LET at[n \in 0 .. LastPageId + 1] ==
        IF n = 0 THEN p
        ELSE IF at[n - 1] = INVALID_PAGE_ID THEN INVALID_PAGE_ID
        ELSE mem[at[n - 1]].next
  IN at
-----------------------------------------------------------------------------
(* A scan need not return a row that is deleted or moved while it runs.    *)
Forget(rid) == /\ owed' = owed \ {rid}
               /\ UNCHANGED itr

Remember(rid, r) == [k \in DOMAIN rows \cup {rid} |-> IF k = rid THEN r ELSE rows[k]]
Without(f, rid) == [k \in DOMAIN f \ {rid} |-> f[k]]

(* The row at rid is now what the caller asked for. *)
Settle(rid) == /\ strays' = strays \ {rid}
               /\ lost' = lost \ {rid}

Idle == freeing = "no"
-----------------------------------------------------------------------------
(***************************************************************************)
(* InsertTuple: the first page with room, from insert_page_id_ on down the *)
(* chain, or a new page at its end.  An insert that is refused (NewPage    *)
(* finds every frame pinned) and an update of a slot that is empty, marked *)
(* or missing change nothing.                                              *)
(***************************************************************************)
PagesWithRoom(r) ==
  LET path == Chain(insert_page_id_) IN
  {n \in 0 .. LastPageId : path[n] # INVALID_PAGE_ID /\ HasRoom(mem[path[n]], r)}

LastOfChain ==
  LET path == Chain(insert_page_id_) IN
  path[Max({n \in 0 .. LastPageId : path[n] # INVALID_PAGE_ID})]

SlotsInUse == MapThenSumSet(LAMBDA p : Len(mem[p].slots), PageIds)

CanInsert(r) ==
  /\ PagesWithRoom(r) # {} \/ allocated # PageIds
  /\ SlotsInUse < MaxSlots

(* A new page at the end of the chain. *)
Linked(new) == [mem EXCEPT ![LastOfChain].next = new, ![new] = FreshPage]

(* Mutant: the page that gets the new link is unpinned as clean. *)
LinkDirtiesNew(new) == {new}

LinkDirties(new) == {LastOfChain, new}

(* Where the row goes: the page, memory and dirty pages before the row is  *)
(* put there, and the row id it gets.                                      *)
Place(r) ==
  LET fit == PagesWithRoom(r)
      p == IF fit # {} THEN Chain(insert_page_id_)[Min(fit)] ELSE Min(PageIds \ allocated)
      m == IF fit # {} THEN mem ELSE Linked(p)
  IN [page |-> p, mem |-> m, slot |-> SlotFor(m[p]),
      dirty |-> IF fit # {} THEN {p} ELSE LinkDirties(p)]

(* The row is put there; m is the memory with what the caller changed.     *)
PutRow(m, at, r) ==
  /\ mem' = [m EXCEPT ![at.page] = WithSlot(@, at.slot, [row |-> r, deleted |-> FALSE])]
  /\ insert_page_id_' = at.page
  /\ dirty' = dirty \cup at.dirty
  /\ allocated' = allocated \cup {at.page}

InsertTuple(r) ==
  /\ Idle /\ CanInsert(r)
  /\ LET at == Place(r)
         rid == <<at.page, at.slot>>
     IN /\ PutRow(at.mem, at, r)
        /\ rows' = Remember(rid, r)
        /\ Settle(rid)
  /\ UNCHANGED <<disk, first_page_id_, scanVars, freeVars>>

(* MarkDelete returns true and dirties the page whatever the page says. *)
MarkDelete(rid) ==
  /\ Idle
  /\ mem' = IF rid[2] \in LiveSlots(rid[1]) THEN WithMark(mem, rid[1], rid[2], TRUE) ELSE mem
  /\ dirty' = dirty \cup {rid[1]}
  /\ rows' = Without(rows, rid)
  /\ Settle(rid)
  /\ Forget(rid)
  /\ UNCHANGED <<disk, allocated, first_page_id_, insert_page_id_, freeVars>>

RollbackDelete(rid) ==
  /\ Idle
  /\ rid[2] \in DOMAIN mem[rid[1]].slots
  /\ mem[rid[1]].slots[rid[2]].deleted
  /\ mem' = WithMark(mem, rid[1], rid[2], FALSE)
  /\ dirty' = dirty \cup {rid[1]}
  /\ rows' = Remember(rid, mem[rid[1]].slots[rid[2]].row)
  /\ Settle(rid)
  /\ UNCHANGED <<disk, allocated, first_page_id_, insert_page_id_, scanVars, freeVars>>

(* ApplyDelete, of a row that is marked or not. *)
ApplyDelete(rid) ==
  /\ Idle
  /\ rid[2] \in DOMAIN mem[rid[1]].slots
  /\ mem[rid[1]].slots[rid[2]].row # 0
  /\ mem' = WithRow(rid[1], rid[2], 0)
  /\ dirty' = dirty \cup {rid[1]}
  /\ rows' = Without(rows, rid)
  /\ Settle(rid)
  /\ Forget(rid)
  /\ UNCHANGED <<disk, allocated, first_page_id_, insert_page_id_, freeVars>>

(***************************************************************************)
(* UpdateTuple.  A row that no longer fits into its page is marked there   *)
(* and inserted anew; the page with the mark is unpinned as clean.         *)
(***************************************************************************)
FitsInPlace(rid, r) ==
  FreeSpace(mem[rid[1]]) + mem[rid[1]].slots[rid[2]].row >= r

(* The mark in a page that is clean may be lost. *)
Strayed(rid) == IF rid[1] \in dirty THEN strays ELSE strays \cup {rid}

(* Mutant: the page is unpinned as clean. *)
UpdateInPlaceClean(rid, r) ==
  /\ Idle
  /\ rid[2] \in LiveSlots(rid[1]) /\ FitsInPlace(rid, r)
  /\ mem' = WithRow(rid[1], rid[2], r)
  /\ rows' = Remember(rid, r)
  /\ Settle(rid)
  /\ UNCHANGED <<disk, dirty, allocated, first_page_id_, insert_page_id_, scanVars, freeVars>>

UpdateInPlace(rid, r) ==
  /\ Idle
  /\ rid[2] \in LiveSlots(rid[1]) /\ FitsInPlace(rid, r)
  /\ mem' = WithRow(rid[1], rid[2], r)
  /\ dirty' = dirty \cup {rid[1]}
  /\ rows' = Remember(rid, r)
  /\ Settle(rid)
  /\ UNCHANGED <<disk, allocated, first_page_id_, insert_page_id_, scanVars, freeVars>>

(* Mutant: the old copy is not marked. *)
MarkOldCopyNot(m, rid) == m

MarkOldCopy(m, rid) == WithMark(m, rid[1], rid[2], TRUE)

(* A clean page may be dropped, and its mark lost, before the walk for     *)
(* space comes to it, perhaps to link a new page.                          *)
Dropped(m, rid) ==
  IF rid[1] \in dirty THEN {} ELSE {[m EXCEPT ![rid[1]].slots = disk[rid[1]].slots]}

UpdateMoves(rid, r) ==
  /\ Idle
  /\ rid[2] \in LiveSlots(rid[1]) /\ ~FitsInPlace(rid, r)
  /\ CanInsert(r)
  /\ LET at == Place(r)
         new == <<at.page, at.slot>>
     IN /\ \E m \in {MarkOldCopy(at.mem, rid)} \cup Dropped(at.mem, rid) :
             PutRow(m, at, r)
        /\ rows' = [k \in (DOMAIN rows \ {rid}) \cup {new} |->
                      IF k = new THEN r ELSE rows[k]]
        /\ strays' = Strayed(rid) \ {new}
        /\ lost' = lost \ {rid, new}
  /\ Forget(rid)
  /\ UNCHANGED <<disk, first_page_id_, freeVars>>

(* NewPage returns nullptr because every frame is pinned: the update is    *)
(* refused and the row is marked all the same.  (InsertTuple's FetchPage   *)
(* calls find a frame: UpdateTuple has just unpinned one.)                 *)
UpdateMoveRefused(rid, r) ==
  /\ Idle
  /\ rid[2] \in LiveSlots(rid[1]) /\ ~FitsInPlace(rid, r)
  /\ PagesWithRoom(r) = {}
  /\ mem' = MarkOldCopy(mem, rid)
  /\ rows' = Without(rows, rid)
  /\ strays' = Strayed(rid) /\ lost' = lost \cup {rid}
  /\ Forget(rid)
  /\ UNCHANGED <<disk, dirty, allocated, first_page_id_, insert_page_id_, freeVars>>
-----------------------------------------------------------------------------
(* The pool drops a page: written out if it is dirty, lost if it is not.   *)
Evict(p) ==
  /\ mem[p] # disk[p]
  /\ IF p \in dirty THEN disk' = [disk EXCEPT ![p] = mem[p]] /\ mem' = mem
                    ELSE mem' = [mem EXCEPT ![p] = disk[p]] /\ disk' = disk
  /\ dirty' = dirty \ {p}
  /\ UNCHANGED <<allocated, first_page_id_, insert_page_id_, scanVars, freeVars, histVars>>

(* The database is closed, which writes the dirty pages out, and opened    *)
(* again: LoadTable creates the heap from its first page.                  *)
Reopen ==
  /\ Idle
  /\ disk' = [p \in PageIds |-> IF p \in dirty THEN mem[p] ELSE disk[p]]
  /\ mem' = disk'
  /\ dirty' = {}
  /\ insert_page_id_' = first_page_id_
  /\ itr' = EndItr /\ owed' = {}
  /\ UNCHANGED <<allocated, first_page_id_, freeVars, histVars>>
-----------------------------------------------------------------------------
(***************************************************************************)
(* The iterator.  Begin walks from the first page to one that has a live   *)
(* row; operator++ goes to the next live slot of its page, or on to the    *)
(* first live slot of a later page.                                        *)
(***************************************************************************)
FirstFrom(p, n) ==
  LET path == Chain(p)
      found == {k \in n .. LastPageId : /\ path[k] # INVALID_PAGE_ID
                                        /\ LiveSlots(path[k]) # {}}
  IN IF found = {} THEN EndItr
     ELSE <<path[Min(found)], Min(LiveSlots(path[Min(found)]))>>

Begin ==
  /\ Idle /\ itr = EndItr
  /\ itr' = FirstFrom(first_page_id_, 0)
  /\ owed' = DOMAIN rows \ {itr'}
  /\ UNCHANGED <<pageVars, first_page_id_, insert_page_id_, freeVars, histVars>>

(* Mutant: the next slot is taken from the live ones of the page anew. *)
LaterSlotsAll(rid) == LiveSlots(rid[1]) \ {rid[2]}

(* Mutant: the scan goes on with the next page. *)
LaterSlotsNone(rid) == {}

LaterSlots(rid) == {i \in LiveSlots(rid[1]) : i > rid[2]}

NextRid(rid) ==
  IF LaterSlots(rid) # {}
  THEN <<rid[1], Min(LaterSlots(rid))>>
  ELSE FirstFrom(rid[1], 1)

Advance ==
  /\ Idle /\ itr # EndItr
  /\ itr' = NextRid(itr)
  /\ owed' = owed \ {itr'}
  /\ UNCHANGED <<pageVars, first_page_id_, insert_page_id_, freeVars, histVars>>
-----------------------------------------------------------------------------
(***************************************************************************)
(* FreeHeap fetches first_page_id_ in every round of its loop, also after  *)
(* DeletePage has dropped that page from the pool: it is then read from    *)
(* disk.  A page deleted twice stays deleted.                              *)
(***************************************************************************)
FreeHeap ==
  /\ Idle
  /\ freeing' = "running" /\ cur_page_id' = first_page_id_
  /\ owned' = allocated \ {0}
  /\ itr' = EndItr /\ owed' = {}
  /\ rows' = [rid \in {} |-> 0] /\ strays' = {} /\ lost' = {}
  /\ UNCHANGED <<pageVars, first_page_id_, insert_page_id_>>

FreeRound ==
  /\ freeing = "running" /\ cur_page_id # INVALID_PAGE_ID
  /\ cur_page_id' = mem[first_page_id_].next
  /\ mem' = [mem EXCEPT ![cur_page_id] = disk[cur_page_id]]
  /\ dirty' = dirty \ {cur_page_id}
  /\ allocated' = allocated \ {cur_page_id}
  /\ UNCHANGED <<freeing, owned, disk, first_page_id_, insert_page_id_, scanVars, histVars>>

FreeReturns ==
  /\ freeing = "running" /\ cur_page_id = INVALID_PAGE_ID
  /\ freeing' = "done"
  /\ UNCHANGED <<cur_page_id, owned, pageVars, first_page_id_, insert_page_id_, scanVars, histVars>>

(* Every row id that a caller may have: the ids it was given. *)
Rids == {<<p, i>> : p \in PageIds, i \in 1 .. PageSpace \div (SIZE_TUPLE + 1)}
KnownRids == {rid \in Rids : rid[2] \in DOMAIN mem[rid[1]].slots}

Next ==
  \/ \E r \in Rows : InsertTuple(r)
  \/ \E rid \in KnownRids :
       \/ MarkDelete(rid) \/ RollbackDelete(rid) \/ ApplyDelete(rid)
       \/ \E r \in Rows : \/ UpdateInPlace(rid, r) \/ UpdateMoves(rid, r)
                            \/ UpdateMoveRefused(rid, r)
  \/ \E p \in PageIds : Evict(p)
  \/ Reopen \/ Begin \/ Advance
  \/ FreeHeap \/ FreeRound \/ FreeReturns

Spec == Init /\ [][Next]_vars
-----------------------------------------------------------------------------
PageOK(page) ==
  /\ page.next \in PageIds \cup {INVALID_PAGE_ID}
  /\ \A i \in DOMAIN page.slots : page.slots[i] \in [row : Rows \cup {0}, deleted : BOOLEAN]
  /\ FreeSpace(page) >= 0

(* Pages hold slots, next pointers and a free space that does not wrap     *)
(* (GetFreeSpaceRemaining is unsigned).                                    *)
TypeOK ==
  /\ \A p \in PageIds : PageOK(mem[p])
  /\ dirty \subseteq PageIds /\ allocated \subseteq PageIds
  /\ {first_page_id_, insert_page_id_} \subseteq PageIds
  /\ itr \in Rids \cup {EndItr} /\ owed \subseteq Rids
  /\ freeing \in {"no", "running", "done"}
  /\ cur_page_id \in PageIds \cup {INVALID_PAGE_ID}
  /\ owned \subseteq PageIds
  /\ DOMAIN rows \subseteq Rids /\ strays \subseteq Rids /\ lost \subseteq Rids

HeapPages ==
  LET path == Chain(first_page_id_) IN
  {path[n] : n \in 0 .. LastPageId} \ {INVALID_PAGE_ID}

(* The chain from the first page ends, contains every page that the heap   *)
(* was given and no other, and contains the page where inserts start: no   *)
(* page of a table becomes unreachable, whatever the pool evicts between   *)
(* the link to a new page and the next operation.                          *)
ChainComplete ==
  Idle => /\ Chain(first_page_id_)[LastPageId + 1] = INVALID_PAGE_ID
          /\ HeapPages = allocated \ {0}
          /\ insert_page_id_ \in HeapPages

LiveRids == UNION {{p} \X LiveSlots(p) : p \in HeapPages}

(* No row is lost but by a refused update: each row that was inserted,     *)
(* neither deleted nor taken out by an UpdateTuple that then failed (the   *)
(* rows in lost), is live at its row id in a page of the chain, with its   *)
(* content, also after evictions and after the database was closed and     *)
(* opened again.                                                           *)
NoRowLost ==
  /\ DOMAIN rows \subseteq LiveRids
  /\ \A rid \in DOMAIN rows : mem[rid[1]].slots[rid[2]].row = rows[rid]

(* An update that fails leaves the table as it was (UpdateTuple returns    *)
(* `true is update is successful', table_heap.h): no row is lost at all.   *)
(* Not what the code does: run update_refused.                             *)
EveryRowKept == NoRowLost /\ lost \subseteq LiveRids

(* Deleted rows stay deleted.  The exception is a row that UpdateTuple had *)
(* to move (or to give up): it marks the old copy in a page that it unpins *)
(* as clean (table_heap.cpp:66), so the old copy comes back when the pool  *)
(* drops the page.                                                         *)
DeletedStaysDeleted == Idle => LiveRids \subseteq DOMAIN rows \cup strays

(* A scan that has reached End() has returned every row that was in the    *)
(* table from Begin() on, although rows it stood on were deleted, pages    *)
(* were added and rows were moved in the meantime.                         *)
ScanComplete == itr = EndItr => owed = {}

Position(rid) == CHOOSE n \in 0 .. LastPageId : Chain(first_page_id_)[n] = rid[1]

(* operator++ only moves forward in the order of the chain and the slots,  *)
(* so no row id is returned twice.                                         *)
ScanForward ==
  [][itr # EndItr /\ itr' # EndItr /\ itr' # itr =>
       \/ Position(itr) < Position(itr')
       \/ Position(itr) = Position(itr') /\ itr[2] < itr'[2]]_vars

(* FreeHeap of a heap of one page takes one round, and gives back that     *)
(* page and nothing else.  (With more pages the loop reads the deleted     *)
(* first page again: see the README.)                                      *)
FreesOnePage ==
  owned = {first_page_id_} =>
    /\ cur_page_id \in {first_page_id_, INVALID_PAGE_ID}
    /\ cur_page_id = INVALID_PAGE_ID => allocated = {0}

(* The pages of a table: well formed, all on its chain as long as it       *)
(* exists, and given back when a heap of one page is freed.                *)
HeapConsistent == TypeOK /\ ChainComplete /\ FreesOnePage
=============================================================================
