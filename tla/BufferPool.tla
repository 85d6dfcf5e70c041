----------------------------- MODULE BufferPool -----------------------------
(***************************************************************************)
(* MiniSQL's buffer pool manager (buffer/buffer_pool_manager.cpp), its LRU *)
(* replacer, and the clients that hold pointers into its frames.           *)
(*                                                                         *)
(* The disk manager appears by what DiskManager shows of it within one     *)
(* extent: ReadPage returns what WritePage stored last, and AllocatePage   *)
(* returns the lowest free page, until a page is released after a restart; *)
(* from then on the count it goes by is wrong and it may return any page   *)
(* (and fail to read and write, which changes contents only).              *)
(* Everything runs on one thread: latch_ is never taken.                   *)
(***************************************************************************)
EXTENDS LruList

CONSTANTS
  pool_size_,       (* The number of frames.                               *)
  MaxPageId,        (* Bound: the disk has the pages 0..MaxPageId.         *)
  Data,             (* Contents that clients write into pages.             *)
  ZeroPage,         (* The all-zero page.                                  *)
  INVALID_PAGE_ID,
  NoFrame,          (* The absence of a key in page_table_, a null pointer.*)
  MaxHolds,         (* Bound: how often a careless client fetches a page   *)
                    (* before it unpins it.                                *)
  CarelessMaxPageId,(* Bounds with careless clients: the pages, and what   *)
  CarelessData      (* they write.                                         *)

PageIds == 0 .. MaxPageId

ASSUME PoolAssumption ==
  /\ MaxPageId \in Nat /\ MaxHolds \in Nat \ {0}
  /\ CarelessMaxPageId \in 0 .. MaxPageId /\ CarelessData \subseteq Data
  /\ ZeroPage \in Data
  /\ INVALID_PAGE_ID \notin PageIds
  /\ pool_size_ \in Nat \ {0}
  /\ Frames = 0 .. pool_size_ - 1
  /\ NoFrame \notin Frames

VARIABLES
  careful,          (* Whether clients fetch only pages they allocated,    *)
                    (* hold them once, and neither delete nor flush them.  *)
  page_table_,      (* page id -> frame id, NoFrame when there is no entry.*)
  pages_,           (* The frames: the Page object in each.                *)
  free_list_,       (* Used from its back.                                 *)
  replacer_,        (* The LRUReplacer.                                    *)
  disk,             (* page id -> content.                                 *)
  allocated,        (* The pages that the disk manager's bitmap marks.     *)
  allocator,        (* What the disk manager's count is good for: "new",   *)
                    (* "restarted", or, after a release then, "unsound".   *)
  ptr,              (* Client: the frame it was given for a page.          *)
  holds,            (* Client: fetches of a page not yet unpinned.         *)
  touched,          (* Client: pages changed since they were fetched.      *)
  latest,           (* History: what a client last stored in a page.       *)
  reply             (* The last call and whether it succeeded.             *)

poolVars == <<page_table_, pages_, free_list_, replacer_>>
diskVars == <<disk, allocated, allocator>>
clientVars == <<ptr, holds, touched, latest>>
vars == <<careful, page_table_, pages_, free_list_, replacer_, disk, allocated, allocator,
          ptr, holds, touched, latest, reply>>

Resident(p) == page_table_[p] # NoFrame

(* What the clients of a behaviour use. *)
Pages == 0 .. (IF careful THEN MaxPageId ELSE CarelessMaxPageId)
Contents == IF careful THEN Data ELSE CarelessData
HoldLimit == IF careful THEN 1 ELSE MaxHolds

EmptyFrame == [page_id_ |-> INVALID_PAGE_ID, pin_count_ |-> 0,
               is_dirty_ |-> FALSE, data_ |-> ZeroPage]

InitialFreeList == [i \in 1 .. pool_size_ |-> i - 1]

(* The constructor. *)
PoolInit ==
  /\ page_table_ = [p \in PageIds |-> NoFrame]
  /\ pages_ = [f \in Frames |-> EmptyFrame]
  /\ free_list_ = InitialFreeList
  /\ replacer_ = EmptyLru

Init ==
  /\ careful \in BOOLEAN
  /\ PoolInit
  /\ disk = [p \in PageIds |-> ZeroPage]
  /\ allocated = {}
  /\ allocator = "new"
  /\ ptr = [p \in PageIds |-> NoFrame]
  /\ holds = [p \in PageIds |-> 0]
  /\ touched = {}
  /\ latest = [p \in PageIds |-> ZeroPage]
  /\ reply = [op |-> "init", page |-> INVALID_PAGE_ID, ok |-> TRUE]
-----------------------------------------------------------------------------
(***************************************************************************)
(* A frame for a page that is not resident: the back of the free list, or  *)
(* the replacer's victim.  The victim's page is found by searching         *)
(* page_table_ for the frame; if no entry has it, pageId stays unassigned. *)
(***************************************************************************)
(* Mutant: unpinned pages are never evicted. *)
HasFrameFreeListOnly == free_list_ # <<>>

HasFrame == free_list_ # <<>> \/ Size(replacer_) # 0

FrameTaken ==
  IF free_list_ # <<>>
  THEN free_list_[Len(free_list_)]
  ELSE VictimFrame(replacer_)

FreeListAfterTake ==
  IF free_list_ # <<>> THEN SubSeq(free_list_, 1, Len(free_list_) - 1) ELSE <<>>

ReplacerAfterTake ==
  IF free_list_ # <<>> THEN replacer_ ELSE AfterVictim(replacer_)

EvictedPages(frameId) ==
  LET owners == {p \in PageIds : page_table_[p] = frameId} IN
  IF free_list_ # <<>> THEN {INVALID_PAGE_ID}
  ELSE IF owners # {} THEN owners
  ELSE Pages \cup {INVALID_PAGE_ID}

(* unordered_map::erase and then insert, which keeps an entry it finds.    *)
TableAfterTake(evicted, page_id, frameId) ==
  [p \in PageIds |->
     IF p = page_id /\ (p = evicted \/ ~Resident(p)) THEN frameId
     ELSE IF p = evicted THEN NoFrame
     ELSE page_table_[p]]

DiskAfterEvict(evicted, frameId) ==
  IF evicted \in PageIds /\ pages_[frameId].is_dirty_
  THEN [disk EXCEPT ![evicted] = pages_[frameId].data_]
  ELSE disk

TakeFrame(page_id, evicted, frameId, data) ==
  /\ page_table_' = TableAfterTake(evicted, page_id, frameId)
  /\ pages_' = [pages_ EXCEPT ![frameId] =
                  [page_id_ |-> page_id, pin_count_ |-> 1,
                   is_dirty_ |-> FALSE, data_ |-> data]]
  /\ free_list_' = FreeListAfterTake
  /\ replacer_' = ReplacerAfterTake

(* The client gets a pointer to the frame. *)
Hold(p, frameId) ==
  /\ ptr' = [ptr EXCEPT ![p] = frameId]
  /\ holds' = [holds EXCEPT ![p] = @ + 1]
-----------------------------------------------------------------------------
(* The catalog manager fetches page 0 of a new database, to write it,      *)
(* before the storage engine allocates it with NewPage.                    *)
MayFetch(p) == p \in allocated \/ ~careful

(* Mutant: the replacer is not told. *)
FetchHitNoReplacerPin(p) ==
  /\ MayFetch(p) /\ Resident(p) /\ holds[p] < HoldLimit
  /\ pages_' = [pages_ EXCEPT ![page_table_[p]].pin_count_ = @ + 1]
  /\ Hold(p, page_table_[p])
  /\ reply' = [op |-> "fetch", page |-> p, ok |-> TRUE]
  /\ UNCHANGED <<careful, allocator, page_table_, free_list_, replacer_, disk, allocated, touched, latest>>

(* FetchPage, 1.1: the page is resident. *)
FetchHit(p) ==
  /\ MayFetch(p) /\ Resident(p) /\ holds[p] < HoldLimit
  /\ pages_' = [pages_ EXCEPT ![page_table_[p]].pin_count_ = @ + 1]
  /\ replacer_' = AfterPin(replacer_, page_table_[p])
  /\ Hold(p, page_table_[p])
  /\ reply' = [op |-> "fetch", page |-> p, ok |-> TRUE]
  /\ UNCHANGED <<careful, allocator, page_table_, free_list_, disk, allocated, touched, latest>>

(* FetchPage, 1.2 to 4: the page is read into a frame. *)
FetchMiss(p) ==
  /\ MayFetch(p) /\ ~Resident(p) /\ holds[p] < HoldLimit
  /\ HasFrame
  /\ \E evicted \in EvictedPages(FrameTaken) :
       LET newDisk == DiskAfterEvict(evicted, FrameTaken) IN
       /\ disk' = newDisk
       /\ TakeFrame(p, evicted, FrameTaken, newDisk[p])
  /\ Hold(p, FrameTaken)
  /\ reply' = [op |-> "fetch", page |-> p, ok |-> TRUE]
  /\ UNCHANGED <<careful, allocator, allocated, touched, latest>>

FetchFails(p) ==
  /\ MayFetch(p) /\ ~Resident(p)
  /\ ~HasFrame
  /\ reply' = [op |-> "fetch", page |-> p, ok |-> FALSE]
  /\ UNCHANGED <<careful, poolVars, diskVars, clientVars>>

(***************************************************************************)
(* NewPage.  A client initialises the page it was given and so unpins it   *)
(* as dirty.                                                               *)
(***************************************************************************)
NextFreePage == CHOOSE p \in Pages \ allocated :
                  \A q \in Pages \ allocated : p <= q

(* AllocatePage: the page it may return. *)
NewPageIds ==
  IF allocator = "unsound" THEN Pages
  ELSE IF allocated = Pages THEN {}
  ELSE {NextFreePage}

NewPage ==
  /\ HasFrame
  /\ \E p \in NewPageIds :
     /\ holds[p] < HoldLimit
     /\ allocated' = allocated \cup {p}
     /\ \E evicted \in EvictedPages(FrameTaken) :
          /\ disk' = DiskAfterEvict(evicted, FrameTaken)
          /\ TakeFrame(p, evicted, FrameTaken, ZeroPage)
     /\ Hold(p, FrameTaken)
     /\ touched' = touched \cup {p}
     /\ latest' = [latest EXCEPT ![p] = ZeroPage]
     /\ reply' = [op |-> "new", page |-> p, ok |-> TRUE]
  /\ UNCHANGED <<careful, allocator>>

NewPageFails ==
  /\ ~HasFrame
  /\ reply' = [op |-> "new", page |-> INVALID_PAGE_ID, ok |-> FALSE]
  /\ UNCHANGED <<careful, poolVars, diskVars, clientVars>>

(* A client changes a page through the pointer it holds. *)
ClientWrite(p, d) ==
  /\ holds[p] > 0
  /\ pages_' = [pages_ EXCEPT ![ptr[p]].data_ = d]
  /\ touched' = touched \cup {p}
  /\ latest' = [latest EXCEPT ![p] = d]
  /\ reply' = [op |-> "write", page |-> p, ok |-> TRUE]
  /\ UNCHANGED <<careful, allocator, page_table_, free_list_, replacer_, disk, allocated, ptr, holds>>

(* Mutant: = and not |=. *)
DirtyAfterUnpinAssigned(f, is_dirty) == is_dirty

DirtyAfterUnpin(f, is_dirty) == pages_[f].is_dirty_ \/ is_dirty

(* UnpinPage sets the pin count to 0, however often the page was fetched.  *)
(* A client that changed the page says so.                                 *)
Unpin(p, is_dirty) ==
  LET f == page_table_[p] IN
  /\ holds[p] > 0
  /\ p \in touched => is_dirty
  /\ IF Resident(p)
     THEN /\ pages_' = [pages_ EXCEPT ![f].pin_count_ = 0,
                                      ![f].is_dirty_ = DirtyAfterUnpin(f, is_dirty)]
          /\ replacer_' = AfterUnpin(replacer_, f)
     ELSE UNCHANGED <<pages_, replacer_>>
  /\ holds' = [holds EXCEPT ![p] = @ - 1]
  /\ ptr' = [ptr EXCEPT ![p] = IF holds[p] = 1 THEN NoFrame ELSE @]
  /\ touched' = touched \ {p}
  /\ reply' = [op |-> "unpin", page |-> p, ok |-> Resident(p)]
  /\ UNCHANGED <<careful, allocator, page_table_, free_list_, disk, allocated, latest>>

(***************************************************************************)
(* DeletePage gives the page back to the disk manager before it looks at   *)
(* the pin count, and does not tell the replacer that the frame is free.   *)
(***************************************************************************)
DeletePage(p) ==
  LET f == page_table_[p] IN
  /\ ~careful /\ p \in allocated
  /\ allocated' = allocated \ {p}
  /\ allocator' = IF allocator = "new" THEN "new" ELSE "unsound"
  /\ IF Resident(p) /\ pages_[f].pin_count_ = 0
     THEN /\ page_table_' = [page_table_ EXCEPT ![p] = NoFrame]
          /\ free_list_' = Append(free_list_, f)
          /\ pages_' = [pages_ EXCEPT ![f] = EmptyFrame]
     ELSE UNCHANGED <<page_table_, free_list_, pages_>>
  /\ reply' = [op |-> "delete", page |-> p,
               ok |-> Resident(p) => pages_[f].pin_count_ = 0]
  /\ UNCHANGED <<careful, replacer_, disk, clientVars>>

(* Mutant: page_table_.erase is missing. *)
FlushPageKeepsEntry(p) ==
  LET f == page_table_[p] IN
  /\ ~careful /\ Resident(p) /\ holds[p] = 0
  /\ disk' = IF pages_[f].is_dirty_ THEN [disk EXCEPT ![p] = pages_[f].data_] ELSE disk
  /\ pages_' = [pages_ EXCEPT ![f].pin_count_ = 0, ![f].is_dirty_ = FALSE]
  /\ free_list_' = Append(free_list_, f)
  /\ reply' = [op |-> "flush", page |-> p, ok |-> TRUE]
  /\ UNCHANGED <<careful, allocator, page_table_, replacer_, allocated, clientVars>>

(* FlushPage writes the page out and frees its frame; page_id_ and the     *)
(* data stay in the frame, and so does the frame in the replacer.          *)
FlushPage(p) ==
  LET f == page_table_[p] IN
  /\ ~careful /\ Resident(p) /\ holds[p] = 0
  /\ disk' = IF pages_[f].is_dirty_ THEN [disk EXCEPT ![p] = pages_[f].data_] ELSE disk
  /\ pages_' = [pages_ EXCEPT ![f].pin_count_ = 0, ![f].is_dirty_ = FALSE]
  /\ page_table_' = [page_table_ EXCEPT ![p] = NoFrame]
  /\ free_list_' = Append(free_list_, f)
  /\ reply' = [op |-> "flush", page |-> p, ok |-> TRUE]
  /\ UNCHANGED <<careful, allocator, replacer_, allocated, clientVars>>

(* The destructor flushes the page named in each frame; a new pool starts  *)
(* on the same disk.  Clients are done by then.                            *)
FlushedAtShutdown(p) ==
  Resident(p) /\ \E f \in Frames : pages_[f].page_id_ = p

Restart ==
  /\ \A p \in PageIds : holds[p] = 0
  /\ disk' = [p \in PageIds |->
                IF FlushedAtShutdown(p) /\ pages_[page_table_[p]].is_dirty_
                THEN pages_[page_table_[p]].data_
                ELSE disk[p]]
  /\ page_table_' = [p \in PageIds |-> NoFrame]
  /\ pages_' = [f \in Frames |-> EmptyFrame]
  /\ free_list_' = InitialFreeList
  /\ replacer_' = EmptyLru
  /\ allocator' = "restarted"
  /\ reply' = [op |-> "restart", page |-> INVALID_PAGE_ID, ok |-> TRUE]
  /\ UNCHANGED <<careful, allocated, clientVars>>

Next ==
  \/ \E p \in Pages :
       \/ FetchHit(p) \/ FetchMiss(p) \/ FetchFails(p)
       \/ DeletePage(p) \/ FlushPage(p)
       \/ \E d \in Contents : ClientWrite(p, d)
       \/ \E is_dirty \in BOOLEAN : Unpin(p, is_dirty)
  \/ NewPage
  \/ NewPageFails
  \/ Restart

Spec == Init /\ [][Next]_vars
-----------------------------------------------------------------------------
(* Every frame number, page id and pin count stays in range: the loops and *)
(* lists of the pool name only frames that exist.                          *)
TypeOK ==
  /\ careful \in BOOLEAN
  /\ page_table_ \in [PageIds -> Frames \cup {NoFrame}]
  /\ pages_ \in [Frames -> [page_id_ : PageIds \cup {INVALID_PAGE_ID},
                            pin_count_ : Nat, is_dirty_ : BOOLEAN, data_ : Data]]
  /\ free_list_ \in Seq(Frames)
  /\ replacer_ \in [lru_list_ : Seq(Frames), lruList : SUBSET Frames,
                    buffer : SUBSET Frames]
  /\ disk \in [PageIds -> Data]
  /\ allocated \subseteq PageIds
  /\ allocator \in {"new", "restarted", "unsound"}
  /\ ptr \in [PageIds -> Frames \cup {NoFrame}]
  /\ holds \in [PageIds -> 0 .. MaxHolds]
  /\ touched \subseteq PageIds
  /\ latest \in [PageIds -> Data]

(* The two halves of FramesNotShared. *)
TableMatchesFrames ==
  \A p \in PageIds : Resident(p) => pages_[page_table_[p]].page_id_ = p

FreeListExclusive ==
  /\ \A i, j \in 1 .. Len(free_list_) : free_list_[i] = free_list_[j] => i = j
  /\ \A p \in PageIds, i \in 1 .. Len(free_list_) : page_table_[p] # free_list_[i]

(* No frame serves two purposes: the page table maps no two pages to one   *)
(* frame and maps a page to a frame that carries its id, no frame is on    *)
(* the free list twice, and no frame on the free list is mapped.           *)
FramesNotShared == TableMatchesFrames /\ FreeListExclusive

(* With careful clients no update is lost: a page's content, in its frame  *)
(* or on disk, is what a client stored there last.  This is what the dirty *)
(* flag, the write-back of a victim and the flush at shutdown are for.     *)
NoLostUpdate ==
  careful => \A p \in allocated :
    latest[p] = IF Resident(p) THEN pages_[page_table_[p]].data_ ELSE disk[p]

(* A page that a client holds stays in the frame the client points to: a   *)
(* pinned frame `should not be victimized until it is unpinned'            *)
(* (replacer.h).  Not what the code does for every client: deleting or     *)
(* flushing a page leaves its frame in the replacer, and the first of two  *)
(* unpins exposes the second holder.  No run has it; it is why             *)
(* HeldPageStays is about careful clients.                                 *)
EveryHeldPageStays ==
  \A p \in PageIds : holds[p] > 0 => page_table_[p] = ptr[p]

(* A page that a careful client holds, one who holds a page once and       *)
(* neither deletes nor flushes, stays in the frame the client points to.   *)
HeldPageStays == careful => EveryHeldPageStays

(* The two halves of PinsProtect. *)
HeldIsPinned == \A p \in PageIds : holds[p] > 0 => pages_[ptr[p]].pin_count_ > 0

UnpinnedIsEvictable ==
  \A f \in Frames :
    pages_[f].pin_count_ = 0 <=>
      f \in Elements(replacer_.lru_list_) \cup Elements(free_list_)

(* Why a held page stays: the frames of held pages are pinned, and the     *)
(* replacer and the free list together hold exactly the frames that are    *)
(* not pinned.                                                             *)
PinsProtect == careful => HeldIsPinned /\ UnpinnedIsEvictable

(* With careful clients NewPage and FetchPage return nullptr only when     *)
(* every frame is pinned (`If all the pages in the buffer pool are pinned, *)
(* return nullptr').                                                       *)
FailsOnlyWhenAllPinned ==
  [][careful /\ (reply'.op = "new" \/ reply'.op = "fetch") /\ ~reply'.ok =>
        \A f \in Frames : pages_[f].pin_count_ > 0]_vars

(* The pool's lists and tables fit together: whatever clients do, no frame *)
(* serves two purposes, and for careful clients the frames that may be     *)
(* taken are exactly the unpinned ones.                                    *)
PoolConsistent == TypeOK /\ FramesNotShared /\ PinsProtect
=============================================================================
