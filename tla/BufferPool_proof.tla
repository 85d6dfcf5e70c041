-------------------------- MODULE BufferPool_proof --------------------------
(***************************************************************************)
(* For every pool size, number of pages and page content: the lists and    *)
(* tables of the buffer pool fit together whatever its clients do, and for *)
(* careful clients a held page stays where it is, no update is lost, and   *)
(* the pool refuses a page only when all its frames are pinned.            *)
(***************************************************************************)
EXTENDS BufferPool, StorageFacts

(***************************************************************************)
(* The inductive invariant.  PoolInv holds for all clients.                *)
(***************************************************************************)
(* Careful clients release no page, so the allocator serves them soundly.  *)
AllocatorServes ==
  /\ allocator \in {"new", "restarted", "unsound"}
  /\ careful => allocator # "unsound"

PoolInv ==
  /\ TypeOK
  /\ FramesNotShared
  /\ Listed(replacer_)
  /\ allocated \subseteq Pages
  /\ AllocatorServes

(* A page is pinned as often as its client holds it: once or not at all.   *)
PinsCountHolds ==
  /\ \A p \in PageIds : holds[p] \in {0, 1}
  /\ \A p \in PageIds : Resident(p) => pages_[page_table_[p]].pin_count_ = holds[p]

HeldIsResident ==
  \A p \in PageIds : holds[p] > 0 => Resident(p) /\ ptr[p] = page_table_[p]

(* Every frame is mapped or free, and no free frame is in the replacer: so *)
(* the page of a victim is always found in page_table_.                    *)
FramesAccounted ==
  /\ \A f \in Frames : f \in Elements(free_list_) \/ \E p \in PageIds : page_table_[p] = f
  /\ \A f \in replacer_.lruList : f \notin Elements(free_list_)

ResidentIsAllocated == \A p \in PageIds : Resident(p) => p \in allocated

(* A frame that nobody is changing and that is not dirty is as on disk.    *)
CleanMatchesDisk ==
  /\ \A p \in touched : holds[p] > 0
  /\ \A p \in PageIds :
       Resident(p) /\ p \notin touched /\ ~pages_[page_table_[p]].is_dirty_
         => pages_[page_table_[p]].data_ = disk[p]

ContentIsLatest ==
  \A p \in allocated :
    latest[p] = IF Resident(p) THEN pages_[page_table_[p]].data_ ELSE disk[p]

CarefulInv ==
  /\ PinsCountHolds
  /\ HeldIsResident
  /\ UnpinnedIsEvictable
  /\ FramesAccounted
  /\ ResidentIsAllocated
  /\ CleanMatchesDisk
  /\ ContentIsLatest

(* The inductive invariant. *)
IInv == PoolInv /\ (careful => CarefulInv)
-----------------------------------------------------------------------------
(* A Page object. *)
FrameType == [page_id_ : PageIds \cup {INVALID_PAGE_ID},
              pin_count_ : Nat, is_dirty_ : BOOLEAN, data_ : Data]

(* A Page object is one after pin_count_, is_dirty_ or data_ is assigned.  *)
LEMMA FrameEdited ==
  ASSUME NEW frame \in FrameType, NEW n \in Nat, NEW b \in BOOLEAN, NEW d \in Data
  PROVE  /\ [frame EXCEPT !.pin_count_ = n] \in FrameType
         /\ [frame EXCEPT !.pin_count_ = n, !.is_dirty_ = b] \in FrameType
         /\ [frame EXCEPT !.data_ = d] \in FrameType
         /\ [frame EXCEPT !.pin_count_ = n].page_id_ = frame.page_id_
         /\ [frame EXCEPT !.pin_count_ = n, !.is_dirty_ = b].page_id_ = frame.page_id_
         /\ [frame EXCEPT !.data_ = d].page_id_ = frame.page_id_
BY DEF FrameType

(* What the parts of the invariant say about single frames and pages. *)
LEMMA PoolFacts ==
  ASSUME PoolInv
  PROVE  /\ careful \in BOOLEAN
         /\ page_table_ \in [PageIds -> Frames \cup {NoFrame}]
         /\ pages_ \in [Frames -> FrameType]
         /\ free_list_ \in Seq(Frames) /\ NoRepeats(free_list_)
         /\ Listed(replacer_)
         /\ disk \in [PageIds -> Data] /\ allocated \subseteq PageIds
         /\ ptr \in [PageIds -> Frames \cup {NoFrame}]
         /\ holds \in [PageIds -> 0 .. MaxHolds]
         /\ touched \subseteq PageIds
         /\ latest \in [PageIds -> Data]
         /\ \A p \in PageIds : Resident(p) => /\ page_table_[p] \in Frames
                                             /\ pages_[page_table_[p]].page_id_ = p
         /\ \A p \in PageIds : page_table_[p] \notin Elements(free_list_)
         /\ \A p, q \in PageIds : Resident(p) /\ page_table_[p] = page_table_[q] => p = q
         /\ Pages \subseteq PageIds /\ Contents \subseteq Data
<1>1. TypeOK /\ TableMatchesFrames /\ FreeListExclusive /\ Listed(replacer_)
  BY DEF PoolInv, FramesNotShared
<1>2. \A p \in PageIds : Resident(p) => /\ page_table_[p] \in Frames
                                      /\ pages_[page_table_[p]].page_id_ = p
  BY <1>1 DEF TypeOK, TableMatchesFrames, Resident
<1>3. NoRepeats(free_list_) /\ \A p \in PageIds : page_table_[p] \notin Elements(free_list_)
  BY <1>1 DEF FreeListExclusive, NoRepeats, Elements
<1>4. \A p, q \in PageIds : Resident(p) /\ page_table_[p] = page_table_[q] => p = q
  <2> TAKE p, q \in PageIds
  <2> HAVE Resident(p) /\ page_table_[p] = page_table_[q]
  <2>1. Resident(q)
    BY DEF Resident
  <2> QED
    BY <1>2, <2>1
<1>5. Pages \subseteq PageIds /\ Contents \subseteq Data
  BY PoolAssumption DEF Pages, PageIds, Contents
<1> QED
  BY <1>1, <1>2, <1>3, <1>4, <1>5 DEF TypeOK, FrameType

(***************************************************************************)
(* The frame that FetchPage and NewPage take exists, is on neither list    *)
(* afterwards, and no page but the evicted one is mapped to it.            *)
(***************************************************************************)
LEMMA TakenFrame ==
  ASSUME PoolInv, HasFrame, NEW evicted \in EvictedPages(FrameTaken)
  PROVE  /\ FrameTaken \in Frames
         /\ FreeListAfterTake \in Seq(Frames)
         /\ NoRepeats(FreeListAfterTake)
         /\ Elements(FreeListAfterTake) = Elements(free_list_) \ {FrameTaken}
         /\ Listed(ReplacerAfterTake)
         /\ free_list_ # <<>> => /\ FrameTaken \in Elements(free_list_)
                                /\ ReplacerAfterTake = replacer_
                                /\ evicted = INVALID_PAGE_ID
         /\ free_list_ = <<>> => /\ Elements(free_list_) = {}
                                /\ FrameTaken \in replacer_.lruList
                                /\ ReplacerAfterTake.lruList
                                     = replacer_.lruList \ {FrameTaken}
         /\ \A q \in PageIds : page_table_[q] = FrameTaken => q = evicted
<1>1. CASE free_list_ # <<>>
  <2>1. free_list_ \in Seq(Frames) /\ NoRepeats(free_list_) /\ Len(free_list_) # 0
    BY <1>1, PoolFacts
  <2>2. /\ FrameTaken = free_list_[Len(free_list_)]
        /\ FreeListAfterTake = SubSeq(free_list_, 1, Len(free_list_) - 1)
        /\ ReplacerAfterTake = replacer_
        /\ evicted = INVALID_PAGE_ID
    BY <1>1 DEF FrameTaken, FreeListAfterTake, ReplacerAfterTake, EvictedPages
  <2>3. /\ FrameTaken \in Frames /\ FrameTaken \in Elements(free_list_)
        /\ FreeListAfterTake \in Seq(Frames)
        /\ NoRepeats(FreeListAfterTake)
        /\ Elements(FreeListAfterTake) = Elements(free_list_) \ {FrameTaken}
    BY <2>1, <2>2, PopBackProperties
  <2>4. \A q \in PageIds : page_table_[q] # FrameTaken
    BY <2>3, PoolFacts
  <2>5. Listed(ReplacerAfterTake)
    BY <2>2, PoolFacts
  <2> QED
    BY <1>1, <2>2, <2>3, <2>4, <2>5
<1>2. CASE free_list_ = <<>>
  <2>1. /\ FrameTaken = VictimFrame(replacer_)
        /\ FreeListAfterTake = <<>>
        /\ ReplacerAfterTake = AfterVictim(replacer_)
        /\ Size(replacer_) # 0
    BY <1>2 DEF FrameTaken, FreeListAfterTake, ReplacerAfterTake, HasFrame
  <2>2. /\ FrameTaken \in Frames /\ FrameTaken \in replacer_.lruList
        /\ Listed(ReplacerAfterTake)
        /\ ReplacerAfterTake.lruList = replacer_.lruList \ {FrameTaken}
    BY <2>1, PoolFacts, VictimKeepsListed
  <2>3. /\ FreeListAfterTake \in Seq(Frames) /\ NoRepeats(FreeListAfterTake)
        /\ Elements(FreeListAfterTake) = {} /\ Elements(free_list_) = {}
    BY <1>2, <2>1 DEF NoRepeats, Elements
  <2>4. ASSUME NEW q \in PageIds, page_table_[q] = FrameTaken
        PROVE  q = evicted
    <3>1. evicted \in PageIds /\ page_table_[evicted] = FrameTaken
      BY <1>2, <2>4 DEF EvictedPages
    <3>2. Resident(q)
      BY <2>2, <2>4, PoolAssumption DEF Resident
    <3> QED
      BY <2>4, <3>1, <3>2, PoolFacts
  <2> QED
    BY <1>2, <2>2, <2>3, <2>4
<1> QED
  BY <1>1, <1>2

(* Taking a frame keeps the tables apart, whatever page was evicted. *)
LEMMA TakeKeepsPool ==
  ASSUME PoolInv, HasFrame, NEW page_id \in PageIds, NEW data \in Data,
         NEW evicted \in EvictedPages(FrameTaken),
         TakeFrame(page_id, evicted, FrameTaken, data)
  PROVE  /\ page_table_' \in [PageIds -> Frames \cup {NoFrame}]
         /\ pages_' \in [Frames -> FrameType]
         /\ free_list_' \in Seq(Frames)
         /\ Listed(replacer_')
         /\ replacer_' \in [lru_list_ : Seq(Frames), lruList : SUBSET Frames,
                            buffer : SUBSET Frames]
         /\ FramesNotShared'
<1> DEFINE F == FrameTaken
<1>1. /\ F \in Frames
      /\ free_list_' \in Seq(Frames) /\ NoRepeats(free_list_')
      /\ Elements(free_list_') = Elements(free_list_) \ {F}
      /\ Listed(replacer_')
      /\ \A q \in PageIds : page_table_[q] = F => q = evicted
  BY TakenFrame DEF TakeFrame
<1> HIDE DEF F
<1>2. /\ page_table_' = [p \in PageIds |->
                          IF p = page_id /\ (p = evicted \/ ~Resident(p)) THEN F
                          ELSE IF p = evicted THEN NoFrame
                          ELSE page_table_[p]]
      /\ pages_' = [pages_ EXCEPT ![F] =
                       [page_id_ |-> page_id, pin_count_ |-> 1,
                        is_dirty_ |-> FALSE, data_ |-> data]]
  BY DEF TakeFrame, TableAfterTake, F
<1>3. page_table_' \in [PageIds -> Frames \cup {NoFrame}]
  BY <1>1, <1>2, PoolFacts
<1>4. pages_' \in [Frames -> FrameType]
  BY <1>1, <1>2, PoolFacts DEF FrameType
<1>5. ASSUME NEW p \in PageIds, page_table_'[p] # NoFrame
      PROVE  pages_'[page_table_'[p]].page_id_ = p
  <2>1. CASE page_table_'[p] = F /\ p = page_id
    BY <1>1, <1>2, <2>1, PoolFacts
  <2>2. CASE ~(p = page_id /\ (p = evicted \/ ~Resident(p)))
    <3>1. p # evicted /\ page_table_'[p] = page_table_[p] /\ Resident(p)
      BY <1>2, <1>5, <2>2 DEF Resident
    <3>2. page_table_[p] # F /\ page_table_[p] \in Frames
      BY <1>1, <3>1, PoolFacts
    <3>3. pages_'[page_table_[p]] = pages_[page_table_[p]]
      BY <1>2, <3>2, PoolFacts
    <3> QED
      BY <3>1, <3>3, PoolFacts
  <2> QED
    BY <1>2, <2>1, <2>2
<1>6. ASSUME NEW p \in PageIds
      PROVE  page_table_'[p] \notin Elements(free_list_')
  <2>1. NoFrame \notin Elements(free_list_')
    BY <1>1, PoolAssumption DEF Elements
  <2> QED
    BY <1>1, <1>2, <2>1, PoolFacts
<1>7. FramesNotShared'
  BY <1>1, <1>3, <1>4, <1>5, <1>6
  DEF FramesNotShared, TableMatchesFrames, FreeListExclusive, NoRepeats, Elements, Resident
<1>8. replacer_' \in [lru_list_ : Seq(Frames), lruList : SUBSET Frames,
                      buffer : SUBSET Frames]
  BY <1>1 DEF Listed, LruType
<1> QED
  BY <1>1, <1>3, <1>4, <1>7, <1>8

(* AllocatePage has a page to give unless all are out. *)
LEMMA NextFreePageIsFree ==
  ASSUME PoolInv, allocated # Pages
  PROVE  NextFreePage \in Pages \ allocated
<1>1. Pages \ allocated # {} /\ Pages \ allocated \subseteq Nat
  <2>1. PageIds \subseteq Nat
    BY PoolAssumption DEF PageIds
  <2> QED
    BY <2>1, PoolFacts DEF PoolInv
<1>2. \E p \in Pages \ allocated : \A q \in Pages \ allocated : p <= q
  BY <1>1, LeastNat, Zenon
<1> QED
  BY <1>2 DEF NextFreePage

(* AllocatePage returns a page, and careful clients get a free one. *)
LEMMA NewPageIdsArePages ==
  ASSUME PoolInv
  PROVE  /\ NewPageIds \subseteq Pages
         /\ careful => NewPageIds \subseteq Pages \ allocated
<1>1. careful => allocator # "unsound"
  BY DEF PoolInv, AllocatorServes
<1>2. CASE allocator = "unsound"
  BY <1>1, <1>2 DEF NewPageIds
<1>3. CASE allocator # "unsound" /\ allocated = Pages
  BY <1>3 DEF NewPageIds
<1>4. CASE allocator # "unsound" /\ allocated # Pages
  BY <1>4, NextFreePageIsFree DEF NewPageIds
<1> QED
  BY <1>2, <1>3, <1>4

(* The allocator goes on serving careful clients. *)
LEMMA AllocatorStep ==
  ASSUME AllocatorServes, [Next]_vars
  PROVE  AllocatorServes'
<1>1. ASSUME NEW p \in Pages, DeletePage(p)
      PROVE  AllocatorServes'
  BY <1>1 DEF DeletePage, AllocatorServes
<1>2. CASE Restart
  BY <1>2 DEF Restart, AllocatorServes
<1>3. CASE UNCHANGED <<careful, allocator>>
  BY <1>3 DEF AllocatorServes
<1> QED
  BY <1>1, <1>2, <1>3
  DEF Next, FetchHit, FetchMiss, FetchFails, NewPage, NewPageFails, ClientWrite, Unpin,
      FlushPage, vars, diskVars

(* The initial lists and tables, also those of a pool that is constructed  *)
(* after a restart.                                                        *)
LEMMA InitialLists ==
  /\ InitialFreeList \in Seq(Frames)
  /\ NoRepeats(InitialFreeList)
  /\ Elements(InitialFreeList) = Frames
  /\ EmptyFrame \in FrameType
<1>1. pool_size_ \in Nat /\ Frames = 0 .. pool_size_ - 1 /\ ZeroPage \in Data
  BY PoolAssumption
<1>2. \A i \in 1 .. pool_size_ : i - 1 \in Frames
  BY <1>1
<1>3. InitialFreeList \in Seq(Frames) /\ Len(InitialFreeList) = pool_size_
  BY <1>1, <1>2 DEF InitialFreeList
<1>4. \A i \in 1 .. pool_size_ : InitialFreeList[i] = i - 1
  BY DEF InitialFreeList
<1>5. NoRepeats(InitialFreeList)
  BY <1>1, <1>3, <1>4 DEF NoRepeats
<1>6. Elements(InitialFreeList) = Frames
  <2>1. \A f \in Frames : f + 1 \in 1 .. pool_size_ /\ InitialFreeList[f + 1] = f
    BY <1>1, <1>4
  <2> QED
    BY <1>2, <1>3, <1>4, <2>1 DEF Elements
<1>7. EmptyFrame \in FrameType
  BY <1>1 DEF EmptyFrame, FrameType
<1> QED
  BY <1>3, <1>5, <1>6, <1>7

(* The constructor leaves every frame on the free list. *)
LEMMA ConstructorPool ==
  ASSUME page_table_ = [p \in PageIds |-> NoFrame],
         pages_ = [f \in Frames |-> EmptyFrame],
         free_list_ = InitialFreeList,
         replacer_ = EmptyLru
  PROVE  /\ page_table_ \in [PageIds -> Frames \cup {NoFrame}]
         /\ pages_ \in [Frames -> FrameType]
         /\ free_list_ \in Seq(Frames)
         /\ Listed(replacer_)
         /\ replacer_ \in [lru_list_ : Seq(Frames), lruList : SUBSET Frames,
                           buffer : SUBSET Frames]
         /\ FramesNotShared
         /\ UnpinnedIsEvictable
         /\ FramesAccounted
         /\ \A p \in PageIds : ~Resident(p)
<1>1. Listed(replacer_) /\ Elements(replacer_.lru_list_) = {} /\ replacer_.lruList = {}
  BY EmptyLruListed DEF EmptyLru
<1>2. /\ free_list_ \in Seq(Frames) /\ NoRepeats(free_list_)
      /\ Elements(free_list_) = Frames
  BY InitialLists
<1>3. \A p \in PageIds : ~Resident(p) /\ page_table_[p] = NoFrame
  BY DEF Resident
<1>4. FramesNotShared
  BY <1>2, <1>3, PoolAssumption
  DEF FramesNotShared, TableMatchesFrames, FreeListExclusive, NoRepeats, Elements
<1>5. UnpinnedIsEvictable /\ FramesAccounted
  <2>1. \A f \in Frames : pages_[f].pin_count_ = 0
    BY DEF EmptyFrame
  <2> QED
    BY <1>1, <1>2, <2>1 DEF UnpinnedIsEvictable, FramesAccounted
<1>6. replacer_ \in [lru_list_ : Seq(Frames), lruList : SUBSET Frames,
                     buffer : SUBSET Frames]
  BY <1>1 DEF Listed, LruType
<1>7. pages_ \in [Frames -> FrameType]
  BY InitialLists
<1> QED
  BY <1>1, <1>2, <1>3, <1>4, <1>5, <1>6, <1>7

(* The initial states satisfy the invariant. *)
LEMMA InitInv == Init => IInv
<1> SUFFICES ASSUME Init
             PROVE  IInv
  OBVIOUS
<1>1. /\ page_table_ = [p \in PageIds |-> NoFrame]
      /\ pages_ = [f \in Frames |-> EmptyFrame]
      /\ free_list_ = InitialFreeList
      /\ replacer_ = EmptyLru
      /\ careful \in BOOLEAN
      /\ disk = [p \in PageIds |-> ZeroPage]
      /\ allocated = {} /\ touched = {} /\ allocator = "new"
      /\ ptr = [p \in PageIds |-> NoFrame]
      /\ holds = [p \in PageIds |-> 0]
      /\ latest = [p \in PageIds |-> ZeroPage]
  BY DEF Init, PoolInit
<1>2. /\ page_table_ \in [PageIds -> Frames \cup {NoFrame}]
      /\ pages_ \in [Frames -> FrameType]
      /\ free_list_ \in Seq(Frames)
      /\ Listed(replacer_)
      /\ replacer_ \in [lru_list_ : Seq(Frames), lruList : SUBSET Frames,
                        buffer : SUBSET Frames]
      /\ FramesNotShared /\ UnpinnedIsEvictable /\ FramesAccounted
      /\ \A p \in PageIds : ~Resident(p)
  BY <1>1, ConstructorPool
<1>3. ZeroPage \in Data /\ MaxHolds \in Nat /\ 0 \in 0 .. MaxHolds
  BY PoolAssumption
<1>4. TypeOK
  <2>1. holds \in [PageIds -> 0 .. MaxHolds] /\ disk \in [PageIds -> Data]
    BY <1>1, <1>3
  <2>2. latest \in [PageIds -> Data] /\ ptr \in [PageIds -> Frames \cup {NoFrame}]
    BY <1>1, <1>3
  <2> QED
    BY <1>1, <1>2, <2>1, <2>2 DEF TypeOK, FrameType
<1>5. PoolInv
  BY <1>1, <1>2, <1>4 DEF PoolInv, AllocatorServes
<1>6. CarefulInv
  <2>1. \A p \in PageIds : holds[p] = 0
    BY <1>1
  <2>2. PinsCountHolds /\ HeldIsResident /\ ResidentIsAllocated
    BY <1>2, <2>1 DEF PinsCountHolds, HeldIsResident, ResidentIsAllocated
  <2>3. CleanMatchesDisk /\ ContentIsLatest
    BY <1>1, <1>2 DEF CleanMatchesDisk, ContentIsLatest
  <2> QED
    BY <1>2, <2>2, <2>3 DEF CarefulInv
<1> QED
  BY <1>5, <1>6 DEF IInv

(* A step that frees at most one mapped frame and otherwise changes no     *)
(* entry and no page id keeps the tables apart.                            *)
LEMMA FreeingKeepsPool ==
  ASSUME PoolInv, NEW p \in PageIds, Resident(p), NEW frame \in FrameType,
         page_table_' = [page_table_ EXCEPT ![p] = NoFrame],
         free_list_' = Append(free_list_, page_table_[p]),
         pages_' = [pages_ EXCEPT ![page_table_[p]] = frame]
  PROVE  /\ page_table_' \in [PageIds -> Frames \cup {NoFrame}]
         /\ pages_' \in [Frames -> FrameType]
         /\ free_list_' \in Seq(Frames)
         /\ FramesNotShared'
<1> DEFINE f == page_table_[p]
<1>1. f \in Frames /\ f \notin Elements(free_list_)
  BY PoolFacts
<1>2. /\ free_list_' \in Seq(Frames) /\ NoRepeats(free_list_')
      /\ Elements(free_list_') = Elements(free_list_) \cup {f}
  BY <1>1, PoolFacts, PushBackProperties
<1>3. page_table_' \in [PageIds -> Frames \cup {NoFrame}]
  BY PoolFacts
<1>4. pages_' \in [Frames -> FrameType]
  BY <1>1, PoolFacts DEF FrameType
<1>5. ASSUME NEW q \in PageIds, page_table_'[q] # NoFrame
      PROVE  /\ pages_'[page_table_'[q]].page_id_ = q
             /\ page_table_'[q] # f
  <2>1. q # p /\ page_table_'[q] = page_table_[q] /\ Resident(q)
    BY <1>5, PoolFacts DEF Resident
  <2>2. page_table_[q] # f /\ page_table_[q] \in Frames
    BY <2>1, PoolFacts
  <2>3. pages_'[page_table_[q]] = pages_[page_table_[q]]
    BY <2>2, PoolFacts
  <2> QED
    BY <2>1, <2>2, <2>3, PoolFacts
<1>6. ASSUME NEW q \in PageIds
      PROVE  page_table_'[q] \notin Elements(free_list_')
  <2>1. CASE page_table_'[q] = NoFrame
    BY <1>2, <2>1, PoolAssumption DEF Elements
  <2>2. CASE page_table_'[q] # NoFrame
    <3>1. page_table_'[q] = page_table_[q]
      BY <2>2, PoolFacts
    <3> QED
      BY <1>2, <1>5, <2>2, <3>1, PoolFacts
  <2> QED
    BY <2>1, <2>2
<1>7. FramesNotShared'
  BY <1>2, <1>5, <1>6
  DEF FramesNotShared, TableMatchesFrames, FreeListExclusive, NoRepeats, Elements, Resident
<1> QED
  BY <1>2, <1>3, <1>4, <1>7

(* A step that changes no entry, no list and no page id keeps them too.    *)
LEMMA SameTablesKeepPool ==
  ASSUME PoolInv, pages_' \in [Frames -> FrameType],
         \A f \in Frames : pages_'[f].page_id_ = pages_[f].page_id_,
         UNCHANGED <<page_table_, free_list_>>
  PROVE  FramesNotShared'
<1>1. \A p \in PageIds : Resident(p) => /\ page_table_[p] \in Frames
                                       /\ pages_[page_table_[p]].page_id_ = p
  BY PoolFacts
<1> QED
  BY <1>1 DEF PoolInv, FramesNotShared, TableMatchesFrames, FreeListExclusive, Resident

(* Whatever clients do, a step keeps the pool's lists and tables together. *)
LEMMA PoolStep ==
  ASSUME PoolInv, [Next]_vars
  PROVE  PoolInv'
<1>0. pages_ \in [Frames -> FrameType]
  BY PoolFacts
<1>1. /\ MaxHolds \in Nat \ {0} /\ ZeroPage \in Data /\ HoldLimit \in 1 .. MaxHolds
      /\ EmptyFrame \in FrameType
  BY PoolAssumption, InitialLists, PoolFacts DEF HoldLimit
<1>2. ASSUME careful' = careful, FramesNotShared', Listed(replacer_'), allocated' \subseteq Pages,
             page_table_' \in [PageIds -> Frames \cup {NoFrame}],
             pages_' \in [Frames -> FrameType],
             free_list_' \in Seq(Frames),
             disk' \in [PageIds -> Data],
             ptr' \in [PageIds -> Frames \cup {NoFrame}],
             holds' \in [PageIds -> 0 .. MaxHolds],
             touched' \subseteq PageIds,
             latest' \in [PageIds -> Data]
      PROVE  PoolInv'
  <2>1. Pages' = Pages
    BY <1>2 DEF Pages
  <2>2. allocated' \subseteq PageIds /\ careful' \in BOOLEAN
    BY <1>2, PoolFacts
  <2>3. AllocatorServes' /\ allocator' \in {"new", "restarted", "unsound"}
    BY AllocatorStep DEF PoolInv, AllocatorServes
  <2> QED
    BY <1>2, <2>1, <2>2, <2>3 DEF PoolInv, TypeOK, Listed, LruType, FrameType
<1>3. allocated \subseteq Pages
  BY DEF PoolInv
<1>4. ASSUME NEW p \in PageIds, holds[p] < HoldLimit, NEW f \in Frames, Hold(p, f)
      PROVE  /\ ptr' \in [PageIds -> Frames \cup {NoFrame}]
             /\ holds' \in [PageIds -> 0 .. MaxHolds]
  <2>1. holds[p] + 1 \in 0 .. MaxHolds
    BY <1>1, <1>4, PoolFacts
  <2> QED
    BY <1>4, <2>1, PoolFacts DEF Hold
<1>5. ASSUME NEW evicted \in EvictedPages(FrameTaken), HasFrame
      PROVE  DiskAfterEvict(evicted, FrameTaken) \in [PageIds -> Data]
  BY <1>5, PoolFacts, TakenFrame DEF DiskAfterEvict, FrameType
<1>6. ASSUME NEW p \in Pages, FetchHit(p)
      PROVE  PoolInv'
  <2> DEFINE f == page_table_[p]
  <2>1. p \in PageIds /\ Resident(p) /\ f \in Frames
    BY <1>6, PoolFacts DEF FetchHit
  <2>2. Listed(replacer_')
    BY <1>6, <2>1, PoolFacts, PinKeepsListed DEF FetchHit
  <2>3. /\ pages_' \in [Frames -> FrameType]
        /\ \A g \in Frames : pages_'[g].page_id_ = pages_[g].page_id_
    <3> DEFINE frame == [pages_[f] EXCEPT !.pin_count_ = @ + 1]
    <3>1. pages_[f].pin_count_ + 1 \in Nat
      BY <1>0, <2>1 DEF FrameType
    <3>2. frame \in FrameType /\ frame.page_id_ = pages_[f].page_id_
      BY <1>0, <2>1, <3>1 DEF FrameType
    <3>3. pages_' = [pages_ EXCEPT ![f] = frame]
      BY <1>6 DEF FetchHit
    <3> HIDE DEF frame, f
    <3> QED
      BY <1>0, <2>1, <3>2, <3>3
  <2>4. FramesNotShared'
    BY <1>6, <2>3, SameTablesKeepPool DEF FetchHit
  <2>5. /\ ptr' \in [PageIds -> Frames \cup {NoFrame}]
        /\ holds' \in [PageIds -> 0 .. MaxHolds]
    BY <1>4, <1>6, <2>1 DEF FetchHit
  <2> QED
    BY <1>2, <1>3, <1>6, <2>2, <2>3, <2>4, <2>5, PoolFacts DEF FetchHit
<1>7. ASSUME NEW p \in Pages, FetchMiss(p)
      PROVE  PoolInv'
  <2>1. PICK evicted \in EvictedPages(FrameTaken) :
          /\ disk' = DiskAfterEvict(evicted, FrameTaken)
          /\ TakeFrame(p, evicted, FrameTaken, DiskAfterEvict(evicted, FrameTaken)[p])
    BY <1>7 DEF FetchMiss
  <2>2. p \in PageIds /\ HasFrame /\ FrameTaken \in Frames
    BY <1>7, <2>1, PoolFacts, TakenFrame DEF FetchMiss
  <2>3. disk' \in [PageIds -> Data]
    BY <1>5, <2>1, <2>2
  <2>4. DiskAfterEvict(evicted, FrameTaken)[p] \in Data
    BY <2>1, <2>2, <2>3
  <2>5. /\ ptr' \in [PageIds -> Frames \cup {NoFrame}]
        /\ holds' \in [PageIds -> 0 .. MaxHolds]
    BY <1>4, <1>7, <2>2 DEF FetchMiss
  <2>6. /\ page_table_' \in [PageIds -> Frames \cup {NoFrame}]
        /\ pages_' \in [Frames -> FrameType]
        /\ free_list_' \in Seq(Frames) /\ Listed(replacer_') /\ FramesNotShared'
    BY <2>1, <2>2, <2>4, TakeKeepsPool
  <2> QED
    BY <1>2, <1>3, <1>7, <2>3, <2>5, <2>6, PoolFacts DEF FetchMiss
<1>8. CASE NewPage
  <2>0. PICK p \in NewPageIds :
          /\ holds[p] < HoldLimit
          /\ allocated' = allocated \cup {p} /\ touched' = touched \cup {p}
          /\ latest' = [latest EXCEPT ![p] = ZeroPage]
          /\ Hold(p, FrameTaken)
          /\ \E evicted \in EvictedPages(FrameTaken) :
               /\ disk' = DiskAfterEvict(evicted, FrameTaken)
               /\ TakeFrame(p, evicted, FrameTaken, ZeroPage)
    BY <1>8 DEF NewPage
  <2>1. PICK evicted \in EvictedPages(FrameTaken) :
          /\ disk' = DiskAfterEvict(evicted, FrameTaken)
          /\ TakeFrame(p, evicted, FrameTaken, ZeroPage)
    BY <2>0
  <2>2. p \in Pages
    BY <2>0, NewPageIdsArePages
  <2>3. p \in PageIds /\ HasFrame /\ FrameTaken \in Frames
    BY <1>8, <2>1, <2>2, PoolFacts, TakenFrame DEF NewPage
  <2>4. disk' \in [PageIds -> Data]
    BY <1>5, <2>1, <2>3
  <2>5. /\ ptr' \in [PageIds -> Frames \cup {NoFrame}]
        /\ holds' \in [PageIds -> 0 .. MaxHolds]
    BY <1>4, <2>0, <2>3
  <2>6. /\ page_table_' \in [PageIds -> Frames \cup {NoFrame}]
        /\ pages_' \in [Frames -> FrameType]
        /\ free_list_' \in Seq(Frames) /\ Listed(replacer_') /\ FramesNotShared'
    BY <1>1, <2>1, <2>3, TakeKeepsPool
  <2>7. /\ allocated' = allocated \cup {p} /\ touched' = touched \cup {p}
        /\ latest' = [latest EXCEPT ![p] = ZeroPage] /\ careful' = careful
    BY <1>8, <2>0 DEF NewPage
  <2>8. /\ allocated' \subseteq Pages /\ touched' \subseteq PageIds
        /\ latest' \in [PageIds -> Data]
    BY <1>1, <1>3, <2>2, <2>3, <2>7, PoolFacts
  <2> QED
    BY <1>2, <2>4, <2>5, <2>6, <2>7, <2>8
<1>9. ASSUME NEW p \in Pages, NEW d \in Contents, ClientWrite(p, d)
      PROVE  PoolInv'
  <2>1. p \in PageIds /\ d \in Data
    BY PoolFacts
  <2>2. /\ pages_' \in [Frames -> FrameType]
        /\ \A g \in Frames : pages_'[g].page_id_ = pages_[g].page_id_
    <3> DEFINE frame == [pages_[ptr[p]] EXCEPT !.data_ = d]
    <3>1. pages_' = [pages_ EXCEPT ![ptr[p]] = frame]
      BY <1>9 DEF ClientWrite
    <3>2. ptr[p] \in Frames => frame \in FrameType /\ frame.page_id_ = pages_[ptr[p]].page_id_
      BY <1>0, <2>1, FrameEdited
    <3> HIDE DEF frame
    <3> QED
      BY <1>0, <3>1, <3>2
  <2>3. FramesNotShared'
    BY <1>9, <2>2, SameTablesKeepPool DEF ClientWrite
  <2>4. touched' \subseteq PageIds /\ latest' \in [PageIds -> Data]
    BY <1>9, <2>1, PoolFacts DEF ClientWrite
  <2> QED
    BY <1>2, <1>3, <1>9, <2>2, <2>3, <2>4, PoolFacts DEF ClientWrite
<1>10. ASSUME NEW p \in Pages, NEW is_dirty \in BOOLEAN, Unpin(p, is_dirty)
       PROVE  PoolInv'
  <2> DEFINE f == page_table_[p]
  <2>1. p \in PageIds /\ holds[p] > 0 /\ holds[p] \in 0 .. MaxHolds
    BY <1>10, PoolFacts DEF Unpin
  <2>2. /\ pages_' \in [Frames -> FrameType]
        /\ \A g \in Frames : pages_'[g].page_id_ = pages_[g].page_id_
        /\ Listed(replacer_')
    <3>1. CASE Resident(p)
      <4>1. f \in Frames
        BY <2>1, <3>1, PoolFacts
      <4>2. replacer_' = AfterUnpin(replacer_, f)
        BY <1>10, <3>1 DEF Unpin
      <4>3. Listed(replacer_')
        BY <4>1, <4>2, PoolFacts, UnpinKeepsListed
      <4>4. DirtyAfterUnpin(f, is_dirty) \in BOOLEAN
        BY <4>1, PoolFacts DEF DirtyAfterUnpin
      <4> DEFINE frame == [pages_[f] EXCEPT !.pin_count_ = 0,
                                            !.is_dirty_ = DirtyAfterUnpin(f, is_dirty)]
      <4>5. pages_' = [pages_ EXCEPT ![f] = frame]
        BY <1>0, <1>10, <3>1, <4>1 DEF Unpin
      <4>6. frame \in FrameType /\ frame.page_id_ = pages_[f].page_id_
        BY <1>0, <4>1, <4>4 DEF FrameType
      <4> HIDE DEF f, frame
      <4> QED
        BY <1>0, <4>1, <4>3, <4>5, <4>6
    <3>2. CASE ~Resident(p)
      BY <1>10, <3>2, PoolFacts DEF Unpin
    <3> QED
      BY <3>1, <3>2
  <2>3. FramesNotShared'
    BY <1>10, <2>2, SameTablesKeepPool DEF Unpin
  <2>4. holds' \in [PageIds -> 0 .. MaxHolds]
    <3>1. holds[p] - 1 \in 0 .. MaxHolds
      BY <1>1, <2>1
    <3> QED
      BY <1>10, <3>1, PoolFacts DEF Unpin
  <2>5. ptr' \in [PageIds -> Frames \cup {NoFrame}] /\ touched' \subseteq PageIds
    BY <1>10, <2>1, PoolFacts DEF Unpin
  <2> QED
    BY <1>2, <1>3, <1>10, <2>2, <2>3, <2>4, <2>5, PoolFacts DEF Unpin
<1>11. ASSUME NEW p \in Pages, DeletePage(p)
       PROVE  PoolInv'
  <2> DEFINE f == page_table_[p]
  <2>1. p \in PageIds
    BY PoolFacts
  <2>2. /\ page_table_' \in [PageIds -> Frames \cup {NoFrame}]
        /\ pages_' \in [Frames -> FrameType]
        /\ free_list_' \in Seq(Frames) /\ FramesNotShared'
    <3>1. CASE Resident(p) /\ pages_[f].pin_count_ = 0
      <4>1. /\ page_table_' = [page_table_ EXCEPT ![p] = NoFrame]
            /\ free_list_' = Append(free_list_, f)
            /\ pages_' = [pages_ EXCEPT ![f] = EmptyFrame]
        BY <1>11, <3>1 DEF DeletePage
      <4> QED
        BY <1>1, <2>1, <3>1, <4>1, FreeingKeepsPool
    <3>2. CASE ~(Resident(p) /\ pages_[f].pin_count_ = 0)
      <4>1. UNCHANGED <<page_table_, free_list_, pages_>>
        BY <1>11, <3>2 DEF DeletePage
      <4> QED
        BY <4>1, PoolFacts, SameTablesKeepPool
    <3> QED
      BY <3>1, <3>2
  <2> QED
    BY <1>2, <1>3, <1>11, <2>2, PoolFacts DEF DeletePage, clientVars
<1>12. ASSUME NEW p \in Pages, FlushPage(p)
       PROVE  PoolInv'
  <2> DEFINE f == page_table_[p]
             frame == [pages_[f] EXCEPT !.pin_count_ = 0, !.is_dirty_ = FALSE]
  <2>1. p \in PageIds /\ Resident(p) /\ f \in Frames
    BY <1>12, PoolFacts DEF FlushPage
  <2>2. frame \in FrameType /\ pages_' = [pages_ EXCEPT ![f] = frame]
    <3>1. frame \in FrameType
      BY <1>0, <2>1 DEF FrameType
    <3>2. pages_' = [pages_ EXCEPT ![f] = frame]
      BY <1>0, <1>12, <2>1 DEF FlushPage
    <3> QED
      BY <3>1, <3>2
  <2>3. /\ page_table_' = [page_table_ EXCEPT ![p] = NoFrame]
        /\ free_list_' = Append(free_list_, f)
    BY <1>12 DEF FlushPage
  <2>4. /\ page_table_' \in [PageIds -> Frames \cup {NoFrame}]
        /\ pages_' \in [Frames -> FrameType]
        /\ free_list_' \in Seq(Frames) /\ FramesNotShared'
    BY <2>1, <2>2, <2>3, FreeingKeepsPool
  <2>5. disk' \in [PageIds -> Data]
    BY <1>12, <2>1, PoolFacts DEF FlushPage, FrameType
  <2> QED
    BY <1>2, <1>3, <1>12, <2>4, <2>5, PoolFacts DEF FlushPage, clientVars
<1>13. CASE Restart
  <2>1. /\ page_table_' \in [PageIds -> Frames \cup {NoFrame}]
        /\ pages_' \in [Frames -> FrameType]
        /\ free_list_' \in Seq(Frames) /\ Listed(replacer_') /\ FramesNotShared'
    <3>1. /\ page_table_' = [p \in PageIds |-> NoFrame]
          /\ pages_' = [f \in Frames |-> EmptyFrame]
          /\ free_list_' = InitialFreeList
          /\ replacer_' = EmptyLru
      BY <1>13 DEF Restart
    <3>2. Listed(replacer_')
      BY <3>1, EmptyLruListed
    <3>3. /\ free_list_' \in Seq(Frames) /\ NoRepeats(free_list_')
          /\ Elements(free_list_') = Frames
      BY <3>1, InitialLists
    <3>4. FramesNotShared'
      BY <3>1, <3>3, PoolAssumption
      DEF FramesNotShared, TableMatchesFrames, FreeListExclusive, NoRepeats, Elements,
          Resident
    <3> QED
      BY <1>1, <3>1, <3>2, <3>3, <3>4
  <2>2. disk' \in [PageIds -> Data]
    BY <1>13, PoolFacts DEF FrameType, Restart, FlushedAtShutdown
  <2> QED
    BY <1>2, <1>3, <1>13, <2>1, <2>2, PoolFacts DEF Restart, clientVars
<1>14. CASE \/ \E p \in Pages : FetchFails(p)
            \/ NewPageFails
            \/ UNCHANGED vars
  <2>1. UNCHANGED <<careful, page_table_, pages_, free_list_, replacer_, disk, allocated,
                    ptr, holds, touched, latest>>
    BY <1>14 DEF FetchFails, NewPageFails, vars, poolVars, diskVars, clientVars
  <2>2. FramesNotShared'
    BY <2>1, PoolFacts, SameTablesKeepPool
  <2> QED
    BY <1>2, <1>3, <2>1, <2>2, PoolFacts
<1> QED
  BY <1>6, <1>7, <1>8, <1>9, <1>10, <1>11, <1>12, <1>13, <1>14 DEF Next

-----------------------------------------------------------------------------
(***************************************************************************)
(* Careful clients.  The frame taken is not pinned, and the page evicted   *)
(* with it is the one that was mapped there.                               *)
(***************************************************************************)
LEMMA TakenIsUnpinned ==
  ASSUME PoolInv, CarefulInv, HasFrame, NEW evicted \in EvictedPages(FrameTaken)
  PROVE  /\ pages_[FrameTaken].pin_count_ = 0
         /\ ReplacerAfterTake.lruList = replacer_.lruList \ {FrameTaken}
         /\ evicted \in PageIds =>
              /\ Resident(evicted) /\ page_table_[evicted] = FrameTaken
              /\ holds[evicted] = 0 /\ evicted \notin touched
<1>1. FrameTaken \in Frames
  BY TakenFrame
<1>2. replacer_.lruList = Elements(replacer_.lru_list_)
  BY DEF PoolInv, Listed
<1>3. CASE free_list_ # <<>>
  <2>1. /\ FrameTaken \in Elements(free_list_) /\ ReplacerAfterTake = replacer_
        /\ evicted = INVALID_PAGE_ID
    BY <1>3, TakenFrame
  <2>2. FrameTaken \notin replacer_.lruList
    BY <2>1 DEF CarefulInv, FramesAccounted
  <2>3. pages_[FrameTaken].pin_count_ = 0
    BY <1>1, <2>1 DEF CarefulInv, UnpinnedIsEvictable
  <2> QED
    BY <2>1, <2>2, <2>3, PoolAssumption
<1>4. CASE free_list_ = <<>>
  <2>1. /\ FrameTaken \in replacer_.lruList /\ Elements(free_list_) = {}
        /\ ReplacerAfterTake.lruList = replacer_.lruList \ {FrameTaken}
        /\ \A q \in PageIds : page_table_[q] = FrameTaken => q = evicted
    BY <1>4, TakenFrame
  <2>2. pages_[FrameTaken].pin_count_ = 0
    BY <1>1, <1>2, <2>1 DEF CarefulInv, UnpinnedIsEvictable
  <2>3. PICK q \in PageIds : page_table_[q] = FrameTaken
    BY <1>1, <2>1 DEF CarefulInv, FramesAccounted
  <2>4. evicted = q /\ Resident(evicted)
    BY <1>1, <2>1, <2>3, PoolAssumption DEF Resident
  <2>5. holds[evicted] = 0
    BY <2>2, <2>3, <2>4 DEF CarefulInv, PinsCountHolds
  <2>6. evicted \notin touched
    BY <2>5 DEF CarefulInv, CleanMatchesDisk
  <2> QED
    BY <2>1, <2>2, <2>3, <2>4, <2>5, <2>6
<1> QED
  BY <1>3, <1>4

(* FetchPage and NewPage of a page that is not resident: the evicted page  *)
(* leaves its latest content on disk, the new page gets a pinned frame.    *)
LEMMA CarefulTake ==
  ASSUME PoolInv, CarefulInv, HasFrame,
         NEW p \in PageIds, ~Resident(p), holds[p] = 0, NEW data \in Data,
         NEW evicted \in EvictedPages(FrameTaken),
         TakeFrame(p, evicted, FrameTaken, data), Hold(p, FrameTaken),
         disk' = DiskAfterEvict(evicted, FrameTaken),
         allocated' = allocated \cup {p},
         \/ /\ touched' = touched /\ latest' = latest
            /\ p \in allocated /\ data = disk'[p]
         \/ touched' = touched \cup {p} /\ latest' = [latest EXCEPT ![p] = data]
  PROVE  CarefulInv'
<1> DEFINE F == FrameTaken
           new == [page_id_ |-> p, pin_count_ |-> 1, is_dirty_ |-> FALSE, data_ |-> data]
<1>1. /\ F \in Frames
      /\ Elements(free_list_') = Elements(free_list_) \ {F}
      /\ replacer_'.lruList = replacer_.lruList \ {F}
      /\ Listed(replacer_')
      /\ \A q \in PageIds : page_table_[q] = F => q = evicted
      /\ pages_[F].pin_count_ = 0
      /\ evicted \in PageIds => /\ Resident(evicted) /\ page_table_[evicted] = F
                                /\ holds[evicted] = 0 /\ evicted \notin touched
  BY TakenFrame, TakenIsUnpinned DEF TakeFrame
<1>2. /\ replacer_.lruList = Elements(replacer_.lru_list_)
      /\ replacer_'.lruList = Elements(replacer_'.lru_list_)
  BY <1>1 DEF PoolInv, Listed
<1>3. /\ pages_ \in [Frames -> FrameType] /\ pages_' = [pages_ EXCEPT ![F] = new]
      /\ page_table_' = [q \in PageIds |->
                          IF q = p /\ (q = evicted \/ ~Resident(q)) THEN F
                          ELSE IF q = evicted THEN NoFrame
                          ELSE page_table_[q]]
      /\ ptr' = [ptr EXCEPT ![p] = F] /\ holds' = [holds EXCEPT ![p] = @ + 1]
      /\ disk' = IF evicted \in PageIds /\ pages_[F].is_dirty_
                 THEN [disk EXCEPT ![evicted] = pages_[F].data_] ELSE disk
  BY PoolFacts DEF TakeFrame, TableAfterTake, Hold, DiskAfterEvict
<1> HIDE DEF F
<1>4. p # evicted /\ F # NoFrame
  BY <1>1, PoolAssumption
<1>5. pages_'[F] = new /\ \A f \in Frames \ {F} : pages_'[f] = pages_[f]
  BY <1>1, <1>3
<1>6. /\ page_table_'[p] = F /\ holds'[p] = 1 /\ ptr'[p] = F /\ Resident(p)'
  <2>1. page_table_'[p] = F
    BY <1>3, <1>4
  <2> QED
    BY <1>3, <1>4, <2>1, PoolFacts DEF Resident
<1>7. ASSUME NEW q \in PageIds, q # p
      PROVE  /\ holds'[q] = holds[q] /\ ptr'[q] = ptr[q]
             /\ page_table_'[q] = IF q = evicted THEN NoFrame ELSE page_table_[q]
             /\ Resident(q)' <=> Resident(q) /\ q # evicted
             /\ q # evicted /\ Resident(q) =>
                  /\ page_table_[q] \in Frames \ {F}
                  /\ pages_'[page_table_[q]] = pages_[page_table_[q]]
  <2>1. holds'[q] = holds[q] /\ ptr'[q] = ptr[q]
    BY <1>3, <1>7, PoolFacts
  <2>2. page_table_'[q] = IF q = evicted THEN NoFrame ELSE page_table_[q]
    BY <1>3, <1>7
  <2>3. q # evicted /\ Resident(q) => page_table_[q] \in Frames \ {F}
    BY <1>1, PoolFacts
  <2> QED
    BY <1>5, <2>1, <2>2, <2>3 DEF Resident
<1>8. ASSUME NEW q \in PageIds
      PROVE  /\ q # evicted => disk'[q] = disk[q]
             /\ q = evicted => disk'[q] = pages_[F].data_
  <2>1. q # evicted => disk'[q] = disk[q]
    BY <1>3, PoolFacts
  <2>2. CASE q = evicted
    <3>1. ~pages_[F].is_dirty_ => pages_[F].data_ = disk[q]
      BY <1>1, <2>2 DEF CarefulInv, CleanMatchesDisk
    <3> QED
      BY <1>3, <2>2, <3>1, PoolFacts
  <2> QED
    BY <2>1, <2>2
<1>9. PinsCountHolds'
  <2> SUFFICES ASSUME NEW q \in PageIds
               PROVE  /\ holds'[q] \in {0, 1}
                      /\ Resident(q)' => pages_'[page_table_'[q]].pin_count_ = holds'[q]
    BY DEF PinsCountHolds
  <2>1. CASE q = p
    BY <1>5, <1>6, <2>1
  <2>2. CASE q # p
    BY <1>7, <2>2 DEF CarefulInv, PinsCountHolds
  <2> QED
    BY <2>1, <2>2
<1>10. HeldIsResident'
  <2> SUFFICES ASSUME NEW q \in PageIds, holds'[q] > 0
               PROVE  Resident(q)' /\ ptr'[q] = page_table_'[q]
    BY DEF HeldIsResident
  <2>1. CASE q = p
    BY <1>6, <2>1
  <2>2. CASE q # p
    <3>1. holds[q] > 0 /\ q # evicted
      BY <1>1, <1>7, <2>2
    <3> QED
      BY <1>7, <2>2, <3>1 DEF CarefulInv, HeldIsResident
  <2> QED
    BY <2>1, <2>2
<1>11. UnpinnedIsEvictable'
  <2> SUFFICES ASSUME NEW f \in Frames
               PROVE  pages_'[f].pin_count_ = 0 <=>
                        f \in replacer_'.lruList \cup Elements(free_list_')
    BY <1>2 DEF UnpinnedIsEvictable
  <2>1. CASE f = F
    BY <1>1, <1>5, <2>1
  <2>2. CASE f # F
    BY <1>1, <1>2, <1>5, <2>2 DEF CarefulInv, UnpinnedIsEvictable
  <2> QED
    BY <2>1, <2>2
<1>12. FramesAccounted'
  <2>1. ASSUME NEW f \in Frames
        PROVE  f \in Elements(free_list_') \/ \E q \in PageIds : page_table_'[q] = f
    <3>1. CASE f = F
      BY <1>6, <3>1
    <3>2. CASE f # F /\ f \notin Elements(free_list_)
      <4>1. PICK q \in PageIds : page_table_[q] = f
        BY <3>2 DEF CarefulInv, FramesAccounted
      <4>2. q # evicted /\ q # p
        BY <1>1, <3>2, <4>1, PoolAssumption DEF Resident
      <4> QED
        BY <1>7, <4>1, <4>2
    <3> QED
      BY <1>1, <3>1, <3>2
  <2> QED
    BY <1>1, <2>1 DEF CarefulInv, FramesAccounted
<1>13. ResidentIsAllocated'
  BY <1>7 DEF ResidentIsAllocated, CarefulInv
<1>14. CleanMatchesDisk'
  <2>1. ASSUME NEW q \in touched'
        PROVE  holds'[q] > 0
    <3>1. CASE q = p
      BY <1>6, <3>1
    <3>2. CASE q # p
      <4>1. q \in touched /\ q \in PageIds
        BY <2>1, <3>2, PoolFacts
      <4> QED
        BY <1>7, <3>2, <4>1 DEF CarefulInv, CleanMatchesDisk
    <3> QED
      BY <3>1, <3>2
  <2>2. ASSUME NEW q \in PageIds, Resident(q)', q \notin touched',
               ~pages_'[page_table_'[q]].is_dirty_
        PROVE  pages_'[page_table_'[q]].data_ = disk'[q]
    <3>1. CASE q = p
      BY <1>5, <1>6, <2>2, <3>1
    <3>2. CASE q # p
      <4>1. q \notin touched /\ q # evicted /\ Resident(q)
        BY <1>7, <2>2, <3>2
      <4> QED
        BY <1>7, <1>8, <2>2, <3>2, <4>1 DEF CarefulInv, CleanMatchesDisk
    <3> QED
      BY <3>1, <3>2
  <2> QED
    BY <2>1, <2>2 DEF CleanMatchesDisk
<1>15. ContentIsLatest'
  <2> SUFFICES ASSUME NEW q \in allocated'
               PROVE  latest'[q] = IF Resident(q)' THEN pages_'[page_table_'[q]].data_
                                   ELSE disk'[q]
    BY DEF ContentIsLatest
  <2>1. CASE q = p
    <3>1. latest'[p] = data
      <4>1. CASE latest' = latest /\ p \in allocated /\ data = disk'[p]
        <5>1. latest[p] = disk[p]
          BY <4>1 DEF CarefulInv, ContentIsLatest
        <5> QED
          BY <1>4, <1>8, <4>1, <5>1
      <4>2. CASE latest' = [latest EXCEPT ![p] = data]
        BY <4>2, PoolFacts
      <4> QED
        BY <4>1, <4>2
    <3> QED
      BY <1>5, <1>6, <2>1, <3>1
  <2>2. CASE q # p
    <3>1. q \in allocated /\ q \in PageIds /\ latest'[q] = latest[q]
      BY <2>2, PoolFacts
    <3>2. CASE q = evicted
      <4>1. latest[q] = pages_[F].data_
        BY <1>1, <3>1, <3>2 DEF CarefulInv, ContentIsLatest
      <4> QED
        BY <1>7, <1>8, <2>2, <3>1, <3>2, <4>1
    <3>3. CASE q # evicted
      BY <1>7, <1>8, <2>2, <3>1, <3>3 DEF CarefulInv, ContentIsLatest
    <3> QED
      BY <3>2, <3>3
  <2> QED
    BY <2>1, <2>2
<1> QED
  BY <1>9, <1>10, <1>11, <1>12, <1>13, <1>14, <1>15 DEF CarefulInv

(* FetchPage of a resident page pins it and takes it out of the replacer.  *)
LEMMA CarefulFetchHit ==
  ASSUME PoolInv, careful, CarefulInv, NEW p \in PageIds, FetchHit(p)
  PROVE  CarefulInv'
<1> DEFINE f == page_table_[p]
<1>1. /\ Resident(p) /\ f \in Frames /\ holds[p] = 0
      /\ pages_ \in [Frames -> FrameType] /\ pages_[f].pin_count_ = 0
  <2>1. Resident(p) /\ holds[p] < 1
    BY DEF FetchHit, HoldLimit
  <2>2. holds[p] = 0
    BY <2>1 DEF CarefulInv, PinsCountHolds
  <2> QED
    BY <2>1, <2>2, PoolFacts DEF CarefulInv, PinsCountHolds
<1>2. /\ pages_' = [pages_ EXCEPT ![f].pin_count_ = @ + 1]
      /\ replacer_' = AfterPin(replacer_, f)
      /\ ptr' = [ptr EXCEPT ![p] = f] /\ holds' = [holds EXCEPT ![p] = @ + 1]
      /\ UNCHANGED <<page_table_, free_list_, disk, allocated, touched, latest>>
  BY DEF FetchHit, Hold
<1>3. /\ Listed(replacer_') /\ replacer_'.lruList = replacer_.lruList \ {f}
      /\ replacer_.lruList = Elements(replacer_.lru_list_)
      /\ replacer_'.lruList = Elements(replacer_'.lru_list_)
  BY <1>1, <1>2, PinKeepsListed DEF PoolInv, Listed
<1>4. /\ holds'[p] = 1 /\ ptr'[p] = f
      /\ \A q \in PageIds \ {p} : /\ holds'[q] = holds[q] /\ ptr'[q] = ptr[q]
                                  /\ page_table_[q] # f
  BY <1>1, <1>2, PoolFacts
<1> HIDE DEF f
<1>5. /\ pages_'[f].pin_count_ = 1
      /\ \A g \in Frames \ {f} : pages_'[g] = pages_[g]
      /\ \A g \in Frames : pages_'[g].data_ = pages_[g].data_
                         /\ pages_'[g].is_dirty_ = pages_[g].is_dirty_
  BY <1>1, <1>2 DEF FrameType
<1>6. \A q \in PageIds : /\ Resident(q)' <=> Resident(q)
                        /\ Resident(q) => page_table_[q] \in Frames
  BY <1>2, PoolFacts DEF Resident
<1>7. PinsCountHolds' /\ HeldIsResident'
  <2> SUFFICES ASSUME NEW q \in PageIds
               PROVE  /\ holds'[q] \in {0, 1}
                      /\ Resident(q)' => pages_'[page_table_'[q]].pin_count_ = holds'[q]
                      /\ holds'[q] > 0 => Resident(q)' /\ ptr'[q] = page_table_'[q]
    BY DEF PinsCountHolds, HeldIsResident
  <2>1. CASE q = p
    BY <1>1, <1>2, <1>4, <1>5, <1>6, <2>1 DEF f, Resident
  <2>2. CASE q # p
    BY <1>2, <1>4, <1>5, <1>6, <2>2 DEF CarefulInv, PinsCountHolds, HeldIsResident, Resident
  <2> QED
    BY <2>1, <2>2
<1>8. UnpinnedIsEvictable'
  <2>1. f \notin Elements(free_list_)
    BY PoolFacts DEF f
  <2> SUFFICES ASSUME NEW g \in Frames
               PROVE  pages_'[g].pin_count_ = 0 <=>
                        g \in replacer_'.lruList \cup Elements(free_list_')
    BY <1>3 DEF UnpinnedIsEvictable
  <2> QED
    BY <1>2, <1>3, <1>5, <2>1 DEF CarefulInv, UnpinnedIsEvictable
<1>9. FramesAccounted' /\ ResidentIsAllocated'
  BY <1>2, <1>3, <1>6 DEF CarefulInv, FramesAccounted, ResidentIsAllocated, Resident
<1>10. CleanMatchesDisk'
  <2>1. ASSUME NEW q \in touched
        PROVE  holds'[q] > 0
    <3>1. q \in PageIds /\ holds[q] > 0
      BY PoolFacts DEF CarefulInv, CleanMatchesDisk
    <3> QED
      BY <1>4, <3>1
  <2> QED
    BY <1>2, <1>5, <1>6, <2>1 DEF CarefulInv, CleanMatchesDisk, Resident
<1>11. ContentIsLatest'
  BY <1>2, <1>5, <1>6, PoolFacts DEF CarefulInv, ContentIsLatest, Resident
<1> QED
  BY <1>7, <1>8, <1>9, <1>10, <1>11 DEF CarefulInv

(* A client that holds a page writes to the frame of that very page.       *)
LEMMA CarefulWrite ==
  ASSUME PoolInv, CarefulInv, NEW p \in PageIds, NEW d \in Data, ClientWrite(p, d)
  PROVE  CarefulInv'
<1> DEFINE f == page_table_[p]
<1>1. /\ Resident(p) /\ f \in Frames /\ ptr[p] = f /\ holds[p] > 0
      /\ pages_ \in [Frames -> FrameType]
  <2>1. holds[p] > 0
    BY DEF ClientWrite
  <2> QED
    BY <2>1, PoolFacts DEF CarefulInv, HeldIsResident
<1>2. /\ pages_' = [pages_ EXCEPT ![f].data_ = d]
      /\ touched' = touched \cup {p} /\ latest' = [latest EXCEPT ![p] = d]
      /\ UNCHANGED <<page_table_, free_list_, replacer_, disk, allocated, ptr, holds>>
  BY <1>1 DEF ClientWrite
<1>3. \A q \in PageIds \ {p} : page_table_[q] # f
  BY <1>1, PoolFacts
<1> HIDE DEF f
<1>4. /\ pages_'[f].data_ = d
      /\ \A g \in Frames \ {f} : pages_'[g] = pages_[g]
      /\ \A g \in Frames : pages_'[g].pin_count_ = pages_[g].pin_count_
  BY <1>1, <1>2 DEF FrameType
<1>5. \A q \in PageIds : /\ Resident(q)' <=> Resident(q)
                        /\ Resident(q) => page_table_[q] \in Frames
  BY <1>2, PoolFacts DEF Resident
<1>6. PinsCountHolds' /\ HeldIsResident'
  BY <1>2, <1>4, <1>5 DEF CarefulInv, PinsCountHolds, HeldIsResident, Resident
<1>7. UnpinnedIsEvictable' /\ FramesAccounted' /\ ResidentIsAllocated'
  BY <1>2, <1>4, <1>5
  DEF CarefulInv, UnpinnedIsEvictable, FramesAccounted, ResidentIsAllocated, Resident
<1>8. CleanMatchesDisk'
  <2>1. ASSUME NEW q \in PageIds, Resident(q), q \notin touched',
               ~pages_'[page_table_[q]].is_dirty_
        PROVE  pages_'[page_table_[q]].data_ = disk[q]
    BY <1>2, <1>3, <1>4, <1>5, <2>1 DEF CarefulInv, CleanMatchesDisk
  <2>2. \A q \in touched' : holds[q] > 0
    BY <1>1, <1>2 DEF CarefulInv, CleanMatchesDisk
  <2> QED
    BY <1>2, <1>5, <2>1, <2>2 DEF CleanMatchesDisk, Resident
<1>9. ContentIsLatest'
  <2> SUFFICES ASSUME NEW q \in allocated
               PROVE  latest'[q] = IF Resident(q) THEN pages_'[page_table_[q]].data_
                                   ELSE disk[q]
    BY <1>2, <1>5, PoolFacts DEF ContentIsLatest, Resident
  <2>1. CASE q = p
    BY <1>1, <1>2, <1>4, <2>1, PoolFacts DEF f
  <2>2. CASE q # p
    <3>1. q \in PageIds /\ latest'[q] = latest[q]
      BY <1>2, <2>2, PoolFacts
    <3>2. Resident(q) => pages_'[page_table_[q]] = pages_[page_table_[q]]
      <4>1. q \in PageIds \ {p} /\ (Resident(q) => page_table_[q] \in Frames)
        BY <2>2, <3>1, PoolFacts
      <4>2. page_table_[q] # f
        BY <1>3, <4>1
      <4> QED
        BY <1>4, <4>1, <4>2
    <3> QED
      BY <3>1, <3>2 DEF CarefulInv, ContentIsLatest, Resident
  <2> QED
    BY <2>1, <2>2
<1> QED
  BY <1>6, <1>7, <1>8, <1>9 DEF CarefulInv

(* UnpinPage gives the frame to the replacer, and a changed page is dirty  *)
(* from then on.                                                           *)
LEMMA CarefulUnpin ==
  ASSUME PoolInv, CarefulInv, NEW p \in PageIds, NEW is_dirty \in BOOLEAN,
         Unpin(p, is_dirty)
  PROVE  CarefulInv'
<1> DEFINE f == page_table_[p]
           dirty == DirtyAfterUnpin(f, is_dirty)
<1>1. /\ Resident(p) /\ f \in Frames /\ holds[p] = 1
      /\ pages_ \in [Frames -> FrameType]
  <2>1. holds[p] > 0 /\ holds[p] \in {0, 1}
    BY DEF Unpin, CarefulInv, PinsCountHolds
  <2> QED
    BY <2>1, PoolFacts DEF CarefulInv, HeldIsResident
<1>2. /\ pages_' = [pages_ EXCEPT ![f].pin_count_ = 0, ![f].is_dirty_ = dirty]
      /\ replacer_' = AfterUnpin(replacer_, f)
      /\ holds' = [holds EXCEPT ![p] = @ - 1]
      /\ ptr' = [ptr EXCEPT ![p] = NoFrame]
      /\ touched' = touched \ {p}
      /\ p \in touched => is_dirty
      /\ UNCHANGED <<page_table_, free_list_, disk, allocated, latest>>
  BY <1>1, PoolFacts DEF Unpin
<1>3. dirty = (pages_[f].is_dirty_ \/ is_dirty)
  BY DEF DirtyAfterUnpin
<1>4. /\ Listed(replacer_') /\ replacer_'.lruList = replacer_.lruList \cup {f}
      /\ replacer_.lruList = Elements(replacer_.lru_list_)
      /\ replacer_'.lruList = Elements(replacer_'.lru_list_)
  BY <1>1, <1>2, UnpinKeepsListed DEF PoolInv, Listed
<1>5. /\ holds'[p] = 0
      /\ \A q \in PageIds \ {p} : /\ holds'[q] = holds[q] /\ ptr'[q] = ptr[q]
                                  /\ page_table_[q] # f
  BY <1>1, <1>2, PoolFacts
<1> HIDE DEF f, dirty
<1>6. /\ pages_'[f].pin_count_ = 0 /\ pages_'[f].is_dirty_ = dirty
      /\ \A g \in Frames \ {f} : pages_'[g] = pages_[g]
      /\ \A g \in Frames : pages_'[g].data_ = pages_[g].data_
  BY <1>1, <1>2 DEF FrameType
<1>7. \A q \in PageIds : /\ Resident(q)' <=> Resident(q)
                        /\ Resident(q) => page_table_[q] \in Frames
  BY <1>2, PoolFacts DEF Resident
<1>8. PinsCountHolds' /\ HeldIsResident'
  <2> SUFFICES ASSUME NEW q \in PageIds
               PROVE  /\ holds'[q] \in {0, 1}
                      /\ Resident(q)' => pages_'[page_table_'[q]].pin_count_ = holds'[q]
                      /\ holds'[q] > 0 => Resident(q)' /\ ptr'[q] = page_table_'[q]
    BY DEF PinsCountHolds, HeldIsResident
  <2>1. CASE q = p
    BY <1>2, <1>5, <1>6, <2>1 DEF f
  <2>2. CASE q # p
    <3>1. Resident(q) => pages_'[page_table_[q]] = pages_[page_table_[q]]
      <4>1. q \in PageIds \ {p} /\ (Resident(q) => page_table_[q] \in Frames)
        BY <2>2, PoolFacts
      <4>2. page_table_[q] # f
        BY <1>5, <4>1
      <4> QED
        BY <1>6, <4>1, <4>2
    <3> QED
      BY <1>2, <1>5, <2>2, <3>1 DEF CarefulInv, PinsCountHolds, HeldIsResident, Resident
  <2> QED
    BY <2>1, <2>2
<1>9. UnpinnedIsEvictable'
  <2> SUFFICES ASSUME NEW g \in Frames
               PROVE  pages_'[g].pin_count_ = 0 <=>
                        g \in replacer_'.lruList \cup Elements(free_list_')
    BY <1>4 DEF UnpinnedIsEvictable
  <2> QED
    BY <1>2, <1>4, <1>6 DEF CarefulInv, UnpinnedIsEvictable
<1>10. FramesAccounted' /\ ResidentIsAllocated'
  <2>1. f \notin Elements(free_list_)
    BY PoolFacts DEF f
  <2> QED
    BY <1>2, <1>4, <1>7, <2>1 DEF CarefulInv, FramesAccounted, ResidentIsAllocated, Resident
<1>11. CleanMatchesDisk'
  <2>1. ASSUME NEW q \in touched'
        PROVE  holds'[q] > 0
    <3>1. q \in PageIds \ {p} /\ holds[q] > 0
      BY <1>2, <2>1, PoolFacts DEF CarefulInv, CleanMatchesDisk
    <3> QED
      BY <1>5, <3>1
  <2>2. ASSUME NEW q \in PageIds, Resident(q), q \notin touched',
               ~pages_'[page_table_[q]].is_dirty_
        PROVE  pages_'[page_table_[q]].data_ = disk[q]
    <3>1. CASE q = p
      <4>1. ~pages_[f].is_dirty_ /\ p \notin touched
        BY <1>2, <1>3, <1>6, <2>2, <3>1 DEF f
      <4> QED
        BY <1>1, <1>6, <3>1, <4>1 DEF CarefulInv, CleanMatchesDisk, f
    <3>2. CASE q # p
      BY <1>2, <1>5, <1>6, <1>7, <2>2, <3>2 DEF CarefulInv, CleanMatchesDisk, Resident
    <3> QED
      BY <3>1, <3>2
  <2> QED
    BY <1>2, <1>7, <2>1, <2>2 DEF CleanMatchesDisk, Resident
<1>12. ContentIsLatest'
  BY <1>2, <1>6, <1>7, PoolFacts DEF CarefulInv, ContentIsLatest, Resident
<1> QED
  BY <1>8, <1>9, <1>10, <1>11, <1>12 DEF CarefulInv

(* The destructor writes every dirty page back, so that a new pool on the  *)
(* same disk finds what clients stored last.                               *)
LEMMA CarefulRestart ==
  ASSUME PoolInv, CarefulInv, Restart
  PROVE  CarefulInv'
<1>1. /\ page_table_' = [p \in PageIds |-> NoFrame]
      /\ pages_' = [f \in Frames |-> EmptyFrame]
      /\ free_list_' = InitialFreeList
      /\ replacer_' = EmptyLru
      /\ UNCHANGED <<allocated, ptr, holds, touched, latest>>
      /\ \A p \in PageIds : holds[p] = 0
  BY DEF Restart, clientVars
<1>2. \A p \in PageIds : ~Resident(p)'
  BY <1>1 DEF Resident
<1>3. UnpinnedIsEvictable' /\ FramesAccounted'
  <2>1. \A f \in Frames : pages_'[f].pin_count_ = 0
    BY <1>1 DEF EmptyFrame
  <2>2. Elements(free_list_') = Frames /\ replacer_'.lruList = {}
    BY <1>1, InitialLists DEF EmptyLru
  <2> QED
    BY <2>1, <2>2 DEF UnpinnedIsEvictable, FramesAccounted
<1>4. PinsCountHolds' /\ HeldIsResident' /\ ResidentIsAllocated'
  BY <1>1, <1>2 DEF PinsCountHolds, HeldIsResident, ResidentIsAllocated
<1>5. touched = {}
  BY <1>1, PoolFacts DEF CarefulInv, CleanMatchesDisk
<1>6. CleanMatchesDisk'
  BY <1>1, <1>2, <1>5 DEF CleanMatchesDisk
<1>7. ASSUME NEW p \in allocated
      PROVE  latest[p] = disk'[p]
  <2>1. p \in PageIds
    BY PoolFacts
  <2>2. disk'[p] = IF FlushedAtShutdown(p) /\ pages_[page_table_[p]].is_dirty_
                   THEN pages_[page_table_[p]].data_ ELSE disk[p]
    BY <2>1 DEF Restart
  <2>3. CASE Resident(p)
    <3>1. FlushedAtShutdown(p)
      BY <2>1, <2>3, PoolFacts DEF FlushedAtShutdown
    <3>2. latest[p] = pages_[page_table_[p]].data_
      BY <2>3 DEF CarefulInv, ContentIsLatest
    <3>3. ~pages_[page_table_[p]].is_dirty_ => pages_[page_table_[p]].data_ = disk[p]
      BY <1>5, <2>1, <2>3 DEF CarefulInv, CleanMatchesDisk
    <3> QED
      BY <2>2, <3>1, <3>2, <3>3
  <2>4. CASE ~Resident(p)
    BY <2>2, <2>4 DEF CarefulInv, ContentIsLatest, FlushedAtShutdown
  <2> QED
    BY <2>3, <2>4
<1>8. ContentIsLatest'
  BY <1>1, <1>2, <1>7, PoolFacts DEF ContentIsLatest
<1> QED
  BY <1>3, <1>4, <1>6, <1>8 DEF CarefulInv

(* Every step of careful clients keeps the second half of the invariant.   *)
LEMMA CarefulStep ==
  ASSUME PoolInv, careful, CarefulInv, [Next]_vars
  PROVE  CarefulInv'
<1>1. HoldLimit = 1 /\ \A p \in PageIds : holds[p] < 1 => holds[p] = 0
  BY DEF HoldLimit, CarefulInv, PinsCountHolds
<1>2. ASSUME NEW p \in Pages, FetchHit(p)
      PROVE  CarefulInv'
  BY <1>2, PoolFacts, CarefulFetchHit
<1>3. ASSUME NEW p \in Pages, FetchMiss(p)
      PROVE  CarefulInv'
  <2>1. PICK evicted \in EvictedPages(FrameTaken) :
          /\ disk' = DiskAfterEvict(evicted, FrameTaken)
          /\ TakeFrame(p, evicted, FrameTaken, DiskAfterEvict(evicted, FrameTaken)[p])
    BY <1>3 DEF FetchMiss
  <2>2. /\ p \in PageIds /\ ~Resident(p) /\ holds[p] = 0 /\ HasFrame /\ p \in allocated
        /\ Hold(p, FrameTaken) /\ touched' = touched /\ latest' = latest
        /\ allocated' = allocated \cup {p}
    BY <1>1, <1>3, PoolFacts DEF FetchMiss, MayFetch
  <2>3. DiskAfterEvict(evicted, FrameTaken)[p] \in Data
    BY <2>2, PoolFacts, TakenFrame DEF DiskAfterEvict, FrameType
  <2> QED
    BY <2>1, <2>2, <2>3, CarefulTake
<1>4. CASE NewPage
  <2>0. PICK p \in NewPageIds :
          /\ holds[p] < HoldLimit
          /\ allocated' = allocated \cup {p} /\ touched' = touched \cup {p}
          /\ latest' = [latest EXCEPT ![p] = ZeroPage]
          /\ Hold(p, FrameTaken)
          /\ \E evicted \in EvictedPages(FrameTaken) :
               /\ disk' = DiskAfterEvict(evicted, FrameTaken)
               /\ TakeFrame(p, evicted, FrameTaken, ZeroPage)
    BY <1>4 DEF NewPage
  <2>1. PICK evicted \in EvictedPages(FrameTaken) :
          /\ disk' = DiskAfterEvict(evicted, FrameTaken)
          /\ TakeFrame(p, evicted, FrameTaken, ZeroPage)
    BY <2>0
  <2>2. p \in PageIds /\ p \notin allocated
    BY <2>0, NewPageIdsArePages, PoolFacts
  <2>3. /\ holds[p] = 0 /\ HasFrame /\ Hold(p, FrameTaken)
        /\ allocated' = allocated \cup {p} /\ touched' = touched \cup {p}
        /\ latest' = [latest EXCEPT ![p] = ZeroPage]
    BY <1>1, <1>4, <2>0, <2>2 DEF NewPage
  <2>4. ~Resident(p) /\ ZeroPage \in Data
    BY <2>2, PoolAssumption DEF CarefulInv, ResidentIsAllocated
  <2> QED
    BY <2>1, <2>2, <2>3, <2>4, CarefulTake
<1>5. ASSUME NEW p \in Pages, NEW d \in Contents, ClientWrite(p, d)
      PROVE  CarefulInv'
  BY <1>5, PoolFacts, CarefulWrite
<1>6. ASSUME NEW p \in Pages, NEW is_dirty \in BOOLEAN, Unpin(p, is_dirty)
      PROVE  CarefulInv'
  BY <1>6, PoolFacts, CarefulUnpin
<1>7. ASSUME NEW p \in Pages, DeletePage(p) \/ FlushPage(p)
      PROVE  CarefulInv'
  BY <1>7 DEF DeletePage, FlushPage
<1>8. CASE Restart
  BY <1>8, CarefulRestart
<1>9. CASE \/ \E p \in Pages : FetchFails(p)
           \/ NewPageFails
           \/ UNCHANGED vars
  <2>1. UNCHANGED <<page_table_, pages_, free_list_, replacer_, disk, allocated,
                    ptr, holds, touched, latest>>
    BY <1>9 DEF FetchFails, NewPageFails, vars, poolVars, diskVars, clientVars
  <2> QED
    BY <2>1 DEF CarefulInv, PinsCountHolds, HeldIsResident, UnpinnedIsEvictable,
                FramesAccounted, ResidentIsAllocated, CleanMatchesDisk,
                ContentIsLatest, Resident
<1> QED
  BY <1>2, <1>3, <1>4, <1>5, <1>6, <1>7, <1>8, <1>9 DEF Next
-----------------------------------------------------------------------------
(* The inductive invariant holds in every state that any mix of client     *)
(* calls, evictions and restarts reaches.                                  *)
THEOREM PoolInvariant == Spec => []IInv
<1>1. IInv /\ [Next]_vars => IInv'
  <2> SUFFICES ASSUME IInv, [Next]_vars
               PROVE  IInv'
    OBVIOUS
  <2>1. PoolInv'
    BY PoolStep DEF IInv
  <2>2. careful' = careful
    BY DEF Next, vars, FetchHit, FetchMiss, FetchFails, NewPage, NewPageFails,
           ClientWrite, Unpin, DeletePage, FlushPage, Restart
  <2>3. careful => CarefulInv'
    BY CarefulStep DEF IInv
  <2> QED
    BY <2>1, <2>2, <2>3 DEF IInv
<1> QED
  BY <1>1, InitInv, PTL DEF Spec

(* No frame serves two purposes whatever clients do, and for careful       *)
(* clients the frames that may be taken are exactly the unpinned ones.     *)
THEOREM PoolIsConsistent == Spec => []PoolConsistent
<1>1. IInv => PoolConsistent
  <2> SUFFICES ASSUME IInv
               PROVE  PoolConsistent
    OBVIOUS
  <2>1. TypeOK /\ FramesNotShared
    BY DEF IInv, PoolInv
  <2>2. CASE careful
    <3>1. HeldIsPinned
      BY <2>2 DEF IInv, CarefulInv, HeldIsResident, PinsCountHolds, HeldIsPinned
    <3> QED
      BY <2>1, <2>2, <3>1 DEF IInv, CarefulInv, PoolConsistent, PinsProtect
  <2>3. CASE ~careful
    BY <2>1, <2>3 DEF PoolConsistent, PinsProtect
  <2> QED
    BY <2>2, <2>3
<1> QED
  BY <1>1, PoolInvariant, PTL

(* The frame a careful client points to holds its page until it unpins it, *)
(* however many other pages are fetched and evicted in between.            *)
THEOREM HeldPagesStay == Spec => []HeldPageStays
<1>1. IInv => HeldPageStays
  BY DEF IInv, CarefulInv, HeldIsResident, HeldPageStays, EveryHeldPageStays
<1> QED
  BY <1>1, PoolInvariant, PTL

(* What a careful client stored last in a page is there, in the frame or   *)
(* on disk, after any evictions and restarts: the dirty flag, the write    *)
(* back of the victim and the flush of the destructor lose nothing.        *)
THEOREM UpdatesAreKept == Spec => []NoLostUpdate
<1>1. IInv => NoLostUpdate
  BY DEF IInv, CarefulInv, ContentIsLatest, NoLostUpdate
<1> QED
  BY <1>1, PoolInvariant, PTL

(* NewPage and FetchPage return nullptr only when every frame is pinned.   *)
THEOREM RefusesOnlyWhenAllPinned == Spec => FailsOnlyWhenAllPinned
<1>1. IInv /\ [Next]_vars =>
        [careful /\ (reply'.op = "new" \/ reply'.op = "fetch") /\ ~reply'.ok =>
            \A f \in Frames : pages_[f].pin_count_ > 0]_vars
  <2> SUFFICES ASSUME IInv, Next, careful, reply'.op = "new" \/ reply'.op = "fetch",
                      ~reply'.ok, NEW f \in Frames
               PROVE  pages_[f].pin_count_ > 0
    OBVIOUS
  <2>1. ~HasFrame
    <3>1. CASE \E p \in Pages : FetchFails(p)
      BY <3>1 DEF FetchFails
    <3>2. CASE NewPageFails
      BY <3>2 DEF NewPageFails
    <3>3. CASE NewPage \/ Restart
      <4>1. \E op, page : reply' = [op |-> op, page |-> page, ok |-> TRUE]
        BY <3>3 DEF NewPage, Restart
      <4> QED
        BY <4>1
    <3>4. ASSUME NEW p \in Pages, NEW d \in Contents, ClientWrite(p, d)
          PROVE  reply'.op = "write"
      BY <3>4 DEF ClientWrite
    <3>5. ASSUME NEW p \in Pages, NEW b \in BOOLEAN, Unpin(p, b)
          PROVE  reply'.op = "unpin"
      BY <3>5 DEF Unpin
    <3>6. ASSUME NEW p \in Pages, FetchHit(p) \/ FetchMiss(p)
          PROVE  FALSE
      <4>1. reply' = [op |-> "fetch", page |-> p, ok |-> TRUE]
        BY <3>6 DEF FetchHit, FetchMiss
      <4> QED
        BY <4>1
    <3>7. ASSUME NEW p \in Pages, DeletePage(p) \/ FlushPage(p)
          PROVE  reply'.op \in {"delete", "flush"}
      BY <3>7 DEF DeletePage, FlushPage
    <3> QED
      BY <3>1, <3>2, <3>3, <3>4, <3>5, <3>6, <3>7 DEF Next
  <2>2. free_list_ = <<>> /\ Len(replacer_.lru_list_) = 0
    BY <2>1 DEF HasFrame, Size
  <2>3. Elements(free_list_) = {} /\ Elements(replacer_.lru_list_) = {}
    BY <2>2 DEF Elements
  <2>4. pages_[f].pin_count_ # 0 /\ pages_[f].pin_count_ \in Nat
    BY <2>3, PoolFacts DEF IInv, CarefulInv, UnpinnedIsEvictable, FrameType
  <2> QED
    BY <2>4
<1> QED
  BY <1>1, PoolInvariant, PTL DEF Spec, FailsOnlyWhenAllPinned
=============================================================================
