------------------------- MODULE StorageParts_proof -------------------------
(***************************************************************************)
(* The parts of the storage layer that stand by themselves, each under any *)
(* sequence of calls:                                                      *)
(*  - a bitmap page, for every width of a byte and every size: its         *)
(*    counters and bits agree, AllocatePage hands out the lowest free      *)
(*    offset, and it implements PageAllocator;                             *)
(*  - the replacer, for every set of frames: its containers agree, its     *)
(*    victim is the frame that has been evictable for the longest time,    *)
(*    and it implements Replacer;                                          *)
(*  - the latch, for every finite set of threads: it excludes and misses   *)
(*    no wakeup;                                                           *)
(*  - a slotted page, for every page size, header size, row size and       *)
(*    number of slots: its layout stays sound, and every tuple keeps its   *)
(*    bytes.                                                               *)
(***************************************************************************)
EXTENDS BitmapPage, LRUReplacer, RWLatch, TablePage, StorageFacts

-----------------------------------------------------------------------------
(***************************************************************************)
(* The bitmap page.                                                        *)
(***************************************************************************)
(* The inductive invariant: the counters and the bits agree.  BitmapTypeOK alone *)
(* is not inductive, because only CountMatchesBits shows that the scan     *)
(* finds a free bit, and only NoBitAboveNextFree that the shortcut may     *)
(* skip the test of its bit.                                               *)
BitmapInv == BitmapTypeOK /\ CountMatchesBits /\ NoBitAboveNextFree

(* The inductive invariant holds in every reachable state of one bitmap    *)
(* page: the counters and the bits that AllocatePage and DeAllocatePage    *)
(* maintain always agree.                                                  *)
THEOREM BitmapInvariant == BitmapSpec => []BitmapInv
<1>1. BitmapInit => BitmapInv
  BY SizeIsNat, FS_EmptySet
  DEF BitmapInit, BitmapInv, BitmapTypeOK, CountMatchesBits, NoBitAboveNextFree, ZeroBitmap,
      BitmapType
<1>2. BitmapInv /\ [BitmapNext]_bitmapVars => BitmapInv'
  <2> SUFFICES ASSUME BitmapInv, [BitmapNext]_bitmapVars
               PROVE  BitmapInv'
    OBVIOUS
  <2>1. Consistent(page)
    BY DEF BitmapInv, BitmapTypeOK, CountMatchesBits, NoBitAboveNextFree, Consistent
  <2>2. ASSUME Consistent(page'),
               page_reply' \in [op : {"init", "allocate", "free"}, ok : BOOLEAN,
                                page : Offsets \cup {NoOffset}]
        PROVE  BitmapInv'
    BY <2>2 DEF BitmapInv, BitmapTypeOK, CountMatchesBits, NoBitAboveNextFree, Consistent
  <2>3. CASE BitmapAllocatePage
    <3>1. Consistent(page')
      BY <2>1, <2>3, AllocateKeepsConsistent DEF BitmapAllocatePage
    <3>2. ~IsFull(page) => AllocatedOffset(page) \in Offsets
      BY <2>1, AllocatedIsLowestFree
    <3>3. /\ page_reply' = [op |-> "allocate", ok |-> page_reply'.ok, page |-> page_reply'.page]
          /\ page_reply'.ok \in BOOLEAN
          /\ page_reply'.page \in Offsets \cup {NoOffset}
      BY <2>3, <3>2 DEF BitmapAllocatePage, IsFull
    <3> QED
      BY <2>2, <3>1, <3>3
  <2>4. ASSUME NEW page_offset \in Offsets, BitmapDeAllocatePage(page_offset)
        PROVE  BitmapInv'
    <3>1. Consistent(page')
      BY <2>1, <2>4, DeAllocateKeepsConsistent DEF BitmapDeAllocatePage
    <3>2. /\ page_reply' = [op |-> "free", ok |-> page_reply'.ok, page |-> page_offset]
          /\ page_reply'.ok \in BOOLEAN
      BY <2>4 DEF BitmapDeAllocatePage, IsPageFree
    <3> QED
      BY <2>2, <3>1, <3>2
  <2>5. CASE UNCHANGED bitmapVars
    BY <2>5 DEF bitmapVars, BitmapInv, BitmapTypeOK, CountMatchesBits, NoBitAboveNextFree
  <2> QED
    BY <2>3, <2>4, <2>5 DEF BitmapNext
<1> QED
  BY <1>1, <1>2, PTL DEF BitmapSpec

(* No counter leaves 0..BITMAP_SIZE and no bit outside bytes[] is set.     *)
THEOREM BitmapTypeCorrect == BitmapSpec => []BitmapTypeOK
<1>1. BitmapInv => BitmapTypeOK
  BY DEF BitmapInv
<1> QED
  BY <1>1, BitmapInvariant, PTL

(* page_allocated_ always is the number of set bits. *)
THEOREM BitmapCountCorrect == BitmapSpec => []CountMatchesBits
<1>1. BitmapInv => CountMatchesBits
  BY DEF BitmapInv
<1> QED
  BY <1>1, BitmapInvariant, PTL

(* Both branches of AllocatePage hand out the lowest free offset: the      *)
(* claim behind the comment at the test of page_allocated_ against         *)
(* next_free_page_.                                                        *)
THEOREM AllocationIsLowest == BitmapSpec => AllocatesLowestFree
<1>1. BitmapInv /\ [BitmapNext]_bitmapVars =>
        [(page_reply'.op = "allocate" /\ page_reply'.ok) =>
            /\ page_reply'.page \in Offsets \ page.bytes
            /\ \A o \in Offsets : o < page_reply'.page => o \in page.bytes]_bitmapVars
  <2> SUFFICES ASSUME BitmapInv, BitmapNext, page_reply'.op = "allocate", page_reply'.ok
               PROVE  /\ page_reply'.page \in Offsets \ page.bytes
                      /\ \A o \in Offsets : o < page_reply'.page => o \in page.bytes
    OBVIOUS
  <2>1. Consistent(page)
    BY DEF BitmapInv, BitmapTypeOK, CountMatchesBits, NoBitAboveNextFree, Consistent
  <2>2. BitmapAllocatePage
    BY DEF BitmapNext, BitmapDeAllocatePage
  <2>3. ~IsFull(page) /\ page_reply'.page = AllocatedOffset(page)
    BY <2>2 DEF BitmapAllocatePage
  <2> QED
    BY <2>1, <2>3, AllocatedIsLowestFree
<1> QED
  BY <1>1, BitmapInvariant, PTL DEF BitmapSpec, AllocatesLowestFree

(* The bitmap page implements PageAllocator under the mapping of the       *)
(* allocated pages to the set bits.                                        *)
THEOREM BitmapImplementsAllocator == BitmapSpec => ImplementsAllocator
<1>1. BitmapInit => Allocator!Init
  BY DEF BitmapInit, Allocator!Init, ZeroBitmap
<1>2. BitmapInv /\ [BitmapNext]_bitmapVars => [Allocator!Next]_(Allocator!vars)
  <2> SUFFICES ASSUME BitmapInv, [BitmapNext]_bitmapVars
               PROVE  [Allocator!Next]_(Allocator!vars)
    OBVIOUS
  <2>1. Consistent(page)
    BY DEF BitmapInv, BitmapTypeOK, CountMatchesBits, NoBitAboveNextFree, Consistent
  <2>2. CASE BitmapAllocatePage /\ IsFull(page)
    <3>1. page.bytes = Offsets
      BY <2>1, <2>2, ConsistentBits DEF IsFull
    <3>2. Allocator!AllocateFails
      BY <2>2, <3>1 DEF BitmapAllocatePage, AfterAllocate, Allocator!AllocateFails
    <3> QED
      BY <3>2 DEF Allocator!Next
  <2>3. CASE BitmapAllocatePage /\ ~IsFull(page)
    <3>1. AllocatedOffset(page) \in Offsets \ page.bytes
      BY <2>1, <2>3, AllocatedIsLowestFree
    <3>2. Allocator!Allocate(AllocatedOffset(page))
      BY <2>3, <3>1 DEF BitmapAllocatePage, AfterAllocate, Allocator!Allocate
    <3> QED
      BY <3>1, <3>2 DEF Allocator!Next
  <2>4. ASSUME NEW page_offset \in Offsets, BitmapDeAllocatePage(page_offset)
        PROVE  [Allocator!Next]_(Allocator!vars)
    <3>1. CASE IsPageFree(page, page_offset)
      <4>1. Allocator!FreeFails(page_offset)
        BY <2>4, <3>1 DEF BitmapDeAllocatePage, AfterDeAllocate, IsPageFree,
                          Allocator!FreeFails
      <4> QED
        BY <4>1 DEF Allocator!Next
    <3>2. CASE ~IsPageFree(page, page_offset)
      <4>1. page'.bytes = page.bytes \ {page_offset}
        BY <2>1, <2>4, <3>2 DEF BitmapDeAllocatePage, AfterDeAllocate, Consistent,
                                BitmapType
      <4>2. Allocator!Free(page_offset)
        BY <2>4, <3>2, <4>1 DEF BitmapDeAllocatePage, IsPageFree, Allocator!Free
      <4> QED
        BY <4>2 DEF Allocator!Next
    <3> QED
      BY <3>1, <3>2
  <2>5. CASE UNCHANGED bitmapVars
    BY <2>5 DEF bitmapVars, Allocator!vars
  <2> QED
    BY <2>2, <2>3, <2>4, <2>5 DEF BitmapNext
<1> QED
  BY <1>1, <1>2, BitmapInvariant, PTL DEF BitmapSpec, Allocator!Spec, ImplementsAllocator

-----------------------------------------------------------------------------
(***************************************************************************)
(* The replacer.                                                           *)
(***************************************************************************)
(* The list is sorted by age, oldest frame last: what makes its back the   *)
(* least recent frame.                                                     *)
OldestLast ==
  \A i, j \in 1 .. Len(lru.lru_list_) : i < j =>
    <<lru.lru_list_[j], lru.lru_list_[i]>> \in older

(* The inductive invariant. *)
ReplacerInv == LRUTypeOK /\ IndexMatchesList /\ OldestLast

(* The list part of the invariant is what the lemmas on LruList speak of.  *)
LEMMA InvariantParts ==
  ReplacerInv <=> /\ Listed(lru)
                  /\ older \subseteq Frames \X Frames
                  /\ lru_reply \in [op : {"init", "victim", "pin", "unpin"},
                                    frame : Frames \cup {NoFrame}]
                  /\ OldestLast
BY DEF ReplacerInv, LRUTypeOK, IndexMatchesList, Listed, LruType, NoRepeats

(* Removing a frame from the list and from the history keeps the order.    *)
LEMMA ForgetKeepsOrder ==
  ASSUME ReplacerInv, NEW f, Listed(lru'), lru'.lruList = lru.lruList \ {f},
         InOrderOf(lru'.lru_list_, lru.lru_list_), older' = Forget(f)
  PROVE  OldestLast' /\ older' \subseteq Frames \X Frames
<1> DEFINE r == lru'.lru_list_
           s == lru.lru_list_
<1>1. ASSUME NEW i \in 1 .. Len(r), NEW j \in 1 .. Len(r), i < j
      PROVE  <<r[j], r[i]>> \in older'
  <2>1. PICK k, l \in 1 .. Len(s) : k < l /\ r[i] = s[k] /\ r[j] = s[l]
    BY <1>1 DEF InOrderOf
  <2>2. <<r[j], r[i]>> \in older
    BY <2>1 DEF ReplacerInv, OldestLast
  <2>3. r[i] # f /\ r[j] # f
    BY DEF Listed, Elements
  <2> QED
    BY <2>2, <2>3 DEF Forget
<1>2. older' \subseteq Frames \X Frames
  BY DEF Forget, ReplacerInv, LRUTypeOK
<1> QED
  BY <1>1, <1>2 DEF OldestLast

(* Every reachable state of the replacer satisfies the inductive           *)
(* invariant, whatever Victim, Pin and Unpin calls led to it.              *)
THEOREM ReplacerInvariant == LRUSpec => []ReplacerInv
<1>1. LRUInit => ReplacerInv
  <2> SUFFICES ASSUME LRUInit
               PROVE  ReplacerInv
    OBVIOUS
  <2>1. Listed(lru)
    BY EmptyLruListed DEF LRUInit
  <2>2. OldestLast
    BY DEF LRUInit, EmptyLru, OldestLast
  <2> QED
    BY <2>1, <2>2, InvariantParts DEF LRUInit
<1>2. ReplacerInv /\ [LRUNext]_lruVars => ReplacerInv'
  <2> SUFFICES ASSUME ReplacerInv, [LRUNext]_lruVars
               PROVE  ReplacerInv'
    OBVIOUS
  <2>1. Listed(lru)
    BY InvariantParts
  <2>2. ASSUME Listed(lru'), older' \subseteq Frames \X Frames, OldestLast',
               lru_reply' \in [op : {"init", "victim", "pin", "unpin"},
                               frame : Frames \cup {NoFrame}]
        PROVE  ReplacerInv'
    BY <2>2 DEF ReplacerInv, LRUTypeOK, IndexMatchesList, Listed, LruType, NoRepeats
  <2>3. CASE Victim /\ Size(lru) = 0
    <3>1. UNCHANGED <<lru, older>> /\ lru_reply' = [op |-> "victim", frame |-> NoFrame]
      BY <2>3 DEF Victim
    <3>2. OldestLast'
      BY <3>1 DEF ReplacerInv, OldestLast
    <3> QED
      BY <2>1, <2>2, <3>1, <3>2 DEF ReplacerInv, LRUTypeOK
  <2>4. CASE Victim /\ Size(lru) # 0
    <3>1. /\ lru' = AfterVictim(lru)
          /\ older' = Forget(VictimFrame(lru))
          /\ lru_reply' = [op |-> "victim", frame |-> VictimFrame(lru)]
      BY <2>4 DEF Victim
    <3>2. /\ Listed(lru')
          /\ VictimFrame(lru) \in Frames
          /\ lru'.lruList = lru.lruList \ {VictimFrame(lru)}
          /\ InOrderOf(lru'.lru_list_, lru.lru_list_)
      BY <2>1, <2>4, <3>1, VictimKeepsListed
    <3>3. OldestLast' /\ older' \subseteq Frames \X Frames
      BY <3>1, <3>2, ForgetKeepsOrder
    <3> QED
      BY <2>2, <3>1, <3>2, <3>3
  <2>5. ASSUME NEW frame_id \in Frames, Pin(frame_id)
        PROVE  ReplacerInv'
    <3>1. /\ lru' = AfterPin(lru, frame_id)
          /\ older' = Forget(frame_id)
          /\ lru_reply' = [op |-> "pin", frame |-> frame_id]
      BY <2>5 DEF Pin
    <3>2. /\ Listed(lru')
          /\ lru'.lruList = lru.lruList \ {frame_id}
          /\ InOrderOf(lru'.lru_list_, lru.lru_list_)
      BY <2>1, <3>1, PinKeepsListed
    <3>3. OldestLast' /\ older' \subseteq Frames \X Frames
      BY <3>1, <3>2, ForgetKeepsOrder
    <3> QED
      BY <2>2, <3>1, <3>2, <3>3
  <2>6. ASSUME NEW frame_id \in Frames, Unpin(frame_id)
        PROVE  ReplacerInv'
    <3> DEFINE s == lru.lru_list_
    <3>1. /\ lru' = AfterUnpin(lru, frame_id)
          /\ lru_reply' = [op |-> "unpin", frame |-> frame_id]
          /\ older' = IF frame_id \in lru.lruList THEN older
                      ELSE older \cup {<<g, frame_id>> : g \in lru.lruList}
      BY <2>6 DEF Unpin
    <3>2. /\ Listed(lru')
          /\ frame_id \in lru.lruList => lru' = lru
          /\ frame_id \notin lru.lruList => lru'.lru_list_ = <<frame_id>> \o s
      BY <2>1, <3>1, UnpinKeepsListed
    <3>3. /\ s \in Seq(Frames) /\ NoRepeats(s) /\ lru.lruList = Elements(s)
          /\ lru.lruList \subseteq Frames
      BY <2>1 DEF Listed, LruType
    <3>4. older' \subseteq Frames \X Frames
      BY <3>1, <3>3 DEF ReplacerInv, LRUTypeOK
    <3>5. CASE frame_id \in lru.lruList
      <4>1. OldestLast'
        BY <3>1, <3>2, <3>5 DEF ReplacerInv, OldestLast
      <4> QED
        BY <2>2, <3>1, <3>2, <3>4, <4>1
    <3>6. CASE frame_id \notin lru.lruList
      <4> DEFINE r == lru'.lru_list_
      <4>1. /\ Len(r) = Len(s) + 1 /\ Len(s) \in Nat
            /\ \A i \in 1 .. Len(s) + 1 : r[i] = IF i = 1 THEN frame_id ELSE s[i - 1]
        BY <3>2, <3>3, <3>6, PushFrontProperties
      <4> HIDE DEF r, s
      <4>2. ASSUME NEW i \in 1 .. Len(r), NEW j \in 1 .. Len(r), i < j
            PROVE  <<r[j], r[i]>> \in older'
        <5>1. j - 1 \in 1 .. Len(s) /\ r[j] = s[j - 1]
          BY <4>1, <4>2
        <5>2. CASE i = 1
          <6>1. r[i] = frame_id /\ r[j] \in lru.lruList
            BY <3>3, <4>1, <5>1, <5>2 DEF Elements
          <6> QED
            BY <3>1, <3>6, <6>1
        <5>3. CASE i # 1
          <6>1. i - 1 \in 1 .. Len(s) /\ i - 1 < j - 1 /\ r[i] = s[i - 1]
            BY <4>1, <4>2, <5>3
          <6>2. <<r[j], r[i]>> \in older
            BY <5>1, <6>1 DEF ReplacerInv, OldestLast, s
          <6> QED
            BY <3>1, <3>6, <6>2
        <5> QED
          BY <5>2, <5>3
      <4>3. OldestLast'
        BY <4>2 DEF OldestLast, r
      <4> QED
        BY <2>2, <3>1, <3>2, <3>4, <4>3
    <3> QED
      BY <3>5, <3>6
  <2>7. CASE UNCHANGED lruVars
    <3>1. OldestLast'
      BY <2>7 DEF lruVars, ReplacerInv, OldestLast
    <3> QED
      BY <2>1, <2>2, <2>7, <3>1 DEF lruVars, ReplacerInv, LRUTypeOK
  <2> QED
    BY <2>3, <2>4, <2>5, <2>6, <2>7 DEF LRUNext
<1> QED
  BY <1>1, <1>2, PTL DEF LRUSpec

(* No frame is ever listed twice, and the index that Unpin consults always *)
(* names exactly the frames of the list that Victim and Size use.          *)
THEOREM ReplacerListConsistent == LRUSpec => []ListConsistent
<1>1. ReplacerInv => ListConsistent
  BY DEF ReplacerInv, ListConsistent
<1> QED
  BY <1>1, ReplacerInvariant, PTL

(* Victim always evicts the frame that has been evictable for the longest  *)
(* time: Unpin inserts at the front, Victim takes from the back, and Pin   *)
(* keeps the others in order.                                              *)
THEOREM VictimIsOldest == LRUSpec => VictimIsLeastRecent
<1>1. ReplacerInv /\ [LRUNext]_lruVars =>
        [(lru_reply'.op = "victim" /\ lru_reply'.frame # NoFrame) =>
            \A g \in lru.lruList \ {lru_reply'.frame} : <<lru_reply'.frame, g>> \in older]_lruVars
  <2> SUFFICES ASSUME ReplacerInv, LRUNext, lru_reply'.op = "victim", lru_reply'.frame # NoFrame,
                      NEW g \in lru.lruList \ {lru_reply'.frame}
               PROVE  <<lru_reply'.frame, g>> \in older
    OBVIOUS
  <2> DEFINE s == lru.lru_list_
  <2>1. Victim
    BY DEF LRUNext, Pin, Unpin
  <2>2. Size(lru) # 0 /\ lru_reply'.frame = VictimFrame(lru)
    BY <2>1 DEF Victim
  <2>3. s \in Seq(Frames) /\ lru.lruList = Elements(s)
    BY DEF ReplacerInv, LRUTypeOK, IndexMatchesList
  <2>4. Len(s) \in 1 .. Len(s) /\ lru_reply'.frame = s[Len(s)]
    BY <2>2, <2>3 DEF Size, VictimFrame
  <2>5. PICK i \in 1 .. Len(s) : g = s[i]
    BY <2>3 DEF Elements
  <2>6. i < Len(s)
    BY <2>3, <2>4, <2>5
  <2> QED
    BY <2>4, <2>5, <2>6 DEF ReplacerInv, OldestLast
<1> QED
  BY <1>1, ReplacerInvariant, PTL DEF LRUSpec, VictimIsLeastRecent

(* The replacer implements what replacer.h asks of every policy, under the *)
(* mapping of the evictable frames to lruList.                             *)
THEOREM LRUImplementsReplacer == LRUSpec => ImplementsReplacer
<1>1. LRUInit => Policy!Init
  BY DEF LRUInit, Policy!Init, EmptyLru
<1>2. ReplacerInv /\ [LRUNext]_lruVars => [Policy!Next]_(Policy!vars)
  <2> SUFFICES ASSUME ReplacerInv, [LRUNext]_lruVars
               PROVE  [Policy!Next]_(Policy!vars)
    OBVIOUS
  <2>1. Listed(lru)
    BY InvariantParts
  <2>2. CASE Victim /\ Size(lru) = 0
    <3>1. lru.lruList = {}
      BY <2>1, <2>2 DEF Listed, Size, Elements
    <3>2. Policy!VictimFails
      BY <2>2, <3>1 DEF Victim, Policy!VictimFails
    <3> QED
      BY <3>2 DEF Policy!Next
  <2>3. CASE Victim /\ Size(lru) # 0
    <3>1. /\ lru' = AfterVictim(lru)
          /\ lru_reply' = [op |-> "victim", frame |-> VictimFrame(lru)]
      BY <2>3 DEF Victim
    <3>2. /\ VictimFrame(lru) \in lru.lruList /\ VictimFrame(lru) \in Frames
          /\ lru'.lruList = lru.lruList \ {VictimFrame(lru)}
      BY <2>1, <2>3, <3>1, VictimKeepsListed
    <3>3. Policy!Victim(VictimFrame(lru))
      BY <3>1, <3>2 DEF Policy!Victim
    <3> QED
      BY <3>2, <3>3 DEF Policy!Next
  <2>4. ASSUME NEW frame_id \in Frames, Pin(frame_id)
        PROVE  Policy!Next
    <3>1. lru'.lruList = lru.lruList \ {frame_id}
      BY <2>1, <2>4, PinKeepsListed DEF Pin
    <3>2. Policy!Pin(frame_id)
      BY <2>4, <3>1 DEF Pin, Policy!Pin
    <3> QED
      BY <3>2 DEF Policy!Next
  <2>5. ASSUME NEW frame_id \in Frames, Unpin(frame_id)
        PROVE  Policy!Next
    <3>1. lru'.lruList = lru.lruList \cup {frame_id}
      BY <2>1, <2>5, UnpinKeepsListed DEF Unpin
    <3>2. Policy!Unpin(frame_id)
      BY <2>5, <3>1 DEF Unpin, Policy!Unpin
    <3> QED
      BY <3>2 DEF Policy!Next
  <2>6. CASE UNCHANGED lruVars
    BY <2>6 DEF lruVars, Policy!vars
  <2> QED
    BY <2>2, <2>3, <2>4, <2>5, <2>6 DEF LRUNext
<1> QED
  BY <1>1, <1>2, ReplacerInvariant, PTL DEF LRUSpec, Policy!Spec, ImplementsReplacer

-----------------------------------------------------------------------------
(***************************************************************************)
(* The latch.                                                              *)
(***************************************************************************)
(* Writers that have set writer_entered_ and not yet cleared it.           *)
Entered == {t \in Threads : pc[t] \in {"wdrain", "wait", "write"}}

CountMatchesReaders == reader_count_ = Cardinality(Readers)

OneEntered ==
  /\ \A t \in Entered : writer_entered_
  /\ \A s, t \in Entered : s = t

WritesWhenDrained == \A t \in Threads : At(t, "write") => reader_count_ = 0

(* The inductive invariant.  Exclusion alone is not inductive: a writer    *)
(* goes on when it reads zero in reader_count_, which says something about *)
(* the readers only because the counter counts them; and a writer that     *)
(* enters excludes the one that is draining only through writer_entered_.  *)
LatchInv == LatchTypeOK /\ CountMatchesReaders /\ OneEntered /\ WritesWhenDrained /\ NoMissedWakeup

(* Counting the readers. *)
LEMMA ReadersFinite ==
  /\ IsFiniteSet(Readers)
  /\ Cardinality(Readers) \in Nat
  /\ Cardinality(Readers) = 0 <=> Readers = {}
<1>1. Readers \in SUBSET Threads
  BY DEF Readers
<1>2. IsFiniteSet(Readers)
  BY <1>1, LatchAssumption, FS_Subset
<1> QED
  BY <1>2, FS_CardinalityType, FS_EmptySet

(* A thread outside leaves room for one more reader: the test against      *)
(* MAX_READERS in RLock never makes a thread wait.                         *)
LEMMA RoomForReader ==
  ASSUME NEW t \in Threads, ~At(t, "read")
  PROVE  Cardinality(Readers) < MAX_READERS
<1>1. Readers \in SUBSET Threads /\ t \notin Readers
  BY DEF Readers
<1>2. Cardinality(Readers) <= Cardinality(Threads) /\ Cardinality(Readers) # Cardinality(Threads)
  BY <1>1, LatchAssumption, FS_Subset
<1>3. Cardinality(Threads) \in Nat
  BY LatchAssumption, FS_CardinalityType
<1> QED
  BY <1>2, <1>3, ReadersFinite, LatchAssumption

(* The invariant says what it is there to say. *)
LEMMA InvariantExcludes ==
  ASSUME LatchInv
  PROVE  Exclusion
<1> SUFFICES ASSUME NEW t \in Threads, At(t, "write")
             PROVE  Readers = {} /\ \A s \in Threads : At(s, "write") => s = t
  BY DEF Exclusion
<1>1. Readers = {}
  BY ReadersFinite DEF LatchInv, WritesWhenDrained, CountMatchesReaders
<1>2. \A s \in Threads : At(s, "write") => s = t
  BY DEF LatchInv, OneEntered, Entered, At
<1> QED
  BY <1>1, <1>2

(* A latch that was just constructed satisfies the invariant. *)
LEMMA InitEstablishes == LatchInit => LatchInv
<1> SUFFICES ASSUME LatchInit PROVE LatchInv
  OBVIOUS
<1>1. Readers = {} /\ Entered = {} /\ WaitingOnReader = {} /\ WaitingOnWriter = {}
  BY DEF LatchInit, Readers, Entered, WaitingOnReader, WaitingOnWriter, At
<1>2. Cardinality(Readers) = 0
  BY <1>1, FS_EmptySet
<1>3. LatchTypeOK
  <2>1. reader_count_ \in 0 .. MAX_READERS
    BY LatchAssumption DEF LatchInit
  <2>2. writer_entered_ \in BOOLEAN
    BY Zenon DEF LatchInit
  <2> QED
    BY <2>1, <2>2 DEF LatchInit, LatchTypeOK
<1> QED
  BY <1>1, <1>2, <1>3
     DEF LatchInit, LatchInv, CountMatchesReaders, OneEntered, WritesWhenDrained, NoMissedWakeup, At

(* A call, and a wait that begins or ends, changes neither the counter nor *)
(* the flag and moves no thread into or out of the latch.                  *)
LEMMA QuietStepPreserves ==
  ASSUME LatchInv, NEW t \in Threads,
         CallWLock(t) \/ CallRLock(t) \/ WLockBlocked(t) \/ RLockBlocked(t) \/ SpuriousWakeup(t)
  PROVE  LatchInv'
<1>1. /\ UNCHANGED <<reader_count_, writer_entered_>>
      /\ pc[t] \notin {"read", "write"}
      /\ \E there \in {"wlock", "rlock", "wwait", "rwait", "wdrain"} :
           /\ pc' = [pc EXCEPT ![t] = there]
           /\ there = "wdrain" <=> pc[t] = "wait"
           /\ there \in {"wwait", "rwait"} => writer_entered_
  <2>1. ~At(t, "read") => reader_count_ < MAX_READERS
    BY RoomForReader DEF LatchInv, CountMatchesReaders
  <2> QED
    BY <2>1, LatchAssumption
       DEF LatchInv, LatchTypeOK, CallWLock, CallRLock, WLockBlocked, RLockBlocked, SpuriousWakeup,
           RMustWait, WaitingOnReader, WaitingOnWriter, At, MoveTo, AfterWait
<1>2. PICK there \in {"wlock", "rlock", "wwait", "rwait", "wdrain"} :
           /\ pc' = [pc EXCEPT ![t] = there]
           /\ there = "wdrain" <=> pc[t] = "wait"
           /\ there \in {"wwait", "rwait"} => writer_entered_
  BY <1>1
<1>3. LatchTypeOK'
  BY <1>1, <1>2 DEF LatchInv, LatchTypeOK
<1>4. Readers' = Readers
  BY <1>1, <1>2 DEF LatchInv, LatchTypeOK, Readers, At
<1>5. CountMatchesReaders'
  BY <1>1, <1>4 DEF LatchInv, CountMatchesReaders
<1>6. Entered' \subseteq Entered
  BY <1>1, <1>2 DEF LatchInv, LatchTypeOK, Entered
<1>7. OneEntered'
  BY <1>1, <1>6 DEF LatchInv, OneEntered
<1>8. WritesWhenDrained'
  BY <1>1, <1>2 DEF LatchInv, LatchTypeOK, WritesWhenDrained, At
<1>9. NoMissedWakeup'
  BY <1>1, <1>2 DEF LatchInv, LatchTypeOK, NoMissedWakeup, WaitingOnReader, WaitingOnWriter, At
<1> QED
  BY <1>3, <1>5, <1>7, <1>8, <1>9 DEF LatchInv

(* A writer enters, or tests the count after its wait. *)
LEMMA WLockPreserves ==
  ASSUME LatchInv, NEW t \in Threads, WLockEnters(t) \/ WLockDrains(t)
  PROVE  LatchInv'
<1> DEFINE there == IF reader_count_ > 0 THEN "wait" ELSE "write"
<1>1. /\ UNCHANGED reader_count_
      /\ pc[t] \in {"wlock", "wdrain"}
      /\ pc' = [pc EXCEPT ![t] = there]
      /\ writer_entered_' = TRUE
  BY DEF LatchInv, LatchTypeOK, OneEntered, Entered, WLockEnters, WLockDrains, At, MoveTo
<1>2. \A s \in Entered : s = t
  BY DEF LatchInv, OneEntered, Entered, WLockEnters, WLockDrains, At
<1>3. there \in {"wait", "write"} /\ (there = "wait" => reader_count_ > 0)
      /\ (there = "write" => reader_count_ = 0)
  BY LatchAssumption DEF LatchInv, LatchTypeOK
<1> HIDE DEF there
<1>4. LatchTypeOK'
  BY <1>1, <1>3 DEF LatchInv, LatchTypeOK
<1>5. Readers' = Readers
  BY <1>1, <1>3 DEF LatchInv, LatchTypeOK, Readers, At
<1>6. CountMatchesReaders'
  BY <1>1, <1>5 DEF LatchInv, CountMatchesReaders
<1>7. \A s \in Entered' : s = t
  BY <1>1, <1>2, <1>3 DEF LatchInv, LatchTypeOK, Entered
<1>8. OneEntered'
  BY <1>1, <1>7 DEF OneEntered
<1>9. WritesWhenDrained'
  BY <1>1, <1>3 DEF LatchInv, LatchTypeOK, WritesWhenDrained, At
<1>10. NoMissedWakeup'
  BY <1>1, <1>3 DEF LatchInv, LatchTypeOK, NoMissedWakeup, WaitingOnReader, WaitingOnWriter, At
<1> QED
  BY <1>4, <1>6, <1>8, <1>9, <1>10 DEF LatchInv

(* The writer leaves and wakes everybody who waits for it. *)
LEMMA WUnlockPreserves ==
  ASSUME LatchInv, NEW t \in Threads, WUnlock(t)
  PROVE  LatchInv'
<1>1. /\ UNCHANGED reader_count_
      /\ writer_entered_' = FALSE
      /\ pc[t] = "write"
      /\ pc' = [s \in Threads |->
                  IF s = t THEN "idle"
                  ELSE IF s \in WaitingOnReader THEN AfterWait(pc[s]) ELSE pc[s]]
  BY DEF WUnlock, Released, At
<1>2. \A s \in Threads : pc'[s] = IF s = t THEN "idle"
                                  ELSE IF pc[s] = "wwait" THEN "wlock"
                                  ELSE IF pc[s] = "rwait" THEN "rlock" ELSE pc[s]
  BY <1>1 DEF AfterWait, WaitingOnReader
<1>3. LatchTypeOK'
  BY <1>1, <1>2 DEF LatchInv, LatchTypeOK
<1>4. Readers' = Readers
  BY <1>1, <1>2 DEF LatchInv, LatchTypeOK, Readers, At
<1>5. CountMatchesReaders'
  BY <1>1, <1>4 DEF LatchInv, CountMatchesReaders
<1>6. Entered' = {}
  BY <1>1, <1>2 DEF LatchInv, LatchTypeOK, OneEntered, Entered
<1>7. OneEntered'
  BY <1>6 DEF OneEntered
<1>8. WritesWhenDrained'
  BY <1>1, <1>2 DEF LatchInv, WritesWhenDrained, At
<1>9. NoMissedWakeup'
  BY <1>1, <1>2 DEF LatchInv, LatchTypeOK, NoMissedWakeup, WaitingOnReader, WaitingOnWriter, At
<1> QED
  BY <1>3, <1>5, <1>7, <1>8, <1>9 DEF LatchInv

(* A reader enters: no writer is inside. *)
LEMMA RLockPreserves ==
  ASSUME LatchInv, NEW t \in Threads, RLockEnters(t)
  PROVE  LatchInv'
<1>1. /\ reader_count_' = reader_count_ + 1
      /\ UNCHANGED writer_entered_
      /\ writer_entered_ = FALSE
      /\ pc[t] = "rlock"
      /\ pc' = [pc EXCEPT ![t] = "read"]
  BY DEF LatchInv, LatchTypeOK, RLockEnters, RMustWait, At, MoveTo
<1>2. reader_count_ < MAX_READERS
  BY <1>1, RoomForReader DEF LatchInv, CountMatchesReaders, At
<1>3. LatchTypeOK'
  BY <1>1, <1>2, LatchAssumption DEF LatchInv, LatchTypeOK
<1>4. Readers' = Readers \cup {t} /\ t \notin Readers
  BY <1>1 DEF LatchInv, LatchTypeOK, Readers, At
<1>5. CountMatchesReaders'
  BY <1>1, <1>4, ReadersFinite, FS_AddElement DEF LatchInv, CountMatchesReaders
<1>6. Entered' = {}
  BY <1>1 DEF LatchInv, LatchTypeOK, OneEntered, Entered
<1>7. OneEntered'
  BY <1>6 DEF OneEntered
<1>8. WritesWhenDrained'
  BY <1>6 DEF WritesWhenDrained, Entered, At
<1>9. NoMissedWakeup'
  BY <1>1, <1>6 DEF LatchInv, LatchTypeOK, NoMissedWakeup, WaitingOnReader, WaitingOnWriter, Entered, At
<1> QED
  BY <1>3, <1>5, <1>7, <1>8, <1>9 DEF LatchInv

(* A reader leaves.  If it is the last one and a writer drains, that       *)
(* writer is the only thread on writer_ and so the one that is notified.   *)
LEMMA RUnlockPreserves ==
  ASSUME LatchInv, NEW t \in Threads, RUnlock(t)
  PROVE  LatchInv'
<1>1. pc[t] = "read" /\ UNCHANGED writer_entered_
  BY DEF RUnlock, At
<1>2. t \in Readers
  BY <1>1 DEF Readers, At
<1>3. reader_count_ # 0 /\ reader_count_ \in Nat /\ reader_count_ <= MAX_READERS
  BY <1>2, ReadersFinite, LatchAssumption DEF LatchInv, LatchTypeOK, CountMatchesReaders
<1>4. reader_count_' = reader_count_ - 1
  BY <1>3, LatchAssumption DEF RUnlock, CountAfterRUnlock, RUnlockAsserts, OneLess
<1>5. PICK notified \in RUnlockNotifies(reader_count_') : pc' = Released(t, notified)
  BY DEF RUnlock
<1>6. /\ notified \subseteq WaitingOnReader \cup WaitingOnWriter
      /\ reader_count_' = 0 /\ writer_entered_ => WaitingOnWriter \subseteq notified
  <2>1. writer_entered_ \in BOOLEAN /\ \A r, s \in WaitingOnWriter : r = s
    BY DEF LatchInv, LatchTypeOK, OneEntered, Entered, WaitingOnWriter, At
  <2> QED
    BY <1>5, <2>1 DEF RUnlockNotifies, One
<1>7. \A s \in Threads : pc'[s] = IF s = t THEN "idle"
                                  ELSE IF s \in notified THEN AfterWait(pc[s]) ELSE pc[s]
  BY <1>5 DEF Released
<1>8. \A s \in Threads : /\ s # t /\ s \notin notified => pc'[s] = pc[s]
                         /\ s # t /\ s \in notified =>
                              \/ pc[s] = "wwait" /\ pc'[s] = "wlock"
                              \/ pc[s] = "rwait" /\ pc'[s] = "rlock"
                              \/ pc[s] = "wait" /\ pc'[s] = "wdrain"
                         /\ s = t => pc'[s] = "idle"
  BY <1>6, <1>7 DEF AfterWait, WaitingOnReader, WaitingOnWriter, At
<1>9. LatchTypeOK'
  <2>1. pc' = [s \in Threads |-> pc'[s]]
    BY <1>5 DEF Released
  <2>2. \A s \in Threads : pc'[s] \in {"idle", "wlock", "wwait", "wdrain", "wait", "write",
                                       "rlock", "rwait", "read"}
    BY <1>8 DEF LatchInv, LatchTypeOK
  <2> QED
    BY <1>1, <1>3, <1>4, <2>1, <2>2, LatchAssumption DEF LatchInv, LatchTypeOK
<1>10. Readers' = Readers \ {t}
  BY <1>8 DEF Readers, At
<1>11. CountMatchesReaders'
  BY <1>2, <1>4, <1>10, ReadersFinite, FS_RemoveElement DEF LatchInv, CountMatchesReaders
<1>12. Entered' \subseteq Entered
  BY <1>1, <1>8 DEF Entered
<1>13. OneEntered'
  BY <1>1, <1>12 DEF LatchInv, OneEntered
<1>14. WritesWhenDrained'
  BY <1>1, <1>3, <1>8 DEF LatchInv, WritesWhenDrained, At
<1>15. NoMissedWakeup'
  <2>1. \A s \in Threads : s \in WaitingOnReader' => s \in WaitingOnReader
    BY <1>8 DEF WaitingOnReader
  <2>2. \A s \in Threads : s \in WaitingOnWriter' => s \in WaitingOnWriter /\ s \notin notified
    BY <1>8 DEF WaitingOnWriter, At
  <2>3. \A s \in WaitingOnWriter : writer_entered_
    BY DEF LatchInv, OneEntered, Entered, WaitingOnWriter, At
  <2>4. \A s \in Threads : s \in WaitingOnWriter' => reader_count_' > 0
    BY <1>3, <1>4, <1>6, <2>2, <2>3
  <2> QED
    BY <1>1, <2>1, <2>4 DEF LatchInv, NoMissedWakeup
<1> QED
  BY <1>9, <1>11, <1>13, <1>14, <1>15 DEF LatchInv

(* Every step of every thread keeps the invariant. *)
LEMMA StepPreserves == LatchInv /\ [LatchNext]_latchVars => LatchInv'
<1> SUFFICES ASSUME LatchInv, [LatchNext]_latchVars PROVE LatchInv'
  OBVIOUS
<1>1. CASE UNCHANGED latchVars
  BY <1>1 DEF latchVars, LatchInv, LatchTypeOK, CountMatchesReaders, Readers, OneEntered, Entered,
              WritesWhenDrained, NoMissedWakeup, WaitingOnReader, WaitingOnWriter, At
<1>2. CASE LatchNext
  BY <1>2, QuietStepPreserves, WLockPreserves, WUnlockPreserves, RLockPreserves,
     RUnlockPreserves DEF LatchNext, Step
<1> QED
  BY <1>1, <1>2

(* The inductive invariant holds whatever order the threads take mutex_,   *)
(* wait and are notified in.                                               *)
THEOREM LatchInvariant == LatchSpec => []LatchInv
BY InitEstablishes, StepPreserves, PTL DEF LatchSpec

(* For every finite set of threads, a writer that holds the latch excludes *)
(* all other threads (WLock, RLock).                                       *)
THEOREM LatchExcludes == LatchSpec => []Exclusion
BY LatchInvariant, InvariantExcludes, PTL

(* For every finite set of threads, no thread waits on a condition         *)
(* variable for something that has already happened (WUnlock, RUnlock).    *)
THEOREM LatchMissesNoWakeup == LatchSpec => []NoMissedWakeup
<1>1. LatchInv => NoMissedWakeup
  BY DEF LatchInv
<1> QED
  BY <1>1, LatchInvariant, PTL

(* For every finite set of threads reader_count_ counts the readers that   *)
(* are inside, and the ASSERT in RUnlock does not fail: the uint32_t never *)
(* wraps (RLock, RUnlock).                                                 *)
THEOREM LatchCountsReaders == LatchSpec => []ReaderCountExact
<1>1. ASSUME LatchInv PROVE ReaderCountExact
  <2>1. reader_count_ = Cardinality(Readers) /\ reader_count_ \in 0 .. MAX_READERS
    BY <1>1 DEF LatchInv, LatchTypeOK, CountMatchesReaders
  <2>2. ASSUME Readers # {} PROVE OneLess = reader_count_ - 1
    BY <2>1, <2>2, ReadersFinite DEF OneLess
  <2> QED
    BY <2>1, <2>2, LatchAssumption DEF ReaderCountExact, RUnlockAsserts
<1> QED
  BY <1>1, LatchInvariant, PTL

-----------------------------------------------------------------------------
(***************************************************************************)
(* The slotted page.                                                       *)
(***************************************************************************)
(* The inductive invariant.  ContentIntact is not inductive by itself: the *)
(* bytes that memmove and SerializeTo write belong to no other tuple only  *)
(* because the tuples are disjoint and lie above the free space pointer,   *)
(* and the offsets are shifted by the same rule as the bytes only because  *)
(* no tuple straddles the one that is removed or resized.                  *)
TablePageInv == TablePageTypeOK /\ Layout /\ ContentIntact /\ NoSpaceLost

(* The size of the slot directory, which the solver cannot multiply out.   *)
LEMMA DirectorySize ==
  ASSUME NEW n \in Nat
  PROVE  /\ SIZE_TUPLE * n \in Nat
         /\ SIZE_TUPLE * (n + 1) = SIZE_TUPLE * n + SIZE_TUPLE
BY TablePageAssumption

(* What the steps below need to know of the tuples before the step. *)
LEMMA LiveFacts ==
  ASSUME TablePageInv
  PROVE  /\ \A k \in Live :
              /\ k \in Slots
              /\ slots[k].offset \in Nat
              /\ slots[k].size \in Nat /\ slots[k].size > 0
              /\ free_space_pointer <= slots[k].offset
              /\ slots[k].offset + slots[k].size <= PAGE_SIZE
         /\ \A k, l \in Live : k # l =>
              \/ slots[k].offset + slots[k].size <= slots[l].offset
              \/ slots[l].offset + slots[l].size <= slots[k].offset
<1>1. ASSUME NEW k \in Live
      PROVE  /\ k \in Slots
             /\ slots[k].offset \in Nat
             /\ slots[k].size \in Nat /\ slots[k].size > 0
             /\ free_space_pointer <= slots[k].offset
             /\ slots[k].offset + slots[k].size <= PAGE_SIZE
  BY TablePageAssumption DEF TablePageInv, TablePageTypeOK, Layout, TuplesInArea, Live
<1> QED
  BY <1>1 DEF TablePageInv, Layout, TuplesDisjoint

(* InsertTuple's loop ends at an empty slot or at a new one. *)
LEMMA SlotForInsertIsFree ==
  ASSUME TablePageInv
  PROVE  \/ SlotForInsert = tuple_count
         \/ SlotForInsert \in Slots /\ slots[SlotForInsert].size = 0
<1> DEFINE T == {i \in Slots : slots[i].size = 0}
<1>1. CASE T = {}
  BY <1>1 DEF SlotForInsert
<1>2. CASE T # {}
  <2>1. T \subseteq Nat /\ \A i \in Slots : i \in Nat
    BY DEF Slots, TablePageInv, TablePageTypeOK
  <2>2. PICK m \in T : \A k \in T : m <= k
    BY <1>2, <2>1, LeastNat, Zenon
  <2>3. \A k \in 0 .. m - 1 : slots[k].size # 0
    BY <2>1, <2>2 DEF Slots, TablePageInv, TablePageTypeOK
  <2>4. \E i \in Slots : slots[i].size = 0 /\ \A k \in 0 .. i - 1 : slots[k].size # 0
    BY <2>2, <2>3
  <2>5. SlotForInsert = CHOOSE i \in Slots :
                          slots[i].size = 0 /\ \A k \in 0 .. i - 1 : slots[k].size # 0
    BY <1>2 DEF SlotForInsert
  <2> QED
    BY <2>4, <2>5
<1> QED
  BY <1>1, <1>2
-----------------------------------------------------------------------------
(* InsertTuple puts the new tuple right below all the others. *)
LEMMA InsertPreserves ==
  ASSUME TablePageInv, NEW r \in Rows, NEW size \in Sizes, InsertTuple(r, size)
  PROVE  TablePageInv'
<1> DEFINE i == SlotForInsert
           at == free_space_pointer - size
           c == tuple_count
<1>1. /\ size \in Nat /\ size # 0
      /\ free_space_pointer \in Nat /\ free_space_pointer <= PAGE_SIZE
      /\ c \in Nat /\ PAGE_SIZE \in Nat
      /\ SIZE_TABLE_PAGE_HEADER \in Nat /\ SIZE_TUPLE \in Nat
      /\ SIZE_TUPLE * c \in Nat
      /\ SIZE_TUPLE * (c + 1) = SIZE_TUPLE * c + SIZE_TUPLE
  BY TablePageAssumption, DirectorySize DEF TablePageInv, TablePageTypeOK
<1>2. /\ at \in Nat
      /\ SIZE_TABLE_PAGE_HEADER + SIZE_TUPLE * c + SIZE_TUPLE <= at
      /\ at + size = free_space_pointer
  BY <1>1 DEF InsertTuple, RoomForInsert, FreeSpaceRemaining
<1>3. i = c \/ (i \in Slots /\ slots[i].size = 0)
  BY SlotForInsertIsFree
<1>4. /\ free_space_pointer' = at
      /\ body' = Serialized(body, r, size, at)
      /\ tuple_count' = IF i = c THEN c + 1 ELSE c
      /\ slots' = [k \in Slots \cup {i} |->
                     IF k = i THEN [offset |-> at, size |-> size, deleted |-> FALSE]
                     ELSE slots[k]]
      /\ row' = [k \in Slots \cup {i} |-> IF k = i THEN r ELSE row[k]]
  BY DEF InsertTuple, InsertAt
<1> HIDE DEF i, at
<1>5. Slots' = Slots \cup {i}
  BY <1>1, <1>3, <1>4 DEF Slots
<1>6. /\ slots'[i] = [offset |-> at, size |-> size, deleted |-> FALSE]
      /\ row'[i] = r
      /\ \A k \in Slots : k # i => slots'[k] = slots[k] /\ row'[k] = row[k]
  BY <1>4
<1>7. Live' = Live \cup {i} /\ i \notin Live
  BY <1>1, <1>3, <1>5, <1>6 DEF Live, Slots
<1>8. TablePageTypeOK'
  <2>1. slots' \in [Slots' -> [offset : 0 .. PAGE_SIZE, size : 0 .. PAGE_SIZE,
                               deleted : BOOLEAN]]
    BY <1>1, <1>2, <1>4, <1>5 DEF TablePageInv, TablePageTypeOK
  <2>2. row' \in [Slots' -> Rows \cup {NoRow}]
    BY <1>4, <1>5 DEF TablePageInv, TablePageTypeOK
  <2>3. body' \in [Bytes -> (Rows \cup {NoRow}) \X Nat]
    <3>1. \A b \in Bytes : at <= b => b - at \in Nat
      BY <1>1, <1>2 DEF Bytes
    <3> QED
      BY <1>1, <1>2, <1>4, <3>1 DEF TablePageInv, TablePageTypeOK, Serialized
  <2> QED
    BY <1>1, <1>2, <1>4, <2>1, <2>2, <2>3 DEF TablePageTypeOK
<1>9. Layout'
  <2>1. DirectoryBelowTuples'
    BY <1>1, <1>2, <1>4 DEF DirectoryBelowTuples
  <2>2. TuplesInArea'
    <3> SUFFICES ASSUME NEW k \in Live'
                 PROVE  /\ at <= slots'[k].offset
                        /\ slots'[k].offset + slots'[k].size <= PAGE_SIZE
      BY <1>4 DEF TuplesInArea
    <3>1. CASE k = i
      BY <1>1, <1>2, <1>6, <3>1
    <3>2. CASE k # i
      BY <1>1, <1>2, <1>6, <1>7, <3>2, LiveFacts
    <3> QED
      BY <3>1, <3>2
  <2>3. TuplesDisjoint'
    <3>1. ASSUME NEW k \in Live
          PROVE  /\ slots'[k] = slots[k] /\ slots[k].offset \in Nat
                 /\ at + size <= slots[k].offset
      BY <1>1, <1>2, <1>6, <1>7, LiveFacts
    <3>2. slots'[i].offset + slots'[i].size = at + size
      BY <1>6
    <3> QED
      BY <1>7, <3>1, <3>2, LiveFacts DEF TuplesDisjoint
  <2> QED
    BY <2>1, <2>2, <2>3 DEF Layout
<1>10. ContentIntact'
  <2> SUFFICES ASSUME NEW k \in Live', NEW j \in 0 .. slots'[k].size - 1
               PROVE  body'[slots'[k].offset + j] = <<row'[k], j>>
    BY DEF ContentIntact
  <2>1. CASE k = i
    <3>1. at + j \in Bytes /\ (at + j) - at = j /\ at <= at + j /\ at + j < at + size
      BY <1>1, <1>2, <1>6, <2>1 DEF Bytes
    <3> QED
      BY <1>4, <1>6, <2>1, <3>1 DEF Serialized
  <2>2. CASE k # i
    <3>1. k \in Live /\ k \in Slots /\ slots'[k] = slots[k] /\ row'[k] = row[k]
      BY <1>6, <1>7, <2>2 DEF Live
    <3>2. /\ slots[k].offset + j \in Bytes
          /\ slots[k].offset + j >= at + size
      <4>1. j \in 0 .. slots[k].size - 1
        BY <3>1
      <4> QED
        BY <1>1, <1>2, <3>1, <4>1, LiveFacts DEF Bytes
    <3>3. body'[slots[k].offset + j] = body[slots[k].offset + j]
      BY <1>1, <1>2, <1>4, <3>2 DEF Serialized, Bytes
    <3> QED
      BY <3>1, <3>3 DEF TablePageInv, ContentIntact
  <2> QED
    BY <2>1, <2>2
<1>11. NoSpaceLost'
  <2> SUFFICES ASSUME NEW b \in at .. PAGE_SIZE - 1
               PROVE  \E k \in Live' : /\ slots'[k].offset <= b
                                       /\ b < slots'[k].offset + slots'[k].size
    BY <1>4 DEF NoSpaceLost
  <2>1. CASE b < at + size
    BY <1>1, <1>2, <1>6, <1>7, <2>1
  <2>2. CASE b >= at + size
    <3>1. PICK k \in Live : /\ slots[k].offset <= b
                            /\ b < slots[k].offset + slots[k].size
      BY <1>1, <1>2, <2>2 DEF TablePageInv, NoSpaceLost
    <3> QED
      BY <1>6, <1>7, <3>1 DEF Live
  <2> QED
    BY <1>1, <1>2, <2>1, <2>2
<1> QED
  BY <1>8, <1>9, <1>10, <1>11 DEF TablePageInv

(* ApplyDelete closes the gap: the tuples below the removed one, and their *)
(* offsets, move up by its size.                                           *)
LEMMA ApplyDeletePreserves ==
  ASSUME TablePageInv, NEW i \in Nat, ApplyDelete(i)
  PROVE  TablePageInv'
<1> DEFINE o == slots[i].offset
           d == slots[i].size
           f == free_space_pointer
<1>1. /\ i \in Slots /\ i \in Live
      /\ f \in Nat /\ PAGE_SIZE \in Nat
      /\ o \in Nat /\ d \in Nat /\ d > 0
      /\ f <= o /\ o + d <= PAGE_SIZE
  BY TablePageAssumption, LiveFacts DEF ApplyDelete, Live, TablePageInv, TablePageTypeOK
<1>2. /\ free_space_pointer' = f + d
      /\ body' = Moved(body, f, o, d)
      /\ slots' = [k \in Slots |->
                     IF k = i THEN EmptySlot
                     ELSE IF slots[k].size # 0 /\ slots[k].offset < o
                     THEN [offset  |-> slots[k].offset + d,
                           size    |-> slots[k].size,
                           deleted |-> slots[k].deleted]
                     ELSE slots[k]]
      /\ row' = [row EXCEPT ![i] = NoRow]
      /\ tuple_count' = tuple_count /\ Slots' = Slots
  BY DEF ApplyDelete, PointerAfterDelete, ShiftedOnDelete, Slots
<1> HIDE DEF o, d, f
<1>3. slots \in [Slots -> [offset : 0 .. PAGE_SIZE, size : 0 .. PAGE_SIZE,
                           deleted : BOOLEAN]]
  BY DEF TablePageInv, TablePageTypeOK
<1>4. slots'[i] = EmptySlot
  BY <1>1, <1>2
(* Each other tuple lies on one side of the removed one. *)
<1>5. ASSUME NEW k \in Live, k # i
      PROVE  /\ k \in Slots
             /\ slots'[k].size = slots[k].size
             /\ slots'[k].deleted = slots[k].deleted
             /\ row'[k] = row[k]
             /\ slots[k].offset < o =>
                  /\ slots'[k].offset = slots[k].offset + d
                  /\ slots[k].offset + slots[k].size <= o
             /\ ~(slots[k].offset < o) =>
                  /\ slots'[k].offset = slots[k].offset
                  /\ o + d <= slots[k].offset
  <2>1. /\ k \in Slots /\ slots[k].size > 0
        /\ slots[k].offset \in Nat /\ slots[k].size \in Nat
        /\ slots[k].offset + slots[k].size <= o \/ o + d <= slots[k].offset
    BY <1>1, <1>5, LiveFacts DEF o, d
  <2>2. row'[k] = row[k]
    BY <1>2, <1>5, <2>1 DEF TablePageInv, TablePageTypeOK
  <2>3. slots[k] \in [offset : 0 .. PAGE_SIZE, size : 0 .. PAGE_SIZE,
                      deleted : BOOLEAN]
    BY <1>3, <2>1
  <2>4. CASE slots[k].offset < o
    <3>1. slots'[k] = [offset  |-> slots[k].offset + d,
                       size    |-> slots[k].size,
                       deleted |-> slots[k].deleted]
      BY <1>2, <1>5, <2>1, <2>4
    <3> QED
      BY <1>1, <2>1, <2>2, <2>3, <2>4, <3>1
  <2>5. CASE ~(slots[k].offset < o)
    <3>1. slots'[k] = slots[k]
      BY <1>2, <1>5, <2>1, <2>5
    <3> QED
      BY <1>1, <2>1, <2>2, <2>5, <3>1
  <2> QED
    BY <2>4, <2>5
<1>6. Live' = Live \ {i}
  <2>1. ASSUME NEW k \in Slots, k # i, slots[k].size = 0
        PROVE  slots'[k] = slots[k]
    BY <1>2, <2>1
  <2> QED
    BY <1>1, <1>2, <1>4, <1>5, <2>1, LiveFacts DEF Live, EmptySlot
<1>7. TablePageTypeOK'
  <2>1. slots' \in [Slots -> [offset : 0 .. PAGE_SIZE, size : 0 .. PAGE_SIZE,
                              deleted : BOOLEAN]]
    <3> SUFFICES ASSUME NEW k \in Slots
                 PROVE  slots'[k] \in [offset : 0 .. PAGE_SIZE, size : 0 .. PAGE_SIZE,
                                       deleted : BOOLEAN]
      BY <1>2
    <3>1. CASE k = i
      <4>1. EmptySlot \in [offset : 0 .. PAGE_SIZE, size : 0 .. PAGE_SIZE,
                            deleted : BOOLEAN]
        BY <1>1 DEF EmptySlot
      <4> QED
        BY <1>4, <3>1, <4>1
    <3>2. CASE k # i /\ slots[k].size # 0 /\ slots[k].offset < o
      <4>1. slots[k] \in [offset : 0 .. PAGE_SIZE, size : 0 .. PAGE_SIZE,
                          deleted : BOOLEAN]
        BY <1>3
      <4>2. slots[k].offset + d \in 0 .. PAGE_SIZE
        BY <1>1, <3>2, <4>1
      <4> QED
        BY <1>2, <3>2, <4>1, <4>2
    <3>3. CASE k # i /\ ~(slots[k].size # 0 /\ slots[k].offset < o)
      BY <1>2, <1>3, <3>3
    <3> QED
      BY <3>1, <3>2, <3>3
  <2>2. body' \in [Bytes -> (Rows \cup {NoRow}) \X Nat]
    <3>1. \A b \in Bytes : f + d <= b => b - d \in Bytes
      BY <1>1 DEF Bytes
    <3> QED
      BY <1>2, <3>1 DEF TablePageInv, TablePageTypeOK, Moved
  <2>3. row' \in [Slots -> Rows \cup {NoRow}]
    BY <1>1, <1>2 DEF TablePageInv, TablePageTypeOK
  <2>4. free_space_pointer' \in 0 .. PAGE_SIZE
    BY <1>1, <1>2
  <2> QED
    BY <1>2, <2>1, <2>2, <2>3, <2>4 DEF TablePageInv, TablePageTypeOK
<1>8. Layout'
  <2>1. DirectoryBelowTuples'
    <3>1. SIZE_TUPLE * tuple_count \in Nat /\ SIZE_TABLE_PAGE_HEADER \in Nat
      BY TablePageAssumption, DirectorySize DEF TablePageInv, TablePageTypeOK
    <3> QED
      BY <1>1, <1>2, <3>1 DEF TablePageInv, Layout, DirectoryBelowTuples, f
  <2>2. TuplesInArea'
    <3> SUFFICES ASSUME NEW k \in Live, k # i
                 PROVE  /\ f + d <= slots'[k].offset
                        /\ slots'[k].offset + slots'[k].size <= PAGE_SIZE
      BY <1>2, <1>6 DEF TuplesInArea
    <3> QED
      BY <1>1, <1>5, LiveFacts DEF f
  <2>3. TuplesDisjoint'
    <3> SUFFICES ASSUME NEW k \in Live, k # i, NEW l \in Live, l # i, k # l
                 PROVE  \/ slots'[k].offset + slots'[k].size <= slots'[l].offset
                        \/ slots'[l].offset + slots'[l].size <= slots'[k].offset
      BY <1>6 DEF TuplesDisjoint
    <3>1. \/ slots[k].offset + slots[k].size <= slots[l].offset
          \/ slots[l].offset + slots[l].size <= slots[k].offset
      BY LiveFacts
    <3>2. /\ slots[k].offset \in Nat /\ slots[k].size \in Nat
          /\ slots[l].offset \in Nat /\ slots[l].size \in Nat
      BY LiveFacts
    <3> QED
      BY <1>1, <1>5, <3>1, <3>2
  <2> QED
    BY <2>1, <2>2, <2>3 DEF Layout
<1>9. ContentIntact'
  <2> SUFFICES ASSUME NEW k \in Live, k # i, NEW j \in 0 .. slots[k].size - 1
               PROVE  body'[slots'[k].offset + j] = <<row'[k], j>>
    BY <1>5, <1>6 DEF ContentIntact
  <2>1. /\ body[slots[k].offset + j] = <<row[k], j>>
        /\ row'[k] = row[k]
    BY <1>5 DEF TablePageInv, ContentIntact
  <2>2. /\ slots[k].offset \in Nat /\ slots[k].size \in Nat /\ j \in Nat
        /\ j < slots[k].size /\ f <= slots[k].offset
        /\ slots[k].offset + slots[k].size <= PAGE_SIZE
    BY LiveFacts DEF f
  <2>3. CASE slots[k].offset < o
    <3>1. /\ slots'[k].offset + j \in Bytes
          /\ f + d <= slots'[k].offset + j /\ slots'[k].offset + j < o + d
          /\ (slots'[k].offset + j) - d = slots[k].offset + j
      BY <1>1, <1>5, <2>2, <2>3 DEF Bytes
    <3> QED
      BY <1>2, <2>1, <3>1 DEF Moved
  <2>4. CASE ~(slots[k].offset < o)
    <3>1. slots'[k].offset = slots[k].offset /\ o + d <= slots[k].offset
      BY <1>5, <2>4
    <3>2. slots[k].offset + j \in Bytes /\ ~(slots[k].offset + j < o + d)
      BY <1>1, <2>2, <3>1 DEF Bytes
    <3> QED
      BY <1>2, <2>1, <3>1, <3>2 DEF Moved
  <2> QED
    BY <2>3, <2>4
<1>10. NoSpaceLost'
  <2> SUFFICES ASSUME NEW b \in f + d .. PAGE_SIZE - 1
               PROVE  \E k \in Live \ {i} : /\ slots'[k].offset <= b
                                            /\ b < slots'[k].offset + slots'[k].size
    BY <1>2, <1>6 DEF NoSpaceLost
  <2>1. CASE b >= o + d
    <3>1. PICK k \in Live : slots[k].offset <= b /\ b < slots[k].offset + slots[k].size
      BY <1>1, <2>1 DEF TablePageInv, NoSpaceLost, f
    <3>2. k # i
      BY <1>1, <2>1, <3>1 DEF o, d
    <3> QED
      BY <1>1, <1>5, <2>1, <3>1, <3>2, LiveFacts
  <2>2. CASE b < o + d
    <3>1. b - d \in f .. PAGE_SIZE - 1
      BY <1>1
    <3>2. PICK k \in Live : slots[k].offset <= b - d /\ b - d < slots[k].offset + slots[k].size
      BY <3>1 DEF TablePageInv, NoSpaceLost, f
    <3>3. k # i
      BY <1>1, <2>2, <3>2 DEF o, d
    <3>4. slots[k].offset < o /\ slots[k].offset \in Nat /\ slots[k].size \in Nat
      BY <1>1, <2>2, <3>2, LiveFacts
    <3> QED
      BY <1>1, <1>5, <3>2, <3>3, <3>4
  <2>3. b >= o + d \/ b < o + d
    BY <1>1
  <2> QED
    BY <2>1, <2>2, <2>3
<1> QED
  BY <1>7, <1>8, <1>9, <1>10 DEF TablePageInv

(* UpdateTuple keeps the end of the tuple in place: the tuple's start and  *)
(* all tuples below it move by the difference of the sizes, up or down.    *)
LEMMA UpdatePreserves ==
  ASSUME TablePageInv, NEW i \in Nat, NEW r \in Rows, NEW size \in Sizes,
         UpdateTuple(i, r, size)
  PROVE  TablePageInv'
<1> DEFINE o == slots[i].offset
           d == slots[i].size
           f == free_space_pointer
           by == d - size
           Slot == [offset : 0 .. PAGE_SIZE, size : 0 .. PAGE_SIZE, deleted : BOOLEAN]
<1>1. i \in Slots /\ i \in Live
  <2>1. i \in Slots /\ ~IsDeleted(slots[i])
    BY DEF UpdateTuple, UpdateRefusal
  <2> QED
    BY <2>1 DEF Live, IsDeleted
<1>2. /\ f \in Nat /\ PAGE_SIZE \in Nat
      /\ o \in Nat /\ d \in Nat /\ d > 0
      /\ f <= o /\ o + d <= PAGE_SIZE
      /\ size \in Nat /\ size > 0
      /\ by \in Int /\ d = by + size
  BY <1>1, TablePageAssumption, LiveFacts DEF TablePageInv, TablePageTypeOK
<1>3. /\ SIZE_TUPLE * tuple_count \in Nat /\ SIZE_TABLE_PAGE_HEADER \in Nat
      /\ SIZE_TABLE_PAGE_HEADER + SIZE_TUPLE * tuple_count <= f + by
  <2>1. /\ SIZE_TUPLE * tuple_count \in Nat /\ SIZE_TABLE_PAGE_HEADER \in Nat
    BY TablePageAssumption, DirectorySize DEF TablePageInv, TablePageTypeOK
  <2>2. ~(FreeSpaceRemaining + d < size)
    BY DEF UpdateTuple, UpdateRefusal
  <2> QED
    BY <1>2, <2>1, <2>2 DEF FreeSpaceRemaining
<1>4. /\ free_space_pointer' = f + by
      /\ body' = Serialized(Moved(body, f, o, by), r, size, o + by)
      /\ slots' = [k \in Slots |->
                     [offset  |-> IF slots[k].size > 0 /\ slots[k].offset < o + d
                                  THEN slots[k].offset + by ELSE slots[k].offset,
                      size    |-> IF k = i THEN size ELSE slots[k].size,
                      deleted |-> slots[k].deleted]]
      /\ row' = [row EXCEPT ![i] = r]
      /\ tuple_count' = tuple_count /\ Slots' = Slots
  BY DEF UpdateTuple, ShiftedOnUpdate, Slots
<1>5. slots \in [Slots -> Slot]
  BY DEF TablePageInv, TablePageTypeOK
<1> HIDE DEF o, d, f, by
<1>6. /\ slots'[i].offset = o + by /\ slots'[i].size = size
      /\ o + by + size = o + d
      /\ f + by <= o + by /\ f + by \in Nat /\ o + by \in Nat
      /\ row'[i] = r
  <2>1. row'[i] = r
    BY <1>1, <1>4 DEF TablePageInv, TablePageTypeOK
  <2>2. slots'[i] = [offset |-> o + by, size |-> size, deleted |-> slots[i].deleted]
    BY <1>1, <1>2, <1>4 DEF o, d
  <2> QED
    BY <1>2, <1>3, <2>1, <2>2
(* Each other tuple lies on one side of the resized one. *)
<1>7. ASSUME NEW k \in Live, k # i
      PROVE  /\ k \in Slots
             /\ slots'[k].size = slots[k].size
             /\ row'[k] = row[k]
             /\ slots[k].offset < o =>
                  /\ slots'[k].offset = slots[k].offset + by
                  /\ slots[k].offset + slots[k].size <= o
             /\ ~(slots[k].offset < o) =>
                  /\ slots'[k].offset = slots[k].offset
                  /\ o + d <= slots[k].offset
  <2>1. /\ k \in Slots /\ slots[k].size > 0
        /\ slots[k].offset \in Nat /\ slots[k].size \in Nat
        /\ slots[k].offset + slots[k].size <= o \/ o + d <= slots[k].offset
    BY <1>1, <1>7, LiveFacts DEF o, d
  <2>2. row'[k] = row[k]
    BY <1>4, <1>7, <2>1 DEF TablePageInv, TablePageTypeOK
  <2>3. CASE slots[k].offset < o
    <3>1. slots[k].offset < o + d
      BY <1>2, <2>1, <2>3
    <3>2. slots'[k] = [offset  |-> slots[k].offset + by,
                       size    |-> slots[k].size,
                       deleted |-> slots[k].deleted]
      BY <1>4, <1>7, <2>1, <3>1
    <3> QED
      BY <1>2, <2>1, <2>2, <2>3, <3>2
  <2>4. CASE ~(slots[k].offset < o)
    <3>1. o + d <= slots[k].offset /\ ~(slots[k].offset < o + d)
      BY <1>2, <2>1, <2>4
    <3>2. slots'[k] = [offset  |-> slots[k].offset,
                       size    |-> slots[k].size,
                       deleted |-> slots[k].deleted]
      BY <1>4, <1>7, <2>1, <3>1
    <3> QED
      BY <1>2, <2>1, <2>2, <2>4, <3>1, <3>2
  <2> QED
    BY <2>3, <2>4
<1>8. Live' = Live
  <2>1. ASSUME NEW k \in Slots
        PROVE  slots'[k].size = IF k = i THEN size ELSE slots[k].size
    BY <1>4
  <2>2. size # 0 /\ d # 0
    BY <1>2
  <2> QED
    BY <1>1, <1>4, <2>1, <2>2 DEF Live, d
<1>9. TablePageTypeOK'
  <2>1. slots' \in [Slots -> Slot]
    <3> SUFFICES ASSUME NEW k \in Slots
                 PROVE  slots'[k] \in Slot
      BY <1>4
    <3>1. slots[k] \in Slot
      BY <1>5
    <3>2. /\ slots'[k].deleted = slots[k].deleted
          /\ slots'[k] = [offset  |-> slots'[k].offset,
                          size    |-> slots'[k].size,
                          deleted |-> slots'[k].deleted]
      BY <1>4
    <3>3. slots'[k].offset \in 0 .. PAGE_SIZE /\ slots'[k].size \in 0 .. PAGE_SIZE
      <4>1. CASE k = i
        BY <1>2, <1>6, <4>1
      <4>2. CASE k # i /\ k \in Live
        BY <1>2, <1>3, <1>6, <1>7, <3>1, <4>2, LiveFacts DEF f
      <4>3. CASE k # i /\ k \notin Live
        <5>1. slots[k].size = 0
          BY <4>3 DEF Live
        <5>2. slots'[k].offset = slots[k].offset /\ slots'[k].size = slots[k].size
          BY <1>4, <4>3, <5>1
        <5> QED
          BY <3>1, <5>2
      <4> QED
        BY <4>1, <4>2, <4>3
    <3> QED
      BY <3>1, <3>2, <3>3
  <2>2. body' \in [Bytes -> (Rows \cup {NoRow}) \X Nat]
    <3>1. \A b \in Bytes : f + by <= b /\ b < o + by => b - by \in Bytes
      BY <1>2 DEF Bytes
    <3>2. Moved(body, f, o, by) \in [Bytes -> (Rows \cup {NoRow}) \X Nat]
      BY <3>1 DEF TablePageInv, TablePageTypeOK, Moved
    <3>3. \A b \in Bytes : o + by <= b => b - (o + by) \in Nat
      BY <1>6 DEF Bytes
    <3> QED
      BY <1>4, <3>2, <3>3 DEF Serialized
  <2>3. row' \in [Slots -> Rows \cup {NoRow}]
    BY <1>1, <1>4 DEF TablePageInv, TablePageTypeOK
  <2>4. free_space_pointer' \in 0 .. PAGE_SIZE
    BY <1>2, <1>4, <1>6
  <2> QED
    BY <1>4, <2>1, <2>2, <2>3, <2>4 DEF TablePageInv, TablePageTypeOK
<1>10. Layout'
  <2>1. DirectoryBelowTuples'
    BY <1>3, <1>4 DEF DirectoryBelowTuples
  <2>2. TuplesInArea'
    <3> SUFFICES ASSUME NEW k \in Live
                 PROVE  /\ f + by <= slots'[k].offset
                        /\ slots'[k].offset + slots'[k].size <= PAGE_SIZE
      BY <1>4, <1>8 DEF TuplesInArea
    <3>1. CASE k = i
      BY <1>2, <1>6, <3>1
    <3>2. CASE k # i
      BY <1>2, <1>6, <1>7, <3>2, LiveFacts DEF f
    <3> QED
      BY <3>1, <3>2
  <2>3. TuplesDisjoint'
    <3>1. ASSUME NEW k \in Live, k # i
          PROVE  \/ slots'[k].offset + slots'[k].size <= slots'[i].offset
                 \/ slots'[i].offset + slots'[i].size <= slots'[k].offset
      BY <1>2, <1>6, <1>7, <3>1, LiveFacts
    <3>2. ASSUME NEW k \in Live, k # i, NEW l \in Live, l # i, k # l
          PROVE  \/ slots'[k].offset + slots'[k].size <= slots'[l].offset
                 \/ slots'[l].offset + slots'[l].size <= slots'[k].offset
      <4>1. \/ slots[k].offset + slots[k].size <= slots[l].offset
            \/ slots[l].offset + slots[l].size <= slots[k].offset
        BY <3>2, LiveFacts
      <4>2. /\ slots[k].offset \in Nat /\ slots[k].size \in Nat /\ slots[k].size > 0
            /\ slots[l].offset \in Nat /\ slots[l].size \in Nat /\ slots[l].size > 0
        BY LiveFacts
      <4> QED
        BY <1>2, <1>7, <3>2, <4>1, <4>2
    <3> QED
      BY <1>8, <3>1, <3>2 DEF TuplesDisjoint
  <2> QED
    BY <2>1, <2>2, <2>3 DEF Layout
<1>11. ContentIntact'
  <2> SUFFICES ASSUME NEW k \in Live, NEW j \in 0 .. slots'[k].size - 1
               PROVE  body'[slots'[k].offset + j] = <<row'[k], j>>
    BY <1>8 DEF ContentIntact
  <2>1. CASE k = i
    <3>1. /\ o + by + j \in Bytes /\ o + by <= o + by + j
          /\ o + by + j < o + by + size /\ (o + by + j) - (o + by) = j
      BY <1>2, <1>6, <2>1 DEF Bytes
    <3> QED
      BY <1>4, <1>6, <2>1, <3>1 DEF Serialized
  <2>2. CASE k # i
    <3>1. j \in 0 .. slots[k].size - 1
      BY <1>7, <2>2
    <3>2. /\ body[slots[k].offset + j] = <<row[k], j>>
          /\ row'[k] = row[k]
      BY <1>7, <2>2, <3>1 DEF TablePageInv, ContentIntact
    <3>3. /\ slots[k].offset \in Nat /\ slots[k].size \in Nat /\ j \in Nat
          /\ j < slots[k].size /\ f <= slots[k].offset
          /\ slots[k].offset + slots[k].size <= PAGE_SIZE
      BY <3>1, LiveFacts DEF f
    <3>4. CASE slots[k].offset < o
      <4>1. /\ slots'[k].offset + j \in Bytes
            /\ f + by <= slots'[k].offset + j /\ slots'[k].offset + j < o + by
            /\ (slots'[k].offset + j) - by = slots[k].offset + j
        BY <1>2, <1>6, <1>7, <2>2, <3>3, <3>4 DEF Bytes
      <4>2. Moved(body, f, o, by)[slots'[k].offset + j] = body[slots[k].offset + j]
        BY <4>1 DEF Moved
      <4>3. ~(o + by <= slots'[k].offset + j)
        BY <1>2, <1>6, <4>1 DEF Bytes
      <4> QED
        BY <1>4, <3>2, <4>1, <4>2, <4>3 DEF Serialized
    <3>5. CASE ~(slots[k].offset < o)
      <4>1. slots'[k].offset = slots[k].offset /\ o + d <= slots[k].offset
        BY <1>7, <2>2, <3>5
      <4>2. /\ slots[k].offset + j \in Bytes
            /\ ~(slots[k].offset + j < o + by)
            /\ ~(slots[k].offset + j < o + by + size)
        BY <1>2, <1>6, <3>3, <4>1 DEF Bytes
      <4>3. Moved(body, f, o, by)[slots[k].offset + j] = body[slots[k].offset + j]
        BY <4>2 DEF Moved
      <4> QED
        BY <1>4, <3>2, <4>1, <4>2, <4>3 DEF Serialized
    <3> QED
      BY <3>4, <3>5
  <2> QED
    BY <2>1, <2>2
<1>12. NoSpaceLost'
  <2> SUFFICES ASSUME NEW b \in f + by .. PAGE_SIZE - 1
               PROVE  \E k \in Live : /\ slots'[k].offset <= b
                                      /\ b < slots'[k].offset + slots'[k].size
    BY <1>4, <1>8 DEF NoSpaceLost
  <2>1. CASE b >= o + d
    <3>1. PICK k \in Live : slots[k].offset <= b /\ b < slots[k].offset + slots[k].size
      BY <1>2, <2>1 DEF TablePageInv, NoSpaceLost, f
    <3>2. k # i
      BY <1>2, <2>1, <3>1 DEF o, d
    <3> QED
      BY <1>2, <1>7, <2>1, <3>1, <3>2, LiveFacts
  <2>2. CASE b < o + by
    <3>1. b - by \in f .. PAGE_SIZE - 1
      BY <1>2, <2>2
    <3>2. PICK k \in Live : slots[k].offset <= b - by /\ b - by < slots[k].offset + slots[k].size
      BY <3>1 DEF TablePageInv, NoSpaceLost, f
    <3>3. k # i
      BY <1>2, <2>2, <3>2 DEF o, d
    <3>4. slots[k].offset < o /\ slots[k].offset \in Nat /\ slots[k].size \in Nat
      BY <1>2, <2>2, <3>2, LiveFacts
    <3> QED
      BY <1>2, <1>7, <3>2, <3>3, <3>4
  <2>3. CASE o + by <= b /\ b < o + d
    BY <1>1, <1>6, <2>3
  <2> QED
    BY <1>2, <1>6, <2>1, <2>2, <2>3
<1> QED
  BY <1>9, <1>10, <1>11, <1>12 DEF TablePageInv
-----------------------------------------------------------------------------
(* MarkDelete and RollbackDelete change a delete flag and nothing else. *)
LEMMA FlagPreserves ==
  ASSUME TablePageInv, NEW i \in Slots, NEW flag \in BOOLEAN,
         slots' = [slots EXCEPT ![i] = Flagged(@, flag)],
         UNCHANGED <<free_space_pointer, tuple_count, body, row>>
  PROVE  TablePageInv'
<1> DEFINE Slot == [offset : 0 .. PAGE_SIZE, size : 0 .. PAGE_SIZE, deleted : BOOLEAN]
<1>1. slots \in [Slots -> Slot] /\ Slots' = Slots
  BY DEF TablePageInv, TablePageTypeOK, Slots
<1>2. ASSUME NEW k \in Slots
      PROVE  /\ slots'[k] \in Slot
             /\ slots'[k].offset = slots[k].offset
             /\ slots'[k].size = slots[k].size
  <2>1. CASE k = i
    <3>1. slots'[k] = Flagged(slots[k], flag) /\ slots[k] \in Slot
      BY <1>1, <2>1
    <3> QED
      BY <3>1 DEF Flagged
  <2>2. CASE k # i
    BY <1>1, <2>2
  <2> QED
    BY <2>1, <2>2
<1>3. Live' = Live /\ \A k \in Live : k \in Slots
  BY <1>1, <1>2 DEF Live
<1>4. TablePageTypeOK'
  <2>1. slots' \in [Slots -> Slot]
    BY <1>1, <1>2
  <2> QED
    BY <1>1, <2>1 DEF TablePageInv, TablePageTypeOK
<1>5. DirectoryBelowTuples' /\ TuplesInArea'
  BY <1>2, <1>3 DEF TablePageInv, Layout, DirectoryBelowTuples, TuplesInArea
<1>6. TuplesDisjoint'
  BY <1>2, <1>3 DEF TablePageInv, Layout, TuplesDisjoint
<1>7. ContentIntact'
  BY <1>2, <1>3 DEF TablePageInv, ContentIntact
<1>8. NoSpaceLost'
  BY <1>2, <1>3 DEF TablePageInv, NoSpaceLost
<1> QED
  BY <1>4, <1>5, <1>6, <1>7, <1>8 DEF TablePageInv, Layout

(* A refused operation keeps the invariant. *)
LEMMA UnchangedPreserves ==
  ASSUME TablePageInv, UNCHANGED <<free_space_pointer, tuple_count, slots, body, row>>
  PROVE  TablePageInv'
BY DEF TablePageInv, TablePageTypeOK, Layout, DirectoryBelowTuples, TuplesInArea, TuplesDisjoint,
       ContentIntact, NoSpaceLost, Live, Slots

(* An empty page satisfies it. *)
LEMMA TablePageInitHolds == TablePageInit => TablePageInv
<1> SUFFICES ASSUME TablePageInit PROVE TablePageInv
  OBVIOUS
<1>1. Slots = {} /\ Live = {}
  BY DEF TablePageInit, Slots, Live
<1>2. TablePageTypeOK
  BY <1>1, TablePageAssumption DEF TablePageInit, TablePageTypeOK, Unwritten
<1>3. SIZE_TUPLE * tuple_count = 0
  BY TablePageAssumption DEF TablePageInit
<1>4. Layout
  BY <1>1, <1>3, TablePageAssumption
     DEF TablePageInit, Layout, DirectoryBelowTuples, TuplesInArea, TuplesDisjoint
<1>5. ContentIntact
  BY <1>1 DEF ContentIntact
<1>6. NoSpaceLost
  BY TablePageAssumption DEF TablePageInit, NoSpaceLost
<1> QED
  BY <1>2, <1>4, <1>5, <1>6 DEF TablePageInv

(* Every call of TablePage preserves the layout and the contents. *)
LEMMA TablePageNextPreserves == TablePageInv /\ [TablePageNext]_tablePageVars => TablePageInv'
<1> SUFFICES ASSUME TablePageInv, [TablePageNext]_tablePageVars PROVE TablePageInv'
  OBVIOUS
<1>1. ASSUME NEW r \in Rows, NEW size \in Sizes, InsertTuple(r, size)
      PROVE  TablePageInv'
  BY <1>1, InsertPreserves
<1>2. ASSUME NEW size \in Sizes, InsertTupleFails(size)
      PROVE  TablePageInv'
  BY <1>2, UnchangedPreserves DEF InsertTupleFails
<1>3. ASSUME NEW i \in 0 .. tuple_count, MarkDelete(i)
      PROVE  TablePageInv'
  <2>1. CASE i \in Slots /\ ~IsDeleted(slots[i])
    BY <1>3, <2>1, FlagPreserves DEF MarkDelete
  <2>2. CASE ~(i \in Slots /\ ~IsDeleted(slots[i]))
    BY <1>3, <2>2, UnchangedPreserves DEF MarkDelete
  <2> QED
    BY <2>1, <2>2
<1>4. ASSUME NEW i \in 0 .. tuple_count, RollbackDelete(i)
      PROVE  TablePageInv'
  BY <1>4, FlagPreserves DEF RollbackDelete
<1>5. ASSUME NEW i \in 0 .. tuple_count, ApplyDelete(i)
      PROVE  TablePageInv'
  <2>1. i \in Nat
    BY DEF TablePageInv, TablePageTypeOK
  <2> QED
    BY <1>5, <2>1, ApplyDeletePreserves
<1>6. ASSUME NEW i \in 0 .. tuple_count, NEW size \in Sizes, UpdateTupleRefused(i, size)
      PROVE  TablePageInv'
  BY <1>6, UnchangedPreserves DEF UpdateTupleRefused
<1>7. ASSUME NEW i \in 0 .. tuple_count, NEW r \in Rows, NEW size \in Sizes,
             UpdateTuple(i, r, size)
      PROVE  TablePageInv'
  <2>1. i \in Nat
    BY DEF TablePageInv, TablePageTypeOK
  <2> QED
    BY <1>7, <2>1, UpdatePreserves
<1>8. ASSUME UNCHANGED tablePageVars
      PROVE  TablePageInv'
  BY <1>8, UnchangedPreserves DEF tablePageVars
<1> QED
  BY <1>1, <1>2, <1>3, <1>4, <1>5, <1>6, <1>7, <1>8 DEF TablePageNext

(* The four parts of the invariant hold in every state of a table page. *)
THEOREM TablePageInvariant == TablePageSpec => []TablePageInv
BY TablePageInitHolds, TablePageNextPreserves, PTL DEF TablePageSpec

(* The free space pointer, the directory and the page stay in range. *)
THEOREM TablePageTypeCorrect == TablePageSpec => []TablePageTypeOK
<1>1. TablePageInv => TablePageTypeOK
  BY DEF TablePageInv
<1> QED
  BY <1>1, TablePageInvariant, PTL

(* The directory and the tuples never overlap, nor do two tuples, and the  *)
(* free space that the code computes in uint32_t never wraps.              *)
THEOREM TablePageLayout == TablePageSpec => []Layout
<1>1. TablePageInv => Layout
  BY DEF TablePageInv
<1> QED
  BY <1>1, TablePageInvariant, PTL

(* No operation on one tuple changes the bytes of another, and each holds  *)
(* the row last stored in its slot.                                        *)
THEOREM TablePageContent == TablePageSpec => []ContentIntact
<1>1. TablePageInv => ContentIntact
  BY DEF TablePageInv
<1> QED
  BY <1>1, TablePageInvariant, PTL

(* The tuple area has no holes: a delete gives back all of its bytes. *)
THEOREM TablePageNoSpaceLost == TablePageSpec => []NoSpaceLost
<1>1. TablePageInv => NoSpaceLost
  BY DEF TablePageInv
<1> QED
  BY <1>1, TablePageInvariant, PTL
=============================================================================
