---------------------------- MODULE StorageFacts ----------------------------
(***************************************************************************)
(* What the operators of Bitmap and LruList compute, for every argument.   *)
(* The proofs about the components that keep such a value rest on these    *)
(* lemmas: BitmapPage and DiskManager on the bitmap's, LRUReplacer and     *)
(* BufferPool on the list's.                                               *)
(***************************************************************************)
EXTENDS Bitmap, LruList, WellFoundedInduction, FiniteSetTheorems, TLAPS

(* A set of naturals that is not empty has a least element: every loop     *)
(* that looks for the first entry of some kind stops somewhere.            *)
LEMMA LeastNat ==
  ASSUME NEW T, T \subseteq Nat, T # {}
  PROVE  \E x \in T : \A y \in T : x <= y
<1>1. PICK x \in T : \A y \in T : ~(<<y, x>> \in OpToRel(<, Nat))
  BY WFMin, NatLessThanWellFounded, Zenon
<1>2. ASSUME NEW y \in T
      PROVE  x <= y
  <2>1. x \in Nat /\ y \in Nat
    BY Zenon
  <2>2. ~(y < x)
    BY <1>1, <2>1, Zenon DEF OpToRel
  <2> QED
    BY <2>1, <2>2
<1> QED
  BY <1>2, Zenon
-----------------------------------------------------------------------------
(***************************************************************************)
(* The free-page bitmap.                                                   *)
(***************************************************************************)
(* Products of the constants, which the solver cannot find by itself.      *)
LEMMA SizeIsNat == BITMAP_SIZE \in Nat \ {0}
BY BitmapAssumption DEF BITMAP_SIZE

(* A bitmap whose counters and bits agree. *)
Consistent(bm) ==
  /\ bm \in BitmapType
  /\ bm.page_allocated_ = Cardinality(bm.bytes)
  /\ \A o \in bm.bytes : o < bm.next_free_page_

(* In such a bitmap all set bits are below next_free_page_, and as many    *)
(* set bits as next_free_page_ leave none of them free.                    *)
LEMMA ConsistentBits ==
  ASSUME NEW bm, Consistent(bm)
  PROVE  /\ IsFiniteSet(bm.bytes)
         /\ bm.bytes \in SUBSET (0 .. bm.next_free_page_ - 1)
         /\ bm.page_allocated_ <= bm.next_free_page_
         /\ bm.page_allocated_ = bm.next_free_page_
              => bm.bytes = 0 .. bm.next_free_page_ - 1
         /\ bm.page_allocated_ = BITMAP_SIZE => bm.bytes = Offsets
<1> DEFINE n == bm.next_free_page_
<1>1. /\ n \in Nat /\ n <= BITMAP_SIZE /\ BITMAP_SIZE \in Nat
      /\ bm.bytes \subseteq Offsets /\ bm.page_allocated_ \in Nat
  BY SizeIsNat DEF Consistent, BitmapType
<1>2. bm.bytes \in SUBSET (0 .. n - 1)
  BY <1>1 DEF Consistent, Offsets
<1>3. /\ IsFiniteSet(0 .. n - 1)
      /\ Cardinality(0 .. n - 1) = n
  <2>1. /\ IsFiniteSet(0 .. n - 1)
        /\ Cardinality(0 .. n - 1) = IF 0 > n - 1 THEN 0 ELSE (n - 1) - 0 + 1
    BY <1>1, FS_Interval, n - 1 \in Int, 0 \in Int, Zenon
  <2> QED
    BY <1>1, <2>1
<1>4. /\ IsFiniteSet(bm.bytes)
      /\ Cardinality(bm.bytes) <= n
      /\ Cardinality(bm.bytes) = n => bm.bytes = 0 .. n - 1
  BY <1>2, <1>3, FS_Subset
<1>5. bm.page_allocated_ = Cardinality(bm.bytes)
  BY DEF Consistent
<1>6. ASSUME bm.page_allocated_ = BITMAP_SIZE
      PROVE  bm.bytes = Offsets
  <2>1. n = BITMAP_SIZE
    BY <1>1, <1>4, <1>5, <1>6
  <2> QED
    BY <2>1, <1>4, <1>5, <1>6 DEF Offsets
<1> HIDE DEF n
<1> QED
  BY <1>2, <1>4, <1>5, <1>6 DEF n

(* Byte and bit index of an offset, and multiples of the byte width. *)
LEMMA ByteOfOffset ==
  ASSUME NEW o \in Nat
  PROVE  \E q \in 0 .. o, r \in 0 .. ByteBits - 1 : o = q * ByteBits + r
<1>1. PICK B \in Nat \ {0} : B = ByteBits
  BY BitmapAssumption
<1>2. /\ o \div B \in Nat
      /\ o % B \in 0 .. B - 1
      /\ o = B * (o \div B) + (o % B)
  BY <1>1
<1>3. o \div B <= o
  BY <1>1, <1>2
<1>4. B * (o \div B) = (o \div B) * B
  BY <1>1, <1>2
<1>5. o \div B \in 0 .. o /\ o = (o \div B) * B + (o % B)
  BY <1>2, <1>3, <1>4
<1>6. \E q \in 0 .. o, r \in 0 .. B - 1 : o = q * B + r
  BY <1>2, <1>5, Zenon
<1> QED
  BY <1>1, <1>6

(* A later byte begins behind the end of an earlier one. *)
LEMMA LaterByte ==
  ASSUME NEW q \in Nat, NEW i \in Nat, q > i
  PROVE  q * ByteBits >= i * ByteBits + ByteBits
<1>1. PICK B \in Nat \ {0} : B = ByteBits
  BY BitmapAssumption
<1>2. PICK d \in Nat : q = i + 1 + d
  <2> WITNESS q - i - 1 \in Nat
  <2> QED OBVIOUS
<1>3. q * B = i * B + B + d * B
  BY <1>1, <1>2
<1>4. d * B \in Nat
  BY <1>1
<1> QED
  BY <1>1, <1>3, <1>4

(* The loop over the bytes stops at a byte that has a free bit: were the   *)
(* bytes 0..page_allocated_ all 255, more bits would be set than           *)
(* page_allocated_ counts.                                                 *)
LEMMA ScanByteFinds ==
  ASSUME NEW bm, Consistent(bm)
  PROVE  /\ IsScanByte(bm, ScanByte(bm))
         /\ ScanByte(bm) \in 0 .. bm.page_allocated_
<1> DEFINE a == bm.page_allocated_
           T == {i \in 0 .. a : ~ByteIs255(bm, i)}
<1>1. a \in Nat
  BY SizeIsNat DEF Consistent, BitmapType
<1>2. T # {}
  <2> SUFFICES ASSUME \A i \in 0 .. a : ByteIs255(bm, i)
               PROVE  FALSE
    OBVIOUS
  <2>1. 0 .. a \in SUBSET bm.bytes
    <3> SUFFICES ASSUME NEW o \in 0 .. a
                 PROVE  o \in bm.bytes
      OBVIOUS
    <3>1. PICK q \in 0 .. o, r \in 0 .. ByteBits - 1 : o = q * ByteBits + r
      BY <1>1, ByteOfOffset
    <3>2. q \in 0 .. a
      BY <1>1
    <3> QED
      BY <3>1, <3>2 DEF ByteIs255
  <2>2. IsFiniteSet(bm.bytes) /\ Cardinality(bm.bytes) = a
    BY ConsistentBits DEF Consistent
  <2>3. Cardinality(0 .. a) <= a
    BY <2>1, <2>2, FS_Subset, Zenon
  <2>4. Cardinality(0 .. a) = IF 0 > a THEN 0 ELSE a - 0 + 1
    BY <1>1, FS_Interval, 0 \in Int, a \in Int, Zenon
  <2> QED
    BY <1>1, <2>3, <2>4
<1>3. PICK i \in T : \A k \in T : i <= k
  <2>1. T \subseteq Nat
    BY <1>1
  <2> QED
    BY <1>2, <2>1, LeastNat, Zenon
<1>4. IsScanByte(bm, i)
  BY <1>1, <1>3 DEF IsScanByte
<1>5. i \in 0 .. a + 1
  BY <1>1, <1>3
<1>6. IsScanByte(bm, ScanByte(bm))
  BY <1>4, <1>5 DEF ScanByte
<1>7. ScanByte(bm) \in 0 .. a
  <2>1. ScanByte(bm) \in 0 .. a + 1
    BY <1>6 DEF IsScanByte
  <2>2. ScanByte(bm) # a + 1
    BY <1>1, <1>3, <1>6 DEF IsScanByte
  <2> QED
    BY <1>1, <2>1, <2>2
<1> QED
  BY <1>6, <1>7

(* The loop over the bits of such a byte finds a zero bit. *)
LEMMA ScanBitFinds ==
  ASSUME NEW bm, NEW i \in Nat, ~ByteIs255(bm, i)
  PROVE  /\ IsScanBit(bm, i, ScanBit(bm, i))
         /\ ScanBit(bm, i) \in 0 .. ByteBits - 1
<1> DEFINE T == {j \in 0 .. ByteBits - 1 : i * ByteBits + j \notin bm.bytes}
<1>1. ByteBits \in Nat \ {0}
  BY BitmapAssumption
<1>2. T # {} /\ T \subseteq Nat
  <2>1. PICK j \in 0 .. ByteBits - 1 : i * ByteBits + j \notin bm.bytes
    BY Zenon DEF ByteIs255
  <2>2. j \in T
    BY <2>1, Zenon
  <2>3. 0 .. ByteBits - 1 \subseteq Nat
    BY <1>1
  <2> QED
    BY <2>2, <2>3, Zenon
<1>3. PICK j \in T : \A k \in T : j <= k
  BY <1>2, LeastNat, Zenon
<1>4. IsScanBit(bm, i, j) /\ j \in 0 .. ByteBits
  BY <1>1, <1>3 DEF IsScanBit
<1>5. IsScanBit(bm, i, ScanBit(bm, i))
  BY <1>4 DEF ScanBit
<1>6. ScanBit(bm, i) # ByteBits
  BY <1>1, <1>2, <1>5 DEF IsScanBit, ByteIs255
<1> QED
  BY <1>1, <1>5, <1>6 DEF IsScanBit

(* The scan returns the lowest free offset, and it lies inside the bitmap. *)
LEMMA ScanFindsLowest ==
  ASSUME NEW bm, Consistent(bm), bm.page_allocated_ # bm.next_free_page_
  PROVE  /\ ScannedOffset(bm) \in Nat
         /\ ScannedOffset(bm) < bm.next_free_page_
         /\ ScannedOffset(bm) \notin bm.bytes
         /\ \A o \in Nat : o < ScannedOffset(bm) => o \in bm.bytes
<1> DEFINE a == bm.page_allocated_
           n == bm.next_free_page_
           i == ScanByte(bm)
           j == ScanBit(bm, i)
<1>1. a \in Nat /\ n \in Nat /\ ByteBits \in Nat \ {0}
  BY SizeIsNat, BitmapAssumption DEF Consistent, BitmapType
<1>2. i \in 0 .. a /\ ~ByteIs255(bm, i) /\ \A k \in 0 .. i - 1 : ByteIs255(bm, k)
  BY <1>1, ScanByteFinds DEF IsScanByte
<1>3. i \in Nat
  BY <1>1, <1>2
<1>4. /\ j \in 0 .. ByteBits - 1
      /\ i * ByteBits + j \notin bm.bytes
      /\ \A k \in 0 .. j - 1 : i * ByteBits + k \in bm.bytes
  <2>1. IsScanBit(bm, i, j) /\ j \in 0 .. ByteBits - 1
    BY <1>2, <1>3, ScanBitFinds
  <2> QED
    BY <1>1, <2>1 DEF IsScanBit
<1> HIDE DEF i, j
<1>5. i * ByteBits \in Nat /\ ScannedOffset(bm) = i * ByteBits + j
  BY <1>1, <1>3 DEF ScannedOffset, i, j
<1>6. ASSUME NEW o \in Nat, o < i * ByteBits + j
      PROVE  o \in bm.bytes
  <2>1. PICK q \in 0 .. o, r \in 0 .. ByteBits - 1 : o = q * ByteBits + r
    BY ByteOfOffset
  <2>2. CASE q < i
    <3>1. q \in 0 .. i - 1
      BY <1>3, <2>2
    <3> QED
      BY <1>2, <2>1, <3>1 DEF ByteIs255
  <2>3. CASE q = i
    <3>1. r \in 0 .. j - 1
      BY <1>1, <1>4, <1>5, <1>6, <2>1, <2>3
    <3> QED
      BY <1>4, <2>1, <2>3, <3>1
  <2>4. CASE q > i
    <3>1. q * ByteBits >= i * ByteBits + ByteBits
      BY <1>3, <2>4, LaterByte
    <3>2. q * ByteBits \in Nat
      BY <1>1
    <3> QED
      BY <1>1, <1>4, <1>5, <1>6, <2>1, <3>1, <3>2
  <2> QED
    BY <1>3, <2>2, <2>3, <2>4
<1>7. i * ByteBits + j < n
  <2>1. PICK h \in 0 .. n - 1 : h \notin bm.bytes
    <3>1. bm.bytes # 0 .. n - 1
      <4>1. Cardinality(0 .. n - 1) = IF 0 > n - 1 THEN 0 ELSE (n - 1) - 0 + 1
        BY <1>1, FS_Interval, 0 \in Int, n - 1 \in Int, Zenon
      <4>2. Cardinality(0 .. n - 1) = n
        BY <1>1, <4>1
      <4>3. Cardinality(bm.bytes) # n
        BY DEF Consistent
      <4> QED
        BY <4>2, <4>3
    <3>2. bm.bytes \in SUBSET (0 .. n - 1)
      BY ConsistentBits
    <3> QED
      BY <3>1, <3>2
  <2> QED
    BY <1>1, <1>4, <1>5, <1>6, <2>1
<1> QED
  BY <1>4, <1>5, <1>6, <1>7

(* What AllocatePage hands out, on either of its two branches. *)
LEMMA AllocatedIsLowestFree ==
  ASSUME NEW bm, Consistent(bm), ~IsFull(bm)
  PROVE  /\ AllocatedOffset(bm) \in Offsets
         /\ AllocatedOffset(bm) \notin bm.bytes
         /\ bm.page_allocated_ # bm.next_free_page_
              => AllocatedOffset(bm) < bm.next_free_page_
         /\ \A o \in Offsets : o < AllocatedOffset(bm) => o \in bm.bytes
<1> DEFINE a == bm.page_allocated_
           n == bm.next_free_page_
<1>1. a \in 0 .. BITMAP_SIZE /\ n \in 0 .. BITMAP_SIZE /\ a # BITMAP_SIZE
  BY DEF Consistent, BitmapType, IsFull
<1>2. CASE a = n
  <2>1. bm.bytes = 0 .. n - 1
    BY <1>2, ConsistentBits
  <2>2. AllocatedOffset(bm) = n
    BY <1>2 DEF AllocatedOffset
  <2> QED
    BY <1>1, <1>2, <2>1, <2>2, SizeIsNat DEF Offsets
<1>3. CASE a # n
  <2>1. AllocatedOffset(bm) = ScannedOffset(bm)
    BY <1>3 DEF AllocatedOffset
  <2>2. /\ ScannedOffset(bm) \in Nat
        /\ ScannedOffset(bm) < n
        /\ ScannedOffset(bm) \notin bm.bytes
        /\ \A o \in Nat : o < ScannedOffset(bm) => o \in bm.bytes
    BY <1>3, ScanFindsLowest
  <2>3. ScannedOffset(bm) \in Offsets /\ Offsets \subseteq Nat
    BY <1>1, <2>2, SizeIsNat DEF Offsets
  <2> QED
    BY <2>1, <2>2, <2>3
<1> QED
  BY <1>2, <1>3

(* AllocatePage keeps the counters and the bits in agreement. *)
LEMMA AllocateKeepsConsistent ==
  ASSUME NEW bm, Consistent(bm)
  PROVE  Consistent(AfterAllocate(bm))
<1>1. CASE IsFull(bm)
  BY <1>1 DEF AfterAllocate
<1>2. CASE ~IsFull(bm)
  <2> DEFINE a == bm.page_allocated_
             n == bm.next_free_page_
             off == AllocatedOffset(bm)
             new == AfterAllocate(bm)
  <2>1. /\ off \in Offsets
        /\ off \notin bm.bytes
        /\ a # n => off < n
    BY <1>2, AllocatedIsLowestFree
  <2>2. /\ a \in 0 .. BITMAP_SIZE /\ n \in 0 .. BITMAP_SIZE
        /\ a # BITMAP_SIZE /\ BITMAP_SIZE \in Nat
        /\ bm.bytes \in SUBSET Offsets
    BY <1>2, SizeIsNat DEF Consistent, BitmapType, IsFull
  <2>3. /\ new.page_allocated_ = a + 1
        /\ new.next_free_page_ = IF a = n THEN n + 1 ELSE n
        /\ new.bytes = bm.bytes \cup {off}
        /\ new = [page_allocated_ |-> new.page_allocated_,
                  next_free_page_ |-> new.next_free_page_,
                  bytes           |-> new.bytes]
    BY <1>2 DEF AfterAllocate
  <2>4. new.page_allocated_ = Cardinality(new.bytes)
    <3>1. IsFiniteSet(bm.bytes) /\ a = Cardinality(bm.bytes)
      BY ConsistentBits DEF Consistent
    <3>2. Cardinality(bm.bytes \cup {off}) = Cardinality(bm.bytes) + 1
      BY <2>1, <3>1, FS_AddElement
    <3> QED
      BY <2>3, <3>1, <3>2
  <2>5. new \in BitmapType
    <3>1. /\ new.page_allocated_ \in 0 .. BITMAP_SIZE
          /\ new.next_free_page_ \in 0 .. BITMAP_SIZE
      BY <2>2, <2>3
    <3>2. new.bytes \in SUBSET Offsets
      BY <2>1, <2>2, <2>3
    <3> HIDE DEF new
    <3> QED
      BY <2>3, <3>1, <3>2 DEF BitmapType
  <2>6. \A o \in new.bytes : o < new.next_free_page_
    <3>1. \A o \in bm.bytes : o \in Nat /\ o < n
      BY <2>2 DEF Consistent, Offsets
    <3>2. off < new.next_free_page_
      <4>1. a = n => off = n
        BY DEF AllocatedOffset
      <4> HIDE DEF off, new
      <4> QED
        BY <2>1, <2>2, <2>3, <4>1
    <3>3. n <= new.next_free_page_ /\ n \in Nat /\ new.next_free_page_ \in Nat
      BY <2>2, <2>3
    <3> HIDE DEF off, new
    <3> QED
      BY <2>3, <3>1, <3>2, <3>3
  <2> HIDE DEF new
  <2>7. Consistent(new)
    BY <2>4, <2>5, <2>6 DEF Consistent
  <2> QED
    BY <2>7 DEF new
<1> QED
  BY <1>1, <1>2

(* DeAllocatePage does too, also when it is refused. *)
LEMMA DeAllocateKeepsConsistent ==
  ASSUME NEW bm, Consistent(bm), NEW page_offset
  PROVE  Consistent(AfterDeAllocate(bm, page_offset))
<1>1. CASE IsPageFree(bm, page_offset)
  BY <1>1 DEF AfterDeAllocate
<1>2. CASE ~IsPageFree(bm, page_offset)
  <2> DEFINE new == AfterDeAllocate(bm, page_offset)
  <2>1. page_offset \in bm.bytes /\ bm \in BitmapType
    BY <1>2 DEF IsPageFree, Consistent
  <2>2. /\ new = [page_allocated_ |-> bm.page_allocated_ - 1,
                  next_free_page_ |-> bm.next_free_page_,
                  bytes           |-> bm.bytes \ {page_offset}]
    BY <1>2, <2>1 DEF AfterDeAllocate, BitmapType
  <2>3. /\ IsFiniteSet(bm.bytes)
        /\ bm.page_allocated_ = Cardinality(bm.bytes)
    BY ConsistentBits DEF Consistent
  <2>4. /\ Cardinality(bm.bytes \ {page_offset}) = bm.page_allocated_ - 1
        /\ Cardinality(bm.bytes \ {page_offset}) \in Nat
    BY <2>1, <2>3, FS_RemoveElement, FS_CardinalityType
  <2>5. /\ bm.page_allocated_ \in 0 .. BITMAP_SIZE
        /\ bm.next_free_page_ \in 0 .. BITMAP_SIZE
        /\ bm.bytes \in SUBSET Offsets
        /\ BITMAP_SIZE \in Nat
    BY <2>1, SizeIsNat DEF BitmapType
  <2>6. new \in BitmapType
    BY <2>2, <2>4, <2>5 DEF BitmapType
  <2>7. \A o \in new.bytes : o < new.next_free_page_
    BY <2>2 DEF Consistent
  <2>8. new.page_allocated_ = Cardinality(new.bytes)
    BY <2>2, <2>4
  <2> HIDE DEF new
  <2>9. Consistent(new)
    BY <2>6, <2>7, <2>8 DEF Consistent
  <2> QED
    BY <2>9 DEF new
<1> QED
  BY <1>1, <1>2
-----------------------------------------------------------------------------
(***************************************************************************)
(* The list of the LRU replacer.                                           *)
(***************************************************************************)
NoRepeats(s) == \A i, j \in 1 .. Len(s) : s[i] = s[j] => i = j

(* Every two elements of r stand in the same order in s. *)
InOrderOf(r, s) ==
  \A i, j \in 1 .. Len(r) : i < j =>
    \E k, l \in 1 .. Len(s) : k < l /\ r[i] = s[k] /\ r[j] = s[l]

(* list::remove takes out exactly one frame and keeps the others in order. *)
LEMMA RemoveFrameProperties ==
  ASSUME NEW S, NEW s \in Seq(S), NoRepeats(s), NEW f
  PROVE  /\ RemoveFrame(s, f) \in Seq(S)
         /\ NoRepeats(RemoveFrame(s, f))
         /\ Elements(RemoveFrame(s, f)) = Elements(s) \ {f}
         /\ InOrderOf(RemoveFrame(s, f), s)
<1>1. CASE f \notin Elements(s)
  <2>1. RemoveFrame(s, f) = s
    BY <1>1 DEF RemoveFrame
  <2> QED
    BY <1>1, <2>1 DEF InOrderOf
<1>2. CASE f \in Elements(s)
  <2> DEFINE at == CHOOSE i \in 1 .. Len(s) : s[i] = f
             n == Len(s)
             r == [k \in 1 .. n - 1 |-> IF k < at THEN s[k] ELSE s[k + 1]]
  <2>1. at \in 1 .. n /\ s[at] = f
    BY <1>2 DEF Elements
  <2>2. RemoveFrame(s, f) = r
    BY <1>2 DEF RemoveFrame
  <2> HIDE DEF at
  <2>3. n \in Nat /\ \A i \in 1 .. n : s[i] \in S
    OBVIOUS
  <2>4. r \in Seq(S) /\ Len(r) = n - 1
    <3>1. n - 1 \in Nat
      BY <2>1, <2>3
    <3>2. \A k \in 1 .. n - 1 : (IF k < at THEN s[k] ELSE s[k + 1]) \in S
      BY <2>1, <2>3
    <3> QED
      BY <3>1, <3>2
  <2>5. \A k \in 1 .. n - 1 : r[k] = IF k < at THEN s[k] ELSE s[k + 1]
    OBVIOUS
  <2> HIDE DEF r, n
  <2>6. InOrderOf(r, s)
    <3> SUFFICES ASSUME NEW i \in 1 .. Len(r), NEW j \in 1 .. Len(r), i < j
                 PROVE  \E k, l \in 1 .. Len(s) : k < l /\ r[i] = s[k] /\ r[j] = s[l]
      BY Zenon DEF InOrderOf
    <3>0. i \in 1 .. n - 1 /\ j \in 1 .. n - 1
      BY <2>4
    <3> DEFINE pos(x) == IF x < at THEN x ELSE x + 1
    <3>1. pos(i) \in 1 .. n /\ pos(j) \in 1 .. n /\ pos(i) < pos(j)
      BY <2>1, <2>3, <3>0
    <3>2. r[i] = s[pos(i)] /\ r[j] = s[pos(j)]
      BY <2>5, <3>0
    <3> HIDE DEF pos
    <3> QED
      BY <3>1, <3>2 DEF n
  <2>7. NoRepeats(r)
    <3> SUFFICES ASSUME NEW i \in 1 .. n - 1, NEW j \in 1 .. n - 1, r[i] = r[j]
                 PROVE  i = j
      BY <2>4 DEF NoRepeats
    <3> DEFINE pos(x) == IF x < at THEN x ELSE x + 1
    <3>1. pos(i) \in 1 .. n /\ pos(j) \in 1 .. n
      BY <2>1, <2>3
    <3>2. s[pos(i)] = s[pos(j)]
      BY <2>5
    <3>3. pos(i) = pos(j)
      BY <3>1, <3>2 DEF NoRepeats, n
    <3> QED
      BY <2>1, <2>3, <3>3
  <2>8. Elements(r) = Elements(s) \ {f}
    <3>1. ASSUME NEW k \in 1 .. n - 1
          PROVE  r[k] \in Elements(s) /\ r[k] # f
      <4> DEFINE x == IF k < at THEN k ELSE k + 1
      <4>1. x \in 1 .. n /\ x # at /\ r[k] = s[x]
        BY <2>1, <2>3, <2>5
      <4> QED
        BY <2>1, <4>1 DEF NoRepeats, Elements, n
    <3>2. ASSUME NEW x \in 1 .. n, s[x] # f
          PROVE  \E k \in 1 .. n - 1 : r[k] = s[x]
      <4> DEFINE k == IF x < at THEN x ELSE x - 1
      <4>1. x # at
        BY <2>1, <3>2
      <4>2. k \in 1 .. n - 1 /\ (IF k < at THEN k ELSE k + 1) = x
        BY <2>1, <2>3, <4>1
      <4> QED
        BY <2>5, <4>2
    <3>3. Elements(r) = {r[k] : k \in 1 .. n - 1}
      BY <2>4 DEF Elements
    <3>4. Elements(s) = {s[x] : x \in 1 .. n}
      BY DEF Elements, n
    <3>5. ASSUME NEW e \in Elements(r)
          PROVE  e \in Elements(s) \ {f}
      BY <3>1, <3>3, <3>5
    <3>6. ASSUME NEW e \in Elements(s) \ {f}
          PROVE  e \in Elements(r)
      BY <3>2, <3>3, <3>4, <3>6
    <3> QED
      BY <3>5, <3>6
  <2> QED
    BY <2>2, <2>4, <2>6, <2>7, <2>8
<1> QED
  BY <1>1, <1>2

(* pop_back takes out exactly the last element. *)
LEMMA PopBackProperties ==
  ASSUME NEW S, NEW s \in Seq(S), NoRepeats(s), Len(s) # 0
  PROVE  /\ SubSeq(s, 1, Len(s) - 1) \in Seq(S)
         /\ Len(SubSeq(s, 1, Len(s) - 1)) = Len(s) - 1
         /\ NoRepeats(SubSeq(s, 1, Len(s) - 1))
         /\ s[Len(s)] \in S /\ s[Len(s)] \in Elements(s)
         /\ Elements(SubSeq(s, 1, Len(s) - 1)) = Elements(s) \ {s[Len(s)]}
         /\ InOrderOf(SubSeq(s, 1, Len(s) - 1), s)
<1> DEFINE n == Len(s)
           r == SubSeq(s, 1, n - 1)
<1>1. n \in Nat \ {0} /\ \A i \in 1 .. n : s[i] \in S
  OBVIOUS
<1>2. r \in Seq(S) /\ Len(r) = n - 1 /\ \A i \in 1 .. n - 1 : r[i] = s[i]
  BY <1>1
<1> HIDE DEF r
<1>3. NoRepeats(r) /\ InOrderOf(r, s)
  BY <1>1, <1>2 DEF NoRepeats, InOrderOf
<1>4. s[n] \in S /\ s[n] \in Elements(s)
  BY <1>1 DEF Elements
<1>5. Elements(r) = Elements(s) \ {s[n]}
  <2>1. \A i \in 1 .. n - 1 : i \in 1 .. n /\ s[i] # s[n]
    BY <1>1 DEF NoRepeats
  <2>2. \A i \in 1 .. n : s[i] # s[n] => i \in 1 .. n - 1
    BY <1>1
  <2> QED
    BY <1>2, <2>1, <2>2 DEF Elements
<1> QED
  BY <1>2, <1>3, <1>4, <1>5 DEF r

(* push_front of a new element. *)
LEMMA PushFrontProperties ==
  ASSUME NEW S, NEW s \in Seq(S), NoRepeats(s), NEW f \in S, f \notin Elements(s)
  PROVE  /\ <<f>> \o s \in Seq(S)
         /\ Len(<<f>> \o s) = Len(s) + 1
         /\ \A i \in 1 .. Len(s) + 1 : (<<f>> \o s)[i] = IF i = 1 THEN f ELSE s[i - 1]
         /\ NoRepeats(<<f>> \o s)
         /\ Elements(<<f>> \o s) = Elements(s) \cup {f}
<1> DEFINE r == <<f>> \o s
<1>1. /\ r \in Seq(S) /\ Len(r) = Len(s) + 1 /\ Len(s) \in Nat
      /\ \A i \in 1 .. Len(s) + 1 : r[i] = IF i = 1 THEN f ELSE s[i - 1]
  OBVIOUS
<1> HIDE DEF r
<1>2. \A i \in 1 .. Len(s) : s[i] # f
  BY DEF Elements
<1>3. NoRepeats(r)
  <2> SUFFICES ASSUME NEW i \in 1 .. Len(s) + 1, NEW j \in 1 .. Len(s) + 1, r[i] = r[j]
               PROVE  i = j
    BY <1>1 DEF NoRepeats
  <2>1. CASE i = 1 \/ j = 1
    <3>1. ASSUME NEW k \in 1 .. Len(s) + 1, k # 1
          PROVE  r[k] # f
      <4>1. k - 1 \in 1 .. Len(s) /\ r[k] = s[k - 1]
        BY <1>1, <3>1
      <4> QED
        BY <1>2, <4>1
    <3>2. r[1] = f
      BY <1>1
    <3> QED
      BY <2>1, <3>1, <3>2
  <2>2. CASE i # 1 /\ j # 1
    <3>1. i - 1 \in 1 .. Len(s) /\ j - 1 \in 1 .. Len(s) /\ s[i - 1] = s[j - 1]
      BY <1>1, <2>2
    <3>2. i - 1 = j - 1
      BY <3>1 DEF NoRepeats
    <3>3. i \in Int /\ j \in Int
      BY <1>1
    <3> QED
      BY <3>2, <3>3
  <2> QED
    BY <2>1, <2>2
<1>4. Elements(r) = Elements(s) \cup {f}
  <2>1. \A i \in 1 .. Len(s) + 1 : i = 1 \/ i - 1 \in 1 .. Len(s)
    BY <1>1
  <2>2. 1 \in 1 .. Len(s) + 1 /\ \A i \in 1 .. Len(s) : i + 1 \in 1 .. Len(s) + 1 /\ r[i + 1] = s[i]
    BY <1>1
  <2>3. r[1] = f
    BY <1>1
  <2>4. ASSUME NEW e \in Elements(r)
        PROVE  e \in Elements(s) \cup {f}
    <3>1. PICK i \in 1 .. Len(s) + 1 : e = r[i]
      BY <1>1, <2>4 DEF Elements
    <3> QED
      BY <1>1, <2>1, <3>1 DEF Elements
  <2>5. ASSUME NEW e \in Elements(s) \cup {f}
        PROVE  e \in Elements(r)
    BY <1>1, <2>2, <2>3, <2>5 DEF Elements
  <2> QED
    BY <2>4, <2>5
<1> QED
  BY <1>1, <1>3, <1>4 DEF r

(* push_back of a new element. *)
LEMMA PushBackProperties ==
  ASSUME NEW S, NEW s \in Seq(S), NoRepeats(s), NEW f \in S, f \notin Elements(s)
  PROVE  /\ Append(s, f) \in Seq(S)
         /\ NoRepeats(Append(s, f))
         /\ Elements(Append(s, f)) = Elements(s) \cup {f}
<1> DEFINE r == Append(s, f)
<1>1. /\ r \in Seq(S) /\ Len(r) = Len(s) + 1 /\ Len(s) \in Nat
      /\ \A i \in 1 .. Len(s) + 1 : r[i] = IF i = Len(s) + 1 THEN f ELSE s[i]
  OBVIOUS
<1> HIDE DEF r
<1>2. \A i \in 1 .. Len(s) : s[i] # f
  BY DEF Elements
<1>3. NoRepeats(r)
  BY <1>1, <1>2 DEF NoRepeats
<1>4. Elements(r) = Elements(s) \cup {f}
  <2>1. \A i \in 1 .. Len(s) + 1 : i = Len(s) + 1 \/ i \in 1 .. Len(s)
    BY <1>1
  <2>2. \A i \in 1 .. Len(s) : i \in 1 .. Len(s) + 1 /\ r[i] = s[i]
    BY <1>1
  <2>3. Len(s) + 1 \in 1 .. Len(s) + 1 /\ r[Len(s) + 1] = f
    BY <1>1
  <2> QED
    BY <1>1, <2>1, <2>2, <2>3 DEF Elements
<1> QED
  BY <1>1, <1>3, <1>4 DEF r

(* A replacer whose list repeats no frame and agrees with its index.       *)
LruType == [lru_list_ : Seq(Frames), lruList : SUBSET Frames, buffer : SUBSET Frames]

Listed(lru) ==
  /\ lru \in LruType
  /\ NoRepeats(lru.lru_list_)
  /\ lru.lruList = Elements(lru.lru_list_)
  /\ lru.lruList \subseteq lru.buffer

(* A replacer that was just constructed holds nothing. *)
LEMMA EmptyLruListed == Listed(EmptyLru) /\ Elements(EmptyLru.lru_list_) = {}
<1>1. EmptyLru \in LruType /\ Len(EmptyLru.lru_list_) = 0
  BY DEF EmptyLru, LruType
<1>2. 1 .. 0 = {}
  OBVIOUS
<1> QED
  BY <1>1, <1>2 DEF Listed, NoRepeats, Elements, EmptyLru

(* Victim takes the last frame out of all three containers. *)
LEMMA VictimKeepsListed ==
  ASSUME NEW lru, Listed(lru), Size(lru) # 0
  PROVE  /\ Listed(AfterVictim(lru))
         /\ VictimFrame(lru) \in lru.lruList
         /\ VictimFrame(lru) \in Frames
         /\ AfterVictim(lru).lruList = lru.lruList \ {VictimFrame(lru)}
         /\ InOrderOf(AfterVictim(lru).lru_list_, lru.lru_list_)
<1> DEFINE s == lru.lru_list_
           new == AfterVictim(lru)
<1>1. /\ s \in Seq(Frames) /\ lru.lruList \subseteq Frames /\ lru.buffer \subseteq Frames
      /\ NoRepeats(s) /\ Len(s) # 0
      /\ lru.lruList = Elements(s) /\ lru.lruList \subseteq lru.buffer
  BY DEF Listed, LruType, Size
<1>2. /\ new = [lru_list_ |-> new.lru_list_, lruList |-> new.lruList, buffer |-> new.buffer]
      /\ new.lru_list_ = SubSeq(s, 1, Len(s) - 1)
      /\ new.lruList = lru.lruList \ {VictimFrame(lru)}
      /\ new.buffer = lru.buffer \ {VictimFrame(lru)}
  BY DEF AfterVictim
<1>3. VictimFrame(lru) = s[Len(s)]
  BY DEF VictimFrame
<1>4. /\ SubSeq(s, 1, Len(s) - 1) \in Seq(Frames)
      /\ NoRepeats(SubSeq(s, 1, Len(s) - 1))
      /\ s[Len(s)] \in Frames /\ s[Len(s)] \in Elements(s)
      /\ Elements(SubSeq(s, 1, Len(s) - 1)) = Elements(s) \ {s[Len(s)]}
      /\ InOrderOf(SubSeq(s, 1, Len(s) - 1), s)
  BY <1>1, PopBackProperties
<1> HIDE DEF s, new
<1>5. Listed(new)
  BY <1>1, <1>2, <1>3, <1>4 DEF Listed, LruType
<1> QED
  BY <1>1, <1>2, <1>3, <1>4, <1>5 DEF new, s

(* Pin takes the frame out of the list and its index. *)
LEMMA PinKeepsListed ==
  ASSUME NEW lru, Listed(lru), NEW f \in Frames
  PROVE  /\ Listed(AfterPin(lru, f))
         /\ AfterPin(lru, f).lruList = lru.lruList \ {f}
         /\ InOrderOf(AfterPin(lru, f).lru_list_, lru.lru_list_)
<1> DEFINE s == lru.lru_list_
           new == AfterPin(lru, f)
<1>1. /\ s \in Seq(Frames) /\ lru.lruList \subseteq Frames /\ lru.buffer \subseteq Frames
      /\ NoRepeats(s)
      /\ lru.lruList = Elements(s) /\ lru.lruList \subseteq lru.buffer
  BY DEF Listed, LruType
<1>2. /\ new = [lru_list_ |-> new.lru_list_, lruList |-> new.lruList, buffer |-> new.buffer]
      /\ new.lru_list_ = RemoveFrame(s, f)
      /\ new.lruList = lru.lruList \ {f}
      /\ new.buffer = lru.buffer
  BY DEF AfterPin
<1>3. /\ RemoveFrame(s, f) \in Seq(Frames)
      /\ NoRepeats(RemoveFrame(s, f))
      /\ Elements(RemoveFrame(s, f)) = Elements(s) \ {f}
      /\ InOrderOf(RemoveFrame(s, f), s)
  BY <1>1, RemoveFrameProperties
<1> HIDE DEF s, new
<1>4. Listed(new)
  BY <1>1, <1>2, <1>3 DEF Listed, LruType
<1> QED
  BY <1>2, <1>3, <1>4 DEF new, s

(* Unpin puts a frame that is not listed at the front, and leaves the list *)
(* alone otherwise.                                                        *)
LEMMA UnpinKeepsListed ==
  ASSUME NEW lru, Listed(lru), NEW f \in Frames
  PROVE  /\ Listed(AfterUnpin(lru, f))
         /\ AfterUnpin(lru, f).lruList = lru.lruList \cup {f}
         /\ f \in lru.lruList => AfterUnpin(lru, f) = lru
         /\ f \notin lru.lruList => AfterUnpin(lru, f).lru_list_ = <<f>> \o lru.lru_list_
<1> DEFINE s == lru.lru_list_
           new == AfterUnpin(lru, f)
<1>1. /\ s \in Seq(Frames) /\ lru.lruList \subseteq Frames /\ lru.buffer \subseteq Frames
      /\ NoRepeats(s)
      /\ lru.lruList = Elements(s) /\ lru.lruList \subseteq lru.buffer
  BY DEF Listed, LruType
<1>2. CASE f \in lru.lruList
  <2>1. new = lru
    BY <1>1, <1>2 DEF AfterUnpin
  <2> HIDE DEF new
  <2>2. Listed(new) /\ new.lruList = lru.lruList \cup {f} /\ new = lru
    BY <1>2, <2>1
  <2> QED
    BY <1>2, <2>2 DEF new
<1>3. CASE f \notin lru.lruList
  <2>1. /\ new = [lru_list_ |-> new.lru_list_, lruList |-> new.lruList, buffer |-> new.buffer]
        /\ new.lru_list_ = <<f>> \o s
        /\ new.lruList = lru.lruList \cup {f}
        /\ new.buffer = lru.buffer \cup {f}
    BY <1>3 DEF AfterUnpin
  <2>2. /\ <<f>> \o s \in Seq(Frames)
        /\ NoRepeats(<<f>> \o s)
        /\ Elements(<<f>> \o s) = Elements(s) \cup {f}
    BY <1>1, <1>3, PushFrontProperties
  <2> HIDE DEF s, new
  <2>3. Listed(new)
    BY <1>1, <2>1, <2>2 DEF Listed, LruType
  <2> QED
    BY <1>3, <2>1, <2>3 DEF new, s
<1> QED
  BY <1>2, <1>3
=============================================================================
