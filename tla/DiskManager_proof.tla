-------------------------- MODULE DiskManager_proof --------------------------
(***************************************************************************)
(* For every size of the bitmap, every number of extents and every page    *)
(* content: the bitmaps on disk and the counters in memory agree for       *)
(* careful clients, restarts and releases after a restart included, and    *)
(* for clients that only allocate, in every extent; and nobody writes over *)
(* a page that a careful client wrote.  Clients of the third kind are left *)
(* out because AllocatePage fails them (see the runs of DiskManager).      *)
(***************************************************************************)
EXTENDS DiskManager, StorageFacts

(* The bitmap of every extent is well formed and says which of its pages   *)
(* are held.                                                               *)
BitmapsMark ==
  \A e \in Extents :
    /\ Consistent(BitmapOf(e))
    /\ \A o \in Offsets : o \in BitmapOf(e).bytes <=> e * BITMAP_SIZE + o \in held

(* Careful clients never hold the last page of the first extent, in whose  *)
(* place the second bitmap is.                                             *)
CarefulClients ==
  /\ held \subseteq 0 .. BITMAP_SIZE - 2
  /\ missed < BITMAP_SIZE

(* Appending clients hold the first pages and have written nothing.        *)
AppendingClients ==
  /\ held = 0 .. Cardinality(held) - 1
  /\ missed = 0
  /\ \A p \in LogicalPages : written[p] = NotWritten

(* The inductive invariant.                                                *)
OrderlyInv ==
  /\ TypeOK
  /\ ~failed
  /\ file[META_PAGE_ID] = ZeroPage
  /\ BitmapsMark
  /\ MetaCountsPages
  /\ EveryReadsLastWrite
  /\ client = "careful" => CarefulClients
  /\ client = "appending" => AppendingClients

IInv == Orderly => OrderlyInv
-----------------------------------------------------------------------------
(* The sizes, and that an extent is no larger than the file. *)
LEMMA Sizes ==
  /\ BITMAP_SIZE \in Nat \ {0} /\ MaxExtents \in Nat \ {0} /\ Word \in Nat
  /\ MaxExtents * BITMAP_SIZE \in Nat /\ MaxExtents * BITMAP_SIZE >= BITMAP_SIZE
  /\ Word >= 2 * (MaxExtents * BITMAP_SIZE)
  /\ (BITMAP_SIZE + 1) * MaxExtents = MaxExtents * BITMAP_SIZE + MaxExtents
<1>1. PICK B \in Nat \ {0} : B = BITMAP_SIZE
  BY SizeIsNat
<1>2. PICK M \in Nat \ {0} : M = MaxExtents
  BY DiskAssumption
<1>3. PICK k \in Nat : M = k + 1
  <2>1. M - 1 \in Nat
    OBVIOUS
  <2> WITNESS M - 1 \in Nat
  <2> QED
    OBVIOUS
<1>4. M * B = k * B + B /\ k * B \in Nat /\ (B + 1) * M = M * B + M
  BY <1>3
<1>5. M * B \in Nat /\ M * B >= B
  BY <1>4
<1> QED
  BY <1>1, <1>2, <1>4, <1>5, DiskAssumption

(* Division with remainder. *)
LEMMA DivMod ==
  ASSUME NEW a \in Nat, NEW b \in Nat \ {0}
  PROVE  /\ a \div b \in Nat /\ a % b \in 0 .. b - 1
         /\ a = (a \div b) * b + (a % b)
<1>1. /\ a \div b \in Nat /\ a % b \in 0 .. b - 1
      /\ a = b * (a \div b) + (a % b)
  OBVIOUS
<1>2. \A q \in Nat : b * q = q * b
  OBVIOUS
<1> QED
  BY <1>1, <1>2

(* The multiples of a positive number are that far apart. *)
LEMMA Apart ==
  ASSUME NEW b \in Nat \ {0}, NEW q \in Nat, NEW k \in Nat, q < k
  PROVE  q * b \in Nat /\ k * b \in Nat /\ q * b + b <= k * b
<1>1. PICK d \in Nat : k = q + 1 + d
  <2>1. k - q - 1 \in Nat
    OBVIOUS
  <2> WITNESS k - q - 1 \in Nat
  <2> QED
    OBVIOUS
<1>2. k * b = q * b + b + d * b /\ d * b \in Nat /\ q * b \in Nat /\ k * b \in Nat
  BY <1>1
<1> QED
  BY <1>2

(* A page and its place in an extent determine each other. *)
LEMMA PlaceInExtent ==
  ASSUME NEW e \in Extents, NEW o \in Offsets
  PROVE  /\ e * BITMAP_SIZE + o \in LogicalPages
         /\ \A f \in Extents, k \in Offsets :
              e * BITMAP_SIZE + o = f * BITMAP_SIZE + k => e = f /\ o = k
<1>1. PICK B \in Nat \ {0} : B = BITMAP_SIZE
  BY Sizes
<1>2. PICK M \in Nat \ {0} : M = MaxExtents
  BY Sizes
<1>3. /\ Extents = 0 .. M - 1 /\ Offsets = 0 .. B - 1 /\ LogicalPages = 0 .. M * B - 1
      /\ e \in Nat /\ o \in Nat /\ o < B /\ e < M
  BY <1>1, <1>2 DEF Extents, Offsets, LogicalPages
<1>4. e * B \in Nat /\ M * B \in Nat /\ e * B + B <= M * B
  BY <1>3, Apart
<1>5. e * B + o \in LogicalPages
  BY <1>3, <1>4
<1>6. ASSUME NEW f \in Extents, NEW k \in Offsets, e * B + o = f * B + k
      PROVE  e = f /\ o = k
  <2>1. f \in Nat /\ k \in Nat /\ k < B
    BY <1>3
  <2>2. CASE e < f
    <3>1. e * B + B <= f * B /\ f * B \in Nat
      BY <1>3, <2>1, <2>2, Apart
    <3> QED
      BY <1>3, <1>4, <1>6, <2>1, <3>1
  <2>3. CASE f < e
    <3>1. f * B + B <= e * B /\ f * B \in Nat
      BY <1>3, <2>1, <2>3, Apart
    <3> QED
      BY <1>3, <1>4, <1>6, <2>1, <3>1
  <2>4. CASE e = f
    BY <1>3, <1>4, <1>6, <2>1, <2>4
  <2> QED
    BY <1>3, <2>1, <2>2, <2>3, <2>4
<1> QED
  BY <1>1, <1>5, <1>6

(* Every page has its place in an extent. *)
LEMMA ExtentOfPage ==
  ASSUME NEW p \in LogicalPages
  PROVE  /\ p \div BITMAP_SIZE \in Extents /\ p % BITMAP_SIZE \in Offsets
         /\ p = (p \div BITMAP_SIZE) * BITMAP_SIZE + (p % BITMAP_SIZE)
         /\ p \in Nat
<1>1. PICK B \in Nat \ {0} : B = BITMAP_SIZE
  BY Sizes
<1>2. PICK M \in Nat \ {0} : M = MaxExtents
  BY Sizes
<1>3. /\ Extents = 0 .. M - 1 /\ Offsets = 0 .. B - 1 /\ M * B \in Nat
      /\ p \in Nat /\ p < M * B
  BY <1>1, <1>2 DEF Extents, Offsets, LogicalPages
<1> DEFINE q == p \div B
           r == p % B
<1>4. q \in Nat /\ r \in 0 .. B - 1 /\ p = q * B + r
  BY <1>3, DivMod
<1> HIDE DEF q, r
<1>5. q < M
  <2> SUFFICES ASSUME q > M \/ q = M PROVE FALSE
    BY <1>4
  <2>1. CASE q > M
    <3>1. M * B + B <= q * B /\ q * B \in Nat
      BY <1>4, <2>1, Apart
    <3> QED
      BY <1>3, <1>4, <3>1
  <2>2. CASE q = M
    BY <1>3, <1>4, <2>2
  <2> QED
    BY <2>1, <2>2
<1> QED
  BY <1>1, <1>3, <1>4, <1>5 DEF q, r

(* Where the bitmaps are looked for: each in a page of its own. *)
LEMMA BitmapPlaces ==
  /\ 0 \in Extents /\ BitmapPhysicalPage(0) = 1 /\ 0 \in PhysicalPages
  /\ \A e \in Extents : /\ BitmapPhysicalPage(e) \in PhysicalPages
                        /\ BitmapPhysicalPage(e) # 0
                        /\ e # 0 => BitmapPhysicalPage(e) > BITMAP_SIZE
  /\ \A e, f \in Extents : BitmapPhysicalPage(e) = BitmapPhysicalPage(f) => e = f
<1>1. PICK B \in Nat \ {0} : B = BITMAP_SIZE
  BY Sizes
<1>2. PICK M \in Nat \ {0} : M = MaxExtents
  BY Sizes
<1>3. /\ PhysicalPages = 0 .. M * B + M /\ M * B \in Nat /\ Extents = 0 .. M - 1
      /\ Offsets = 0 .. B - 1 /\ 0 \in Extents /\ 0 \in Offsets
      /\ \A e \in Extents : BitmapPhysicalPage(e) = e * B + 1
  BY <1>1, <1>2, Sizes DEF PhysicalPages, Extents, BitmapPhysicalPage, Offsets
<1>4. ASSUME NEW e \in Extents
      PROVE  /\ BitmapPhysicalPage(e) \in PhysicalPages
             /\ BitmapPhysicalPage(e) # 0
             /\ e # 0 => BitmapPhysicalPage(e) > B
  <2>1. e \in Nat /\ e < M
    BY <1>3
  <2>2. e * B \in Nat /\ e * B + B <= M * B
    BY <2>1, Apart
  <2>3. e # 0 => B <= e * B
    <3>1. e # 0 => 0 < e
      BY <2>1
    <3>2. 0 * B = 0
      OBVIOUS
    <3> QED
      BY <2>1, <3>1, <3>2, Apart
  <2> QED
    BY <1>3, <2>2, <2>3
<1>5. ASSUME NEW e \in Extents, NEW f \in Extents, BitmapPhysicalPage(e) = BitmapPhysicalPage(f)
      PROVE  e = f
  <2>1. e \in Nat /\ f \in Nat /\ e * B \in Nat /\ f * B \in Nat
    BY <1>3
  <2>2. e * B = f * B
    BY <1>3, <1>5, <2>1
  <2>3. e * BITMAP_SIZE + 0 = f * BITMAP_SIZE + 0
    BY <1>1, <2>2
  <2> QED
    BY <1>3, <2>3, PlaceInExtent
<1>6. BitmapPhysicalPage(0) = 1 /\ 0 \in PhysicalPages
  BY <1>3
<1> QED
  BY <1>1, <1>3, <1>4, <1>5, <1>6

(* Where a page of the first extent is found. *)
LEMMA FirstExtent ==
  ASSUME NEW p \in 0 .. BITMAP_SIZE - 1
  PROVE  /\ p \div BITMAP_SIZE = 0 /\ p % BITMAP_SIZE = p
         /\ p \in LogicalPages /\ p + 2 \in PhysicalPages
         /\ MapPageId(p) = p + 2
<1>1. PICK B \in Nat \ {0} : B = BITMAP_SIZE
  BY Sizes
<1>2. p \in 0 .. B - 1 /\ p \div B = 0 /\ p % B = p
  BY <1>1
<1>3. /\ LogicalPages = 0 .. MaxExtents * BITMAP_SIZE - 1
      /\ PhysicalPages = 0 .. MaxExtents * BITMAP_SIZE + MaxExtents
  BY Sizes DEF LogicalPages, PhysicalPages
<1>4. p \in LogicalPages /\ p + 2 \in PhysicalPages
  BY <1>1, <1>2, <1>3, Sizes
<1>5. MapPageId(p) = (B + 1) * (p \div B) + (p % B) + 2
  BY <1>1 DEF MapPageId
<1>6. MapPageId(p) = p + 2
  BY <1>2, <1>5
<1> QED
  BY <1>1, <1>2, <1>4, <1>6

(* uint32_t arithmetic: an increment that does not wrap, and a decrement.  *)
LEMMA WordArithmetic ==
  ASSUME NEW W \in Nat, NEW n \in 0 .. W - 1
  PROVE  /\ n + 1 < W => (n + 1) % W = n + 1
         /\ (n + W - 1) % W = IF n = 0 THEN W - 1 ELSE n - 1
<1>1. W \in Nat \ {0} /\ n \in Nat
  OBVIOUS
<1>2. n + 1 < W => (n + 1) % W = n + 1
  BY <1>1
<1>3. n = 0 => (n + W - 1) % W = W - 1
  BY <1>1
<1>4. ASSUME n # 0
      PROVE  (n + W - 1) % W = n - 1
  <2> DEFINE a == n + W - 1
             q == a \div W
             r == a % W
  <2>1. a \in Nat /\ q \in Nat /\ r \in 0 .. W - 1 /\ a = q * W + r
    BY <1>1, DivMod
  <2> HIDE DEF q, r
  <2>2. CASE q = 0
    BY <1>1, <1>4, <2>1, <2>2
  <2>3. CASE q = 1
    BY <1>1, <1>4, <2>1, <2>3 DEF r
  <2>4. CASE q > 1
    <3>1. 1 * W + W <= q * W
      BY <1>1, <2>1, <2>4, Apart
    <3> QED
      BY <1>1, <1>4, <2>1, <3>1
  <2> QED
    BY <2>1, <2>2, <2>3, <2>4
<1> QED
  BY <1>2, <1>3, <1>4
-----------------------------------------------------------------------------
(* What the invariant says about the held pages and the counters. *)
LEMMA HeldFacts ==
  ASSUME OrderlyInv
  PROVE  /\ IsFiniteSet(held) /\ Cardinality(held) \in Nat
         /\ missed \in Nat /\ Balance \in Int
         /\ meta.num_allocated_pages_ \in 0 .. Word - 1
         /\ client = "careful" =>
              /\ Cardinality(held) < BITMAP_SIZE /\ missed < BITMAP_SIZE
              /\ \A p \in held : /\ p \in Nat /\ p + 2 <= BITMAP_SIZE
                                /\ p \in Offsets /\ p \in LogicalPages
                                /\ p \div BITMAP_SIZE = 0 /\ p % BITMAP_SIZE = p
                                /\ MapPageId(p) = p + 2 /\ p + 2 \in PhysicalPages
<1>1. BITMAP_SIZE \in Nat \ {0} /\ MaxExtents * BITMAP_SIZE \in Nat
  BY Sizes
<1>2. IsFiniteSet(held) /\ Cardinality(held) \in Nat
  <2>1. held \in SUBSET (0 .. MaxExtents * BITMAP_SIZE - 1)
    BY DEF OrderlyInv, TypeOK, LogicalPages
  <2>2. IsFiniteSet(0 .. MaxExtents * BITMAP_SIZE - 1)
    <3>1. MaxExtents * BITMAP_SIZE - 1 \in Int /\ 0 \in Int
      BY <1>1
    <3> QED
      BY <3>1, FS_Interval, Zenon
  <2>3. IsFiniteSet(held)
    BY <2>1, <2>2, FS_Subset, Zenon
  <2> QED
    BY <2>3, FS_CardinalityType
<1>3. missed \in Nat /\ meta.num_allocated_pages_ \in 0 .. Word - 1
  BY DEF OrderlyInv, TypeOK
<1>4. Balance \in Int
  BY <1>2, <1>3 DEF Balance
<1>5. ASSUME client = "careful"
      PROVE  /\ Cardinality(held) < BITMAP_SIZE /\ missed < BITMAP_SIZE
             /\ \A p \in held : /\ p \in Nat /\ p + 2 <= BITMAP_SIZE
                                /\ p \in Offsets /\ p \in LogicalPages
                                /\ p \div BITMAP_SIZE = 0 /\ p % BITMAP_SIZE = p
                                /\ MapPageId(p) = p + 2 /\ p + 2 \in PhysicalPages
  <2>1. held \in SUBSET (0 .. BITMAP_SIZE - 2) /\ missed < BITMAP_SIZE
    BY <1>5 DEF OrderlyInv, CarefulClients
  <2>2. /\ IsFiniteSet(0 .. BITMAP_SIZE - 2)
        /\ Cardinality(0 .. BITMAP_SIZE - 2)
             = IF 0 > BITMAP_SIZE - 2 THEN 0 ELSE (BITMAP_SIZE - 2) - 0 + 1
    <3>1. BITMAP_SIZE - 2 \in Int /\ 0 \in Int
      BY <1>1
    <3> QED
      BY <3>1, FS_Interval, Zenon
  <2>3. Cardinality(held) <= Cardinality(0 .. BITMAP_SIZE - 2)
    BY <2>1, <2>2, FS_Subset, Zenon
  <2>4. Cardinality(held) < BITMAP_SIZE
    BY <1>1, <1>2, <2>2, <2>3
  <2>5. \A p \in held : p \in Nat /\ p + 2 <= BITMAP_SIZE /\ p \in 0 .. BITMAP_SIZE - 1
    BY <1>1, <2>1
  <2>6. \A p \in held : /\ p \in LogicalPages /\ p \div BITMAP_SIZE = 0
                       /\ p % BITMAP_SIZE = p
                       /\ MapPageId(p) = p + 2 /\ p + 2 \in PhysicalPages
    BY <2>5, FirstExtent
  <2> QED
    BY <2>1, <2>4, <2>5, <2>6 DEF Offsets
<1> QED
  BY <1>2, <1>3, <1>4, <1>5

(* The bitmap of an extent is read back as it was written; the other       *)
(* bitmaps and the meta page stay.                                         *)
LEMMA BitmapStored ==
  ASSUME OrderlyInv, NEW e \in Extents, NEW bm \in BitmapType,
         WritePhysicalPage(BitmapPhysicalPage(e), bm), failed' = failed
  PROVE  /\ BitmapOf(e)' = bm
         /\ \A f \in Extents : f # e => BitmapOf(f)' = BitmapOf(f)
         /\ file' = [file EXCEPT ![BitmapPhysicalPage(e)] = bm]
         /\ file' \in [PhysicalPages -> Data \cup BitmapType]
         /\ file'[META_PAGE_ID] = ZeroPage
<1>1. /\ file \in [PhysicalPages -> Data \cup BitmapType]
      /\ failed = FALSE /\ failed' = FALSE /\ file[0] = ZeroPage
  BY DEF OrderlyInv, TypeOK, META_PAGE_ID
<1>2. file' = [file EXCEPT ![BitmapPhysicalPage(e)] = bm]
  BY <1>1 DEF WritePhysicalPage
<1>3. bm \notin Data
  BY DiskAssumption
<1>4. \A f \in Extents : /\ BitmapOf(f) = AsBitmap(file[BitmapPhysicalPage(f)])
                         /\ BitmapOf(f)' = AsBitmap(file'[BitmapPhysicalPage(f)])
  BY <1>1 DEF BitmapOf, ReadPhysicalPage, BitmapPhysicalPage
<1>5. BitmapPhysicalPage(e) \in PhysicalPages /\ BitmapPhysicalPage(e) # 0
  BY BitmapPlaces
<1>6. BitmapOf(e)' = bm
  BY <1>1, <1>2, <1>3, <1>4, <1>5 DEF AsBitmap
<1>7. ASSUME NEW f \in Extents, f # e
      PROVE  BitmapOf(f)' = BitmapOf(f)
  <2>1. BitmapPhysicalPage(f) # BitmapPhysicalPage(e)
    BY <1>7, BitmapPlaces
  <2> QED
    BY <1>1, <1>2, <1>4, <2>1, BitmapPlaces
<1>8. /\ file' \in [PhysicalPages -> Data \cup BitmapType]
      /\ file'[META_PAGE_ID] = ZeroPage
  BY <1>1, <1>2, <1>5, BitmapPlaces DEF META_PAGE_ID
<1> QED
  BY <1>2, <1>6, <1>7, <1>8

(* With MayAllocate, a careful client's allocation is in the first extent  *)
(* and not its last page.                                                  *)
LEMMA CarefulAllocation ==
  ASSUME OrderlyInv, client = "careful", MayAllocate
  PROVE  /\ meta.num_allocated_pages_ \div BITMAP_SIZE = 0
         /\ meta.num_allocated_pages_ + 1 < Word
         /\ ~IsFull(BitmapOf(0))
         /\ AllocatedOffset(BitmapOf(0)) \in 0 .. BITMAP_SIZE - 2
         /\ AllocatedOffset(BitmapOf(0)) \notin held
<1> DEFINE bm == BitmapOf(0)
           off == AllocatedOffset(bm)
           n == Cardinality(held)
<1>1. /\ BITMAP_SIZE \in Nat \ {0} /\ n \in Nat /\ missed \in Nat /\ IsFiniteSet(held)
      /\ n + 1 < BITMAP_SIZE /\ n - missed >= 0
      /\ meta.num_allocated_pages_ = n - missed
  BY Sizes, HeldFacts DEF MayAllocate, OrderlyInv, MetaCountsPages, Balance
<1>2. meta.num_allocated_pages_ \in 0 .. BITMAP_SIZE - 1
  BY <1>1
<1>3. meta.num_allocated_pages_ \div BITMAP_SIZE = 0
  BY <1>2, FirstExtent
<1>4. meta.num_allocated_pages_ + 1 < Word
  BY <1>1, Sizes
<1>5. Consistent(bm) /\ bm.bytes = held
  <2>1. /\ Consistent(bm) /\ 0 * BITMAP_SIZE = 0
        /\ \A o \in Offsets : o \in bm.bytes <=> 0 * BITMAP_SIZE + o \in held
    BY BitmapPlaces, <1>1 DEF OrderlyInv, BitmapsMark
  <2>2. \A o \in Offsets : o \in bm.bytes <=> o \in held
    BY <1>1, <2>1 DEF Offsets
  <2>3. bm.bytes \subseteq Offsets /\ held \subseteq Offsets
    BY <2>1, HeldFacts DEF Consistent, BitmapType
  <2> QED
    BY <2>1, <2>2, <2>3
<1>6. ~IsFull(bm)
  BY <1>1, <1>5 DEF IsFull, Consistent
<1>7. off \in Offsets /\ off \notin held /\ \A o \in Offsets : o < off => o \in held
  BY <1>5, <1>6, AllocatedIsLowestFree
<1> HIDE DEF off, bm, n
<1>8. off \in Nat /\ off < BITMAP_SIZE
  BY <1>1, <1>7 DEF Offsets
<1>9. off <= n
  <2>1. 0 .. off - 1 \in SUBSET held
    BY <1>1, <1>7, <1>8 DEF Offsets
  <2>2. Cardinality(0 .. off - 1) <= n
    BY <1>1, <2>1, FS_Subset, Zenon DEF n
  <2>3. Cardinality(0 .. off - 1) = IF 0 > off - 1 THEN 0 ELSE (off - 1) - 0 + 1
    <3>1. off - 1 \in Int /\ 0 \in Int
      BY <1>8
    <3> QED
      BY <3>1, FS_Interval, Zenon
  <2> QED
    BY <1>8, <2>2, <2>3
<1> QED
  BY <1>1, <1>3, <1>4, <1>6, <1>7, <1>8, <1>9 DEF off, bm

(* An appending client gets the page after the ones it has: the extent     *)
(* that the count selects is the one with room.                            *)
LEMMA AppendingAllocation ==
  ASSUME OrderlyInv, client = "appending", MayAllocate,
         NEW e, e = meta.num_allocated_pages_ \div BITMAP_SIZE
  PROVE  /\ e \in Extents
         /\ meta.num_allocated_pages_ + 1 < Word
         /\ ~IsFull(BitmapOf(e))
         /\ AllocatedOffset(BitmapOf(e)) \in Offsets
         /\ AllocatedOffset(BitmapOf(e)) + e * BITMAP_SIZE = Cardinality(held)
<1> DEFINE n == Cardinality(held)
           r == n % BITMAP_SIZE
           bm == BitmapOf(e)
           off == AllocatedOffset(bm)
<1>1. /\ BITMAP_SIZE \in Nat \ {0} /\ n \in Nat /\ held = 0 .. n - 1
      /\ meta.num_allocated_pages_ = n
  BY Sizes, HeldFacts DEF OrderlyInv, AppendingClients, MetaCountsPages, Balance
<1>2. n \in LogicalPages /\ n + 1 < Word
  <2>1. client \in DOMAIN Operations
    BY DEF OrderlyInv, TypeOK
  <2>2. MaxPages[client] \in 0 .. MaxExtents * BITMAP_SIZE
    BY <2>1, DiskAssumption
  <2>3. n < MaxPages[client]
    BY DEF MayAllocate
  <2> QED
    BY <1>1, <2>2, <2>3, Sizes DEF LogicalPages
<1>3. e \in Extents /\ r \in Offsets /\ n = e * BITMAP_SIZE + r
  BY <1>1, <1>2, ExtentOfPage
<1> HIDE DEF r, n
<1>4. /\ Consistent(bm)
      /\ \A o \in Offsets : o \in bm.bytes <=> e * BITMAP_SIZE + o \in held
  BY <1>3 DEF OrderlyInv, BitmapsMark
<1>5. PICK k \in Nat : k = e * BITMAP_SIZE
  BY <1>1, <1>3, Sizes DEF Extents
<1> HIDE DEF bm
<1>6. r \in Nat /\ n = k + r /\ \A o \in Offsets : o \in Nat
  BY <1>1, <1>3, <1>5 DEF Offsets
<1>7. \A o \in Offsets : o \in bm.bytes <=> o < r
  <2> TAKE o \in Offsets
  <2>1. o \in bm.bytes <=> k + o \in 0 .. n - 1
    BY <1>1, <1>4, <1>5
  <2> QED
    BY <1>6, <2>1
<1>8. r \notin bm.bytes
  BY <1>3, <1>6, <1>7
<1>9. ~IsFull(bm)
  BY <1>3, <1>4, <1>8, ConsistentBits DEF IsFull
<1>10. off \in Offsets /\ off \notin bm.bytes /\ \A o \in Offsets : o < off => o \in bm.bytes
  BY <1>4, <1>9, AllocatedIsLowestFree
<1> HIDE DEF off
<1>11. off = r
  BY <1>3, <1>6, <1>7, <1>10, <1>8
<1>12. off + e * BITMAP_SIZE = n
  BY <1>5, <1>6, <1>11
<1> QED
  BY <1>1, <1>2, <1>3, <1>9, <1>10, <1>12 DEF off, bm, n
-----------------------------------------------------------------------------
(* AllocatePage as it runs for orderly clients: in an extent of the file,  *)
(* with a page that is free, which no wrapping count has chosen.           *)
LEMMA AllocateStep ==
  ASSUME OrderlyInv, Orderly, AllocatePage
  PROVE  \E e \in Extents, off \in Offsets :
           LET bm == AfterAllocate(BitmapOf(e)) IN
           /\ ~IsFull(BitmapOf(e)) /\ off = AllocatedOffset(BitmapOf(e))
           /\ WritePhysicalPage(BitmapPhysicalPage(e), bm)
           /\ meta' = [num_allocated_pages_ |-> meta.num_allocated_pages_ + 1,
                       num_extents_         |-> e + 1,
                       extent_used_page_    |->
                         [meta.extent_used_page_ EXCEPT ![e] = bm.page_allocated_]]
           /\ held' = held \cup {e * BITMAP_SIZE + off}
           /\ written' = [written EXCEPT ![e * BITMAP_SIZE + off] = NotWritten]
           /\ failed' = failed /\ missed' = missed /\ client' = client
           /\ meta.num_allocated_pages_ + 1 < Word
           /\ client = "careful" =>
                e * BITMAP_SIZE + off \in 0 .. BITMAP_SIZE - 2 /\ Balance >= 0
           /\ client = "appending" => e * BITMAP_SIZE + off = Cardinality(held)
<1> DEFINE m == meta.num_allocated_pages_
           e == m \div BITMAP_SIZE
           off == AllocatedOffset(BitmapOf(e))
<1>1. /\ MayAllocate
      /\ \/ /\ e \in Extents
            /\ \E page_offset \in PageOffsets(BitmapOf(e)) : AllocateIn(e, page_offset)
         \/ e \notin Extents
  BY DEF AllocatePage
<1>2. /\ e \in Extents /\ m + 1 < Word /\ ~IsFull(BitmapOf(e)) /\ off \in Offsets
      /\ client = "careful" =>
           e * BITMAP_SIZE + off \in 0 .. BITMAP_SIZE - 2 /\ Balance >= 0
      /\ client = "appending" => e * BITMAP_SIZE + off = Cardinality(held)
  <2>1. CASE client = "careful"
    <3>1. /\ e = 0 /\ m + 1 < Word /\ ~IsFull(BitmapOf(0))
          /\ AllocatedOffset(BitmapOf(0)) \in 0 .. BITMAP_SIZE - 2
      BY <1>1, <2>1, CarefulAllocation
    <3>2. 0 * BITMAP_SIZE + AllocatedOffset(BitmapOf(0)) = AllocatedOffset(BitmapOf(0))
      BY <3>1, Sizes
    <3>3. AllocatedOffset(BitmapOf(0)) \in Offsets
      BY <3>1, Sizes DEF Offsets
    <3>4. Balance >= 0
      BY <1>1, <2>1 DEF MayAllocate
    <3> QED
      BY <2>1, <3>1, <3>2, <3>3, <3>4, BitmapPlaces
  <2>2. CASE client = "appending"
    <3>1. /\ e \in Extents /\ m + 1 < Word /\ ~IsFull(BitmapOf(e)) /\ off \in Offsets
          /\ off + e * BITMAP_SIZE = Cardinality(held)
      BY <1>1, <2>2, AppendingAllocation
    <3>2. e * BITMAP_SIZE \in Nat
      BY <3>1, Sizes DEF Extents
    <3>3. e * BITMAP_SIZE + off = off + e * BITMAP_SIZE
      BY <3>1, <3>2, Sizes DEF Offsets
    <3> QED
      BY <2>2, <3>1, <3>3
  <2> QED
    BY <2>1, <2>2 DEF Orderly
<1>3. AllocateIn(e, off)
  BY <1>1, <1>2 DEF PageOffsets
<1>4. off + e * BITMAP_SIZE = e * BITMAP_SIZE + off
  <2>1. e * BITMAP_SIZE \in Nat
    BY <1>2, Sizes DEF Extents
  <2> QED
    BY <1>2, <2>1, Sizes DEF Offsets
<1>5. (m + 1) % Word = m + 1
  BY <1>2, HeldFacts, Sizes, WordArithmetic
<1> HIDE DEF off, e, m
<1>6. /\ WritePhysicalPage(BitmapPhysicalPage(e), AfterAllocate(BitmapOf(e)))
      /\ meta' = [num_allocated_pages_ |-> (m + 1) % Word,
                  num_extents_         |-> e + 1,
                  extent_used_page_    |->
                    [meta.extent_used_page_ EXCEPT
                       ![e] = AfterAllocate(BitmapOf(e)).page_allocated_]]
      /\ held' = held \cup {off + e * BITMAP_SIZE}
      /\ written' = [written EXCEPT ![off + e * BITMAP_SIZE] = NotWritten]
      /\ failed' = failed /\ missed' = missed /\ client' = client
  BY <1>3 DEF AllocateIn, AllocatedMeta, m
<1> QED
  BY <1>2, <1>4, <1>5, <1>6 DEF off, m

(* After a bitmap is stored, extent_used_page_ counts what the bitmaps     *)
(* mark, if it did before.                                                 *)
LEMMA CountsStored ==
  ASSUME OrderlyInv, NEW e \in Extents, NEW bm, Consistent(bm),
         WritePhysicalPage(BitmapPhysicalPage(e), bm), failed' = failed,
         meta'.extent_used_page_ = [meta.extent_used_page_ EXCEPT ![e] = bm.page_allocated_],
         missed = 0
  PROVE  \A f \in Extents : meta'.extent_used_page_[f] = Cardinality((BitmapOf(f)').bytes)
<1>1. /\ BitmapOf(e)' = bm
      /\ \A f \in Extents : f # e => BitmapOf(f)' = BitmapOf(f)
  BY BitmapStored DEF Consistent
<1>2. bm.page_allocated_ = Cardinality(bm.bytes)
  BY DEF Consistent
<1>3. /\ meta.extent_used_page_ \in [Extents -> 0 .. BITMAP_SIZE]
      /\ \A f \in Extents : meta.extent_used_page_[f] = Cardinality(BitmapOf(f).bytes)
  BY DEF OrderlyInv, TypeOK, MetaCountsPages
<1> QED
  BY <1>1, <1>2, <1>3

(* A page whose place in the file a store does not touch reads as before.  *)
LEMMA ReadsKept ==
  ASSUME OrderlyInv, failed' = failed, client = "careful",
         NEW e \in Extents, NEW bm, file' = [file EXCEPT ![BitmapPhysicalPage(e)] = bm],
         NEW p \in held
  PROVE  ReadPage(p)' = ReadPage(p)
<1>1. MapPageId(p) = p + 2 /\ p + 2 \in PhysicalPages /\ p \in Nat /\ p + 2 <= BITMAP_SIZE
  BY HeldFacts
<1>2. p + 2 # BitmapPhysicalPage(e)
  BY <1>1, BitmapPlaces, Sizes DEF PhysicalPages
<1>3. /\ file \in [PhysicalPages -> Data \cup BitmapType]
      /\ BitmapPhysicalPage(e) \in PhysicalPages
      /\ failed = FALSE /\ failed' = FALSE
  BY BitmapPlaces DEF OrderlyInv, TypeOK
<1>4. ReadPage(p) = file[p + 2] /\ ReadPage(p)' = file'[p + 2]
  BY <1>1, <1>3 DEF ReadPage, ReadPhysicalPage, MapPageId
<1> QED
  BY <1>1, <1>2, <1>3, <1>4

(* AllocatePage keeps the invariant. *)
LEMMA AllocateKeeps ==
  ASSUME OrderlyInv, Orderly, AllocatePage
  PROVE  OrderlyInv'
<1> DEFINE m == meta.num_allocated_pages_
           n == Cardinality(held)
<1>1. PICK e \in Extents, off \in Offsets :
           /\ ~IsFull(BitmapOf(e)) /\ off = AllocatedOffset(BitmapOf(e))
           /\ WritePhysicalPage(BitmapPhysicalPage(e), AfterAllocate(BitmapOf(e)))
           /\ meta' = [num_allocated_pages_ |-> m + 1,
                       num_extents_         |-> e + 1,
                       extent_used_page_    |->
                         [meta.extent_used_page_ EXCEPT
                            ![e] = AfterAllocate(BitmapOf(e)).page_allocated_]]
           /\ held' = held \cup {e * BITMAP_SIZE + off}
           /\ written' = [written EXCEPT ![e * BITMAP_SIZE + off] = NotWritten]
           /\ failed' = failed /\ missed' = missed /\ client' = client
           /\ m + 1 < Word
           /\ client = "careful" =>
                e * BITMAP_SIZE + off \in 0 .. BITMAP_SIZE - 2 /\ Balance >= 0
           /\ client = "appending" => e * BITMAP_SIZE + off = n
  BY AllocateStep
<1> DEFINE bm == AfterAllocate(BitmapOf(e))
           new == e * BITMAP_SIZE + off
<1>2. /\ Consistent(BitmapOf(e))
      /\ \A o \in Offsets : o \in BitmapOf(e).bytes <=> e * BITMAP_SIZE + o \in held
  BY DEF OrderlyInv, BitmapsMark
<1>3. Consistent(bm) /\ bm.bytes = BitmapOf(e).bytes \cup {off} /\ off \notin BitmapOf(e).bytes
  BY <1>1, <1>2, AllocateKeepsConsistent, AllocatedIsLowestFree DEF AfterAllocate
<1>4. bm \in BitmapType
  BY <1>3 DEF Consistent
<1>5. new \in LogicalPages /\ new \notin held
  BY <1>2, <1>3, PlaceInExtent
<1> HIDE DEF bm
<1>6. /\ BitmapOf(e)' = bm
      /\ \A f \in Extents : f # e => BitmapOf(f)' = BitmapOf(f)
      /\ file' = [file EXCEPT ![BitmapPhysicalPage(e)] = bm]
      /\ file' \in [PhysicalPages -> Data \cup BitmapType]
      /\ file'[META_PAGE_ID] = ZeroPage
  BY <1>1, <1>4, BitmapStored DEF bm
<1>7. /\ IsFiniteSet(held) /\ n \in Nat /\ missed \in Nat /\ m \in 0 .. Word - 1
      /\ Cardinality(held') = n + 1
  BY <1>1, <1>5, HeldFacts, FS_AddElement
<1>8. BitmapsMark'
  <2> SUFFICES ASSUME NEW f \in Extents
               PROVE  /\ Consistent(BitmapOf(f)')
                      /\ \A o \in Offsets : o \in (BitmapOf(f)').bytes
                                              <=> f * BITMAP_SIZE + o \in held'
    BY DEF BitmapsMark, Consistent
  <2>1. \A o \in Offsets : f * BITMAP_SIZE + o = new <=> f = e /\ o = off
    BY PlaceInExtent
  <2>2. CASE f = e
    BY <1>1, <1>2, <1>3, <1>6, <2>1, <2>2
  <2>3. CASE f # e
    <3>1. /\ Consistent(BitmapOf(f))
          /\ \A o \in Offsets : o \in BitmapOf(f).bytes <=> f * BITMAP_SIZE + o \in held
      BY DEF OrderlyInv, BitmapsMark
    <3> QED
      BY <1>1, <1>6, <2>1, <2>3, <3>1
  <2> QED
    BY <2>2, <2>3
<1>9. MetaCountsPages'
  <2>1. Balance' = Balance + 1 /\ Balance \in Int /\ Balance' \in Int
    BY <1>1, <1>7, HeldFacts DEF Balance
  <2>2. Balance >= 0
    <3>1. client = "appending" => Balance = n
      BY <1>7 DEF OrderlyInv, AppendingClients, Balance
    <3> QED
      BY <1>1, <1>7, <3>1 DEF Orderly
  <2>3. m = Balance
    BY <2>2 DEF OrderlyInv, MetaCountsPages
  <2>4. meta'.num_allocated_pages_ = Balance' /\ Balance' >= 0
    BY <1>1, <2>1, <2>2, <2>3
  <2>5. missed = 0 => \A f \in Extents :
                       meta'.extent_used_page_[f] = Cardinality((BitmapOf(f)').bytes)
    BY <1>1, <1>3, CountsStored DEF bm
  <2> QED
    BY <1>1, <2>4, <2>5 DEF MetaCountsPages
<1>10. TypeOK'
  <2>1. m + 1 \in 0 .. Word - 1 /\ e + 1 \in Nat
    BY <1>1, <1>7, Sizes DEF Extents
  <2>2. bm.page_allocated_ \in 0 .. BITMAP_SIZE
    BY <1>4 DEF BitmapType
  <2>3. [meta.extent_used_page_ EXCEPT ![e] = bm.page_allocated_]
          \in [Extents -> 0 .. BITMAP_SIZE]
    BY <2>2 DEF OrderlyInv, TypeOK
  <2>4. meta' \in [num_allocated_pages_ : 0 .. Word - 1,
                   num_extents_         : Nat,
                   extent_used_page_    : [Extents -> 0 .. BITMAP_SIZE]]
    BY <1>1, <2>1, <2>3 DEF bm
  <2>5. written' \in [LogicalPages -> Data \cup {NotWritten}]
    BY <1>1 DEF OrderlyInv, TypeOK
  <2> QED
    BY <1>1, <1>5, <1>6, <2>4, <2>5 DEF OrderlyInv, TypeOK
<1>11. ASSUME client = "appending"
       PROVE  AppendingClients'
  <2>1. held = 0 .. n - 1 /\ new = n /\ missed = 0
        /\ \A p \in LogicalPages : written[p] = NotWritten
    BY <1>1, <1>11 DEF OrderlyInv, AppendingClients
  <2>2. held' = 0 .. n
    BY <1>1, <1>7, <2>1
  <2>3. held' = 0 .. (n + 1) - 1
    BY <1>7, <2>2
  <2>4. \A p \in LogicalPages : written'[p] = NotWritten
    BY <1>1, <2>1 DEF OrderlyInv, TypeOK
  <2> QED
    BY <1>1, <1>7, <2>1, <2>3, <2>4 DEF AppendingClients
<1>12. ASSUME client = "careful"
       PROVE  CarefulClients'
  BY <1>1, <1>12 DEF OrderlyInv, CarefulClients
<1>13. EveryReadsLastWrite'
  <2>1. CASE client = "appending"
    <3>1. \A p \in held' : p \in LogicalPages
      BY <1>10 DEF TypeOK
    <3> QED
      BY <2>1, <1>11, <3>1 DEF EveryReadsLastWrite, AppendingClients
  <2>2. CASE client = "careful"
    <3> SUFFICES ASSUME NEW p \in held', written'[p] # NotWritten
                 PROVE  ReadPage(p)' = written'[p]
      BY DEF EveryReadsLastWrite
    <3>1. p # new /\ p \in held /\ written'[p] = written[p]
      BY <1>1, <1>5 DEF OrderlyInv, TypeOK
    <3>2. ReadPage(p)' = ReadPage(p)
      BY <1>1, <1>6, <2>2, <3>1, ReadsKept
    <3> QED
      BY <3>1, <3>2 DEF OrderlyInv, EveryReadsLastWrite
  <2> QED
    BY <2>1, <2>2 DEF Orderly
<1> QED
  BY <1>1, <1>6, <1>8, <1>9, <1>10, <1>11, <1>12, <1>13 DEF OrderlyInv

(* DeAllocatePage keeps the invariant: the page is in the first extent,    *)
(* its bit was set, and the count may wrap below zero.                     *)
LEMMA DeAllocateKeeps ==
  ASSUME OrderlyInv, client = "careful", NEW p \in held, DeAllocatePage(p)
  PROVE  OrderlyInv'
<1> DEFINE bm == AfterDeAllocate(BitmapOf(0), p)
           m == meta.num_allocated_pages_
           n == Cardinality(held)
           count == (m + Word - 1) % Word
<1>1. /\ IsFiniteSet(held) /\ n \in Nat /\ n < BITMAP_SIZE
      /\ missed \in Nat /\ missed < BITMAP_SIZE /\ m \in 0 .. Word - 1
      /\ p \div BITMAP_SIZE = 0 /\ p % BITMAP_SIZE = p /\ p \in Offsets
      /\ \A q \in held : q \in LogicalPages
  BY HeldFacts
<1>2. /\ WritePhysicalPage(BitmapPhysicalPage(0), bm)
      /\ meta' = [num_allocated_pages_ |-> count,
                  num_extents_         |-> count \div BITMAP_SIZE + 1,
                  extent_used_page_    |->
                    [meta.extent_used_page_ EXCEPT ![0] = bm.page_allocated_]]
      /\ held' = held \ {p}
      /\ written' = [written EXCEPT ![p] = NotWritten]
      /\ failed' = failed /\ missed' = missed /\ client' = client
  BY <1>1 DEF DeAllocatePage, DeAllocateMeta
<1>3. count = IF m = 0 THEN Word - 1 ELSE m - 1
  BY <1>1, Sizes, WordArithmetic
<1> HIDE DEF count
<1>4. /\ Consistent(BitmapOf(0)) /\ 0 \in Extents
      /\ \A o \in Offsets : o \in BitmapOf(0).bytes <=> 0 * BITMAP_SIZE + o \in held
  BY BitmapPlaces DEF OrderlyInv, BitmapsMark
<1>5. \A o \in Offsets : o \in Nat /\ 0 * BITMAP_SIZE + o = o
  BY Sizes DEF Offsets
<1>6. p \in BitmapOf(0).bytes
  BY <1>1, <1>4, <1>5
<1>7. Consistent(bm) /\ bm.bytes = BitmapOf(0).bytes \ {p}
  BY <1>4, <1>6, DeAllocateKeepsConsistent DEF AfterDeAllocate, IsPageFree, Consistent, BitmapType
<1>8. bm \in BitmapType
  BY <1>7 DEF Consistent
<1> HIDE DEF bm
<1>9. /\ BitmapOf(0)' = bm
      /\ \A f \in Extents : f # 0 => BitmapOf(f)' = BitmapOf(f)
      /\ file' = [file EXCEPT ![BitmapPhysicalPage(0)] = bm]
      /\ file' \in [PhysicalPages -> Data \cup BitmapType]
      /\ file'[META_PAGE_ID] = ZeroPage
  BY <1>2, <1>4, <1>8, BitmapStored
<1>10. Cardinality(held') = n - 1
  BY <1>1, <1>2, FS_RemoveElement
<1>11. BitmapsMark'
  <2> SUFFICES ASSUME NEW f \in Extents
               PROVE  /\ Consistent(BitmapOf(f)')
                      /\ \A o \in Offsets : o \in (BitmapOf(f)').bytes
                                              <=> f * BITMAP_SIZE + o \in held'
    BY DEF BitmapsMark, Consistent
  <2>1. \A o \in Offsets : f * BITMAP_SIZE + o = p <=> f = 0 /\ o = p
    <3>1. p = 0 * BITMAP_SIZE + p
      BY <1>1, <1>5
    <3> QED
      BY <1>1, <1>4, <1>5, <3>1, PlaceInExtent
  <2>2. CASE f = 0
    BY <1>2, <1>4, <1>7, <1>9, <2>1, <2>2
  <2>3. CASE f # 0
    <3>1. /\ Consistent(BitmapOf(f))
          /\ \A o \in Offsets : o \in BitmapOf(f).bytes <=> f * BITMAP_SIZE + o \in held
      BY DEF OrderlyInv, BitmapsMark
    <3> QED
      BY <1>2, <1>9, <2>1, <2>3, <3>1
  <2> QED
    BY <2>2, <2>3
<1>12. MetaCountsPages'
  <2>1. /\ Balance = n - missed /\ Balance' = n - 1 - missed
        /\ m = IF Balance >= 0 THEN Balance ELSE Balance + Word
    BY <1>2, <1>10 DEF Balance, OrderlyInv, MetaCountsPages
  <2>2. meta'.num_allocated_pages_ = IF Balance' >= 0 THEN Balance' ELSE Balance' + Word
    <3>1. meta'.num_allocated_pages_ = count
      BY <1>2
    <3> QED
      BY <1>1, <1>3, <2>1, <3>1, Sizes
  <2>3. missed = 0 => \A f \in Extents :
                       meta'.extent_used_page_[f] = Cardinality((BitmapOf(f)').bytes)
    BY <1>2, <1>4, <1>7, CountsStored
  <2> QED
    BY <1>2, <2>2, <2>3 DEF MetaCountsPages
<1>13. TypeOK'
  <2>1. count \in 0 .. Word - 1
    BY <1>1, <1>3, Sizes
  <2>2. count \div BITMAP_SIZE + 1 \in Nat
    <3>1. count \div BITMAP_SIZE \in Nat
      BY <2>1, Sizes, DivMod
    <3> QED
      BY <3>1
  <2>3. bm.page_allocated_ \in 0 .. BITMAP_SIZE
    BY <1>8 DEF BitmapType
  <2>4. [meta.extent_used_page_ EXCEPT ![0] = bm.page_allocated_]
          \in [Extents -> 0 .. BITMAP_SIZE]
    BY <2>3 DEF OrderlyInv, TypeOK
  <2>5. meta' \in [num_allocated_pages_ : 0 .. Word - 1,
                   num_extents_         : Nat,
                   extent_used_page_    : [Extents -> 0 .. BITMAP_SIZE]]
    BY <1>2, <2>1, <2>2, <2>4
  <2>6. written' \in [LogicalPages -> Data \cup {NotWritten}]
    BY <1>2 DEF OrderlyInv, TypeOK
  <2> QED
    BY <1>1, <1>2, <1>9, <2>5, <2>6 DEF OrderlyInv, TypeOK
<1>14. EveryReadsLastWrite'
  <2> SUFFICES ASSUME NEW q \in held', written'[q] # NotWritten
               PROVE  ReadPage(q)' = written'[q]
    BY DEF EveryReadsLastWrite
  <2>1. q \in held /\ written'[q] = written[q]
    BY <1>1, <1>2 DEF OrderlyInv, TypeOK
  <2>2. ReadPage(q)' = ReadPage(q)
    BY <1>2, <1>4, <1>9, <2>1, ReadsKept
  <2> QED
    BY <2>1, <2>2 DEF OrderlyInv, EveryReadsLastWrite
<1>15. CarefulClients'
  BY <1>2 DEF OrderlyInv, CarefulClients
<1> QED
  BY <1>2, <1>9, <1>11, <1>12, <1>13, <1>14, <1>15 DEF OrderlyInv

(* WritePage keeps the invariant: the pages of two logical pages, and of   *)
(* the bitmaps, are different pages of the file.                           *)
LEMMA WriteKeeps ==
  ASSUME OrderlyInv, client = "careful", NEW p \in held, NEW d \in Data, WritePage(p, d)
  PROVE  OrderlyInv'
<1>1. \A q \in held : /\ MapPageId(q) = q + 2 /\ q + 2 \in PhysicalPages /\ q \in Nat
                     /\ q \in LogicalPages /\ q + 2 <= BITMAP_SIZE
  BY HeldFacts
<1>2. /\ file' = [file EXCEPT ![p + 2] = d]
      /\ written' = [written EXCEPT ![p] = d]
      /\ meta' = meta /\ held' = held /\ missed' = missed
      /\ failed = FALSE /\ failed' = FALSE /\ client' = client
  BY <1>1 DEF WritePage, WritePhysicalPage, OrderlyInv, TypeOK
<1>3. file \in [PhysicalPages -> Data \cup BitmapType]
  BY DEF OrderlyInv, TypeOK
<1>4. TypeOK'
  BY <1>2 DEF OrderlyInv, TypeOK
<1>5. \A e \in Extents : BitmapOf(e)' = BitmapOf(e)
  <2> TAKE e \in Extents
  <2>1. BitmapPhysicalPage(e) \in PhysicalPages /\ BitmapPhysicalPage(e) # p + 2
    BY <1>1, BitmapPlaces, Sizes DEF PhysicalPages
  <2>2. file'[BitmapPhysicalPage(e)] = file[BitmapPhysicalPage(e)]
    BY <1>2, <1>3, <2>1
  <2> QED
    BY <1>2, <2>2 DEF BitmapOf, ReadPhysicalPage, BitmapPhysicalPage
<1>6. BitmapsMark'
  BY <1>2, <1>5 DEF OrderlyInv, BitmapsMark, Consistent
<1>7. file'[META_PAGE_ID] = ZeroPage
  BY <1>1, <1>2, <1>3, BitmapPlaces DEF OrderlyInv, META_PAGE_ID
<1>8. EveryReadsLastWrite'
  <2> SUFFICES ASSUME NEW q \in held, written'[q] # NotWritten
               PROVE  file'[q + 2] = written'[q]
    BY <1>1, <1>2 DEF EveryReadsLastWrite, ReadPage, ReadPhysicalPage, MapPageId
  <2>1. CASE q = p
    BY <1>1, <1>2, <1>3, <2>1 DEF OrderlyInv, TypeOK
  <2>2. CASE q # p
    <3>1. q + 2 # p + 2
      BY <1>1, <2>2
    <3>2. file'[q + 2] = file[q + 2] /\ written'[q] = written[q]
      BY <1>1, <1>2, <1>3, <2>2, <3>1 DEF OrderlyInv, TypeOK
    <3>3. file[q + 2] = written[q]
      BY <1>1, <1>2, <3>2 DEF OrderlyInv, EveryReadsLastWrite, ReadPage, ReadPhysicalPage
    <3> QED
      BY <3>2, <3>3
  <2> QED
    BY <2>1, <2>2
<1>9. MetaCountsPages'
  BY <1>2, <1>5 DEF OrderlyInv, MetaCountsPages, Balance
<1>10. CarefulClients'
  BY <1>2 DEF OrderlyInv, CarefulClients
<1> QED
  BY <1>2, <1>4, <1>6, <1>7, <1>8, <1>9, <1>10 DEF OrderlyInv

(* The meta page of a new file. *)
LEMMA ZeroMetaType ==
  ZeroMeta \in [num_allocated_pages_ : 0 .. Word - 1,
                num_extents_         : Nat,
                extent_used_page_    : [Extents -> 0 .. BITMAP_SIZE]]
<1>1. 0 \in 0 .. Word - 1 /\ 0 \in 0 .. BITMAP_SIZE
  BY Sizes
<1> QED
  BY <1>1 DEF ZeroMeta

(* Opening the file again finds a meta page of zeros and everything else   *)
(* as it was left.                                                         *)
LEMMA ReopenKeeps ==
  ASSUME OrderlyInv, client = "careful", Reopen
  PROVE  OrderlyInv'
<1>1. /\ file' = file /\ held' = held /\ written' = written /\ client' = client
      /\ meta' = MetaOf(file[META_PAGE_ID]) /\ missed' = Cardinality(held)
      /\ failed' = FALSE /\ failed = FALSE
  BY DEF Reopen, OrderlyInv, TypeOK
<1>2. meta' = ZeroMeta
  BY <1>1 DEF OrderlyInv, MetaOf
<1>3. IsFiniteSet(held) /\ Cardinality(held) \in Nat /\ Cardinality(held) < BITMAP_SIZE
  BY HeldFacts
<1>4. TypeOK'
  BY <1>1, <1>2, <1>3, ZeroMetaType DEF OrderlyInv, TypeOK
<1>5. \A e \in Extents : BitmapOf(e)' = BitmapOf(e)
  BY <1>1 DEF BitmapOf, ReadPhysicalPage
<1>6. BitmapsMark'
  BY <1>1, <1>5 DEF OrderlyInv, BitmapsMark, Consistent
<1>7. EveryReadsLastWrite'
  BY <1>1 DEF OrderlyInv, EveryReadsLastWrite, ReadPage, ReadPhysicalPage
<1>8. MetaCountsPages'
  <2>1. Balance' = 0
    BY <1>1, <1>3 DEF Balance
  <2>2. /\ meta'.num_allocated_pages_ = 0
        /\ \A e \in Extents : meta'.extent_used_page_[e] = 0
    BY <1>2 DEF ZeroMeta
  <2>3. ASSUME Cardinality(held) = 0, NEW e \in Extents
        PROVE  Cardinality(BitmapOf(e).bytes) = 0
    <3>1. held = {}
      BY <1>3, <2>3, FS_EmptySet, Zenon
    <3>2. /\ BitmapOf(e).bytes \subseteq Offsets
          /\ \A o \in Offsets : o \in BitmapOf(e).bytes <=> e * BITMAP_SIZE + o \in held
      BY DEF OrderlyInv, BitmapsMark, Consistent, BitmapType
    <3>3. BitmapOf(e).bytes = {}
      BY <3>1, <3>2
    <3> QED
      BY <3>3, FS_EmptySet
  <2> QED
    BY <1>1, <1>5, <2>1, <2>2, <2>3 DEF MetaCountsPages
<1>9. CarefulClients'
  BY <1>1, <1>3 DEF OrderlyInv, CarefulClients
<1> QED
  BY <1>1, <1>4, <1>6, <1>7, <1>8, <1>9 DEF OrderlyInv

(* The file is created empty: a page of zeros is an empty bitmap. *)
LEMMA InitKeeps ==
  ASSUME Init
  PROVE  OrderlyInv
<1>1. IsFiniteSet({}) /\ Cardinality({}) = 0
  BY FS_EmptySet
<1>2. /\ file = [q \in PhysicalPages |-> ZeroPage] /\ failed = FALSE /\ meta = ZeroMeta
      /\ held = {} /\ written = [q \in LogicalPages |-> NotWritten] /\ missed = 0
      /\ client \in DOMAIN Operations
  BY DEF Init
<1>3. ZeroPage \in Data
  BY DiskAssumption
<1>4. TypeOK
  BY <1>2, <1>3, ZeroMetaType DEF TypeOK
<1>5. Consistent(ZeroBitmap) /\ ZeroBitmap.bytes = {}
  <2>1. ZeroBitmap \in BitmapType
    BY SizeIsNat DEF ZeroBitmap, BitmapType
  <2> QED
    BY <1>1, <2>1 DEF Consistent, ZeroBitmap
<1>6. \A e \in Extents : BitmapOf(e) = ZeroBitmap
  <2>1. \A e \in Extents : file[BitmapPhysicalPage(e)] = ZeroPage
    BY <1>2, BitmapPlaces
  <2> QED
    BY <1>2, <1>3, <2>1, DiskAssumption DEF BitmapOf, ReadPhysicalPage, AsBitmap
<1>7. BitmapsMark
  BY <1>2, <1>5, <1>6 DEF BitmapsMark
<1>8. MetaCountsPages
  <2>1. Balance = 0
    BY <1>1, <1>2 DEF Balance
  <2>2. /\ meta.num_allocated_pages_ = 0
        /\ \A e \in Extents : meta.extent_used_page_[e] = 0
    BY <1>2 DEF ZeroMeta
  <2> QED
    BY <1>1, <1>5, <1>6, <2>1, <2>2 DEF MetaCountsPages
<1>9. EveryReadsLastWrite
  BY <1>2 DEF EveryReadsLastWrite
<1>10. CarefulClients
  BY <1>2, Sizes DEF CarefulClients
<1>11. AppendingClients
  BY <1>1, <1>2 DEF AppendingClients
<1>12. file[META_PAGE_ID] = ZeroPage
  BY <1>2, BitmapPlaces DEF META_PAGE_ID
<1> QED
  BY <1>2, <1>4, <1>7, <1>8, <1>9, <1>10, <1>11, <1>12 DEF OrderlyInv

(* The inductive invariant, for every size of the bitmap and number of     *)
(* extents: every bitmap in the file marks exactly the held pages of its   *)
(* extent, and no orderly client's page is where a bitmap is.              *)
THEOREM DiskInvariant == Spec => []IInv
<1>1. Init => IInv
  BY InitKeeps DEF IInv
<1>2. IInv /\ [Next]_vars => IInv'
  <2> SUFFICES ASSUME IInv, [Next]_vars, Orderly'
               PROVE  OrderlyInv'
    BY DEF IInv
  <2>1. client' = client
    BY DEF Next, AllocatePage, AllocateIn, AllocateOutOfBounds, DeAllocatePage, WritePage,
           Reopen, vars
  <2>2. Orderly /\ OrderlyInv
    BY <2>1 DEF Orderly, IInv
  <2>3. client = "careful" \/ Operations[client] = {}
    <3>1. client \in DOMAIN Operations
      BY <2>2 DEF OrderlyInv, TypeOK
    <3> QED
      BY <2>2, <3>1, DiskAssumption DEF Orderly
  <2>4. CASE AllocatePage
    BY <2>2, <2>4, AllocateKeeps
  <2>5. CASE \E p \in held : DeAllocatePage(p)
    <3>1. client = "careful"
      BY <2>3, <2>5 DEF DeAllocatePage, MayFree
    <3> QED
      BY <2>2, <2>5, <3>1, DeAllocateKeeps
  <2>6. CASE \E p \in held, d \in Data : WritePage(p, d)
    <3>1. client = "careful"
      BY <2>3, <2>6 DEF WritePage
    <3> QED
      BY <2>2, <2>6, <3>1, WriteKeeps
  <2>7. CASE Reopen
    <3>1. client = "careful"
      BY <2>3, <2>7 DEF Reopen
    <3> QED
      BY <2>2, <2>7, <3>1, ReopenKeeps
  <2>8. CASE UNCHANGED vars
    BY <2>2, <2>8 DEF vars, OrderlyInv, TypeOK, BitmapsMark, BitmapOf, ReadPhysicalPage,
                EveryReadsLastWrite, ReadPage, MetaCountsPages, Balance, CarefulClients,
                AppendingClients, Consistent
  <2> QED
    BY <2>4, <2>5, <2>6, <2>7, <2>8 DEF Next
<1> QED
  BY <1>1, <1>2, PTL DEF Spec

(* The bitmaps of all extents mark exactly the pages that careful or       *)
(* appending clients hold, and num_allocated_pages_ is the balance of      *)
(* AllocatePage and DeAllocatePage since the file was opened: after every  *)
(* order of these calls, WritePage and openings, also when careful clients *)
(* release, after a restart, pages they allocated before it.               *)
THEOREM DiskAllocationConsistent == Spec => []AllocationConsistent
<1>1. IInv => AllocationConsistent
  <2> SUFFICES ASSUME OrderlyInv, NEW p \in LogicalPages
               PROVE  DiskIsPageFree(p) <=> p \notin held
    BY DEF AllocationConsistent, BitmapsMatchHeld, IInv, OrderlyInv
  <2>1. /\ p \div BITMAP_SIZE \in Extents /\ p % BITMAP_SIZE \in Offsets
        /\ p = (p \div BITMAP_SIZE) * BITMAP_SIZE + (p % BITMAP_SIZE)
    BY ExtentOfPage
  <2> QED
    BY <2>1 DEF DiskIsPageFree, IsPageFree, OrderlyInv, BitmapsMark
<1> QED
  BY <1>1, DiskInvariant, PTL

(* A careful client reads back what it wrote, also after a restart:        *)
(* neither another client's page nor the allocator's bitmap is written     *)
(* over it.  (Appending clients write nothing.)                            *)
THEOREM ReadsReturnLastWrite == Spec => []ReadsLastWrite
<1>1. IInv => ReadsLastWrite
  BY DEF IInv, OrderlyInv, ReadsLastWrite
<1> QED
  BY <1>1, DiskInvariant, PTL
=============================================================================
