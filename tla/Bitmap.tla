------------------------------- MODULE Bitmap -------------------------------
(***************************************************************************)
(* The on-disk free-page bitmap of MiniSQL (page/bitmap_page.cpp): the     *)
(* value kept in one bitmap page and what its two operations compute.  No  *)
(* state lives here: BitmapPage runs one page as a state machine and       *)
(* DiskManager keeps one such value per extent in its file.                *)
(*                                                                         *)
(* bytes[] is the set of the offsets whose bit is 1.  The scan for a free  *)
(* bit goes byte by byte, as in the code, because its bound (i <=          *)
(* page_allocated_) counts bytes and not bits.                             *)
(***************************************************************************)
EXTENDS Integers, FiniteSets

CONSTANTS
  ByteBits,     (* Bits of one element of bytes[]: 8 in the code.          *)
  MAX_CHARS     (* Number of elements of bytes[]: PageSize - 8.            *)

ASSUME BitmapAssumption ==
  /\ ByteBits \in Nat \ {0}
  /\ MAX_CHARS \in Nat \ {0}

(* GetMaxSupportedSize(), and DiskManager::BITMAP_SIZE. *)
BITMAP_SIZE == ByteBits * MAX_CHARS

Offsets == 0 .. BITMAP_SIZE - 1

BitmapType == [page_allocated_ : 0 .. BITMAP_SIZE,
               next_free_page_ : 0 .. BITMAP_SIZE,
               bytes           : SUBSET Offsets]

(* A page of zeros read as a bitmap: how every bitmap begins. *)
ZeroBitmap == [page_allocated_ |-> 0, next_free_page_ |-> 0, bytes |-> {}]

IsPageFree(bm, page_offset) == page_offset \notin bm.bytes

(***************************************************************************)
(* AllocatePage.  IsFull is its only failure; the caller's page_offset is  *)
(* then left unassigned.                                                   *)
(***************************************************************************)
(* Mutant: the high-water mark is mistaken for the number of pages in use. *)
IsFullByNextFree(bm) == bm.next_free_page_ = BITMAP_SIZE

IsFull(bm) == bm.page_allocated_ = BITMAP_SIZE

ByteIs255(bm, i) == \A j \in 0 .. ByteBits - 1 : i * ByteBits + j \in bm.bytes

(* The loop over i: the first byte with a zero bit among the bytes         *)
(* 0..page_allocated_, or one past them when they are all 255.             *)
IsScanByte(bm, i) ==
  /\ i \in 0 .. bm.page_allocated_ + 1
  /\ i <= bm.page_allocated_ => ~ByteIs255(bm, i)
  /\ \A k \in 0 .. i - 1 : ByteIs255(bm, k)

ScanByte(bm) == CHOOSE i \in 0 .. bm.page_allocated_ + 1 : IsScanByte(bm, i)

(* The loop over j: the lowest zero bit of byte i, or ByteBits. *)
IsScanBit(bm, i, j) ==
  /\ j \in 0 .. ByteBits
  /\ j < ByteBits => i * ByteBits + j \notin bm.bytes
  /\ \A k \in 0 .. j - 1 : i * ByteBits + k \in bm.bytes

(* Mutant: the bits of the byte are tried from the highest one down. *)
ScanBitDownwards(bm, i) ==
  CHOOSE j \in 0 .. ByteBits - 1 :
    /\ i * ByteBits + j \notin bm.bytes
    /\ \A k \in j + 1 .. ByteBits - 1 : i * ByteBits + k \in bm.bytes

ScanBit(bm, i) == CHOOSE j \in 0 .. ByteBits : IsScanBit(bm, i, j)

ScannedOffset(bm) == ScanByte(bm) * ByteBits + ScanBit(bm, ScanByte(bm))

(* page_allocated_ = next_free_page_ says that no offset below             *)
(* next_free_page_ is free, so the next one is handed out without a scan.  *)
AllocatedOffset(bm) ==
  IF bm.page_allocated_ = bm.next_free_page_
  THEN bm.next_free_page_
  ELSE ScannedOffset(bm)

AfterAllocate(bm) ==
  IF IsFull(bm)
  THEN bm
  ELSE [page_allocated_ |-> bm.page_allocated_ + 1,
        next_free_page_ |-> IF bm.page_allocated_ = bm.next_free_page_
                            THEN bm.next_free_page_ + 1
                            ELSE bm.next_free_page_,
        bytes           |-> bm.bytes \cup {AllocatedOffset(bm)}]

(***************************************************************************)
(* DeAllocatePage fails, and changes nothing, on a page that is free.      *)
(* next_free_page_ is never lowered.                                       *)
(***************************************************************************)
(* Mutant: the early return for a free page is missing. *)
AfterDeAllocateUnchecked(bm, page_offset) ==
  [bm EXCEPT !.page_allocated_ = IF @ > 0 THEN @ - 1 ELSE @,
             !.bytes = @ \ {page_offset}]

AfterDeAllocate(bm, page_offset) ==
  IF IsPageFree(bm, page_offset)
  THEN bm
  ELSE [bm EXCEPT !.page_allocated_ = @ - 1,
                  !.bytes = @ \ {page_offset}]
=============================================================================
