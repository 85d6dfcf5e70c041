----------------------------- MODULE BitmapPage -----------------------------
(***************************************************************************)
(* One free-page bitmap of MiniSQL as a state machine: any sequence of     *)
(* AllocatePage and DeAllocatePage calls on a page that began as zeros.    *)
(***************************************************************************)
EXTENDS Bitmap

CONSTANT NoOffset (* page_offset when AllocatePage leaves it unassigned.   *)

ASSUME NoOffsetAssumption == NoOffset \notin Offsets

VARIABLES
  page,         (* The content of the bitmap page.                         *)
  page_reply    (* The last call, its result and the offset it is about.   *)

bitmapVars == <<page, page_reply>>

BitmapInit ==
  /\ page = ZeroBitmap
  /\ page_reply = [op |-> "init", ok |-> TRUE, page |-> NoOffset]

BitmapAllocatePage ==
  /\ page' = AfterAllocate(page)
  /\ page_reply' = [op   |-> "allocate",
                    ok   |-> ~IsFull(page),
                    page |-> IF IsFull(page) THEN NoOffset ELSE AllocatedOffset(page)]

BitmapDeAllocatePage(page_offset) ==
  /\ page' = AfterDeAllocate(page, page_offset)
  /\ page_reply' = [op   |-> "free",
                    ok   |-> ~IsPageFree(page, page_offset),
                    page |-> page_offset]

BitmapNext ==
  \/ BitmapAllocatePage
  \/ \E page_offset \in Offsets : BitmapDeAllocatePage(page_offset)

BitmapSpec == BitmapInit /\ [][BitmapNext]_bitmapVars

-----------------------------------------------------------------------------
(* The page stays a bitmap of this size: neither counter leaves            *)
(* 0..BITMAP_SIZE and no bit beyond bytes[MAX_CHARS - 1] is ever set, even *)
(* when the scan of AllocatePage may run up to byte page_allocated_.       *)
BitmapTypeOK ==
  /\ page \in BitmapType
  /\ page_reply \in [op : {"init", "allocate", "free"}, ok : BOOLEAN,
                     page : Offsets \cup {NoOffset}]

(* page_allocated_ counts the set bits, through any order of calls and     *)
(* through the calls that fail: it is what IsFull and the scan rely on.    *)
CountMatchesBits == page.page_allocated_ = Cardinality(page.bytes)

(* No bit at or above next_free_page_ is set, so that next_free_page_ may  *)
(* be handed out without looking at its bit.                               *)
NoBitAboveNextFree == \A o \in page.bytes : o < page.next_free_page_

(* The shortcut and the scan agree: AllocatePage always hands out the      *)
(* lowest free offset, the order the disk manager and its tests expect.    *)
AllocatesLowestFree ==
  [][(page_reply'.op = "allocate" /\ page_reply'.ok) =>
        /\ page_reply'.page \in Offsets \ page.bytes
        /\ \A o \in Offsets : o < page_reply'.page => o \in page.bytes]_bitmapVars

Allocator == INSTANCE PageAllocator
             WITH Pages <- Offsets, allocated <- page.bytes, reply <- page_reply

(* The bitmap implements the allocator: it never hands out a page twice,   *)
(* refuses only when all pages are out, and frees only what is allocated.  *)
ImplementsAllocator == Allocator!Spec
=============================================================================
