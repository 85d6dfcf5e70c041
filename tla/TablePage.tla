----------------------------- MODULE TablePage -----------------------------
(***************************************************************************)
(* One slotted page of a MiniSQL table heap (page/table_page.cpp): the     *)
(* tuples grow down from the end of the page, the slot directory grows up  *)
(* behind the header, and deleting or resizing a tuple moves the bytes of  *)
(* all tuples below it (memmove) and corrects their offsets.               *)
(*                                                                         *)
(* The tuple area is modelled byte by byte: byte k of the serialized row r *)
(* is the value <<r, k>>.  A tuple size carries its delete flag (the top   *)
(* bit, DELETE_MASK) as a field of its own.                                *)
(***************************************************************************)
EXTENDS Integers, FiniteSets

CONSTANTS
  PAGE_SIZE,
  SIZE_TABLE_PAGE_HEADER,
  SIZE_TUPLE,       (* Bytes of one entry of the slot directory.           *)
  Rows,             (* Row contents.                                       *)
  Sizes,            (* Sizes that a row may serialize to.                  *)
  NoRow

ASSUME TablePageAssumption ==
  /\ PAGE_SIZE \in Nat /\ SIZE_TABLE_PAGE_HEADER \in Nat
  /\ SIZE_TABLE_PAGE_HEADER <= PAGE_SIZE
  /\ SIZE_TUPLE \in Nat \ {0}
  /\ Sizes \subseteq Nat \ {0}
  /\ NoRow \notin Rows

VARIABLES
  free_space_pointer,
  tuple_count,
  slots,            (* The directory: offset, size and delete flag.        *)
  body,             (* The bytes of the page.                              *)
  row,              (* History: the row each slot should hold.             *)
  tuple_reply       (* The last call, its result and its slot.             *)

tablePageVars == <<free_space_pointer, tuple_count, slots, body, row, tuple_reply>>

Bytes == 0 .. PAGE_SIZE - 1
Unwritten == <<NoRow, 0>>
Slots == 0 .. tuple_count - 1

FreeSpaceRemaining ==
  free_space_pointer - SIZE_TABLE_PAGE_HEADER - SIZE_TUPLE * tuple_count

(* IsDeleted: marked, or the slot is empty. *)
IsDeleted(slot) == slot.deleted \/ slot.size = 0

(* SetDeletedFlag and UnsetDeletedFlag. *)
Flagged(slot, flag) ==
  [offset |-> slot.offset, size |-> slot.size, deleted |-> flag]

EmptySlot == [offset |-> 0, size |-> 0, deleted |-> FALSE]

TablePageInit ==
  /\ free_space_pointer = PAGE_SIZE
  /\ tuple_count = 0
  /\ slots = [i \in {} |-> EmptySlot]
  /\ body = [b \in Bytes |-> Unwritten]
  /\ row = [i \in {} |-> NoRow]
  /\ tuple_reply = [op |-> "init", result |-> 1, slot |-> 0]
-----------------------------------------------------------------------------
(* Row::SerializeTo at an offset. *)
Serialized(bytes, r, size, offset) ==
  [b \in Bytes |-> IF offset <= b /\ b < offset + size
                   THEN <<r, b - offset>>
                   ELSE bytes[b]]

(* memmove of the bytes from..to-1 by `by' positions, up or down. *)
Moved(bytes, from, to, by) ==
  [b \in Bytes |-> IF from + by <= b /\ b < to + by
                   THEN bytes[b - by]
                   ELSE bytes[b]]

(* The first empty slot, or a new one. *)
SlotForInsert ==
  IF \E i \in Slots : slots[i].size = 0
  THEN CHOOSE i \in Slots : slots[i].size = 0 /\ \A k \in 0 .. i - 1 : slots[k].size # 0
  ELSE tuple_count

(* Mutant: the directory entry is not counted. *)
RoomForInsertNoEntry(size) == FreeSpaceRemaining >= size

(* The space for a directory entry is asked for even when a slot is reused.*)
RoomForInsert(size) == FreeSpaceRemaining >= size + SIZE_TUPLE

InsertAt(i, r, size) ==
  LET at == free_space_pointer - size IN
  /\ free_space_pointer' = at
  /\ body' = Serialized(body, r, size, at)
  /\ tuple_count' = IF i = tuple_count THEN tuple_count + 1 ELSE tuple_count
  /\ slots' = [k \in Slots \cup {i} |->
                 IF k = i THEN [offset |-> at, size |-> size, deleted |-> FALSE]
                 ELSE slots[k]]
  /\ row' = [k \in Slots \cup {i} |-> IF k = i THEN r ELSE row[k]]
  /\ tuple_reply' = [op |-> "insert", result |-> 1, slot |-> i]

InsertTuple(r, size) == RoomForInsert(size) /\ InsertAt(SlotForInsert, r, size)

InsertTupleFails(size) ==
  /\ ~RoomForInsert(size)
  /\ tuple_reply' = [op |-> "insert", result |-> 0, slot |-> 0]
  /\ UNCHANGED <<free_space_pointer, tuple_count, slots, body, row>>

MarkDelete(i) ==
  /\ IF i \in Slots /\ ~IsDeleted(slots[i])
     THEN /\ slots' = [slots EXCEPT ![i] = Flagged(@, TRUE)]
          /\ tuple_reply' = [op |-> "mark", result |-> 1, slot |-> i]
     ELSE /\ slots' = slots
          /\ tuple_reply' = [op |-> "mark", result |-> 0, slot |-> i]
  /\ UNCHANGED <<free_space_pointer, tuple_count, body, row>>

RollbackDelete(i) ==
  /\ i \in Slots
  /\ slots' = [slots EXCEPT ![i] = Flagged(@, FALSE)]
  /\ tuple_reply' = [op |-> "rollback", result |-> 1, slot |-> i]
  /\ UNCHANGED <<free_space_pointer, tuple_count, body, row>>

(***************************************************************************)
(* UpdateTuple: 0 for a slot that does not exist, -1 for a deleted tuple,  *)
(* -2 when the page has no room, 1 when the tuple is replaced in place.    *)
(***************************************************************************)
UpdateRefusal(i, size) ==
  IF i \notin Slots THEN 0
  ELSE IF IsDeleted(slots[i]) THEN -1
  ELSE IF FreeSpaceRemaining + slots[i].size < size THEN -2
  ELSE 1

UpdateTupleRefused(i, size) ==
  /\ UpdateRefusal(i, size) # 1
  /\ tuple_reply' = [op |-> "update", result |-> UpdateRefusal(i, size), slot |-> i]
  /\ UNCHANGED <<free_space_pointer, tuple_count, slots, body, row>>

(* Mutant: the tuples that are only marked keep their offsets. *)
ShiftedOnUpdateLive(i, size) ==
  LET end == slots[i].offset + slots[i].size
      by == slots[i].size - size
  IN
  [k \in Slots |->
     [offset  |-> IF ~IsDeleted(slots[k]) /\ slots[k].offset < end
                  THEN slots[k].offset + by ELSE slots[k].offset,
      size    |-> IF k = i THEN size ELSE slots[k].size,
      deleted |-> slots[k].deleted]]

ShiftedOnUpdate(i, size) ==
  LET end == slots[i].offset + slots[i].size
      by == slots[i].size - size
  IN
  [k \in Slots |->
     [offset  |-> IF slots[k].size > 0 /\ slots[k].offset < end
                  THEN slots[k].offset + by ELSE slots[k].offset,
      size    |-> IF k = i THEN size ELSE slots[k].size,
      deleted |-> slots[k].deleted]]

UpdateTuple(i, r, size) ==
  /\ UpdateRefusal(i, size) = 1
  /\ LET offset == slots[i].offset
         by == slots[i].size - size
     IN
     /\ body' = Serialized(Moved(body, free_space_pointer, offset, by), r, size, offset + by)
     /\ free_space_pointer' = free_space_pointer + by
  /\ slots' = ShiftedOnUpdate(i, size)
  /\ row' = [row EXCEPT ![i] = r]
  /\ tuple_reply' = [op |-> "update", result |-> 1, slot |-> i]
  /\ UNCHANGED tuple_count

(***************************************************************************)
(* ApplyDelete, of a tuple that is marked or not.  Its assertion           *)
(* (tuple_offset >= free_space_pointer) leaves out the empty slots.        *)
(***************************************************************************)
ShiftedOnDelete(i) ==
  [k \in Slots |->
     IF k = i THEN EmptySlot
     ELSE IF slots[k].size # 0 /\ slots[k].offset < slots[i].offset
     THEN [offset  |-> slots[k].offset + slots[i].size,
           size    |-> slots[k].size,
           deleted |-> slots[k].deleted]
     ELSE slots[k]]

(* Mutant: the free space does not grow. *)
PointerAfterDeleteKept(i) == free_space_pointer

PointerAfterDelete(i) == free_space_pointer + slots[i].size

ApplyDelete(i) ==
  /\ i \in Slots /\ slots[i].size # 0
  /\ body' = Moved(body, free_space_pointer, slots[i].offset, slots[i].size)
  /\ free_space_pointer' = PointerAfterDelete(i)
  /\ slots' = ShiftedOnDelete(i)
  /\ row' = [row EXCEPT ![i] = NoRow]
  /\ tuple_reply' = [op |-> "delete", result |-> 1, slot |-> i]
  /\ UNCHANGED tuple_count

TablePageNext ==
  \/ \E r \in Rows, size \in Sizes : InsertTuple(r, size)
  \/ \E size \in Sizes : InsertTupleFails(size)
  \/ \E i \in 0 .. tuple_count :
       \/ MarkDelete(i) \/ RollbackDelete(i) \/ ApplyDelete(i)
       \/ \E size \in Sizes : UpdateTupleRefused(i, size)
       \/ \E r \in Rows, size \in Sizes : UpdateTuple(i, r, size)

TablePageSpec == TablePageInit /\ [][TablePageNext]_tablePageVars
-----------------------------------------------------------------------------
Live == {i \in Slots : slots[i].size # 0}

(* The directory has one entry per slot, and the free space pointer and    *)
(* every entry stay inside the page.                                       *)
TablePageTypeOK ==
  /\ free_space_pointer \in 0 .. PAGE_SIZE
  /\ tuple_count \in Nat
  /\ slots \in [Slots -> [offset : 0 .. PAGE_SIZE, size : 0 .. PAGE_SIZE,
                          deleted : BOOLEAN]]
  /\ row \in [Slots -> Rows \cup {NoRow}]
  /\ body \in [Bytes -> (Rows \cup {NoRow}) \X Nat]

(* The slot directory never grows into the tuples: FreeSpaceRemaining,     *)
(* which the code computes in uint32_t, does not wrap.                     *)
DirectoryBelowTuples ==
  SIZE_TABLE_PAGE_HEADER + SIZE_TUPLE * tuple_count <= free_space_pointer

(* Every tuple, marked or not, lies between the free space pointer and the *)
(* end of the page, and no two tuples overlap.                             *)
TuplesInArea ==
  \A i \in Live : /\ free_space_pointer <= slots[i].offset
                  /\ slots[i].offset + slots[i].size <= PAGE_SIZE

TuplesDisjoint ==
  \A i, k \in Live : i # k =>
    \/ slots[i].offset + slots[i].size <= slots[k].offset
    \/ slots[k].offset + slots[k].size <= slots[i].offset

Layout == DirectoryBelowTuples /\ TuplesInArea /\ TuplesDisjoint

(* Each tuple's bytes are those of the row last stored in its slot, after  *)
(* any sequence of inserts, updates and deletes of other slots: what       *)
(* GetTuple deserializes.                                                  *)
ContentIntact ==
  \A i \in Live : \A k \in 0 .. slots[i].size - 1 :
    body[slots[i].offset + k] = <<row[i], k>>

(* Deleting and resizing leave no hole: the bytes above the free space     *)
(* pointer are all in use.                                                 *)
NoSpaceLost ==
  \A b \in free_space_pointer .. PAGE_SIZE - 1 :
    \E i \in Live : slots[i].offset <= b /\ b < slots[i].offset + slots[i].size
=============================================================================
