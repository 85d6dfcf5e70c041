-------------------------- MODULE TableHeap_proof --------------------------
(***************************************************************************)
(* For every page size, slot size, set of row sizes and number of pages:   *)
(* no page and no row of a table heap is lost, deleted rows stay deleted,  *)
(* and a scan returns every row that was there all the time, in order.     *)
(***************************************************************************)
EXTENDS TableHeap, WellFoundedInduction, FiniteSetTheorems, TLAPS

SlotType == [row : Rows \cup {0}, deleted : BOOLEAN]
PageType == [next : PageIds \cup {INVALID_PAGE_ID}, slots : Seq(SlotType)]

(* A page whose rows fit.  An empty slot is used again before a new one is *)
(* added, so there are never more slots than rows of one byte would need.  *)
GoodPage(page) ==
  /\ page \in PageType
  /\ FreeSpace(page) >= 0
  /\ Len(page.slots) * (SIZE_TUPLE + 1) <= PageSpace
  /\ \A i \in DOMAIN page.slots : page.slots[i].deleted => page.slots[i].row # 0

TypesInv ==
  /\ DOMAIN mem = PageIds /\ DOMAIN disk = PageIds
  /\ mem = [p \in PageIds |-> mem[p]] /\ disk = [p \in PageIds |-> disk[p]]
  /\ \A p \in PageIds : GoodPage(mem[p]) /\ GoodPage(disk[p])
  /\ dirty \subseteq PageIds
  /\ allocated \subseteq PageIds
  /\ first_page_id_ = 1 /\ insert_page_id_ \in PageIds
  /\ itr \in Rids \cup {EndItr}
  /\ freeing \in {"no", "running", "done"}
  /\ cur_page_id \in PageIds \cup {INVALID_PAGE_ID} /\ owned \subseteq PageIds
  /\ rows = [rid \in DOMAIN rows |-> rows[rid]]
  /\ DOMAIN rows \subseteq Rids /\ strays \subseteq Rids /\ owed \subseteq DOMAIN rows

TablePages == allocated \ {0}

(* What the pool finds on disk when it has dropped a clean page: the page  *)
(* as it is in memory, except for marks that UpdateTuple left unreported.  *)
CleanPage(p) ==
  /\ disk[p].next = mem[p].next
  /\ DOMAIN disk[p].slots = DOMAIN mem[p].slots
  /\ \A i \in DOMAIN mem[p].slots :
       \/ disk[p].slots[i] = mem[p].slots[i]
       \/ <<p, i>> \in strays /\ IsDeleted(mem[p].slots[i])

CleanPages == \A p \in PageIds \ dirty : CleanPage(p)

(* Only pages of the table have slots. *)
SlotsInTable ==
  /\ 0 \in allocated
  /\ \A p \in PageIds \ TablePages : DOMAIN mem[p].slots = {}

RowsLive ==
  \A rid \in DOMAIN rows :
    /\ rid[1] \in TablePages /\ rid[2] \in LiveSlots(rid[1])
    /\ mem[rid[1]].slots[rid[2]].row = rows[rid]

LiveKnown ==
  \A p \in TablePages : \A i \in LiveSlots(p) : <<p, i>> \in DOMAIN rows \cup strays

(* The pages P of memory m are s[1], ..., s[n], linked in this order. *)
PathOf(m, P, n, s) ==
  /\ s[1] = 1
  /\ \A i \in 1 .. n : m[s[i]].next = IF i < n THEN s[i + 1] ELSE INVALID_PAGE_ID
  /\ \A i, j \in 1 .. n : s[i] = s[j] => i = j
  /\ P = {s[i] : i \in 1 .. n}

IsPath(n, s) == PathOf(mem, TablePages, n, s)

Before(n, s, a, b) ==
  \E k, j \in 1 .. n : /\ s[k] = a[1] /\ s[j] = b[1]
                       /\ k < j \/ (k = j /\ a[2] < b[2])

(* What a scan still owes lies ahead of it. *)
OwedAhead(n, s) == \A rid \in owed : itr # EndItr /\ Before(n, s, itr, rid)

PathInv ==
  \E n \in 1 .. LastPageId : \E s \in [1 .. n -> PageIds] : IsPath(n, s) /\ OwedAhead(n, s)

UseInv ==
  Idle => /\ CleanPages /\ SlotsInTable /\ LiveKnown /\ PathInv
          /\ insert_page_id_ \in TablePages
          /\ itr # EndItr => itr[1] \in TablePages
          /\ owned = {} /\ cur_page_id = INVALID_PAGE_ID

(* FreeHeap of a heap of one page, before and after its only round.  *)
FreeInv ==
  ~Idle =>
    /\ itr = EndItr /\ DOMAIN rows = {}
    /\ freeing = "done" => cur_page_id = INVALID_PAGE_ID
    /\ owned = {first_page_id_} =>
         \/ /\ cur_page_id = first_page_id_ /\ allocated = {0, first_page_id_}
            /\ mem[first_page_id_].next = INVALID_PAGE_ID
            /\ first_page_id_ \notin dirty => disk[first_page_id_].next = INVALID_PAGE_ID
         \/ cur_page_id = INVALID_PAGE_ID /\ allocated = {0}

(* The inductive invariant. *)
IInv == TypesInv /\ RowsLive /\ UseInv /\ FreeInv
-----------------------------------------------------------------------------
(* Numbers. *)
LEMMA LeastNat ==
  ASSUME NEW T, T \subseteq Nat, T # {}
  PROVE  \E x \in T : \A y \in T : x <= y
<1>1. PICK x \in T : \A y \in T : ~(<<y, x>> \in OpToRel(<, Nat))
  BY WFMin, NatLessThanWellFounded, Zenon
<1>2. ASSUME NEW y \in T
      PROVE  x <= y
  <2>1. x \in Nat /\ y \in Nat
    BY Zenon
  <2>2. ~(y < x)
    BY <1>1, <2>1, Zenon DEF OpToRel
  <2> QED
    BY <2>1, <2>2
<1> QED
  BY <1>2, Zenon

(* Min finds the least element of a set of naturals. *)
LEMMA MinFacts ==
  ASSUME NEW T, T \subseteq Nat, T # {}
  PROVE  Min(T) \in T /\ \A y \in T : Min(T) <= y
BY LeastNat DEF Min

(* What the assumption says of the constants: every row fits into an empty *)
(* page.                                                                   *)
LEMMA ConstantFacts ==
  /\ PageSpace \in Nat /\ SIZE_TUPLE \in Nat \ {0} /\ LastPageId \in Nat \ {0}
  /\ PageIds = 0 .. LastPageId /\ INVALID_PAGE_ID \notin PageIds /\ PageIds \subseteq Nat
  /\ INVALID_PAGE_ID = -1
  /\ 0 \notin Rows /\ \A r \in Rows \cup {0} : r \in 0 .. PageSpace
  /\ \A r \in Rows : r \in Nat /\ r > 0 /\ r + SIZE_TUPLE <= PageSpace
BY TableHeapAssumption DEF PageIds, INVALID_PAGE_ID
-----------------------------------------------------------------------------
(***************************************************************************)
(* The free space of a page.  A sum of rows is the number of their bytes,  *)
(* counted as cells (slot, byte of its row).                               *)
(***************************************************************************)
Cells(sl, s) == {c \in s \X (1 .. PageSpace) : c[2] <= sl[c[1]].row}

(* A slot contributes as many cells as its row has bytes. *)
LEMMA CellsOfSlot ==
  ASSUME NEW sl, NEW s, IsFiniteSet(s), NEW x \in s, sl[x].row \in 0 .. PageSpace
  PROVE  /\ IsFiniteSet(Cells(sl, s)) /\ Cardinality(Cells(sl, s)) \in Nat
         /\ Cardinality(Cells(sl, s \ {x})) \in Nat
         /\ Cardinality(Cells(sl, s)) = sl[x].row + Cardinality(Cells(sl, s \ {x}))
<1> DEFINE n == sl[x].row
           here == {x} \X (1 .. n)
           rest == Cells(sl, s \ {x})
<1>1. n \in Nat /\ PageSpace \in Nat /\ n <= PageSpace
  BY ConstantFacts
<1>2. IsFiniteSet(1 .. PageSpace)
  BY <1>1, FS_Interval
<1>3. IsFiniteSet(s \X (1 .. PageSpace))
  BY <1>2, FS_Product
<1>4. Cells(sl, s) \in SUBSET (s \X (1 .. PageSpace)) /\ rest \in SUBSET (s \X (1 .. PageSpace))
  BY DEF Cells
<1>5. IsFiniteSet(Cells(sl, s)) /\ IsFiniteSet(rest)
  BY <1>3, <1>4, FS_Subset, Zenon
<1>6. IsFiniteSet({x}) /\ Cardinality({x}) = 1
  BY FS_Singleton
<1>7. Cells(sl, s) = here \cup rest /\ here \cap rest = {}
  <2>1. ASSUME NEW c \in Cells(sl, s)
        PROVE  c \in here \cup rest
    BY <1>1 DEF Cells
  <2>2. ASSUME NEW c \in here
        PROVE  c \in Cells(sl, s) /\ c \notin rest
    BY <1>1 DEF Cells
  <2>3. rest \subseteq Cells(sl, s)
    BY DEF Cells
  <2> QED
    BY <2>1, <2>2, <2>3, Zenon
<1> HIDE DEF n
<1>8. IsFiniteSet(1 .. n) /\ Cardinality(1 .. n) = n
  <2>1. IsFiniteSet(1 .. n) /\ Cardinality(1 .. n) = IF 1 > n THEN 0 ELSE n - 1 + 1
    <3>1. 1 \in Int /\ n \in Int
      BY <1>1
    <3> QED
      BY <3>1, FS_Interval, Zenon
  <2> QED
    BY <1>1, <2>1
<1>9. IsFiniteSet(here) /\ Cardinality(here) = Cardinality({x}) * Cardinality(1 .. n)
  BY <1>6, <1>8, FS_Product, Zenon
<1> HIDE DEF here, rest
<1>10. Cardinality(here \cup rest) = Cardinality(here) + Cardinality(rest) - Cardinality(here \cap rest)
  BY <1>5, <1>9, FS_Union, Zenon
<1>11. Cardinality(here) = n /\ Cardinality(here \cap rest) = 0
  <2>1. Cardinality(here) = 1 * n
    BY <1>6, <1>8, <1>9, Zenon
  <2>2. Cardinality({}) = 0
    BY FS_EmptySet, Zenon
  <2>3. 1 * n = n
    BY <1>1
  <2> QED
    BY <1>7, <2>1, <2>2, <2>3, Zenon DEF here, rest
<1>12. Cardinality(rest) \in Nat /\ Cardinality(Cells(sl, s)) \in Nat
  BY <1>5, FS_CardinalityType, Zenon
<1>13. Cardinality(Cells(sl, s)) = n + Cardinality(rest)
  BY <1>1, <1>7, <1>10, <1>11, <1>12
<1> QED
  BY <1>5, <1>12, <1>13 DEF n, rest

(* The fold that sums the rows counts the cells. *)
LEMMA SumOfRows ==
  ASSUME NEW sl, NEW D, IsFiniteSet(D), \A i \in D : sl[i].row \in 0 .. PageSpace
  PROVE  MapThenSumSet(LAMBDA i : sl[i].row, D) = Cardinality(Cells(sl, D))
<1> DEFINE One(s) == CHOOSE x \in s : TRUE
           Rec(it) == [s \in SUBSET D |->
                         IF s = {} THEN 0 ELSE sl[One(s)].row + it[s \ {One(s)}]]
           fold == CHOOSE it : it = Rec(it)
           w == [s \in SUBSET D |-> Cardinality(Cells(sl, s))]
<1>1. MapThenSumSet(LAMBDA i : sl[i].row, D) = fold[D]
  BY DEF MapThenSumSet, MapThenFoldSet
<1>2. \A s \in SUBSET D : s # {} => One(s) \in s
  OBVIOUS
<1>3. \A s \in SUBSET D : IsFiniteSet(s)
  BY FS_Subset
<1> HIDE DEF One
<1>4. w[{}] = 0
  <2>1. Cells(sl, {}) = {}
    BY DEF Cells
  <2> QED
    BY <2>1, FS_EmptySet
<1>5. ASSUME NEW s \in SUBSET D, s # {}
      PROVE  w[s] = sl[One(s)].row + w[s \ {One(s)}]
  <2>1. s \ {One(s)} \in SUBSET D
    OBVIOUS
  <2>2. One(s) \in s /\ IsFiniteSet(s) /\ sl[One(s)].row \in 0 .. PageSpace
    BY <1>2, <1>3, <1>5
  <2>3. Cardinality(Cells(sl, s)) = sl[One(s)].row + Cardinality(Cells(sl, s \ {One(s)}))
    BY <2>2, CellsOfSlot
  <2> QED
    BY <2>1, <2>3
<1>6. w = Rec(w)
  <2>1. ASSUME NEW s \in SUBSET D
        PROVE  w[s] = IF s = {} THEN 0 ELSE sl[One(s)].row + w[s \ {One(s)}]
    BY <1>4, <1>5
  <2>2. w = [s \in SUBSET D |-> w[s]]
    OBVIOUS
  <2> HIDE DEF w
  <2> QED
    BY <2>1, <2>2
<1> HIDE DEF w
<1>7. fold = Rec(fold)
  <2>1. \E it : it = Rec(it)
    BY <1>6
  <2> HIDE DEF Rec
  <2> QED
    BY <2>1
<1>8. \A s \in SUBSET D : fold[s] = IF s = {} THEN 0 ELSE sl[One(s)].row + fold[s \ {One(s)}]
  <2> HIDE DEF fold
  <2> QED
    BY <1>7
<1> HIDE DEF fold, Rec
<1>9. \A s \in SUBSET D : fold[s] = w[s]
  <2> SUFFICES ASSUME \E s \in SUBSET D : fold[s] # w[s]
               PROVE  FALSE
    OBVIOUS
  <2> DEFINE T == {Cardinality(s) : s \in {u \in SUBSET D : fold[u] # w[u]}}
  <2>1. T \subseteq Nat /\ T # {}
    BY <1>3, FS_CardinalityType
  <2>2. PICK k \in T : \A y \in T : k <= y
    BY <2>1, LeastNat
  <2>3. PICK s \in SUBSET D : fold[s] # w[s] /\ Cardinality(s) = k
    OBVIOUS
  <2>4. s # {}
    BY <1>4, <1>8, <2>3
  <2>5. One(s) \in s /\ s \ {One(s)} \in SUBSET D
    BY <1>2, <2>4
  <2>6. fold[s \ {One(s)}] # w[s \ {One(s)}]
    BY <1>5, <1>8, <2>3, <2>4
  <2>7. Cardinality(s \ {One(s)}) \in T
    BY <2>5, <2>6
  <2>8. Cardinality(s \ {One(s)}) = k - 1
    BY <1>3, <2>3, <2>5, FS_RemoveElement
  <2> HIDE DEF T
  <2> QED
    BY <2>1, <2>2, <2>7, <2>8
<1> QED
  BY <1>1, <1>9 DEF w

(* The bytes of the rows of a page. *)
Bytes(page) == Cardinality(Cells(page.slots, DOMAIN page.slots))

(* The slots of a page are numbered from one, and their rows are no larger *)
(* than a page.                                                            *)
LEMMA PageFacts ==
  ASSUME NEW page \in PageType
  PROVE  /\ DOMAIN page.slots = 1 .. Len(page.slots) /\ Len(page.slots) \in Nat
         /\ IsFiniteSet(DOMAIN page.slots)
         /\ Cardinality(DOMAIN page.slots) = Len(page.slots)
         /\ \A i \in DOMAIN page.slots : /\ page.slots[i] \in SlotType
                                         /\ page.slots[i].row \in 0 .. PageSpace
<1>1. page.slots \in Seq(SlotType)
  BY DEF PageType
<1>2. DOMAIN page.slots = 1 .. Len(page.slots) /\ Len(page.slots) \in Nat
  BY <1>1
<1>3. \A i \in DOMAIN page.slots : page.slots[i] \in SlotType
  BY <1>1
<1>4. IsFiniteSet(1 .. Len(page.slots)) /\ Cardinality(1 .. Len(page.slots)) = Len(page.slots)
  <2> DEFINE n == Len(page.slots)
  <2>1. n \in Nat /\ n \in Int /\ 1 \in Int
    BY <1>2
  <2> HIDE DEF n
  <2>2. IsFiniteSet(1 .. n) /\ Cardinality(1 .. n) = IF 1 > n THEN 0 ELSE n - 1 + 1
    BY <2>1, FS_Interval, Zenon
  <2>3. Cardinality(1 .. n) = n
    BY <2>1, <2>2
  <2> QED
    BY <2>2, <2>3 DEF n
<1> QED
  BY <1>2, <1>3, <1>4, ConstantFacts DEF SlotType

(* The free space of a page is what its slots and the bytes of its rows    *)
(* leave.                                                                  *)
LEMMA FreeSpaceOf ==
  ASSUME NEW page \in PageType
  PROVE  /\ Bytes(page) \in Nat /\ SIZE_TUPLE * Len(page.slots) \in Nat
         /\ FreeSpace(page) = PageSpace - SIZE_TUPLE * Len(page.slots) - Bytes(page)
         /\ FreeSpace(page) \in Int
<1>1. IsFiniteSet(DOMAIN page.slots) /\ \A i \in DOMAIN page.slots : page.slots[i].row \in 0 .. PageSpace
  BY PageFacts
<1> DEFINE sl == page.slots
           D == DOMAIN sl
<1>2. MapThenSumSet(LAMBDA i : sl[i].row, D) = Cardinality(Cells(sl, D))
  BY <1>1, SumOfRows, Zenon
<1>3. Cardinality(Cells(sl, D)) \in Nat
  <2>1. CASE D = {}
    <3>1. Cells(sl, D) = {}
      BY <2>1 DEF Cells
    <3>2. 0 \in Nat
      OBVIOUS
    <3> QED
      BY <3>1, <3>2, FS_EmptySet, Zenon
  <2>2. CASE D # {}
    BY <1>1, <2>2, CellsOfSlot
  <2> QED
    BY <2>1, <2>2
<1>4. FreeSpace(page) = PageSpace - SIZE_TUPLE * Len(page.slots) - Bytes(page)
  BY <1>2, Zenon DEF FreeSpace, Bytes
<1>5. SIZE_TUPLE * Len(page.slots) \in Nat
  BY PageFacts, ConstantFacts
<1> QED
  BY <1>3, <1>4, <1>5, ConstantFacts DEF Bytes

(* A slot gets other content. *)
LEMMA SlotChanged ==
  ASSUME NEW page \in PageType, NEW i \in DOMAIN page.slots, NEW slot \in SlotType
  PROVE  LET new == WithSlot(page, i, slot) IN
         /\ new \in PageType /\ new.next = page.next
         /\ new.slots = [page.slots EXCEPT ![i] = slot]
         /\ Len(new.slots) = Len(page.slots)
         /\ FreeSpace(new) = FreeSpace(page) + page.slots[i].row - slot.row
<1> DEFINE new == WithSlot(page, i, slot)
           D == DOMAIN page.slots
<1>1. page = [next |-> page.next, slots |-> page.slots] /\ page.slots \in Seq(SlotType)
  BY DEF PageType
<1>2. new.slots = [k \in D \cup {i} |-> IF k = i THEN slot ELSE page.slots[k]] /\ new.next = page.next
      /\ new = [next |-> new.next, slots |-> new.slots]
  BY <1>1 DEF WithSlot
<1>3. new.slots = [page.slots EXCEPT ![i] = slot]
  BY <1>1, <1>2
<1>4. new.slots \in Seq(SlotType) /\ Len(new.slots) = Len(page.slots) /\ DOMAIN new.slots = D
  BY <1>1, <1>3
<1>5. new \in PageType
  BY <1>2, <1>4 DEF PageType
<1> HIDE DEF new
<1>6. IsFiniteSet(D) /\ page.slots[i].row \in 0 .. PageSpace /\ new.slots[i].row \in 0 .. PageSpace
  BY <1>4, <1>5, PageFacts
<1>7. /\ Cardinality(Cells(page.slots, D)) = page.slots[i].row + Cardinality(Cells(page.slots, D \ {i}))
      /\ Cardinality(Cells(page.slots, D \ {i})) \in Nat
      /\ Cardinality(Cells(new.slots, D)) = new.slots[i].row + Cardinality(Cells(new.slots, D \ {i}))
  <2>1. i \in D
    OBVIOUS
  <2>2. \A sl : sl[i].row \in 0 .. PageSpace =>
           /\ Cardinality(Cells(sl, D)) = sl[i].row + Cardinality(Cells(sl, D \ {i}))
           /\ Cardinality(Cells(sl, D \ {i})) \in Nat
    <3> HIDE DEF D
    <3> QED BY <1>6, <2>1, CellsOfSlot
  <2> QED
    BY <1>6, <2>2, Zenon
<1>9. Cells(new.slots, D \ {i}) = Cells(page.slots, D \ {i})
  BY <1>3 DEF Cells
<1>10. new.slots[i] = slot
  BY <1>3
<1>11. Bytes(new) = Bytes(page) - page.slots[i].row + slot.row
  BY <1>4, <1>6, <1>7, <1>9, <1>10 DEF Bytes
<1>12. FreeSpace(new) = FreeSpace(page) + page.slots[i].row - slot.row
  <2> DEFINE a == SIZE_TUPLE * Len(page.slots)
             b == Bytes(page)
  <2>1. b \in Nat /\ a \in Nat /\ FreeSpace(page) = PageSpace - a - b
    BY FreeSpaceOf
  <2>2. FreeSpace(new) = PageSpace - a - Bytes(new)
    BY <1>4, <1>5, FreeSpaceOf, Zenon
  <2> HIDE DEF a, b
  <2>3. Bytes(new) = b - page.slots[i].row + slot.row
    BY <1>11 DEF b
  <2>4. slot.row \in Int /\ page.slots[i].row \in Int /\ PageSpace \in Int
    BY <1>6, <1>10, ConstantFacts
  <2> QED
    BY <2>1, <2>2, <2>3, <2>4
<1> QED
  BY <1>2, <1>3, <1>4, <1>5, <1>12 DEF new

(* A slot is added to the directory. *)
LEMMA SlotAdded ==
  ASSUME NEW page \in PageType, NEW slot \in SlotType
  PROVE  LET new == WithSlot(page, Len(page.slots) + 1, slot) IN
         /\ new \in PageType /\ new.next = page.next
         /\ new.slots = Append(page.slots, slot)
         /\ FreeSpace(new) = FreeSpace(page) - SIZE_TUPLE - slot.row
<1> DEFINE i == Len(page.slots) + 1
           new == WithSlot(page, i, slot)
           D == DOMAIN page.slots
<1>1. page = [next |-> page.next, slots |-> page.slots] /\ page.slots \in Seq(SlotType)
  BY DEF PageType
<1>2. new.slots = [k \in D \cup {i} |-> IF k = i THEN slot ELSE page.slots[k]] /\ new.next = page.next
      /\ new = [next |-> new.next, slots |-> new.slots]
  BY <1>1 DEF WithSlot
<1>3. new.slots = Append(page.slots, slot)
  <2>1. D = 1 .. Len(page.slots) /\ Len(page.slots) \in Nat
    BY <1>1
  <2>2. D \cup {i} = 1 .. i
    BY <2>1
  <2>3. Append(page.slots, slot) = [k \in 1 .. i |-> IF k = i THEN slot ELSE page.slots[k]]
    BY <1>1, <2>1
  <2> QED
    BY <1>2, <2>2, <2>3
<1>4. new.slots \in Seq(SlotType) /\ Len(new.slots) = i
  BY <1>1, <1>3
<1>5. new \in PageType
  BY <1>2, <1>4 DEF PageType
<1>6. DOMAIN new.slots = D \cup {i} /\ i \notin D /\ (D \cup {i}) \ {i} = D
  BY <1>1, <1>2
<1>7. new.slots[i] = slot /\ \A k \in D : new.slots[k] = page.slots[k]
  BY <1>2, <1>6
<1> HIDE DEF new
<1>8. IsFiniteSet(DOMAIN new.slots) /\ new.slots[i].row \in 0 .. PageSpace
  BY <1>5, <1>6, PageFacts
<1> HIDE DEF i
<1>9. Cardinality(Cells(new.slots, DOMAIN new.slots)) = slot.row + Cardinality(Cells(new.slots, D))
  <2>1. i \in DOMAIN new.slots /\ DOMAIN new.slots \ {i} = D
    BY <1>6
  <2> QED
    BY <1>7, <1>8, <2>1, CellsOfSlot
<1>10. Cells(new.slots, D) = Cells(page.slots, D)
  BY <1>7 DEF Cells
<1>11. Bytes(new) = slot.row + Bytes(page)
  BY <1>9, <1>10 DEF Bytes
<1>12. FreeSpace(new) = FreeSpace(page) - SIZE_TUPLE - slot.row
  <2> DEFINE n == Len(page.slots)
             a == SIZE_TUPLE * n
             b == Bytes(page)
  <2>1. b \in Nat /\ a \in Nat /\ FreeSpace(page) = PageSpace - a - b
    BY FreeSpaceOf
  <2>2. FreeSpace(new) = PageSpace - SIZE_TUPLE * (n + 1) - Bytes(new)
    BY <1>4, <1>5, FreeSpaceOf, Zenon DEF i
  <2>3. n \in Nat /\ SIZE_TUPLE \in Nat /\ PageSpace \in Nat
    BY PageFacts, ConstantFacts
  <2> HIDE DEF n
  <2>4. SIZE_TUPLE * (n + 1) = a + SIZE_TUPLE
    BY <2>3
  <2>5. Bytes(new) = slot.row + b
    BY <1>11
  <2>6. slot.row \in 0 .. PageSpace
    BY <1>7, <1>8
  <2> HIDE DEF a, b
  <2> QED
    BY <2>1, <2>2, <2>3, <2>4, <2>5, <2>6
<1> QED
  BY <1>2, <1>3, <1>5, <1>12 DEF new, i

(* Without empty slots, the rows have at least as many bytes as slots. *)
LEMMA FullSlots ==
  ASSUME NEW page \in PageType, \A i \in DOMAIN page.slots : page.slots[i].row # 0
  PROVE  Len(page.slots) <= Bytes(page)
<1> DEFINE D == DOMAIN page.slots
           cells == Cells(page.slots, D)
<1>1. IsFiniteSet(D) /\ Cardinality(D) = Len(page.slots) /\ Len(page.slots) \in Nat
      /\ \A i \in D : page.slots[i].row \in 0 .. PageSpace
  BY PageFacts
<1>2. IsFiniteSet({1}) /\ Cardinality({1}) = 1
  BY FS_Singleton
<1>3. IsFiniteSet(D \X {1}) /\ Cardinality(D \X {1}) = Cardinality(D) * Cardinality({1})
  BY <1>1, <1>2, FS_Product, Zenon
<1>4. Cardinality(D \X {1}) = Len(page.slots)
  BY <1>1, <1>2, <1>3
<1>5. \A i \in D : page.slots[i].row >= 1 /\ PageSpace >= 1
  BY <1>1, ConstantFacts
<1>6. D \X {1} \in SUBSET cells
  <2>1. ASSUME NEW c \in D \X {1}
        PROVE  c \in cells
    <3>1. c[1] \in D /\ c[2] = 1 /\ c = <<c[1], c[2]>>
      OBVIOUS
    <3>2. 1 \in 1 .. PageSpace /\ c[2] <= page.slots[c[1]].row
      BY <1>1, <1>5, <3>1, ConstantFacts
    <3> QED
      BY <3>1, <3>2 DEF Cells
  <2> QED
    BY <2>1
<1>7. IsFiniteSet(cells)
  <2>1. PageSpace \in Int /\ 1 \in Int
    BY ConstantFacts
  <2>2. IsFiniteSet(1 .. PageSpace)
    BY <2>1, FS_Interval, Zenon
  <2>3. IsFiniteSet(D \X (1 .. PageSpace))
    BY <1>1, <2>2, FS_Product, Zenon
  <2>4. cells \in SUBSET (D \X (1 .. PageSpace))
    BY DEF Cells
  <2> QED
    BY <2>3, <2>4, FS_Subset, Zenon
<1>8. Cardinality(D \X {1}) <= Cardinality(cells)
  BY <1>6, <1>7, FS_Subset, Zenon
<1> QED
  BY <1>4, <1>8, Zenon DEF Bytes

(* As many slots as a page may have. *)
LEMMA SlotBound ==
  ASSUME NEW n \in Nat, n * (SIZE_TUPLE + 1) <= PageSpace
  PROVE  n <= PageSpace \div (SIZE_TUPLE + 1)
<1> DEFINE a == SIZE_TUPLE + 1
           q == PageSpace \div a
<1>1. a \in Nat \ {0} /\ PageSpace \in Nat
  BY ConstantFacts
<1> HIDE DEF a
<1>2. q \in Nat /\ PageSpace < (q + 1) * a
  BY <1>1
<1> HIDE DEF q
<1>3. n * a <= PageSpace
  BY DEF a
<1>4. ~(n >= q + 1)
  <2> SUFFICES ASSUME n >= q + 1 PROVE FALSE
    OBVIOUS
  <2>1. n * a >= (q + 1) * a
    BY <1>1, <1>2
  <2> QED
    BY <1>1, <1>2, <1>3, <2>1
<1>5. n <= q
  BY <1>2, <1>4
<1> QED
  BY <1>5 DEF q, a

(* Replacing a row by one that fits keeps a page in order. *)
LEMMA ReplacedGood ==
  ASSUME NEW page, GoodPage(page), NEW i \in DOMAIN page.slots, NEW slot \in SlotType,
         slot.row <= FreeSpace(page) + page.slots[i].row,
         slot.deleted => slot.row # 0
  PROVE  LET new == WithSlot(page, i, slot) IN
         /\ GoodPage(new) /\ new.next = page.next
         /\ new.slots = [page.slots EXCEPT ![i] = slot]
         /\ DOMAIN new.slots = DOMAIN page.slots
<1> DEFINE new == WithSlot(page, i, slot)
<1>1. page \in PageType
  BY DEF GoodPage
<1>2. /\ new \in PageType /\ new.next = page.next
      /\ new.slots = [page.slots EXCEPT ![i] = slot]
      /\ Len(new.slots) = Len(page.slots)
      /\ FreeSpace(new) = FreeSpace(page) + page.slots[i].row - slot.row
  BY <1>1, SlotChanged
<1> HIDE DEF new
<1>3. page.slots[i].row \in Int /\ slot.row \in Int /\ FreeSpace(page) \in Int
  BY <1>1, PageFacts, FreeSpaceOf, ConstantFacts DEF SlotType
<1>4. FreeSpace(new) >= 0
  BY <1>2, <1>3
<1>5. \A k \in DOMAIN new.slots : new.slots[k].deleted => new.slots[k].row # 0
  BY <1>1, <1>2 DEF GoodPage
<1>6. Len(new.slots) * (SIZE_TUPLE + 1) <= PageSpace
  BY <1>2, Zenon DEF GoodPage
<1>7. GoodPage(new)
  BY <1>2, <1>4, <1>5, <1>6 DEF GoodPage
<1> QED
  BY <1>2, <1>7 DEF new

(* The slot that InsertTuple uses. *)
LEMMA SlotForFacts ==
  ASSUME NEW page \in PageType
  PROVE  \/ /\ SlotFor(page) \in DOMAIN page.slots
            /\ page.slots[SlotFor(page)].row = 0
         \/ /\ SlotFor(page) = Len(page.slots) + 1
            /\ \A i \in DOMAIN page.slots : page.slots[i].row # 0
<1> DEFINE empty == {i \in DOMAIN page.slots : page.slots[i].row = 0}
           T == empty \cup {Len(page.slots) + 1}
<1>1. DOMAIN page.slots = 1 .. Len(page.slots) /\ Len(page.slots) \in Nat
  BY PageFacts
<1>2. T \subseteq Nat /\ T # {}
  BY <1>1
<1>3. Min(T) \in T /\ \A y \in T : Min(T) <= y
  BY <1>2, MinFacts
<1>4. SlotFor(page) = Min(T)
  BY DEF SlotFor
<1>5. Min(T) = Len(page.slots) + 1 => empty = {}
  <2> SUFFICES ASSUME Min(T) = Len(page.slots) + 1, NEW i \in empty PROVE FALSE
    OBVIOUS
  <2>1. i \in T /\ i <= Len(page.slots) /\ i \in Nat
    BY <1>1
  <2>2. Min(T) <= i
    BY <1>3, <2>1, Zenon
  <2>3. Len(page.slots) + 1 <= i
    BY <2>2, Zenon
  <2> QED
    BY <1>1, <2>1, <2>3
<1> QED
  BY <1>3, <1>4, <1>5

(* A row is put into a page that has room for it. *)
LEMMA PutGood ==
  ASSUME NEW page, GoodPage(page), NEW r \in Rows, HasRoom(page, r)
  PROVE  LET i == SlotFor(page)
             slot == [row |-> r, deleted |-> FALSE]
             new == WithSlot(page, i, slot)
         IN /\ GoodPage(new) /\ new.next = page.next
            /\ DOMAIN new.slots = DOMAIN page.slots \cup {i}
            /\ new.slots[i] = slot
            /\ \A k \in DOMAIN page.slots \ {i} : new.slots[k] = page.slots[k]
            /\ i \in DOMAIN page.slots => page.slots[i].row = 0
            /\ i \in 1 .. PageSpace \div (SIZE_TUPLE + 1)
<1> DEFINE i == SlotFor(page)
           slot == [row |-> r, deleted |-> FALSE]
           new == WithSlot(page, i, slot)
<1>1. page \in PageType
  BY DEF GoodPage
<1>2. slot \in SlotType /\ r \in Nat /\ r > 0 /\ slot.row = r /\ ~slot.deleted
  BY ConstantFacts DEF SlotType
<1>3. FreeSpace(page) \in Int /\ FreeSpace(page) >= r + SIZE_TUPLE /\ SIZE_TUPLE \in Nat \ {0}
      /\ PageSpace \in Nat
  BY <1>1, FreeSpaceOf, ConstantFacts DEF HasRoom
<1>4. DOMAIN page.slots = 1 .. Len(page.slots) /\ Len(page.slots) \in Nat
  BY <1>1, PageFacts
<1> HIDE DEF slot
<1>5. CASE i \in DOMAIN page.slots /\ page.slots[i].row = 0
  <2> HIDE DEF i
  <2>1. slot.row <= FreeSpace(page) + page.slots[i].row
    BY <1>2, <1>3, <1>5
  <2>2. GoodPage(new) /\ new.next = page.next /\ new.slots = [page.slots EXCEPT ![i] = slot]
        /\ DOMAIN new.slots = DOMAIN page.slots
    BY <1>2, <1>5, <2>1, ReplacedGood
  <2>3. Len(page.slots) <= PageSpace \div (SIZE_TUPLE + 1)
    BY <1>4, SlotBound DEF GoodPage
  <2>4. i \in 1 .. PageSpace \div (SIZE_TUPLE + 1)
    <3> DEFINE q == PageSpace \div (SIZE_TUPLE + 1)
    <3>1. q \in Int
      BY <1>3
    <3> HIDE DEF q
    <3>2. Len(page.slots) <= q
      BY <2>3 DEF q
    <3>3. i \in 1 .. q
      BY <1>4, <1>5, <3>1, <3>2
    <3> QED BY <3>3 DEF q
  <2> HIDE DEF new
  <2>5. DOMAIN new.slots = DOMAIN page.slots \cup {i} /\ new.slots[i] = slot
        /\ \A k \in DOMAIN page.slots \ {i} : new.slots[k] = page.slots[k]
    BY <1>1, <1>5, <2>2
  <2> QED
    BY <1>5, <2>2, <2>4, <2>5 DEF new, i, slot
<1>6. CASE i = Len(page.slots) + 1 /\ \A k \in DOMAIN page.slots : page.slots[k].row # 0
  <2> DEFINE n == Len(page.slots)
  <2>1. /\ new \in PageType /\ new.next = page.next /\ new.slots = Append(page.slots, slot)
        /\ FreeSpace(new) = FreeSpace(page) - SIZE_TUPLE - slot.row
    BY <1>1, <1>2, <1>6, SlotAdded
  <2>2. FreeSpace(new) >= 0
    BY <1>2, <1>3, <2>1
  <2>3. (n + 1) * (SIZE_TUPLE + 1) <= PageSpace
    <3>1. n <= Bytes(page) /\ Bytes(page) \in Nat /\ SIZE_TUPLE * n \in Nat
          /\ FreeSpace(page) = PageSpace - SIZE_TUPLE * n - Bytes(page)
      BY <1>1, <1>6, FullSlots, FreeSpaceOf, Zenon
    <3> HIDE DEF n
    <3>2. n \in Nat
      BY <1>4 DEF n
    <3>3. (n + 1) * (SIZE_TUPLE + 1) = SIZE_TUPLE * n + n + SIZE_TUPLE + 1
      BY <1>3, <3>2
    <3> QED
      BY <1>2, <1>3, <3>1, <3>2, <3>3
  <2>4. page.slots \in Seq(SlotType)
    BY <1>1 DEF PageType
  <2> HIDE DEF i
  <2>5. /\ DOMAIN new.slots = DOMAIN page.slots \cup {i} /\ new.slots[i] = slot
        /\ Len(new.slots) = n + 1 /\ i \notin DOMAIN page.slots
        /\ \A k \in DOMAIN page.slots \ {i} : new.slots[k] = page.slots[k]
    <3> HIDE DEF new
    <3> QED BY <1>2, <1>4, <1>6, <2>1, <2>4
  <2> HIDE DEF new
  <2>6. \A k \in DOMAIN new.slots : new.slots[k].deleted => new.slots[k].row # 0
    BY <1>2, <2>5 DEF GoodPage
  <2>7. GoodPage(new)
    BY <2>1, <2>2, <2>3, <2>5, <2>6 DEF GoodPage
  <2>8. i \in 1 .. PageSpace \div (SIZE_TUPLE + 1)
    <3> DEFINE q == PageSpace \div (SIZE_TUPLE + 1)
    <3>1. q \in Int
      BY <1>3
    <3>2. n + 1 \in Nat
      BY <1>4
    <3>3. n + 1 <= q
      BY <2>3, <3>2, SlotBound
    <3> HIDE DEF q
    <3>4. i \in 1 .. q
      BY <1>4, <1>6, <3>1, <3>3
    <3> QED BY <3>4 DEF q
  <2> QED
    BY <2>1, <2>5, <2>7, <2>8 DEF new, i, slot
<1> QED
  BY <1>1, <1>5, <1>6, SlotForFacts, Zenon
-----------------------------------------------------------------------------
(***************************************************************************)
(* The chain of a table's pages.  Chain(s[k]) goes through s[k], s[k + 1], *)
(* and so on to s[n], and stays at INVALID_PAGE_ID from there on.          *)
(***************************************************************************)
LEMMA ChainIs ==
  ASSUME NEW n \in 1 .. LastPageId, NEW s \in [1 .. n -> PageIds], IsPath(n, s),
         NEW k \in 1 .. n
  PROVE  \A m \in 0 .. LastPageId + 1 :
           Chain(s[k])[m] = IF k + m <= n THEN s[k + m] ELSE INVALID_PAGE_ID
<1> DEFINE D == 0 .. LastPageId + 1
           Rec(at) == [m \in D |-> IF m = 0 THEN s[k]
                                   ELSE IF at[m - 1] = INVALID_PAGE_ID THEN INVALID_PAGE_ID
                                   ELSE mem[at[m - 1]].next]
           fold == CHOOSE at : at = Rec(at)
           w == [m \in D |-> IF k + m <= n THEN s[k + m] ELSE INVALID_PAGE_ID]
<1>1. Chain(s[k]) = fold
  BY DEF Chain
<1>2. n \in Nat /\ k \in 1 .. n /\ LastPageId \in Nat /\ \A m \in D : m \in Nat
  BY ConstantFacts
<1>3. w[0] = s[k]
  BY <1>2
<1>4. ASSUME NEW m \in D, m # 0
      PROVE  w[m] = IF w[m - 1] = INVALID_PAGE_ID THEN INVALID_PAGE_ID ELSE mem[w[m - 1]].next
  <2>1. m - 1 \in D /\ m \in Nat /\ m - 1 \in Nat
    BY <1>2, <1>4
  <2>2. CASE k + m <= n
    <3>1. k + (m - 1) \in 1 .. n /\ k + (m - 1) < n /\ k + (m - 1) + 1 = k + m
      BY <1>2, <2>1, <2>2
    <3>2. w[m - 1] = s[k + (m - 1)] /\ w[m] = s[k + m]
      BY <2>1, <2>2, <3>1
    <3>3. w[m - 1] # INVALID_PAGE_ID
      BY <3>1, <3>2, ConstantFacts
    <3>4. mem[s[k + (m - 1)]].next = s[k + m]
      BY <3>1 DEF IsPath, PathOf
    <3> HIDE DEF w
    <3> QED
      BY <3>2, <3>3, <3>4
  <2>3. CASE k + m = n + 1
    <3>1. k + (m - 1) = n /\ n \in 1 .. n /\ ~(k + m <= n)
      BY <1>2, <2>1, <2>3
    <3>2. w[m - 1] = s[n] /\ w[m] = INVALID_PAGE_ID
      BY <2>1, <3>1
    <3>3. mem[s[n]].next = INVALID_PAGE_ID
      BY <3>1 DEF IsPath, PathOf
    <3> HIDE DEF w
    <3> QED
      BY <3>2, <3>3
  <2>4. CASE k + m > n + 1
    <3>1. ~(k + (m - 1) <= n) /\ ~(k + m <= n)
      BY <1>2, <2>1, <2>4
    <3> QED
      BY <2>1, <3>1
  <2> QED
    BY <1>2, <2>1, <2>2, <2>3, <2>4
<1>5. w = Rec(w)
  <2>1. w = [m \in D |-> w[m]]
    OBVIOUS
  <2> HIDE DEF w
  <2> QED
    BY <1>3, <1>4, <2>1
<1>6. fold = Rec(fold)
  <2>1. \E at : at = Rec(at)
    BY <1>5
  <2> HIDE DEF Rec
  <2> QED
    BY <2>1
<1>7. /\ fold[0] = s[k]
      /\ \A m \in D : m # 0 => fold[m] = IF fold[m - 1] = INVALID_PAGE_ID THEN INVALID_PAGE_ID
                                         ELSE mem[fold[m - 1]].next
  <2> HIDE DEF fold
  <2>1. 0 \in D
    BY <1>2
  <2> QED
    BY <1>6, <2>1
<1> HIDE DEF fold, Rec, w
<1>8. \A m \in D : fold[m] = w[m]
  <2> SUFFICES ASSUME \E m \in D : fold[m] # w[m]
               PROVE  FALSE
    OBVIOUS
  <2> DEFINE T == {m \in D : fold[m] # w[m]}
  <2>1. T \subseteq Nat /\ T # {}
    BY <1>2
  <2>2. PICK m \in T : \A y \in T : m <= y
    BY <2>1, LeastNat
  <2>3. m # 0 /\ m \in D
    BY <1>3, <1>7
  <2>4. m - 1 \in D /\ m \in Nat
    BY <1>2, <2>3
  <2>5. m - 1 \notin T
    <3> HIDE DEF T
    <3> QED BY <2>2, <2>4
  <2>6. fold[m - 1] = w[m - 1]
    BY <2>4, <2>5
  <2>7. fold[m] = w[m]
    BY <1>4, <1>7, <2>3, <2>6
  <2> QED
    BY <2>7
<1> QED
  BY <1>1, <1>8 DEF w

(* What the chain means for the operations that walk it. *)
LEMMA PathFacts ==
  ASSUME NEW n \in 1 .. LastPageId, NEW s \in [1 .. n -> PageIds], IsPath(n, s),
         first_page_id_ = 1
  PROVE  /\ Chain(first_page_id_)[LastPageId + 1] = INVALID_PAGE_ID
         /\ HeapPages = TablePages
         /\ \A k \in 1 .. n : Position(<<s[k]>>) = k - 1
<1>1. n \in Nat /\ 1 \in 1 .. n /\ s[1] = first_page_id_ /\ LastPageId \in Nat
  BY ConstantFacts DEF IsPath, PathOf
<1> DEFINE path == Chain(first_page_id_)
<1>2. \A m \in 0 .. LastPageId + 1 : path[m] = IF 1 + m <= n THEN s[1 + m] ELSE INVALID_PAGE_ID
  BY <1>1, ChainIs
<1> HIDE DEF path
<1>3. path[LastPageId + 1] = INVALID_PAGE_ID
  BY <1>1, <1>2
<1>4. HeapPages = TablePages
  <2>1. ASSUME NEW m \in 0 .. LastPageId, path[m] # INVALID_PAGE_ID
        PROVE  path[m] \in {s[i] : i \in 1 .. n}
    <3>1. 1 + m <= n /\ path[m] = s[1 + m]
      BY <1>1, <1>2, <2>1
    <3>2. 1 + m \in 1 .. n
      BY <1>1, <3>1
    <3> QED
      BY <3>1, <3>2
  <2>2. ASSUME NEW i \in 1 .. n
        PROVE  i - 1 \in 0 .. LastPageId /\ path[i - 1] = s[i] /\ s[i] # INVALID_PAGE_ID
    <3>1. i - 1 \in 0 .. LastPageId /\ i - 1 \in 0 .. LastPageId + 1 /\ 1 + (i - 1) = i /\ i <= n
      BY <1>1
    <3> QED
      BY <1>2, <3>1, ConstantFacts
  <2>3. TablePages = {s[i] : i \in 1 .. n}
    BY DEF IsPath, PathOf
  <2>4. HeapPages = {path[m] : m \in 0 .. LastPageId} \ {INVALID_PAGE_ID}
    BY DEF HeapPages, path
  <2> QED
    BY <2>1, <2>2, <2>3, <2>4
<1>5. ASSUME NEW k \in 1 .. n
      PROVE  Position(<<s[k]>>) = k - 1
  <2>1. ASSUME NEW m \in 0 .. LastPageId
        PROVE  path[m] = s[k] <=> m = k - 1
    <3>1. CASE 1 + m <= n
      <4>1. 1 + m \in 1 .. n /\ path[m] = s[1 + m]
        BY <1>1, <1>2, <3>1
      <4>2. s[1 + m] = s[k] <=> 1 + m = k
        BY <4>1 DEF IsPath, PathOf
      <4> QED
        BY <1>1, <4>1, <4>2
    <3>2. CASE ~(1 + m <= n)
      <4>1. path[m] = INVALID_PAGE_ID /\ m # k - 1
        BY <1>1, <1>2, <3>2
      <4> QED
        BY <4>1, ConstantFacts
    <3> QED
      BY <3>1, <3>2
  <2>2. k - 1 \in 0 .. LastPageId
    BY <1>1
  <2>3. Position(<<s[k]>>) = CHOOSE m \in 0 .. LastPageId : path[m] = s[k]
    BY DEF Position, path
  <2> QED
    BY <2>1, <2>2, <2>3
<1> QED
  BY <1>3, <1>4, <1>5 DEF path

(* From page s[k] on, the last page of the chain is s[n]. *)
LEMMA LastIs ==
  ASSUME NEW n \in 1 .. LastPageId, NEW s \in [1 .. n -> PageIds], IsPath(n, s),
         NEW k \in 1 .. n, insert_page_id_ = s[k]
  PROVE  LastOfChain = s[n]
<1> DEFINE path == Chain(insert_page_id_)
           T == {m \in 0 .. LastPageId : path[m] # INVALID_PAGE_ID}
<1>1. n \in Nat /\ LastPageId \in Nat /\ k \in Nat /\ k <= n /\ n <= LastPageId
  BY ConstantFacts
<1>2. \A m \in 0 .. LastPageId + 1 : path[m] = IF k + m <= n THEN s[k + m] ELSE INVALID_PAGE_ID
  BY ChainIs
<1> HIDE DEF path
<1>3. n - k \in T
  <2>1. n - k \in 0 .. LastPageId /\ n - k \in 0 .. LastPageId + 1 /\ k + (n - k) = n /\ n \in 1 .. n
    BY <1>1
  <2>2. path[n - k] = s[n]
    BY <1>1, <1>2, <2>1
  <2> QED
    BY <2>1, <2>2, ConstantFacts
<1>4. \A m \in T : m \in Nat /\ m <= n - k
  BY <1>1, <1>2
<1>5. Max(T) = n - k
  <2> HIDE DEF T
  <2>1. \A m \in T : (\A y \in T : m >= y) <=> m = n - k
    BY <1>1, <1>3, <1>4
  <2> QED
    BY <1>3, <2>1 DEF Max
<1>6. path[n - k] = s[n]
  <2>1. n - k \in 0 .. LastPageId + 1 /\ k + (n - k) = n
    BY <1>1
  <2> QED
    BY <1>1, <1>2, <2>1
<1> QED
  BY <1>5, <1>6 DEF LastOfChain, path

(* A path has no more pages than the disk, page 0 aside. *)
LEMMA PathIsShort ==
  ASSUME NEW n \in Nat, NEW s \in [1 .. n -> 1 .. LastPageId],
         \A i, j \in 1 .. n : s[i] = s[j] => i = j
  PROVE  n <= LastPageId
<1>1. LastPageId \in Nat /\ LastPageId \in Int /\ 1 \in Int /\ n \in Int
  BY ConstantFacts
<1>2. s \in Injection(1 .. n, 1 .. LastPageId)
  BY DEF Injection, IsInjective
<1>3. IsFiniteSet(1 .. LastPageId)
      /\ Cardinality(1 .. LastPageId) = IF 1 > LastPageId THEN 0 ELSE LastPageId - 1 + 1
  BY <1>1, FS_Interval, Zenon
<1>4. Cardinality(1 .. n) = IF 1 > n THEN 0 ELSE n - 1 + 1
  BY <1>1, FS_Interval, Zenon
<1>5. Cardinality(1 .. n) <= Cardinality(1 .. LastPageId)
  BY <1>2, <1>3, FS_Injection, Zenon
<1>6. Cardinality(1 .. n) = n /\ Cardinality(1 .. LastPageId) = LastPageId
  BY <1>1, <1>3, <1>4
<1> QED
  BY <1>5, <1>6, Zenon

(* A path through the pages P of memory m that begins with s[1], ..., s[n].*)
LongerPath(m, P, n, s) ==
  \E n2 \in 1 .. LastPageId : \E t \in [1 .. n2 -> PageIds] :
    PathOf(m, P, n2, t) /\ \A i \in 1 .. n : i \in 1 .. n2 /\ t[i] = s[i]

(* A new page is linked at the end. *)
LEMMA LinkedPath ==
  ASSUME NEW n \in 1 .. LastPageId, NEW s \in [1 .. n -> PageIds], IsPath(n, s),
         NEW new \in PageIds \ allocated, 0 \in allocated,
         NEW m, m[new] = FreshPage, m[s[n]].next = new,
         \A p \in PageIds \ {new, s[n]} : m[p] = mem[p]
  PROVE  LongerPath(m, TablePages \cup {new}, n, s)
<1> DEFINE t == [i \in 1 .. n + 1 |-> IF i <= n THEN s[i] ELSE new]
<1>1. n \in Nat /\ n >= 1 /\ LastPageId \in Nat
  BY ConstantFacts
<1>2. TablePages = {s[i] : i \in 1 .. n} /\ new \notin TablePages /\ 0 \notin TablePages
      /\ \A i \in 1 .. n : s[i] \in TablePages
  BY DEF IsPath, PathOf, TablePages
<1>3. /\ \A i \in 1 .. n : i \in 1 .. n + 1 /\ i <= n /\ i \in Nat
      /\ n + 1 \in 1 .. n + 1 /\ ~(n + 1 <= n) /\ n \in 1 .. n /\ 1 \in 1 .. n
      /\ \A i \in 1 .. n + 1 : i \in 1 .. n \/ i = n + 1
  BY <1>1
<1>4. \A i \in 1 .. n : t[i] = s[i]
  BY <1>3
<1>5. t[n + 1] = new
  BY <1>3
<1>6. t \in [1 .. n + 1 -> PageIds]
  BY <1>3
<1>7. \A i, j \in 1 .. n + 1 : t[i] = t[j] => i = j
  <2>1. \A i, j \in 1 .. n : s[i] = s[j] => i = j
    BY DEF IsPath, PathOf
  <2> HIDE DEF t
  <2> QED
    BY <1>2, <1>3, <1>4, <1>5, <2>1
<1>8. n + 1 \in 1 .. LastPageId
  <2>1. new # 0 /\ \A i \in 1 .. n : s[i] # 0
    BY <1>2
  <2>2. ASSUME NEW i \in 1 .. n + 1
        PROVE  t[i] \in 1 .. LastPageId
    <3> HIDE DEF t
    <3>1. t[i] \in PageIds /\ t[i] # 0
      BY <1>3, <1>4, <1>5, <1>6, <2>1
    <3> QED
      BY <3>1, ConstantFacts
  <2>3. t \in [1 .. n + 1 -> 1 .. LastPageId]
    BY <2>2
  <2> HIDE DEF t
  <2>4. n + 1 \in Nat
    BY <1>1
  <2>5. n + 1 <= LastPageId
    BY <1>7, <2>3, <2>4, PathIsShort
  <2> QED
    BY <1>1, <2>5
<1>9. \A i \in 1 .. n + 1 : m[t[i]].next = IF i < n + 1 THEN t[i + 1] ELSE INVALID_PAGE_ID
  <2>2. m[new] = FreshPage /\ FreshPage.next = INVALID_PAGE_ID
    BY DEF FreshPage
  <2>3. m[s[n]].next = new
    OBVIOUS
  <2>4. \A p \in PageIds \ {new, s[n]} : m[p] = mem[p]
    OBVIOUS
  <2>5. \A i \in 1 .. n : mem[s[i]].next = IF i < n THEN s[i + 1] ELSE INVALID_PAGE_ID
    BY DEF IsPath, PathOf
  <2>6. \A i \in 1 .. n : i # n => s[i] # s[n] /\ i < n /\ i + 1 \in 1 .. n /\ i < n + 1
    BY <1>1, <1>3 DEF IsPath, PathOf
  <2> HIDE DEF t
  <2> SUFFICES ASSUME NEW i \in 1 .. n + 1
               PROVE  m[t[i]].next = IF i < n + 1 THEN t[i + 1] ELSE INVALID_PAGE_ID
    OBVIOUS
  <2>7. CASE i = n + 1
    BY <1>1, <1>5, <2>2, <2>7
  <2>8. CASE i = n
    <3>1. n < n + 1 /\ t[n] = s[n]
      BY <1>1, <1>3, <1>4
    <3> QED
      BY <1>5, <2>3, <2>8, <3>1
  <2>9. CASE i \in 1 .. n /\ i # n
    <3>1. s[i] # s[n] /\ s[i] # new /\ s[i] \in PageIds
      BY <1>2, <2>6, <2>9
    <3>2. m[s[i]].next = s[i + 1]
      BY <2>4, <2>5, <2>6, <2>9, <3>1
    <3> QED
      BY <1>4, <2>6, <2>9, <3>2
  <2> QED
    BY <1>3, <2>7, <2>8, <2>9
<1>10. TablePages \cup {new} = {t[i] : i \in 1 .. n + 1}
  <2> HIDE DEF t
  <2>1. ASSUME NEW p \in TablePages \cup {new}
        PROVE  \E i \in 1 .. n + 1 : p = t[i]
    <3>1. CASE p = new
      BY <1>3, <1>5, <3>1
    <3>2. CASE p \in TablePages
      <4>1. PICK i \in 1 .. n : p = s[i]
        BY <1>2, <3>2
      <4> QED
        BY <1>3, <1>4, <4>1
    <3> QED
      BY <3>1, <3>2
  <2>2. ASSUME NEW i \in 1 .. n + 1
        PROVE  t[i] \in TablePages \cup {new}
    BY <1>2, <1>3, <1>4, <1>5
  <2> QED
    BY <2>1, <2>2
<1>11. t[1] = 1
  BY <1>3, <1>4 DEF IsPath, PathOf
<1> HIDE DEF t
<1>12. PathOf(m, TablePages \cup {new}, n + 1, t)
  BY <1>7, <1>9, <1>10, <1>11 DEF PathOf
<1>13. \A i \in 1 .. n : i \in 1 .. n + 1 /\ t[i] = s[i]
  BY <1>3, <1>4
<1> QED
  BY <1>6, <1>8, <1>12, <1>13 DEF LongerPath

(* The pages of the table and the chain, of a state in which it is used. *)
LEMMA UseFacts ==
  ASSUME IInv, Idle
  PROVE  /\ first_page_id_ = 1 /\ DOMAIN mem = PageIds /\ 0 \in allocated
         /\ \A p \in PageIds : mem[p] \in PageType /\ GoodPage(mem[p]) /\ GoodPage(disk[p])
         /\ TablePages \subseteq PageIds \ {0}
         /\ \E n \in 1 .. LastPageId : \E s \in [1 .. n -> PageIds] : 
              IsPath(n, s) /\ OwedAhead(n, s) /\ \E k \in 1 .. n : insert_page_id_ = s[k]
<1>1. PICK n \in 1 .. LastPageId : \E s \in [1 .. n -> PageIds] : IsPath(n, s) /\ OwedAhead(n, s)
  BY Zenon DEF IInv, UseInv, PathInv
<1>2. PICK s \in [1 .. n -> PageIds] : IsPath(n, s) /\ OwedAhead(n, s)
  BY <1>1
<1>3. \E k \in 1 .. n : insert_page_id_ = s[k]
  BY <1>2 DEF IInv, UseInv, IsPath, PathOf
<1>4. /\ first_page_id_ = 1 /\ DOMAIN mem = PageIds
      /\ \A p \in PageIds : mem[p] \in PageType /\ GoodPage(mem[p]) /\ GoodPage(disk[p])
      /\ TablePages \subseteq PageIds \ {0}
  BY DEF IInv, TypesInv, GoodPage, TablePages
<1>5. 0 \in allocated
  BY DEF IInv, UseInv, SlotsInTable
<1> QED
  BY <1>2, <1>3, <1>4, <1>5

(* A page that Init has just formatted, or that was never written, is good *)
(* and has no slots.                                                       *)
LEMMA FreshGood ==
  /\ GoodPage(FreshPage) /\ FreeSpace(FreshPage) = PageSpace
  /\ DOMAIN FreshPage.slots = {} /\ FreshPage.next = INVALID_PAGE_ID
  /\ GoodPage(ZeroPage) /\ DOMAIN ZeroPage.slots = {}
<1>1. \A x \in PageIds \cup {INVALID_PAGE_ID} :
        LET page == [next |-> x, slots |-> <<>>] IN
        GoodPage(page) /\ FreeSpace(page) = PageSpace
  <2> SUFFICES ASSUME NEW x \in PageIds \cup {INVALID_PAGE_ID}
               PROVE  LET page == [next |-> x, slots |-> <<>>] IN
                      GoodPage(page) /\ FreeSpace(page) = PageSpace
    BY Zenon
  <2> DEFINE page == [next |-> x, slots |-> <<>>]
  <2>1. page \in PageType /\ page.slots = <<>>
    BY DEF PageType
  <2> HIDE DEF page
  <2>2. Len(page.slots) = 0 /\ DOMAIN page.slots = {}
    BY <2>1
  <2>3. Cells(page.slots, {}) = {}
    BY DEF Cells
  <2>4. Bytes(page) = 0
    BY <2>2, <2>3, FS_EmptySet, Zenon DEF Bytes
  <2>5. SIZE_TUPLE * 0 = 0 /\ 0 * (SIZE_TUPLE + 1) = 0 /\ PageSpace \in Nat
    BY ConstantFacts
  <2>6. FreeSpace(page) = PageSpace - SIZE_TUPLE * 0 - 0
    BY <2>1, <2>2, <2>4, FreeSpaceOf, Zenon
  <2>7. FreeSpace(page) = PageSpace /\ 0 <= PageSpace
    BY <2>5, <2>6
  <2>8. GoodPage(page)
    BY <2>1, <2>2, <2>5, <2>7 DEF GoodPage
  <2> QED
    BY <2>7, <2>8 DEF page
<1>2. 0 \in PageIds
  BY ConstantFacts
<1>3. FreshPage.next = INVALID_PAGE_ID /\ DOMAIN FreshPage.slots = {} /\ DOMAIN ZeroPage.slots = {}
  BY DEF FreshPage, ZeroPage
<1>4. GoodPage(FreshPage) /\ FreeSpace(FreshPage) = PageSpace
  BY <1>1, Zenon DEF FreshPage
<1>5. GoodPage(ZeroPage)
  BY <1>1, <1>2, Zenon DEF ZeroPage
<1> QED
  BY <1>3, <1>4, <1>5

(* The next pointer does not matter to the space of a page. *)
LEMMA RelinkedGood ==
  ASSUME NEW page, GoodPage(page), NEW x \in PageIds \cup {INVALID_PAGE_ID},
         NEW new, new = [next |-> x, slots |-> page.slots]
  PROVE  GoodPage(new) /\ FreeSpace(new) = FreeSpace(page)
<1>1. page \in PageType
  BY DEF GoodPage
<1>2. new.slots = page.slots /\ new \in PageType
  BY <1>1 DEF PageType
<1>3. Bytes(new) = Bytes(page)
  BY <1>2 DEF Bytes
<1>4. FreeSpace(new) = PageSpace - SIZE_TUPLE * Len(page.slots) - Bytes(page)
  BY <1>2, <1>3, FreeSpaceOf, Zenon
<1>5. FreeSpace(new) = FreeSpace(page)
  BY <1>1, <1>4, FreeSpaceOf, Zenon
<1> QED
  BY <1>2, <1>5 DEF GoodPage

(* PagesWithRoom finds pages of the table. *)
LEMMA RoomFacts ==
  ASSUME IInv, Idle, NEW r, PagesWithRoom(r) # {}
  PROVE  LET p == Chain(insert_page_id_)[Min(PagesWithRoom(r))]
         IN p \in TablePages /\ HasRoom(mem[p], r)
<1>1. PICK n \in 1 .. LastPageId : \E s \in [1 .. n -> PageIds] : 
              IsPath(n, s) /\ OwedAhead(n, s) /\ \E k \in 1 .. n : insert_page_id_ = s[k]
  BY UseFacts, Zenon
<1>2. PICK s \in [1 .. n -> PageIds] : IsPath(n, s) /\ \E k \in 1 .. n : insert_page_id_ = s[k]
  BY <1>1
<1>3. PICK k \in 1 .. n : insert_page_id_ = s[k]
  BY <1>2
<1> DEFINE path == Chain(insert_page_id_)
           T == PagesWithRoom(r)
<1>4. \A m \in 0 .. LastPageId + 1 : path[m] = IF k + m <= n THEN s[k + m] ELSE INVALID_PAGE_ID
  BY <1>2, <1>3, ChainIs
<1>5. T = {m \in 0 .. LastPageId : path[m] # INVALID_PAGE_ID /\ HasRoom(mem[path[m]], r)}
  BY DEF PagesWithRoom
<1>6. T \subseteq Nat /\ T \subseteq 0 .. LastPageId
  BY <1>5, ConstantFacts
<1>7. Min(T) \in T
  BY <1>6, MinFacts
<1> DEFINE m == Min(T)
<1> HIDE DEF m, path, T
<1>8. m \in 0 .. LastPageId /\ path[m] # INVALID_PAGE_ID /\ HasRoom(mem[path[m]], r)
  BY <1>5, <1>7 DEF m
<1>9. k + m <= n /\ path[m] = s[k + m] /\ k + m \in 1 .. n
  BY <1>4, <1>8, ConstantFacts
<1>10. path[m] \in TablePages
  BY <1>2, <1>9 DEF IsPath, PathOf
<1> QED
  BY <1>8, <1>10 DEF m, path, T

(* Where Place puts a row: into a page with room that is on the chain, or  *)
(* into a new page that it links to the chain.                             *)
PlaceOK(at, r) ==
  /\ at.page \in PageIds \ {0} /\ at.page \in at.dirty /\ at.dirty \subseteq PageIds
  /\ at.mem = [p \in PageIds |-> at.mem[p]]
  /\ \A p \in PageIds : /\ GoodPage(at.mem[p])
                        /\ at.mem[p].slots = mem[p].slots \/ (p = at.page /\ p \notin TablePages)
                        /\ DOMAIN at.mem[p].slots = DOMAIN mem[p].slots
                        /\ p \notin at.dirty => at.mem[p] = mem[p]
  /\ HasRoom(at.mem[at.page], r) /\ at.slot = SlotFor(at.mem[at.page])
  /\ at.page \in TablePages => HasRoom(mem[at.page], r)
  /\ \A n \in 1 .. LastPageId : \A s \in [1 .. n -> PageIds] :
       IsPath(n, s) => LongerPath(at.mem, TablePages \cup {at.page}, n, s)

(* Where InsertTuple puts a row is a page of the chain with room for it,   *)
(* or a new page at its end; every path stays a path, at most one page     *)
(* longer.                                                                 *)
LEMMA PlaceFacts ==
  ASSUME IInv, Idle, NEW r \in Rows, CanInsert(r)
  PROVE  PlaceOK(Place(r), r)
<1> DEFINE at == Place(r)
           fit == PagesWithRoom(r)
<1>1. CASE fit # {}
  <2> DEFINE p == Chain(insert_page_id_)[Min(fit)]
  <2>1. p \in TablePages /\ HasRoom(mem[p], r)
    BY <1>1, RoomFacts, Zenon
  <2>2. at.page = p /\ at.mem = mem /\ at.slot = SlotFor(mem[p]) /\ at.dirty = {p}
    BY <1>1 DEF Place
  <2> HIDE DEF at, p
  <2>3. p \in PageIds \ {0} /\ mem = [q \in PageIds |-> mem[q]] /\ \A q \in PageIds : GoodPage(mem[q])
    BY <2>1 DEF TablePages, IInv, TypesInv
  <2>4. TablePages \cup {p} = TablePages
    BY <2>1
  <2>5. ASSUME NEW n \in 1 .. LastPageId, NEW s \in [1 .. n -> PageIds], IsPath(n, s)
        PROVE  LongerPath(at.mem, TablePages \cup {at.page}, n, s)
    <3>1. PathOf(at.mem, TablePages \cup {at.page}, n, s)
      BY <2>2, <2>4, <2>5 DEF IsPath
    <3> QED
      BY <3>1 DEF LongerPath
  <2>6. PlaceOK(at, r)
    BY <2>1, <2>2, <2>3, <2>5 DEF PlaceOK
  <2> QED
    BY <2>6 DEF at
<1>2. CASE fit = {}
  <2> DEFINE p == Min(PageIds \ allocated)
  <2>1. p \in PageIds \ allocated
    <3>1. PageIds \ allocated \subseteq Nat /\ PageIds \ allocated # {}
      BY <1>2, ConstantFacts DEF CanInsert, IInv, TypesInv
    <3> QED
      BY <3>1, MinFacts
  <2>2. /\ at.page = p /\ at.mem = Linked(p) /\ at.slot = SlotFor(Linked(p)[p])
        /\ at.dirty = LinkDirties(p)
    BY <1>2 DEF Place
  <2>3. PICK n \in 1 .. LastPageId : \E s \in [1 .. n -> PageIds] : 
                IsPath(n, s) /\ OwedAhead(n, s) /\ \E k \in 1 .. n : insert_page_id_ = s[k]
    BY UseFacts, Zenon
  <2>4. PICK s \in [1 .. n -> PageIds] : IsPath(n, s) /\ \E k \in 1 .. n : insert_page_id_ = s[k]
    BY <2>3
  <2> DEFINE last == LastOfChain
  <2>5. last = s[n]
    BY <2>4, LastIs
  <2>6. last \in TablePages /\ last \in PageIds
    <3>1. n \in 1 .. n
      BY ConstantFacts
    <3> QED
      BY <2>4, <2>5, <3>1 DEF IsPath, PathOf
  <2> HIDE DEF at, p, last
  <2>7. at.mem = [mem EXCEPT ![last].next = p, ![p] = FreshPage] /\ at.dirty = {last, p}
    BY <2>2 DEF Linked, LinkDirties, last
  <2>8. 0 \in allocated /\ DOMAIN mem = PageIds /\ mem = [q \in PageIds |-> mem[q]]
        /\ \A q \in PageIds : mem[q] \in PageType /\ GoodPage(mem[q])
    BY UseFacts DEF IInv, TypesInv
  <2>9. p \notin TablePages /\ p # last /\ p # 0
    BY <2>1, <2>6, <2>8 DEF TablePages
  <2>10. /\ at.mem[p] = FreshPage
         /\ at.mem[last] = [next |-> p, slots |-> mem[last].slots]
         /\ \A q \in PageIds \ {p, last} : at.mem[q] = mem[q]
         /\ at.mem = [q \in PageIds |-> at.mem[q]]
    <3>1. mem[last] = [next |-> mem[last].next, slots |-> mem[last].slots]
      BY <2>6, <2>8 DEF PageType
    <3> DEFINE page == mem[last]
    <3>2. [page EXCEPT !.next = p] = [next |-> p, slots |-> page.slots]
      <4> HIDE DEF page
      <4>1. page = [next |-> page.next, slots |-> page.slots]
        BY <3>1 DEF page
      <4> QED BY <4>1
    <3>3. at.mem[last] = [mem[last] EXCEPT !.next = p]
      BY <2>1, <2>6, <2>7, <2>8, <2>9
    <3>4. at.mem[p] = FreshPage
      BY <2>1, <2>7, <2>8
    <3>5. \A q \in PageIds \ {p, last} : at.mem[q] = mem[q]
      BY <2>7, <2>8
    <3>6. at.mem = [q \in PageIds |-> at.mem[q]]
      BY <2>7, <2>8
    <3> QED
      BY <3>2, <3>3, <3>4, <3>5, <3>6
  <2>11. GoodPage(at.mem[last])
    BY <2>1, <2>6, <2>8, <2>10, RelinkedGood
  <2>12. DOMAIN mem[p].slots = {}
    BY <2>1, <2>9 DEF IInv, UseInv, SlotsInTable
  <2>13. ASSUME NEW q \in PageIds
         PROVE  /\ GoodPage(at.mem[q])
                /\ at.mem[q].slots = mem[q].slots \/ (q = at.page /\ q \notin TablePages)
                /\ DOMAIN at.mem[q].slots = DOMAIN mem[q].slots
                /\ q \notin at.dirty => at.mem[q] = mem[q]
    <3>1. CASE q = p
      BY <2>2, <2>7, <2>9, <2>10, <2>12, <3>1, FreshGood
    <3>2. CASE q = last
      <4>1. at.mem[q].slots = mem[q].slots
        BY <2>10, <3>2
      <4> QED
        BY <2>7, <2>11, <3>2, <4>1
    <3>3. CASE q \in PageIds \ {p, last}
      BY <2>8, <2>10, <3>3
    <3> QED
      BY <3>1, <3>2, <3>3
  <2>14. HasRoom(at.mem[at.page], r)
    <3>1. FreeSpace(FreshPage) >= r + SIZE_TUPLE
      BY FreshGood, ConstantFacts
    <3> QED
      BY <2>2, <2>10, <3>1 DEF HasRoom
  <2>15. ASSUME NEW n3 \in 1 .. LastPageId, NEW s3 \in [1 .. n3 -> PageIds], IsPath(n3, s3)
         PROVE  LongerPath(at.mem, TablePages \cup {at.page}, n3, s3)
    <3>1. \E k \in 1 .. n3 : insert_page_id_ = s3[k]
      BY <2>15 DEF IInv, UseInv, IsPath, PathOf
    <3>2. last = s3[n3]
      BY <2>15, <3>1, LastIs DEF last
    <3>3. at.mem[p] = FreshPage /\ at.mem[s3[n3]].next = p
          /\ \A q \in PageIds \ {p, s3[n3]} : at.mem[q] = mem[q]
      BY <2>10, <3>2
    <3>4. LongerPath(at.mem, TablePages \cup {p}, n3, s3)
      <4>1. 0 \in allocated
        BY <2>8
      <4> DEFINE m == at.mem
      <4>2. m[p] = FreshPage /\ m[s3[n3]].next = p
            /\ \A q \in PageIds \ {p, s3[n3]} : m[q] = mem[q]
        BY <3>3
      <4> HIDE DEF m
      <4>3. LongerPath(m, TablePages \cup {p}, n3, s3)
        BY <2>1, <2>15, <4>1, <4>2, LinkedPath
      <4> QED
        BY <4>3 DEF m
    <3> QED
      BY <2>2, <3>4
  <2>16. at.page \in PageIds \ {0} /\ at.page \in at.dirty /\ at.dirty \subseteq PageIds
         /\ at.slot = SlotFor(at.mem[at.page]) /\ at.page \notin TablePages
    BY <2>1, <2>2, <2>6, <2>7, <2>9
  <2>17. PlaceOK(at, r)
    BY <2>10, <2>13, <2>14, <2>15, <2>16, Zenon DEF PlaceOK
  <2> QED
    BY <2>17 DEF at
<1> QED
  BY <1>1, <1>2
-----------------------------------------------------------------------------
(***************************************************************************)
(* InsertTuple and UpdateTuple.  The memory m that PutRow starts from is   *)
(* the one that Place leaves, with what the caller did to the row that it  *)
(* moves: R are the rows that the table keeps, X those that may come back. *)
(***************************************************************************)
CallerLeaves(m, at, R, X) ==
  /\ m = [p \in PageIds |-> m[p]]
  /\ \A p \in PageIds : /\ GoodPage(m[p]) /\ m[p].next = at.mem[p].next
                        /\ DOMAIN m[p].slots = DOMAIN mem[p].slots
  /\ m[at.page] = at.mem[at.page]
  /\ \A p \in PageIds : \A i \in DOMAIN mem[p].slots :
       /\ <<p, i>> \in R => m[p].slots[i] = mem[p].slots[i]
       /\ ~IsDeleted(m[p].slots[i]) => <<p, i>> \in R \cup X
       /\ p \notin dirty =>
            \/ disk[p].slots[i] = m[p].slots[i]
            \/ <<p, i>> \in X /\ IsDeleted(m[p].slots[i])

(* Putting a row where InsertTuple found room keeps the invariant, also    *)
(* when UpdateTuple has marked the old copy before.                        *)
LEMMA PutKeepsIInv ==
  ASSUME IInv, Idle, NEW r \in Rows, NEW at, PlaceOK(at, r), NEW m, NEW R, NEW X,
         R \subseteq DOMAIN rows, X \subseteq Rids, CallerLeaves(m, at, R, X),
         PutRow(m, at, r),
         rows' = [k \in R \cup {<<at.page, at.slot>>} |->
                    IF k = <<at.page, at.slot>> THEN r ELSE rows[k]],
         strays' = X \ {<<at.page, at.slot>>},
         owed' \subseteq owed, owed' \subseteq R, itr' = itr,
         disk' = disk, first_page_id_' = first_page_id_, freeing' = freeing,
         cur_page_id' = cur_page_id, owned' = owned
  PROVE  IInv'
<1> DEFINE P == at.page
           I == at.slot
           slot == [row |-> r, deleted |-> FALSE]
           new == <<P, I>>
           page == m[P]
           put == WithSlot(page, I, slot)
<1>1. P \in PageIds /\ P # 0 /\ P \in at.dirty /\ at.dirty \subseteq PageIds
  BY DEF PlaceOK
<1>2. GoodPage(page) /\ HasRoom(page, r) /\ I = SlotFor(page)
  BY <1>1 DEF PlaceOK, CallerLeaves
<1>3. mem' = [m EXCEPT ![P] = put] /\ insert_page_id_' = P /\ dirty' = dirty \cup at.dirty
      /\ allocated' = allocated \cup {P}
  BY DEF PutRow
<1>4. /\ GoodPage(put) /\ put.next = page.next
      /\ DOMAIN put.slots = DOMAIN page.slots \cup {I}
      /\ put.slots[I] = slot
      /\ \A k \in DOMAIN page.slots \ {I} : put.slots[k] = page.slots[k]
      /\ I \in DOMAIN page.slots => page.slots[I].row = 0
      /\ I \in 1 .. PageSpace \div (SIZE_TUPLE + 1)
  <2> HIDE DEF page
  <2> QED BY <1>2, PutGood
<1> HIDE DEF put
<1>5. mem'[P] = put /\ (\A q \in PageIds \ {P} : mem'[q] = m[q]) /\ mem' = [q \in PageIds |-> mem'[q]]
      /\ DOMAIN mem' = PageIds
  BY <1>1, <1>3 DEF CallerLeaves
<1>6. new \in Rids
  BY <1>1, <1>4 DEF Rids
<1>7. \A q \in PageIds : GoodPage(mem'[q]) /\ mem'[q].next = at.mem[q].next
  BY <1>4, <1>5 DEF CallerLeaves
<1>8. TablePages' = TablePages \cup {P}
  BY <1>1, <1>3 DEF TablePages
<1>9. ASSUME NEW q \in PageIds
      PROVE  /\ DOMAIN mem'[q].slots = DOMAIN mem[q].slots \cup (IF q = P THEN {I} ELSE {})
             /\ \A j \in DOMAIN mem'[q].slots : <<q, j>> # new =>
                  j \in DOMAIN mem[q].slots /\ mem'[q].slots[j] = m[q].slots[j]
             /\ mem'[P].slots[I] = slot
  <2>1. CASE q = P
    BY <1>1, <1>4, <1>5, <2>1 DEF CallerLeaves
  <2>2. CASE q # P
    BY <1>1, <1>4, <1>5, <2>2 DEF CallerLeaves
  <2> QED BY <2>1, <2>2
<1>10. Idle'
  BY DEF Idle
<1>11. DOMAIN rows' = R \cup {new} /\ rows'[new] = r
       /\ \A k \in R : k # new => rows'[k] = rows[k]
  OBVIOUS
<1>12. ~IsDeleted(slot) /\ slot.row = r
  BY ConstantFacts DEF IsDeleted
<1> HIDE DEF slot, page
<1>13. TypesInv'
  <2>1. DOMAIN disk' = PageIds /\ disk' = [q \in PageIds |-> disk'[q]] /\ \A q \in PageIds : GoodPage(disk'[q])
    BY DEF IInv, TypesInv
  <2>2. dirty' \subseteq PageIds /\ allocated' \subseteq PageIds /\ first_page_id_' = 1
        /\ insert_page_id_' \in PageIds /\ itr' \in Rids \cup {EndItr}
        /\ freeing' \in {"no", "running", "done"}
        /\ cur_page_id' \in PageIds \cup {INVALID_PAGE_ID} /\ owned' \subseteq PageIds
    BY <1>1, <1>3 DEF IInv, TypesInv
  <2>3. rows' = [k \in DOMAIN rows' |-> rows'[k]]
    BY Zenon
  <2>4. DOMAIN rows' \subseteq Rids /\ strays' \subseteq Rids /\ owed' \subseteq DOMAIN rows'
    BY <1>6, <1>11 DEF IInv, TypesInv
  <2> QED
    BY <1>5, <1>7, <2>1, <2>2, <2>3, <2>4 DEF TypesInv
<1>14. RowsLive'
  <2> SUFFICES ASSUME NEW rid \in DOMAIN rows'
               PROVE  /\ rid[1] \in TablePages' /\ rid[2] \in LiveSlots(rid[1])'
                      /\ mem'[rid[1]].slots[rid[2]].row = rows'[rid]
    BY DEF RowsLive
  <2>1. CASE rid = new
    <3>1. rid[1] = P /\ rid[2] = I
      BY <2>1
    <3>2. I \in DOMAIN mem'[P].slots /\ mem'[P].slots[I] = slot
      BY <1>1, <1>9
    <3> QED
      BY <1>8, <1>11, <1>12, <2>1, <3>1, <3>2 DEF LiveSlots
  <2>2. CASE rid # new
    <3>1. rid \in R /\ rid \in DOMAIN rows /\ rid \in Rids /\ rows'[rid] = rows[rid]
      BY <1>11, <2>2 DEF IInv, TypesInv
    <3>2. rid = <<rid[1], rid[2]>> /\ rid[1] \in PageIds
      BY <3>1 DEF Rids
    <3>3. rid[1] \in TablePages /\ rid[2] \in LiveSlots(rid[1])
          /\ mem[rid[1]].slots[rid[2]].row = rows[rid]
      BY <3>1 DEF IInv, RowsLive
    <3>4. m[rid[1]].slots[rid[2]] = mem[rid[1]].slots[rid[2]] /\ rid[2] \in DOMAIN mem[rid[1]].slots
          /\ ~IsDeleted(mem[rid[1]].slots[rid[2]])
      BY <3>1, <3>2, <3>3 DEF LiveSlots, CallerLeaves
    <3>5. rid[2] \in DOMAIN mem'[rid[1]].slots
      BY <1>9, <3>2, <3>4
    <3>6. mem'[rid[1]].slots[rid[2]] = mem[rid[1]].slots[rid[2]]
      BY <1>9, <2>2, <3>2, <3>4, <3>5
    <3> QED
      BY <1>8, <3>1, <3>3, <3>4, <3>5, <3>6 DEF LiveSlots
  <2> QED
    BY <2>1, <2>2
<1>15. CleanPages'
  <2> SUFFICES ASSUME NEW q \in PageIds \ dirty'
               PROVE  CleanPage(q)'
    BY DEF CleanPages
  <2>1. q \in PageIds \ dirty /\ q # P /\ q \notin at.dirty
    BY <1>1, <1>3
  <2>2. CleanPage(q)
    BY <2>1 DEF IInv, UseInv, CleanPages
  <2>3. mem'[q] = m[q] /\ at.mem[q] = mem[q]
    BY <1>5, <2>1 DEF PlaceOK
  <2>4. m[q].next = mem[q].next /\ DOMAIN m[q].slots = DOMAIN mem[q].slots
    BY <2>3 DEF CallerLeaves
  <2>5. \A i \in DOMAIN mem[q].slots : 
          \/ disk[q].slots[i] = m[q].slots[i]
          \/ <<q, i>> \in X /\ IsDeleted(m[q].slots[i])
    BY <2>1 DEF CallerLeaves
  <2>6. \A i : <<q, i>> # new
    BY <2>1
  <2> QED
    BY <2>2, <2>3, <2>4, <2>5, <2>6 DEF CleanPage
<1>16. SlotsInTable'
  <2>1. 0 \in allocated'
    BY <1>3 DEF IInv, UseInv, SlotsInTable
  <2>2. ASSUME NEW q \in PageIds \ TablePages'
        PROVE  DOMAIN mem'[q].slots = {}
    <3>1. q # P /\ q \in PageIds \ TablePages
      BY <1>8
    <3> QED
      BY <1>9, <3>1 DEF IInv, UseInv, SlotsInTable
  <2> QED
    BY <2>1, <2>2 DEF SlotsInTable
<1>17. LiveKnown'
  <2> SUFFICES ASSUME NEW q \in TablePages', NEW j \in LiveSlots(q)'
               PROVE  <<q, j>> \in DOMAIN rows' \cup strays'
    BY DEF LiveKnown
  <2>1. q \in PageIds /\ j \in DOMAIN mem'[q].slots /\ ~IsDeleted(mem'[q].slots[j])
    BY <1>1, <1>8, UseFacts DEF LiveSlots
  <2>2. CASE <<q, j>> # new
    <3>1. j \in DOMAIN mem[q].slots /\ mem'[q].slots[j] = m[q].slots[j]
      BY <1>9, <2>1, <2>2
    <3>2. <<q, j>> \in R \cup X
      BY <2>1, <3>1 DEF CallerLeaves
    <3> QED
      BY <1>11, <2>2, <3>2
  <2> QED
    BY <1>11, <2>2
<1>18. PathInv'
  <2>1. PICK n \in 1 .. LastPageId : \E s \in [1 .. n -> PageIds] : IsPath(n, s) /\ OwedAhead(n, s)
    BY UseFacts, Zenon
  <2>2. PICK s \in [1 .. n -> PageIds] : IsPath(n, s) /\ OwedAhead(n, s)
    BY <2>1
  <2>3. LongerPath(at.mem, TablePages \cup {P}, n, s)
    BY <2>2 DEF PlaceOK
  <2>4. PICK n2 \in 1 .. LastPageId : \E t \in [1 .. n2 -> PageIds] :
          PathOf(at.mem, TablePages \cup {P}, n2, t) /\ \A i \in 1 .. n : i \in 1 .. n2 /\ t[i] = s[i]
    BY <2>3, Zenon DEF LongerPath
  <2>5. PICK t \in [1 .. n2 -> PageIds] :
          PathOf(at.mem, TablePages \cup {P}, n2, t) /\ \A i \in 1 .. n : i \in 1 .. n2 /\ t[i] = s[i]
    BY <2>4
  <2>6. \A i \in 1 .. n2 : mem'[t[i]].next = at.mem[t[i]].next
    BY <1>7
  <2>7. PathOf(mem', TablePages', n2, t)
    BY <1>8, <2>5, <2>6 DEF PathOf
  <2>8. OwedAhead(n2, t)'
    <3> SUFFICES ASSUME NEW rid \in owed'
                 PROVE  itr # EndItr /\ Before(n2, t, itr, rid)
      BY DEF OwedAhead, Before
    <3>1. itr # EndItr /\ Before(n, s, itr, rid)
      BY <2>2 DEF OwedAhead
    <3> QED
      BY <2>5, <3>1 DEF Before
  <2>9. IsPath(n2, t)'
    BY <2>7 DEF IsPath
  <2> QED
    BY <2>8, <2>9 DEF PathInv
<1>19. UseInv'
  <2>1. insert_page_id_' \in TablePages' /\ (itr' # EndItr => itr'[1] \in TablePages')
        /\ owned' = {} /\ cur_page_id' = INVALID_PAGE_ID
    BY <1>3, <1>8 DEF IInv, UseInv
  <2> QED
    BY <1>15, <1>16, <1>17, <1>18, <2>1 DEF UseInv
<1> QED
  BY <1>10, <1>13, <1>14, <1>19 DEF IInv, FreeInv

(* The slots of the memory that Place leaves are those of the table. *)
LEMMA PlacedSlots ==
  ASSUME IInv, Idle, NEW at, NEW r, PlaceOK(at, r)
  PROVE  CallerLeaves(at.mem, at, DOMAIN rows, strays)
<1> DEFINE m == at.mem
<1>1. ASSUME NEW p \in PageIds, NEW i \in DOMAIN mem[p].slots
      PROVE  /\ m[p].slots[i] = mem[p].slots[i]
             /\ ~IsDeleted(m[p].slots[i]) => <<p, i>> \in DOMAIN rows \cup strays
             /\ p \notin dirty =>
                  \/ disk[p].slots[i] = m[p].slots[i]
                  \/ <<p, i>> \in strays /\ IsDeleted(m[p].slots[i])
  <2>1. p \in TablePages
    BY <1>1 DEF IInv, UseInv, SlotsInTable
  <2>2. m[p].slots = mem[p].slots
    BY <2>1 DEF PlaceOK
  <2>3. ~IsDeleted(mem[p].slots[i]) => <<p, i>> \in DOMAIN rows \cup strays
    BY <1>1, <2>1 DEF IInv, UseInv, LiveKnown, LiveSlots
  <2>4. p \notin dirty => CleanPage(p)
    BY DEF IInv, UseInv, CleanPages
  <2> QED
    BY <1>1, <2>2, <2>3, <2>4 DEF CleanPage
<1> QED
  BY <1>1 DEF CallerLeaves, PlaceOK

(* InsertTuple. *)
LEMMA InsertKeepsIInv ==
  ASSUME IInv, NEW r \in Rows, InsertTuple(r)
  PROVE  IInv'
<1> DEFINE at == Place(r)
           new == <<at.page, at.slot>>
<1>1. Idle /\ CanInsert(r) /\ PutRow(at.mem, at, r)
      /\ rows' = Remember(new, r) /\ strays' = strays \ {new}
      /\ disk' = disk /\ first_page_id_' = first_page_id_ /\ itr' = itr /\ owed' = owed
      /\ freeing' = freeing /\ cur_page_id' = cur_page_id /\ owned' = owned
  BY DEF InsertTuple, Settle, scanVars, freeVars
<1> HIDE DEF at
<1>2. PlaceOK(at, r)
  BY <1>1, PlaceFacts DEF at
<1>3. CallerLeaves(at.mem, at, DOMAIN rows, strays)
  BY <1>1, <1>2, PlacedSlots
<1>4. rows' = [k \in DOMAIN rows \cup {new} |-> IF k = new THEN r ELSE rows[k]]
  BY <1>1 DEF Remember
<1>5. strays \subseteq Rids /\ owed \subseteq DOMAIN rows
  BY DEF IInv, TypesInv
<1> QED
  BY <1>1, <1>2, <1>3, <1>4, <1>5, PutKeepsIInv

(* A row that does not fit into its page is moved to another page. *)
LEMMA MovesElsewhere ==
  ASSUME IInv, Idle, NEW r \in Rows, NEW at, PlaceOK(at, r), NEW rid \in KnownRids,
         ~FitsInPlace(rid, r)
  PROVE  rid[1] # at.page
<1> SUFFICES ASSUME rid[1] = at.page PROVE FALSE
  OBVIOUS
<1>1. rid[1] \in PageIds /\ rid[2] \in DOMAIN mem[rid[1]].slots
  BY DEF KnownRids, Rids
<1>2. rid[1] \in TablePages
  BY <1>1 DEF IInv, UseInv, SlotsInTable
<1>3. HasRoom(mem[rid[1]], r)
  BY <1>2 DEF PlaceOK
<1> DEFINE page == mem[rid[1]]
<1>4. page \in PageType
  BY <1>1, UseFacts
<1>5. FreeSpace(page) \in Int
  BY <1>4, FreeSpaceOf
<1>6. page.slots[rid[2]].row \in 0 .. PageSpace
  BY <1>1, <1>4, PageFacts
<1>7. FreeSpace(page) >= r + SIZE_TUPLE
  BY <1>3 DEF HasRoom
<1> DEFINE free == FreeSpace(page)
           size == page.slots[rid[2]].row
<1>8. free \in Int /\ size \in Nat /\ r \in Nat /\ SIZE_TUPLE \in Nat /\ PageSpace \in Nat
  <2> HIDE DEF page
  <2> QED  BY <1>5, <1>6, ConstantFacts
<1>9. free >= r + SIZE_TUPLE
  BY <1>7
<1>10. free + size >= r
  <2> HIDE DEF free, size
  <2> QED  BY <1>8, <1>9
<1> QED
  BY <1>10 DEF FitsInPlace

(* UpdateTuple, of a row that has to move. *)
LEMMA MoveKeepsIInv ==
  ASSUME IInv, NEW rid \in KnownRids, NEW r \in Rows, UpdateMoves(rid, r)
  PROVE  IInv'
<1> DEFINE at == Place(r)
           new == <<at.page, at.slot>>
           R == DOMAIN rows \ {rid}
           X == Strayed(rid)
           p0 == rid[1]
           i0 == rid[2]
<1>1. /\ Idle /\ CanInsert(r) /\ i0 \in LiveSlots(p0) /\ ~FitsInPlace(rid, r)
      /\ \E m \in {MarkOldCopy(at.mem, rid)} \cup Dropped(at.mem, rid) : PutRow(m, at, r)
      /\ rows' = [k \in R \cup {new} |-> IF k = new THEN r ELSE rows[k]]
      /\ strays' = X \ {new}
      /\ owed' = owed \ {rid} /\ itr' = itr
      /\ disk' = disk /\ first_page_id_' = first_page_id_
      /\ freeing' = freeing /\ cur_page_id' = cur_page_id /\ owned' = owned
  BY DEF UpdateMoves, Forget, freeVars
<1> HIDE DEF at
<1>2. PlaceOK(at, r)
  BY <1>1, PlaceFacts DEF at
<1>3. CallerLeaves(at.mem, at, DOMAIN rows, strays)
  BY <1>1, <1>2, PlacedSlots
<1>4. rid \in Rids /\ rid = <<p0, i0>> /\ p0 \in PageIds /\ i0 \in DOMAIN mem[p0].slots
  BY DEF KnownRids, Rids
<1>5. p0 # at.page
  BY <1>1, <1>2, MovesElsewhere
<1>6. PICK m \in {MarkOldCopy(at.mem, rid)} \cup Dropped(at.mem, rid) : PutRow(m, at, r)
  BY <1>1
<1>7. p0 \in TablePages
  BY <1>1, <1>4 DEF IInv, UseInv, SlotsInTable
<1> DEFINE page == at.mem[p0]
<1>8. page.slots = mem[p0].slots /\ GoodPage(page) /\ at.mem = [p \in PageIds |-> at.mem[p]]
      /\ DOMAIN at.mem = PageIds
  BY <1>2, <1>4, <1>7 DEF PlaceOK
<1>9. X \subseteq Rids /\ strays \subseteq X /\ (p0 \notin dirty => rid \in X)
  BY <1>4 DEF IInv, TypesInv, Strayed
<1>10. CASE m = MarkOldCopy(at.mem, rid)
  <2> DEFINE slot == [row |-> page.slots[i0].row, deleted |-> TRUE]
             old == WithSlot(page, i0, slot)
  <2>1. m = [at.mem EXCEPT ![p0] = old]
    BY <1>10 DEF MarkOldCopy, WithMark
  <2>2. /\ slot \in SlotType /\ slot.row # 0
        /\ slot.row <= FreeSpace(page) + page.slots[i0].row
    <3>1. page \in PageType /\ FreeSpace(page) >= 0
      BY <1>8 DEF GoodPage
    <3>2. page.slots[i0] \in SlotType /\ page.slots[i0].row \in 0 .. PageSpace
          /\ FreeSpace(page) \in Int
      BY <1>4, <1>8, <3>1, PageFacts, FreeSpaceOf
    <3>3. page.slots[i0].row # 0
      BY <1>1, <1>8 DEF LiveSlots, IsDeleted
    <3> HIDE DEF page
    <3>4. slot \in SlotType /\ slot.row = page.slots[i0].row
      BY <3>2 DEF SlotType
    <3> QED
      BY <3>1, <3>2, <3>3, <3>4
  <2>3. /\ GoodPage(old) /\ old.next = page.next
        /\ old.slots = [page.slots EXCEPT ![i0] = slot]
        /\ DOMAIN old.slots = DOMAIN page.slots
    <3>1. i0 \in DOMAIN page.slots
      BY <1>4, <1>8
    <3> HIDE DEF page, slot
    <3> QED BY <1>8, <2>2, <3>1, ReplacedGood
  <2>4. m[p0] = old /\ (\A p \in PageIds \ {p0} : m[p] = at.mem[p]) /\ m = [p \in PageIds |-> m[p]]
    <3> HIDE DEF old
    <3> QED BY <1>4, <1>8, <2>1
  <2>5. IsDeleted(slot)
    BY DEF IsDeleted
  <2> HIDE DEF slot, old
  <2>6. \A p \in PageIds : /\ GoodPage(m[p]) /\ m[p].next = at.mem[p].next
                           /\ DOMAIN m[p].slots = DOMAIN mem[p].slots
    <3>1. \A p \in PageIds : GoodPage(at.mem[p]) /\ DOMAIN at.mem[p].slots = DOMAIN mem[p].slots
      BY <1>3 DEF CallerLeaves
    <3> QED
      BY <1>4, <2>3, <2>4, <3>1
  <2>7. ASSUME NEW p \in PageIds, NEW i \in DOMAIN mem[p].slots
        PROVE  /\ <<p, i>> \in R => m[p].slots[i] = mem[p].slots[i]
               /\ ~IsDeleted(m[p].slots[i]) => <<p, i>> \in R \cup X
               /\ p \notin dirty =>
                    \/ disk[p].slots[i] = m[p].slots[i]
                    \/ <<p, i>> \in X /\ IsDeleted(m[p].slots[i])
    <3>1. /\ <<p, i>> \in DOMAIN rows => at.mem[p].slots[i] = mem[p].slots[i]
          /\ ~IsDeleted(at.mem[p].slots[i]) => <<p, i>> \in DOMAIN rows \cup strays
          /\ p \notin dirty =>
               \/ disk[p].slots[i] = at.mem[p].slots[i]
               \/ <<p, i>> \in strays /\ IsDeleted(at.mem[p].slots[i])
      BY <1>3, <2>7 DEF CallerLeaves
    <3>2. CASE p = p0 /\ i = i0
      <4>1. <<p, i>> = rid /\ m[p].slots[i] = slot
        BY <1>4, <1>8, <2>3, <2>4, <3>2
      <4> QED
        BY <1>9, <2>5, <3>2, <4>1
    <3>3. CASE ~(p = p0 /\ i = i0)
      <4>1. <<p, i>> # rid
        BY <1>4, <3>3
      <4>2. m[p].slots[i] = at.mem[p].slots[i]
        <5>1. CASE p = p0
          BY <1>8, <2>3, <2>4, <2>7, <3>3, <5>1
        <5>2. CASE p # p0
          BY <2>4, <5>2
        <5> QED BY <5>1, <5>2
      <4> QED
        BY <1>9, <3>1, <4>1, <4>2
    <3> QED
      BY <3>2, <3>3
  <2>8. m[at.page] = at.mem[at.page]
    BY <1>2, <1>5, <2>4 DEF PlaceOK
  <2> QED
    <3> HIDE DEF X, R
    <3>1. CallerLeaves(m, at, R, X)
      BY <2>4, <2>6, <2>7, <2>8 DEF CallerLeaves
    <3>2. R \subseteq DOMAIN rows /\ owed' \subseteq owed /\ owed' \subseteq R
      BY <1>1 DEF IInv, TypesInv, R
    <3> QED
      BY <1>1, <1>2, <1>6, <1>9, <3>1, <3>2, PutKeepsIInv
<1>11. CASE p0 \notin dirty /\ m = [at.mem EXCEPT ![p0].slots = disk[p0].slots]
  <2> DEFINE old == [next |-> page.next, slots |-> disk[p0].slots]
  <2>1. page \in PageType /\ GoodPage(disk[p0]) /\ page.next \in PageIds \cup {INVALID_PAGE_ID}
    BY <1>1, <1>4, <1>8, UseFacts DEF GoodPage, PageType
  <2>2. m[p0] = old /\ (\A p \in PageIds \ {p0} : m[p] = at.mem[p]) /\ m = [p \in PageIds |-> m[p]]
    <3>1. page = [next |-> page.next, slots |-> page.slots]
      BY <2>1 DEF PageType
    <3>2. m[p0] = [page EXCEPT !.slots = disk[p0].slots]
      BY <1>4, <1>8, <1>11
    <3>3. [page EXCEPT !.slots = disk[p0].slots] = old
      <4> HIDE DEF page
      <4> QED BY <3>1
    <3>4. (\A p \in PageIds \ {p0} : m[p] = at.mem[p]) /\ m = [p \in PageIds |-> m[p]]
      BY <1>8, <1>11
    <3> QED
      BY <3>2, <3>3, <3>4
  <2>3. GoodPage(old) /\ old.next = page.next /\ old.slots = disk[p0].slots
    <3> HIDE DEF page
    <3> QED BY <2>1, RelinkedGood
  <2> HIDE DEF old
  <2>4. CleanPage(p0)
    BY <1>1, <1>4, <1>11 DEF IInv, UseInv, CleanPages
  <2>5. DOMAIN disk[p0].slots = DOMAIN mem[p0].slots
        /\ \A i \in DOMAIN mem[p0].slots : \/ disk[p0].slots[i] = mem[p0].slots[i]
                                           \/ <<p0, i>> \in strays /\ IsDeleted(mem[p0].slots[i])
    BY <2>4 DEF CleanPage
  <2>6. \A p \in PageIds : /\ GoodPage(m[p]) /\ m[p].next = at.mem[p].next
                           /\ DOMAIN m[p].slots = DOMAIN mem[p].slots
    <3>1. \A p \in PageIds : GoodPage(at.mem[p]) /\ DOMAIN at.mem[p].slots = DOMAIN mem[p].slots
      BY <1>3 DEF CallerLeaves
    <3> QED
      BY <1>4, <2>2, <2>3, <2>5, <3>1
  <2>7. ASSUME NEW p \in PageIds, NEW i \in DOMAIN mem[p].slots
        PROVE  /\ <<p, i>> \in R => m[p].slots[i] = mem[p].slots[i]
               /\ ~IsDeleted(m[p].slots[i]) => <<p, i>> \in R \cup X
               /\ p \notin dirty =>
                    \/ disk[p].slots[i] = m[p].slots[i]
                    \/ <<p, i>> \in X /\ IsDeleted(m[p].slots[i])
    <3>1. /\ <<p, i>> \in DOMAIN rows => at.mem[p].slots[i] = mem[p].slots[i]
          /\ ~IsDeleted(at.mem[p].slots[i]) => <<p, i>> \in DOMAIN rows \cup strays
          /\ p \notin dirty =>
               \/ disk[p].slots[i] = at.mem[p].slots[i]
               \/ <<p, i>> \in strays /\ IsDeleted(at.mem[p].slots[i])
      BY <1>3, <2>7 DEF CallerLeaves
    <3>2. CASE p = p0
      <4>1. m[p].slots[i] = disk[p].slots[i]
        BY <2>2, <2>3, <3>2
      <4>2. <<p, i>> \in DOMAIN rows => ~IsDeleted(mem[p].slots[i])
        <5>1. <<p, i>>[1] = p /\ <<p, i>>[2] = i
          OBVIOUS
        <5> QED
          BY <5>1 DEF IInv, RowsLive, LiveSlots
      <4>3. <<p, i>> \in R => m[p].slots[i] = mem[p].slots[i]
        BY <2>5, <2>7, <3>2, <4>1, <4>2
      <4>4. ~IsDeleted(m[p].slots[i]) => <<p, i>> \in R \cup X
        <5>1. CASE disk[p].slots[i] = mem[p].slots[i]
          <6>1. ~IsDeleted(mem[p].slots[i]) => <<p, i>> \in DOMAIN rows \cup strays
            BY <1>8, <3>1, <3>2
          <6> QED
            BY <1>4, <1>9, <1>11, <3>2, <4>1, <5>1, <6>1
        <5>2. CASE <<p, i>> \in strays
          BY <1>9, <5>2
        <5> QED
          BY <2>5, <2>7, <3>2, <5>1, <5>2
      <4> QED
        BY <4>1, <4>3, <4>4
    <3>3. CASE p # p0
      <4>1. m[p].slots[i] = at.mem[p].slots[i] /\ <<p, i>> # rid
        BY <1>4, <2>2, <3>3
      <4> QED
        BY <1>9, <3>1, <4>1
    <3> QED
      BY <3>2, <3>3
  <2>8. m[at.page] = at.mem[at.page]
    BY <1>2, <1>5, <2>2 DEF PlaceOK
  <2> QED
    <3> HIDE DEF X, R
    <3>1. CallerLeaves(m, at, R, X)
      BY <2>2, <2>6, <2>7, <2>8 DEF CallerLeaves
    <3>2. R \subseteq DOMAIN rows /\ owed' \subseteq owed /\ owed' \subseteq R
      BY <1>1 DEF IInv, TypesInv, R
    <3> QED
      BY <1>1, <1>2, <1>6, <1>9, <3>1, <3>2, PutKeepsIInv
<1> QED
  BY <1>6, <1>10, <1>11 DEF Dropped
-----------------------------------------------------------------------------
(***************************************************************************)
(* The operations that change one slot.  The page is unpinned as dirty, or *)
(* the row that was marked in it is a stray.                               *)
(***************************************************************************)
LEMMA SlotKeepsIInv ==
  ASSUME IInv, Idle, NEW rid \in KnownRids, NEW slot \in SlotType,
         slot.row <= FreeSpace(mem[rid[1]]) + mem[rid[1]].slots[rid[2]].row,
         slot.deleted => slot.row # 0,
         mem' = [mem EXCEPT ![rid[1]] = WithSlot(mem[rid[1]], rid[2], slot)],
         dirty' = dirty \/ dirty' = dirty \cup {rid[1]},
         rid[1] \in dirty' \/ (rid \in strays' /\ IsDeleted(slot)),
         strays \ {rid} \subseteq strays', strays' \subseteq strays \cup {rid},
         \/ IsDeleted(slot) /\ rows' = Without(rows, rid) /\ owed' = owed \ {rid}
         \/ ~IsDeleted(slot) /\ rows' = Remember(rid, slot.row) /\ owed' = owed,
         itr' = itr, disk' = disk, allocated' = allocated,
         first_page_id_' = first_page_id_, insert_page_id_' = insert_page_id_,
         freeing' = freeing, cur_page_id' = cur_page_id, owned' = owned
  PROVE  IInv'
<1> DEFINE P == rid[1]
           I == rid[2]
           page == mem[P]
           new == WithSlot(page, I, slot)
<1>1. rid \in Rids /\ rid = <<P, I>> /\ P \in PageIds /\ I \in DOMAIN page.slots
  BY DEF KnownRids, Rids
<1>2. GoodPage(page) /\ DOMAIN mem = PageIds /\ mem = [q \in PageIds |-> mem[q]]
      /\ \A q \in PageIds : GoodPage(mem[q])
  BY <1>1 DEF IInv, TypesInv
<1>3. /\ GoodPage(new) /\ new.next = page.next
      /\ new.slots = [page.slots EXCEPT ![I] = slot]
      /\ DOMAIN new.slots = DOMAIN page.slots
  <2>1. slot.row <= FreeSpace(page) + page.slots[I].row
    OBVIOUS
  <2> HIDE DEF page
  <2> QED BY <1>1, <1>2, <2>1, ReplacedGood
<1> HIDE DEF new
<1>4. mem'[P] = new /\ (\A q \in PageIds \ {P} : mem'[q] = mem[q])
      /\ mem' = [q \in PageIds |-> mem'[q]] /\ DOMAIN mem' = PageIds
  BY <1>1, <1>2 DEF new
<1>5. ASSUME NEW q \in PageIds
      PROVE  /\ GoodPage(mem'[q]) /\ mem'[q].next = mem[q].next
             /\ DOMAIN mem'[q].slots = DOMAIN mem[q].slots
             /\ \A j \in DOMAIN mem[q].slots : <<q, j>> # rid => mem'[q].slots[j] = mem[q].slots[j]
  <2>1. CASE q = P
    BY <1>1, <1>3, <1>4, <2>1
  <2>2. CASE q # P
    BY <1>2, <1>4, <2>2
  <2> QED BY <2>1, <2>2
<1>6. mem'[P].slots[I] = slot
  BY <1>1, <1>3, <1>4
<1>7. Idle' /\ TablePages' = TablePages /\ P \in TablePages
  BY <1>1 DEF Idle, TablePages, IInv, UseInv, SlotsInTable
<1>8. /\ rows' = [k \in DOMAIN rows' |-> rows'[k]]
      /\ DOMAIN rows' = IF IsDeleted(slot) THEN DOMAIN rows \ {rid} ELSE DOMAIN rows \cup {rid}
      /\ \A k \in DOMAIN rows' : rows'[k] = IF k = rid THEN slot.row ELSE rows[k]
  <2>1. CASE IsDeleted(slot)
    BY <2>1 DEF Without
  <2>2. CASE ~IsDeleted(slot)
    BY <2>2 DEF Remember
  <2> QED BY <2>1, <2>2
<1>9. TypesInv'
  <2>1. DOMAIN disk' = PageIds /\ disk' = [q \in PageIds |-> disk'[q]] /\ \A q \in PageIds : GoodPage(disk'[q])
    BY DEF IInv, TypesInv
  <2>2. dirty' \subseteq PageIds /\ allocated' \subseteq PageIds /\ first_page_id_' = 1
        /\ insert_page_id_' \in PageIds /\ itr' \in Rids \cup {EndItr}
        /\ freeing' \in {"no", "running", "done"}
        /\ cur_page_id' \in PageIds \cup {INVALID_PAGE_ID} /\ owned' \subseteq PageIds
    BY <1>1 DEF IInv, TypesInv
  <2>3. DOMAIN rows' \subseteq Rids /\ strays' \subseteq Rids /\ owed' \subseteq DOMAIN rows'
    BY <1>1, <1>8 DEF IInv, TypesInv
  <2> QED
    BY <1>4, <1>5, <1>8, <2>1, <2>2, <2>3 DEF TypesInv
<1>10. RowsLive'
  <2> SUFFICES ASSUME NEW k \in DOMAIN rows'
               PROVE  /\ k[1] \in TablePages' /\ k[2] \in LiveSlots(k[1])'
                      /\ mem'[k[1]].slots[k[2]].row = rows'[k]
    BY DEF RowsLive
  <2>1. CASE k = rid
    <3>1. ~IsDeleted(slot)
      BY <1>8, <2>1
    <3>2. k[1] = P /\ k[2] = I /\ I \in DOMAIN mem'[P].slots
      BY <1>1, <1>5, <2>1
    <3>3. rows'[k] = slot.row
      BY <1>8, <2>1
    <3> QED
      BY <1>6, <1>7, <3>1, <3>2, <3>3 DEF LiveSlots
  <2>2. CASE k # rid
    <3>1. k \in DOMAIN rows /\ rows'[k] = rows[k]
      BY <1>8, <2>2
    <3>2. k[1] \in TablePages /\ k[2] \in LiveSlots(k[1]) /\ mem[k[1]].slots[k[2]].row = rows[k]
      BY <3>1 DEF IInv, RowsLive
    <3>3. k = <<k[1], k[2]>> /\ k[1] \in PageIds
      BY <3>1 DEF IInv, TypesInv, Rids
    <3>4. DOMAIN mem'[k[1]].slots = DOMAIN mem[k[1]].slots
          /\ k[2] \in DOMAIN mem[k[1]].slots
          /\ mem'[k[1]].slots[k[2]] = mem[k[1]].slots[k[2]]
      BY <1>5, <2>2, <3>2, <3>3 DEF LiveSlots
    <3> QED
      BY <1>7, <3>1, <3>2, <3>4 DEF LiveSlots
  <2> QED
    BY <2>1, <2>2
<1>11. CleanPages'
  <2> SUFFICES ASSUME NEW q \in PageIds \ dirty'
               PROVE  CleanPage(q)'
    BY DEF CleanPages
  <2>1. CleanPage(q)
    BY DEF IInv, UseInv, CleanPages
  <2>2. mem'[q].next = mem[q].next /\ DOMAIN mem'[q].slots = DOMAIN mem[q].slots
    BY <1>5
  <2>3. ASSUME NEW j \in DOMAIN mem[q].slots
        PROVE  \/ disk[q].slots[j] = mem'[q].slots[j]
               \/ <<q, j>> \in strays' /\ IsDeleted(mem'[q].slots[j])
    <3>1. CASE <<q, j>> = rid
      BY <1>1, <1>6, <3>1
    <3>2. CASE <<q, j>> # rid
      <4>1. mem'[q].slots[j] = mem[q].slots[j]
        BY <1>5, <3>2
      <4> QED
        BY <2>1, <3>2, <4>1 DEF CleanPage
    <3> QED BY <3>1, <3>2
  <2> QED
    BY <2>1, <2>2, <2>3 DEF CleanPage
<1>12. SlotsInTable'
  BY <1>5, <1>7 DEF IInv, UseInv, SlotsInTable
<1>13. LiveKnown'
  <2> SUFFICES ASSUME NEW q \in TablePages', NEW j \in LiveSlots(q)'
               PROVE  <<q, j>> \in DOMAIN rows' \cup strays'
    BY DEF LiveKnown
  <2>1. q \in TablePages /\ q \in PageIds
    BY <1>7, UseFacts
  <2>2. j \in DOMAIN mem[q].slots /\ ~IsDeleted(mem'[q].slots[j])
    BY <1>5, <2>1 DEF LiveSlots
  <2>3. CASE <<q, j>> = rid
    BY <1>1, <1>6, <1>8, <2>2, <2>3
  <2>4. CASE <<q, j>> # rid
    <3>1. mem'[q].slots[j] = mem[q].slots[j]
      BY <1>5, <2>1, <2>2, <2>4
    <3>2. <<q, j>> \in DOMAIN rows \cup strays
      BY <2>1, <2>2, <3>1 DEF IInv, UseInv, LiveKnown, LiveSlots
    <3> QED
      BY <1>8, <2>4, <3>2
  <2> QED
    BY <2>3, <2>4
<1>14. PathInv'
  <2>1. PICK n \in 1 .. LastPageId : \E s \in [1 .. n -> PageIds] : IsPath(n, s) /\ OwedAhead(n, s)
    BY UseFacts, Zenon
  <2>2. PICK s \in [1 .. n -> PageIds] : IsPath(n, s) /\ OwedAhead(n, s)
    BY <2>1
  <2>3. IsPath(n, s)'
    BY <1>5, <1>7, <2>2 DEF IsPath, PathOf
  <2>4. OwedAhead(n, s)'
    BY <2>2 DEF OwedAhead, Before
  <2> QED
    BY <2>3, <2>4 DEF PathInv
<1>15. UseInv'
  BY <1>7, <1>11, <1>12, <1>13, <1>14 DEF IInv, UseInv
<1> QED
  BY <1>7, <1>9, <1>10, <1>15 DEF IInv, FreeInv

(* The slot of a row id that a caller has. *)
LEMMA KnownFacts ==
  ASSUME IInv, NEW rid \in KnownRids
  PROVE  /\ rid[1] \in PageIds /\ rid[2] \in DOMAIN mem[rid[1]].slots
         /\ mem[rid[1]].slots[rid[2]] \in SlotType
         /\ mem[rid[1]].slots[rid[2]].row \in 0 .. PageSpace
         /\ mem[rid[1]].slots[rid[2]].deleted => mem[rid[1]].slots[rid[2]].row # 0
         /\ FreeSpace(mem[rid[1]]) \in Int /\ FreeSpace(mem[rid[1]]) >= 0
         /\ DOMAIN mem = PageIds /\ mem = [p \in PageIds |-> mem[p]]
<1>1. rid[1] \in PageIds /\ rid[2] \in DOMAIN mem[rid[1]].slots
  BY DEF KnownRids, Rids
<1>2. GoodPage(mem[rid[1]]) /\ DOMAIN mem = PageIds /\ mem = [p \in PageIds |-> mem[p]]
  BY <1>1 DEF IInv, TypesInv
<1>3. mem[rid[1]] \in PageType
  BY <1>2 DEF GoodPage
<1> QED
  BY <1>1, <1>2, <1>3, PageFacts, FreeSpaceOf DEF GoodPage

(* MarkDelete: the row leaves the table. *)
LEMMA MarkKeepsIInv ==
  ASSUME IInv, NEW rid \in KnownRids, MarkDelete(rid)
  PROVE  IInv'
<1> DEFINE page == mem[rid[1]]
           old == page.slots[rid[2]]
           slot == [row |-> old.row, deleted |-> TRUE]
<1>1. /\ Idle /\ dirty' = dirty \cup {rid[1]} /\ rows' = Without(rows, rid)
      /\ mem' = IF rid[2] \in LiveSlots(rid[1]) THEN WithMark(mem, rid[1], rid[2], TRUE) ELSE mem
      /\ strays' = strays \ {rid} /\ owed' = owed \ {rid} /\ itr' = itr
      /\ disk' = disk /\ allocated' = allocated
      /\ first_page_id_' = first_page_id_ /\ insert_page_id_' = insert_page_id_
      /\ freeing' = freeing /\ cur_page_id' = cur_page_id /\ owned' = owned
  BY DEF MarkDelete, Forget, Settle, freeVars
<1>2. /\ rid[1] \in PageIds /\ rid[2] \in DOMAIN page.slots
      /\ old \in SlotType /\ old.row \in 0 .. PageSpace
      /\ old.deleted => old.row # 0
      /\ FreeSpace(page) \in Int /\ FreeSpace(page) >= 0
      /\ DOMAIN mem = PageIds /\ mem = [p \in PageIds |-> mem[p]]
  BY KnownFacts
<1>3. CASE rid[2] \in LiveSlots(rid[1])
  <2>1. mem' = [mem EXCEPT ![rid[1]] = WithSlot(mem[rid[1]], rid[2], slot)]
    BY <1>1, <1>3 DEF WithMark
  <2>2. ~IsDeleted(old)
    BY <1>3 DEF LiveSlots
  <2> HIDE DEF old
  <2>3. slot \in SlotType /\ slot.row # 0 /\ IsDeleted(slot) /\ slot.row = old.row
    BY <1>2, <2>2 DEF IsDeleted, SlotType
  <2> HIDE DEF slot, page
  <2>4. slot.row <= FreeSpace(page) + old.row
    BY <1>2, <2>3
  <2> QED
    BY <1>1, <2>1, <2>3, <2>4, SlotKeepsIInv DEF page, old
<1>4. CASE rid[2] \notin LiveSlots(rid[1])
  <2>1. IsDeleted(old)
    BY <1>2, <1>4 DEF LiveSlots
  <2>2. WithSlot(page, rid[2], old) = page
    <3>1. page \in PageType
      BY <1>2 DEF IInv, TypesInv, GoodPage
    <3> DEFINE new == WithSlot(page, rid[2], old)
    <3>2. new \in PageType /\ new.next = page.next /\ new.slots = [page.slots EXCEPT ![rid[2]] = old]
      BY <1>2, <3>1, SlotChanged
    <3> HIDE DEF new
    <3>3. page.slots \in Seq(SlotType)
      BY <3>1 DEF PageType
    <3>4. new.slots = page.slots
      BY <1>2, <3>2, <3>3
    <3>5. new = [next |-> new.next, slots |-> new.slots] /\ page = [next |-> page.next, slots |-> page.slots]
      BY <3>1, <3>2 DEF PageType
    <3>6. new = page
      BY <3>2, <3>4, <3>5
    <3> QED
      BY <3>6 DEF new
  <2>3. mem' = [mem EXCEPT ![rid[1]] = WithSlot(mem[rid[1]], rid[2], old)]
    BY <1>1, <1>2, <1>4, <2>2
  <2> HIDE DEF page, old
  <2>4. old.row <= FreeSpace(page) + old.row
    BY <1>2
  <2> QED
    BY <1>1, <1>2, <2>1, <2>3, <2>4, SlotKeepsIInv DEF page, old
<1> QED
  BY <1>3, <1>4

(* RollbackDelete: the row is back with the content it had. *)
LEMMA RollbackKeepsIInv ==
  ASSUME IInv, NEW rid \in KnownRids, RollbackDelete(rid)
  PROVE  IInv'
<1> DEFINE page == mem[rid[1]]
           old == page.slots[rid[2]]
           slot == [row |-> old.row, deleted |-> FALSE]
<1>1. /\ Idle /\ dirty' = dirty \cup {rid[1]} /\ rows' = Remember(rid, old.row)
      /\ mem' = [mem EXCEPT ![rid[1]] = WithSlot(mem[rid[1]], rid[2], slot)] /\ old.deleted
      /\ strays' = strays \ {rid} /\ owed' = owed /\ itr' = itr
      /\ disk' = disk /\ allocated' = allocated
      /\ first_page_id_' = first_page_id_ /\ insert_page_id_' = insert_page_id_
      /\ freeing' = freeing /\ cur_page_id' = cur_page_id /\ owned' = owned
  BY DEF RollbackDelete, WithMark, Settle, scanVars, freeVars
<1>2. /\ rid[2] \in DOMAIN page.slots
      /\ old \in SlotType /\ old.row \in 0 .. PageSpace
      /\ old.deleted => old.row # 0
      /\ FreeSpace(page) \in Int /\ FreeSpace(page) >= 0
  BY KnownFacts
<1> HIDE DEF old
<1>3. slot \in SlotType /\ ~slot.deleted /\ ~IsDeleted(slot) /\ slot.row = old.row
  BY <1>1, <1>2 DEF IsDeleted, SlotType
<1> HIDE DEF slot, page
<1>4. slot.row <= FreeSpace(page) + old.row
  BY <1>2, <1>3
<1> QED
  BY <1>1, <1>3, <1>4, SlotKeepsIInv DEF page, old

(* ApplyDelete: the slot becomes empty, and no live row was in it. *)
LEMMA ApplyKeepsIInv ==
  ASSUME IInv, NEW rid \in KnownRids, ApplyDelete(rid)
  PROVE  IInv'
<1> DEFINE page == mem[rid[1]]
           old == page.slots[rid[2]]
           slot == [row |-> 0, deleted |-> FALSE]
<1>1. /\ Idle /\ dirty' = dirty \cup {rid[1]} /\ rows' = Without(rows, rid)
      /\ mem' = [mem EXCEPT ![rid[1]] = WithSlot(mem[rid[1]], rid[2], slot)]
      /\ strays' = strays \ {rid} /\ owed' = owed \ {rid} /\ itr' = itr
      /\ disk' = disk /\ allocated' = allocated
      /\ first_page_id_' = first_page_id_ /\ insert_page_id_' = insert_page_id_
      /\ freeing' = freeing /\ cur_page_id' = cur_page_id /\ owned' = owned
  BY DEF ApplyDelete, WithRow, Forget, Settle, freeVars
<1>2. old.row \in 0 .. PageSpace /\ FreeSpace(page) \in Int /\ FreeSpace(page) >= 0
  BY KnownFacts
<1>3. slot \in SlotType /\ ~slot.deleted /\ IsDeleted(slot) /\ slot.row = 0
  BY DEF IsDeleted, SlotType
<1> HIDE DEF slot, page, old
<1>4. slot.row <= FreeSpace(page) + old.row
  BY <1>2, <1>3, ConstantFacts
<1> QED
  BY <1>1, <1>3, <1>4, SlotKeepsIInv DEF page, old

(* UpdateTuple in place: the page has room for the new size of the row. *)
LEMMA UpdateKeepsIInv ==
  ASSUME IInv, NEW rid \in KnownRids, NEW r \in Rows, UpdateInPlace(rid, r)
  PROVE  IInv'
<1> DEFINE slot == [row |-> r, deleted |-> FALSE]
<1>1. /\ Idle /\ dirty' = dirty \cup {rid[1]} /\ rows' = Remember(rid, r)
      /\ mem' = [mem EXCEPT ![rid[1]] = WithSlot(mem[rid[1]], rid[2], slot)]
      /\ FreeSpace(mem[rid[1]]) + mem[rid[1]].slots[rid[2]].row >= r
      /\ strays' = strays \ {rid} /\ owed' = owed /\ itr' = itr
      /\ disk' = disk /\ allocated' = allocated
      /\ first_page_id_' = first_page_id_ /\ insert_page_id_' = insert_page_id_
      /\ freeing' = freeing /\ cur_page_id' = cur_page_id /\ owned' = owned
  BY DEF UpdateInPlace, FitsInPlace, WithRow, Settle, scanVars, freeVars
<1>2. slot \in SlotType /\ ~slot.deleted /\ ~IsDeleted(slot) /\ slot.row = r
  BY ConstantFacts DEF IsDeleted, SlotType
<1> HIDE DEF slot
<1>3. slot.row <= FreeSpace(mem[rid[1]]) + mem[rid[1]].slots[rid[2]].row
  <2> DEFINE a == FreeSpace(mem[rid[1]])
             b == mem[rid[1]].slots[rid[2]].row
  <2>1. a \in Int /\ b \in Int /\ r \in Int /\ a + b >= r
    BY <1>1, KnownFacts, ConstantFacts
  <2> HIDE DEF a, b
  <2>2. slot.row <= a + b
    BY <1>2, <2>1
  <2> QED BY <2>2 DEF a, b
<1> QED
  BY <1>1, <1>2, <1>3, SlotKeepsIInv

(* The update that NewPage refuses leaves the mark. *)
LEMMA RefusedKeepsIInv ==
  ASSUME IInv, NEW rid \in KnownRids, NEW r, UpdateMoveRefused(rid, r)
  PROVE  IInv'
<1> DEFINE page == mem[rid[1]]
           old == page.slots[rid[2]]
           slot == [row |-> old.row, deleted |-> TRUE]
<1>1. /\ Idle /\ rows' = Without(rows, rid) /\ rid[2] \in LiveSlots(rid[1])
      /\ mem' = [mem EXCEPT ![rid[1]] = WithSlot(mem[rid[1]], rid[2], slot)]
      /\ strays' = Strayed(rid) /\ owed' = owed \ {rid} /\ itr' = itr
      /\ dirty' = dirty /\ disk' = disk /\ allocated' = allocated
      /\ first_page_id_' = first_page_id_ /\ insert_page_id_' = insert_page_id_
      /\ freeing' = freeing /\ cur_page_id' = cur_page_id /\ owned' = owned
  BY DEF UpdateMoveRefused, MarkOldCopy, WithMark, Forget, freeVars
<1>2. /\ rid[2] \in DOMAIN page.slots
      /\ old \in SlotType /\ old.row \in 0 .. PageSpace
      /\ FreeSpace(page) \in Int /\ FreeSpace(page) >= 0
  BY KnownFacts
<1>3. ~IsDeleted(old)
  BY <1>1 DEF LiveSlots
<1> HIDE DEF old
<1>4. slot \in SlotType /\ slot.row # 0 /\ IsDeleted(slot) /\ slot.row = old.row
  BY <1>2, <1>3 DEF IsDeleted, SlotType
<1> HIDE DEF slot, page
<1>5. slot.row <= FreeSpace(page) + old.row
  BY <1>2, <1>4
<1>6. /\ rid[1] \in dirty' \/ rid \in strays'
      /\ strays \ {rid} \subseteq strays' /\ strays' \subseteq strays \cup {rid}
  BY <1>1 DEF Strayed
<1> QED
  BY <1>1, <1>4, <1>5, <1>6, SlotKeepsIInv DEF page, old
-----------------------------------------------------------------------------
(***************************************************************************)
(* The pool drops pages: a page in memory becomes the page on disk only if *)
(* it was clean.                                                           *)
(***************************************************************************)
LEMMA DropKeepsIInv ==
  ASSUME IInv,
         mem' = [p \in PageIds |-> mem'[p]], disk' = [p \in PageIds |-> disk'[p]],
         \A p \in PageIds : /\ mem'[p] = mem[p] \/ (p \notin dirty /\ mem'[p] = disk[p])
                            /\ disk'[p] = mem[p] \/ disk'[p] = disk[p],
         \A p \in PageIds \ dirty' : \/ disk'[p] = mem'[p]
                                     \/ p \notin dirty /\ mem'[p] = mem[p] /\ disk'[p] = disk[p],
         dirty' \subseteq dirty,
         insert_page_id_' = insert_page_id_ \/ (Idle /\ insert_page_id_' = first_page_id_),
         (itr' = itr /\ owed' = owed) \/ (itr' = EndItr /\ owed' = {}),
         allocated' = allocated, first_page_id_' = first_page_id_, rows' = rows,
         strays' = strays, freeing' = freeing, cur_page_id' = cur_page_id, owned' = owned
  PROVE  IInv'
<1>1. TypesInv'
  <2>1. DOMAIN mem' = PageIds /\ DOMAIN disk' = PageIds
    BY Zenon
  <2>2. \A p \in PageIds : GoodPage(mem'[p]) /\ GoodPage(disk'[p])
    BY DEF IInv, TypesInv
  <2>3. dirty' \subseteq PageIds /\ allocated' \subseteq PageIds /\ first_page_id_' = 1
        /\ insert_page_id_' \in PageIds /\ itr' \in Rids \cup {EndItr}
        /\ freeing' \in {"no", "running", "done"}
        /\ cur_page_id' \in PageIds \cup {INVALID_PAGE_ID} /\ owned' \subseteq PageIds
    <3>1. 1 \in PageIds
      BY ConstantFacts
    <3> QED BY <3>1 DEF IInv, TypesInv
  <2>4. /\ rows' = [rid \in DOMAIN rows' |-> rows'[rid]]
        /\ DOMAIN rows' \subseteq Rids /\ strays' \subseteq Rids /\ owed' \subseteq DOMAIN rows'
    BY DEF IInv, TypesInv
  <2> QED
    BY <2>1, <2>2, <2>3, <2>4 DEF TypesInv
<1>2. CASE Idle
  <2>1. Idle' /\ TablePages' = TablePages /\ TablePages \subseteq PageIds \ {0} /\ first_page_id_ = 1
    BY <1>2, UseFacts DEF Idle, TablePages
  <2>2. ASSUME NEW p \in PageIds
        PROVE  /\ mem'[p].next = mem[p].next /\ DOMAIN mem'[p].slots = DOMAIN mem[p].slots
               /\ \A i \in DOMAIN mem[p].slots :
                    \/ mem'[p].slots[i] = mem[p].slots[i]
                    \/ <<p, i>> \in strays /\ IsDeleted(mem[p].slots[i])
    <3>1. p \notin dirty => CleanPage(p)
      BY <1>2 DEF IInv, UseInv, CleanPages
    <3> QED
      BY <3>1 DEF CleanPage
  <2>3. RowsLive'
    <3> SUFFICES ASSUME NEW k \in DOMAIN rows
                 PROVE  /\ k[1] \in TablePages' /\ k[2] \in LiveSlots(k[1])'
                        /\ mem'[k[1]].slots[k[2]].row = rows[k]
      BY DEF RowsLive
    <3>1. k[1] \in TablePages /\ k[2] \in LiveSlots(k[1]) /\ mem[k[1]].slots[k[2]].row = rows[k]
      BY DEF IInv, RowsLive
    <3>2. k[1] \in PageIds /\ k[2] \in DOMAIN mem[k[1]].slots /\ ~IsDeleted(mem[k[1]].slots[k[2]])
      BY <2>1, <3>1 DEF LiveSlots
    <3>3. mem'[k[1]].slots[k[2]] = mem[k[1]].slots[k[2]] /\ k[2] \in DOMAIN mem'[k[1]].slots
      BY <2>2, <3>2
    <3> QED
      BY <2>1, <3>1, <3>2, <3>3 DEF LiveSlots
  <2>4. CleanPages'
    <3> SUFFICES ASSUME NEW p \in PageIds \ dirty'
                 PROVE  CleanPage(p)'
      BY DEF CleanPages
    <3>1. CASE disk'[p] = mem'[p]
      BY <3>1 DEF CleanPage
    <3>2. CASE p \notin dirty /\ mem'[p] = mem[p] /\ disk'[p] = disk[p]
      <4>1. CleanPage(p)
        BY <1>2, <3>2 DEF IInv, UseInv, CleanPages
      <4> QED
        BY <3>2, <4>1 DEF CleanPage
    <3> QED
      BY <3>1, <3>2
  <2>5. SlotsInTable'
    BY <1>2, <2>1, <2>2 DEF IInv, UseInv, SlotsInTable
  <2>6. LiveKnown'
    <3> SUFFICES ASSUME NEW q \in TablePages, NEW j \in LiveSlots(q)'
                 PROVE  <<q, j>> \in DOMAIN rows \cup strays
      BY <2>1 DEF LiveKnown
    <3>1. q \in PageIds /\ j \in DOMAIN mem[q].slots /\ ~IsDeleted(mem'[q].slots[j])
      BY <2>1, <2>2 DEF LiveSlots
    <3>2. CASE mem'[q].slots[j] = mem[q].slots[j]
      BY <1>2, <3>1, <3>2 DEF IInv, UseInv, LiveKnown, LiveSlots
    <3> QED
      BY <2>2, <3>1, <3>2
  <2>7. PathInv'
    <3>1. PICK n \in 1 .. LastPageId : \E s \in [1 .. n -> PageIds] : IsPath(n, s) /\ OwedAhead(n, s)
      BY <1>2, UseFacts, Zenon
    <3>2. PICK s \in [1 .. n -> PageIds] : IsPath(n, s) /\ OwedAhead(n, s)
      BY <3>1
    <3>3. IsPath(n, s)'
      BY <2>1, <2>2, <3>2 DEF IsPath, PathOf
    <3>4. OwedAhead(n, s)'
      BY <3>2 DEF OwedAhead, Before
    <3> QED
      BY <3>3, <3>4 DEF PathInv
  <2>8. insert_page_id_' \in TablePages'
    <3>1. PICK n \in 1 .. LastPageId : \E s \in [1 .. n -> PageIds] : IsPath(n, s) /\ OwedAhead(n, s)
      BY <1>2, UseFacts, Zenon
    <3>2. PICK s \in [1 .. n -> PageIds] : IsPath(n, s)
      BY <3>1
    <3>3. 1 \in 1 .. n
      BY ConstantFacts
    <3>4. first_page_id_ \in TablePages
      BY <2>1, <3>2, <3>3 DEF IsPath, PathOf
    <3> QED
      BY <1>2, <2>1, <3>4 DEF IInv, UseInv
  <2>9. UseInv'
    BY <1>2, <2>1, <2>4, <2>5, <2>6, <2>7, <2>8 DEF IInv, UseInv
  <2> QED
    BY <1>1, <2>1, <2>3, <2>9 DEF IInv, FreeInv
<1>3. CASE ~Idle
  <2>1. ~Idle' /\ itr = EndItr /\ DOMAIN rows = {}
    BY <1>3 DEF IInv, FreeInv, Idle
  <2>2. RowsLive'
    BY <2>1 DEF RowsLive
  <2>3. UseInv'
    BY <2>1 DEF UseInv
  <2>4. 1 \in PageIds /\ first_page_id_ = 1
    BY ConstantFacts DEF IInv, TypesInv
  <2>5. FreeInv'
    <3> SUFFICES ASSUME owned' = {first_page_id_'}, cur_page_id' # INVALID_PAGE_ID
                 PROVE  /\ mem'[1].next = INVALID_PAGE_ID
                        /\ 1 \notin dirty' => disk'[1].next = INVALID_PAGE_ID
      BY <1>3, <2>1, <2>4 DEF IInv, FreeInv
    <3>1. mem[1].next = INVALID_PAGE_ID /\ (1 \notin dirty => disk[1].next = INVALID_PAGE_ID)
      BY <1>3, <2>4 DEF IInv, FreeInv
    <3> QED
      BY <2>4, <3>1
  <2> QED
    BY <1>1, <2>2, <2>3, <2>5 DEF IInv
<1> QED
  BY <1>2, <1>3

(* The pool evicts a page: what it will read again is what was there, but  *)
(* for the marks that were never reported dirty.                           *)
LEMMA EvictKeepsIInv ==
  ASSUME IInv, NEW p \in PageIds, Evict(p)
  PROVE  IInv'
<1>1. /\ IF p \in dirty THEN disk' = [disk EXCEPT ![p] = mem[p]] /\ mem' = mem
                        ELSE mem' = [mem EXCEPT ![p] = disk[p]] /\ disk' = disk
      /\ dirty' = dirty \ {p} /\ itr' = itr /\ owed' = owed
      /\ allocated' = allocated /\ first_page_id_' = first_page_id_
      /\ insert_page_id_' = insert_page_id_ /\ rows' = rows /\ strays' = strays
      /\ freeing' = freeing /\ cur_page_id' = cur_page_id /\ owned' = owned
  BY DEF Evict, scanVars, freeVars, histVars
<1>2. DOMAIN mem = PageIds /\ DOMAIN disk = PageIds
      /\ mem = [q \in PageIds |-> mem[q]] /\ disk = [q \in PageIds |-> disk[q]]
  BY DEF IInv, TypesInv
<1>3. mem' = [q \in PageIds |-> mem'[q]] /\ disk' = [q \in PageIds |-> disk'[q]]
  BY <1>1, <1>2
<1>4. \A q \in PageIds : /\ mem'[q] = mem[q] \/ (q \notin dirty /\ mem'[q] = disk[q])
                         /\ disk'[q] = mem[q] \/ disk'[q] = disk[q]
  BY <1>1, <1>2
<1>5. \A q \in PageIds \ dirty' : \/ disk'[q] = mem'[q]
                                  \/ q \notin dirty /\ mem'[q] = mem[q] /\ disk'[q] = disk[q]
  BY <1>1, <1>2
<1>6. dirty' \subseteq dirty
  BY <1>1
<1> QED
  BY <1>1, <1>3, <1>4, <1>5, <1>6, DropKeepsIInv

(* A restart: the dirty pages are written out, the others read again, and  *)
(* the heap starts from first_page_id_.                                    *)
LEMMA ReopenKeepsIInv ==
  ASSUME IInv, Reopen
  PROVE  IInv'
<1>1. /\ Idle /\ disk' = [p \in PageIds |-> IF p \in dirty THEN mem[p] ELSE disk[p]] /\ mem' = disk'
      /\ dirty' = {} /\ insert_page_id_' = first_page_id_ /\ itr' = EndItr /\ owed' = {}
      /\ allocated' = allocated /\ first_page_id_' = first_page_id_
      /\ rows' = rows /\ strays' = strays
      /\ freeing' = freeing /\ cur_page_id' = cur_page_id /\ owned' = owned
  BY DEF Reopen, freeVars, histVars
<1>2. mem' = [q \in PageIds |-> mem'[q]] /\ disk' = [q \in PageIds |-> disk'[q]]
  BY <1>1
<1>3. \A q \in PageIds : /\ mem'[q] = mem[q] \/ (q \notin dirty /\ mem'[q] = disk[q])
                         /\ disk'[q] = mem[q] \/ disk'[q] = disk[q]
  BY <1>1
<1>4. \A q \in PageIds \ dirty' : \/ disk'[q] = mem'[q]
                                  \/ q \notin dirty /\ mem'[q] = mem[q] /\ disk'[q] = disk[q]
  BY <1>1
<1>5. dirty' \subseteq dirty
  BY <1>1
<1> QED
  BY <1>1, <1>2, <1>3, <1>4, <1>5, DropKeepsIInv
-----------------------------------------------------------------------------
(***************************************************************************)
(* The scan.  FirstFrom skips only pages without live rows, and stops at   *)
(* the first live slot.                                                    *)
(***************************************************************************)
LEMMA LiveFacts ==
  ASSUME IInv, Idle, NEW p \in PageIds
  PROVE  /\ LiveSlots(p) \subseteq Nat
         /\ \A i \in LiveSlots(p) : <<p, i>> \in Rids
         /\ LiveSlots(p) # {} => p \in TablePages
<1>1. GoodPage(mem[p]) /\ mem[p] \in PageType
  BY UseFacts
<1>2. DOMAIN mem[p].slots = 1 .. Len(mem[p].slots) /\ Len(mem[p].slots) \in Nat
  BY <1>1, PageFacts
<1>3. Len(mem[p].slots) <= PageSpace \div (SIZE_TUPLE + 1)
  BY <1>1, <1>2, SlotBound DEF GoodPage
<1> DEFINE q == PageSpace \div (SIZE_TUPLE + 1)
           len == Len(mem[p].slots)
<1>4. q \in Int
  BY ConstantFacts
<1> HIDE DEF q, len
<1>5. LiveSlots(p) \subseteq 1 .. len
  BY <1>2 DEF LiveSlots, len
<1>6. len \in Nat /\ len <= q
  BY <1>2, <1>3 DEF q, len
<1>7. \A i \in LiveSlots(p) : i \in Nat /\ i \in 1 .. q
  BY <1>4, <1>5, <1>6
<1>8. LiveSlots(p) # {} => p \in TablePages
  BY DEF IInv, UseInv, SlotsInTable, LiveSlots
<1> QED
  BY <1>7, <1>8 DEF Rids, q

(* The first live row in the pages from one of the chain on (d = 0), or    *)
(* from the one behind it on (d = 1), is found if there is one.            *)
LEMMA FirstFromFacts ==
  ASSUME IInv, Idle, NEW n \in 1 .. LastPageId, NEW s \in [1 .. n -> PageIds], IsPath(n, s),
         NEW k \in 1 .. n, NEW d \in 0 .. 1
  PROVE  LET f == FirstFrom(s[k], d) IN
         \/ /\ f = EndItr
            /\ \A j \in 1 .. n : j >= k + d => LiveSlots(s[j]) = {}
         \/ \E j \in 1 .. n : \E i \in LiveSlots(s[j]) :
              /\ j >= k + d /\ f = <<s[j], i>>
              /\ \A h \in LiveSlots(s[j]) : i <= h
              /\ \A h \in 1 .. n : h >= k + d /\ LiveSlots(s[h]) # {} => j <= h
<1> DEFINE path == Chain(s[k])
           found == {m \in d .. LastPageId : path[m] # INVALID_PAGE_ID /\ LiveSlots(path[m]) # {}}
           f == FirstFrom(s[k], d)
<1>1. f = IF found = {} THEN EndItr
          ELSE <<path[Min(found)], Min(LiveSlots(path[Min(found)]))>>
  BY DEF FirstFrom
<1>2. \A m \in 0 .. LastPageId + 1 : path[m] = IF k + m <= n THEN s[k + m] ELSE INVALID_PAGE_ID
  BY ChainIs
<1>3. n \in Nat /\ k \in Nat /\ d \in Nat /\ LastPageId \in Nat /\ n <= LastPageId /\ 1 <= k /\ k <= n
  BY ConstantFacts
<1> HIDE DEF path, f
<1>4. ASSUME NEW j \in 1 .. n, j >= k + d, LiveSlots(s[j]) # {}
      PROVE  j - k \in found
  <2>1. j - k \in d .. LastPageId /\ j - k \in 0 .. LastPageId + 1 /\ k + (j - k) = j /\ j <= n
    BY <1>3, <1>4
  <2>2. path[j - k] = s[j]
    BY <1>2, <2>1
  <2> QED
    BY <1>4, <2>1, <2>2, ConstantFacts
<1>5. ASSUME NEW m \in found
      PROVE  /\ m \in Nat /\ k + m \in 1 .. n /\ k + m >= k + d /\ path[m] = s[k + m]
             /\ LiveSlots(s[k + m]) # {}
  <2>1. m \in 0 .. LastPageId + 1 /\ m \in Nat /\ m >= d
    BY <1>3
  <2>2. k + m <= n /\ path[m] = s[k + m]
    BY <1>2, <1>3, <2>1
  <2> QED
    BY <1>3, <2>1, <2>2
<1> HIDE DEF found
<1>6. CASE found = {}
  BY <1>1, <1>4, <1>6 DEF f
<1>7. CASE found # {}
  <2> DEFINE m == Min(found)
             j == k + m
             i == Min(LiveSlots(s[j]))
  <2>1. m \in found /\ \A y \in found : m <= y
    <3>1. found \subseteq Nat
      BY <1>5
    <3> QED BY <1>7, <3>1, MinFacts
  <2> HIDE DEF m
  <2>2. m \in Nat /\ j \in 1 .. n /\ j >= k + d /\ path[m] = s[j] /\ LiveSlots(s[j]) # {}
    BY <1>5, <2>1
  <2>3. i \in LiveSlots(s[j]) /\ \A h \in LiveSlots(s[j]) : i <= h
    <3>1. LiveSlots(s[j]) \subseteq Nat
      BY <2>2, LiveFacts
    <3> QED BY <2>2, <3>1, MinFacts
  <2>4. f = <<s[j], i>>
    BY <1>1, <1>7, <2>2 DEF m
  <2>5. ASSUME NEW h \in 1 .. n, h >= k + d, LiveSlots(s[h]) # {}
        PROVE  j <= h
    <3>1. m <= h - k
      BY <1>4, <2>1, <2>5
    <3> QED
      BY <1>3, <2>2, <3>1
  <2> HIDE DEF i, j
  <2> QED
    BY <2>2, <2>3, <2>4, <2>5 DEF f
<1> QED
  BY <1>6, <1>7

(* Where a scan goes from a row of page s[k], or from before page s[1]. *)
LEMMA ScanAhead ==
  ASSUME IInv, Idle, NEW n \in 1 .. LastPageId, NEW s \in [1 .. n -> PageIds], IsPath(n, s),
         NEW k \in 1 .. n, NEW d \in 0 .. 1, NEW rid \in DOMAIN rows,
         NEW j \in 1 .. n, rid[1] = s[j], j >= k + d, rid # FirstFrom(s[k], d)
  PROVE  FirstFrom(s[k], d) # EndItr /\ Before(n, s, FirstFrom(s[k], d), rid)
<1> DEFINE f == FirstFrom(s[k], d)
<1>1. rid = <<rid[1], rid[2]>> /\ rid[2] \in LiveSlots(s[j])
  BY DEF IInv, TypesInv, RowsLive, Rids
<1>2. PICK j2 \in 1 .. n : \E i \in LiveSlots(s[j2]) :
              /\ j2 >= k + d /\ f = <<s[j2], i>>
              /\ \A h \in LiveSlots(s[j2]) : i <= h
              /\ \A h \in 1 .. n : h >= k + d /\ LiveSlots(s[h]) # {} => j2 <= h
  BY <1>1, FirstFromFacts
<1>3. PICK i \in LiveSlots(s[j2]) :
              /\ f = <<s[j2], i>>
              /\ \A h \in LiveSlots(s[j2]) : i <= h
              /\ \A h \in 1 .. n : h >= k + d /\ LiveSlots(s[h]) # {} => j2 <= h
  BY <1>2
<1> HIDE DEF f
<1>4. f[1] = s[j2] /\ f[2] = i /\ f # EndItr
  <2>1. s[j2] # INVALID_PAGE_ID
    BY ConstantFacts
  <2> QED
    BY <1>3, <2>1 DEF EndItr
<1>5. j2 <= j
  BY <1>1, <1>3
<1>6. i \in Nat /\ rid[2] \in Nat /\ j2 \in Nat /\ j \in Nat
  <2>1. s[j] \in PageIds /\ s[j2] \in PageIds
    OBVIOUS
  <2>2. LiveSlots(s[j]) \subseteq Nat /\ LiveSlots(s[j2]) \subseteq Nat
    BY <2>1, LiveFacts
  <2> QED
    BY <1>1, <1>3, <2>2
<1>7. j2 = j => i < rid[2]
  <2> SUFFICES ASSUME j2 = j PROVE i < rid[2]
    OBVIOUS
  <2>1. i <= rid[2]
    BY <1>1, <1>3
  <2>2. i # rid[2]
    BY <1>1, <1>3 DEF f
  <2> QED
    BY <1>6, <2>1, <2>2
<1>8. Before(n, s, f, rid)
  <2>1. j2 < j \/ (j2 = j /\ f[2] < rid[2])
    BY <1>4, <1>5, <1>6, <1>7
  <2> QED
    BY <1>4, <2>1 DEF Before
<1> QED
  BY <1>4, <1>8 DEF f

(* Where FirstFrom may stand. *)
LEMMA FirstFromType ==
  ASSUME IInv, Idle, NEW n \in 1 .. LastPageId, NEW s \in [1 .. n -> PageIds], IsPath(n, s),
         NEW k \in 1 .. n, NEW d \in 0 .. 1
  PROVE  LET f == FirstFrom(s[k], d) IN
         /\ f \in Rids \cup {EndItr}
         /\ f # EndItr => f[1] \in TablePages /\ \E j \in 1 .. n : j >= k + d /\ f[1] = s[j]
<1> DEFINE f == FirstFrom(s[k], d)
<1>1. CASE f = EndItr
  BY <1>1
<1>2. ASSUME NEW j \in 1 .. n, NEW i \in LiveSlots(s[j]), j >= k + d, f = <<s[j], i>>
      PROVE  f \in Rids /\ f[1] \in TablePages /\ \E h \in 1 .. n : h >= k + d /\ f[1] = s[h]
  <2>1. f[1] = s[j]
    BY <1>2
  <2>2. s[j] \in TablePages /\ <<s[j], i>> \in Rids
    BY LiveFacts
  <2> QED
    BY <1>2, <2>1, <2>2
<1>3. \/ f = EndItr
      \/ \E j \in 1 .. n : \E i \in LiveSlots(s[j]) : j >= k + d /\ f = <<s[j], i>>
  BY FirstFromFacts
<1> HIDE DEF f
<1>4. /\ f \in Rids \cup {EndItr}
      /\ f # EndItr => f[1] \in TablePages /\ \E j \in 1 .. n : j >= k + d /\ f[1] = s[j]
  BY <1>1, <1>2, <1>3
<1> QED
  BY <1>4 DEF f

(* operator++: the next row lies ahead, and no row that is owed is skipped.*)
LEMMA NextRidFacts ==
  ASSUME IInv, Idle, itr # EndItr,
         NEW n \in 1 .. LastPageId, NEW s \in [1 .. n -> PageIds], IsPath(n, s), OwedAhead(n, s)
  PROVE  LET next == NextRid(itr) IN
         /\ next \in Rids \cup {EndItr}
         /\ next # EndItr => next[1] \in TablePages /\ Before(n, s, itr, next)
         /\ \A rid \in owed \ {next} : next # EndItr /\ Before(n, s, next, rid)
<1> DEFINE next == NextRid(itr)
           later == LaterSlots(itr)
<1>1. PICK k \in 1 .. n : itr[1] = s[k]
  BY DEF IInv, UseInv, IsPath, PathOf
<1>2. itr \in Rids /\ itr = <<itr[1], itr[2]>> /\ itr[2] \in Nat
  <2>1. itr \in Rids
    BY DEF IInv, TypesInv
  <2> QED
    BY <2>1, ConstantFacts DEF Rids
<1>3. ASSUME NEW rid \in owed
      PROVE  /\ rid \in DOMAIN rows /\ rid = <<rid[1], rid[2]>> /\ rid[2] \in LiveSlots(rid[1])
             /\ \E j \in 1 .. n : rid[1] = s[j] /\ (k < j \/ (k = j /\ itr[2] < rid[2]))
  <2>1. rid \in DOMAIN rows /\ rid = <<rid[1], rid[2]>> /\ rid[2] \in LiveSlots(rid[1])
    BY DEF IInv, TypesInv, RowsLive, Rids
  <2>2. PICK k2, j \in 1 .. n : s[k2] = itr[1] /\ s[j] = rid[1]
                                /\ (k2 < j \/ (k2 = j /\ itr[2] < rid[2]))
    BY DEF OwedAhead, Before
  <2>3. k2 = k
    BY <1>1, <2>2 DEF IsPath, PathOf
  <2> QED
    BY <2>1, <2>2, <2>3
<1>4. CASE later # {}
  <2> DEFINE i == Min(later)
  <2>1. LiveSlots(s[k]) \subseteq Nat /\ (\A h \in LiveSlots(s[k]) : <<s[k], h>> \in Rids)
        /\ (LiveSlots(s[k]) # {} => s[k] \in TablePages)
    BY LiveFacts
  <2>2. later = {h \in LiveSlots(s[k]) : h > itr[2]}
    BY <1>1 DEF LaterSlots
  <2>3. next = <<s[k], i>>
    BY <1>1, <1>4 DEF NextRid
  <2> HIDE DEF later, next
  <2>4. i \in later /\ \A h \in later : i <= h
    <3>1. later \subseteq Nat
      BY <2>1, <2>2
    <3> QED BY <1>4, <3>1, MinFacts
  <2> HIDE DEF i
  <2>5. next[1] = s[k] /\ next[2] = i /\ i \in Nat /\ itr[2] < i /\ i \in LiveSlots(s[k])
    BY <1>2, <2>1, <2>2, <2>3, <2>4
  <2>6. next \in Rids /\ s[k] \in TablePages /\ next # EndItr
    <3>1. s[k] # INVALID_PAGE_ID
      BY ConstantFacts
    <3> QED
      BY <2>1, <2>3, <2>5, <3>1 DEF EndItr
  <2>7. Before(n, s, itr, next)
    BY <1>1, <2>5 DEF Before
  <2>8. ASSUME NEW rid \in owed \ {next}
        PROVE  Before(n, s, next, rid)
    <3>1. PICK j \in 1 .. n : rid[1] = s[j] /\ (k < j \/ (k = j /\ itr[2] < rid[2]))
      BY <1>3
    <3>2. CASE k < j
      BY <2>5, <3>1, <3>2 DEF Before
    <3>3. CASE k = j /\ itr[2] < rid[2]
      <4>1. rid = <<s[k], rid[2]>> /\ rid[2] \in LiveSlots(s[k])
        BY <1>3, <3>1, <3>3
      <4>2. rid[2] \in Nat /\ rid[2] \in later
        BY <1>2, <2>1, <2>2, <3>3, <4>1
      <4>3. i <= rid[2] /\ i # rid[2]
        BY <2>3, <2>4, <4>1, <4>2
      <4>4. i < rid[2]
        BY <2>5, <4>2, <4>3
      <4> QED
        BY <2>5, <3>1, <3>3, <4>4 DEF Before
    <3> QED
      BY <3>1, <3>2, <3>3
  <2> QED
    BY <2>5, <2>6, <2>7, <2>8 DEF next
<1>5. CASE later = {}
  <2>1. next = FirstFrom(s[k], 1) /\ 1 \in 0 .. 1
    BY <1>1, <1>5 DEF NextRid
  <2>2. next \in Rids \cup {EndItr}
        /\ (next # EndItr => next[1] \in TablePages /\ \E j \in 1 .. n : j >= k + 1 /\ next[1] = s[j])
    BY <2>1, FirstFromType
  <2>3. ASSUME NEW rid \in owed \ {next}
        PROVE  next # EndItr /\ Before(n, s, next, rid)
    <3>1. PICK j \in 1 .. n : rid[1] = s[j] /\ (k < j \/ (k = j /\ itr[2] < rid[2]))
      BY <1>3
    <3>2. ~(k = j /\ itr[2] < rid[2])
      <4> SUFFICES ASSUME k = j, itr[2] < rid[2] PROVE FALSE
        OBVIOUS
      <4>1. rid[2] \in LiveSlots(s[k]) /\ LiveSlots(s[k]) \subseteq Nat
        BY <1>3, <3>1, LiveFacts
      <4>2. rid[2] \in later
        BY <1>1, <1>2, <4>1 DEF LaterSlots
      <4> QED
        BY <1>5, <4>2
    <3>3. j >= k + 1
      BY <3>1, <3>2
    <3>4. rid \in DOMAIN rows
      BY <1>3
    <3>5. rid # FirstFrom(s[k], 1)
      BY <2>1
    <3> QED
      BY <2>1, <3>1, <3>3, <3>4, <3>5, ScanAhead
  <2>4. next # EndItr => Before(n, s, itr, next)
    <3> SUFFICES ASSUME next # EndItr PROVE Before(n, s, itr, next)
      OBVIOUS
    <3>1. PICK j \in 1 .. n : j >= k + 1 /\ next[1] = s[j]
      BY <2>2
    <3>2. k < j
      BY <3>1
    <3> QED
      BY <1>1, <3>1, <3>2 DEF Before
  <2> QED
    BY <2>2, <2>3, <2>4
<1> QED
  BY <1>4, <1>5

(* A step of the scan changes nothing but the scan. *)
LEMMA ScanKeepsIInv ==
  ASSUME IInv, Idle, itr' \in Rids \cup {EndItr}, itr' # EndItr => itr'[1] \in TablePages,
         owed' \subseteq DOMAIN rows,
         NEW n \in 1 .. LastPageId, NEW s \in [1 .. n -> PageIds], IsPath(n, s),
         \A rid \in owed' : itr' # EndItr /\ Before(n, s, itr', rid),
         mem' = mem, disk' = disk, dirty' = dirty, allocated' = allocated,
         first_page_id_' = first_page_id_, insert_page_id_' = insert_page_id_, rows' = rows,
         strays' = strays, freeing' = freeing, cur_page_id' = cur_page_id, owned' = owned
  PROVE  IInv'
<1>1. TypesInv'
  BY DEF IInv, TypesInv
<1>2. RowsLive' /\ TablePages' = TablePages /\ Idle'
  BY DEF IInv, RowsLive, LiveSlots, TablePages, Idle
<1>3. CleanPages' /\ SlotsInTable' /\ LiveKnown'
  <2>1. CleanPages'
    BY DEF IInv, UseInv, CleanPages, CleanPage
  <2>2. SlotsInTable'
    BY <1>2 DEF IInv, UseInv, SlotsInTable
  <2>3. LiveKnown'
    BY <1>2 DEF IInv, UseInv, LiveKnown, LiveSlots
  <2> QED BY <2>1, <2>2, <2>3
<1>4. PathInv'
  <2>1. IsPath(n, s)'
    BY <1>2 DEF IsPath
  <2>2. OwedAhead(n, s)'
    BY DEF OwedAhead, Before
  <2> QED
    BY <2>1, <2>2 DEF PathInv
<1>5. UseInv'
  BY <1>2, <1>3, <1>4 DEF IInv, UseInv
<1> QED
  BY <1>1, <1>2, <1>5 DEF IInv, FreeInv

(* Begin() stands at the first live row, so all that a scan owes is ahead. *)
LEMMA BeginKeepsIInv ==
  ASSUME IInv, Begin
  PROVE  IInv'
<1>1. /\ Idle /\ itr' = FirstFrom(first_page_id_, 0) /\ owed' = DOMAIN rows \ {itr'}
      /\ mem' = mem /\ disk' = disk /\ dirty' = dirty /\ allocated' = allocated
      /\ first_page_id_' = first_page_id_ /\ insert_page_id_' = insert_page_id_ /\ rows' = rows
      /\ strays' = strays /\ freeing' = freeing /\ cur_page_id' = cur_page_id /\ owned' = owned
  BY DEF Begin, pageVars, freeVars, histVars
<1>2. PICK n \in 1 .. LastPageId : \E s \in [1 .. n -> PageIds] : IsPath(n, s) /\ OwedAhead(n, s)
  BY <1>1, UseFacts, Zenon
<1>3. PICK s \in [1 .. n -> PageIds] : IsPath(n, s)
  BY <1>2
<1>4. 1 \in 1 .. n /\ 0 \in 0 .. 1 /\ s[1] = first_page_id_ /\ \A j \in 1 .. n : j >= 1 + 0
  BY <1>1, <1>3, UseFacts, ConstantFacts DEF IsPath, PathOf
<1>5. itr' = FirstFrom(s[1], 0)
  BY <1>1, <1>4
<1>6. itr' \in Rids \cup {EndItr} /\ (itr' # EndItr => itr'[1] \in TablePages)
  BY <1>1, <1>3, <1>4, <1>5, FirstFromType
<1>7. ASSUME NEW rid \in owed'
      PROVE  itr' # EndItr /\ Before(n, s, itr', rid)
  <2>1. rid \in DOMAIN rows /\ rid # FirstFrom(s[1], 0)
    BY <1>1, <1>5
  <2>2. PICK j \in 1 .. n : rid[1] = s[j]
    BY <1>3, <2>1 DEF IInv, RowsLive, IsPath, PathOf
  <2> QED
    BY <1>1, <1>3, <1>4, <1>5, <2>1, <2>2, ScanAhead
<1>8. owed' \subseteq DOMAIN rows
  BY <1>1
<1> QED
  BY <1>1, <1>3, <1>6, <1>7, <1>8, ScanKeepsIInv

(* operator++ passes no row that the scan still owes. *)
LEMMA AdvanceKeepsIInv ==
  ASSUME IInv, Advance
  PROVE  IInv'
<1>1. /\ Idle /\ itr # EndItr /\ itr' = NextRid(itr) /\ owed' = owed \ {itr'}
      /\ mem' = mem /\ disk' = disk /\ dirty' = dirty /\ allocated' = allocated
      /\ first_page_id_' = first_page_id_ /\ insert_page_id_' = insert_page_id_ /\ rows' = rows
      /\ strays' = strays /\ freeing' = freeing /\ cur_page_id' = cur_page_id /\ owned' = owned
  BY DEF Advance, pageVars, freeVars, histVars
<1>2. PICK n \in 1 .. LastPageId : \E s \in [1 .. n -> PageIds] : IsPath(n, s) /\ OwedAhead(n, s)
  BY <1>1, UseFacts, Zenon
<1>3. PICK s \in [1 .. n -> PageIds] : IsPath(n, s) /\ OwedAhead(n, s)
  BY <1>2
<1>4. /\ itr' \in Rids \cup {EndItr}
      /\ itr' # EndItr => itr'[1] \in TablePages
      /\ \A rid \in owed' : itr' # EndItr /\ Before(n, s, itr', rid)
  BY <1>1, <1>3, NextRidFacts
<1>5. owed' \subseteq DOMAIN rows
  BY <1>1 DEF IInv, TypesInv
<1> QED
  BY <1>1, <1>3, <1>4, <1>5, ScanKeepsIInv
-----------------------------------------------------------------------------
(* FreeHeap. *)
LEMMA FreeHeapKeepsIInv ==
  ASSUME IInv, FreeHeap
  PROVE  IInv'
<1>1. /\ Idle /\ freeing' = "running" /\ cur_page_id' = first_page_id_ /\ owned' = allocated \ {0}
      /\ itr' = EndItr /\ owed' = {} /\ rows' = [rid \in {} |-> 0] /\ strays' = {}
      /\ mem' = mem /\ disk' = disk /\ dirty' = dirty /\ allocated' = allocated
      /\ first_page_id_' = first_page_id_ /\ insert_page_id_' = insert_page_id_
  BY DEF FreeHeap, pageVars
<1>2. DOMAIN rows' = {} /\ rows' = [rid \in DOMAIN rows' |-> rows'[rid]] /\ ~Idle'
  BY <1>1 DEF Idle
<1>3. 1 \in PageIds /\ first_page_id_ = 1 /\ 0 \in allocated
  BY <1>1, UseFacts, ConstantFacts
<1>4. TypesInv'
  BY <1>1, <1>2, <1>3 DEF IInv, TypesInv
<1>5. FreeInv'
  <2> SUFFICES ASSUME owned' = {1}
               PROVE  /\ allocated = {0, 1} /\ mem[1].next = INVALID_PAGE_ID
                      /\ 1 \notin dirty => disk[1].next = INVALID_PAGE_ID
    BY <1>1, <1>2, <1>3 DEF FreeInv
  <2>1. TablePages = {1} /\ allocated = {0, 1}
    BY <1>1, <1>3 DEF TablePages
  <2>2. PICK n \in 1 .. LastPageId : \E s \in [1 .. n -> PageIds] : IsPath(n, s) /\ OwedAhead(n, s)
    BY <1>1, UseFacts, Zenon
  <2>3. PICK s \in [1 .. n -> PageIds] : IsPath(n, s)
    BY <2>2
  <2>4. 1 \in 1 .. n /\ n \in 1 .. n
    BY ConstantFacts
  <2>5. s[n] = s[1] /\ s[1] = 1
    BY <2>1, <2>3, <2>4 DEF IsPath, PathOf
  <2>6. n = 1
    BY <2>3, <2>4, <2>5 DEF IsPath, PathOf
  <2>7. mem[1].next = INVALID_PAGE_ID
    BY <2>3, <2>4, <2>5, <2>6 DEF IsPath, PathOf
  <2>8. 1 \notin dirty => CleanPage(1)
    BY <1>1, <1>3 DEF IInv, UseInv, CleanPages
  <2> QED
    BY <2>1, <2>7, <2>8 DEF CleanPage
<1> QED
  BY <1>2, <1>4, <1>5 DEF IInv, RowsLive, UseInv

(* One round of the loop in FreeHeap. *)
LEMMA FreeRoundKeepsIInv ==
  ASSUME IInv, FreeRound
  PROVE  IInv'
<1>1. /\ freeing = "running" /\ cur_page_id # INVALID_PAGE_ID
      /\ cur_page_id' = mem[first_page_id_].next
      /\ mem' = [mem EXCEPT ![cur_page_id] = disk[cur_page_id]]
      /\ dirty' = dirty \ {cur_page_id} /\ allocated' = allocated \ {cur_page_id}
      /\ freeing' = freeing /\ owned' = owned /\ disk' = disk
      /\ first_page_id_' = first_page_id_ /\ insert_page_id_' = insert_page_id_
      /\ itr' = itr /\ owed' = owed /\ rows' = rows /\ strays' = strays
  BY DEF FreeRound, scanVars, histVars
<1>2. 1 \in PageIds /\ first_page_id_ = 1 /\ cur_page_id \in PageIds
      /\ DOMAIN mem = PageIds /\ mem = [p \in PageIds |-> mem[p]]
      /\ \A p \in PageIds : GoodPage(mem[p]) /\ GoodPage(disk[p])
  BY <1>1, ConstantFacts DEF IInv, TypesInv
<1>3. mem[1].next \in PageIds \cup {INVALID_PAGE_ID}
  BY <1>2 DEF GoodPage, PageType
<1>4. TypesInv'
  <2>1. mem' = [p \in PageIds |-> mem'[p]] /\ DOMAIN mem' = PageIds
        /\ \A p \in PageIds : GoodPage(mem'[p])
    BY <1>1, <1>2
  <2> QED
    BY <1>1, <1>2, <1>3, <2>1 DEF IInv, TypesInv
<1>5. ~Idle /\ ~Idle' /\ itr = EndItr /\ DOMAIN rows = {}
  BY <1>1 DEF Idle, IInv, FreeInv
<1>6. FreeInv'
  <2>1. owned = {1} => cur_page_id' = INVALID_PAGE_ID /\ allocated' = {0}
    <3> SUFFICES ASSUME owned = {1} PROVE cur_page_id' = INVALID_PAGE_ID /\ allocated' = {0}
      OBVIOUS
    <3>1. cur_page_id = 1 /\ allocated = {0, 1} /\ mem[1].next = INVALID_PAGE_ID
      BY <1>1, <1>2, <1>5 DEF IInv, FreeInv
    <3> QED
      BY <1>1, <1>2, <3>1
  <2> QED
    BY <1>1, <1>2, <1>5, <2>1 DEF FreeInv
<1> QED
  BY <1>1, <1>4, <1>5, <1>6 DEF IInv, RowsLive, UseInv

(* FreeHeap leaves its loop. *)
LEMMA FreeReturnsKeepsIInv ==
  ASSUME IInv, FreeReturns
  PROVE  IInv'
<1>1. /\ freeing = "running" /\ cur_page_id = INVALID_PAGE_ID /\ freeing' = "done"
      /\ cur_page_id' = cur_page_id /\ owned' = owned
      /\ mem' = mem /\ disk' = disk /\ dirty' = dirty /\ allocated' = allocated
      /\ first_page_id_' = first_page_id_ /\ insert_page_id_' = insert_page_id_
      /\ itr' = itr /\ owed' = owed /\ rows' = rows /\ strays' = strays
  BY DEF FreeReturns, scanVars, pageVars, histVars
<1>2. ~Idle /\ ~Idle' /\ itr = EndItr /\ DOMAIN rows = {}
  BY <1>1 DEF Idle, IInv, FreeInv
<1>3. TypesInv'
  BY <1>1 DEF IInv, TypesInv
<1>4. FreeInv'
  BY <1>1, <1>2 DEF IInv, FreeInv
<1> QED
  BY <1>1, <1>2, <1>3, <1>4 DEF IInv, RowsLive, UseInv
-----------------------------------------------------------------------------
(* A heap that was just constructed satisfies the invariant. *)
LEMMA InitIInv == Init => IInv
<1> SUFFICES ASSUME Init PROVE IInv
  OBVIOUS
<1>1. /\ first_page_id_ = 1 /\ insert_page_id_ = 1 /\ allocated = {0, 1}
      /\ disk = [p \in PageIds |-> ZeroPage] /\ mem = [disk EXCEPT ![1] = FreshPage]
      /\ dirty = {1} /\ itr = EndItr /\ owed = {} /\ freeing = "no"
      /\ cur_page_id = INVALID_PAGE_ID /\ owned = {} /\ rows = [rid \in {} |-> 0] /\ strays = {}
  BY DEF Init
<1>2. 0 \in PageIds /\ 1 \in PageIds /\ 1 \in 1 .. LastPageId
  BY ConstantFacts
<1>3. mem[1] = FreshPage /\ (\A p \in PageIds \ {1} : mem[p] = ZeroPage)
      /\ (\A p \in PageIds : disk[p] = ZeroPage)
      /\ DOMAIN mem = PageIds /\ mem = [p \in PageIds |-> mem[p]]
  BY <1>1, <1>2
<1>4. TypesInv
  <2>1. \A p \in PageIds : GoodPage(mem[p]) /\ GoodPage(disk[p])
    BY <1>3, FreshGood
  <2>2. DOMAIN rows = {} /\ rows = [rid \in DOMAIN rows |-> rows[rid]]
    BY <1>1
  <2> QED
    BY <1>1, <1>2, <1>3, <2>1, <2>2 DEF TypesInv
<1>5. RowsLive /\ Idle /\ TablePages = {1}
  BY <1>1 DEF RowsLive, Idle, TablePages
<1>6. \A p \in PageIds : DOMAIN mem[p].slots = {} /\ LiveSlots(p) = {}
  BY <1>2, <1>3, FreshGood DEF LiveSlots
<1>7. CleanPages
  <2> SUFFICES ASSUME NEW p \in PageIds \ {1} PROVE CleanPage(p)
    BY <1>1 DEF CleanPages
  <2>1. mem[p] = ZeroPage /\ disk[p] = ZeroPage
    BY <1>3
  <2> QED
    BY <2>1 DEF CleanPage
<1>8. SlotsInTable /\ LiveKnown
  BY <1>1, <1>2, <1>5, <1>6 DEF SlotsInTable, LiveKnown
<1>9. PathInv
  <2> DEFINE s == [i \in 1 .. 1 |-> 1]
  <2>1. s \in [1 .. 1 -> PageIds] /\ s[1] = 1 /\ \A i \in 1 .. 1 : i = 1
    BY <1>2
  <2>2. \A i \in 1 .. 1 : s[i] = 1
    OBVIOUS
  <2> HIDE DEF s
  <2>3. {s[i] : i \in 1 .. 1} = {1}
    BY <2>1, <2>2
  <2>4. \A i \in 1 .. 1 : mem[s[i]].next = INVALID_PAGE_ID /\ ~(i < 1)
    BY <1>3, <2>1, <2>2, FreshGood
  <2>5. IsPath(1, s)
    BY <1>5, <2>1, <2>3, <2>4 DEF IsPath, PathOf
  <2>6. OwedAhead(1, s)
    BY <1>1 DEF OwedAhead
  <2> QED
    BY <1>2, <2>1, <2>5, <2>6 DEF PathInv
<1> QED
  BY <1>1, <1>4, <1>5, <1>7, <1>8, <1>9 DEF IInv, UseInv, FreeInv

(* Every step of the heap keeps the invariant. *)
LEMMA NextKeepsIInv == IInv /\ [Next]_vars => IInv'
<1> SUFFICES ASSUME IInv, [Next]_vars PROVE IInv'
  OBVIOUS
<1>1. ASSUME NEW r \in Rows, InsertTuple(r) PROVE IInv'
  BY <1>1, InsertKeepsIInv
<1>2. ASSUME NEW rid \in KnownRids, MarkDelete(rid) PROVE IInv'
  BY <1>2, MarkKeepsIInv
<1>3. ASSUME NEW rid \in KnownRids, RollbackDelete(rid) PROVE IInv'
  BY <1>3, RollbackKeepsIInv
<1>4. ASSUME NEW rid \in KnownRids, ApplyDelete(rid) PROVE IInv'
  BY <1>4, ApplyKeepsIInv
<1>5. ASSUME NEW rid \in KnownRids, NEW r \in Rows, UpdateInPlace(rid, r) PROVE IInv'
  BY <1>5, UpdateKeepsIInv
<1>6. ASSUME NEW rid \in KnownRids, NEW r \in Rows, UpdateMoves(rid, r) PROVE IInv'
  BY <1>6, MoveKeepsIInv
<1>7. ASSUME NEW rid \in KnownRids, NEW r \in Rows, UpdateMoveRefused(rid, r) PROVE IInv'
  BY <1>7, RefusedKeepsIInv
<1>8. ASSUME NEW p \in PageIds, Evict(p) PROVE IInv'
  BY <1>8, EvictKeepsIInv
<1>9. CASE UNCHANGED vars
  <2>1. /\ mem' = mem /\ disk' = disk /\ dirty' = dirty /\ allocated' = allocated
        /\ first_page_id_' = first_page_id_ /\ insert_page_id_' = insert_page_id_
        /\ itr' = itr /\ owed' = owed /\ freeing' = freeing /\ cur_page_id' = cur_page_id
        /\ owned' = owned /\ rows' = rows /\ strays' = strays
    BY <1>9 DEF vars, pageVars, scanVars, freeVars, histVars
  <2>2. mem' = [p \in PageIds |-> mem'[p]] /\ disk' = [p \in PageIds |-> disk'[p]]
    BY <2>1 DEF IInv, TypesInv
  <2> QED
    BY <2>1, <2>2, DropKeepsIInv
<1> QED
  BY <1>1, <1>2, <1>3, <1>4, <1>5, <1>6, <1>7, <1>8, <1>9, ReopenKeepsIInv, BeginKeepsIInv,
     AdvanceKeepsIInv, FreeHeapKeepsIInv, FreeRoundKeepsIInv, FreeReturnsKeepsIInv DEF Next

(* The inductive invariant holds in every reachable state. *)
THEOREM HeapInvariant == Spec => []IInv
BY InitIInv, NextKeepsIInv, PTL DEF Spec

(* The rows that refused updates took out have ids of the table. *)
LostInv == lost \subseteq Rids

(* See above. *)
LEMMA LostTyped == Spec => []LostInv
<1>1. Init => LostInv
  BY DEF Init, LostInv
<1>2. LostInv /\ [Next]_vars => LostInv'
  <2> SUFFICES ASSUME lost \subseteq Rids, [Next]_vars PROVE lost' \subseteq Rids
    BY DEF LostInv, Rids, PageIds
  <2>1. ASSUME NEW rid \in KnownRids, NEW r \in Rows, UpdateMoveRefused(rid, r)
        PROVE  lost' \subseteq Rids
    BY <2>1 DEF UpdateMoveRefused, KnownRids
  <2>2. CASE lost' \subseteq lost
    BY <2>2
  <2>3. ASSUME NEW rid, Settle(rid)
        PROVE  lost' \subseteq lost
    BY <2>3 DEF Settle
  <2>4. ASSUME NEW r \in Rows, InsertTuple(r)
        PROVE  lost' \subseteq lost
    BY <2>3, <2>4 DEF InsertTuple
  <2>5. ASSUME NEW rid \in KnownRids, NEW r \in Rows, UpdateMoves(rid, r)
        PROVE  lost' \subseteq lost
    BY <2>5 DEF UpdateMoves
  <2>6. ASSUME NEW rid \in KnownRids,
               \/ MarkDelete(rid) \/ RollbackDelete(rid) \/ ApplyDelete(rid)
               \/ \E r \in Rows : UpdateInPlace(rid, r)
        PROVE  lost' \subseteq lost
    BY <2>3, <2>6 DEF MarkDelete, RollbackDelete, ApplyDelete, UpdateInPlace
  <2>7. CASE (\E p \in PageIds : Evict(p)) \/ Reopen \/ Begin \/ Advance
    BY <2>2, <2>7 DEF Evict, Reopen, Begin, Advance, histVars
  <2>8. CASE FreeHeap \/ FreeRound \/ FreeReturns \/ UNCHANGED vars
    BY <2>2, <2>8 DEF FreeHeap, FreeRound, FreeReturns, histVars, vars
  <2> QED
    BY <2>1, <2>2, <2>4, <2>5, <2>6, <2>7, <2>8 DEF Next
<1> QED
  BY <1>1, <1>2, PTL DEF Spec

(* The pages of a table are well formed, with a free space that does not   *)
(* wrap; they are all on its chain, whatever the pool evicted between two  *)
(* operations; FreeHeap of a heap of one page gives that page back.        *)
THEOREM HeapStaysConsistent == Spec => []HeapConsistent
<1>1. ASSUME IInv, LostInv
      PROVE  HeapConsistent
  <2>1. TypeOK
    <3>1. ASSUME NEW p \in PageIds
          PROVE  PageOK(mem[p])
      <4>1. GoodPage(mem[p]) /\ mem[p] \in PageType
        BY <1>1 DEF IInv, TypesInv, GoodPage
      <4>2. \A i \in DOMAIN mem[p].slots : mem[p].slots[i] \in SlotType
        BY <4>1, PageFacts
      <4> QED
        BY <4>1, <4>2 DEF GoodPage, PageOK, PageType, SlotType
    <3>2. 1 \in PageIds
      BY ConstantFacts
    <3> QED
      BY <1>1, <3>1, <3>2 DEF IInv, TypesInv, TypeOK, LostInv
  <2>2. ChainComplete
    <3> SUFFICES ASSUME Idle
                 PROVE  /\ Chain(first_page_id_)[LastPageId + 1] = INVALID_PAGE_ID
                        /\ HeapPages = allocated \ {0}
                        /\ insert_page_id_ \in HeapPages
      BY DEF ChainComplete
    <3>1. PICK n \in 1 .. LastPageId : \E s \in [1 .. n -> PageIds] : IsPath(n, s) /\ OwedAhead(n, s)
      BY <1>1, UseFacts, Zenon
    <3>2. PICK s \in [1 .. n -> PageIds] : IsPath(n, s)
      BY <3>1
    <3>3. first_page_id_ = 1
      BY <1>1, UseFacts
    <3>4. Chain(first_page_id_)[LastPageId + 1] = INVALID_PAGE_ID /\ HeapPages = TablePages
      BY <3>2, <3>3, PathFacts
    <3> QED
      BY <1>1, <3>4 DEF IInv, UseInv, TablePages
  <2>3. FreesOnePage
    <3> SUFFICES ASSUME owned = {first_page_id_}
                 PROVE  /\ cur_page_id \in {first_page_id_, INVALID_PAGE_ID}
                        /\ cur_page_id = INVALID_PAGE_ID => allocated = {0}
      BY DEF FreesOnePage
    <3>1. ~Idle
      BY <1>1 DEF IInv, UseInv
    <3>2. first_page_id_ # INVALID_PAGE_ID
      BY <1>1, ConstantFacts DEF IInv, TypesInv
    <3> QED
      BY <1>1, <3>1, <3>2 DEF IInv, FreeInv
  <2> QED
    BY <2>1, <2>2, <2>3 DEF HeapConsistent
<1> QED
  BY <1>1, HeapInvariant, LostTyped, PTL

(* The pages that a scan reaches are those of the table. *)
LEMMA HeapPagesFacts ==
  ASSUME IInv, Idle
  PROVE  HeapPages = TablePages
<1>1. PICK n \in 1 .. LastPageId : \E s \in [1 .. n -> PageIds] : IsPath(n, s) /\ OwedAhead(n, s)
  BY UseFacts, Zenon
<1>2. PICK s \in [1 .. n -> PageIds] : IsPath(n, s)
  BY <1>1
<1>3. first_page_id_ = 1
  BY UseFacts
<1> QED
  BY <1>2, <1>3, PathFacts

(* Each row that was inserted and neither deleted nor taken out by an      *)
(* UpdateTuple that then failed is live at its row id, in a page of the    *)
(* chain and with its content, whatever the pool evicted.                  *)
THEOREM RowsAreKept == Spec => []NoRowLost
<1>1. ASSUME IInv
      PROVE  NoRowLost
  <2>1. CASE Idle
    <3>1. ASSUME NEW rid \in DOMAIN rows
          PROVE  rid \in LiveRids /\ mem[rid[1]].slots[rid[2]].row = rows[rid]
      <4>1. rid = <<rid[1], rid[2]>> /\ rid[1] \in TablePages /\ rid[2] \in LiveSlots(rid[1])
            /\ mem[rid[1]].slots[rid[2]].row = rows[rid]
        BY <1>1 DEF IInv, TypesInv, RowsLive, Rids
      <4>2. rid \in {rid[1]} \X LiveSlots(rid[1])
        BY <4>1
      <4>3. rid[1] \in HeapPages
        BY <1>1, <2>1, <4>1, HeapPagesFacts
      <4> QED
        BY <4>1, <4>2, <4>3 DEF LiveRids
    <3> QED
      BY <3>1 DEF NoRowLost
  <2>2. CASE ~Idle
    BY <1>1, <2>2 DEF IInv, FreeInv, NoRowLost
  <2> QED
    BY <2>1, <2>2
<1> QED
  BY <1>1, HeapInvariant, PTL

(* A row that was deleted does not come back, unless UpdateTuple marked it *)
(* in a page that it unpinned as clean.                                    *)
THEOREM DeletedRowsStayDeleted == Spec => []DeletedStaysDeleted
<1>1. ASSUME IInv
      PROVE  DeletedStaysDeleted
  <2> SUFFICES ASSUME Idle, NEW rid \in LiveRids
               PROVE  rid \in DOMAIN rows \cup strays
    BY DEF DeletedStaysDeleted
  <2>1. PICK p \in HeapPages : rid \in {p} \X LiveSlots(p)
    BY DEF LiveRids
  <2>2. p \in TablePages
    BY <1>1, <2>1, HeapPagesFacts
  <2>3. PICK i \in LiveSlots(p) : rid = <<p, i>>
    BY <2>1
  <2> QED
    BY <1>1, <2>2, <2>3 DEF IInv, UseInv, LiveKnown
<1> QED
  BY <1>1, HeapInvariant, PTL

(* A scan that has reached End() has returned every row that was in the    *)
(* table from Begin() on.                                                  *)
THEOREM ScansAreComplete == Spec => []ScanComplete
<1>1. ASSUME IInv
      PROVE  ScanComplete
  <2>1. CASE Idle
    BY <1>1, <2>1, UseFacts DEF OwedAhead, ScanComplete
  <2>2. CASE ~Idle
    BY <1>1, <2>2 DEF IInv, TypesInv, FreeInv, ScanComplete
  <2> QED
    BY <2>1, <2>2
<1> QED
  BY <1>1, HeapInvariant, PTL

(* operator++ moves forward in the order of the chain and the slots, so    *)
(* that a scan returns no row id twice.                                    *)
THEOREM ScansGoForward == Spec => ScanForward
<1> DEFINE Forward == itr # EndItr /\ itr' # EndItr /\ itr' # itr =>
                        \/ Position(itr) < Position(itr')
                        \/ Position(itr) = Position(itr') /\ itr[2] < itr'[2]
<1>1. ASSUME IInv, [Next]_vars
      PROVE  [Forward]_vars
  <2> SUFFICES ASSUME itr # EndItr, itr' # EndItr, itr' # itr
               PROVE  \/ Position(itr) < Position(itr')
                      \/ Position(itr) = Position(itr') /\ itr[2] < itr'[2]
    OBVIOUS
  <2>1. Advance
    BY <1>1 DEF vars, scanVars, Next, InsertTuple, MarkDelete, RollbackDelete, ApplyDelete,
                UpdateInPlace, UpdateMoves, UpdateMoveRefused, Evict, Reopen, Begin, FreeHeap,
                FreeRound, FreeReturns, Forget
  <2>2. Idle /\ itr' = NextRid(itr)
    BY <2>1 DEF Advance
  <2>3. PICK n \in 1 .. LastPageId : \E s \in [1 .. n -> PageIds] : IsPath(n, s) /\ OwedAhead(n, s)
    BY <1>1, <2>2, UseFacts, Zenon
  <2>4. PICK s \in [1 .. n -> PageIds] : IsPath(n, s) /\ OwedAhead(n, s)
    BY <2>3
  <2>5. Before(n, s, itr, itr')
    BY <1>1, <2>2, <2>4, NextRidFacts
  <2>6. PICK k, j \in 1 .. n : s[k] = itr[1] /\ s[j] = itr'[1] /\ (k < j \/ (k = j /\ itr[2] < itr'[2]))
    BY <2>5 DEF Before
  <2>7. first_page_id_ = 1
    BY <1>1, <2>2, UseFacts
  <2>8. \A h \in 1 .. n : Position(<<s[h]>>) = h - 1
    BY <2>4, <2>7, PathFacts
  <2>9. Position(itr) = k - 1 /\ Position(itr') = j - 1
    <3>1. Position(itr) = Position(<<s[k]>>)
      BY <2>6 DEF Position
    <3>2. Position(itr') = Position(<<s[j]>>)
      BY <2>6 DEF Position
    <3> QED
      BY <2>8, <3>1, <3>2
  <2> QED
    BY <2>6, <2>9
<1> QED
  BY <1>1, HeapInvariant, PTL DEF Spec, ScanForward
=============================================================================
