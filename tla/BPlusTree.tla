----------------------------- MODULE BPlusTree -----------------------------
(***************************************************************************)
(* MiniSQL's B+ tree index: index/b_plus_tree.cpp over the leaf pages, the *)
(* internal pages and the index roots page (page/b_plus_tree_*.cpp,        *)
(* page/index_roots_page.cpp), and its iterator.                           *)
(*                                                                         *)
(* An operation runs on one thread and is one step.  The buffer pool       *)
(* appears by what it promises: NewPage returns the lowest free page,      *)
(* FetchPage the page with the given id; pins are left out, since no       *)
(* branch of the index depends on one.  The tree in a state is a record,   *)
(* which the operators below transform as the methods do.                  *)
(***************************************************************************)
EXTENDS Integers, Sequences, FiniteSets

SeqOps == INSTANCE SequencesExt

CONSTANTS
  MaxPageId,        (* Bound: index pages are 2..MaxPageId.                *)
  Shapes,           (* [leaf, internal, keys]: the sizes LEAF_PAGE_SIZE    *)
                    (* and INTERNAL_PAGE_SIZE for a key type, and a bound  *)
                    (* on the keys: 1..keys.                               *)
  NoKey,            (* The key of an internal page's first entry.          *)
  Operations        (* Removals and insertions that clients also make:     *)
                    (* "leftmost merge", "refill".                         *)

INVALID_PAGE_ID == -1
NoEntry == -2       (* The index has no entry in the index roots page.     *)
PageIds == 2 .. MaxPageId

ASSUME IndexAssumption ==
  /\ MaxPageId \in Nat
  /\ \A s \in Shapes : s.leaf > 1 /\ s.internal > 2 /\ s.keys \in Nat

VARIABLES
  shape,            (* Constant: the index that is being used.             *)
  tree,             (* pages: page id -> node, for the allocated pages     *)
                    (* root: root_page_id_                                 *)
                    (* stored: the index's entry in the index roots page   *)
  content           (* History: the keys inserted and not removed.         *)

vars == <<shape, tree, content>>

Keys == 1 .. shape.keys
Row(k) == <<k>>     (* The row id that is stored under a key.              *)

Leaf(parent, next, items) ==
  [leaf |-> TRUE, parent |-> parent, next |-> next, items |-> items]
Internal(parent, items) ==
  [leaf |-> FALSE, parent |-> parent, next |-> INVALID_PAGE_ID, items |-> items]

Size(node) == Len(node.items)
MaxSize(node) == IF node.leaf THEN shape.leaf ELSE shape.internal

MinSize(node) == MaxSize(node) \div 2

(* KeyAt, ValueAt: array_[i], which counts from 0. *)
KeyAt(node, i) == node.items[i + 1][1]
ValueAt(node, i) == node.items[i + 1][2]
-----------------------------------------------------------------------------
(* The buffer pool: the pages in use are the domain of pages.              *)
HasRoom(n) == Cardinality(PageIds \ DOMAIN tree.pages) >= n

NewPageId(t) == CHOOSE p \in PageIds \ DOMAIN t.pages :
                  \A q \in PageIds \ DOMAIN t.pages : p <= q

Write(t, p, node) ==
  [t EXCEPT !.pages = [q \in DOMAIN t.pages \cup {p} |-> IF q = p THEN node ELSE t.pages[q]]]

DeletePage(t, p) ==
  [t EXCEPT !.pages = [q \in DOMAIN t.pages \ {p} |-> t.pages[q]]]

SetItems(t, p, items) == Write(t, p, [t.pages[p] EXCEPT !.items = items])

(* SetParentPageId of a set of pages. *)
Adopt(t, children, parent) ==
  [t EXCEPT !.pages = [q \in DOMAIN t.pages |->
     IF q \in children THEN [t.pages[q] EXCEPT !.parent = parent] ELSE t.pages[q]]]

(* UpdateRootPageId: IndexRootsPage::Update changes an entry it finds,     *)
(* IndexRootsPage::Insert adds one where there is none.                    *)
UpdateRoot(t) == IF t.stored = NoEntry THEN t ELSE [t EXCEPT !.stored = t.root]
InsertRoot(t) == IF t.stored = NoEntry THEN [t EXCEPT !.stored = t.root] ELSE t
-----------------------------------------------------------------------------
(* The binary searches: the first index in lo..hi+1 from which on the keys *)
(* are at least key (KeyIndex), or greater than key (Lookup).              *)
RECURSIVE FirstNotLess(_, _, _, _)
FirstNotLess(node, key, lo, hi) ==
  IF lo > hi THEN lo
  ELSE LET mid == (lo + hi) \div 2 IN
       IF KeyAt(node, mid) < key
       THEN FirstNotLess(node, key, mid + 1, hi)
       ELSE FirstNotLess(node, key, lo, mid - 1)

KeyIndex(node, key) == FirstNotLess(node, key, 0, Size(node) - 1)

(* Mutant: the search for the child starts at the first entry but one. *)
LookupChildFromTwo(node, key) == ValueAt(node, FirstNotLess(node, key + 1, 2, Size(node) - 1) - 1)

(* BPlusTreeInternalPage::Lookup: the first key is skipped; keys are       *)
(* integers, so that a key above key is one that is not less than key + 1. *)
LookupChild(node, key) == ValueAt(node, FirstNotLess(node, key + 1, 1, Size(node) - 1) - 1)

(* BPlusTreeLeafPage::Lookup. *)
HasKey(node, key) ==
  LET i == KeyIndex(node, key) IN i < Size(node) /\ KeyAt(node, i) = key

RECURSIVE FindLeaf(_, _, _)
FindLeaf(t, p, key) ==
  IF t.pages[p].leaf THEN p ELSE FindLeaf(t, LookupChild(t.pages[p], key), key)

GetValue(t, key) ==
  IF t.root = INVALID_PAGE_ID THEN {}
  ELSE LET node == t.pages[FindLeaf(t, t.root, key)] IN
       IF HasKey(node, key) THEN {ValueAt(node, KeyIndex(node, key))} ELSE {}
-----------------------------------------------------------------------------
ChildrenIn(items) == {item[2] : item \in SeqOps!ToSet(items)}

ValueIndex(node, p) == CHOOSE i \in 0 .. Size(node) - 1 : ValueAt(node, i) = p

(* Mutant: the new leaf is not linked to its successor. *)
SplitUnlinked(t, p, q) ==
  LET node == t.pages[p]
      kept == SubSeq(node.items, 1, MinSize(node))
      moved == SubSeq(node.items, MinSize(node) + 1, Size(node))
  IN IF node.leaf
     THEN Write(Write(t, p, Leaf(node.parent, q, kept)),
                q, Leaf(INVALID_PAGE_ID, INVALID_PAGE_ID, moved))
     ELSE Adopt(Write(SetItems(t, p, kept), q, Internal(INVALID_PAGE_ID, moved)),
                ChildrenIn(moved), q)

(* Split p: the entries from MinSize on move to the new page q. *)
Split(t, p, q) ==
  LET node == t.pages[p]
      kept == SubSeq(node.items, 1, MinSize(node))
      moved == SubSeq(node.items, MinSize(node) + 1, Size(node))
  IN IF node.leaf
     THEN Write(Write(t, p, Leaf(node.parent, q, kept)),
                q, Leaf(INVALID_PAGE_ID, node.next, moved))
     ELSE Adopt(Write(SetItems(t, p, kept), q, Internal(INVALID_PAGE_ID, moved)),
                ChildrenIn(moved), q)

(* Mutant: UpdateRootPageId is not called for a new root. *)
NewRootNotStored(t, old, key, new) ==
  LET r == NewPageId(t)
      populated == Write(t, r, Internal(INVALID_PAGE_ID, <<<<NoKey, old>>, <<key, new>>>>))
  IN [Adopt(populated, {old, new}, r) EXCEPT !.root = r]

NewRoot(t, old, key, new) ==
  LET r == NewPageId(t)
      populated == Write(t, r, Internal(INVALID_PAGE_ID, <<<<NoKey, old>>, <<key, new>>>>))
  IN UpdateRoot([Adopt(populated, {old, new}, r) EXCEPT !.root = r])

(* The test after an insertion into p, Split and InsertIntoParent, up the  *)
(* tree.  The key that moves up is read before the split.                  *)
RECURSIVE SplitIfTooBig(_, _)
SplitIfTooBig(t, p) ==
  LET node == t.pages[p] IN
  IF Size(node) <= MaxSize(node) THEN t
  ELSE LET key == KeyAt(node, MinSize(node))
           q == NewPageId(t)
           split == Split(t, p, q)
           parent == split.pages[p].parent
       IN IF parent = INVALID_PAGE_ID
          THEN NewRoot(split, p, key, q)
          ELSE LET above == split.pages[parent]
                   i == ValueIndex(above, p) + 1
                   inserted == SetItems(split, parent, SeqOps!InsertAt(above.items, i + 1, <<key, q>>))
               IN SplitIfTooBig(Adopt(inserted, {p, q}, parent), parent)

StartNewTree(t, key) ==
  LET p == NewPageId(t)
      leaf == Leaf(INVALID_PAGE_ID, INVALID_PAGE_ID, <<<<key, Row(key)>>>>)
  IN InsertRoot([Write(t, p, leaf) EXCEPT !.root = p])

InsertIntoLeaf(t, key) ==
  LET p == FindLeaf(t, t.root, key)
      node == t.pages[p]
      items == SeqOps!InsertAt(node.items, KeyIndex(node, key) + 1, <<key, Row(key)>>)
  IN IF HasKey(node, key) THEN t ELSE SplitIfTooBig(SetItems(t, p, items), p)
-----------------------------------------------------------------------------
(* Mutant: the only child keeps its parent. *)
PromoteNotAdopted(t, p) ==
  LET child == ValueAt(t.pages[p], 0) IN
  [t |-> UpdateRoot([SetItems(t, p, <<>>) EXCEPT !.root = child]), delete |-> TRUE]

(* Mutant: AdjustRoot returns false. *)
PromoteNotDeleted(t, p) ==
  LET child == ValueAt(t.pages[p], 0)
      promoted == UpdateRoot([SetItems(t, p, <<>>) EXCEPT !.root = child])
  IN [t |-> Adopt(promoted, {child}, INVALID_PAGE_ID), delete |-> FALSE]

(* What this and the next ones return: the tree, and whether the caller    *)
(* shall delete the page p.                                                *)
PromoteOnlyChild(t, p) ==
  LET child == ValueAt(t.pages[p], 0)
      promoted == UpdateRoot([SetItems(t, p, <<>>) EXCEPT !.root = child])
  IN [t |-> Adopt(promoted, {child}, INVALID_PAGE_ID), delete |-> TRUE]

AdjustRoot(t, p) ==
  LET node == t.pages[p] IN
  IF ~node.leaf /\ Size(node) = 1 THEN PromoteOnlyChild(t, p)
  ELSE IF node.leaf /\ Size(node) = 0
  THEN [t |-> UpdateRoot([t EXCEPT !.root = INVALID_PAGE_ID]), delete |-> TRUE]
  ELSE [t |-> t, delete |-> FALSE]

(* MoveFirstToEndOf and MoveLastToFrontOf: between internal pages the key  *)
(* of the entry goes through the parent.                                   *)
AppendMoved(node, moved, middle) ==
  Append(node.items, IF node.leaf THEN moved ELSE <<middle, moved[2]>>)

PrependMoved(node, moved, middle) ==
  <<moved>> \o (IF node.leaf THEN node.items
                ELSE [node.items EXCEPT ![1] = <<middle, @[2]>>])

(* Redistribute: an entry comes from the right sibling when p is the first *)
(* child, else from the left one.                                          *)
Redistribute(t, parent, p, sibling, index) ==
  LET node == t.pages[p]
      other == t.pages[sibling]
      above == t.pages[parent]
      at == IF index = 0 THEN 1 ELSE index
      middle == KeyAt(above, at)
      moved == IF index = 0 THEN other.items[1] ELSE other.items[Size(other)]
      ours == IF index = 0 THEN AppendMoved(node, moved, middle)
              ELSE PrependMoved(node, moved, middle)
      theirs == IF index = 0 THEN Tail(other.items) ELSE SeqOps!Front(other.items)
      separator == IF index = 0 THEN theirs[1][1] ELSE ours[1][1]
      placed == SetItems(SetItems(t, p, ours), sibling, theirs)
      keyed == SetItems(placed, parent, [above.items EXCEPT ![at + 1] = <<separator, @[2]>>])
  IN IF node.leaf THEN keyed ELSE Adopt(keyed, {moved[2]}, p)

(* MoveAllTo: from is emptied into its left neighbour to. *)
MoveAllTo(t, from, to, middle) ==
  LET node == t.pages[from]
      items == IF node.leaf THEN node.items ELSE [node.items EXCEPT ![1] = <<middle, @[2]>>]
      filled == Write(SetItems(t, from, <<>>), to,
                      [t.pages[to] EXCEPT !.items = @ \o items,
                                          !.next = node.next])
  IN IF node.leaf THEN filled ELSE Adopt(filled, ChildrenIn(items), to)

(* Coalesce swaps the two pages when p is the first child, so that p       *)
(* receives the entries; the caller is told to delete p in either case.    *)
RECURSIVE CoalesceOrRedistribute(_, _)
CoalesceOrRedistribute(t, p) ==
  LET node == t.pages[p]
      parent == node.parent
      above == t.pages[parent]
      index == ValueIndex(above, p)
      sibling == ValueAt(above, IF index = 0 THEN 1 ELSE index - 1)
      at == IF index = 0 THEN 1 ELSE index
      merged == IF index = 0
                THEN MoveAllTo(t, sibling, p, KeyAt(above, at))
                ELSE MoveAllTo(t, p, sibling, KeyAt(above, at))
      up == CoalesceOrRedistribute(SetItems(merged, parent, SeqOps!RemoveAt(above.items, at + 1)), parent)
  IN IF parent = INVALID_PAGE_ID THEN AdjustRoot(t, p)
     ELSE IF Size(node) >= MinSize(node) THEN [t |-> t, delete |-> FALSE]
     ELSE IF Size(t.pages[sibling]) + Size(node) > MaxSize(node)
     THEN [t |-> Redistribute(t, parent, p, sibling, index), delete |-> FALSE]
     ELSE [t |-> IF up.delete THEN DeletePage(up.t, parent) ELSE up.t, delete |-> TRUE]

RemoveFromLeaf(t, key) ==
  LET p == FindLeaf(t, t.root, key)
      node == t.pages[p]
      removed == SetItems(t, p, SeqOps!RemoveAt(node.items, KeyIndex(node, key) + 1))
      after == CoalesceOrRedistribute(removed, p)
  IN IF ~HasKey(node, key) THEN t
     ELSE IF after.delete THEN DeletePage(after.t, p) ELSE after.t
-----------------------------------------------------------------------------
(* Following child pointers.  Dangling: a pointer to a deleted page.       *)
Child(t, p) == IF t.pages[p].leaf THEN {} ELSE ChildrenIn(t.pages[p].items)

RECURSIVE Below(_, _)
Below(t, level) ==
  IF level = {} THEN {}
  ELSE level \cup Below(t, UNION {Child(t, p) : p \in level \cap DOMAIN t.pages})

Reachable(t) == IF t.root = INVALID_PAGE_ID THEN {} ELSE Below(t, {t.root})
Dangling(t) == Reachable(t) \ DOMAIN t.pages # {}

(* An insertion needs at most one page for each level and one for a root.  *)
Insert(k) ==
  /\ HasRoom(4)
  /\ tree.root = INVALID_PAGE_ID => tree.stored = NoEntry \/ "refill" \in Operations
  /\ tree' = IF tree.root = INVALID_PAGE_ID THEN StartNewTree(tree, k)
             ELSE InsertIntoLeaf(tree, k)
  /\ content' = content \cup {k}
  /\ UNCHANGED shape

Remove(k) ==
  LET after == IF tree.root = INVALID_PAGE_ID THEN tree ELSE RemoveFromLeaf(tree, k) IN
  /\ Dangling(after) => "leftmost merge" \in Operations
  /\ tree' = after
  /\ content' = content \ {k}
  /\ UNCHANGED shape

(* The database is closed and the index constructed again on its pages.    *)
Open ==
  /\ tree' = [tree EXCEPT !.root = IF tree.stored = NoEntry THEN INVALID_PAGE_ID ELSE tree.stored]
  /\ UNCHANGED <<shape, content>>

Init ==
  /\ shape \in Shapes
  /\ tree = [pages |-> <<>>, root |-> INVALID_PAGE_ID, stored |-> NoEntry]
  /\ content = {}

Next == Open \/ \E k \in Keys : Insert(k) \/ Remove(k)

Spec == Init /\ [][Next]_vars
-----------------------------------------------------------------------------
(* Every node is a leaf or an internal page whose entries fit the array of *)
(* max_size_ + 1 elements, and page ids are ids of pages.                  *)
TypeOK ==
  /\ shape \in Shapes
  /\ DOMAIN tree.pages \subseteq PageIds
  /\ tree.root \in PageIds \cup {INVALID_PAGE_ID}
  /\ tree.stored \in PageIds \cup {INVALID_PAGE_ID, NoEntry}
  /\ \A p \in DOMAIN tree.pages :
       LET node == tree.pages[p] IN
       /\ node.leaf \in BOOLEAN
       /\ node.parent \in PageIds \cup {INVALID_PAGE_ID}
       /\ node.next \in PageIds \cup {INVALID_PAGE_ID}
       /\ \A i \in 1 .. Size(node) :
            /\ node.items[i][1] \in Keys \cup {NoKey}
            /\ node.leaf => node.items[i] = <<node.items[i][1], Row(node.items[i][1])>>
            /\ ~node.leaf => node.items[i][2] \in PageIds
  /\ content \subseteq Keys

(* The pages in use are exactly the pages of the tree: no live page was    *)
(* given back, and no page that was emptied is kept for ever.  Removals    *)
(* that give a live page back (Coalesce on a leftmost child) are made only *)
(* with "leftmost merge" in Operations, and then break it: without them    *)
(* what is checked is that no other operation leaks or loses a page.       *)
PagesMatchTree == Reachable(tree) = DOMAIN tree.pages

(* A lookup finds exactly the keys that were inserted and not removed, and *)
(* the rows they were inserted with, after every split, merge and move.    *)
LookupAgrees ==
  \A k \in Keys : GetValue(tree, k) = IF k \in content THEN {Row(k)} ELSE {}

(* The depths of the leaves below p, which is at depth d. *)
RECURSIVE Depths(_, _)
Depths(p, d) ==
  IF tree.pages[p].leaf THEN {d}
  ELSE UNION {Depths(c, d + 1) : c \in Child(tree, p)}

(* Every page other than the root is at least half full and none overflows,*)
(* all leaves are at one depth, and parent_page_id_ names the parent: the  *)
(* fields Split and Coalesce climb by.                                     *)
Balanced ==
  /\ \A p \in DOMAIN tree.pages :
       LET node == tree.pages[p] IN
       /\ Size(node) <= MaxSize(node)
       /\ p # tree.root => Size(node) >= MinSize(node)
       /\ p = tree.root => Size(node) >= (IF node.leaf THEN 1 ELSE 2)
       /\ p = tree.root <=> node.parent = INVALID_PAGE_ID
       /\ \A c \in Child(tree, p) : tree.pages[c].parent = p
  /\ tree.root # INVALID_PAGE_ID => Cardinality(Depths(tree.root, 0)) = 1

(* The iterator: from the leftmost leaf along next_page_id_. *)
RECURSIVE Leftmost(_), ItemsFrom(_)
Leftmost(p) == IF tree.pages[p].leaf THEN p ELSE Leftmost(ValueAt(tree.pages[p], 0))
ItemsFrom(p) ==
  IF p = INVALID_PAGE_ID THEN <<>> ELSE tree.pages[p].items \o ItemsFrom(tree.pages[p].next)

(* A scan from Begin() to End() yields every row of the index once and in  *)
(* ascending order of the keys: the chain of leaves survives splits and    *)
(* merges.                                                                 *)
ScanIsSorted ==
  tree.root # INVALID_PAGE_ID =>
    LET scan == ItemsFrom(Leftmost(tree.root)) IN
    /\ {scan[i] : i \in 1 .. Len(scan)} = {<<k, Row(k)>> : k \in content}
    /\ \A i \in 1 .. Len(scan) - 1 : scan[i][1] < scan[i + 1][1]

(* The root that a later Open finds in the index roots page is the root of *)
(* the tree (`Call this method everytime root page id is changed'), for an *)
(* index that is not filled again after its last key was removed.  Filling *)
(* it again, with "refill" in Operations, breaks it: StartNewTree inserts  *)
(* a root entry, and the index roots page refuses a second one.            *)
RootPersisted ==
  tree.root = IF tree.stored = NoEntry THEN INVALID_PAGE_ID ELSE tree.stored

(* The shape of the tree after any split, merge or redistribution: every   *)
(* node fits its page, and the tree is balanced and linked upwards.        *)
TreeConsistent == TypeOK /\ Balanced
=============================================================================
