---------------------------- MODULE MCBPlusTree ----------------------------
EXTENDS BPlusTree

(* The smallest sizes with which leaves (4) and internal pages (4) are     *)
(* redistributed; with leaves of 2 entries few keys make three levels.     *)
MCShapes == {[leaf |-> 4, internal |-> 4, keys |-> 11],
             [leaf |-> 2, internal |-> 4, keys |-> 9]}

(* States that differ in the numbers of their pages only are equivalent:   *)
(* the pages of the tree are named by their position in preorder.          *)
RECURSIVE Preorder(_)
Preorder(p) ==
  IF p \notin DOMAIN tree.pages \/ tree.pages[p].leaf THEN <<p>>
  ELSE <<p>> \o SeqOps!FlattenSeq([i \in 1 .. Size(tree.pages[p]) |-> Preorder(ValueAt(tree.pages[p], i - 1))])

UpToPageNumbers ==
  LET order == IF tree.root = INVALID_PAGE_ID THEN <<>> ELSE Preorder(tree.root)
      name(p) == IF p \in SeqOps!ToSet(order) THEN <<"tree", CHOOSE i \in DOMAIN order : order[i] = p>>
                 ELSE <<"other", p>>
      renamed(node) ==
        [node EXCEPT !.parent = name(@), !.next = name(@),
                     !.items = [i \in DOMAIN @ |->
                                  IF node.leaf THEN @[i] ELSE <<@[i][1], name(@[i][2])>>]]
  IN <<shape, content, name(tree.stored),
       [i \in DOMAIN order |-> IF order[i] \in DOMAIN tree.pages
                               THEN renamed(tree.pages[order[i]]) ELSE <<>>],
       {<<p, tree.pages[p]>> : p \in DOMAIN tree.pages \ SeqOps!ToSet(order)}>>
=============================================================================
