---------------------------- MODULE PageAllocator ----------------------------
(***************************************************************************)
(* What an allocator of pages promises its callers, whatever its data      *)
(* structure: an allocated page was free before, allocation fails only     *)
(* when no page is left, and only an allocated page can be freed.          *)
(***************************************************************************)
EXTENDS Integers

CONSTANTS
  Pages,        (* The pages to hand out.                                  *)
  NoOffset      (* Reported when a call hands out no page.                 *)

VARIABLES
  allocated,    (* The pages handed out and not given back.                *)
  reply         (* The last call and its answer.                           *)

vars == <<allocated, reply>>

Init ==
  /\ allocated = {}
  /\ reply = [op |-> "init", ok |-> TRUE, page |-> NoOffset]

Allocate(p) ==
  /\ p \in Pages \ allocated
  /\ allocated' = allocated \cup {p}
  /\ reply' = [op |-> "allocate", ok |-> TRUE, page |-> p]

AllocateFails ==
  /\ allocated = Pages
  /\ reply' = [op |-> "allocate", ok |-> FALSE, page |-> NoOffset]
  /\ UNCHANGED allocated

Free(p) ==
  /\ p \in allocated
  /\ allocated' = allocated \ {p}
  /\ reply' = [op |-> "free", ok |-> TRUE, page |-> p]

FreeFails(p) ==
  /\ p \in Pages \ allocated
  /\ reply' = [op |-> "free", ok |-> FALSE, page |-> p]
  /\ UNCHANGED allocated

Next ==
  \/ \E p \in Pages : Allocate(p) \/ Free(p) \/ FreeFails(p)
  \/ AllocateFails

Spec == Init /\ [][Next]_vars
=============================================================================
