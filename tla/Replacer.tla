------------------------------ MODULE Replacer ------------------------------
(***************************************************************************)
(* What replacer.h asks of every replacement policy: Victim removes some   *)
(* frame that may be victimized and fails only when there is none; Pin     *)
(* takes a frame out until it is unpinned, Unpin puts it in.               *)
(***************************************************************************)
CONSTANTS Frames, NoFrame

VARIABLES
  evictable,    (* The frames that can be victimized.                      *)
  reply         (* The last call and the frame it is about.                *)

vars == <<evictable, reply>>

Init == evictable = {} /\ reply = [op |-> "init", frame |-> NoFrame]

Victim(f) ==
  /\ f \in evictable
  /\ evictable' = evictable \ {f}
  /\ reply' = [op |-> "victim", frame |-> f]

VictimFails ==
  /\ evictable = {}
  /\ reply' = [op |-> "victim", frame |-> NoFrame]
  /\ UNCHANGED evictable

Pin(f) ==
  /\ evictable' = evictable \ {f}
  /\ reply' = [op |-> "pin", frame |-> f]

Unpin(f) ==
  /\ evictable' = evictable \cup {f}
  /\ reply' = [op |-> "unpin", frame |-> f]

Next ==
  \/ \E f \in Frames : Victim(f) \/ Pin(f) \/ Unpin(f)
  \/ VictimFails

Spec == Init /\ [][Next]_vars
=============================================================================
