---------------------------- MODULE LRUReplacer ----------------------------
(***************************************************************************)
(* MiniSQL's LRU replacer as a state machine: any sequence of Victim, Pin  *)
(* and Unpin calls, in any state of the frame.                             *)
(***************************************************************************)
EXTENDS LruList

CONSTANT NoFrame    (* *frame_id when Victim finds none.                   *)

ASSUME NoFrameAssumption == NoFrame \notin Frames

VARIABLES
  lru,          (* lru_list_, lruList and buffer.                          *)
  older,        (* History: <<f, g>> when f has been evictable for longer  *)
                (* than g has.                                             *)
  lru_reply     (* The last call and the frame it is about.                *)

lruVars == <<lru, older, lru_reply>>

LRUInit ==
  /\ lru = EmptyLru
  /\ older = {}
  /\ lru_reply = [op |-> "init", frame |-> NoFrame]

Forget(f) == {pair \in older : pair[1] # f /\ pair[2] # f}

Victim ==
  \/ /\ Size(lru) = 0
     /\ lru_reply' = [op |-> "victim", frame |-> NoFrame]
     /\ UNCHANGED <<lru, older>>
  \/ /\ Size(lru) # 0
     /\ lru' = AfterVictim(lru)
     /\ older' = Forget(VictimFrame(lru))
     /\ lru_reply' = [op |-> "victim", frame |-> VictimFrame(lru)]

Pin(frame_id) ==
  /\ lru' = AfterPin(lru, frame_id)
  /\ older' = Forget(frame_id)
  /\ lru_reply' = [op |-> "pin", frame |-> frame_id]

Unpin(frame_id) ==
  /\ lru' = AfterUnpin(lru, frame_id)
  /\ older' = IF frame_id \in lru.lruList
              THEN older
              ELSE older \cup {<<g, frame_id>> : g \in lru.lruList}
  /\ lru_reply' = [op |-> "unpin", frame |-> frame_id]

LRUNext ==
  \/ Victim
  \/ \E frame_id \in Frames : Pin(frame_id) \/ Unpin(frame_id)

LRUSpec == LRUInit /\ [][LRUNext]_lruVars
-----------------------------------------------------------------------------
(* The list holds frames, and none of them twice: a second entry would     *)
(* survive Pin and hand out one frame to two pages.                        *)
LRUTypeOK ==
  /\ lru \in [lru_list_ : Seq(Frames), lruList : SUBSET Frames, buffer : SUBSET Frames]
  /\ \A i, j \in 1 .. Len(lru.lru_list_) :
       lru.lru_list_[i] = lru.lru_list_[j] => i = j
  /\ older \subseteq Frames \X Frames
  /\ lru_reply \in [op : {"init", "victim", "pin", "unpin"}, frame : Frames \cup {NoFrame}]

(* lruList, which Unpin consults, indexes lru_list_, which Victim and Size *)
(* use; both only hold frames that buffer knows.                           *)
IndexMatchesList ==
  /\ lru.lruList = Elements(lru.lru_list_)
  /\ lru.lruList \subseteq lru.buffer

(* The policy: the victim is the frame that has been evictable for the     *)
(* longest time, whatever Pin and Unpin calls came in between.             *)
VictimIsLeastRecent ==
  [][(lru_reply'.op = "victim" /\ lru_reply'.frame # NoFrame) =>
        \A g \in lru.lruList \ {lru_reply'.frame} : <<lru_reply'.frame, g>> \in older]_lruVars

Policy == INSTANCE Replacer WITH evictable <- lru.lruList, reply <- lru_reply

(* The replacer implements replacer.h: a pinned frame is not victimized    *)
(* until it is unpinned, and Victim finds a frame whenever there is one.   *)
ImplementsReplacer == Policy!Spec

(* The three containers of the replacer stay one: no frame is listed twice,*)
(* and the list and its index never disagree.                              *)
ListConsistent == LRUTypeOK /\ IndexMatchesList
=============================================================================
