------------------------------ MODULE LruList ------------------------------
(***************************************************************************)
(* The value an LRUReplacer keeps (buffer/lru_replacer.cpp) and what its   *)
(* operations compute on it.  lru_list_ is a sequence whose first element  *)
(* is the front of the std::list.  LRUReplacer runs the replacer by        *)
(* itself, BufferPool keeps one as part of its state.                      *)
(***************************************************************************)
EXTENDS Integers, Sequences

CONSTANT Frames     (* The frame ids of the buffer pool.                   *)

EmptyLru == [lru_list_ |-> <<>>, lruList |-> {}, buffer |-> {}]

Elements(s) == {s[i] : i \in 1 .. Len(s)}

(* list::remove on a list that holds each frame at most once (LRUTypeOK):  *)
(* the element goes, the others keep their order.                          *)
RemoveFrame(s, frame_id) ==
  IF frame_id \notin Elements(s)
  THEN s
  ELSE LET at == CHOOSE i \in 1 .. Len(s) : s[i] = frame_id
       IN  [k \in 1 .. Len(s) - 1 |-> IF k < at THEN s[k] ELSE s[k + 1]]

Size(lru) == Len(lru.lru_list_)

VictimFrame(lru) == lru.lru_list_[Len(lru.lru_list_)]

(* Mutant: lruList keeps the frame. *)
AfterVictimKeepsIndex(lru) ==
  [lru EXCEPT !.lru_list_ = SubSeq(@, 1, Len(@) - 1),
              !.buffer = @ \ {VictimFrame(lru)}]

AfterVictim(lru) ==
  [lru_list_ |-> SubSeq(lru.lru_list_, 1, Len(lru.lru_list_) - 1),
   lruList   |-> lru.lruList \ {VictimFrame(lru)},
   buffer    |-> lru.buffer \ {VictimFrame(lru)}]

(* Pin leaves the frame in buffer. *)
AfterPin(lru, frame_id) ==
  [lru_list_ |-> RemoveFrame(lru.lru_list_, frame_id),
   lruList   |-> lru.lruList \ {frame_id},
   buffer    |-> lru.buffer]

(* Mutant: a frame in buffer, pinned since, is not listed again. *)
AfterUnpinOnce(lru, frame_id) ==
  IF frame_id \in lru.buffer
  THEN lru
  ELSE [lru_list_ |-> <<frame_id>> \o lru.lru_list_,
        lruList   |-> lru.lruList \cup {frame_id},
        buffer    |-> lru.buffer \cup {frame_id}]

(* Mutant: emplace_back. *)
AfterUnpinAtBack(lru, frame_id) ==
  IF frame_id \in lru.buffer /\ frame_id \in lru.lruList
  THEN lru
  ELSE [lru_list_ |-> Append(lru.lru_list_, frame_id),
        lruList   |-> lru.lruList \cup {frame_id},
        buffer    |-> lru.buffer \cup {frame_id}]

(* A frame that is in the list already keeps its place. *)
AfterUnpin(lru, frame_id) ==
  IF frame_id \in lru.buffer /\ frame_id \in lru.lruList
  THEN lru
  ELSE [lru_list_ |-> <<frame_id>> \o lru.lru_list_,
        lruList   |-> lru.lruList \cup {frame_id},
        buffer    |-> lru.buffer \cup {frame_id}]
=============================================================================
