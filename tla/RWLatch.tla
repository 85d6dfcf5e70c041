------------------------------ MODULE RWLatch ------------------------------
(***************************************************************************)
(* ReaderWriterLatch (include/common/rwlatch.h) and the threads that use   *)
(* it.  A step is what a thread does while it holds mutex_: from acquiring *)
(* it, at the call or when a wait returns, to the next wait or to the      *)
(* return.  A thread that was notified competes for mutex_ like any other, *)
(* and tests its condition again.                                          *)
(***************************************************************************)
EXTENDS Naturals, FiniteSets

CONSTANTS
  Threads,
  MAX_READERS       (* UINT_MAX, the largest value of reader_count_.       *)

(* A process has fewer than 2^32 threads. *)
ASSUME LatchAssumption ==
  /\ IsFiniteSet(Threads)
  /\ MAX_READERS \in Nat
  /\ 0 < MAX_READERS /\ Cardinality(Threads) <= MAX_READERS

VARIABLES
  reader_count_,    (* A uint32_t.                                         *)
  writer_entered_,
  pc                (* Where each thread is:                               *)
                    (* "idle"     outside the latch                        *)
                    (* "wlock"    before the test of writer_entered_       *)
                    (* "wwait"    there, waiting on reader_                *)
                    (* "wdrain"   before the test of reader_count_         *)
                    (* "wait"     there, waiting on writer_                *)
                    (* "write"    WLock has returned                       *)
                    (* "rlock"    before the test in RLock                 *)
                    (* "rwait"    there, waiting on reader_                *)
                    (* "read"     RLock has returned                       *)

latchVars == <<reader_count_, writer_entered_, pc>>

LatchInit ==
  /\ reader_count_ = 0
  /\ writer_entered_ = FALSE
  /\ pc = [t \in Threads |-> "idle"]

At(t, here) == pc[t] = here
MoveTo(t, there) == pc' = [pc EXCEPT ![t] = there]

CallWLock(t) == At(t, "idle") /\ MoveTo(t, "wlock") /\ UNCHANGED <<reader_count_, writer_entered_>>

CallRLock(t) == At(t, "idle") /\ MoveTo(t, "rlock") /\ UNCHANGED <<reader_count_, writer_entered_>>
-----------------------------------------------------------------------------
(* WLock: one writer enters at a time and then lets the readers drain.     *)
WLockBlocked(t) ==
  /\ At(t, "wlock") /\ writer_entered_
  /\ MoveTo(t, "wwait")
  /\ UNCHANGED <<reader_count_, writer_entered_>>

WLockEnters(t) ==
  /\ At(t, "wlock") /\ ~writer_entered_
  /\ writer_entered_' = TRUE
  /\ MoveTo(t, IF reader_count_ > 0 THEN "wait" ELSE "write")
  /\ UNCHANGED reader_count_

(* Mutant: the wait on writer_ is an if, not a while. *)
WLockDrainsOnce(t) ==
  /\ At(t, "wdrain")
  /\ MoveTo(t, "write")
  /\ UNCHANGED <<reader_count_, writer_entered_>>

WLockDrains(t) ==
  /\ At(t, "wdrain")
  /\ MoveTo(t, IF reader_count_ > 0 THEN "wait" ELSE "write")
  /\ UNCHANGED <<reader_count_, writer_entered_>>

(* A thread that was waiting at `here' goes on to test its condition.      *)
AfterWait(here) ==
  IF here = "wwait" THEN "wlock"
  ELSE IF here = "rwait" THEN "rlock"
  ELSE IF here = "wait" THEN "wdrain" ELSE here

WaitingOnReader == {t \in Threads : pc[t] \in {"wwait", "rwait"}}
WaitingOnWriter == {t \in Threads : At(t, "wait")}

(* pc after t has returned from an unlock that notifies a set of waiters.  *)
Released(t, notified) ==
  [s \in Threads |-> IF s = t THEN "idle"
                     ELSE IF s \in notified THEN AfterWait(pc[s]) ELSE pc[s]]

(* What notify_one may notify. *)
One(waiting) == IF waiting = {} THEN {{}} ELSE {{s} : s \in waiting}

(* Mutant: notify_one and not notify_all. *)
WUnlockNotifiesOne(t) ==
  /\ At(t, "write")
  /\ writer_entered_' = FALSE
  /\ \E notified \in One(WaitingOnReader) : pc' = Released(t, notified)
  /\ UNCHANGED reader_count_

WUnlock(t) ==
  /\ At(t, "write")
  /\ writer_entered_' = FALSE
  /\ pc' = Released(t, WaitingOnReader)
  /\ UNCHANGED reader_count_
-----------------------------------------------------------------------------
(* Mutant: readers do not look at writer_entered_. *)
RMustWaitForRoomOnly == reader_count_ = MAX_READERS

RMustWait == writer_entered_ \/ reader_count_ = MAX_READERS

(* Mutant: the count goes up before the wait, and at every test again. *)
RLockBlockedCounts(t) ==
  /\ At(t, "rlock") /\ RMustWait
  /\ reader_count_' = IF reader_count_ = MAX_READERS THEN 0 ELSE reader_count_ + 1
  /\ MoveTo(t, "rwait")
  /\ UNCHANGED writer_entered_

RLockBlocked(t) ==
  /\ At(t, "rlock") /\ RMustWait
  /\ MoveTo(t, "rwait")
  /\ UNCHANGED <<reader_count_, writer_entered_>>

RLockEnters(t) ==
  /\ At(t, "rlock") /\ ~RMustWait
  /\ reader_count_' = reader_count_ + 1
  /\ MoveTo(t, "read")
  /\ UNCHANGED writer_entered_

(* reader_count_-- on a uint32_t.                                          *)
OneLess == IF reader_count_ = 0 THEN MAX_READERS ELSE reader_count_ - 1

(* ASSERT(false), when the count is MAX_READERS after the decrement.       *)
RUnlockAsserts == OneLess = MAX_READERS

(* The count that RUnlock leaves, the repair after the ASSERT included.    *)
CountAfterRUnlock == IF RUnlockAsserts THEN 0 ELSE OneLess

(* Mutant: the last reader notifies reader_ and not writer_. *)
RUnlockNotifiesReader(n) ==
  IF writer_entered_
  THEN IF n = 0 THEN One(WaitingOnReader) ELSE {{}}
  ELSE IF n = MAX_READERS - 1 THEN One(WaitingOnReader) ELSE {{}}

(* The waiters that RUnlock may notify when n readers are left.            *)
RUnlockNotifies(n) ==
  IF writer_entered_
  THEN IF n = 0 THEN One(WaitingOnWriter) ELSE {{}}
  ELSE IF n = MAX_READERS - 1 THEN One(WaitingOnReader) ELSE {{}}

RUnlock(t) ==
  /\ At(t, "read")
  /\ reader_count_' = CountAfterRUnlock
  /\ \E notified \in RUnlockNotifies(reader_count_') : pc' = Released(t, notified)
  /\ UNCHANGED writer_entered_

(* std::condition_variable::wait may return without a notification.        *)
SpuriousWakeup(t) ==
  /\ t \in WaitingOnReader \cup WaitingOnWriter
  /\ MoveTo(t, AfterWait(pc[t]))
  /\ UNCHANGED <<reader_count_, writer_entered_>>

Step(t) ==
  \/ WLockBlocked(t) \/ WLockEnters(t) \/ WLockDrains(t) \/ WUnlock(t)
  \/ RLockBlocked(t) \/ RLockEnters(t) \/ RUnlock(t)

LatchNext == \E t \in Threads : CallWLock(t) \/ CallRLock(t) \/ Step(t) \/ SpuriousWakeup(t)

(* A thread that can run gets to run, and one that holds the latch gives   *)
(* it back: the callers in table_heap.cpp release the latch on the next    *)
(* line but one.  Nothing makes a thread call, or wake up spuriously.      *)
LatchSpec == LatchInit /\ [][LatchNext]_latchVars /\ \A t \in Threads : WF_latchVars(Step(t))
-----------------------------------------------------------------------------
(* The count, the flag and the positions of the threads.                   *)
LatchTypeOK ==
  /\ reader_count_ \in 0 .. MAX_READERS
  /\ writer_entered_ \in BOOLEAN
  /\ pc \in [Threads -> {"idle", "wlock", "wwait", "wdrain", "wait", "write",
                         "rlock", "rwait", "read"}]

Readers == {t \in Threads : At(t, "read")}

(* reader_count_ is the number of the readers inside, however they wait,   *)
(* are woken and leave: it wraps neither upwards nor downwards, and the    *)
(* ASSERT(false, "RUnlock failed.") of a reader that leaves cannot fail.   *)
ReaderCountExact ==
  /\ reader_count_ = Cardinality(Readers)
  /\ Readers # {} => ~RUnlockAsserts

(* A thread that has the write latch is alone with it: no reader and no    *)
(* other writer is inside.                                                 *)
Exclusion ==
  \A t \in Threads : At(t, "write") =>
    /\ Readers = {}
    /\ \A s \in Threads : At(s, "write") => s = t

(* No wakeup is missed: a thread waits only while the reason it waits for  *)
(* exists.  Two kinds of waiters share the condition variable reader_, and *)
(* RUnlock notifies at one value of the count only.                        *)
NoMissedWakeup ==
  \A t \in Threads :
    /\ t \in WaitingOnReader => writer_entered_
    /\ t \in WaitingOnWriter => reader_count_ > 0

(* A writer that has entered gets the latch: readers that come later       *)
(* cannot overtake it for ever.                                            *)
EnteredWriterWrites ==
  \A t \in Threads : pc[t] \in {"wdrain", "wait"} ~> At(t, "write")

(* The latch is never stuck: when some thread has called, some thread gets *)
(* the latch.  (Which one is up to mutex_: single threads may starve.)     *)
SomeThreadGetsIn ==
  (\E t \in Threads : pc[t] \in {"wlock", "wwait", "rlock", "rwait"})
     ~> (\E t \in Threads : pc[t] \in {"read", "write"})
=============================================================================
