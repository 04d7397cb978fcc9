------------------------------ MODULE OwnQueue ------------------------------
(***************************************************************************)
(* The event queue of own_queue.c at the grain of its memory accesses.     *)
(*                                                                         *)
(* queue_push holds event_queue.mtx, queue_pop takes no lock at all, so    *)
(* the two interleave access by access.  An action contains at most one    *)
(* access to a location the other thread writes; `size++' and `size--' are *)
(* a load and a store (the Makefile builds without optimisation).          *)
(*                                                                         *)
(* The keyboard thread is the only pusher.  The popper is main_thread,     *)
(* which peeks at the queue and pops, and after both threads are joined    *)
(* main(), which drains it.                                                *)
(*                                                                         *)
(* Events are numbered in the order they are pushed: node n is the n-th    *)
(* event allocated, and 0 is the null pointer.                             *)
(***************************************************************************)
EXTENDS Integers, Sequences

CONSTANT MaxEvents   \* bound on the events the keyboard thread allocates

ASSUME MaxEventsAssumption == MaxEvents \in Nat

NULL == 0
Node == 1 .. MaxEvents
Ptr  == Node \cup {NULL}

NoOwner == "nobody"
Pusher  == "pusher"

VARIABLES
  size, start, end,  \* the fields of event_queue
  mtx,               \* the owner of event_queue.mtx
  next,              \* the next field of every event
  alloc,             \* the number of events allocated
  freed,             \* the events given back to the allocator
  kpc, kreg,         \* where queue_push is, and the size it has loaded
  mpc, mret, mreg,   \* where the popper is, its ret, and what it has loaded
  got,               \* history: the events popped, in order
  raced,             \* history: a push and a pop have overlapped
  uaf,               \* history: a freed event has been accessed or freed
  crashed            \* the process died of a null dereference

shared  == <<size, start, end, next, freed, got>>
pushing == <<kpc, kreg, alloc>>
popping == <<mpc, mret, mreg>>
qvars   == <<shared, mtx, pushing, popping, raced, uaf, crashed>>

Init ==
  /\ size = 0 /\ start = NULL /\ end = NULL
  /\ mtx = NoOwner
  /\ next = [n \in Node |-> NULL]
  /\ alloc = 0
  /\ freed = {}
  /\ kpc = "idle" /\ kreg = 0
  /\ mpc = "idle" /\ mret = NULL /\ mreg = 0
  /\ got = <<>>
  /\ raced = FALSE /\ uaf = FALSE /\ crashed = FALSE

\* A push is inside its critical section from its first load of size to its
\* store of size; a pop from its load of start to its store of size.
InPush(pc) == pc \in {"first", "link", "load", "store"}
InPop(pc)  == pc \in {"next", "advance", "decr", "sub"}
NoteRace   == raced' = (raced \/ (InPush(kpc') /\ InPop(mpc')))

-----------------------------------------------------------------------------
(* queue_push, by the keyboard thread *)

\* Mutant: `ev->next = NULL' forgotten.
PushEnterNextUnset ==
  /\ kpc = "idle" /\ mtx = NoOwner /\ alloc < MaxEvents
  /\ mtx' = Pusher
  /\ alloc' = alloc + 1
  /\ \E garbage \in {-1, NULL} : next' = [next EXCEPT ![alloc'] = garbage]
  /\ kpc' = "test"
  /\ UNCHANGED <<size, start, end, freed, got, kreg, popping, uaf>>

\* malloc in keyboard_thread; the lock and `ev->next = NULL' in queue_push.
PushEnter ==
  /\ kpc = "idle" /\ mtx = NoOwner /\ alloc < MaxEvents
  /\ mtx' = Pusher
  /\ alloc' = alloc + 1
  /\ next' = [next EXCEPT ![alloc'] = NULL]
  /\ kpc' = "test"
  /\ UNCHANGED <<size, start, end, freed, got, kreg, popping, uaf>>

\* Mutant: `size < 0'.
PushTestNegative ==
  /\ kpc = "test"
  /\ kpc' = IF size < 0 THEN "first" ELSE "link"
  /\ UNCHANGED <<shared, mtx, alloc, kreg, popping, uaf>>

\* Mutant: `size <= 1'.
PushTestOne ==
  /\ kpc = "test"
  /\ kpc' = IF size <= 1 THEN "first" ELSE "link"
  /\ UNCHANGED <<shared, mtx, alloc, kreg, popping, uaf>>

PushTest ==
  /\ kpc = "test"
  /\ kpc' = IF size <= 0 THEN "first" ELSE "link"
  /\ UNCHANGED <<shared, mtx, alloc, kreg, popping, uaf>>

\* `start = ev', then `end = ev', which only the pusher reads.
PushFirst ==
  /\ kpc = "first"
  /\ start' = alloc
  /\ end' = alloc
  /\ kpc' = "load"
  /\ UNCHANGED <<size, next, freed, got, mtx, alloc, kreg, popping, uaf>>

\* Mutant: the event is put at the front.
PushLinkFront ==
  /\ kpc = "link"
  /\ next' = [next EXCEPT ![alloc] = start]
  /\ start' = alloc
  /\ kpc' = "load"
  /\ UNCHANGED <<size, end, freed, got, mtx, alloc, kreg, popping, uaf>>

\* `end->next = ev' writes to whatever end points at, freed or not.
PushLink ==
  /\ kpc = "link"
  /\ next' = [next EXCEPT ![end] = alloc]
  /\ uaf' = (uaf \/ end \in freed)
  /\ end' = alloc
  /\ kpc' = "load"
  /\ UNCHANGED <<size, start, freed, got, mtx, alloc, kreg, popping>>

PushLoad ==
  /\ kpc = "load"
  /\ kreg' = size
  /\ kpc' = "store"
  /\ UNCHANGED <<shared, mtx, alloc, popping, uaf>>

\* The store of `size++', and the unlock.
PushStore ==
  /\ kpc = "store"
  /\ size' = kreg + 1
  /\ mtx' = NoOwner
  /\ kpc' = "idle"
  /\ UNCHANGED <<start, end, next, freed, got, alloc, kreg, popping, uaf>>

PushStep == PushTest \/ PushFirst \/ PushLink \/ PushLoad \/ PushStore

-----------------------------------------------------------------------------
(* The keyboard thread outside queue_push: its own lock and unlock of mtx. *)

ClientLock ==
  /\ kpc = "idle" /\ mtx = NoOwner
  /\ mtx' = Pusher
  /\ UNCHANGED <<shared, pushing, popping, uaf>>

\* No check that the caller holds the mutex: on its first round it does not.
ClientUnlock ==
  /\ kpc = "idle"
  /\ mtx' = NoOwner
  /\ UNCHANGED <<shared, pushing, popping, uaf>>

\* pthread_exit of the keyboard thread: the mutex stays as it is.
PusherExit ==
  /\ kpc = "idle"
  /\ kpc' = "done"
  /\ UNCHANGED <<shared, mtx, kreg, alloc, popping, uaf>>

-----------------------------------------------------------------------------
(* main_thread's peek, queue_cleanup, queue_pop, and the consumer's free *)

\* `event_queue.size > 0' in main_thread's loop.
PeekSize ==
  /\ mpc = "idle" /\ size > 0
  /\ mpc' = "peek"
  /\ UNCHANGED <<shared, mtx, pushing, mret, mreg, uaf, crashed>>

\* `event_queue.start->type': the type itself is always EV_KEYBOARD.
PeekType ==
  /\ mpc = "peek"
  /\ IF start = NULL THEN crashed' = TRUE /\ mpc' = mpc
                     ELSE crashed' = crashed /\ mpc' = "test"
  /\ UNCHANGED <<shared, mtx, pushing, mret, mreg, uaf>>

\* `event_queue.size > 0' in queue_cleanup.
DrainTest ==
  /\ mpc = "idle" /\ size > 0
  /\ mpc' = "test"
  /\ UNCHANGED <<shared, mtx, pushing, mret, mreg, uaf, crashed>>

\* `event_queue.size > 0' in queue_pop; NULL is returned when it is not.
PopTest ==
  /\ mpc = "test"
  /\ IF size > 0 THEN mpc' = "ret" /\ mret' = mret
                 ELSE mpc' = "use" /\ mret' = NULL
  /\ UNCHANGED <<shared, mtx, pushing, mreg, uaf, crashed>>

PopRet ==
  /\ mpc = "ret"
  /\ mret' = start
  /\ mpc' = "next"
  /\ UNCHANGED <<shared, mtx, pushing, mreg, uaf, crashed>>

\* The right-hand side of `start = start->next', which loads start again.
PopNext ==
  /\ mpc = "next"
  /\ IF start = NULL
     THEN crashed' = TRUE /\ UNCHANGED <<mpc, mreg, uaf>>
     ELSE /\ mreg' = next[start]
          /\ uaf' = (uaf \/ start \in freed)
          /\ mpc' = "advance"
          /\ crashed' = crashed
  /\ UNCHANGED <<shared, mtx, pushing, mret>>

\* Mutant: start is left where it was.
PopAdvanceStuck ==
  /\ mpc = "advance"
  /\ got' = Append(got, mret)
  /\ mpc' = "decr"
  /\ UNCHANGED <<size, start, end, next, freed, mtx, pushing, mret, mreg, uaf, crashed>>

PopAdvance ==
  /\ mpc = "advance"
  /\ start' = mreg
  /\ got' = Append(got, mret)
  /\ mpc' = "decr"
  /\ UNCHANGED <<size, end, next, freed, mtx, pushing, mret, mreg, uaf, crashed>>

PopDecr ==
  /\ mpc = "decr"
  /\ mreg' = size
  /\ mpc' = "sub"
  /\ UNCHANGED <<shared, mtx, pushing, mret, uaf, crashed>>

PopSub ==
  /\ mpc = "sub"
  /\ size' = mreg - 1
  /\ mpc' = "use"
  /\ UNCHANGED <<start, end, next, freed, got, mtx, pushing, mret, mreg, uaf, crashed>>

\* The use of the event and `free(ev)': `switch (ev->param)' in main_thread,
\* nothing in queue_cleanup, whose queue_pop never returns NULL.
PopFree ==
  /\ mpc = "use"
  /\ crashed' = (mret = NULL)
  /\ uaf' = (uaf \/ mret \in freed)
  /\ freed' = freed \cup ({mret} \ {NULL})
  /\ mpc' = "idle"
  /\ UNCHANGED <<size, start, end, next, got, mtx, pushing, mret, mreg>>

PopStep == PeekType \/ PopTest \/ PopRet \/ PopNext \/ PopAdvance \/ PopDecr \/ PopSub

-----------------------------------------------------------------------------
PusherNext == (PushEnter \/ PushStep \/ ClientLock \/ ClientUnlock \/ PusherExit)
                /\ UNCHANGED crashed
\* The queue is drained when the pusher has been joined.
PopperNext == PeekSize \/ (kpc = "done" /\ DrainTest) \/ PopStep \/ PopFree

Next == ~crashed /\ (PusherNext \/ PopperNext) /\ NoteRace

Spec == Init /\ [][Next]_qvars

-----------------------------------------------------------------------------
\* Every variable keeps its type; size never goes below zero.
TypeOK ==
  /\ size \in Nat /\ start \in Ptr /\ end \in Ptr
  /\ mtx \in {NoOwner, Pusher}
  /\ next \in [Node -> Ptr]
  /\ alloc \in 0 .. MaxEvents
  /\ freed \subseteq Node
  /\ kpc \in {"idle", "test", "first", "link", "load", "store", "done"} /\ kreg \in Nat
  /\ mpc \in {"idle", "peek", "test", "ret", "next", "advance", "decr", "sub", "use"}
  /\ mret \in Ptr /\ mreg \in Nat
  /\ got \in Seq(Ptr)
  /\ raced \in BOOLEAN /\ uaf \in BOOLEAN /\ crashed \in BOOLEAN

\* The unlocked accesses do harm only where a push and a pop overlap: without
\* an overlap no null pointer is followed and no freed event is touched.
FaultOnlyIfRaced == crashed \/ uaf => raced

\* Whatever the interleaving, the popper sees each event at most once and in
\* the order of the pushes: a race can lose events, never repeat or reorder.
InOrderOnce == \A i, j \in 1 .. Len(got) : i < j => got[i] < got[j]

\* Until a push and a pop overlap no event is skipped: the popper has seen
\* exactly the oldest ones.
LosslessUntilRaced == ~raced => \A i \in 1 .. Len(got) : got[i] = i

\* The queue is a first-in first-out queue of the events, broken only by an
\* overlap: a push takes effect at its store of size, a pop at its store of
\* start, and what is pending is what the next pointers chain together.
Queued == size - (IF mpc \in {"decr", "sub"} THEN 1 ELSE 0)
Chain  == LET c[k \in 1 .. Queued] == IF k = 1 THEN start ELSE next[c[k - 1]] IN c
Fifo   == INSTANCE KeyFifo WITH pending <- IF raced THEN <<>> ELSE Chain,
                                taken   <- got,
                                intact  <- ~raced
FifoSpec == Fifo!Spec

\* The popper's unlocked test of size, repeated in queue_pop, is stale when it
\* is used, and still right: only the popper ever makes size smaller.
PopFindsEvent == mpc \in {"peek", "test", "ret"} => size > 0

\* No event is freed while the queue can still hand it out, nor freed twice:
\* only the pusher's end pointer can dangle.
OnlyEndDangles == start \notin freed /\ (mpc \in {"next", "use"} => mret \notin freed)

=============================================================================
