----------------------------- MODULE EventQueue -----------------------------
(***************************************************************************)
(* The bounded event queue of pisovo_backup/event_queue.c, a ring that     *)
(* threads push into and one thread pops from, under a mutex and with one  *)
(* condition variable.                                                     *)
(*                                                                         *)
(* An action is what a call does while it holds the mutex, up to its       *)
(* return or to its going to sleep in pthread_cond_wait.                   *)
(***************************************************************************)
EXTENDS Naturals, FiniteSets

CONSTANTS
  QUEUE_CAPACITY,   \* 32 in the code
  Pushers, Popper   \* the threads that push, and the one that pops

ASSUME CapacityAssumption == QUEUE_CAPACITY \in Nat /\ QUEUE_CAPACITY > 1
ASSUME ThreadsAssumption  == Popper \notin Pushers

\* What a slot holds at the start, and of what was pushed all that matters:
\* its source.  queue_pop may also return an event that is none.
Zero    == "zero"
Pushed  == {"keyboard", "nucleo"}
NoEvent == "EV_TYPE_NUM"
Slot    == 0 .. QUEUE_CAPACITY - 1

VARIABLES
  queue, qin, qout, qquit,   \* the members of q
  pushing,   \* the event each pusher is to push, or NoEvent
  asleep,    \* the threads in pthread_cond_wait
  ev         \* what queue_pop returned last
ring   == <<queue, qin, qout>>
eqvars == <<ring, qquit, pushing, asleep, ev>>

QueueInit == /\ queue = [i \in Slot |-> Zero] /\ qin = 0 /\ qout = 0
             /\ qquit = FALSE
             /\ pushing = [t \in Pushers |-> NoEvent] /\ asleep = {} /\ ev = NoEvent

Succ(i) == (i + 1) % QUEUE_CAPACITY
Full    == Succ(qin) = qout
Empty   == qin = qout

-----------------------------------------------------------------------------
PushCall(t, e) == /\ pushing[t] = NoEvent
                  /\ pushing' = [pushing EXCEPT ![t] = e]
                  /\ UNCHANGED <<ring, qquit, asleep, ev>>

PushSleep(t) == /\ pushing[t] # NoEvent /\ t \notin asleep /\ Full
                /\ asleep' = asleep \cup {t}
                /\ UNCHANGED <<ring, qquit, pushing, ev>>

\* Mutant: the slot is that of q.out as well.
PutAtOut(t) == queue' = [queue EXCEPT ![qout] = pushing[t]] /\ qout' = Succ(qout) /\ qin' = qin

\* The slot is that of q.in, the index that is moved that of q.out.
Put(t) == queue' = [queue EXCEPT ![qin] = pushing[t]] /\ qout' = Succ(qout) /\ qin' = qin

\* Mutant: pthread_cond_broadcast forgotten.
NoBroadcast == asleep' = asleep
Broadcast == asleep' = {}

queue_push(t) == /\ pushing[t] # NoEvent /\ t \notin asleep /\ ~Full
                 /\ Put(t) /\ Broadcast
                 /\ pushing' = [pushing EXCEPT ![t] = NoEvent]
                 /\ UNCHANGED <<qquit, ev>>

PopSleep == /\ Popper \notin asleep /\ ~qquit /\ Empty
            /\ asleep' = asleep \cup {Popper}
            /\ UNCHANGED <<ring, qquit, pushing, ev>>

queue_pop == /\ Popper \notin asleep
             /\ \/ ~Empty /\ ev' = queue[qout] /\ qout' = Succ(qout) /\ Broadcast
                \/ qquit /\ Empty /\ ev' = NoEvent /\ UNCHANGED <<qout, asleep>>
             /\ UNCHANGED <<queue, qin, qquit, pushing>>

\* A wait may end without a broadcast.
Spurious == /\ \E t \in asleep : asleep' = asleep \ {t}
            /\ UNCHANGED <<ring, qquit, pushing, ev>>

\* Nobody is woken.
set_quit == /\ ~qquit /\ qquit' = TRUE
            /\ UNCHANGED <<ring, pushing, asleep, ev>>

-----------------------------------------------------------------------------
\* The queue's variables keep their types.
QueueTypeOK ==
  /\ queue \in [Slot -> {Zero} \cup Pushed] /\ qin \in Slot /\ qout \in Slot /\ qquit \in BOOLEAN
  /\ pushing \in [Pushers -> {NoEvent} \cup Pushed]
  /\ asleep \subseteq Pushers \cup {Popper}
  /\ ev \in {Zero, NoEvent} \cup Pushed

\* Nobody sleeps through what it waits for: the popper sleeps only while there
\* is nothing to pop, a pusher only while there is no room.
SleepersHaveReason == /\ Popper \in asleep => Empty
                      /\ asleep \cap Pushers # {} => Full

\* queue_push moves q.out where it should move q.in: whatever is pushed, what
\* queue_pop returns is a slot nobody wrote to.
PushedNeverPopped == ev \notin Pushed
=============================================================================
