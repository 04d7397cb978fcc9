----------------------------- MODULE HostProofs -----------------------------
(***************************************************************************)
(* First what holds of own_queue.c, for any number of events and any       *)
(* interleaving of the pusher and the popper.  Then that the threads of    *)
(* the host use the queue as OwnQueue describes, so that all this holds in *)
(* the program; and that the commands follow the keys, for any keys, any   *)
(* number of them and any scheduling.                                      *)
(***************************************************************************)
EXTENDS Host, SequenceTheorems, WellFoundedInduction, TLAPS

-----------------------------------------------------------------------------
(* The queue.                                                              *)

\* What the popper knows between its test of size and its store of size, and
\* the kind of value its register holds.
RegInv ==
  /\ mpc \in {"peek", "test", "ret", "next", "advance", "decr", "sub"} => size > 0
  /\ mpc = "advance" => mreg \in Ptr
  /\ mpc = "sub" => mreg > 0

TypeInv == TypeOK /\ RegInv

LEMMA InitTypeInv == Init => TypeInv
<1> SUFFICES ASSUME Init PROVE TypeInv
  OBVIOUS
<1> USE DEF Init, Ptr, Node, NULL
<1>1. next \in [Node -> Ptr] /\ got \in Seq(Ptr)
  OBVIOUS
<1>2. alloc \in 0 .. MaxEvents
  BY MaxEventsAssumption
<1>3. QED
  BY <1>1, <1>2 DEF TypeInv, TypeOK, RegInv, NoOwner

LEMMA NextTypeInv == TypeInv /\ [Next]_qvars => TypeInv'
<1> SUFFICES ASSUME TypeInv, [Next]_qvars PROVE TypeInv'
  OBVIOUS
<1> USE MaxEventsAssumption
     DEF TypeInv, TypeOK, RegInv, Ptr, Node, NULL, NoOwner, Pusher, NoteRace, shared, pushing, popping
<1>1. CASE UNCHANGED qvars
  BY <1>1 DEF qvars
<1>2. CASE ~crashed /\ PusherNext /\ NoteRace
  <2>1. CASE PushEnter
    BY <1>2, <2>1 DEF PusherNext, PushEnter
  <2>2. CASE PushTest
    BY <1>2, <2>2 DEF PusherNext, PushTest
  <2>3. CASE PushFirst
    BY <1>2, <2>3 DEF PusherNext, PushFirst
  <2>4. CASE PushLink
    <3>1. alloc \in Ptr
      OBVIOUS
    <3>2. next' \in [Node -> Ptr]
      BY <2>4, <3>1 DEF PushLink
    <3>3. uaf' \in BOOLEAN
      BY <2>4 DEF PushLink
    <3>4. QED
      BY <1>2, <2>4, <3>1, <3>2, <3>3 DEF PusherNext, PushLink
  <2>5. CASE PushLoad
    BY <1>2, <2>5 DEF PusherNext, PushLoad
  <2>6. CASE PushStore
    BY <1>2, <2>6 DEF PusherNext, PushStore
  <2>7. CASE ClientLock
    BY <1>2, <2>7 DEF PusherNext, ClientLock
  <2>8. CASE ClientUnlock
    BY <1>2, <2>8 DEF PusherNext, ClientUnlock
  <2>9. CASE PusherExit
    BY <1>2, <2>9 DEF PusherNext, PusherExit
  <2>10. QED
    BY <1>2, <2>1, <2>2, <2>3, <2>4, <2>5, <2>6, <2>7, <2>8, <2>9 DEF PusherNext, PushStep
<1>3. CASE ~crashed /\ PopperNext /\ NoteRace
  <2>1. CASE PeekSize \/ (kpc = "done" /\ DrainTest)
    BY <1>3, <2>1 DEF PeekSize, DrainTest
  <2>2. CASE PeekType
    BY <1>3, <2>2 DEF PeekType
  <2>3. CASE PopTest
    BY <1>3, <2>3 DEF PopTest
  <2>4. CASE PopRet
    BY <1>3, <2>4 DEF PopRet
  <2>5. CASE PopNext
    <3>1. CASE start = NULL
      BY <1>3, <2>5, <3>1 DEF PopNext
    <3>2. CASE start # NULL
      <4>1. next[start] \in Ptr /\ uaf' \in BOOLEAN
        BY <2>5, <3>2 DEF PopNext
      <4>2. QED
        BY <1>3, <2>5, <3>2, <4>1 DEF PopNext
    <3>3. QED
      BY <3>1, <3>2
  <2>6. CASE PopAdvance
    BY <1>3, <2>6 DEF PopAdvance
  <2>7. CASE PopDecr
    BY <1>3, <2>7 DEF PopDecr
  <2>8. CASE PopSub
    BY <1>3, <2>8 DEF PopSub
  <2>9. CASE PopFree
    BY <1>3, <2>9 DEF PopFree
  <2>10. QED
    BY <1>3, <2>1, <2>2, <2>3, <2>4, <2>5, <2>6, <2>7, <2>8, <2>9 DEF PopperNext, PopStep
<1>4. QED
  BY <1>1, <1>2, <1>3 DEF Next

\* Every variable of the queue stays in its type: in particular the two racing
\* updates of size never drive it below zero.
THEOREM TypeCorrect == Spec => []TypeOK
<1>1. TypeInv => TypeOK
  BY DEF TypeInv
<1>2. QED
  BY <1>1, InitTypeInv, NextTypeInv, PTL DEF Spec

\* main_thread never pops from a queue whose size it has seen positive and
\* that has become empty since, although it holds no lock in between.
THEOREM PopSafe == Spec => []PopFindsEvent
<1>1. TypeInv => PopFindsEvent
  BY DEF TypeInv, RegInv, PopFindsEvent
<1>2. QED
  BY <1>1, InitTypeInv, NextTypeInv, PTL DEF Spec

-----------------------------------------------------------------------------
(* Order: pointers only lead from older events to younger ones.            *)

\* The events a pointer can reach: the one being pushed is not linked yet.
Linked  == IF kpc \in {"test", "first", "link"} THEN alloc - 1 ELSE alloc
LastGot == IF got = <<>> THEN 0 ELSE got[Len(got)]

ListInv ==
  /\ kpc \in {"test", "first", "link", "load", "store"} => alloc > 0
  /\ start <= Linked /\ end <= Linked /\ mret <= Linked
  /\ size > 0 \/ kpc \in {"load", "store"} => end > 0
  /\ kpc = "link" => end > 0
  /\ \A n \in Node : next[n] = NULL \/ (n < next[n] /\ next[n] <= Linked)

TakeInv ==
  /\ LastGot <= Linked
  /\ start = NULL \/ LastGot < start
  /\ mpc \in {"test", "ret"} => start # NULL \/ kpc = "done"
  /\ mpc = "next" => \/ mret = NULL /\ start = NULL /\ kpc = "done"
                     \/ LastGot < mret /\ mret <= start
  /\ mpc = "advance" => LastGot < mret /\ (mreg = NULL \/ (mret < mreg /\ mreg <= Linked))
  /\ mpc \in {"decr", "sub", "use"} => mret # NULL /\ mret = LastGot

FreeInv ==
  /\ \A n \in freed : n <= LastGot
  /\ mpc \in {"decr", "sub", "use"} => mret \notin freed

OrderInv == ListInv /\ TakeInv /\ FreeInv /\ InOrderOnce

LEMMA AppendFacts ==
  ASSUME NEW S, NEW s \in Seq(S), NEW e \in S
  PROVE  /\ Len(Append(s, e)) = Len(s) + 1 /\ Append(s, e)[Len(Append(s, e))] = e
         /\ Append(s, e) # <<>>
         /\ \A i \in 1 .. Len(s) : Append(s, e)[i] = s[i]
  OBVIOUS

\* A pop of a younger event than all before it keeps the order.
LEMMA TakeKeepsOrder ==
  ASSUME TypeInv, InOrderOnce, PopAdvance, LastGot < mret
  PROVE  LastGot' = mret /\ got' # <<>> /\ InOrderOnce'
<1>1. got \in Seq(Ptr) /\ mret \in Ptr /\ Ptr \subseteq Int
  BY MaxEventsAssumption DEF TypeInv, TypeOK, Ptr, Node, NULL
<1>2. got' = Append(got, mret)
  BY DEF PopAdvance
<1>3. /\ Len(got') = Len(got) + 1 /\ got'[Len(got')] = mret /\ got' # <<>>
      /\ \A i \in 1 .. Len(got) : got'[i] = got[i]
  BY <1>1, <1>2, AppendFacts
<1>4. LastGot' = mret
  BY <1>3 DEF LastGot
<1>5. \A i \in 1 .. Len(got) : got[i] \in Int /\ got[i] < mret
  <2> SUFFICES ASSUME NEW i \in 1 .. Len(got) PROVE got[i] \in Int /\ got[i] < mret
    OBVIOUS
  <2>0. Len(got) \in Nat /\ Len(got) \in 1 .. Len(got) /\ got # <<>>
    BY <1>1
  <2>1. got[i] \in Ptr /\ got[Len(got)] \in Ptr
    BY <1>1, <2>0
  <2>2. Len(got) \in Nat /\ got # <<>> /\ got[i] \in Int /\ got[Len(got)] \in Int /\ mret \in Int
    BY <1>1, <2>0, <2>1
  <2>3. got[i] <= got[Len(got)]
    BY <2>2 DEF InOrderOnce
  <2>4. QED
    BY <2>2, <2>3 DEF LastGot
<1>6. ASSUME NEW i \in 1 .. Len(got'), NEW j \in 1 .. Len(got'), i < j
      PROVE  got'[i] < got'[j]
  <2>1. CASE j = Len(got')
    BY <1>1, <1>3, <1>5, <1>6, <2>1
  <2>2. CASE j # Len(got')
    BY <1>1, <1>3, <1>6, <2>2 DEF InOrderOnce
  <2>3. QED
    BY <2>1, <2>2
<1>7. QED
  BY <1>3, <1>4, <1>6 DEF InOrderOnce

LEMMA InitOrderInv == Init => OrderInv
  BY MaxEventsAssumption
     DEF Init, OrderInv, ListInv, TakeInv, FreeInv, InOrderOnce, Linked, LastGot, NULL, Node

LEMMA NextOrderInv == TypeInv /\ OrderInv /\ [Next]_qvars => OrderInv'
<1> SUFFICES ASSUME TypeInv, OrderInv, [Next]_qvars PROVE OrderInv'
  OBVIOUS
<1> USE MaxEventsAssumption
     DEF TypeInv, TypeOK, RegInv, Ptr, Node, NULL, shared, pushing, popping,
         OrderInv, ListInv, TakeInv, FreeInv, InOrderOnce, Linked, LastGot
<1>1. CASE UNCHANGED qvars
  BY <1>1 DEF qvars
<1>2. CASE ~crashed /\ PusherNext /\ NoteRace
  <2>1. CASE PushEnter
    BY <1>2, <2>1 DEF PushEnter
  <2>2. CASE PushTest
    BY <1>2, <2>2 DEF PushTest
  <2>3. CASE PushFirst
    BY <1>2, <2>3 DEF PushFirst
  <2>4. CASE PushLink
    BY <1>2, <2>4 DEF PushLink
  <2>5. CASE PushLoad
    BY <1>2, <2>5 DEF PushLoad
  <2>6. CASE PushStore
    BY <1>2, <2>6 DEF PushStore
  <2>7. CASE ClientLock
    BY <1>2, <2>7 DEF ClientLock
  <2>8. CASE ClientUnlock
    BY <1>2, <2>8 DEF ClientUnlock
  <2>9. CASE PusherExit
    BY <1>2, <2>9 DEF PusherExit
  <2>10. QED
    BY <1>2, <2>1, <2>2, <2>3, <2>4, <2>5, <2>6, <2>7, <2>8, <2>9 DEF PusherNext, PushStep
<1>3. CASE ~crashed /\ PopperNext /\ NoteRace
  <2>1. CASE PeekSize \/ (kpc = "done" /\ DrainTest)
    BY <1>3, <2>1 DEF PeekSize, DrainTest
  <2>2. CASE PeekType
    BY <1>3, <2>2 DEF PeekType
  <2>3. CASE PopTest
    BY <1>3, <2>3 DEF PopTest
  <2>4. CASE PopRet
    BY <1>3, <2>4 DEF PopRet
  <2>5. CASE PopNext
    BY <1>3, <2>5 DEF PopNext
  <2>6. CASE PopAdvance
    <3>1. LastGot < mret
      BY <2>6 DEF PopAdvance
    <3>2. LastGot' = mret /\ got' # <<>> /\ InOrderOnce'
      BY <2>6, <3>1, TakeKeepsOrder
    <3>3. LastGot' = mret /\ LastGot < mret
      BY <3>1, <3>2
    <3>5. ListInv' /\ TakeInv'
      BY <2>6, <3>3 DEF PopAdvance
    <3>6. FreeInv'
      BY <2>6, <3>3 DEF PopAdvance
    <3>7. QED
      BY <3>2, <3>5, <3>6
  <2>7. CASE PopDecr
    BY <1>3, <2>7 DEF PopDecr
  <2>8. CASE PopSub
    BY <1>3, <2>8 DEF PopSub
  <2>9. CASE PopFree
    BY <1>3, <2>9 DEF PopFree
  <2>10. QED
    BY <1>3, <2>1, <2>2, <2>3, <2>4, <2>5, <2>6, <2>7, <2>8, <2>9 DEF PopperNext, PopStep
<1>4. QED
  BY <1>1, <1>2, <1>3 DEF Next

-----------------------------------------------------------------------------
(* Until a push and a pop overlap the list is exactly the events pushed and *)
(* not yet popped, in order.                                               *)

Pushed == IF kpc \in {"test", "first", "link", "load", "store"} THEN alloc - 1 ELSE alloc

ChainInv ==
  /\ \A i \in 1 .. Len(got) : got[i] = i
  /\ size = Pushed - Len(got) + (IF mpc \in {"decr", "sub"} THEN 1 ELSE 0)
  /\ start = IF Len(got) < Linked THEN Len(got) + 1 ELSE NULL
  /\ end = Linked
  /\ \A n \in Node : /\ Len(got) < n /\ n < Linked => next[n] = n + 1
                     /\ Linked <= n => next[n] = NULL

LocalInv ==
  /\ ~(InPush(kpc) /\ InPop(mpc))
  /\ kpc = "first" => Len(got) = Linked
  /\ kpc = "link" => Len(got) < Linked
  /\ kpc = "store" => kreg = size
  /\ mpc \in {"next", "advance"} => mret = start /\ start # NULL
  /\ mpc = "advance" => mreg = next[start]
  /\ mpc = "sub" => mreg = size

IntactInv == ~raced => ChainInv /\ LocalInv /\ ~uaf /\ ~crashed

LEMMA InitIntactInv == Init => IntactInv
  BY MaxEventsAssumption
     DEF Init, IntactInv, ChainInv, LocalInv, Linked, Pushed, InPush, InPop, NULL, Node

LEMMA NextIntactInv ==
  TypeInv /\ OrderInv /\ IntactInv /\ [Next]_qvars => IntactInv'
<1> SUFFICES ASSUME TypeInv, OrderInv, IntactInv, [Next]_qvars, ~raced'
             PROVE  ChainInv' /\ LocalInv' /\ ~uaf' /\ ~crashed'
  BY DEF IntactInv
<1>1. CASE UNCHANGED qvars
  BY <1>1 DEF qvars, shared, pushing, popping, IntactInv, ChainInv, LocalInv, Linked, Pushed
<1>2. CASE Next
  <2>1. ChainInv /\ LocalInv /\ ~uaf /\ ~crashed /\ ~(InPush(kpc') /\ InPop(mpc'))
    BY <1>2 DEF Next, NoteRace, IntactInv
  <2>2. LastGot = Len(got)
    BY <2>1 DEF ChainInv, LastGot, TypeInv, TypeOK
  <2> USE MaxEventsAssumption
       DEF TypeInv, TypeOK, RegInv, Ptr, Node, NULL, shared, pushing, popping,
           ChainInv, LocalInv, Linked, Pushed, InPush, InPop
  <2>3. CASE PusherNext
    <3>0. UNCHANGED <<got, mpc, mret, mreg, crashed>> /\ got \in Seq(Ptr)
      BY <2>3 DEF PusherNext, PushEnter, PushStep, PushTest, PushFirst, PushLink, PushLoad,
                  PushStore, ClientLock, ClientUnlock, PusherExit
    <3>1. CASE PushEnter
      BY <2>1, <3>0, <3>1 DEF PushEnter
    <3>2. CASE PushTest
      BY <2>1, <3>0, <3>2 DEF PushTest
    <3>3. CASE PushFirst
      BY <2>1, <3>0, <3>3 DEF PushFirst
    <3>4. CASE PushLink
      <4>1. end = Linked /\ end \in Node /\ Len(got) < end /\ alloc = end + 1 /\ end \notin freed
        BY <2>1, <2>2, <3>4 DEF PushLink, OrderInv, ListInv, FreeInv
      <4>2. ~uaf'
        BY <2>1, <3>4, <4>1 DEF PushLink
      <4>3. ChainInv'
        BY <2>1, <3>0, <3>4, <4>1 DEF PushLink
      <4>4. LocalInv'
        BY <2>1, <3>0, <3>4, <4>1 DEF PushLink
      <4>5. QED
        BY <2>1, <3>0, <4>2, <4>3, <4>4
    <3>5. CASE PushLoad
      BY <2>1, <3>0, <3>5 DEF PushLoad
    <3>6. CASE PushStore
      BY <2>1, <3>0, <3>6 DEF PushStore
    <3>7. CASE ClientLock
      BY <2>1, <3>0, <3>7 DEF ClientLock
    <3>8. CASE ClientUnlock
      BY <2>1, <3>0, <3>8 DEF ClientUnlock
    <3>9. CASE PusherExit
      BY <2>1, <3>0, <3>9 DEF PusherExit
    <3>10. QED
      BY <2>3, <3>1, <3>2, <3>3, <3>4, <3>5, <3>6, <3>7, <3>8, <3>9 DEF PusherNext, PushStep
  <2>4. CASE PopperNext
    <3>1. CASE PeekSize \/ (kpc = "done" /\ DrainTest)
      <4>1. CASE PeekSize
        BY <2>1, <4>1 DEF PeekSize
      <4>2. CASE DrainTest
        BY <2>1, <4>2 DEF DrainTest
      <4>3. QED
        BY <3>1, <4>1, <4>2
    <3>2. CASE PeekType
      BY <2>1, <3>2 DEF PeekType
    <3>3. CASE PopTest
      BY <2>1, <3>3 DEF PopTest
    <3>4. CASE PopRet
      BY <2>1, <3>4 DEF PopRet
    <3>5. CASE PopNext
      BY <2>1, <2>2, <3>5 DEF PopNext, OrderInv, FreeInv
    <3>6. CASE PopAdvance
      <4>1. /\ Len(got') = Len(got) + 1 /\ got'[Len(got')] = mret
            /\ \A i \in 1 .. Len(got) : got'[i] = got[i]
        BY <3>6 DEF PopAdvance
      <4>2. mret = Len(got) + 1 /\ mreg = next[mret] /\ mret <= Linked
        BY <2>1, <3>6 DEF PopAdvance
      <4>3. ChainInv'
        BY <2>1, <3>6, <4>1, <4>2 DEF PopAdvance
      <4>4. LocalInv' /\ ~uaf' /\ ~crashed'
        BY <2>1, <3>6, <4>1, <4>2 DEF PopAdvance
      <4>5. QED
        BY <4>3, <4>4
    <3>7. CASE PopDecr
      BY <2>1, <3>7 DEF PopDecr
    <3>8. CASE PopSub
      BY <2>1, <3>8 DEF PopSub
    <3>9. CASE PopFree
      BY <2>1, <3>9 DEF PopFree, OrderInv, TakeInv, FreeInv
    <3>10. QED
      BY <2>4, <3>1, <3>2, <3>3, <3>4, <3>5, <3>6, <3>7, <3>8, <3>9 DEF PopperNext, PopStep
  <2>5. QED
    BY <1>2, <2>3, <2>4 DEF Next
<1>3. QED
  BY <1>1, <1>2

-----------------------------------------------------------------------------
LEMMA Invariance == Spec => [](TypeInv /\ OrderInv /\ IntactInv)
  BY InitTypeInv, NextTypeInv, InitOrderInv, NextOrderInv, InitIntactInv, NextIntactInv, PTL
     DEF Spec

\* However the pushes and pops interleave, main_thread acts on each key at most
\* once and in the order the keys were typed.
THEOREM AtMostOnceInOrder == Spec => []InOrderOnce
<1>1. OrderInv => InOrderOnce
  BY DEF OrderInv
<1>2. QED
  BY <1>1, Invariance, PTL

\* main_thread reads and frees live events only: `end->next = ev' is the one
\* access of own_queue.c that can reach a freed event.
THEOREM PopperTouchesLiveEvents == Spec => []OnlyEndDangles
<1>1. TypeInv /\ OrderInv => OnlyEndDangles
  BY MaxEventsAssumption
     DEF TypeInv, TypeOK, OrderInv, TakeInv, FreeInv, LastGot, OnlyEndDangles, Ptr, Node, NULL
<1>2. QED
  BY <1>1, Invariance, PTL

\* queue_pop without the mutex is only as bad as the overlaps: a behaviour in
\* which no pop overlaps a push neither crashes nor touches freed memory, ...
THEOREM NoOverlapNoFault == Spec => []FaultOnlyIfRaced
<1>1. TypeInv /\ IntactInv => FaultOnlyIfRaced
  BY DEF TypeInv, TypeOK, IntactInv, FaultOnlyIfRaced
<1>2. QED
  BY <1>1, Invariance, PTL

\* ... and hands main_thread every key, none skipped.
THEOREM NoOverlapNoLoss == Spec => []LosslessUntilRaced
<1>1. IntactInv => LosslessUntilRaced
  BY DEF IntactInv, ChainInv, LosslessUntilRaced
<1>2. QED
  BY <1>1, Invariance, PTL

-----------------------------------------------------------------------------
(* The refinement: a step of the queue puts an event, takes the oldest one, *)
(* or changes nothing of what is pending.                                   *)

LEMMA LeastNat ==
  ASSUME NEW T, T \subseteq Nat, T # {}
  PROVE  \E x \in T : \A y \in T : x <= y
<1> DEFINE R == {ss \in Nat \X Nat : ss[1] < ss[2]}
<1>1. IsWellFoundedOn(R, Nat)
  BY NatLessThanWellFounded DEF OpToRel
<1> HIDE DEF R
<1>2. PICK x \in T : \A y \in T : ~(<<y, x>> \in R)
  BY <1>1, WFMin
<1>3. \A y \in T : ~(y < x)
  BY <1>2 DEF R
<1>4. QED
  BY <1>3

\* The n events that follow event g.
After(g, n) == [k \in 1 .. n |-> g + k]

\* What the next pointers chain together are consecutive events.
ChainIsAfter == ~raced => /\ Queued \in Nat /\ Len(got) \in Nat
                          /\ Queued = Pushed - Len(got)
                          /\ Chain = After(Len(got), Queued)

LEMMA ChainEquation ==
  ASSUME \E s : s = [k \in 1 .. Queued |-> IF k = 1 THEN start ELSE next[s[k - 1]]]
  PROVE  Chain = [k \in 1 .. Queued |-> IF k = 1 THEN start ELSE next[Chain[k - 1]]]
  BY DEF Chain

LEMMA ChainFound == TypeInv /\ OrderInv /\ IntactInv => ChainIsAfter
<1> SUFFICES ASSUME TypeInv, OrderInv, IntactInv, ~raced
             PROVE  /\ Queued \in Nat /\ Len(got) \in Nat /\ Queued = Pushed - Len(got)
                    /\ Chain = After(Len(got), Queued)
  BY DEF ChainIsAfter
<1> DEFINE g == Len(got)
           s == After(g, Queued)
<1>1. /\ Queued \in Nat /\ g \in Nat /\ Queued = Pushed - g
      /\ Queued > 0 => start = g + 1
      /\ \A k \in 2 .. Queued : next[g + (k - 1)] = g + k
  <2>1. g \in Nat
    BY DEF TypeInv, TypeOK
  <2>2. LastGot = g
    BY DEF IntactInv, ChainInv, LastGot, TypeInv, TypeOK
  <2>3. Queued = Pushed - g /\ Pushed \in Int /\ Linked \in Int /\ Pushed <= Linked /\ Linked <= MaxEvents
    BY <2>1, MaxEventsAssumption DEF IntactInv, ChainInv, Queued, Pushed, Linked, TypeInv, TypeOK
  <2>4. Queued >= 0
    BY DEF Queued, TypeInv, TypeOK, RegInv
  <2>5. Queued > 0 => start = g + 1
    BY <2>1, <2>3 DEF IntactInv, ChainInv
  <2>6. ASSUME NEW k \in 2 .. Queued PROVE next[g + (k - 1)] = g + k
    <3>1. g + (k - 1) \in Node /\ g < g + (k - 1) /\ g + (k - 1) < Linked /\ g + (k - 1) + 1 = g + k
      BY <2>1, <2>3, MaxEventsAssumption DEF Node
    <3>2. QED
      BY <3>1 DEF IntactInv, ChainInv
  <2>7. QED
    BY <2>1, <2>3, <2>4, <2>5, <2>6
<1> HIDE DEF g
<1>2. s = [k \in 1 .. Queued |-> IF k = 1 THEN start ELSE next[s[k - 1]]]
  <2>1. ASSUME NEW k \in 1 .. Queued
        PROVE  g + k = IF k = 1 THEN start ELSE next[s[k - 1]]
    <3>1. CASE k = 1
      BY <1>1, <3>1
    <3>2. CASE k # 1
      <4>1. k - 1 \in 1 .. Queued /\ k \in 2 .. Queued
        BY <1>1, <3>2
      <4>2. s[k - 1] = g + (k - 1)
        BY <4>1 DEF After
      <4>3. QED
        BY <1>1, <3>2, <4>1, <4>2
    <3>3. QED
      BY <3>1, <3>2
  <2>2. QED
    BY <2>1 DEF After
<1>3. Chain = [k \in 1 .. Queued |-> IF k = 1 THEN start ELSE next[Chain[k - 1]]]
  <2>1. \E c : c = [k \in 1 .. Queued |-> IF k = 1 THEN start ELSE next[c[k - 1]]]
    BY <1>2
  <2>2. QED
    BY <2>1, ChainEquation
<1> DEFINE T == {k \in 1 .. Queued : Chain[k] # g + k}
<1>4. T = {}
  <2>1. SUFFICES ASSUME T # {} PROVE FALSE
    OBVIOUS
  <2>2. T \subseteq Nat
    BY <1>1
  <2>3. PICK k \in T : \A y \in T : k <= y
    BY <2>1, <2>2, LeastNat
  <2>4. k \in 1 .. Queued /\ Chain[k] # g + k
    OBVIOUS
  <2>5. k # 1
    BY <1>1, <1>3, <2>4
  <2>6. k - 1 \in 1 .. Queued /\ k \in 2 .. Queued /\ ~(k <= k - 1)
    BY <1>1, <2>4, <2>5
  <2>7. Chain[k - 1] = g + (k - 1)
    BY <2>3, <2>6
  <2>8. Chain[k] = next[Chain[k - 1]]
    BY <1>3, <2>4, <2>5
  <2>9. QED
    BY <1>1, <2>4, <2>6, <2>7, <2>8
<1>5. DOMAIN Chain = 1 .. Queued /\ Chain = [k \in DOMAIN Chain |-> Chain[k]]
  BY <1>3
<1>6. Chain = After(g, Queued)
  BY <1>4, <1>5 DEF After
<1>7. QED
  BY <1>1, <1>6 DEF g

LEMMA AfterIsSeq ==
  ASSUME NEW g \in Nat, NEW n \in Nat
  PROVE  /\ After(g, n) \in Seq(Nat) /\ Len(After(g, n)) = n
         /\ After(g, n + 1) = Append(After(g, n), g + n + 1)
         /\ n > 0 => /\ After(g, n) # <<>> /\ Head(After(g, n)) = g + 1
                     /\ Tail(After(g, n)) = After(g + 1, n - 1)
<1>1. After(g, n) \in Seq(Nat) /\ Len(After(g, n)) = n
  BY DEF After
<1>2. After(g, n + 1) = Append(After(g, n), g + n + 1)
  BY <1>1 DEF After
<1>3. ASSUME n > 0
      PROVE  After(g, n) # <<>> /\ Head(After(g, n)) = g + 1 /\ Tail(After(g, n)) = After(g + 1, n - 1)
  <2>1. After(g, n) # <<>> /\ After(g, n)[1] = g + 1
    BY <1>1, <1>3 DEF After
  <2>2. /\ Tail(After(g, n)) \in Seq(Nat) /\ Len(Tail(After(g, n))) = n - 1
        /\ \A k \in 1 .. n - 1 : Tail(After(g, n))[k] = After(g, n)[k + 1]
    BY <1>1, <2>1, HeadTailProperties
  <2>3. Tail(After(g, n)) = [k \in 1 .. n - 1 |-> g + 1 + k]
    <3>1. \A k \in 1 .. n - 1 : After(g, n)[k + 1] = g + 1 + k
      BY <1>3 DEF After
    <3>2. Tail(After(g, n)) \in [1 .. n - 1 -> Nat]
      <4>1. ASSUME NEW s \in Seq(Nat) PROVE s \in [1 .. Len(s) -> Nat]
        OBVIOUS
      <4>2. QED
        BY <2>2, <4>1
    <3>3. QED
      BY <2>2, <3>1, <3>2
  <2>4. Head(After(g, n)) = g + 1
    BY <1>1, <2>1
  <2>5. Tail(After(g, n)) = After(g + 1, n - 1)
    BY <2>3 DEF After
  <2>6. QED
    BY <2>1, <2>4, <2>5
<1>4. QED
  BY <1>1, <1>2, <1>3

LEMMA NothingPending == Init => Chain = <<>>
<1> SUFFICES ASSUME Init PROVE Chain = <<>>
  OBVIOUS
<1>1. ChainIsAfter /\ ~raced /\ got = <<>> /\ Queued = 0
  <2>1. ChainIsAfter
    BY InitTypeInv, InitOrderInv, InitIntactInv, ChainFound
  <2>2. size - 0 = 0 /\ mpc = "idle"
    BY DEF Init
  <2>3. Queued = 0
    BY <2>2 DEF Queued
  <2>4. QED
    BY <2>1, <2>3 DEF Init
<1>2. Chain = After(Len(got), 0)
  BY <1>1 DEF ChainIsAfter
<1>3. QED
  BY <1>2 DEF After

LEMMA StepOnFifo ==
  ASSUME TypeInv, IntactInv, ChainIsAfter, ChainIsAfter', TypeInv', [Next]_qvars
  PROVE  [Fifo!Next]_<<IF raced THEN <<>> ELSE Chain, got, ~raced>>
<1>1. CASE raced'
  BY <1>1 DEF Fifo!Next
<1>2. CASE ~raced'
  <2>1. ~raced
    BY <1>2 DEF Next, NoteRace, qvars
  <2>2. /\ Queued \in Nat /\ Len(got) \in Nat /\ Queued = Pushed - Len(got)
        /\ Chain = After(Len(got), Queued)
        /\ Queued' \in Nat /\ Len(got') \in Nat /\ Queued' = Pushed' - Len(got')
        /\ Chain' = After(Len(got'), Queued')
    BY <1>2, <2>1 DEF ChainIsAfter, After
  <2>0. Pushed \in Int /\ got \in Seq(Ptr)
    BY MaxEventsAssumption DEF Pushed, TypeInv, TypeOK
  <2>3. CASE PushStore
    <3>1. Pushed' = Pushed + 1 /\ got' = got
      BY <2>3, MaxEventsAssumption DEF PushStore, Pushed, TypeInv, TypeOK
    <3>2. Queued' = Queued + 1
      BY <2>0, <2>2, <3>1
    <3>3. Chain' = Append(Chain, Len(got) + Len(Chain) + 1)
      <4>1. /\ Len(After(Len(got), Queued)) = Queued
            /\ After(Len(got), Queued + 1) = Append(After(Len(got), Queued), Len(got) + Queued + 1)
        BY <2>2, AfterIsSeq
      <4>2. Chain' = After(Len(got), Queued + 1)
        BY <2>2, <3>1, <3>2
      <4>3. QED
        BY <2>2, <4>1, <4>2
    <3>4. QED
      BY <1>2, <2>1, <3>1, <3>3 DEF Fifo!Next, Fifo!Put
  <2>4. CASE PopAdvance
    <3>1. Pushed' = Pushed /\ got' = Append(got, mret) /\ Len(got') = Len(got) + 1
      BY <2>4 DEF PopAdvance, Pushed, pushing, TypeInv, TypeOK
    <3>2. Queued' = Queued - 1 /\ Queued > 0
      BY <2>0, <2>2, <3>1
    <3>3. Chain # <<>> /\ Head(Chain) = Len(got) + 1 /\ Chain' = Tail(Chain)
      <4>1. /\ After(Len(got), Queued) # <<>> /\ Head(After(Len(got), Queued)) = Len(got) + 1
            /\ Tail(After(Len(got), Queued)) = After(Len(got) + 1, Queued - 1)
        BY <2>2, <3>2, AfterIsSeq
      <4>2. Chain' = After(Len(got) + 1, Queued - 1)
        BY <2>2, <3>1, <3>2
      <4>3. QED
        BY <2>2, <4>1, <4>2
    <3>4. mret = Len(got) + 1
      <4>1. mret = start /\ start # NULL /\ ChainInv
        BY <2>1, <2>4 DEF IntactInv, LocalInv, PopAdvance
      <4>2. QED
        BY <4>1 DEF ChainInv
    <3>5. QED
      BY <1>2, <2>1, <3>1, <3>3, <3>4 DEF Fifo!Next, Fifo!Take
  <2>5. CASE ~PushStore /\ ~PopAdvance
    <3>1. Pushed' = Pushed /\ got' = got
      <4>1. CASE UNCHANGED qvars
        BY <4>1 DEF qvars, shared, pushing, Pushed
      <4>2. CASE PusherNext
        <5>1. CASE PushEnter
          BY <2>0, <5>1, MaxEventsAssumption DEF PushEnter, Pushed, TypeInv, TypeOK
        <5>2. CASE PushTest \/ PushFirst \/ PushLink \/ PushLoad
          BY <5>2 DEF PushTest, PushFirst, PushLink, PushLoad, shared, Pushed
        <5>3. CASE ClientLock \/ ClientUnlock \/ PusherExit
          BY <5>3 DEF ClientLock, ClientUnlock, PusherExit, shared, pushing, Pushed
        <5>4. QED
          BY <2>5, <4>2, <5>1, <5>2, <5>3 DEF PusherNext, PushStep
      <4>3. CASE PopperNext
        BY <2>5, <4>3 DEF PopperNext, PeekSize, DrainTest, PopStep, PeekType, PopTest, PopRet, PopNext,
           PopDecr, PopSub, PopFree, shared, pushing, Pushed
      <4>4. QED
        BY <4>1, <4>2, <4>3 DEF Next
    <3>2. Queued' = Queued
      BY <2>2, <3>1
    <3>3. Chain' = Chain
      BY <2>2, <3>1, <3>2
    <3>4. QED
      BY <1>2, <2>1, <3>1, <3>3
  <2>6. QED
    BY <2>3, <2>4, <2>5
<1>3. QED
  BY <1>1, <1>2

\* Until a push and a pop overlap the queue is a FIFO queue: every event pushed
\* is popped in its turn, once, and none is lost.
THEOREM QueueIsFifo == Spec => FifoSpec
<1>1. Init => Fifo!Init
  BY NothingPending DEF Init, Fifo!Init
<1>2. TypeInv /\ IntactInv /\ ChainIsAfter /\ (TypeInv /\ ChainIsAfter)' /\ [Next]_qvars
        => [Fifo!Next]_<<IF raced THEN <<>> ELSE Chain, got, ~raced>>
  BY StepOnFifo
<1>3. QED
  BY <1>1, <1>2, Invariance, ChainFound, PTL DEF Spec, FifoSpec, Fifo!Spec

-----------------------------------------------------------------------------
(* The threads.                                                            *)

\* What ties the threads to the queue: an overlap is always noted, and the
\* keyboard thread is done with the queue when main() drains it.
ThreadInv ==
  /\ raced \in BOOLEAN
  /\ InPush(kpc) /\ InPop(mpc) => raced
  /\ kst = "gone" => kpc = "done"
  /\ rst \in {"drain", "exited"} => kst = "gone"

LEMMA InitThreadInv == HostInit => ThreadInv
  BY DEF HostInit, Init, ThreadInv, InPush, InPop

LEMMA IdleIsStutter == ThreadInv /\ QueueIdle /\ NoteRace => UNCHANGED qvars
  BY DEF ThreadInv, QueueIdle, NoteRace, InPush, InPop, qvars, shared, pushing, popping

LEMMA NextIsQueueStep == ThreadInv /\ [HostNext]_<<qvars, hvars>> => [Next]_qvars
<1> SUFFICES ASSUME ThreadInv, [HostNext]_<<qvars, hvars>> PROVE [Next]_qvars
  OBVIOUS
<1>1. CASE UNCHANGED <<qvars, hvars>>
  BY <1>1
<1>2. CASE HostNext
  <2>1. ~crashed /\ NoteRace
    BY <1>2 DEF HostNext, HostStep, Ended
  <2>2. CASE QueueIdle
    BY <2>1, <2>2, IdleIsStutter
  <2>3. CASE MainNext
    <3>1. CASE RDrain
      BY <2>1, <3>1 DEF RDrain, Next, PopperNext, ThreadInv
    <3>2. QED
      BY <2>2, <2>3, <3>1 DEF MainNext, RCreate, RCreated, RJoin, RExit
  <2>4. CASE KeyboardRuns
    BY <2>1, <2>2, <2>4
       DEF KeyboardRuns, KStart, KLoop, KPush, KRelock, KExit, Next, PusherNext
  <2>5. CASE KeyTyped
    BY <2>1, <2>2, <2>5 DEF KeyTyped, KQuitKey, KKey, Next, PusherNext
  <2>6. CASE ThreadNext \/ MReadByte
    BY <2>1, <2>2, <2>6
       DEF ThreadNext, MOpen, MTest, MPeek, MPop, MDispatch, MSend, MRead, MReadByte, MRound, Next, PopperNext
  <2>7. CASE XReturn
    BY <2>2, <2>7 DEF XReturn
  <2>8. QED
    BY <1>2, <2>3, <2>4, <2>5, <2>6, <2>7 DEF HostNext, HostStep
<1>3. QED
  BY <1>1, <1>2

LEMMA NextThreadInv == ThreadInv /\ [HostNext]_<<qvars, hvars>> => ThreadInv'
<1> SUFFICES ASSUME ThreadInv, [HostNext]_<<qvars, hvars>> PROVE ThreadInv'
  OBVIOUS
<1> USE DEF ThreadInv, InPush, InPop, hvars, threads
<1>1. CASE UNCHANGED <<qvars, hvars>>
  BY <1>1 DEF qvars, pushing, popping
<1>2. CASE HostNext
  <2>1. NoteRace
    BY <1>2 DEF HostNext, HostStep
  <2>2. raced' \in BOOLEAN /\ (InPush(kpc') /\ InPop(mpc') => raced')
    BY <2>1 DEF NoteRace
  <2> USE DEF QueueIdle, shared, pushing, popping
  <2>3. CASE MainNext
    <3>1. CASE RDrain
      BY <2>2, <3>1 DEF RDrain, DrainTest, PopStep, PeekType, PopTest, PopRet, PopNext,
                        PopAdvance, PopDecr, PopSub, PopFree
    <3>2. CASE RCreate
      BY <2>2, <3>2 DEF RCreate, Born
    <3>3. CASE RCreated \/ RJoin \/ RExit
      BY <2>2, <3>3 DEF RCreated, RJoin, RExit
    <3>4. QED
      BY <2>3, <3>1, <3>2, <3>3 DEF MainNext
  <2>4. CASE KeyboardRuns \/ KeyTyped
    BY <2>2, <2>4
       DEF KeyboardRuns, KStart, KLoop, KPush, KRelock, KExit, KeyTyped, KQuitKey, KKey,
           ClientLock, ClientUnlock, PusherExit
  <2>5. CASE ThreadNext \/ MReadByte
    BY <2>2, <2>5
       DEF ThreadNext, MOpen, MTest, MPeek, MPop, MDispatch, MSend, MRead, MReadByte, MRound, PeekSize, PopStep,
           PeekType, PopTest, PopRet, PopNext, PopAdvance, PopDecr, PopSub, PopFree
  <2>6. CASE XReturn
    BY <2>2, <2>6 DEF XReturn
  <2>7. QED
    BY <1>2, <2>3, <2>4, <2>5, <2>6 DEF HostNext, HostStep
<1>3. QED
  BY <1>1, <1>2

\* The host's threads, interleaved in any way, keep to the protocol of the
\* queue: every step of the program is a step of OwnQueue or leaves it alone.
THEOREM HostUsesQueueAsMeant == HostSpec => QueueUsedAsMeant
<1>1. HostInit => Init
  BY DEF HostInit
<1>2. QED
  BY <1>1, InitThreadInv, NextThreadInv, NextIsQueueStep, PTL
     DEF HostSpec, QueueUsedAsMeant, Spec
-----------------------------------------------------------------------------
(* The queue's invariants hold in the program. *)

QueueInv == TypeInv /\ OrderInv /\ IntactInv

LEMMA HostQueueInv == HostSpec => [](ThreadInv /\ QueueInv)
<1>1. HostSpec => []ThreadInv
  BY InitThreadInv, NextThreadInv, PTL DEF HostSpec
<1>2. HostSpec => []QueueInv
  BY HostUsesQueueAsMeant, Invariance, PTL DEF QueueUsedAsMeant, QueueInv
<1>3. QED
  BY <1>1, <1>2, PTL

\* The histories have their types: every event has its key.
SentRecord == [event : Node, bytes : Commands \cup {Garbled}, late : BOOLEAN]
HistoryInv ==
  /\ typed \in Seq(Keys) /\ Len(typed) = alloc
  /\ sent \in Seq(SentRecord)
  /\ quit \in BOOLEAN

\* Where main_thread is tells where the popper is, and what it is about to send.
PlaceInv ==
  /\ mpc # "idle" => tst = "pop" \/ rst = "drain"
  /\ tst = "pop" => mpc # "idle"
  /\ rst \in {"drain", "exited"} => tst = "gone"
  /\ tst = "send" => mret # NULL /\ mret = LastGot /\ Command(typed[mret]) # Nothing

LEMMA InitPlaceInv == HostInit => HistoryInv /\ PlaceInv
<1> SUFFICES ASSUME HostInit PROVE HistoryInv /\ PlaceInv
  OBVIOUS
<1>1. typed \in Seq(Keys) /\ sent \in Seq(SentRecord)
  BY DEF HostInit
<1>2. quit \in BOOLEAN
  BY DEF HostInit
<1>3. QED
  BY <1>1, <1>2 DEF HostInit, Init, HistoryInv, PlaceInv

\* The pops of main_thread and of queue_cleanup share their steps.
LEMMA PopStepFrame ==
  ASSUME PopStep \/ PopFree \/ PeekSize \/ DrainTest
  PROVE  UNCHANGED <<alloc, kpc>> /\ (got' = got \/ mpc = "advance")
  BY DEF PopStep, PopFree, PeekSize, DrainTest, PeekType, PopTest, PopRet, PopNext, PopAdvance,
         PopDecr, PopSub, shared, pushing

LEMMA CommandIsCommand == ASSUME NEW key, Command(key) # Nothing PROVE Command(key) \in Commands
  BY DEF Command, Commands, Nothing

LEMMA NextHistoryInv ==
  ASSUME QueueInv, HistoryInv, PlaceInv, [HostNext]_<<qvars, hvars>>
  PROVE  HistoryInv' /\ (\A n \in 1 .. alloc : typed'[n] = typed[n])
<1> USE DEF HistoryInv, hvars, threads
<1>1. CASE UNCHANGED <<alloc, typed, sent>> /\ quit' \in BOOLEAN
  BY <1>1
<1>2. CASE \E key \in Keys : KKey(key)
  <2>1. PICK key \in Keys : KKey(key)
    BY <1>2
  <2>2. typed' = Append(typed, key) /\ alloc' = alloc + 1 /\ sent' = sent /\ quit' = quit
    BY <2>1 DEF KKey, PushEnter
  <2>3. typed' \in Seq(Keys) /\ Len(typed') = alloc + 1
    BY <2>2
  <2>4. QED
    BY <2>2, <2>3
<1>3. CASE MSend
  <2>1. UNCHANGED <<alloc, typed, quit>>
    BY <1>3 DEF MSend, send_message, QueueIdle, pushing
  <2>2. mret \in Node /\ Command(typed[mret]) \in Commands
    BY <1>3, CommandIsCommand DEF MSend, send_message, PlaceInv, QueueInv, TypeInv, TypeOK, Ptr
  <2>3. \/ sent' = sent
        \/ \E r \in SentRecord : sent' = Append(sent, r)
    BY <1>3, <2>2 DEF MSend, send_message, SentRecord, QueueInv, TypeInv, TypeOK
  <2>4. sent' \in Seq(SentRecord)
    BY <2>3
  <2>5. QED
    BY <2>1, <2>4
<1>4. CASE UNCHANGED <<qvars, hvars>>
  BY <1>1, <1>4 DEF qvars, pushing
<1>5. CASE HostNext
  <2> USE DEF QueueIdle, pushing
  <2>1. CASE MainNext
    BY <1>1, <2>1, PopStepFrame DEF MainNext, RCreate, RCreated, RJoin, RDrain, RExit
  <2>2. CASE KeyboardRuns \/ KQuitKey \/ XReturn
    BY <1>1, <2>2
       DEF KeyboardRuns, KStart, KLoop, KPush, KRelock, KExit, KQuitKey, XReturn, PushStep,
           PushTest, PushFirst, PushLink, PushLoad, PushStore, ClientLock, ClientUnlock, PusherExit
  <2>3. CASE ThreadNext \/ MReadByte
    BY <1>1, <1>3, <2>3, PopStepFrame
       DEF ThreadNext, MOpen, MTest, MPeek, MPop, MDispatch, MRead, MReadByte, MRound
  <2>4. QED
    BY <1>2, <1>5, <2>1, <2>2, <2>3 DEF HostNext, HostStep, KeyTyped
<1>6. QED
  BY <1>4, <1>5

LEMMA NextPlaceInv ==
  ASSUME ThreadInv, QueueInv, QueueInv', HistoryInv, PlaceInv, [HostNext]_<<qvars, hvars>>
  PROVE  PlaceInv'
<1> USE DEF PlaceInv, hvars, threads
<1>0. mret \in Ptr /\ mret <= alloc /\ alloc \in Nat
  BY MaxEventsAssumption DEF QueueInv, TypeInv, TypeOK, OrderInv, ListInv, Linked, Ptr, Node, NULL
<1>1. \A n \in 1 .. alloc : typed'[n] = typed[n]
  BY NextHistoryInv
<1>2. CASE UNCHANGED <<got, mpc, mret, tst, rst>>
  BY <1>0, <1>1, <1>2 DEF LastGot, Ptr, Node, NULL
<1>3. CASE UNCHANGED <<qvars, hvars>>
  BY <1>2, <1>3 DEF qvars, shared, popping
<1>4. CASE HostNext
  <2> USE DEF QueueIdle, shared, popping
  <2>1. CASE RCreate
    BY <1>0, <1>1, <2>1 DEF RCreate, Born, LastGot, Ptr, Node, NULL
  <2>2. CASE RCreated \/ RJoin \/ RExit
    <3>1. UNCHANGED <<got, mpc, mret, tst, typed>> /\ (rst' \in {"drain", "exited"} => tst = "gone")
      BY <2>2 DEF RCreated, RJoin, RExit
    <3>2. CASE mpc = "idle" \/ rst # "drain"
      BY <2>2, <3>1, <3>2 DEF RCreated, RJoin, RExit, LastGot
    <3>3. QED
      BY <2>2, <3>2 DEF RCreated, RJoin, RExit
  <2>3. CASE RDrain
    BY <2>3 DEF RDrain
  <2>4. CASE KeyboardRuns \/ KeyTyped \/ XReturn
    BY <1>2, <2>4
       DEF KeyboardRuns, KStart, KLoop, KPush, KRelock, KExit, KeyTyped, KQuitKey, KKey, XReturn,
           PushEnter, PushStep, PushTest, PushFirst, PushLink, PushLoad, PushStore, ClientLock,
           ClientUnlock, PusherExit
  <2>5. CASE MOpen \/ MTest \/ MSend \/ MRead \/ MReadByte
    BY <2>5 DEF MOpen, MTest, MSend, MRead, MReadByte, MRound, LastGot
  <2>6. CASE MPeek
    BY <2>6 DEF MPeek, PeekSize
  <2>7. CASE MPop
    BY <2>7 DEF MPop, PopStep, PeekType, PopTest, PopRet, PopNext, PopAdvance, PopDecr, PopSub
  <2>8. CASE MDispatch
    <3>1. mret = LastGot /\ UNCHANGED <<got, mret, typed>> /\ mpc' = "idle"
      BY <2>8 DEF MDispatch, PopFree, QueueInv, OrderInv, TakeInv
    <3>2. QED
      BY <2>8, <3>1 DEF MDispatch, LastGot
  <2>9. QED
    BY <1>4, <2>1, <2>2, <2>3, <2>4, <2>5, <2>6, <2>7, <2>8
       DEF HostNext, HostStep, MainNext, ThreadNext
<1>5. QED
  BY <1>3, <1>4

-----------------------------------------------------------------------------
(* The commands *)

\* The event taken last is still on its way through main_thread.
InFlight == mpc \in {"decr", "sub", "use"} \/ tst = "send"
Answered(n) == Command(typed[n]) = Nothing \/ \E j \in 1 .. Len(sent) : sent[j].event = n

\* What has been sent is in order, older than the event in flight, and answers
\* its key.  Without an overlap no key is passed over: until main() drains the
\* queue every event taken but the one in flight has been answered.
OrderedInv ==
  /\ \A i, j \in 1 .. Len(sent) : i < j => sent[i].event < sent[j].event
  /\ \A i \in 1 .. Len(sent) : sent[i].event <= LastGot
  /\ InFlight => \A i \in 1 .. Len(sent) : sent[i].event < LastGot
  /\ \A i \in 1 .. Len(sent) : sent[i].bytes \in {Command(typed[sent[i].event]), Garbled}
AnsweredInv ==
  ~raced =>
    /\ \A i \in 1 .. Len(sent) : \A n \in 1 .. sent[i].event : Answered(n)
    /\ rst \notin {"drain", "exited"} =>
         \A n \in 1 .. Len(got) : n < Len(got) \/ ~InFlight => Answered(n)
LateInv ==
  /\ OneCommandAfterQuit
  /\ sent # <<>> /\ sent[Len(sent)].late => quit /\ tst \in {"read", "test", "gone"}

CommandInv == OrderedInv /\ AnsweredInv /\ LateInv

LEMMA InitCommandInv == HostInit => CommandInv
  BY DEF HostInit, Init, CommandInv, OrderedInv, AnsweredInv, LateInv, OneCommandAfterQuit

\* A step sends, takes an event, ends the flight of one, or does none of these.
Draining == rst \in {"drain", "exited"}
Quiet == /\ UNCHANGED <<got, sent>>
         /\ InFlight' => InFlight
         /\ ~Draining' => ~Draining /\ InFlight' = InFlight
Takes == /\ PopAdvance
         /\ ~InFlight /\ sent' = sent
         /\ ~Draining' => ~Draining

LEMMA OtherPopSteps ==
  ASSUME QueueInv, PopStep, ~PopAdvance
  PROVE  /\ got' = got
         /\ mpc' \in {"decr", "sub", "use"} <=> mpc \in {"decr", "sub", "use"}
<1> USE DEF shared
<1>1. CASE PeekType \/ PopRet \/ PopNext \/ PopDecr \/ PopSub
  BY <1>1 DEF PeekType, PopRet, PopNext, PopDecr, PopSub
<1>2. CASE PopTest
  BY <1>2 DEF PopTest, QueueInv, TypeInv, RegInv
<1>3. QED
  BY <1>1, <1>2 DEF PopStep

LEMMA StepKinds ==
  ASSUME QueueInv, PlaceInv, [HostNext]_<<qvars, hvars>>
  PROVE  Quiet \/ Takes \/ MDispatch \/ MSend
<1> USE DEF Quiet, Takes, Draining, InFlight, QueueIdle, shared, popping, hvars, threads, PlaceInv
<1>1. CASE UNCHANGED <<qvars, hvars>>
  BY <1>1 DEF qvars
<1>2. CASE MainNext
  <2>1. CASE RDrain
    <3>1. rst = "drain" /\ UNCHANGED hvars /\ tst = "gone"
      BY <2>1 DEF RDrain
    <3>2. CASE PopAdvance
      BY <3>1, <3>2 DEF PopAdvance
    <3>3. CASE DrainTest \/ PopFree
      BY <3>1, <3>3 DEF DrainTest, PopFree
    <3>4. CASE PopStep /\ ~PopAdvance
      BY <3>1, <3>4, OtherPopSteps
    <3>5. QED
      BY <2>1, <3>2, <3>3, <3>4 DEF RDrain, PopStep
  <2>2. CASE RCreate
    BY <2>2 DEF RCreate, Born
  <2>3. CASE RCreated \/ RJoin \/ RExit
    BY <2>3 DEF RCreated, RJoin, RExit
  <2>4. QED
    BY <1>2, <2>1, <2>2, <2>3 DEF MainNext
<1>3. CASE KeyboardRuns \/ KeyTyped \/ XReturn
  BY <1>3
     DEF KeyboardRuns, KStart, KLoop, KPush, KRelock, KExit, KeyTyped, KQuitKey, KKey, XReturn,
         PushEnter, PushStep, PushTest, PushFirst, PushLink, PushLoad, PushStore, ClientLock,
         ClientUnlock, PusherExit
<1>4. CASE MOpen \/ MTest \/ MPeek \/ MRead \/ MReadByte
  BY <1>4 DEF MOpen, MTest, MPeek, MRead, MReadByte, MRound, PeekSize
<1>5. CASE MPop
  <2>1. tst = "pop" /\ UNCHANGED hvars
    BY <1>5 DEF MPop
  <2>2. CASE PopAdvance
    BY <2>1, <2>2 DEF PopAdvance
  <2>3. CASE PopStep /\ ~PopAdvance
    BY <2>1, <2>3, OtherPopSteps
  <2>4. QED
    BY <1>5, <2>2, <2>3 DEF MPop
<1>6. QED
  BY <1>1, <1>2, <1>3, <1>4, <1>5 DEF HostNext, HostStep, ThreadNext

\* Taking an event makes it the last one taken, younger than all before.
LEMMA TakeIsNewest ==
  ASSUME QueueInv, PopAdvance
  PROVE  /\ got' = Append(got, mret) /\ Len(got') = Len(got) + 1
         /\ LastGot' = mret /\ LastGot < mret
<1>1. got \in Seq(Ptr) /\ mret \in Ptr
  BY DEF QueueInv, TypeInv, TypeOK
<1>2. got' = Append(got, mret) /\ LastGot < mret
  BY DEF PopAdvance, QueueInv, OrderInv, TakeInv
<1>3. got' # <<>> /\ Len(got') = Len(got) + 1 /\ got'[Len(got')] = mret
  BY <1>1, <1>2
<1>4. QED
  BY <1>2, <1>3 DEF LastGot

LEMMA LastGotIsTaken == QueueInv => LastGot \in 0 .. alloc /\ alloc \in Nat
  BY MaxEventsAssumption
     DEF QueueInv, TypeInv, TypeOK, OrderInv, TakeInv, Linked, LastGot, Ptr, Node, NULL

LEMMA SentIsTaken ==
  ASSUME QueueInv, HistoryInv, OrderedInv
  PROVE  \A i \in 1 .. Len(sent) : sent[i].event \in 1 .. LastGot
<1>1. \A i \in 1 .. Len(sent) : sent[i] \in SentRecord
  BY DEF HistoryInv
<1>2. \A r \in SentRecord : r.event \in Int /\ r.event >= 1
  BY MaxEventsAssumption DEF SentRecord, Node
<1>3. \A i \in 1 .. Len(sent) : sent[i].event <= LastGot
  BY DEF OrderedInv
<1>4. QED
  BY <1>1, <1>2, <1>3, LastGotIsTaken

LEMMA NextOrderedInv ==
  ASSUME QueueInv, HistoryInv, PlaceInv, OrderedInv, [HostNext]_<<qvars, hvars>>
  PROVE  OrderedInv'
<1>1. \A n \in 1 .. alloc : typed'[n] = typed[n]
  BY NextHistoryInv
<1>2. LastGot \in 0 .. alloc /\ alloc \in Nat
  BY LastGotIsTaken
<1>3. \A i \in 1 .. Len(sent) : sent[i].event \in 1 .. LastGot
  BY SentIsTaken
<1> USE DEF OrderedInv
<1>4. CASE Quiet
  BY <1>1, <1>2, <1>3, <1>4 DEF Quiet, LastGot
<1>5. CASE Takes
  <2>1. sent' = sent /\ LastGot' = mret /\ LastGot < mret /\ mret \in Nat
    BY <1>5, TakeIsNewest DEF Takes, QueueInv, TypeInv, TypeOK, Ptr, Node, NULL
  <2>2. \A i \in 1 .. Len(sent) : sent[i].event < LastGot'
    BY <1>2, <1>3, <2>1
  <2>3. QED
    BY <1>1, <1>2, <1>3, <2>1, <2>2
<1>6. CASE MDispatch
  BY <1>1, <1>2, <1>3, <1>6 DEF MDispatch, PopFree, LastGot, InFlight
<1>7. CASE MSend
  <2>1. UNCHANGED <<got, typed>> /\ InFlight
    BY <1>7 DEF MSend, send_message, QueueIdle, shared, InFlight
  <2>2. CASE sent' = sent
    BY <1>7, <2>1, <2>2 DEF LastGot
  <2>3. CASE sent' # sent
    <3>1. PICK bytes \in {Command(typed[mret]), Garbled} :
             sent' = Append(sent, [event |-> mret, bytes |-> bytes, late |-> quit])
      BY <1>7, <2>3 DEF MSend, send_message
    <3>2. /\ Len(sent') = Len(sent) + 1
          /\ \A i \in 1 .. Len(sent) : sent'[i] = sent[i]
          /\ sent'[Len(sent')] = [event |-> mret, bytes |-> bytes, late |-> quit]
          /\ Len(sent) \in Nat
      BY <3>1 DEF HistoryInv
    <3>3. mret = LastGot /\ LastGot' = LastGot /\ ~InFlight'
      BY <1>7, <2>1, <2>3 DEF PlaceInv, MSend, QueueIdle, popping, InFlight, LastGot
    <3>4. \A i \in 1 .. Len(sent) : sent[i].event < mret
      <4>1. \A i \in 1 .. Len(sent) : sent[i].event < LastGot
        BY <2>1
      <4>2. QED
        BY <3>3, <4>1
    <3>5. \A i, j \in 1 .. Len(sent') : i < j => sent'[i].event < sent'[j].event
      BY <3>2, <3>4
    <3>6. \A i \in 1 .. Len(sent') : sent'[i].event <= LastGot'
      BY <1>2, <1>3, <3>2, <3>3
    <3>7. \A i \in 1 .. Len(sent') : sent'[i].bytes \in {Command(typed'[sent'[i].event]), Garbled}
      BY <2>1, <3>2
    <3>8. QED
      BY <3>3, <3>5, <3>6, <3>7
  <2>4. QED
    BY <2>2, <2>3
<1>8. QED
  BY <1>4, <1>5, <1>6, <1>7, StepKinds

LEMMA NextAnsweredInv ==
  ASSUME QueueInv, QueueInv', HistoryInv, PlaceInv, OrderedInv, AnsweredInv,
         [HostNext]_<<qvars, hvars>>
  PROVE  AnsweredInv'
<1> SUFFICES ASSUME ~raced'
             PROVE  /\ \A i \in 1 .. Len(sent') : \A n \in 1 .. sent'[i].event : Answered(n)'
                    /\ ~Draining' => \A n \in 1 .. Len(got') :
                         n < Len(got') \/ ~InFlight' => Answered(n)'
  BY DEF AnsweredInv, Draining
<1>1. LastGot \in 0 .. alloc /\ alloc \in Nat
  BY LastGotIsTaken
<1>2. /\ Len(got) = LastGot
      /\ \A i \in 1 .. Len(sent) : \A n \in 1 .. sent[i].event : Answered(n)
      /\ ~Draining => \A n \in 1 .. Len(got) : n < Len(got) \/ ~InFlight => Answered(n)
  <2>1. ~raced
    BY DEF HostNext, HostStep, NoteRace, qvars
  <2>2. \A i \in 1 .. Len(got) : got[i] = i
    BY <2>1 DEF QueueInv, IntactInv, ChainInv
  <2>3. Len(got) = LastGot
    BY <2>2 DEF LastGot, QueueInv, TypeInv, TypeOK
  <2>4. QED
    BY <2>1, <2>3 DEF AnsweredInv, Draining
<1>3. \A i \in 1 .. Len(sent) : sent[i].event \in 1 .. LastGot
  BY SentIsTaken
<1>4. sent' = sent => \A n \in 1 .. alloc : Answered(n) => Answered(n)'
  BY NextHistoryInv DEF Answered
<1>5. CASE Quiet
  BY <1>1, <1>2, <1>3, <1>4, <1>5 DEF Quiet
<1>6. CASE Takes
  <2>1. Len(got') = Len(got) + 1 /\ sent' = sent /\ ~InFlight /\ InFlight'
    BY <1>6, TakeIsNewest DEF Takes, PopAdvance, InFlight
  <2>2. ~Draining' => ~Draining
    BY <1>6 DEF Takes
  <2>3. QED
    BY <1>1, <1>2, <1>3, <1>4, <2>1, <2>2
<1>7. CASE MDispatch
  <2>1. UNCHANGED <<got, sent, mret, typed, rst>> /\ mret = LastGot /\ mret # NULL /\ InFlight
    BY <1>7 DEF MDispatch, PopFree, InFlight, QueueInv, OrderInv, TakeInv
  <2>2. ~InFlight' => Command(typed[mret]) = Nothing
    BY <1>7, <2>1 DEF MDispatch, InFlight
  <2>3. ~InFlight' => Answered(Len(got))'
    BY <1>2, <2>1, <2>2 DEF Answered
  <2>4. Draining' = Draining
    BY <2>1 DEF Draining
  <2>5. QED
    BY <1>1, <1>2, <1>3, <1>4, <2>1, <2>3, <2>4
<1>8. CASE MSend
  <2>1. UNCHANGED <<got, typed>> /\ InFlight /\ mret = LastGot /\ ~Draining
    BY <1>8 DEF MSend, send_message, QueueIdle, shared, InFlight, PlaceInv, Draining
  <2>2. CASE sent' = sent
    BY <1>1, <1>2, <1>3, <1>4, <2>1, <2>2, <1>8 DEF MSend, send_message, QueueIdle, popping, InFlight
  <2>3. CASE sent' # sent
    <3>1. PICK r : sent' = Append(sent, r) /\ r.event = mret
      BY <1>8, <2>3 DEF MSend, send_message
    <3>2. /\ Len(sent') = Len(sent) + 1 /\ Len(sent) \in Nat
          /\ \A i \in 1 .. Len(sent) : sent'[i] = sent[i]
          /\ sent'[Len(sent')].event = LastGot
      BY <2>1, <3>1 DEF HistoryInv
    <3>3. ASSUME NEW n \in 1 .. LastGot PROVE Answered(n)'
      <4>1. CASE n = LastGot
        BY <2>1, <3>2, <4>1 DEF Answered
      <4>2. CASE n < LastGot
        <5>1. Answered(n)
          BY <1>1, <1>2, <2>1, <4>2
        <5>2. QED
          BY <2>1, <3>2, <5>1 DEF Answered
      <4>3. QED
        BY <1>1, <4>1, <4>2
    <3>4. \A i \in 1 .. Len(sent') : sent'[i].event \in 0 .. LastGot
      BY <1>1, <1>3, <3>2
    <3>5. \A i \in 1 .. Len(sent') : 1 .. sent'[i].event \subseteq 1 .. LastGot
      BY <1>1, <3>4
    <3>6. QED
      BY <1>2, <2>1, <3>3, <3>5
  <2>4. QED
    BY <2>2, <2>3
<1>9. QED
  BY <1>5, <1>6, <1>7, <1>8, StepKinds

LEMMA NextLateInv ==
  ASSUME HistoryInv, LateInv, [HostNext]_<<qvars, hvars>>
  PROVE  LateInv'
<1> USE DEF LateInv, OneCommandAfterQuit, HistoryInv, hvars, threads
<1>1. CASE UNCHANGED <<quit, tst, sent>>
  BY <1>1
<1>2. CASE UNCHANGED <<qvars, hvars>>
  BY <1>1, <1>2
<1>3. CASE MainNext
  BY <1>1, <1>3 DEF MainNext, RCreate, Born, RCreated, RJoin, RDrain, RExit
<1>4. CASE KeyboardRuns \/ KeyTyped \/ XReturn
  BY <1>1, <1>4
     DEF KeyboardRuns, KStart, KLoop, KPush, KRelock, KExit, KeyTyped, KQuitKey, KKey, XReturn
<1>5. CASE MOpen \/ MTest \/ MPeek \/ MPop \/ MDispatch \/ MRead \/ MReadByte
  BY <1>1, <1>5 DEF MOpen, MTest, MPeek, MPop, MDispatch, MRead, MReadByte, MRound
<1>6. CASE MSend
  <2>1. CASE sent' = sent
    BY <1>6, <2>1 DEF MSend, send_message
  <2>2. CASE sent' # sent
    <3>1. PICK r : sent' = Append(sent, r) /\ r.late = quit
      BY <1>6, <2>2 DEF MSend, send_message
    <3>2. /\ Len(sent') = Len(sent) + 1 /\ Len(sent) \in Nat
          /\ \A i \in 1 .. Len(sent) : sent'[i] = sent[i]
          /\ sent'[Len(sent')].late = quit
      BY <3>1
    <3>3. tst = "send" /\ quit' = quit /\ tst' = "read"
      BY <1>6, <2>2 DEF MSend, send_message
    <3>4. \A i \in 1 .. Len(sent) : ~sent[i].late
      BY <3>2, <3>3
    <3>5. QED
      BY <3>2, <3>3, <3>4
  <2>3. QED
    BY <2>1, <2>2
<1>7. QED
  BY <1>2, <1>3, <1>4, <1>5, <1>6 DEF HostNext, HostStep, ThreadNext

LEMMA HostInvariance == HostSpec => [](QueueInv /\ HistoryInv /\ PlaceInv /\ CommandInv)
<1>1. HostSpec => [](ThreadInv /\ QueueInv)
  BY HostQueueInv
<1>2. /\ ThreadInv /\ QueueInv /\ (ThreadInv /\ QueueInv)'
      /\ HistoryInv /\ PlaceInv /\ CommandInv /\ [HostNext]_<<qvars, hvars>>
      => (HistoryInv /\ PlaceInv /\ CommandInv)'
  BY NextHistoryInv, NextPlaceInv, NextOrderedInv, NextAnsweredInv, NextLateInv DEF CommandInv
<1>3. HostInit => HistoryInv /\ PlaceInv /\ CommandInv
  BY InitPlaceInv, InitCommandInv
<1>4. QED
  BY <1>1, <1>2, <1>3, PTL DEF HostSpec

\* For any keys and any scheduling, the commands on the serial line answer the
\* keys in the order typed, each at most once, and while no pop overlaps a push
\* none that an answered key follows is left out.
THEOREM CommandsAreTheKeys == HostSpec => []CommandsFollowKeys
<1>1. QueueInv /\ HistoryInv /\ CommandInv => CommandsFollowKeys
  <2> SUFFICES ASSUME QueueInv, HistoryInv, CommandInv PROVE CommandsFollowKeys
    OBVIOUS
  <2> USE DEF CommandInv, OrderedInv
  <2>1. ASSUME ~raced, NEW i \in 1 .. Len(sent), NEW n \in 1 .. sent[i].event
        PROVE  Command(typed[n]) = Nothing \/ \E j \in 1 .. i : sent[j].event = n
    <3>1. CASE Command(typed[n]) # Nothing
      <4>1. PICK j \in 1 .. Len(sent) : sent[j].event = n
        BY <2>1, <3>1 DEF AnsweredInv, Answered
      <4>2. ~(i < j)
        <5>1. sent[i].event \in Nat /\ n \in Nat /\ n <= sent[i].event
          BY SentIsTaken, LastGotIsTaken
        <5>2. i < j => sent[i].event < sent[j].event
          OBVIOUS
        <5>3. QED
          BY <4>1, <5>1, <5>2
      <4>3. QED
        BY <4>1, <4>2
    <3>2. QED
      BY <3>1
  <2>2. QED
    BY <2>1 DEF CommandsFollowKeys
<1>2. QED
  BY <1>1, HostInvariance, PTL

\* However late main_thread notices q, it sends at most one more command.
THEOREM AtMostOneCommandAfterQuit == HostSpec => []OneCommandAfterQuit
<1>1. CommandInv => OneCommandAfterQuit
  BY DEF CommandInv, LateInv
<1>2. QED
  BY <1>1, HostInvariance, PTL

-----------------------------------------------------------------------------
(* The end of the program *)

\* Every event taken is freed, but for the one the popper still works on.
FreedInv ==
  \A i \in 1 .. Len(got) : got[i] \in freed \/ (mpc \in {"decr", "sub", "use"} /\ i = Len(got))

LEMMA NextFreedInv ==
  ASSUME QueueInv, FreedInv, [Next]_qvars
  PROVE  FreedInv'
<1> USE DEF FreedInv, shared, popping
<1>1. CASE UNCHANGED <<got, mpc, freed>>
  BY <1>1
<1>2. CASE UNCHANGED qvars
  BY <1>1, <1>2 DEF qvars
<1>3. CASE PusherNext
  BY <1>1, <1>3
     DEF PusherNext, PushEnter, PushStep, PushTest, PushFirst, PushLink, PushLoad, PushStore,
         ClientLock, ClientUnlock, PusherExit
<1>4. CASE PopAdvance
  <2>1. /\ got' = Append(got, mret) /\ Len(got') = Len(got) + 1 /\ Len(got) \in Nat
        /\ \A i \in 1 .. Len(got) : got'[i] = got[i]
    BY <1>4, TakeIsNewest DEF QueueInv, TypeInv, TypeOK
  <2>2. QED
    BY <1>4, <2>1 DEF PopAdvance
<1>5. CASE PopFree
  <2>1. mret # NULL /\ mret = LastGot
    BY <1>5 DEF PopFree, QueueInv, OrderInv, TakeInv
  <2>2. freed' = freed \cup {mret} /\ got' = got
    BY <1>5, <2>1 DEF PopFree
  <2>3. \A i \in 1 .. Len(got) : i = Len(got) => got[i] = mret
    BY <2>1 DEF LastGot
  <2>4. QED
    BY <2>2, <2>3
<1>6. CASE PeekSize \/ DrainTest \/ PeekType \/ PopTest \/ PopRet \/ PopNext \/ PopDecr \/ PopSub
  BY <1>6 DEF PeekSize, DrainTest, PeekType, PopTest, PopRet, PopNext, PopDecr, PopSub
<1>7. QED
  BY <1>2, <1>3, <1>4, <1>5, <1>6 DEF Next, PopperNext, PopStep

\* What is known when a thread has gone, or main() has returned.
ExitInv ==
  /\ kst = "gone" => tty \in {"cooked", "kept"}
  /\ rst = "exited" => mpc = "idle" /\ size <= 0

LEMMA NextExitInv ==
  ASSUME ExitInv, [HostNext]_<<qvars, hvars>>
  PROVE  ExitInv'
<1> USE DEF ExitInv, QueueIdle, shared, popping, hvars, threads
<1>1. CASE UNCHANGED <<qvars, hvars>>
  BY <1>1 DEF qvars
<1>2. CASE rst = "exited" /\ HostNext
  BY <1>2 DEF HostNext, HostStep, Ended
<1>3. CASE rst # "exited" /\ HostNext
  <2>1. CASE MainNext
    BY <1>3, <2>1 DEF MainNext, RCreate, Born, RCreated, RJoin, RDrain, RExit
  <2>2. CASE KeyboardRuns \/ KeyTyped \/ XReturn
    BY <1>3, <2>2
       DEF KeyboardRuns, KStart, KLoop, KPush, KRelock, KExit, KeyTyped, KQuitKey, KKey, XReturn
  <2>3. CASE ThreadNext \/ MReadByte
    BY <1>3, <2>3 DEF ThreadNext, MOpen, MTest, MPeek, MPop, MDispatch, MSend, MRead, MReadByte, MRound
  <2>4. QED
    BY <1>3, <2>1, <2>2, <2>3 DEF HostNext, HostStep
<1>4. QED
  BY <1>1, <1>2, <1>3

\* When main() returns, queue_cleanup has left no event allocated, unless one
\* was lost to an overlap, and keyboard_thread has put the terminal back, unless stty failed.
THEOREM ExitIsClean == HostSpec => []CleanExit
<1>1. HostInit => FreedInv /\ ExitInv
  BY DEF HostInit, Init, FreedInv, ExitInv
<1>2. /\ ThreadInv /\ QueueInv /\ FreedInv /\ ExitInv /\ [HostNext]_<<qvars, hvars>>
      => (FreedInv /\ ExitInv)'
  BY NextIsQueueStep, NextFreedInv, NextExitInv
<1>3. ThreadInv /\ QueueInv /\ FreedInv /\ ExitInv => CleanExit
  <2> SUFFICES ASSUME ThreadInv, QueueInv, FreedInv, ExitInv, rst = "exited"
               PROVE  tty \in {"cooked", "kept"} /\ (~raced => freed = 1 .. alloc)
    BY DEF CleanExit
  <2>1. tty \in {"cooked", "kept"} /\ kpc = "done" /\ mpc = "idle" /\ size <= 0
    BY DEF ExitInv, ThreadInv
  <2>2. ASSUME ~raced PROVE freed = 1 .. alloc
    <3>1. size \in Nat /\ alloc \in Nat /\ Len(got) \in Nat /\ freed \subseteq 1 .. MaxEvents
      BY MaxEventsAssumption DEF QueueInv, TypeInv, TypeOK, Node
    <3>2. /\ \A i \in 1 .. Len(got) : got[i] = i
          /\ size = alloc - Len(got)
      BY <2>1, <2>2, <3>1 DEF QueueInv, IntactInv, ChainInv, Pushed
    <3>3. Len(got) = alloc
      BY <2>1, <3>1, <3>2
    <3>4. 1 .. alloc \subseteq freed
      BY <2>1, <3>1, <3>2, <3>3 DEF FreedInv
    <3>5. \A n \in freed : n <= LastGot
      BY DEF QueueInv, OrderInv, FreeInv
    <3>6. LastGot <= alloc
      BY <3>1, LastGotIsTaken
    <3>7. freed \subseteq 1 .. alloc
      BY MaxEventsAssumption, <3>1, <3>5, <3>6, LastGotIsTaken
    <3>8. QED
      BY <3>4, <3>7
  <2>3. QED
    BY <2>1, <2>2
<1>4. QED
  BY <1>1, <1>2, <1>3, HostQueueInv, PTL DEF HostSpec

-----------------------------------------------------------------------------
(* Types *)

ModesInv ==
  /\ rst \in {"create", "join", "drain", "exited", "failed", "killed"}
  /\ kst \in {"unborn", "failed", "start", "loop", "getchar", "push", "relock", "gone"}
  /\ tst \in {"unborn", "failed", "start", "test", "peek", "pop", "send", "read", "gone"}
  /\ xst \in {"unborn", "failed", "start", "gone"}
  /\ tty \in {"found", "raw", "cooked", "kept"} /\ reads \in {"end", "block"}

LEMMA NextModesInv ==
  ASSUME ModesInv, [HostNext]_<<qvars, hvars>>
  PROVE  ModesInv'
<1> USE DEF ModesInv, hvars, threads
<1>1. CASE UNCHANGED hvars
  BY <1>1
<1>2. CASE RCreate \/ RCreated
  BY <1>2 DEF RCreate, Born, RCreated
<1>3. CASE RJoin \/ RDrain \/ RExit \/ XReturn
  BY <1>3 DEF RJoin, RDrain, RExit, XReturn
<1>4. CASE KeyboardRuns \/ KeyTyped
  BY <1>4 DEF KeyboardRuns, KStart, KLoop, KPush, KRelock, KExit, KeyTyped, KQuitKey, KKey
<1>5. CASE ThreadNext \/ MReadByte
  BY <1>5 DEF ThreadNext, MOpen, MTest, MPeek, MPop, MDispatch, MSend, MRead, MReadByte, MRound
<1>6. QED
  BY <1>1, <1>2, <1>3, <1>4, <1>5 DEF HostNext, HostStep, MainNext

\* The threads are where the code has a place for them, every event has its
\* key, and what is sent is a command or garbled.
THEOREM HostTypeCorrect == HostSpec => []HostTypeOK
<1>1. HostInit => ModesInv
  BY DEF HostInit, ModesInv
<1>2. ModesInv /\ HistoryInv => HostTypeOK
  BY DEF ModesInv, HistoryInv, SentRecord, HostTypeOK
<1>3. QED
  BY <1>1, <1>2, NextModesInv, HostInvariance, PTL DEF HostSpec

=============================================================================
