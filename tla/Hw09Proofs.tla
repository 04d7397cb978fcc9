----------------------------- MODULE Hw09Proofs -----------------------------
(***************************************************************************)
(* Of event_queue.c and of the earlier form of the program, for any        *)
(* capacity, any threads, any number of events and any threshold.          *)
(***************************************************************************)
EXTENDS Hw09, TLAPS

LEMMA SuccInSlot == \A i \in Slot : Succ(i) \in Slot
  BY CapacityAssumption DEF Slot, Succ

\* q.in never moves; so only the first slot is ever written, and it is the one
\* slot that is never read.
QueueInv == /\ QueueTypeOK
            /\ SleepersHaveReason
            /\ qin = 0 /\ \A i \in Slot \ {0} : queue[i] = Zero
            /\ PushedNeverPopped

LEMMA InitQueueInv == QueueInit => QueueInv
<1> SUFFICES ASSUME QueueInit PROVE QueueInv
  OBVIOUS
<1>1. qin \in Slot /\ qout \in Slot /\ queue \in [Slot -> {Zero} \cup Pushed]
  BY CapacityAssumption DEF QueueInit, Slot
<1>2. pushing \in [Pushers -> {NoEvent} \cup Pushed]
  BY DEF QueueInit
<1>3. ev \in {NoEvent} /\ ev \notin Pushed
  BY DEF QueueInit, NoEvent, Pushed
<1>4. QED
  BY <1>1, <1>2, <1>3 DEF QueueInit, QueueInv, QueueTypeOK, SleepersHaveReason, PushedNeverPopped

LEMMA EventQueueSteps ==
  ASSUME QueueInv,
         \/ \E t \in Pushers : PushSleep(t) \/ queue_push(t) \/ \E e \in Pushed : PushCall(t, e)
         \/ PopSleep \/ queue_pop \/ Spurious \/ set_quit
  PROVE  QueueInv'
<1> USE DEF QueueInv, QueueTypeOK, SleepersHaveReason, PushedNeverPopped
<1>1. ASSUME NEW t \in Pushers, NEW e \in Pushed, PushCall(t, e) PROVE QueueInv'
  BY <1>1 DEF PushCall, ring, Full, Empty
<1>2. ASSUME NEW t \in Pushers, PushSleep(t) PROVE QueueInv'
  <2>1. Full /\ UNCHANGED <<queue, qin, qout, qquit, pushing, ev>> /\ asleep' = asleep \cup {t}
    BY <1>2 DEF PushSleep, ring
  <2>2. Popper \in asleep' => Popper \in asleep
    BY <2>1, ThreadsAssumption
  <2>3. QED
    BY <2>1, <2>2 DEF Full, Empty, Succ
<1>3. ASSUME NEW t \in Pushers, queue_push(t) PROVE QueueInv'
  <2>1. pushing[t] \in Pushed
    BY <1>3 DEF queue_push
  <2>2. /\ queue' = [queue EXCEPT ![0] = pushing[t]]
        /\ qout' = Succ(qout) /\ asleep' = {}
        /\ pushing' = [pushing EXCEPT ![t] = NoEvent] /\ UNCHANGED <<qin, qquit, ev>>
    BY <1>3 DEF queue_push, Put, Broadcast
  <2>3. QED
    BY <2>1, <2>2, SuccInSlot
<1>4. CASE PopSleep
  <2>1. Empty /\ UNCHANGED <<queue, qin, qout, qquit, pushing, ev>> /\ asleep' = asleep \cup {Popper}
    BY <1>4 DEF PopSleep, ring
  <2>2. asleep' \cap Pushers = asleep \cap Pushers
    BY <2>1, ThreadsAssumption
  <2>3. QED
    BY <2>1, <2>2 DEF Full, Empty, Succ
<1>5. CASE queue_pop
  <2>1. UNCHANGED <<queue, qin, qquit, pushing>>
    BY <1>5 DEF queue_pop
  <2>2. CASE ~Empty /\ ev' = queue[qout] /\ qout' = Succ(qout) /\ Broadcast
    <3>1. ev' = Zero
      BY <2>2 DEF Empty
    <3>2. ev' \notin Pushed
      BY <3>1 DEF Zero, Pushed
    <3>3. QED
      BY <2>1, <2>2, <3>1, <3>2, SuccInSlot DEF Broadcast
  <2>3. CASE qquit /\ Empty /\ ev' = NoEvent /\ UNCHANGED <<qout, asleep>>
    BY <2>1, <2>3 DEF NoEvent, Pushed, Empty, Full
  <2>4. QED
    BY <1>5, <2>2, <2>3 DEF queue_pop
<1>6. CASE Spurious \/ set_quit
  BY <1>6 DEF Spurious, set_quit, ring, Full, Empty
<1>7. QED
  BY <1>1, <1>2, <1>3, <1>4, <1>5, <1>6

LEMMA NextQueueInv == QueueInv /\ [Hw09Next]_hwvars => QueueInv'
<1> SUFFICES ASSUME QueueInv, [Hw09Next]_hwvars PROVE QueueInv'
  OBVIOUS
<1>1. CASE UNCHANGED eqvars
  BY <1>1
  DEF QueueInv, QueueTypeOK, SleepersHaveReason, PushedNeverPopped, eqvars, ring, Full, Empty
<1>2. CASE MainRuns
  BY <1>1, <1>2, EventQueueSteps
  DEF MainRuns, MakeRaw, Restore, xwin_init, Pop, xwin_poll_events, Handle, xwin_close, queue_cleanup
<1>3. CASE Calls
  BY <1>3, EventQueueSteps DEF Calls
<1>4. CASE Threads
  BY <1>4, EventQueueSteps DEF Threads
<1>5. QED
  BY <1>1, <1>2, <1>3, <1>4 DEF Hw09Next, hwvars

LEMMA QueueCorrect == Hw09Spec => []QueueInv
<1>1. Hw09Init => QueueInv
  BY InitQueueInv DEF Hw09Init
<1>2. QED
  BY <1>1, NextQueueInv, PTL DEF Hw09Spec

\* With any number of pushers nobody sleeps while what it waits for is there.
THEOREM NobodyOversleeps == Hw09Spec => []SleepersHaveReason
  BY QueueCorrect, PTL DEF QueueInv

\* Whatever is pushed, queue_pop never returns it.
THEOREM PushedIsLost == Hw09Spec => []PushedNeverPopped
  BY QueueCorrect, PTL DEF QueueInv

-----------------------------------------------------------------------------
Places == {"init", "window", "pop", "poll", "handle", "draw", "close", "restore", "end", "aborted"}

LEMMA PipesTypes ==
  ASSUME opened \subseteq MainEnds \cup PeerEnds,
         ppc \in MainEnds \cup {"opened", "open", "closed", "aborted"},
         peer \in Seq(PeerEnds), PipesNext
  PROVE  /\ opened' \subseteq MainEnds \cup PeerEnds
         /\ ppc' \in MainEnds \cup {"opened", "open", "closed", "aborted"}
         /\ peer' \in Seq(PeerEnds)
<1> USE DEF MainEnds, PeerEnds
<1>1. ASSUME NEW end \in MainEnds, NEW next \in {"in_w", "opened"}, Open(end, next)
      PROVE  /\ opened' \subseteq MainEnds \cup PeerEnds
             /\ ppc' \in MainEnds \cup {"opened", "open", "closed", "aborted"}
             /\ peer' \in Seq(PeerEnds)
  <2>1. Other[end] \in PeerEnds
    BY DEF Other
  <2>2. peer' = peer \/ (peer # <<>> /\ peer' = Tail(peer))
    BY <1>1 DEF Open, PeerWaits
  <2>3. peer' \in Seq(PeerEnds)
    BY <2>2
  <2>4. opened' \subseteq opened \cup {end, Other[end]}
    BY <1>1 DEF Open
  <2>5. QED
    BY <1>1, <2>1, <2>3, <2>4 DEF Open
<1>2. CASE io_open_read \/ io_open_write
  BY <1>1, <1>2 DEF io_open_read, io_open_write
<1>3. CASE Assert \/ io_close
  BY <1>3 DEF Assert, my_assert, io_close
<1>4. CASE PeerStarts
  <2>1. \A a, b \in PeerEnds : <<a, b>> \in Seq(PeerEnds)
    OBVIOUS
  <2>2. QED
    BY <1>4, <2>1 DEF PeerStarts
<1>5. CASE PeerOpens
  <2>1. Head(peer) \in PeerEnds /\ peer' \in Seq(PeerEnds)
    BY <1>5 DEF PeerOpens
  <2>2. QED
    BY <1>5, <2>1 DEF PeerOpens
<1>6. QED
  BY <1>2, <1>3, <1>4, <1>5 DEF PipesNext, PrgsemMain

MainInv == /\ Hw09TypeOK
           /\ peer \in Seq(PeerEnds)
           /\ mpc = "restore" => window = "none"

LEMMA NextMainInv == MainInv /\ QueueInv' /\ [Hw09Next]_hwvars => MainInv'
<1> SUFFICES ASSUME MainInv, QueueInv', [Hw09Next]_hwvars PROVE MainInv'
  OBVIOUS
<1> USE MaxPushesAssumption DEF MainInv, Hw09TypeOK, QueueInv
<1>1. CASE UNCHANGED hwvars
  BY <1>1 DEF hwvars, mainvars, pipevars
<1>2. CASE MainRuns
  <2>1. UNCHANGED <<pipevars, pushes>>
    BY <1>2 DEF MainRuns, MakeRaw, Restore, xwin_init, Pop, xwin_poll_events, Handle, xwin_close, queue_cleanup, Goes
  <2>2. /\ mpc' \in Places /\ tty' \in {"cooked", "raw"} /\ window' \in {"none", "shown"}
        /\ mpc' \in {"pop", "poll", "handle", "draw", "close"} => window' = "shown"
        /\ mpc' = "end" => window' = "none" /\ tty' = "cooked"
        /\ mpc' = "restore" => window' = "none"
    BY <1>2 DEF MainRuns, MakeRaw, Restore, xwin_init, Pop, xwin_poll_events, Handle, xwin_close, queue_cleanup, Goes, Places
  <2>3. QED
    BY <2>1, <2>2 DEF pipevars, Places
<1>3. CASE Calls /\ UNCHANGED <<mainvars, out, pipevars>>
  BY <1>3 DEF Calls, mainvars, pipevars
<1>4. CASE Threads /\ UNCHANGED <<mainvars, out, pipevars, pushes>>
  BY <1>4 DEF mainvars, pipevars
<1>5. CASE PipesNext /\ UNCHANGED <<mainvars, out, eqvars, pushes>>
  BY <1>5, PipesTypes DEF mainvars
<1>6. QED
  BY <1>1, <1>2, <1>3, <1>4, <1>5 DEF Hw09Next

LEMMA MainCorrect == Hw09Spec => []MainInv
<1>1. Hw09Init => MainInv
  BY InitQueueInv, MaxPushesAssumption
  DEF Hw09Init, MainInv, Hw09TypeOK, QueueInv, PipesInit, MainEnds, PeerEnds
<1>2. QED
  BY <1>1, QueueCorrect, NextMainInv, PTL DEF Hw09Spec

\* main() handles events with its window there, and leaves the terminal as it
\* was, for any number of events.
THEOREM Hw09Restores == Hw09Spec => []Hw09TypeOK
  BY MainCorrect, PTL DEF MainInv

\* What main() opened stays open until it closes it; so of main() and a module
\* that both have an end to open, one can go on, and main()'s assertion on its
\* two ends holds.
PipesInv ==
  /\ ppc \in {"in_w", "opened", "open"} => "out_r" \in opened
  /\ ppc \in {"opened", "open"} => MainEnds \subseteq opened
  /\ ppc \in MainEnds /\ peer # <<>> =>
       ppc = "out_r" \/ PeerWaits("in_w") \/ Other[Head(peer)] \in opened

LEMMA NextPipesInv == MainInv /\ MainInv' /\ PipesInv /\ [Hw09Next]_hwvars => PipesInv'
<1> DEFINE Kept == /\ ppc \in {"in_w", "opened", "open"} => "out_r" \in opened
                   /\ ppc \in {"opened", "open"} => MainEnds \subseteq opened
<1> SUFFICES ASSUME MainInv, MainInv', Kept, [Hw09Next]_hwvars PROVE Kept'
  <2>1. ASSUME MainInv, Kept PROVE PipesInv
    <3>1. peer # <<>> => Head(peer) \in PeerEnds
      BY <2>1 DEF MainInv
    <3>2. Other["out_w"] = "out_r" /\ Other["in_w"] = "in_r"
      BY DEF Other
    <3>3. QED
      BY <2>1, <3>1, <3>2 DEF PipesInv, PeerWaits, MainEnds, PeerEnds
  <2>2. MainInv' /\ Kept' => PipesInv'
    BY <2>1, PTL
  <2>3. QED
    BY <2>2 DEF PipesInv
<1> USE DEF MainEnds, PeerEnds
<1>1. CASE UNCHANGED pipevars
  BY <1>1 DEF pipevars
<1>2. CASE io_open_read
  BY <1>2 DEF io_open_read, Open, Other
<1>3. CASE io_open_write
  BY <1>3 DEF io_open_write, Open, Other
<1>4. CASE Assert \/ PeerStarts \/ PeerOpens \/ io_close
  BY <1>4 DEF Assert, my_assert, PeerStarts, PeerOpens, io_close
<1>5. CASE MainRuns
  BY <1>1, <1>5 DEF MainRuns, MakeRaw, Restore, xwin_init, Pop, xwin_poll_events, Handle, xwin_close,
                    queue_cleanup, Goes
<1>6. QED
  BY <1>1, <1>2, <1>3, <1>4, <1>5 DEF Hw09Next, PipesNext, PrgsemMain, hwvars

\* main() and the computational module never wait for each other, in whichever
\* order the module opens its ends: what is safe of PipesMeet.
THEOREM PipesGoOn == Hw09Spec => []PipesInv
<1>1. Hw09Init => PipesInv
  BY DEF Hw09Init, PipesInit, PipesInv, MainEnds
<1>2. QED
  BY <1>1, MainCorrect, NextPipesInv, PTL DEF Hw09Spec

-----------------------------------------------------------------------------
(* The colours: three polynomials that stay below their denominators.      *)

LEMMA Squares == ASSUME NEW x \in Int PROVE x * x \in Nat
  OBVIOUS

LEMMA Products == ASSUME NEW x \in Nat, NEW y \in Nat PROVE x * y \in Nat
  OBVIOUS

\* x^3 y is largest where x = 3 y.
LEMMA CubeBound ==
  ASSUME NEW x \in Nat, NEW y \in Nat
  PROVE  256 * (y * x * x * x) <= 27 * ((x + y) * (x + y) * (x + y) * (x + y))
<1> DEFINE square == (x - 3 * y) * (x - 3 * y)
           rest == 27 * (x * x) + 14 * (x * y) + 3 * (y * y)
<1>1. 27 * ((x + y) * (x + y) * (x + y) * (x + y)) - 256 * (y * x * x * x) = square * rest
  OBVIOUS
<1>2. square \in Nat
  <2>1. x - 3 * y \in Int
    OBVIOUS
  <2>2. QED
    BY <2>1, Squares
<1>3. rest \in Nat
  <2>1. x * x \in Nat /\ x * y \in Nat /\ y * y \in Nat
    BY Products
  <2>2. QED
    BY <2>1
<1>4. square * rest \in Nat
  <2> HIDE DEF square, rest
  <2> QED
    BY <1>2, <1>3, Products
<1>5. y * x * x * x \in Int /\ (x + y) * (x + y) * (x + y) * (x + y) \in Int
  OBVIOUS
<1> HIDE DEF square, rest
<1>6. QED
  BY <1>1, <1>4, <1>5

\* x^2 y^2 is largest where x = y.
LEMMA SquareBound ==
  ASSUME NEW x \in Nat, NEW y \in Nat
  PROVE  16 * (y * y * x * x) <= (x + y) * (x + y) * (x + y) * (x + y)
<1> DEFINE square == (x - y) * (x - y)
           rest == (x + y) * (x + y) + 4 * (x * y)
<1>1. (x + y) * (x + y) * (x + y) * (x + y) - 16 * (y * y * x * x) = square * rest
  OBVIOUS
<1>2. square \in Nat
  <2>1. x - y \in Int
    OBVIOUS
  <2>2. QED
    BY <2>1, Squares
<1>3. rest \in Nat
  <2>1. (x + y) * (x + y) \in Nat /\ x * y \in Nat
    BY Products
  <2>2. QED
    BY <2>1
<1>4. square * rest \in Nat
  <2> HIDE DEF square, rest
  <2> QED
    BY <1>2, <1>3, Products
<1>5. y * y * x * x \in Int /\ (x + y) * (x + y) * (x + y) * (x + y) \in Int
  OBVIOUS
<1> HIDE DEF square, rest
<1>6. QED
  BY <1>1, <1>4, <1>5

LEMMA QuotientIsByte ==
  ASSUME NEW a \in Nat, NEW d \in Nat \ {0}, a < 256 * d
  PROVE  a \div d \in 0 .. 255 /\ (a \div d) % 256 = a \div d
<1>1. a \div d \in 0 .. 255
  OBVIOUS
<1>2. \A q \in 0 .. 255 : q % 256 = q
  OBVIOUS
<1>3. QED
  BY <1>1, <1>2

LEMMA ColourIsBytes ==
  ASSUME NEW threshold \in Nat \ {0}, NEW n \in 0 .. threshold
  PROVE  LET colour == Colour(n, threshold)
         IN  [c \in DOMAIN colour |-> UChar(colour[c])] = colour
<1> DEFINE s == threshold - n
           d == threshold * threshold * threshold * threshold
           ra == 9 * 255 * s * n * n * n
           ga == 15 * 255 * s * s * n * n
           ba == 17 * 255 * s * s * s * n
<1>1. s \in Nat /\ n \in Nat /\ n + s = threshold /\ s + n = threshold
  OBVIOUS
<1>2. d \in Nat \ {0}
  <2>1. \A x, y \in Nat \ {0} : x * y \in Nat \ {0}
    OBVIOUS
  <2>2. threshold * threshold \in Nat \ {0}
    BY <2>1
  <2>3. threshold * threshold * threshold \in Nat \ {0}
    BY <2>1, <2>2
  <2>4. QED
    BY <2>1, <2>3
<1> HIDE DEF s
<1>3. ra \in Nat /\ ra < 256 * d
  <2> DEFINE x == s * n * n * n
  <2>1. x \in Nat
    BY <1>1, Products
  <2>2. 256 * x <= 27 * d
    BY <1>1, CubeBound
  <2>3. ra = 2295 * x
    BY <1>1
  <2> HIDE DEF x, d, ra
  <2>4. QED
    BY <1>2, <2>1, <2>2, <2>3
<1>4. ga \in Nat /\ ga < 256 * d
  <2> DEFINE x == s * s * n * n
  <2>1. x \in Nat
    BY <1>1, Products
  <2>2. 16 * x <= d
    BY <1>1, SquareBound
  <2>3. ga = 3825 * x
    BY <1>1
  <2> HIDE DEF x, d, ga
  <2>4. QED
    BY <1>2, <2>1, <2>2, <2>3
<1>5. ba \in Nat /\ ba < 256 * (2 * d) /\ 2 * d \in Nat \ {0}
  <2> DEFINE x == n * s * s * s
  <2>1. x \in Nat
    BY <1>1, Products
  <2>2. 256 * x <= 27 * d
    BY <1>1, CubeBound
  <2>3. ba = 4335 * x
    BY <1>1
  <2> HIDE DEF x, d, ba
  <2>4. QED
    BY <1>2, <2>1, <2>2, <2>3
<1>6. Colour(n, threshold) = [r |-> ra \div d, g |-> ga \div d, b |-> ba \div (2 * d)]
  <2>1. Colour(n, threshold) = [r |-> Trunc(ra, d), g |-> Trunc(ga, d), b |-> Trunc(ba, 2 * d)]
    BY DEF Colour, s
  <2> HIDE DEF d, ra, ga, ba
  <2>2. Trunc(ra, d) = ra \div d /\ Trunc(ga, d) = ga \div d /\ Trunc(ba, 2 * d) = ba \div (2 * d)
    BY <1>3, <1>4, <1>5 DEF Trunc
  <2>3. QED
    BY <2>1, <2>2
<1> HIDE DEF d, ra, ga, ba
<1>7. /\ (ra \div d) % 256 = ra \div d
      /\ (ga \div d) % 256 = ga \div d
      /\ (ba \div (2 * d)) % 256 = ba \div (2 * d)
  BY <1>2, <1>3, <1>4, <1>5, QuotientIsByte
<1>8. QED
  BY <1>6, <1>7 DEF UChar

\* At the threshold the first factor of each polynomial is zero.
LEMMA GivenUpIsBlack == ASSUME NEW threshold \in Nat \ {0} PROVE Colour(threshold, threshold) = Black
<1>1. \A d \in Nat \ {0} : Trunc(0, d) = 0
  BY DEF Trunc
<1> DEFINE d == threshold * threshold * threshold * threshold
<1>2. d \in Nat \ {0} /\ 2 * d \in Nat \ {0}
  <2>1. \A x, y \in Nat \ {0} : x * y \in Nat \ {0}
    OBVIOUS
  <2>2. threshold * threshold \in Nat \ {0}
    BY <2>1
  <2>3. threshold * threshold * threshold \in Nat \ {0}
    BY <2>1, <2>2
  <2>4. QED
    BY <2>1, <2>3
<1>3. Colour(threshold, threshold) = [r |-> Trunc(0, d), g |-> Trunc(0, d), b |-> Trunc(0, 2 * d)]
  BY DEF Colour
<1> HIDE DEF d
<1>4. QED
  BY <1>1, <1>2, <1>3 DEF Black

\* Past the threshold the first factor of red is negative, and the fourth power
\* of a threshold that is a byte is too small a divisor to make it zero.
LEMMA RedIsNegative ==
  ASSUME NEW threshold \in 1 .. 255, NEW n \in 0 .. 255, threshold < n
  PROVE  Colour(n, threshold).r \in Int /\ Colour(n, threshold).r < 0
<1> DEFINE s == threshold - n
           d == threshold * threshold * threshold * threshold
           a == 9 * 255 * s * n * n * n
           cube == threshold * threshold * threshold
           ncube == n * n * n
<1>1. Colour(n, threshold).r = Trunc(a, d)
  BY DEF Colour
<1>2. cube \in Nat \ {0} /\ d = threshold * cube
  <2>1. \A x, y \in Nat \ {0} : x * y \in Nat \ {0}
    OBVIOUS
  <2>2. threshold * threshold \in Nat \ {0}
    BY <2>1
  <2>3. QED
    BY <2>1, <2>2
<1>3. ncube \in Nat /\ cube <= ncube
  <2>1. \A x, y, z, w \in Nat : x <= y /\ z <= w => x * z <= y * w
    <3> SUFFICES ASSUME NEW x \in Nat, NEW y \in Nat, NEW z \in Nat, NEW w \in Nat, x <= y, z <= w
                 PROVE  x * z <= y * w
      OBVIOUS
    <3>1. x * z <= y * z /\ y * z <= y * w
      OBVIOUS
    <3>2. x * z \in Int /\ y * z \in Int /\ y * w \in Int
      OBVIOUS
    <3> QED
      BY <3>1, <3>2
  <2>2. threshold * threshold \in Nat /\ n * n \in Nat /\ threshold * threshold <= n * n
    BY <2>1, Products
  <2>3. QED
    BY <2>1, <2>2, Products
<1>4. d \in Nat \ {0} /\ d <= 255 * ncube
  <2> HIDE DEF cube, ncube, d
  <2>1. threshold * cube <= 255 * cube
    BY <1>2
  <2>2. threshold * cube \in Nat \ {0}
    BY <1>2
  <2>3. QED
    BY <1>2, <1>3, <2>1, <2>2
<1>5. a \in Int /\ -a >= 2295 * ncube
  <2>1. a = (2295 * s) * ncube
    OBVIOUS
  <2>2. s \in Int /\ s <= -1
    OBVIOUS
  <2> HIDE DEF s, ncube, a
  <2>3. \A x \in Int, y \in Nat : x <= -1 => /\ (2295 * x) * y \in Int
                                           /\ -((2295 * x) * y) >= 2295 * y
    <3> SUFFICES ASSUME NEW x \in Int, NEW y \in Nat, x <= -1
                 PROVE  (2295 * x) * y \in Int /\ -((2295 * x) * y) >= 2295 * y
      OBVIOUS
    <3>1. x * y \in Int /\ x * y <= -y
      OBVIOUS
    <3>2. (2295 * x) * y = 2295 * (x * y)
      OBVIOUS
    <3>3. QED
      BY <3>1, <3>2
  <2>4. QED
    BY <1>3, <2>1, <2>2, <2>3
<1> HIDE DEF a, d, ncube
<1>6. -a >= d /\ -a \in Nat /\ a < 0
  BY <1>3, <1>4, <1>5
<1>7. \A x \in Nat, y \in Nat \ {0} : x >= y => x \div y \in Nat /\ x \div y >= 1
  OBVIOUS
<1>8. QED
  BY <1>1, <1>4, <1>6, <1>7 DEF Trunc

LEMMA RedrawFits ==
  ASSUME NEW threshold \in Thresholds, NEW n \in Points, redraw(n, threshold)
  PROVE  ColoursFit'
<1>1. threshold \in 0 .. 255 /\ n \in 0 .. 255
  BY BytesAssumption
<1>2. out'.n = n /\ out'.threshold = threshold
  BY DEF redraw
<1>3. \A x \in 1 .. 255 : x <= x * x
  OBVIOUS
<1>4. threshold * threshold \in Int /\ (threshold = 0 => threshold * threshold = 0)
  BY <1>1
<1>5. CASE n >= threshold * threshold
  <2>1. out'.bytes = Black
    BY <1>1, <1>4, <1>5 DEF redraw
  <2>2. threshold > 0 /\ n <= threshold => n = threshold
    BY <1>1, <1>3, <1>4, <1>5
  <2>3. n = threshold /\ threshold > 0 => Colour(n, threshold) = Black
    BY <1>1, GivenUpIsBlack
  <2>4. ~(n < threshold * threshold)
    BY <1>1, <1>4, <1>5
  <2>5. QED
    BY <1>2, <2>1, <2>2, <2>3, <2>4 DEF ColoursFit
<1>6. CASE n < threshold * threshold
  <2>1. threshold \in 1 .. 255 /\ ~(n >= threshold * threshold)
    BY <1>1, <1>4, <1>6
  <2>2. out'.bytes = [c \in DOMAIN Colour(n, threshold) |-> UChar(Colour(n, threshold)[c])]
    BY <1>6 DEF redraw
  <2>3. CASE n <= threshold
    <3>1. out'.bytes = Colour(n, threshold)
      <4>1. threshold \in Nat \ {0} /\ n \in 0 .. threshold
        BY <1>1, <2>1, <2>3
      <4>2. QED
        BY <2>2, <4>1, ColourIsBytes
    <3>2. n = threshold => Colour(n, threshold) = Black
      BY <2>1, GivenUpIsBlack
    <3>3. ~(threshold < n)
      BY <1>1, <2>3
    <3>4. QED
      BY <1>2, <2>1, <3>1, <3>2, <3>3 DEF ColoursFit
  <2>4. CASE threshold < n
    <3>1. Colour(n, threshold).r \in Int /\ Colour(n, threshold).r < 0
      BY <1>1, <2>1, <2>4, RedIsNegative
    <3>2. "r" \in DOMAIN Colour(n, threshold)
      BY DEF Colour
    <3>3. out'.bytes["r"] = Colour(n, threshold).r % 256
      BY <2>2, <3>2 DEF UChar
    <3>4. Colour(n, threshold).r % 256 >= 0
      BY <3>1
    <3>5. out'.bytes # Colour(n, threshold)
      <4>1. \A i \in Int : i < 0 => i % 256 # i
        OBVIOUS
      <4>2. QED
        BY <3>1, <3>3, <4>1
    <3>6. n # threshold /\ ~(n <= threshold)
      BY <1>1, <2>4
    <3>7. QED
      BY <1>2, <2>1, <3>5, <3>6 DEF ColoursFit
  <2>5. QED
    BY <1>1, <2>3, <2>4
<1>7. QED
  BY <1>1, <1>4, <1>5, <1>6

LEMMA NothingDrawnFits == out = NoOut => ColoursFit
<1>1. Colour(0, 1) = Black
  BY DEF Colour, Black, Trunc
<1>2. QED
  BY <1>1 DEF ColoursFit, NoOut

LEMMA NextColoursFit == ColoursFit /\ [Hw09Next]_hwvars => ColoursFit'
<1> SUFFICES ASSUME ColoursFit, [Hw09Next]_hwvars PROVE ColoursFit'
  OBVIOUS
<1>1. CASE UNCHANGED out
  BY <1>1 DEF ColoursFit
<1>2. CASE xwin_redraw
  <2>1. (out = NoOut)'
    BY <1>2 DEF xwin_redraw, NoOut, Black
  <2>2. QED
    BY <2>1, NothingDrawnFits, PTL
<1>3. ASSUME NEW threshold \in Thresholds, NEW n \in Points, redraw(n, threshold)
      PROVE  ColoursFit'
  BY <1>3, RedrawFits
<1>4. QED
  BY <1>1, <1>2, <1>3 DEF Hw09Next, hwvars, MainRuns, MakeRaw, xwin_init, Pop,
                          xwin_poll_events, Handle, xwin_close, Restore, queue_cleanup

\* Whatever bytes the threshold and the grid hold: up to the threshold the three
\* colours are bytes before they are cut to bytes, a point given up at the
\* threshold is black, as is one from the square of the threshold on, and of the
\* points between the two, which the comparison of line 102 lets in, none is
\* drawn in the colour computed for it.
THEOREM ColoursAreBytes == Hw09Spec => []ColoursFit
<1>1. Hw09Init => ColoursFit
  BY NothingDrawnFits DEF Hw09Init, PictureInit
<1>2. QED
  BY <1>1, NextColoursFit, PTL DEF Hw09Spec
=============================================================================
