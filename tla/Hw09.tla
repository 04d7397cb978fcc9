-------------------------------- MODULE Hw09 --------------------------------
(***************************************************************************)
(* The earlier form of the program: main() of prga-hw09-main.c, with the   *)
(* event queue of event_queue.c and the window of xwin_sdl.c; and beside   *)
(* it the pipes of prgsem.c.  What these files leave to be done is         *)
(* external: the threads that push events, what is done with an event, who *)
(* calls set_quit and queue_cleanup.                                       *)
(***************************************************************************)
EXTENDS EventQueue, Pipes, Picture

CONSTANT MaxPushes   \* bound on the events pushed
ASSUME MaxPushesAssumption == MaxPushes \in Nat

VARIABLES
  mpc,      \* where main() is
  tty,      \* the mode of the terminal
  window,   \* whether there is a window
  pushes    \* the number of events pushed
mainvars == <<mpc, tty, window>>
hwvars   == <<eqvars, pipevars, out, mainvars, pushes>>

Hw09Init == /\ QueueInit /\ PipesInit /\ PictureInit
            /\ mpc = "init" /\ tty = "cooked" /\ window = "none" /\ pushes = 0

\* main() goes from one place to another.
Goes(from, to) == mpc = from /\ mpc' = to /\ UNCHANGED <<pipevars, pushes>>

\* Mutant: the saved settings are not put back.
RestoreNothing == Goes("restore", "end") /\ UNCHANGED <<tty, window, eqvars, out>>

\* call_termios(0), and call_termios(1).
MakeRaw == Goes("init", "window") /\ tty' = "raw" /\ UNCHANGED <<window, eqvars, out>>
Restore == Goes("restore", "end") /\ tty' = "cooked" /\ UNCHANGED <<window, eqvars, out>>

\* The assertions on the window and the icon end the process.
xwin_init == /\ \/ Goes("window", "pop") /\ window' = "shown"
                \/ Goes("window", "aborted") /\ window' \in {"none", "shown"}
             /\ UNCHANGED <<tty, eqvars, out>>

Pop == /\ \/ Goes("pop", "pop") /\ PopSleep
          \/ Goes("pop", "poll") /\ queue_pop
       /\ UNCHANGED <<tty, window, out>>

xwin_poll_events == Goes("poll", "handle") /\ UNCHANGED <<tty, window, eqvars, out>>

\* Whatever is done with the event: the picture may be drawn, or quit be set.
Handle == /\ \/ /\ Goes("handle", "draw")
                /\ \E threshold \in Thresholds : \E n \in Points : redraw(n, threshold)
             \/ Goes("draw", "pop") /\ xwin_redraw
             \/ (Goes("handle", "pop") \/ Goes("handle", "close")) /\ UNCHANGED out
          /\ UNCHANGED <<tty, window, eqvars>>

xwin_close == Goes("close", "restore") /\ window' = "none" /\ UNCHANGED <<tty, eqvars, out>>

\* Each round of its loop pops an event.
queue_cleanup == /\ Goes("end", "end") /\ ~Empty /\ queue_pop
                 /\ UNCHANGED <<tty, window, out>>

MainRuns == MakeRaw \/ xwin_init \/ Pop \/ xwin_poll_events \/ Handle \/ xwin_close \/ Restore \/ queue_cleanup

\* At any time, wherever main() is.
Calls == \/ \E t \in Pushers, e \in Pushed :
              PushCall(t, e) /\ pushes < MaxPushes /\ pushes' = pushes + 1
         \/ set_quit /\ UNCHANGED pushes
Threads == \/ \E t \in Pushers : PushSleep(t) \/ queue_push(t)
           \/ Spurious
Hw09Next == \/ MainRuns
            \/ Calls /\ UNCHANGED <<mainvars, out, pipevars>>
            \/ Threads /\ UNCHANGED <<mainvars, out, pipevars, pushes>>
            \/ PipesNext /\ UNCHANGED <<mainvars, out, eqvars, pushes>>

Hw09Spec == Hw09Init /\ [][Hw09Next]_hwvars /\ PipesFairness

-----------------------------------------------------------------------------
\* Every variable keeps its type; events are handled with the window there,
\* and main() ends with the window gone and the terminal as it was.
Hw09TypeOK ==
  /\ QueueTypeOK /\ pushes \in 0 .. MaxPushes
  /\ opened \subseteq MainEnds \cup PeerEnds
  /\ ppc \in MainEnds \cup {"opened", "open", "closed", "aborted"}
  /\ mpc \in {"init", "window", "pop", "poll", "handle", "draw", "close", "restore", "end", "aborted"}
  /\ tty \in {"cooked", "raw"} /\ window \in {"none", "shown"}
  /\ mpc \in {"pop", "poll", "handle", "draw", "close"} => window = "shown"
  /\ mpc = "end" => window = "none" /\ tty = "cooked"
=============================================================================
