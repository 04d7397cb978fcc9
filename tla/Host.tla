-------------------------------- MODULE Host --------------------------------
(***************************************************************************)
(* The host program: main() of run.c, keyboard_thread of keyboard.c,       *)
(* main_thread of main.c, tx_thread of tx.c, and the queue between them.   *)
(* The keyboard thread is the queue's pusher; main_thread is its popper,   *)
(* and after the joins main() is.                                          *)
(*                                                                         *)
(* What main_thread receives over the serial line is the subject of the    *)
(* module HostRx: here one step stands for one round of it.                *)
(***************************************************************************)
EXTENDS OwnQueue

CONSTANT Keys   \* the keys typed, other than q, each a character

Commands == {"GET_VERSION", "SET_COMPUTE", "ABORT", "COMPUTE"}
Nothing == "nothing"
Garbled == "garbled"
Command(key) == CASE key = "g"        -> "GET_VERSION"
                  [] key = "s"        -> "SET_COMPUTE"
                  [] key \in {"l", "a"} -> "ABORT"
                  [] key \in {"r", "1"} -> "COMPUTE"
                  [] OTHER            -> Nothing

VARIABLES
  quit,   \* event_queue.quit
  rst,    \* where main() is, or how the process ended
  kst,    \* where keyboard_thread is
  tst,    \* where main_thread is
  xst,    \* where tx_thread is
  tty,    \* the mode of the terminal: as found, raw, cooked, or kept by an stty that failed
  reads,  \* whether a read of the serial port ends when no byte comes
  typed,  \* history: the keys of the events, typed[n] of event n
  sent    \* history: what was written to the serial line, for which event,
          \* and whether quit was set by then

threads == <<kst, tst, xst>>
hvars   == <<quit, rst, threads, tty, reads, typed, sent>>

HostInit ==
  /\ Init
  /\ quit = FALSE
  /\ rst = "create"
  /\ kst = "unborn" /\ tst = "unborn" /\ xst = "unborn"
  /\ tty = "found" /\ reads = "end"
  /\ typed = <<>> /\ sent = <<>>

QueueIdle == UNCHANGED <<shared, mtx, pushing, popping, uaf, crashed>>

-----------------------------------------------------------------------------
(* main() *)

\* The operands of the sum of the pthread_create calls are evaluated in any
\* order, and the threads that exist run meanwhile.
Born(st) == st = "unborn" /\ st' \in {"start", "failed"}
RCreate ==
  /\ rst = "create"
  /\ \/ Born(kst) /\ UNCHANGED <<tst, xst>>
     \/ Born(tst) /\ UNCHANGED <<kst, xst>>
     \/ Born(xst) /\ UNCHANGED <<kst, tst>>
  /\ QueueIdle /\ UNCHANGED <<quit, rst, tty, reads, typed, sent>>

\* When a thread was not created, `return 0' ends the others as they are.
RCreated ==
  /\ rst = "create"
  /\ \A st \in {kst, tst, xst} : st # "unborn"
  /\ rst' = IF "failed" \in {kst, tst, xst} THEN "failed" ELSE "join"
  /\ QueueIdle /\ UNCHANGED <<quit, threads, tty, reads, typed, sent>>

\* Mutant: only the first thread is joined.
RJoinFirst ==
  /\ rst = "join"
  /\ tst = "gone"
  /\ rst' = "drain"
  /\ QueueIdle /\ UNCHANGED <<quit, threads, tty, reads, typed, sent>>

\* The three joins; the mutex destroyed then is not used again.
RJoin ==
  /\ rst = "join"
  /\ {kst, tst, xst} = {"gone"}
  /\ rst' = "drain"
  /\ QueueIdle /\ UNCHANGED <<quit, threads, tty, reads, typed, sent>>

\* queue_cleanup frees what its queue_pop returns, and main() returns.
RDrain ==
  /\ rst = "drain"
  /\ DrainTest \/ PopStep \/ PopFree
  /\ UNCHANGED hvars

\* Mutant: `while (size > 1)'.
RExitEarly ==
  /\ rst = "drain" /\ mpc = "idle" /\ size <= 1
  /\ rst' = "exited"
  /\ QueueIdle /\ UNCHANGED <<quit, threads, tty, reads, typed, sent>>

RExit ==
  /\ rst = "drain" /\ mpc = "idle" /\ size <= 0
  /\ rst' = "exited"
  /\ QueueIdle /\ UNCHANGED <<quit, threads, tty, reads, typed, sent>>

-----------------------------------------------------------------------------
(* keyboard_thread *)

\* set_raw(true): nobody looks at whether the stty it runs succeeded.
KStart ==
  /\ kst = "start"
  /\ tty' \in {"raw", "found"}
  /\ kst' = "loop"
  /\ QueueIdle /\ UNCHANGED <<quit, rst, tst, xst, reads, typed, sent>>

\* The test of quit, which only this thread writes, and the unlock before
\* getchar, of a mutex nobody has locked the first time round.
KLoop ==
  /\ kst = "loop" /\ ~quit
  /\ ClientUnlock /\ UNCHANGED crashed
  /\ kst' = "getchar"
  /\ UNCHANGED <<quit, rst, tst, xst, tty, reads, typed, sent>>

\* Mutant: the unlock after `quit = true' forgotten.
KQuitKeyLocked ==
  /\ kst = "getchar"
  /\ mtx = NoOwner
  /\ mtx' = Pusher
  /\ quit' = TRUE
  /\ kst' = "relock"
  /\ UNCHANGED <<shared, pushing, popping, uaf, crashed>>
  /\ UNCHANGED <<rst, tst, xst, tty, reads, typed, sent>>

\* quit is set between a lock and an unlock.
KQuitKey ==
  /\ kst = "getchar"
  /\ mtx = NoOwner
  /\ quit' = TRUE
  /\ kst' = "relock"
  /\ QueueIdle /\ UNCHANGED <<rst, tst, xst, tty, reads, typed, sent>>

KKey(key) ==
  /\ kst = "getchar"
  /\ PushEnter /\ UNCHANGED crashed
  /\ typed' = Append(typed, key)
  /\ kst' = "push"
  /\ UNCHANGED <<quit, rst, tst, xst, tty, reads, sent>>

KPush ==
  /\ kst = "push"
  /\ PushStep /\ UNCHANGED crashed
  /\ kst' = IF kpc' = "idle" THEN "relock" ELSE "push"
  /\ UNCHANGED <<quit, rst, tst, xst, tty, reads, typed, sent>>

KRelock ==
  /\ kst = "relock"
  /\ ClientLock /\ UNCHANGED crashed
  /\ kst' = "loop"
  /\ UNCHANGED <<quit, rst, tst, xst, tty, reads, typed, sent>>

\* set_raw(false), whose stty may fail as well; the thread leaves with the mutex
\* locked.
KExit ==
  /\ kst = "loop" /\ quit
  /\ tty' \in {"cooked", "kept"}
  /\ PusherExit /\ UNCHANGED crashed
  /\ kst' = "gone"
  /\ UNCHANGED <<quit, rst, tst, xst, reads, typed, sent>>

-----------------------------------------------------------------------------
(* main_thread and tx_thread *)

\* open fails when no board is plugged in.  What the set-up of the port, whose
\* result nobody looks at, makes of the reads is the subject of the module Port.
MOpen ==
  /\ tst = "start"
  /\ \/ tst' = "test" /\ reads' \in {"end", "block"}
     \/ tst' = "gone" /\ reads' = reads
  /\ QueueIdle /\ UNCHANGED <<quit, rst, kst, xst, tty, typed, sent>>

\* quit is read without the lock.
MTest ==
  /\ tst = "test"
  /\ tst' = IF quit THEN "gone" ELSE "peek"
  /\ QueueIdle /\ UNCHANGED <<quit, rst, kst, xst, tty, reads, typed, sent>>

\* Mutant: `size > 1'.
MPeekTwo ==
  /\ tst = "peek"
  /\ \/ size > 1 /\ PeekSize /\ tst' = "pop"
     \/ size <= 1 /\ tst' = "read" /\ QueueIdle
  /\ UNCHANGED <<quit, rst, kst, xst, tty, reads, typed, sent>>

MPeek ==
  /\ tst = "peek"
  /\ \/ PeekSize /\ tst' = "pop"
     \/ size <= 0 /\ tst' = "read" /\ QueueIdle
  /\ UNCHANGED <<quit, rst, kst, xst, tty, reads, typed, sent>>

MPop ==
  /\ tst = "pop"
  /\ PopStep
  /\ UNCHANGED hvars

\* Mutant: correct is never cleared.
MDispatchAll ==
  /\ tst = "pop"
  /\ PopFree
  /\ tst' = IF mret # NULL THEN "send" ELSE "read"
  /\ UNCHANGED <<quit, rst, kst, xst, tty, reads, typed, sent>>

\* `switch (ev->param)' and `free(ev)'.
MDispatch ==
  /\ tst = "pop"
  /\ PopFree
  /\ tst' = IF mret # NULL /\ Command(typed[mret]) # Nothing THEN "send" ELSE "read"
  /\ UNCHANGED <<quit, rst, kst, xst, tty, reads, typed, sent>>

\* What send_message may write for an event.  The length of `uint8_t
\* msg_buf[len]' is never set: the buffer may serve, or overlap what the calls
\* need.
send_message(event) == {Command(typed[event]), Garbled}

\* Mutant: the last key typed is answered.
MSendLatest ==
  /\ tst = "send"
  /\ \/ /\ \E bytes \in send_message(alloc) :
             sent' = Append(sent, [event |-> mret, bytes |-> bytes, late |-> quit])
        /\ tst' = "read"
        /\ rst' = rst
     \/ rst' = "killed" /\ UNCHANGED <<tst, sent>>
  /\ QueueIdle /\ UNCHANGED <<quit, kst, xst, tty, reads, typed>>

\* The process may also die of that length.
MSend ==
  /\ tst = "send"
  /\ \/ /\ \E bytes \in send_message(mret) :
             sent' = Append(sent, [event |-> mret, bytes |-> bytes, late |-> quit])
        /\ tst' = "read"
        /\ rst' = rst
     \/ rst' = "killed" /\ UNCHANGED <<tst, sent>>
  /\ QueueIdle /\ UNCHANGED <<quit, kst, xst, tty, reads, typed>>

\* Mutant: the queue is emptied before quit is tested again.
MRoundLoops ==
  /\ tst = "read"
  /\ tst' = IF size > 0 THEN "peek" ELSE "test"
  /\ QueueIdle /\ UNCHANGED <<quit, rst, kst, xst, tty, reads, typed, sent>>

\* A round of receiving.  The process may die of the length of an unknown
\* message, which is not set either.
MRound ==
  /\ tst = "read"
  /\ \/ tst' = "test" /\ rst' = rst
     \/ tst' = tst /\ rst' = "killed"
  /\ QueueIdle /\ UNCHANGED <<quit, kst, xst, tty, reads, typed, sent>>

\* Every wait in it has a time-out, or the first one ends with a byte only.
MRead     == reads = "end" /\ MRound
MReadByte == reads = "block" /\ MRound

XReturn ==
  /\ xst = "start"
  /\ xst' = "gone"
  /\ QueueIdle /\ UNCHANGED <<quit, rst, kst, tst, tty, reads, typed, sent>>

-----------------------------------------------------------------------------
Ended == crashed \/ rst \in {"exited", "failed", "killed"}

MainNext     == RCreate \/ RCreated \/ RJoin \/ RDrain \/ RExit
KeyboardRuns == KStart \/ KLoop \/ KPush \/ KRelock \/ KExit
KeyTyped     == KQuitKey \/ \E key \in Keys : KKey(key)
ThreadNext   == MOpen \/ MTest \/ MPeek \/ MPop \/ MDispatch \/ MSend \/ MRead

HostStep(A) == ~Ended /\ A /\ NoteRace
HostNext == HostStep(MainNext \/ KeyboardRuns \/ KeyTyped \/ ThreadNext \/ MReadByte \/ XReturn)

\* The scheduler runs every thread that can run.  Nothing makes the user type,
\* or the board send.
HostFairness ==
  /\ WF_<<qvars, hvars>>(HostStep(MainNext))
  /\ WF_<<qvars, hvars>>(HostStep(KeyboardRuns))
  /\ WF_<<qvars, hvars>>(HostStep(ThreadNext))
  /\ WF_<<qvars, hvars>>(HostStep(XReturn))

HostSpec     == HostInit /\ [][HostNext]_<<qvars, hvars>>
FairHostSpec == HostSpec /\ HostFairness

-----------------------------------------------------------------------------
\* Every variable keeps its type.
HostTypeOK ==
  /\ quit \in BOOLEAN
  /\ rst \in {"create", "join", "drain", "exited", "failed", "killed"}
  /\ kst \in {"unborn", "failed", "start", "loop", "getchar", "push", "relock", "gone"}
  /\ tst \in {"unborn", "failed", "start", "test", "peek", "pop", "send", "read", "gone"}
  /\ xst \in {"unborn", "failed", "start", "gone"}
  /\ tty \in {"found", "raw", "cooked", "kept"} /\ reads \in {"end", "block"}
  /\ typed \in Seq(Keys) /\ Len(typed) = alloc
  /\ sent \in Seq([event : Node, bytes : Commands \cup {Garbled}, late : BOOLEAN])

\* The commands on the wire follow the keys: each answers one key that asks for
\* it, in the order typed, and as long as no push and pop overlap no such key
\* is skipped by a later one.
CommandsFollowKeys ==
  /\ \A i, j \in 1 .. Len(sent) : i < j => sent[i].event < sent[j].event
  /\ \A i \in 1 .. Len(sent) : sent[i].bytes \in {Command(typed[sent[i].event]), Garbled}
  /\ ~raced => \A i \in 1 .. Len(sent) : \A n \in 1 .. sent[i].event :
       Command(typed[n]) = Nothing \/ \E j \in 1 .. i : sent[j].event = n

\* main_thread's unlocked test of quit may be stale by one round: after q, at
\* most one more command goes out.
OneCommandAfterQuit == \A i \in 1 .. Len(sent) - 1 : ~sent[i].late

\* When main() returns keyboard_thread has made the terminal cooked again, or
\* the stty it runs to do so has failed, and unless a push and a pop overlapped
\* every event has been freed.
CleanExit ==
  rst = "exited" => /\ tty \in {"cooked", "kept"}
                    /\ ~raced => freed = 1 .. alloc

\* The threads use the queue as own_queue.c expects: one pusher, one popper at
\* a time, and main() drains it when the pusher has gone.
QueueUsedAsMeant == Spec

\* After q the program ends, with a keyboard thread that leaves the mutex
\* locked and a main_thread that may be anywhere in its loop, unless the port
\* was left in a state in which a silent board keeps main_thread from looking.
QuitEndsProgram == quit ~> Ended \/ reads = "block"

\* While main_thread serves the line, every event is handled in the end, unless
\* a race lost it, q came first, the process died or a silent board blocks it.
Serving == tst \notin {"unborn", "start", "failed", "gone"} /\ reads = "end" /\ ~quit /\ ~Ended
KeysHandled == \A n \in Node : alloc >= n /\ Serving ~> n \in freed \/ raced \/ ~Serving
=============================================================================
