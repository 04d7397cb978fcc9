------------------------------ MODULE Counter ------------------------------
(***************************************************************************)
(* The three threads of CV09/main.c: one counts, one shows the count, one  *)
(* reads keys; they share data under one mutex and one condition variable. *)
(*                                                                         *)
(* An action is one critical section, with what its thread does alone      *)
(* before and after it: so the mutex needs no variable of its own.         *)
(***************************************************************************)
EXTENDS Integers

CONSTANTS
  PERIOD_THREAD,      \* the period at the start, 300 in the code
  LOW, HIGH,          \* its limits, 20 and 2000 in the code
  MaxTicks, MaxKeys   \* bounds on the count before quit, and on the keys other than q

ASSUME PeriodAssumption ==
  LOW \in Int /\ HIGH \in Int /\ PERIOD_THREAD \in LOW .. HIGH
ASSUME CountAssumption == MaxTicks \in Nat /\ MaxKeys \in Nat

VARIABLES
  period, counter, quit, is_serial_open,   \* the shared data
  fd,                 \* whether the device is open
  cat, cq,            \* where computeThread is, and its q
  oat,                \* where outputThread is
  iat,                \* where inputThread is
  mat, tty,           \* where main() is, and the mode of the terminal
  keys,               \* the number of keys read
  late                \* history: how often it was counted after quit

data  == <<period, counter, quit, is_serial_open>>
cvars == <<data, fd, cat, cq, oat, iat, mat, tty, keys, late>>

CounterInit ==
  /\ period = PERIOD_THREAD /\ counter = 0 /\ quit = FALSE /\ is_serial_open = FALSE
  /\ fd = "unknown"
  /\ cat = "new" /\ cq = FALSE /\ oat = "new" /\ iat = "new"
  /\ mat = "init" /\ tty = "cooked"
  /\ keys = 0 /\ late = 0

\* pthread_cond_signal and pthread_cond_broadcast: only outputThread ever waits,
\* and a signal nobody waits for is gone.
Signalled == IF oat = "wait" THEN "woken" ELSE oat

-----------------------------------------------------------------------------
(* computeThread *)

CPeriod ==
  /\ cat = "loop"
  /\ cat' = IF cq THEN "gone" ELSE "tick"
  /\ UNCHANGED <<data, fd, cq, oat, iat, mat, tty, keys, late>>

\* Mutant: `q = data->quit' forgotten.
CTickOn ==
  /\ cat = "tick" /\ (counter < MaxTicks \/ (quit /\ late < 2))
  /\ counter' = counter + 1
  /\ late' = late + (IF quit THEN 1 ELSE 0)
  /\ oat' = Signalled
  /\ cat' = "loop"
  /\ UNCHANGED <<period, quit, is_serial_open, fd, cq, iat, mat, tty, keys>>

CTick ==
  /\ cat = "tick" /\ (counter < MaxTicks \/ (quit /\ late < 2))
  /\ counter' = counter + 1
  /\ late' = late + (IF quit THEN 1 ELSE 0)
  /\ oat' = Signalled
  /\ cq' = quit
  /\ cat' = "loop"
  /\ UNCHANGED <<period, quit, is_serial_open, fd, iat, mat, tty, keys>>

-----------------------------------------------------------------------------
(* outputThread *)

\* Mutant: it goes on without the device.
OOpenAnyway ==
  /\ oat = "open"
  /\ fd' \in {"open", "failed"}
  /\ oat' = "opened"
  /\ UNCHANGED <<data, cat, cq, iat, mat, tty, keys, late>>

\* Without the device quit is set ...
OOpen ==
  /\ oat = "open"
  /\ fd' \in {"open", "failed"}
  /\ quit' = (quit \/ fd' = "failed")
  /\ oat' = "opened"
  /\ UNCHANGED <<period, counter, is_serial_open, cat, cq, iat, mat, tty, keys, late>>

\* ... and is_serial_open after it, in either case.
OOpened ==
  /\ oat = "opened"
  /\ is_serial_open' = TRUE
  /\ oat' = "loop"
  /\ UNCHANGED <<period, counter, quit, fd, cat, cq, iat, mat, tty, keys, late>>

\* Nothing is tested before the wait.
OWait ==
  /\ oat = "loop"
  /\ oat' = "wait"
  /\ UNCHANGED <<data, fd, cat, cq, iat, mat, tty, keys, late>>

\* pthread_cond_wait may return without a signal.
OSpurious ==
  /\ oat = "wait"
  /\ oat' = "woken"
  /\ UNCHANGED <<data, fd, cat, cq, iat, mat, tty, keys, late>>

OWoken ==
  /\ oat = "woken"
  /\ oat' = IF quit THEN "close" ELSE "print"
  /\ UNCHANGED <<data, fd, cat, cq, iat, mat, tty, keys, late>>

OPrint ==
  /\ oat = "print"
  /\ oat' = "loop"
  /\ UNCHANGED <<data, fd, cat, cq, iat, mat, tty, keys, late>>

\* The device is closed if it was opened.
serial_close == fd' = "closed"
OClose ==
  /\ oat = "close"
  /\ IF fd = "failed" THEN fd' = fd ELSE serial_close
  /\ oat' = "gone"
  /\ UNCHANGED <<data, cat, cq, iat, mat, tty, keys, late>>

-----------------------------------------------------------------------------
(* inputThread *)

\* It waits for the device without pausing.
ISpin ==
  /\ iat = "spin"
  /\ iat' = IF quit THEN "gone" ELSE IF is_serial_open THEN "getchar" ELSE "spin"
  /\ UNCHANGED <<data, fd, cat, cq, oat, mat, tty, keys, late>>

\* Mutant: its own q is not set.
IQuitReadsOn ==
  /\ iat = "getchar"
  /\ quit' = TRUE
  /\ iat' = "getchar"
  /\ UNCHANGED <<period, counter, is_serial_open, fd, cat, cq, oat, mat, tty, keys, late>>

\* q: nobody is told; computeThread will see it.
IQuit ==
  /\ iat = "getchar"
  /\ quit' = TRUE
  /\ iat' = "gone"
  /\ UNCHANGED <<period, counter, is_serial_open, fd, cat, cq, oat, mat, tty, keys, late>>

\* Mutant: the limits are not kept.
IKeyFree(key) ==
  /\ iat = "getchar" /\ keys < MaxKeys
  /\ keys' = keys + 1
  /\ period' = CASE key = "p" -> period + 5 [] key = "m" -> period - 5 [] OTHER -> period
  /\ oat' = IF period' # period THEN Signalled ELSE oat
  /\ UNCHANGED <<counter, quit, is_serial_open, fd, cat, cq, iat, mat, tty, late>>

IKey(key) ==
  /\ iat = "getchar" /\ keys < MaxKeys
  /\ keys' = keys + 1
  /\ period' = CASE key = "p" -> IF period + 5 > HIGH THEN HIGH ELSE period + 5
                 [] key = "m" -> IF period - 5 < LOW THEN LOW ELSE period - 5
                 [] OTHER -> period
  /\ oat' = IF period' # period THEN Signalled ELSE oat
  /\ UNCHANGED <<counter, quit, is_serial_open, fd, cat, cq, iat, mat, tty, late>>

-----------------------------------------------------------------------------
(* main() *)

\* call_termios(0), and call_termios(1).
MRaw ==
  /\ mat = "init"
  /\ mat' = "COMPUTE" /\ tty' = "raw"
  /\ UNCHANGED <<data, fd, cat, cq, oat, iat, keys, late>>

MRestore ==
  /\ mat = "reset"
  /\ mat' = "exited" /\ tty' = "cooked"
  /\ UNCHANGED <<data, fd, cat, cq, oat, iat, keys, late>>

\* Each thread runs from its creation on.
MCreate ==
  /\ \/ mat = "COMPUTE" /\ mat' = "OUTPUT" /\ cat' = "loop" /\ UNCHANGED <<oat, iat>>
     \/ mat = "OUTPUT" /\ mat' = "INPUT" /\ oat' = "open" /\ UNCHANGED <<cat, iat>>
     \/ mat = "INPUT" /\ mat' = "join" /\ iat' = "spin" /\ UNCHANGED <<cat, oat>>
  /\ UNCHANGED <<data, fd, cq, tty, keys, late>>

MJoin ==
  /\ mat = "join" /\ {cat, oat, iat} = {"gone"}
  /\ mat' = "reset"
  /\ UNCHANGED <<data, fd, cat, cq, oat, iat, tty, keys, late>>

-----------------------------------------------------------------------------
ComputeRuns == CPeriod \/ CTick
OutputRuns  == OOpen \/ OOpened \/ OWait \/ OWoken \/ OPrint \/ OClose
MainRuns    == MRaw \/ MCreate \/ MJoin \/ MRestore
CounterNext == \/ ComputeRuns \/ OutputRuns \/ OSpurious
               \/ ISpin \/ IQuit \/ (\E key \in {"p", "m", "other"} : IKey(key))
               \/ MainRuns

\* Threads that can run do; nobody has to press a key, and nothing but a
\* signal has to end a wait.
CounterSpec == /\ CounterInit /\ [][CounterNext]_cvars
               /\ WF_cvars(ComputeRuns) /\ WF_cvars(OutputRuns) /\ WF_cvars(ISpin) /\ WF_cvars(MainRuns)

-----------------------------------------------------------------------------
\* Every variable keeps its type, and the period its limits; the program ends
\* with the terminal as it was and the device closed.
CounterTypeOK ==
  /\ period \in LOW .. HIGH /\ counter \in Nat /\ keys \in 0 .. MaxKeys
  /\ quit \in BOOLEAN /\ is_serial_open \in BOOLEAN /\ cq \in BOOLEAN
  /\ fd \in {"unknown", "open", "failed", "closed"}
  /\ cat \in {"new", "loop", "tick", "gone"} /\ iat \in {"new", "spin", "getchar", "gone"}
  /\ oat \in {"new", "open", "opened", "loop", "wait", "woken", "print", "close", "gone"}
  /\ mat \in {"init", "COMPUTE", "OUTPUT", "INPUT", "join", "reset", "exited"} /\ tty \in {"cooked", "raw"}
  /\ late \in Nat
  /\ mat = "exited" => tty = "cooked" /\ fd # "open"

\* Without the device the program ends by itself: no key is waited for that
\* nobody has a reason to press.
NoKeyAwaitedInVain == fd = "failed" => iat # "getchar"

\* quit is read where it is counted: after it, it is counted once more.
OneTickAfterQuit == late <= 1

\* After quit the program ends, but for one way to hang: outputThread was not
\* waiting when computeThread gave its last signal, and waits for another.
MissedLastSignal == cat = "gone" /\ oat = "wait"
OnlyMissedSignalHangs == quit ~> mat = "exited" \/ MissedLastSignal
=============================================================================
