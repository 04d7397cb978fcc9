--------------------------- MODULE CounterProofs ---------------------------
(***************************************************************************)
(* What holds of the three threads of CV09/main.c for any period, any keys *)
(* and any number of ticks.                                                *)
(***************************************************************************)
EXTENDS Counter, TLAPS

\* Once the threads are joined nothing opens the device again.
JoinInv == /\ mat \in {"reset", "exited"} => cat = "gone" /\ oat = "gone" /\ iat = "gone"
           /\ oat = "gone" => fd # "open"

TypeInv == CounterTypeOK /\ JoinInv

LEMMA InitTypeInv == CounterInit => TypeInv
<1> SUFFICES ASSUME CounterInit PROVE TypeInv
  OBVIOUS
<1>1. keys \in 0 .. MaxKeys /\ period \in LOW .. HIGH /\ counter \in Nat /\ late \in Nat
  BY PeriodAssumption, CountAssumption DEF CounterInit
<1>2. QED
  BY <1>1 DEF CounterInit, CounterTypeOK, JoinInv, TypeInv

LEMMA NextTypeInv == TypeInv /\ [CounterNext]_cvars => TypeInv'
<1> SUFFICES ASSUME TypeInv, [CounterNext]_cvars PROVE TypeInv'
  OBVIOUS
<1> USE DEF TypeInv, CounterTypeOK, JoinInv
<1>1. /\ Signalled \in {"new", "open", "opened", "loop", "wait", "woken", "print", "close", "gone"}
      /\ Signalled = "gone" <=> oat = "gone"
  BY DEF Signalled
<1>2. CASE CPeriod
  BY <1>2 DEF CPeriod, data
<1>3. CASE CTick
  BY <1>1, <1>3 DEF CTick
<1>4. CASE OOpen
  BY <1>4 DEF OOpen
<1>5. CASE OOpened
  BY <1>5 DEF OOpened
<1>6. CASE OWait \/ OSpurious \/ OWoken \/ OPrint
  BY <1>6 DEF OWait, OSpurious, OWoken, OPrint, data
<1>7. CASE OClose
  BY <1>7 DEF OClose, serial_close, data
<1>8. CASE ISpin
  BY <1>8 DEF ISpin, data
<1>9. CASE IQuit
  BY <1>9 DEF IQuit
<1>10. ASSUME NEW key \in {"p", "m", "other"}, IKey(key) PROVE TypeInv'
  <2>1. keys' \in 0 .. MaxKeys
    BY <1>10, CountAssumption DEF IKey
  <2>2. period' \in LOW .. HIGH
    BY <1>10, PeriodAssumption DEF IKey
  <2>3. QED
    BY <1>1, <1>10, <2>1, <2>2 DEF IKey
<1>11. CASE MRaw \/ MRestore
  BY <1>11 DEF MRaw, MRestore, data
<1>12. CASE MCreate
  BY <1>12 DEF MCreate, data
<1>13. CASE MJoin
  <2>1. cat = "gone" /\ oat = "gone" /\ iat = "gone"
    BY <1>13 DEF MJoin
  <2>2. QED
    BY <1>13, <2>1 DEF MJoin, data
<1>14. CASE UNCHANGED cvars
  BY <1>14 DEF cvars, data
<1>15. QED
  BY <1>2, <1>3, <1>4, <1>5, <1>6, <1>7, <1>8, <1>9, <1>10, <1>11, <1>12, <1>13, <1>14
  DEF CounterNext, ComputeRuns, OutputRuns, MainRuns

LEMMA TypeCorrect == CounterSpec => []CounterTypeOK
<1>1. TypeInv => CounterTypeOK
  BY DEF TypeInv
<1>2. QED
  BY <1>1, InitTypeInv, NextTypeInv, PTL DEF CounterSpec

\* The period stays within its limits, whatever keys are pressed, and the
\* terminal and the device are as they were when the program ends.
THEOREM PeriodWithinLimits == CounterSpec => []CounterTypeOK
  BY TypeCorrect

-----------------------------------------------------------------------------
\* inputThread leaves its loop only when the device has been tried, and quit is
\* set before it can.
OpenInv ==
  /\ oat \in {"new", "open"} <=> fd = "unknown"
  /\ is_serial_open => oat \notin {"new", "open", "opened"}
  /\ iat = "getchar" => is_serial_open /\ fd \in {"open", "closed"}
  /\ mat \in {"init", "COMPUTE", "OUTPUT"} <=> oat = "new"
  /\ fd = "failed" => quit

LEMMA NextOpenInv == CounterTypeOK /\ OpenInv /\ [CounterNext]_cvars => OpenInv'
<1> SUFFICES ASSUME CounterTypeOK, OpenInv, [CounterNext]_cvars PROVE OpenInv'
  OBVIOUS
<1> USE DEF OpenInv
<1>1. (Signalled = "open" <=> oat = "open") /\ (Signalled = "new" <=> oat = "new")
  BY DEF Signalled
<1>2. Signalled = "opened" <=> oat = "opened"
  BY DEF Signalled
<1>3. CASE \/ CPeriod \/ OWait \/ OSpurious \/ OWoken \/ OPrint \/ OClose
          \/ MRaw \/ MCreate \/ MJoin \/ MRestore \/ UNCHANGED cvars
  BY <1>3 DEF CPeriod, OWait, OSpurious, OWoken, OPrint, OClose, serial_close,
              MRaw, MCreate, MJoin, MRestore, cvars, data
<1>4. CASE CTick
  BY <1>1, <1>2, <1>4 DEF CTick
<1>5. CASE OOpen
  BY <1>5 DEF OOpen
<1>6. CASE OOpened
  BY <1>6 DEF OOpened
<1>7. CASE ISpin
  BY <1>7 DEF ISpin, data, CounterTypeOK
<1>8. CASE IQuit
  BY <1>8 DEF IQuit
<1>9. ASSUME NEW key \in {"p", "m", "other"}, IKey(key) PROVE OpenInv'
  BY <1>1, <1>2, <1>9 DEF IKey
<1>10. QED
  BY <1>3, <1>4, <1>5, <1>6, <1>7, <1>8, <1>9 DEF CounterNext, ComputeRuns, OutputRuns, MainRuns

\* Without the device the program does not wait for a key.
THEOREM NoDeviceNoKey == CounterSpec => []NoKeyAwaitedInVain
<1>1. CounterInit => OpenInv
  BY DEF CounterInit, OpenInv
<1>2. CounterSpec => []OpenInv
  BY <1>1, TypeCorrect, NextOpenInv, PTL DEF CounterSpec
<1>3. OpenInv => NoKeyAwaitedInVain
  BY DEF OpenInv, NoKeyAwaitedInVain
<1>4. QED
  BY <1>2, <1>3, PTL

-----------------------------------------------------------------------------
\* The tick that finds quit set is the last.
LateInv ==
  /\ late # 0 => quit
  /\ cat = "tick" => ~cq
  /\ late = IF cq THEN 1 ELSE 0
  /\ cq => quit

LEMMA NextLateInv == CounterTypeOK /\ LateInv /\ [CounterNext]_cvars => LateInv'
<1> SUFFICES ASSUME CounterTypeOK, LateInv, [CounterNext]_cvars PROVE LateInv'
  OBVIOUS
<1> USE DEF LateInv, CounterTypeOK
<1>1. CASE CPeriod
  BY <1>1 DEF CPeriod, data
<1>2. CASE CTick
  BY <1>2 DEF CTick
<1>3. CASE OOpen
  BY <1>3 DEF OOpen
<1>4. CASE IQuit
  BY <1>4 DEF IQuit
<1>5. CASE OOpened \/ OWait \/ OSpurious \/ OWoken \/ OPrint \/ OClose \/ ISpin
          \/ MRaw \/ MCreate \/ MJoin \/ MRestore \/ UNCHANGED cvars
  BY <1>5 DEF OOpened, OWait, OSpurious, OWoken, OPrint, OClose, serial_close, ISpin,
              MRaw, MCreate, MJoin, MRestore, cvars, data
<1>6. ASSUME NEW key \in {"p", "m", "other"}, IKey(key) PROVE LateInv'
  BY <1>6 DEF IKey
<1>7. QED
  BY <1>1, <1>2, <1>3, <1>4, <1>5, <1>6 DEF CounterNext, ComputeRuns, OutputRuns, MainRuns

\* After quit it is counted at most once more.
THEOREM LastTick == CounterSpec => []OneTickAfterQuit
<1>1. CounterInit => LateInv
  BY DEF CounterInit, LateInv
<1>2. CounterSpec => []LateInv
  BY <1>1, TypeCorrect, NextLateInv, PTL DEF CounterSpec
<1>3. LateInv => OneTickAfterQuit
  BY DEF LateInv, OneTickAfterQuit
<1>4. QED
  BY <1>2, <1>3, PTL
=============================================================================
