-------------------------------- MODULE Port --------------------------------
(***************************************************************************)
(* Setting up the serial port, in the three ways the code has: main_thread *)
(* of main.c with set_interface_attribs and set_blocking, serial_open of   *)
(* prg_serial_nonblock.c, and serial_open of CV09/prg_serial.c.  Any call  *)
(* may fail.  The driver keeps the settings of a port that is closed, so   *)
(* each of the three finds what an earlier user left.                      *)
(*                                                                         *)
(* Of the settings those are kept that decide what a read returns: whether *)
(* a carriage return is read as a newline (ICRNL), whether a read waits    *)
(* for the end of a line (ICANON), and VMIN and VTIME.                     *)
(***************************************************************************)
EXTENDS Naturals, Sequences

VARIABLES
  user,    \* who sets the port up
  calls,   \* how many calls it has made
  at,      \* how far it has come
  openOK,  \* no call that decides has failed
  tty      \* the settings of the port
pvars == <<user, calls, at, openOK, tty>>

Settings == [icrnl : BOOLEAN, icanon : BOOLEAN, vmin : Nat, vtime : Nat]
Cooked == [icrnl |-> TRUE, icanon |-> TRUE, vmin |-> 1, vtime |-> 0]
Raw(vmin, vtime) == [icrnl |-> FALSE, icanon |-> FALSE, vmin |-> vmin, vtime |-> vtime]

Users == {"main_thread", "serial_open", "CV09"}
\* What the two serial_open want.
Term == IF user = "CV09" THEN Raw(0, 2) ELSE Raw(1, 0)

\* The settings found: a terminal's, those the two serial_open leave, and what
\* main_thread makes of either, with set_interface_attribs failing or not.
LeftTimed(icrnl, icanon) == [icrnl |-> icrnl, icanon |-> icanon, vmin |-> 0, vtime |-> 5]
Found == {Cooked, Raw(1, 0), Raw(0, 2),
          LeftTimed(TRUE, TRUE), LeftTimed(TRUE, FALSE), LeftTimed(FALSE, FALSE)}

PortInit == /\ user \in Users /\ calls = 0 /\ at = "setup" /\ openOK = TRUE
            /\ tty \in Found

\* The calls of serial_open whose result is looked at.
Calls == <<"open", "tcgetattr", "tcsetattr", "F_GETFL", "tcsetattr", "F_GETFL">>
Call(name) == calls < Len(Calls) /\ Calls[calls + 1] = name

-----------------------------------------------------------------------------
\* main_thread's open; then the results of the other two are not looked at.
Opened(works) ==
  /\ user = "main_thread" /\ at = "setup"
  /\ at' = IF works THEN "opened" ELSE "refused"
  /\ UNCHANGED <<user, calls, openOK, tty>>

\* Of the flags for the input only IGNBRK, IXON, IXOFF and IXANY are cleared.
set_interface_attribs(works) ==
  /\ at = "opened"
  /\ tty' = IF works THEN [tty EXCEPT !.icanon = FALSE, !.vmin = 0, !.vtime = 5] ELSE tty
  /\ openOK' = works
  /\ at' = "attribs"
  /\ UNCHANGED <<user, calls>>

set_blocking(works) ==
  /\ at = "attribs"
  /\ tty' = IF works THEN [tty EXCEPT !.vmin = 0, !.vtime = 5] ELSE tty
  /\ at' = "ready"
  /\ UNCHANGED <<user, calls, openOK>>

\* prg_serial_nonblock.c: an assertion for every call.
AssertCall(works) ==
  /\ user = "serial_open" /\ at = "setup" /\ calls < Len(Calls)
  /\ calls' = calls + 1
  /\ tty' = IF works /\ Call("tcsetattr") THEN Term ELSE tty
  /\ at' = IF works THEN at ELSE "aborted"
  /\ UNCHANGED <<user, openOK>>

\* Mutant: `openOK &&' left out.
LabCallAnew(works) ==
  /\ user = "CV09" /\ at = "setup" /\ calls < Len(Calls)
  /\ calls' = calls + 1
  /\ openOK' = works
  /\ tty' = IF openOK' /\ Call("tcsetattr") THEN Term ELSE tty
  /\ UNCHANGED <<user, at>>

\* CV09: after a call that fails no other is made.
LabCall(works) ==
  /\ user = "CV09" /\ at = "setup" /\ calls < Len(Calls)
  /\ calls' = calls + 1
  /\ openOK' = (openOK /\ works)
  /\ tty' = IF openOK' /\ Call("tcsetattr") THEN Term ELSE tty
  /\ UNCHANGED <<user, at>>

\* The last tcsetattr, whose result nobody looks at, sets the same once more.
\* prg_serial_nonblock.c then makes the descriptor a blocking one, or aborts.
Return(works) ==
  /\ at = "setup" /\ calls = Len(Calls)
  /\ at' = CASE user = "serial_open" -> IF works THEN "ready" ELSE "aborted"
             [] user = "CV09"        -> IF openOK THEN "ready" ELSE "refused"
  /\ UNCHANGED <<user, calls, openOK, tty>>

PortNext ==
  \E works \in BOOLEAN : \/ Opened(works) \/ set_interface_attribs(works) \/ set_blocking(works)
                         \/ AssertCall(works) \/ LabCall(works) \/ Return(works)

PortSpec == PortInit /\ [][PortNext]_pvars

-----------------------------------------------------------------------------
\* Every variable keeps its type.
PortTypeOK ==
  /\ user \in Users /\ calls \in 0 .. Len(Calls) /\ openOK \in BOOLEAN
  /\ at \in {"setup", "opened", "attribs", "ready", "refused", "aborted"}
  /\ tty \in Settings

\* Whichever calls failed, a descriptor that serial_open hands out is of a port
\* set as it wants; main_thread, which goes on in any case, has reads that give
\* up after half a second unless set_interface_attribs failed.
ReadyIsSet ==
  at = "ready" => \/ user # "main_thread" /\ tty = Term
                  \/ user = "main_thread" /\ (openOK => ~tty.icanon /\ tty.vmin = 0 /\ tty.vtime = 5)
=============================================================================
