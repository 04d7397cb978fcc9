# prgsem: a TLA+ model of the program

prgsem is the host half of a two-part program: it runs on a PC, reads keys from the terminal, sends
commands over a serial line to a Nucleo board, and stores the results the board sends back. This
directory holds TLA+ modules translated from its C source, the TLC configurations that check them on
small instances, and proofs, checked by TLAPS, of what holds for every instance.

## The system

    keyboard_thread --queue_push--> event_queue --queue_pop--> main_thread <==serial line==> board
          |                             ^                          |
          +---- quit, tty               |                          +---- results.table
                                     main(): create, join, queue_cleanup

| part | source | state | operations | what is hard | what makes it correct |
|---|---|---|---|---|---|
| event queue | `own_queue.c` | `size`, `start`, `end`, `mtx`, the `next` of each event | `queue_push`, `queue_pop`, `queue_cleanup` | push locks, pop does not; `size++` against `size--`; a dangling `end` | first in, first out, nothing lost or freed twice |
| keyboard thread | `keyboard.c` | its place, the mutex, the terminal mode, `quit` | `keyboard_thread`, `set_raw` | unlocks a mutex it does not hold, leaves with it locked | each key becomes one event; the terminal is restored |
| start-up and end | `run.c`, `tx.c` | which threads exist | create, join, clean up | a thread that cannot be created; draining with no lock | nobody uses the queue when it is drained; nothing leaks |
| main thread, commands | `main.c` 119-199 | the event it holds | open, test `quit`, peek, pop, send | `quit` and `size` read with no lock, stale when used | commands follow the keys; the thread stops after `q` |
| main thread, receiving | `main.c` 200-252, `prg_serial_nonblock.c`, `matrix.c` | `type`, `len`, `msg_buf`, `msg`, `results.table` | read the id, `serial_getc_timeout` for the rest, parse, store | lost, late and changed bytes, failed calls, ignored results, unset locals | no write outside the table, nor outside `msg_buf` once a length was set; messages arrive or are refused without disturbing the others; every round ends |
| codec | `messages.c` 4-153 | none | `get_message_size`, `fill_message_buf`, `parse_message_buf` | an eight-bit sum; the type stored before it is checked | parse undoes fill, damage is refused |
| port set-up | `main.c` 48-102, 127-131, `prg_serial_nonblock.c` 22-65, CV09 `prg_serial.c` | the port's termios, which outlive a program | `set_interface_attribs`, `set_blocking`, two `serial_open` | any call may fail; settings nobody sets stay as they were | a port that is handed out is set as it should be |
| board firmware, sending | `unused/prgsem/CV10/main.cpp` 150-180 | a ring of 255 bytes, the mask and enable bits of the interrupt | `send_buffer`, `Tx_interrupt` | the interrupt empties the ring that is being filled, and switches itself off | bytes leave in order, once; none is left behind; a full ring stops nobody |
| board firmware, commands | `unused/prgsem/CV10/main.cpp` 26-149, 182-214 | the receive ring, the computation, `message_abort` | `Rx_interrupt`, `receive_message`, the main loop, the button | commands come between tasks and as the board falls asleep; lost bytes | what the host hears belongs to the computation it started; commands are answered |
| firmware codec | `unused/prgsem/CV10/messages.cpp` | none | as the codec above, an earlier protocol | 16-bit fields | checked with the firmware |
| counter exercise | `unused/prgsem/CV09/main.c` | a counter, a period, `quit`, the device, the terminal mode | `main()`, input, compute and output threads | a signal given before the wait | it ends after `q`, also without the device, and puts the terminal back |
| bounded event queue | `unused/pisovo_backup/event_queue.c` | a ring of 32 events, a mutex, a condition variable | push, pop, quit, clean up | pushers and the popper sleep on one condition variable; the ring's indices, of which the push moves the wrong one | nobody sleeps beside what it waits for |
| picture window | `xwin_sdl.c`, `redraw` of `prga-hw09-main.c` | the window, the colours drawn last | init, close, draw, poll | colours made of doubles and cut to bytes | up to the threshold no colour leaves the range of a byte, and a point given up is black |
| earlier program, its pipes | `prga-hw09-main.c`, `unused/pisovo_backup/prgsem.c`, `prg_io_nonblock.c` | place, terminal mode, the open ends | both `main()` | opens that wait for the other side | the window goes and the terminal comes back; both sides get their pipes |
| utilities | `utils.c` | | `call_termios`, `my_assert`; `my_alloc` is called by nobody | | modelled where they are used |
| older copies, skeletons | the rest of `unused/` | | | | not modelled: copies of the above |

The directory `unused/` of the repository holds a second program that the first talks to (CV10, the
firmware of the board), an exercise (CV09) and the state the project was in before its own queue: a
`main()` that draws a picture (hw09) and one that opens two pipes, with a bounded queue between
threads. They share the host's style and its hazards and are modelled after it.

## From the code to the modules

A module stands for one source file or one thread's part of it. Its variables are the globals and
locals of the code that outlive a step, under the code's names; `..pc` and `..st` variables say
where a thread is; variables marked *history* are read by properties and by no guard.

| module | code | what a step is |
|---|---|---|
| `OwnQueue` | `own_queue.c` | one access to a location that the other thread writes. `size++` is `PushLoad` and `PushStore`, `size--` is `PopDecr` and `PopSub` (the Makefile builds without optimisation); `start = start->next` is `PopNext` and `PopAdvance` |
| `KeyFifo` | | what the queue promises: `Put` and `Take`, first in first out, while it is `intact` |
| `Host` | `run.c`, `keyboard.c`, `main.c` 119-199, `tx.c` | a step of the queue, or what a thread does between two of them. The keyboard thread is the queue's pusher; `main_thread`, and `main()` after the joins, its popper. A round of receiving is one step, `MRead`, or `MReadByte` when the port was left in a state in which a read waits for a byte |
| `Messages` | `messages.c` | no steps: `Fill`, `Accepts`, `Parsed`, `MessageSize` |
| `Port` | `main.c` 48-102, 127-131, `prg_serial_nonblock.c` 22-65, CV09 `prg_serial.c` | a call that may fail |
| `Codec` | `messages.c` | fill, damage or cut, read from a port that `Port` has set up, parse |
| `HostRx` | `main.c` 200-252, `prg_serial_nonblock.c` 68-78, the table of `matrix.c` | a read of one byte (`RxFirst`, `RxByte`), with all that may come of it; parsing and storing (`RxParse`) |
| `MsgLink` | | what receiving promises: messages handled as sent, in order, while the link is intact |
| `TxRing` | CV10 `send_buffer`, `Tx_interrupt` | a step between two points where the interrupt may come |
| `ByteLine` | | what sending promises: the bytes handed over leave in that order |
| `FwMessages` | CV10 `messages.cpp` | no steps: the firmware's codec |
| `Board` | CV10 `main()`, `receive_message`, `Rx_interrupt`, `pressed` | one byte received, one command handled, one task; `sleep()` is apart from the test before it (`Idle`, `Sleep`) |
| `Counter` | CV09 `main.c` | one critical section, or what `main()` does between two threads |
| `EventQueue` | `event_queue.c` | what a call does while it holds the mutex, up to its return or its wait |
| `Picture` | `redraw`, `xwin_redraw` | one point of the picture computed, or the picture put on the screen |
| `Pipes` | `prgsem.c`, `prg_io_nonblock.c` | an open of one end, by `main()` or by the computational module |
| `Hw09` | `prga-hw09-main.c`, `xwin_sdl.c`, `call_termios` | a call made by `main()`, or a step of the three above |

The module `Hw09` EXTENDS `EventQueue`, `Picture` and `Pipes`: their variables are apart, and each
of its steps is a step of one of them or of `main()` with one of them. `Codec` EXTENDS `Port`, since
what is parsed has gone through the port. `Host` EXTENDS `OwnQueue`: its threads take the queue's
own actions, so that a step of the program is a step of the queue (`QueueUsedAsMeant`, proved).
`HostRx` EXTENDS `Messages`, `Board` EXTENDS `FwMessages`. `KeyFifo`, `MsgLink` and `ByteLine` are
instantiated with a refinement mapping in the module that implements them. `MC_*` modules give the
constants their values for TLC, `*Proofs` modules hold the theorems. Actions whose comment begins
with *Mutant* belong to no specification: each is an action of the model with a plausible slip in
it, which a property is known to catch.

Choices a reader should know of:

- **Memory.** Threads are interleaved access by access in program order (sequential consistency).
  That is more than C promises of a data race, and what `gcc -O0` on one processor gives.
- **Unset locals.** `len` at `main.c:140` is unset in every round. `MSend` lets the buffer that is
  allocated with it serve, garble the command or end the process. In `HostRx`, `len` and `msg` begin
  with a value from `StrayLen`, `StrayMsg`, and keep what the round before left; the part of
  `msg_buf` no byte came for holds any bytes of `StrayByte`, or those that make the checksum fit. A
  stray `len` of 0 or less makes `main.c:204` store the first byte outside `msg_buf`; the model has
  the step, does not show what it overwrites, and `sized` marks from where on it cannot happen.
- **Pointers.** An event is its number, 0 is null. Touching a freed event sets `uaf` and goes on;
  following null ends the process (`crashed`).
- **Time.** A wait with a time-out may end in either way at any moment; how long it takes is left
  out. A byte that is late is one not yet read when the wait for it ends.
- **The line to the board.** Between its test of the ring and `sleep()` the board has time for one
  byte at 115200 baud, so at most one arrives (`Arrive`). When the receive ring is full the
  interrupt leaves the byte where it is and is asked for again at once (`Storm`): `main()` may
  starve, and nothing in the model makes it run.
- **Two grains.** `send_message` is one step of `Board`; how its bytes leave, interrupted at any
  point, is `TxRing`. `TxRing` in turn leaves out that `receive_message` masks the interrupt as
  well, which only delays it.
- **Codecs.** A payload is a sequence of bytes. The texts that are printed and the colours stored by
  `matrix.c` are left out; a double is eight bytes that are copied as they are.
- **The port's settings.** Those are kept that decide what a read returns: ICRNL, ICANON, VMIN and
  VTIME. The settings at the start are those of a terminal or what another program left, since the
  driver keeps them. `Host` takes one bit of this, `reads`: whether a read with no byte to read
  ends. It is "block" when `set_interface_attribs` failed on a port whose reads wait. `HostRx` takes
  another, `icrnl`: its port is one that `set_interface_attribs` has set, and that function leaves
  ICRNL as it was, so that both values are begun with. INLCR, IGNCR, ISTRIP and PARMRK, which it
  leaves too, are taken to be off, as they are unless somebody asks for them.
- **The terminal's mode.** `set_raw` runs `stty` and does not look at its result, so it may fail
  either time. `stty -raw echo` makes the terminal cooked, whatever it was before: the mode
  found at the start is a value of its own and is not restored.
- **Sleeping.** A thread in `pthread_cond_wait` is in `asleep`. A broadcast empties it, and a wait
  may also end by itself (`Spurious`); the test around the wait is made again in either case.
- **Two opens that wait for each other** return together: the step of `main()` that opens an end the
  module is waiting for opens the module's end as well.
- **Colours** are computed in whole numbers over a common denominator, cut toward zero and then to
  a byte; the code computes in doubles, which differs by one at most where the value is whole.

## What is checked

| run | asks | bounds | states |
|---|---|---|---|
| `own_queue` | what survives a push and a pop that overlap | 4 events | 11 411 |
| `host` | the four threads around the queue; that it ends and keys are handled | 2 events; a key for a command, a key for none, q | 209 842 |
| `codec` | setting the port up; filling, damaging, cutting, reading and parsing | three ways to set it up, 6 settings found, every type, 2 payloads each and two with a carriage return, 2 damaged bytes of 3 values | 270 303 |
| `host_rx` | receiving, over a line with faults | 3 messages of 3 kinds, one with a carriage return, ICRNL on or off, 2 faults | 513 388 |
| `tx_ring` | `send_buffer` against its interrupt | a ring of 4, 5 messages of 2 or 3 bytes | 4 890 |
| `board` | what the host hears of the board | a ring of 5, 3 commands, 1 fault, 1 press, 2 tasks | 2 030 666 |
| `board_live` | that commands are answered | a ring of 8, 3 commands, 1 press, no byte lost | 68 056 |
| `counter` | the three threads of CV09 | period 25 in 20..32, 3 ticks, 3 keys | 2 170 |
| `hw09` | the earlier program: queue, picture, pipes, `main()` | a ring of 4, 2 pushers, 5 pushes, thresholds 0, 1 and 5, points of 0 to 255 | 415 956 |

What they show:

- **The queue** (`own_queue`). With no lock in `queue_pop` the queue is still safe in part, whatever
  the interleaving: events come out at most once and in order (`InOrderOnce`), and the popper never
  reaches a freed event (`OnlyEndDangles`). The rest holds until a push and a pop overlap: no null
  or freed event touched (`FaultOnlyIfRaced`), and the queue implements `KeyFifo`, so that no event
  is lost (`FifoSpec`). `raced` is set where they do overlap. The two properties say *until* because
  after it they are false: a lost `size--`, an event linked behind a freed one and a null `start`
  are all reachable. Nothing in the repository says that the queue may be used by two threads at
  once, so this is documented here and is not listed as a finding.
- **The host** (`host`). Commands answer the keys in order and skip none until a race
  (`CommandsFollowKeys`); after q at most one more goes out, the test of `quit` being stale by one
  round (`OneCommandAfterQuit`); at the end every event is freed and `stty` has been run to make the
  terminal cooked, in vain only if it failed (`CleanExit`). q ends the program although the keyboard
  thread leaves the mutex locked (`QuitEndsProgram`), and every key is handled unless a race loses
  it (`KeysHandled`): both but for a port in which a read waits for a byte (`reads`), where a silent
  board keeps `main_thread` from looking at `quit` and at the queue. `main_thread` does not look at
  the result that would tell.
- **The port and the codec** (`codec`). Neither `serial_open` hands out a port that is not set as it
  wants, whichever call fails; `main_thread`, which uses the port in any case, has reads that give
  up unless `set_interface_attribs` failed (`ReadyIsSet`). Parsing undoes filling (`RoundTrip`),
  except that `set_interface_attribs` leaves ICRNL as it was: a port that still has it reads a 13 as
  a 10, and the checksum refuses the message. One damaged byte is always noticed and two unless they
  cancel out (`DamageNoticed`), a cut message is refused, and nothing is accepted that was not
  filled (`OnlyFilledAccepted`).
- **Receiving** (`host_rx`). Nothing is ever written outside `results.table` (`TableInBounds`). Nor
  is anything outside `msg_buf` from the first round on that begins with a known type: unknown types
  and failed reads then go on with a length that some message had (`BufferHolds`). Before that round
  the length is stray, and nothing is claimed. Messages are taken in the order sent and handled as
  sent, until a fault, and again from the first one sent while the line is quiet and the reader
  between messages (`MessagesArrive`). On a port that was left with ICRNL the checksum refuses a
  message with a carriage return in it; as the result of `parse_message_buf` is not looked at, the
  message before is then handled a second time, and a result that holds a 13 is never stored. The
  messages after it are handled as sent, since a refused message is still read to its end.
- **The firmware's sending** (`tx_ring`). The ring is a line of bytes (`BytesLeaveInOrder`), no byte
  is left in it with the interrupt off (`NeverStalls`, `LineMoves`).
- **The firmware's commands** (`board`, `board_live`). Results belong to the computation
  acknowledged last, one per task and in order; DONE follows all of them; nothing follows an abort
  (`Conversation`). At most the result in the making is sent after the button
  (`OneResultAfterPress`). While nothing is lost every command is answered, even one whose first
  byte comes between the test of the ring and `sleep()` (`EveryCommandAnswered`): each command has a
  second byte that wakes the board. A computation ends (`ComputationEnds`). The interrupt is
  attached before the loop that empties the receiver, and may take the byte that `pc.getc()` was
  about to wait for: `main()` then waits for another one, in no other case (`OnlyStolenByteBlocks`).
  A lost byte can join two commands so that the checksum still fits, with any number of tasks: hence
  `MaxTasks`.
- **CV09** (`counter`). After quit the count goes up at most once (`OneTickAfterQuit`), without the
  device nobody waits for a key (`NoKeyAwaitedInVain`), and the program ends but for one way to hang
  (`OnlyMissedSignalHangs`): `outputThread` waits without testing anything, and if it was printing
  when `computeThread` gave its last signal it waits for ever. Where it ends, the device is closed
  and the terminal as it was (`CounterTypeOK`).
- **The earlier program** (`hw09`). With one condition variable for both sides, nobody sleeps beside
  what it waits for, because both sides broadcast (`SleepersHaveReason`); `set_quit` does not, so a
  popper that sleeps sleeps on. `queue_push` moves `q.out` where it should move `q.in`, with the
  effect that nothing pushed is ever popped (`PushedNeverPopped`). A point of at most threshold
  iterations is drawn in the colour computed for it, uncut, and black at the threshold; one of the
  square of the threshold or more is black as well. Between the two `redraw` computes a colour all
  the same, because it compares t with the threshold and not with 1: red is negative there and what
  is drawn is its lowest byte (`ColoursFit`); whether the grid ever holds such a point is up to the
  board. `main()` and the computational module get their pipes in whichever order the module opens
  them (`PipesMeet`). `main()` ends with the window gone and the terminal as it was (`Hw09TypeOK`);
  an assertion that fails while the window is made leaves the terminal raw, as the model's state
  "aborted" has it.

Three runs end in a violation, each of something the repository says of itself:

- `host_rx_stored`. `main.c:208` keeps the `int` of `serial_getc_timeout` in a `uint8_t`. A failed
  read becomes 255, and the branch commented `// successfully read` (`main.c:209`) stores the byte
  read before once more (`SuccessfullyRead`).
- `host_rx_getc`. A failed poll leaves `r` at 0, a time-out, where `prg_serial_nonblock.h:52`
  promises -1 (`GetcReturnsAsDocumented`).
- `board_unknown`. On a type it does not know `receive_message` leaves the byte in the ring and
  reports nothing; the byte is met again for ever. `messages.h:16` of CV10 has MSG_ERROR for this
  (`ErrorReported`).

### Why the bounds are enough

- *Queue, host.* The events matter by their order and by who was freed. Two bring the pop that
  empties the queue beside the push that refills it; a third the dangling `end` and the lost update
  with something to lose behind them, a fourth a use after a loss: `own_queue` has four. What `host`
  adds to the queue, the order of commands and a pop beside a push, is there with two. Above these
  numbers the theorems stand: they hold for every number of events.
- *Codec.* The payloads make sums that wrap and sums that do not, and the carriage return comes
  where it can, in a payload and as a checksum. The damaged byte takes a small, a large and the
  newline's value.
- *Receiving.* Two faults are a fault and another while recovering from it; the third message is
  sent after both. The replies are the shortest message and two results, at a boundary of the table:
  the last slot of one chunk, the first of the next. The second result is a 13, so there are a
  message that ICRNL changes and two it leaves alone. One stray byte, 0, and the byte that makes the
  checksum fit let a message that was cut off be refused or accepted; more stray bytes change no
  branch.
- *Transmit ring.* Four slots hold three bytes: one message fills the ring exactly, the shorter
  leaves one byte of room, so every send can meet a full, an empty and a partly filled ring, and
  five sends take the indices around it twice.
- *Board.* A ring of 5 holds less than a COMPUTE (6 bytes), so `receive_message` must wait for the
  rest, and the ring gets full. A COMPUTE, an ABORT or a command without an answer can come between
  the tasks of an earlier one. In `board_live` the ring is 8: with 5 a `Storm` excuses too many
  behaviours.
- *Counter.* The period is 5 from its lower limit and 7 from its upper one: both limits are reached,
  one exactly and one by clipping. Three ticks are one before, one at and one after the moment of
  quit.
- *Earlier program.* Since only `q.out` moves, the ring counts as full after one push: both pushers
  get to sleep, and five pushes with the pops between them take `q.out` around the ring of 4. Events
  may be pushed and quit be set wherever `main()` is. With thresholds of 0, 1 and 5 the points lie
  below, at and just above the threshold, just below and at its square, and at the ends of a byte.

### Fairness

- *Host.* Weak fairness for each thread: the scheduler runs a thread that can run. The calls that
  block in the code have time-outs, except `getchar` and, on a port that waits, `read`: nothing
  makes the user type (`KeyTyped`) or the board send (`MReadByte`). Weak fairness is enough where
  the keyboard thread waits for the mutex, since nobody else ever takes it.
- *Receiving.* `RxByte` and `RxParse`: a wait in the middle of a message ends by a byte or a
  time-out. The board need not send and the first byte need not come.
- *Firmware.* The processor runs the code where no interrupt keeps it from running; an interrupt
  that is asked for and let through is served; the transmitter transmits, bytes on their way arrive.
  Under `Storm` nothing is assumed of `main()`, and the properties except it by name. Nobody has to
  press the button, lose a byte or wake the board.
- *Pipes.* `main()` and a module that was started open their ends when the kernel lets them
  (`PipesFairness`); nothing starts the module. The rest of `Hw09` has no liveness property.
- *CV09.* The three threads run; no key has to be pressed, and `pthread_cond_wait` need not wake
  without a signal.

## What is proved

The theorems hold for every value of the constants under the named assumptions of the modules: any
number of events, any keys, any messages that fit the ring, any bytes, any number of faults.

- **`HostProofs`, the queue.** None of the properties is inductive. `TypeInv` adds to the types what
  the popper knows between its test and its store of `size` (`RegInv`: only the popper makes `size`
  smaller). `OrderInv` says, races included, that next pointers lead from older events to newer ones
  (`ListInv`), that what the popper holds is newer than all it has taken (`TakeInv`) and that only
  those have been freed (`FreeInv`). `IntactInv` says that, while nothing raced, the `size` events
  from `start` to `end` are the ones pushed and not taken, each linked to the next (`ChainInv`), and
  where both threads are in it (`LocalInv`). From the three follow `TypeCorrect`, `PopSafe`,
  `AtMostOnceInOrder`, `PopperTouchesLiveEvents`, `NoOverlapNoFault` and `NoOverlapNoLoss`. The
  refinement `QueueIsFifo` shows that the events reached from `start` are then the numbers after the
  last one taken, in order (`ChainIsAfter`), so that linking a new event appends it to them and
  taking one removes the first. The list is a recursive function; a place where it differs from
  those numbers would have a least such place, and there is none (`LeastNat`).
- **`HostProofs`, the threads.** `ThreadInv` ties the threads to the queue and gives
  `HostUsesQueueAsMeant`: the host is an implementation of the queue's specification, so the queue's
  invariants hold in it and are used below. `PlaceInv` (where `main_thread` is in a pop),
  `HistoryInv` (the types of the histories) and `CommandInv` (what is sent is ordered, what was
  taken was answered, what was late is the last) give `CommandsAreTheKeys` and
  `AtMostOneCommandAfterQuit`; `FreedInv` and `ExitInv` give `ExitIsClean`. `HostTypeCorrect` adds
  `ModesInv`, the types of the places and modes.
- **`MessagesProofs`** has what the proofs about messages share, for every message of a known type
  with a payload of its size. The sum is a function of how much of the buffer is summed (`Sums`),
  and the argument by the least place gives that it is a byte, that buffers which begin alike have
  the same sums that far, and that a single byte decides it (`OneByteMatters`). `FilledIsAccepted`
  and `AcceptedIsFilled` say that filling and parsing undo each other. A stream of bytes is `Spelt`
  by frames that follow each other, with a function `off` from each frame to the place where it
  begins: a frame sent goes to the end (`SpeltMore`), the stream begins with the first
  (`SpeltFirst`) and goes on with the others (`SpeltRest`). This does by offsets what would
  otherwise be an induction over the frames. Reading newlines for k carriage returns makes the sum
  3 * k less, modulo 256, and a message has at most 35 bytes, so the sum tells
  (`DeliveryIsNoticed`).
- **`CodecProofs`.** `SetUpInv`: once the third call is made and none has failed, the port is as
  wanted, and `set_blocking` leaves what `set_interface_attribs` did. From it `ReadyPortIsSet`,
  whatever settings the port had. With what `MessagesProofs` says of delivery,
  `CodecInv` (a filled buffer that is not damaged is the message's, one that was cut is a byte
  shorter) gives `RoundTripHolds`, `DamageIsNoticed`, `AcceptsOnlyFilled` and `CodecKeepsTypes`.
- **`HostRxProofs`.** `SizeInv` is the point for memory: a buffer that begins with the type of a
  result has the length of a result when it is parsed, so a refused message never leaves that type
  with another payload; and once a round has begun with a known type, `len` is the size of some
  known message. With `TableInBounds` itself it is inductive: `RxTypeCorrect`, `ResultsStayInTable`
  and, from that first known type on, `BufferIsLargeEnough`. The bound of the table needs what
  `RepliesAssumption` and `StrayAssumption` say of lengths: the largest slot is 255 * 80 + 255,
  below 320 * 240. That the receiver implements the link, `EveryMessageArrives`, rests on `LinkInv`:
  while the link is intact, the bytes received of this message and those on the line, as the port
  delivers them, are the frames of the messages not yet handled, in order and with newlines for
  carriage returns where ICRNL is on; `len` is what the type of the first asks for, and a buffer to
  be parsed is the first of them whole. Such a frame is refused exactly if delivery changed it
  (`DeliveryIsNoticed`). Each step is then one of `MsgLink` or a stutter, by a lemma for each
  action.
- **`TxRingProofs`.** `TxInv` (types, and where `send_buffer` is in its message), `StallInv` (who
  will switch the interrupt on again) and `EndInv` (a finished message has been copied). The
  refinement `RingIsALine` is a lemma for each action about the sequence in the ring
  (`QueueAfterPut`, `QueueAfterTake`): every step hands over a message, emits a byte or changes
  nothing of the line. `InterruptStaysOn`, `RingTypeCorrect` beside it.
- **`BoardProofs`.** `BoardTypeCorrect`, with `LoopInv` (a task is begun only if one is left): for
  any bytes received the ring does not overflow and no more tasks are computed than asked for.
  `OnlyStolenByteBlocks` is inductive beside the types: `StartWaitsForStolenByte`. The conversation
  needs to know where it stands: `TalkInv` says that, of the messages sent, the last that began or
  ended something acknowledged the computation that runs, with its chunk and its number of tasks;
  that the results sent since then are `task_id`; and that a result sent after the button means
  `message_abort` is still set and no other is being computed. Then each message fits what came
  before it, and two late results have a beginning between them: `ConversationMakesSense` and
  `AtMostOneResultAfterPress`. Three theorems say what is safe of the two liveness properties.
  `BoardAttends`: `main()` falls asleep on no whole command and on no computation, and masks the
  interrupt only while it takes bytes. `ReceivesWholeMessages`: what is handed to the switch has a
  known type and its length, whatever came in. `CommandsAreHeard`: if every command is one that
  `parse_message_buf` accepts, then, until a byte is lost or a command comes before the start-up
  message, `msg_buf`, the ring, the receiver and the line together are whole commands, one after the
  other (`StreamInv`, with `Spelt` from `MessagesProofs`), so that each message handled is a command
  of the host's and MSG_ERROR is never sent.
- **`CounterProofs`.** `PeriodWithinLimits`, with `JoinInv` (after the joins nobody opens the device
  again); `OpenInv` (`is_serial_open` comes after `quit`) gives `NoDeviceNoKey`, `LateInv` (who has
  seen `quit`) gives `LastTick`.
- **`Hw09Proofs`.** For any capacity above one and any pushers: `QueueInv` (`q.in` stays 0, so only
  slot 0 is written and only others are read) gives `PushedIsLost` and `NobodyOversleeps`; `MainInv`
  (where the window and the raw mode are) gives `Hw09Restores`. For any bytes as thresholds and
  points, `ColoursAreBytes`: up to the threshold the polynomials stay below 256 because 27 (x + y)^4
  - 256 y x^3 is (x - 3 y)^2 times a sum of squares and products, and so is (x + y)^4 - 16 x^2 y^2
  with (x - y)^2; past it red is negative, and not cut to zero, since a threshold below 256 is too
  small a divisor (`RedIsNegative`). `PipesGoOn`: an end that `main()` has opened stays open until
  it closes it, so of `main()` and a module that both have an end to open one can go on, and the
  assertion on both ends holds.

Every invariant and every action property of the passing runs, and every refinement, is stated by
one of these theorems. Only model-checked is liveness (`QuitEndsProgram`, `KeysHandled`,
`LineMoves`, `EveryCommandAnswered`, `ComputationEnds`, `OnlyMissedSignalHangs`, `PipesMeet`):
fairness is beyond the prover. `InterruptStaysOn`, `BoardAttends`, `CommandsAreHeard` and
`PipesGoOn` are what is safe of four of them: the dead end each of these would run into is not
reached.

## What is not modelled

- `my_alloc`, `io_getc`, `io_putc`, `io_getc_timeout`: no program calls them.
- What the earlier program leaves open: which threads push events, what is done with an event, who
  calls `set_quit` and `queue_cleanup`. `Hw09` lets any of it happen and marks it external. SDL is
  external too.
- The other copies under `unused/` (`messages.c`, `xwin_sdl.c`, `event_queue.c`, `utils.c`,
  `prg_serial_nonblock.c`, several times each): they differ from the files above in blanks, comments
  and the names of headers, and a second model would say the same twice. The skeletons beside them
  (`lab08_sources`, `prga_lab09`) are code to be written, or commented out.
- In the firmware, the LED and its ticker. In `run.c`, what the threads still do after a
  `pthread_create` has failed and `main()` has returned: the process ends there.
- End of input: `getchar` then returns EOF for ever and events are pushed without bound.

## What comes next

1. A composition of `HostRx` with the commands of `Host` (a round of receiving in place of `MRead`),
   for what a slow line does to the keys.
2. The firmware's codec as a module of its own run, and the receive ring at the grain of `TxRing`,
   with `rx_in` and `rx_out`.
3. Proofs: the safety parts of `QuitEndsProgram` and `KeysHandled` (who may hold the mutex when the
   popper waits) and of `OnlyMissedSignalHangs`; that parsing undoes filling in the firmware's codec
   too, whose numbers are words.
