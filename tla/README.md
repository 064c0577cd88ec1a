# High Frequency Twister: specifications, checks and proofs

TLA+ models of the Rubik's cube robot in this repository: the C++ application
`cubedriver/` that watches a cube through cameras, searches a solution with a
pool of threads and plays it over a serial line, the Arduino firmware that
turns the motors, and `uvcvideo_kmod/`, the Linux camera driver that the robot
builds with changes of its own.  Lines are quoted as `file:line` of this repository.

## 1. Inventory

| part | source | state it keeps | operations |
|---|---|---|---|
| thread pool | `cubedriver/threaded_solver2.cpp`, `.h` | per thread: mutex, condition variable, input and output flags, cube state, solution, error; in the pool: threads, `doneThreads_`, `lastSolutionIndex_` | `start`, `stop`, `solve`, `waitUntilAllDone`, `tfunc` |
| cube tables | `threaded_solver2.cpp:25-323` | constant tables: 18 face turns, 3 rotations, 21 thread configurations | `makeMove`, `makeMoves`, `remapState`, `remapSolution`, `validateSolution` |
| move translation | `cubedriver/translate_moves.cpp`, `time_for_move_sequence.h` | the table of 45 one-byte motor commands; an accumulator of the move being built | `parseMove`, `combineMoves`, `lookupMoveCommand`, `translateMoves`, `timeForMoveSequence` |
| program runner | `cubedriver/cubedriver.cpp:1751-1828`, `cubedriver.h:52-64` | `program`, `programCounter`, `programRcvExpected`, `programTimeExpected`, `serRcv` | `runProgram`, `continueProgram` |
| programs | `cubedriver.cpp:121-354` | none | the builders of the calibration, scramble, solve and auto-solve programs |
| auto-solve | `cubedriver.cpp:1053-1133`, `1812-1824`, `1579-1592` | `autoSolveArmTime`, `movesStartedTime`, `lastSolution` | arm, start when a solution is known, finish, abort after 10 s |
| event loop and keys | `cubedriver.cpp:1453-1943` | `suspendCenters`, cursors, calibration colours | `onKeyDown`, `onLButtonDown`, `loop` |
| colour analysis | `cubedriver.cpp:887-1051` | cursor colours, facelet states | `assignAssociatedCursorsForCenters`, `findClosestCalibrationColor`, `analyzeColors` |
| serial line | `cubedriver/serial.cpp` | descriptor, `writeBuffer_` | `Serial`, `SerialNonBlocking::read`, `write`, `onReadyToWrite` |
| camera capture | `cubedriver/capv4l2.cpp` | mmap'ed buffers shared with the kernel driver | `captureOn`, `captureOff`, `nextFrameBlocking` |
| calibration states | `cubedriver.cpp:76-90`, `121-239` | constant table: nine cubes | two command strings, the rounds of the calibration |
| configuration | `cubedriver/config.cpp` | a property tree file | `load`, `save` |
| cubies and coordinates | `cubedriver/cpp_kociemba/` `cubiecube.h`, `facecube.h`, `coordcube.h`, `tools.h` | constant arrays, move and pruning tables filled at the start | `cornerMultiply`, `edgeMultiply`, `toCubieCube`, `toFaceCube`, `verify`, the coordinates, `randomCube` |
| two-phase search | `cpp_kociemba/search.h` | search stacks | `Search::solution`, `totalDepth` |
| firmware | `ArduinoUno_Phase3_Center_Drive/*.ino` | `motorsOnEh`, the speed tables in use | `setup`, `loop`, six turn functions |
| driver: queue and stream | `uvcvideo_kmod/uvc_queue.c`, `uvc_video.c` | buffers and their lists under a mutex and a spin lock, URBs, the frame being decoded, clock samples | queue and dequeue, the completion of a URB, start, stop, suspend, resume, cancel |
| driver: controls | `uvc_ctrl.c` | per control: flags, a cached and a backed up value, `loaded`, `dirty`, `modified` | begin, get, set, commit, rollback, restore |
| driver: handles and formats | `uvc_v4l2.c`, the descriptors of formats in `uvc_driver.c` | the state of each handle, `stream->active`, the format, the interval, the buffers | open, release, the ioctls |
| driver: probing and status | `uvc_driver.c`, `uvc_status.c` | entities and chains, video nodes, counts of streams and users, the status URB | probe, open, close, suspend, resume, disconnect, delete |
| earlier firmwares | `Phase_2_Arduino_Code/*.ino`, `Arduino_Driver_Sketch_Test_1/*.ino` | grabbers, motor flags; a line parser | `loop`, grab and turn functions |

Third-party, and left aside: `optiqtmSrc/` (an optimal solver), `TestSolver/` and
`kociemba-hacked-speedtest/` (other people's two-phase solvers with drivers),
`CAD Drawings/`, the record-day scrambles.

### How the parts interact

One thread runs the event loop: it waits at most 1 ms for a camera or the
serial line, reads frames, appends received bytes to `serRcv`, analyses the
colours of the frames, handles one keyboard or mouse event, and runs the
current program as far as it goes.  `solve()` is called from this loop and
blocks it.  The search threads share only `PerThread` with it, under one mutex
and one condition variable per thread.  The firmware reads one byte at a time,
executes it to the end, and echoes it; the program runner writes a string of
commands, remembers it as the echo to expect, and continues when exactly that
has come back.

A camera is a file of `uvcvideo_kmod`.  `CapV4L2` shares buffers with it: `QBUF`
gives one to the driver, the handler of the URBs fills it, `poll()` and `DQBUF`
take it back.  Three things act on that queue: the program, the interrupt
handler, and the USB core that reports a camera unplugged.  Around it the
driver lets other programs open the same camera: privileges decide which handle
may stream, a mutex makes changes of controls transactions, and counts decide
when the status URB runs and when the device is freed.

### What is hard here

* Two threads, one condition variable for both directions, a caller that
  returns before the workers are done and later calls again or stops them.
* Echoes are matched as a whole against everything that has arrived: bytes left
  over from an aborted program, from a key pressed meanwhile or from a restart
  of the board end up in the next comparison.
* A 10 s abort that may come while the firmware still executes the commands
  already in its receive buffer.
* Short writes to the serial line in the middle of a command string.
* Merging turns of opposite faces into one motor command without changing what
  the sequence does to the cube.
* Tables written by hand: permutations, rotated orientations, calibration states.
* A buffer that is queued, filled and cancelled at the same time, under two locks
  and with a flag for the camera that is gone.
* Frames made of packets of which some are lost, marked as faulty or too short.
* A lock of three unprotected steps: the state of a handle, an atomic count, the
  new state.
* A cache of control values over a camera that refuses some of several changes,
  changes some by itself, and forgets all of them in a reset.
* Unplugging, at every step of probing, opening, closing and sleeping.
* Descriptors that come from the camera: entities in loops, without inputs, cut short.

### What makes each part correct

* Thread pool: a call of `solve` returns, with a text computed for its own state;
  no request is lost or overwritten; results are read only when nobody writes
  them; `stop` joins every thread.
* Program runner with firmware: a step is taken only after the firmware has
  executed the one before; `Solved` is only recorded when the solution was
  executed; an armed solve is disarmed within its time limit; the motors are
  switched off in the end.
* Serial line: the driver sees the written bytes, in order, each once.
* Translation: the command string has the same effect as the moves; every lookup
  succeeds; nothing that could be merged is left unmerged.
* Cubies, coordinates: the same cube as the facelets, after any turns; `verify`
  passes a solvable cube and names what is wrong with another.
* Camera: a buffer has one owner; a frame delivered as good is whole; nobody waits for
  a camera that is gone, and the loop never waits in `DQBUF` after `poll()`.
* Driver: one handle has the privileges and owns the buffers, which fit the format;
  what is chosen is what is nearest to what was asked for; a cached value is the
  camera's; success means that every value has been set; an entity is in one chain
  once; the device is freed exactly once, after everybody has let go of it.
* Tables: a turn of 180 is two of 90, 270 is the inverse; each thread's
  transformed problem has a solution that solves the original one.

## 2. Modules

| module | models | composed of |
|---|---|---|
| `ThreadedSolver` | `threaded_solver2.cpp:330-568`, the pool and its caller | |
| `ThreadedSolverProofs` | theorems of the pool, then of the cube it searches | `ThreadedSolver`, `CubeLevels` |
| `ByteStream` | what one direction of a serial line promises (abstract) | |
| `SerialNonBlocking` | `serial.cpp:55-123` and the `poll()` of `App::loop` | implements two `ByteStream`s |
| `Firmware` | the phase 3 `.ino`, with its serial buffers and the cube | |
| `Terminal` | whatever may be typed to the board | extends `Firmware` |
| `FirmwareProofs` | theorems about the board at a terminal | `Terminal` |
| `Line` | the serial line from end to end, with the board | extends `Firmware` and `SerialNonBlocking`, implements `Terminal` |
| `LineProofs` | theorems of `SerialNonBlocking` alone, of the line, and of the translation into what goes over it | `Line`, `FirmwareProofs`, `TranslateMoves` |
| `Robot` | `App::loop`, `analyzeColors`, `onKeyDown`, `runProgram`, `continueProgram`, the program builders | extends `Firmware` |
| `RobotProofs` | its theorems | `Robot`, `FirmwareProofs` |
| `TranslateMoves` | `translate_moves.cpp`, `time_for_move_sequence.h`, the firmware's turns | |
| `CubeGeometry`, `PhysicalCube` | a cube in space (abstract, external) | |
| `Facelets` | the tables and `makeMove` of `threaded_solver2.cpp:25-327` | |
| `CubieCube` | `cubiecube.h`, `facecube.h`, `tools.h`: cubies, their turns, the way from and to facelets, `verify` | `Facelets` |
| `CoordCube` | the coordinates of `cubiecube.h` and the move tables of `coordcube.h` | `CubieCube` |
| `ThreadConfigs` | the 21 disguises of a problem and the way back | `Facelets` |
| `CalibrationStrings` | the command strings of the calibration and `calibrationStates` | `Facelets` |
| `CubeLevels` | one cube turned at all levels at once | the four above, implements `PhysicalCube` |
| `UvcQueue` | `uvc_queue.c` on videobuf2 | |
| `UvcVideo` | the isochronous stream of `uvc_video.c`, the USB core and a camera | extends `UvcQueue` |
| `CapV4L2` | `capv4l2.cpp` and its callers | extends `UvcVideo` |
| `CameraProofs` | its theorems | `CapV4L2` |
| `UvcFormat` | formats in descriptors, and the choice among them | |
| `PrivilegeLock` | what the privileges of handles promise (abstract) | |
| `UvcV4l2` | the handles and ioctls of `uvc_v4l2.c` | extends `UvcFormat`, implements `PrivilegeLock` |
| `UvcV4l2Proofs` | its theorems | `UvcV4l2` |
| `UvcControls` | the tables of `uvc_ctrl.c`, which controls a camera has, the arithmetic of a set | |
| `UvcCtrl` | the cache and the transactions of `uvc_ctrl.c` | extends `UvcControls` |
| `UvcCtrlProofs` | its theorems | `UvcCtrl` |
| `UvcChain` | parsing the entities of a camera, and finding chains | |
| `UvcDriver` | the life of a camera: probe, nodes, status, disconnect | extends `UvcChain` |
| `UvcDriverProofs` | its theorems | `UvcDriver` |

An `MC` module gives a module's constants the values of the small instances.
Definitions named as a mutant in their comment are wrong on purpose: they are
used only to see that a property notices the mistake.

### ThreadedSolver

A worker's mutex is held during its whole search, and no critical section of
the caller blocks except in a wait on the condition variable, which releases
the mutex.  So a critical section is one step, and "mutex held" is
`wpc[w] = "search"`.  `cvWait[w]` is the set of the sides asleep in the one
condition variable both directions share; `notify_one` removes one of them or,
if there is none, nothing.  `die` is read without the mutex at the top of
`tfunc`: a data race, modelled as either value.  A text of moves is reduced to
the state it solves and the time it turns; the time decides the final choice,
the clock the early one, which is nondeterministic.

### SerialNonBlocking

`phase` follows one round of the loop: poll, write what is buffered, read,
application.  `ttyOut` and `ttyIn` are the kernel's queues.  A write takes any
positive number of bytes that fits, a read at most one buffer.  A system call
that fails throws, and nothing catches it: the loop ends.

`Line` puts the board behind it and uses the UARTs of both sides as its steps, a
byte at a time.  Its state is exactly that of the two modules it extends, so a step
of it is one of the serial line, or one of the board, or the one byte they exchange.
`Robot` takes the two directions for queues: that is what `StreamsInOrder` shows.

### Firmware and Robot

The board takes one byte at a time.  A turn has a beginning and an end, between
which the camera sees a blurred cube and a reset may come; a turn is echoed after
it, a switch of the motors before it.  A turn executed with the motors off leaves
the cube as it is.

In `Robot` the loop is cut where other actors can come in between: reading,
analysing, starting the automatic solve, aborting, one event, and
`continueProgram` instruction by instruction.  Four things need a word:

* *Waits.*  A wait of a program is at least 100 ms.  It elapses only after a
  picture taken since its beginning has been analysed.  This is the assumption
  that cameras and the loop are faster than 100 ms; without it the calibration
  samples whatever it saw last.
* *Recognition.*  `cal` says of each face and colour whether `calibrationColors` has no
  sample, a right one or a wrong one, and `CalFile` what was loaded (`loadCal`).  A picture is
  recognised facelet by facelet (`Closest`): a face that is sampled rightly is taken for
  what it shows; a colour that is not sampled, or one beside a wrong sample, for any colour
  that is; and a face without samples for none.  What is no cube then is `Unknown`, for
  `verify` turns it down.  A calibration with every sample right is `Trusted`.
* *Clean.*  `clean` is a history variable: the line was quiet (`Quiet`) when a
  program began and nothing but programs that ended well has written to it
  since.  The guarantees of a program hold for clean programs: after an abort,
  a bracket key or a reset the code itself gives none until the line is quiet.
* *Lost.*  `lost` says that the board was reset.

A wrong echo ends a program without its final `]`, so the motors stay on.  That
is what the code does; `MotorsOffAfterProgram` is about clean programs.

### TranslateMoves

One round of the loop of `translateMoves` is one action.  The input is a text of
characters made from `Notations`, all those `parseMove` documents and two mistakes.
The reference is the firmware: `Turns` is what its 45 cases do with the motors,
and `SameEffect` compares the quarter turns of commands and text.

### The cube tables

`CubeGeometry` puts the 54 facelets in space and `PhysicalCube` turns a layer;
neither is translated from the code.  `CubeLevels` turns one cube three times over:
its 54 stickers by the tables of `Facelets`, its cubies by the arrays of
`cubiecube.h`, its coordinates by the move tables of `coordcube.h`.  It shows that
the first implements `PhysicalCube` and that the others stay the same cube, though
they are computed from arrays of their own.  A move table is a function of a
coordinate and a turn, evaluated where it is used, as the loops that fill it do:
from a cube set to the coordinate, in which every other cubie is missing or in an
order of no cube.  The six edges of phase 2 have a coordinate only while they are
out of the slice; it comes from merging those of three and three, and in phase 2
from its own table.  Rotations of the whole cube move the centers, which cubies do
not have: from then on only the facelets are followed.

`VerdictsAsDocumented` paints the stickers: 63 cubes put together wrong or made to
look so, each with what the comment of `Tools::verify` (`tools.h:17-24`) says of it.
It is the reference of the property and not translated from the code.  The 63 have
no corner with its colours mirrored: there `verify` departs from that comment (section 5).

With tables known to be right, `ThreadConfigs` disguises the scrambled cube for each
thread and turns it on: `SearchMirrorsTheCube` says that the disguise and a turn
commute, so the answer to the disguised problem, however long, solves the original.
`PhasesAsDocumented` turns a solved cube by the strings of the calibration.

### The camera

`UvcQueue` has the three places a buffer can be at under the driver, and what
videobuf2 knows of it.  What a buffer holds is counted in payloads; `torn`,
`current` and `cut` are what the driver cannot see: whether the payloads are the
first ones of one frame, and whether some were lost without a word.  The mutex of
the queue makes a call of the program one step, except that `QBUF` on a streaming
queue is two: `BufferPrepare`, and `BufferQueue` under the spin lock, between which
the camera may go.  The handler of a URB takes a step per payload.  `UvcVideo` has a process
that commits, submits, kills and frees URBs one at a time while completions come in.
`CapV4L2` is the program: every ioctl of it that fails throws, and the destructors
run.  It is checked both with the `poll()` of `App::loop` and without it, as
`capv4l2.cpp`'s own `main` does.

### Handles and formats

`uvc_acquire_privileges` is a test of the handle's state, an atomic increment that is
compared and perhaps undone, and an assignment: each a step of its own thread.
`IsLock` maps them to `PrivilegeLock`: a handle has the lock from the increment that
was first to the decrement.  An `S_FMT` tries and probes with the mutex held, lets go
of it, and assigns under it again; `REQBUFS` and `STREAMON` come in between.
`UvcFormat` has intervals with their real numbers: the saturation, the continued
fraction and the rounding are what the round trip of `NearestChosen` is about.

### Controls

`UvcControls` has the two tables entry by entry.  A control holds several fields (blue and
red share one), so that a set of one must keep the other.  The two mappings of
`V4L2_CID_AUTO_WHITE_BALANCE` are fields of their own, and `Find` takes the first by that id, as
`uvc_find_control` does.  A transaction has the mutex: setting, then committing or rolling back
control by control, while the camera may change what it adjusts by itself, or refuse any
request.  Events (`EndTrans`, and with `Events` whatever a subscriber causes) and queries of
another control (`QueryCtrl`) read controls into the cache, too: `Overhear`.  Two history
variables record when the cache may be wrong: `spoiled`, after a refusal that leaves
it so, and `aside`, the controls that change by themselves which an event or a query has left
in the cache since the last transaction; see section 5.

### The life of a camera

`UvcChain` scans the descriptors by functions.  The links of an entity are part of it, so
the code sees from them whether it is in a list, and the links into a chain that was given up
stay: `linked` are all entities with links, `listed` those in the list of this chain
or of one that is kept, and `twice` those that were added although they were listed, which
breaks a list.  `UvcDriver` has the steps between which others may act: registering nodes one at a time, `uvc_status_init`, disconnecting.
A handle opens in two steps and closes in three, because the last of nodes,
`uvc_unregister_video` and the handles to let go deletes the device.

## 3. Runs

| run | question | result |
|---|---|---|
| `threaded_solver` | Is every interleaving of start, solve, wait and stop with two workers race-free, without stale answers or lost wake-ups, and does every call return? | yes |
| `threaded_solver_prefix` | Is every returned text a solution (`test.cpp:63`)? | no: a worker that timed out offers its bare prefix, the shortest of all texts |
| `robot` | With a right, a wrong or no calibration on file, failing searches and the key `[`: are turns executed as ordered, powered and at their speed, does a calibration of a cube that ends solved learn no colour wrong, and does its test find nothing wrong with a right one? | yes; a calibration that F2 empties during its test is not a right one |
| `robot_disturbed` | With the key `]`, resets, aborts, glare and a calibration that is right, empty or lacks a colour: do the echoes account for the commands of a clean program, is the time taken on a solved cube, is an armed robot disarmed, do the motors stop at an abort, do programs end? | yes, the time if the calibration is right, and except programs waiting for a board that was reset |
| `line` | Are both directions of the line byte streams, does every byte arrive unless the line fails, does the board answer in order, are the motors off when its flag says so, does ESC stop them? | yes |
| `translate_moves` | Does every short text in every notation become commands of the same effect, one for each run of turns of one axis, charged as what the board does? | yes |
| `cube_levels` | Is every entry of the 21 facelet tables what a cube does, are cubies and coordinates the same cube, does `verify` call a fault by the same name after every turn, does a thread's answer solve the original, do the calibration strings pass through `calibrationStates`? | yes |
| `camera` | With lost and faulty packets, unplugging and suspending at any time: has a buffer one owner, are good frames whole, does nobody wait in vain? | yes |
| `uvc_v4l2` | Are the privileges a lock, do buffers belong to its holder and fit the format, is what is chosen nearest to what was asked for? | yes, with one thread in a handle at a time |
| `uvc_ctrl` | Is the cache what the camera holds, does success mean that all is set, is what is read true? | yes, until a commit is refused half way or a resume is, and but for what an event or a query leaves in the cache |
| `uvc_ctrl_hue` | Is the cached value of a control that changes by itself never used (`uvc_ctrl.c:1352`)? | no: an event reads it into the cache, where it stays for the next read |
| `uvc_driver` | For every small set of entities: are chains lists, complete and apart; does the status URB follow the users; is the device freed once, after the last has let go? | yes |

The two that end with "no" expect the violation and are the findings of section 5.

### Bounds and why they are enough

* `threaded_solver`: two workers, two states, two turning times.  The caller deals
  with workers one at a time, so two are enough for one that is looked at and one
  that is not; two states tell a stale answer, two times a choice.  The theorems
  hold for any number.
* `line`: a queue and a read buffer of two bytes, strings of one and three: a string
  that does not fit, a read that needs a second round, and a write behind buffered
  bytes all occur.  Four bytes are written and the board starts at most twice.  The
  theorems have no such bounds.
* `robot`: a corner of the cube, the faces U, R and F in the three states that `"URF"` takes
  them through.  Three rounds show every colour on every face, so a calibration gets
  complete, and is emptied or tested at every point of it; the five keys are pressed
  at any time, and the file is right, wrong or empty.  `"333["` is two bytes.  `MaxWire`
  keeps a key that adds to the line from being pressed when the line is full; programs and
  aborts are never bounded.
* `robot_disturbed` has a cube of three states, with solutions of one and two turns, so
  that a lost and a doubled turn are noticed.  One foreign byte may be under way at a time;
  it is enough for a wrong echo, a late echo, and an echo that completes the one expected.
  The calibration that lacks a colour takes one cube for the others, or for none, anew in
  every picture.
* `translate_moves`: three turns.  A command is emitted when a third turn cannot
  join the first two; what follows starts from a single move again, a state reached
  already after one turn.  The theorems are about texts of any length.
* `cube_levels`: every table from the solved cube and after one other.  `makeMove`
  is a permutation of 54 places whatever colours they hold, and the 54 facelets
  are told apart, so one application checks every entry.  The orientations of the
  cubies add up, so two turns show whether a twist goes with its cubie; the
  coordinates after two turns include those in which the slice is broken up, those
  that are back in phase 2, and merges of every phase 2 pair of turns.
  What is proved of facelets and cubies is proved for any number of turns.
* `camera`: two buffers, two URBs of one payload, frames of two payloads: a frame over
  two URBs, a full and an empty queue, a frame that is cut and one that is too long for
  what has come before.
* `uvc_v4l2`: two threads, two handles; with a third handle the loser of a race would
  lose to another one.  Four cameras: a plain one with two formats, a coded one with
  the intervals of NTSC, and two whose descriptors are incomplete.  A camera may name as
  its default a frame or a format it does not have, or have a format without frames.
* `uvc_ctrl`: the exposure, which spans its control; blue and red, which share one and change
  by themselves, and their master; a control that is taken away from this product, bits nobody
  knows; a program that listens to events.  Values are 0 and 1 (`Highest`), and one ioctl
  sets two.  Programs ask for 0 only while the camera starts with 1, so a value is the new or
  the old one; requests outside the range, which are clamped, do not occur in this instance.
  What follows a spoiling refusal is not explored (`Unspoiled`), because `spoiled`
  stays and the three properties claim nothing once it is TRUE.
* `uvc_ctrl_hue`: the hue and its master, one control at a time; nobody listens.
* `uvc_driver`: thirteen cameras made by hand and every way to put two entities between
  an output and a camera; two programs.  All are `Sensible`: what a selector selects
  is used by nothing else (see section 5).

### Fairness

* `ThreadedSolver`: the operating system runs every thread, a search ends (it has a
  limit of 1000 ms and of depth 24), a wait of one microsecond ends.  Spurious wake-ups are
  possible but never owed, and calls need not come.
* `Line`: the loop runs, the UARTs transmit and the board runs (weak).  Strong fairness of
  ending the application's part and of reading: the loop writes a finite number of strings per
  round, and a byte that waits is reported by every `poll()`.  `BytesArrive` is
  conditional on no failure.
* `Robot`: the board, the loop, the cameras and the clock go on (weak each).
  No key is ever owed.
* `CapV4L2`: a handler that runs ends; the core gives back the URBs of a camera that is
  gone; the process that suspends or resumes goes on (weak).  Killing a URB and a `DQBUF`
  that has something to take are strong: each may be out of reach for a moment while
  another completion runs.  A camera owes no frames.
* `UvcDriver`: the USB core goes on with an unbinding and a resume, the kernel with a call
  that has begun, and a program closes a node that has been unregistered, where every ioctl
  says `ENODEV` (weak).  Nobody owes an opening, a suspension or an unplugging.

## 4. Theorems

`ThreadedSolverProofs`, for any number of workers, states and turning times:
`TypeCorrect`, `PickIsRaceFree`, `NoStaleAnswer`, `WakeupsAreNotLost`,
`DrainedMeansQuiet`, `InputsAreStable`, `CleanRounds`.  The safety properties are
not inductive: that nobody writes a result while it is chosen depends on which
workers have been seen to be done, that on the input having been handed out once,
and that on the last call having been waited for.  `IInv` (in `ThreadedSolver`)
conjoins one invariant for each phase of a call (`PostInv`, `PollInv`, `ScanInv`,
`DrainInv`), who may sleep where (`WaitInv`), when a thread may end (`DieInv`) and
when indices are valid (`IndexInv`).  Each conjunct has a lemma that every step
keeps it.  Assumptions: the four named ones of the module.

`FirmwareProofs`, for any commands, cubes and speeds, with any typing and resets:
`BoardTypeCorrect`, `OffMeansOffCorrect` (inductive together with the types) and
`EchoesInOrderCorrect` (by cases on the command; moving the head of the buffer to the
end of the echoes leaves their concatenation unchanged).  Assumption: the
constants of `Firmware`, kinds of bytes that do not overlap.

`LineProofs`, first for the serial line alone, with any strings and any size of queue and
buffer: `TypeCorrect` and the two refinements `WritesAreInOrder` and `ReadsAreInOrder`.
The stream's `sent` is the concatenation of three sequences; every step of the host moves a
front from one to the next (`MoveFront`), puts bytes behind the last (`OutPut`,
`InPut`), or gives bytes to the other end (`TakeFirst`).  That the result of
`read()` is empty outside `read()` is part of the type invariant and needed for
the step that begins a read.

Then it puts the board behind the line.  `LineIsSerial`: the line implements the specification of
`SerialNonBlocking`, whose other end may take and say anything, so `StreamsAreInOrder`
follows from those two theorems.  `LineIsTerminal`: it implements
`TerminalSpec`, in which anything may be typed; for this the bytes that leave the tty must
be the board's, an invariant of its own (`WrittenOK`: what is written is in `Byte`, and
stays so in `writeBuffer` and in the tty).  `LineOffMeansOff` and `LineEchoesInOrder` then
follow from the theorems of `FirmwareProofs`, without a look at a step of either
part.  Assumption: `LineAssumption`, that the strings are made of the board's bytes.

`RobotProofs`, for any cube, solver, commands, calibration and keys, with resets and a line
that is disturbed at any time: `RunnerIsSound` (the inductive invariant `IInv` of `Robot`),
`EchoIsAccountedFor`, `TurnsAreOrdered` and `MotorsAreOff`.  Its first part is about
sequences: every program the builders make has the shape the runner relies on, that a Send
is followed by the Expect of the same string (`Paired`), that the first string powers the
motors and the last but one instruction takes the power away, with nothing but turns between
(`Enclosed`); for the calibration this goes over the rounds of `CalRounds`.  The second part
is the invariant.  `ProgramInv` is that shape, that the counter is in the program, what
the runner waits for, and where `loop()` may be in the middle of a call.
`EchoAccountsForCommands` and `PowerInv` depend on each other: which command the board is at
follows from how much of the string is left in its buffer, and how much is left from the
echoes that have come.  That a step of the board leaves what it owes unchanged is
`OwedStaysTheSame` of `FirmwareProofs`.  Assumptions: the named ones of `Firmware` and
`Robot`.

The third part follows the cube.  Every step is of one of five kinds (`StepIs`): it spoils
the line, it begins a program, it advances one instruction, it turns a layer, or it leaves
cube and program alone (`Rests`).  `SettledInv` says that after a wait the last pictures show
the cube as it is: a wait
ends only behind a picture that was taken and analysed in it, and a turn can only happen
while its echo is waited for.  `SeenInv` says that a solution was computed from a cube that
was recognised, and that while the calibration is right (`Trusted`) what was recognised
since the wait, or just now, is what the picture shows: right samples take a colour for
itself (`ClosestIsItself`), no two cubes look the same (`RightIsRecognised`), and nothing but
a look makes what was seen recent (`LookedStep`).  With them:

* `SolvedTimeIsRight`: `SolveInv` ties a clean automatic solve to a way of cubes from the one
  it began with to the solved one, and the cube to the place on it that the echoes have
  come to.  It is said for a right calibration only: by another one the solution of
  another cube may be computed and played.  Its hypothesis `SolutionsSolve` says that what the solver returns solves.  That
  is what `threaded_solver_prefix` refutes for the thread pool after a timeout, so the
  theorem is about solvers that were not out of time.
* `CalibrationIsTrue`: `CalInv` says that a colour learnt so far is right if the cube is at
  the state the calibration is at.  The cube need not have been solved when it began: since
  a turn takes no two cubes to the same one, being solved at the end means having been
  at every state before.  What the test finds is said for a calibration that is right when
  the test is saved.  Nothing but sampling makes one right, so it was right all through the
  test.  Hypotheses: `CalibrationCloses`, the command strings turn each of
  `calibrationStates` into the next and the last into the solved cube (which
  `PhasesAsDocumented` checks of the strings in the code), and `~Glare`, a picture of a cube
  at rest is recognised by a right calibration.

TLC evaluates `SolutionsSolve` on the instance of `robot_disturbed` and
`CalibrationCloses` on that of `robot`.

`CameraProofs`, for any set of buffers, any number and size of URBs and any length of frames,
with unplugging, suspending and failing calls at any time: `BuffersHaveOneOwner`,
`FramesAreWhole`, `NobodyWaits`, `ClockOutlives`.  `IInv` has three parts beside `OneOwner`:
`ProcessInv` says which process may be where when URBs are out, and that a handler has one of
those submitted; `FillInv` what is in each buffer: a waiting one is empty, and the one being
filled holds a part of the frame the camera is at, unless it is marked as bad or the camera
ended a frame without a word; `WaitInv` that the program has at most the buffer it
converts, so that what it waits for is either under way or nobody's, and that a camera that
is gone has none.  Every step is done once for each of the three lists of a buffer (`irqqueue`,
`done`, `posted`), which are concatenated so that a buffer is in them once.  Assumptions: the
named ones of `UvcQueue` and `UvcVideo`.

`UvcDriverProofs`, for any number of programs and any cameras: `StatusIsHeard` and
`DeletedLast`.  `CountInv` says what the two counters count: `users` the handles that
have a node open, `nstreams` the nodes that are not released and, for as long as it runs,
`uvc_unregister_video` itself.  `NodeInv` says that what is registered will be found again
when the camera goes, and that whoever is in a node keeps it from being released.
Assumptions: finitely many handles, and `CamerasAssumption`, that each
streaming terminal of a camera is in its chains once, which TLC evaluates on every camera
of the instance; a camera that would register a node twice is not spoken of.

`ChainsSoundCorrect` is of the chains, for any number of entities.  Its hypothesis is `Sensible`:
an id names one entity, and what a selector with several inputs selects is different and hangs
from nothing else (otherwise the property is false, see section 5); what it says besides of the
entities is what the parser makes of descriptors without a zero in them, and TLC evaluates it on
the cameras of the instance.  The entities are gone through by four folds: of the device, of the
turns of a scan, of what hangs from an entity, of a selector's inputs.  `FoldTable` and
`FoldSteps` make each of them a sequence of steps, over which `NatInd` goes.  `DeviceInv` says that the
chains kept so far have whatever their members refer to and use every input they have;
`ScanInv` and `Underway` that a scan has all that its members refer to but for the next entity, and
that what was added twice hangs from itself, which makes the next turn fail.  So what
hangs from an entity that has no links cannot be in a list: its one source is that entity, and
would be in the list, too.  `ScanEnds` counts: every turn links an entity that had no links,
so the turns of `ScanChain` are enough, and a loop of units ends.

`UvcCtrlProofs`, for any entities, product and requests, and any range inside a word:
`CacheHolds`.  `PhaseInv`
says which stage a transaction may be in, `DirtyInv` that what is dirty was set by this
transaction and read before unless it covers its control, `CacheInv` that a value
that is kept is the camera's, or is dirty and has the camera's under it in the backup.  Two
things about the tables are assumed by name and evaluated by TLC on the tables themselves
(`FlagsAgree`): a control that several fields share can be read, and what can be set
is restored after a reset unless the camera adjusts it.  `spoiled`, which begins
when a commit is refused half way, excepts what section 5 says of it.

`ReadsAreTrue` has no hypothesis: it is about every camera, also one whose hue, white balance or
focus is the slave of its automatic, and about programs that listen to events.  What it
excepts is in the property: a read of a control that is `aside`.  `ReadInv` says that
whatever changes by itself and is in the cache is dirty, `aside`, or being read.
`SetsAreDone` assumes `AskedInRange`, that a value asked for is the same signed and
unsigned; beyond it `uvc_ctrl_set` clamps a negative value as a large one, as the
code does, and `Nearest` does not.  TLC evaluates the hypothesis on the instance of `uvc_ctrl`.
`Foreseen` says of which fields the property speaks: not of a control the camera has changed
since the transaction began, nor of the fields that were not asked for in a control
that was `aside` then and is written now.  `SetInv` says that after each control what was wanted so far is in
the cache where it is dirty and in the camera where it is not; it is inductive only with
`IInv` and `ReadInv`, because a set changes what the cache holds of the rest of
the control.

`UvcV4l2Proofs`, for any number of threads and handles and any camera, first as long as no two
threads share a handle (`~Shared`): `PrivilegesAreKept` (the inductive invariant
`IInv`), `BuffersAreTheHolders` and the refinement `PrivilegesAreALock`.  A handle
gets its privileges in three steps: its state is tested, the count goes up, and either the
state is set or, when the count was not 0, the count goes down again.  So the count is
not the number of holders; `CountInv` says that it is that number and the number of those
who are about to undo their increment, and that at most one handle holds.  `PrivilegeInv`
says which state a handle has at each step of its thread.
`UseInv` says that a thread in an ioctl that needs privileges has checked them for its own
handle, and `BufferInv` that buffers and streaming are the holder's.  Who undoes is a set of
threads, so the steps from one count to the next are facts about cardinalities
(`FiniteSetTheorems`).  `TypeCorrect` and `BuffersAlwaysFit` need no such restriction:
`FitInv` says that what the camera was asked for, and what a thread that holds no lock is about
to assign, is a frame of the camera with its own size; another frame is assigned only while no
buffers are allocated.  Assumptions: `HandlesAssumption`, threads and handles are finite
sets, and `NumbersAssumption`, what descriptors and requests hold are numbers.

`LineProofs` has a third part: what the line carries, for texts of any length.
`translateMoves` and its reference are recursive functions, so their values are found by
induction over the natural numbers.  The library's theorem takes a predicate, which no
prover here can be given; `NatInd` takes a set of numbers instead, and `BoundedRecursion`
gives a function with the steps asked for.  `TranslationTypeCorrect`, `SameEffectCorrect`
and `CommandsChargedCorrect` follow from `IInv`:

* `Reading`: what is left of the text is the text of the turns not yet read, so the parser,
  which looks at one character or two, never loses its place; only a small letter
  with a 2 after it, which is a mistake and will be thrown at, leaves the 2 behind.
* `AxisOfLast`: the move that waits turns about the axis of the last turn read.  That makes
  the look-up of its command succeed, and ties it to the last of `Runs`.
* `SameSoFar`: the quarter turns of the commands put out and of the move that waits are those
  of the text so far, both reduced to a normal form in which turns of one axis are
  added up.  That a turn is added to the move that waits, or begins
  another one, leaves the normal form of the whole alone (`PutCanonical`, `ReduceTwice`).
* `ChargedSoFar`: no more commands than runs.  What is charged follows from the entries of
  the table, over which `HalfTurnsOfTable` goes.

The second half of `ThreadedSolverProofs` is about the cube, after any number of turns.

* `TurnsACubeCorrect`: the facelets implement `PhysicalCube`.  Every one of the 18 turn tables
  and the tables of the rotations is compared, place by place, with the geometry of
  `CubeGeometry` (`TableOfTurn`, `RotationMoves`).  The invariant `CubeIInv` says that the cube is a
  permutation of its stickers (`Whole`), which composing with a table keeps.
* `SearchMirrorsTheCubeCorrect`: each of the 21 disguises is a first turn, a rotation of the
  cube, or none; a turn of the rotated cube is the turn of the original that the way back
  names (`DisguisedTurn`).  A whole sequence of turns follows by `NatInd`, and with it that a text solves
  the disguised state exactly when its translation solves the state asked for.
* `CubiesAgreeCorrect`, the first half of `LevelsAgree`: with the cubies of `cubiecube.h`.  `JoinedInv` says that what is seen of
  the cube are its cubies, a corner's three stickers and an edge's two at a
  time (`Shows`).  A table of facelets and an entry of `moveCube` bring the same cubie to
  the same place with the same twist (`CubiesTurn`, one lemma for each face).
  That the tables of half and three-quarter turns are the first one applied twice and three
  times comes from the geometry, not from the tables.  `facecube.h` then reads the cubies
  from the facelets, and these from the cubies, because the colours of each corner
  and edge name it.

Only model-checked:

* Liveness (`CallsReturn`, `BytesArrive`, `AbortStopsMotors`, `RunsEnd`, `NoticeEnds`,
  `GoneIsDeleted`), because the prover has neither fairness nor `ENABLED`.
* `CoordinatesAgree`, the other half of `LevelsAgree`: ranking and unranking of permutations, by sums and folds over
  binomials; the coordinate of each of up to 40320 orders is beyond the provers.
* `VerdictsAsDocumented`: 63 painted cubes, each read by `verify` through folds.
* `PhasesAsDocumented`, of constant strings and states: what TLC evaluates is all there is.
* `NearestChosen`: continued fractions and rounding by division, non-linear arithmetic.

## 5. Findings

Two runs show a disagreement of the code with what the repository says of it:

* `threaded_solver2.cpp:531`: the shortest text may be that of a failed search
  (`threaded_solver_prefix`).
* `uvc_ctrl.c:1209` and `:1276`: an event reads a control that changes by itself into the
  cache behind the reset of `loaded` at `:1358`, and the next `VIDIOC_G_CTRL` returns that value,
  against the comment at `:1352` (`uvc_ctrl_hue`).  Such slaves are `HUE`,
  `WHITE_BALANCE_TEMPERATURE`, `WHITE_BALANCE_COMPONENT` and `FOCUS_ABSOLUTE`; a subscriber
  that wants the initial value reads any control.

### What the code does not guarantee

The properties of the passing runs except these cases, each of which comes from the code as
it is; the exception is visible in the property or in the bounds above.

* A wrong echo ends a program without its last `]`: the motors stay on
  (`cubedriver.cpp:1770`).  A program not started by the automatic solve waits for ever
  for a board that was reset.
* F2 clears the calibration before `runProgram` decides whether to fill it in again
  (`cubedriver.cpp:1548`), and while another program runs it does not: the comment at `:1547` says
  "zero out old calibration ( not necessary, but fun to watch fill in )".
* F2 pressed during F1's test empties the calibration the test recognises by
  (`cubedriver.cpp:1551`): every facelet becomes -1, `ValidateCal` (`:1803`) marks mismatches on
  a solved cube, and `SaveCal` (`:1810`) saves the empty calibration.  By a wrong
  calibration the wrong cube is recognised and its solution played, and the time is taken
  with the cube not solved.
* `Tools::verify` takes a corner whose colours go round the wrong way for another corner
  (`facecube.cpp:40`): two of them and two exchanged edges pass as solvable, against
  `tools.h:18`.
* `time_for_move_sequence.h:12` charges the speeds 6 to 9 as speed 2.
* `uvc_video.c:1603` replaces the bandwidth the camera asks for by 768 bytes.
* A frame closed by the next one's beginning is delivered without a look at its length, and
  buffers that are cancelled are delivered with an error; `capv4l2.cpp:289` does not look
  at `V4L2_BUF_FLAG_ERROR`.
* After a resume that failed while the program converts a picture, the queue takes buffers
  nothing fills, and `poll()` says nothing any more.
* A second `STREAMON` while streaming loses the samples of the clock.
* Two threads that free the buffers of one handle at the same time decrement `active` twice
  (`Shared = TRUE` in `UvcV4l2`).
* `VIDIOC_S_PARM` looks whether the stream runs and not whether buffers are allocated: those of
  a compressed format may become too small.
* An interval in a range is rounded half up and may go past what is asked for.
* A commit refused in the middle leaves the controls after it dirty, against the comment at
  `uvc_ctrl.c:1325`; the next rollback then restores an old value in the cache.
* A control the camera adjusts by itself that an event or a query of another control has left
  in the cache is read from there, once, and a set of a field beside it writes the
  old value back.  `UVCIOC_CTRL_QUERY` goes past the cache.
* A node that is opened before `uvc_status_init` gets no status while it is open.
* A selector that names one input twice puts it in the list twice, and the list loops; an
  input behind the selectors of two chains is in both, against `uvc_driver.c:1476`.

## 6. What is not modelled

Of the robot: the milliseconds of turns and searches; the enumeration of the two-phase
search and its pruning tables of millions of entries; random cubes; colour distances;
the cursors and the rest of the user interface; configuration files; the blocking class
`Serial`; step pulses and their delays.  Of the driver: bulk endpoints and output devices,
statistics, the interpolation of time stamps, menus and mappings that programs add, the
tables of quirks, and what a status event says.  The firmwares of earlier machines, the other
solvers and the drawings.  `PROJECT.json` has a line for each.

## 7. Plan

Done: the modules of section 2, in the order thread pool, firmware, program runner and
automatic solve, calibration, serial line, translation, tables, cubies and coordinates, the
line from end to end, the camera and its driver.

Proved: the pool, the board, the line and their composition; the tables of the cube, its cubies
and the disguises of the search; the translation of texts; the program runner, the time of a
solve and the calibration; the camera's queue and stream, its handles and formats, its
controls, its chains, probing and status.

Left, in this order:

1. `ColourAnalysis`: the orientation of the centres and the assignment of cursors
   (`cubedriver.cpp:887-1051`) on small sets of colours.
2. `TwoPhaseSearch`: the two nested searches of `search.h` over a small graph instead of
   the cube: which sequences of turns they enumerate, that what they return is a
   solution, and that none is missed because a distance is set to 10 (`search.h:176`).
3. The user interface's cursors, and the grabbers of the phase 2 firmware.

The runs stay few: a new question joins an existing run where the instance allows it.
