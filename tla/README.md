# TLA+ models of SoemMotroControl

SoemMotroControl is a motion controller derived from LinuxCNC: a peer sends
commands over TCP (HP-Socket), a realtime thread executes them once per servo
period, and another realtime thread exchanges positions with EtherCAT drives
(SOEM).  The repository has no prose documentation and no tests; the comments of
the code say what it is meant to do.  This directory models its control logic
in TLA+, model-checks it with TLC on small instances and proves the most
important results with TLAPS for every value of the constants.

## Inventory

| part | source | state it keeps | hard behaviour |
|---|---|---|---|
| socket receive path | `hal/hpsocket.c` 43-140, 289-368, 852-918 | ring of 64 frames, semaphore, `globalRunning` | library callback thread against a realtime thread; start-up code while callbacks are live; full ring; close |
| command mailbox | `hal/hpsocket.c` 378-628, `motion/command.c` 95-119 and 526-558, `motion/usrmotintf.cpp` 25-68, `task/taskintf.cpp` | one command structure, its number, its mutex bit, the echo | three writers and readers of different priority on two CPUs; the memory survives the process |
| motion controller | `motion/command.c`, `motion/control.c`, `motion/motion.c` | axis flags, motion flags, mode requests, planners | commands, pins and faults in any order over many periods |
| free-mode planner, cubic interpolator | `motion/simple_tp.c`, `kinematics/cubic.cpp` | position, speed, target per axis; four points, a counter | parameters and positions written by two other threads; numbers cut to whole positions |
| segment queue | `tp/tcq.c` | ring with a reverse history | full, empty, indices that wrap, slots reused |
| trajectory planner | `tp/tp.c`, `tp/tc.c` | queue of segments, place, pause, abort | segments appended, consumed and aborted while they run; speeds planned from segments that change |
| blend arcs | `tp/blendmath.c`, `tp/spherical_arc.c`, `tp/tp.c`, `tp/tc.c` | cuts at the ends of the segments | a segment is cut after it was planned, and twice |
| pose arithmetic | `libnml/_posemath.c`, `libnml/posemath.cpp` | none | singular orientations, arcs of several turns, in-place operations |
| HAL registry and threads | `hal/hal_lib.c` | components, functions, threads, function lists in shared memory | lists changed while realtime threads walk them |
| RTAPI | `rtapi/uspace_common.c`, `rtapi/uspace_rtapi_app.cpp`, `rtapi/rtapi_mutex.h` | shared-memory handles, ids, tasks, log | segments and mutexes that survive a crash; late passes; cancellation |
| drive thread | `hal/ServoEnable.c` | positions of the simulated drives | as built it echoes positions, at any moment of the period |
| status read | `motion/usrmotintf.cpp` 70-140 | head and tail counters | split reads |
| task | `task/taskmain.cpp`, `task/taskintf.cpp` | start-up, main loop, shutdown | signal at any time |
| teleop planner, watchdog, `rt_queue.c`, timers | `motion/axis.c`, `task/watchdog.c`, `hal/rt_queue.c`, `libnml/timer.cpp` | | not in use in this program |

The threads, with what decides their interleaving (`uspace_rtapi_app.cpp`
`task_start`, `makeApp`; `hal_create_thread` calls):

- the HP-Socket callback thread (ordinary, any CPU);
- `client_p`, SCHED_FIFO 96 on the last CPU: `ProcessTask` every 10 ms;
- `client_s`, 95: `ClientThreadData`, the status sent to the peer;
- `motion-thread`, 98, the same CPU: `emcmotCommandHandler`, then
  `emcmotController`, once per period;
- `ecat_thread`, 99, the same CPU: positions to and from the drives;
- the task (main thread), ordinary, any other CPU.

So `motion-thread` preempts `client_p` between any two of its stores and is never
preempted by it, while the task runs truly in parallel.

## Modules

| module | models | runs |
|---|---|---|
| `SocketRx` | the receive path | `socket_rx` |
| `FrameFifo` | what the ring promises: a bounded FIFO | through `ImplementsFifo` |
| `CommandPath` | the command mailbox | `command_path`, `command_path_restart` |
| `MotionControl` | commands and servo period: the mode machine | `motion_control` |
| `AxisMotion` (`MCAxisMotion`) | one axis with its numbers: jogs, free planner, interpolator, drive thread | `axis_motion` |
| `TrajPlanner` | the coordinated planner | `traj_planner` |
| `PlannerContract` | what `MotionControl` relies on of the planner | through `ImplementsContract` |
| `TcQueue` | the segment queue | `tc_queue`, `tc_queue_reverse` |
| `SegmentTape` | what the queue promises: a tape that can run backwards | through `ImplementsTape` |
| `BlendPlan` (`MCBlendPlan`) | blend arcs between the segments | `blend_plan` |
| `PoseMath` | the operators of `libnml` and the paths of `tc.c` | through `Geometry` |
| `Geometry` (`MCGeometry`) | a pose and a path under any sequence of those operators, beside what they should be | `geometry` |
| `HalRegistry` | components, functions, threads and their function lists | `hal_registry` |
| `Rtapi` (`MCRtapi`) | shared memory, ids, periodic threads, log; start, kill, restart | `rtapi` |
| `RingProofs` (`SocketRx`, `TcQueue`), `CommandPathProofs`, `MotionControlProofs`, `AxisMotionProofs`, `TrajPlannerProofs`, `BlendPlanProofs`, `RtapiProofs`, `HalRegistryProofs` | theorems about these modules | (proofs only) |

How they fit together. `SocketRx` hands a frame to `ProcessTask`, whose stores
`CommandPath` follows to the handler; `MotionControl` and `AxisMotion` take the
command as one value and follow what it does, the first over modes, faults and
inputs, the second over positions and speeds. Their coordinated planner is a
queue of a few counters; `TrajPlanner` shows that the planner of `tp.c` is such
a queue (`PlannerContract`), `TcQueue` that the ring of `tcq.c` is the sequence
`TrajPlanner` and `BlendPlan` use, and `Geometry` that the place and tangent
they take for granted are those of the segment. `HalRegistry` and `Rtapi` lie
below: the first shows that the periodic calls of the handler and the controller
come, in their order; the second that they come on time, and that a restart
finds the shared memory `CommandPath` speaks of.

Each run takes its constants from the `.cfg` of its name (a definition of the MC
module where a value is too long for it); the specifications are checked as
they are, without overrides.  A definition `D_Something` next to `D` is a plausible
mistake in the code of `D`; replacing `D` by it must violate a property.

### SocketRx

State: the ring (`slots`, `head`, `tail`, `length`, as `RING_BUFF_t`), the owner of
its mutex, the semaphore, and a program counter per thread.  A mutex or
semaphore call is one step, the code between two of them another; the four
stores of `init_socket_comm_buffers` are steps of their own because the
callbacks are already registered when they run.  A frame is a value nobody
looks into.  `delivered` and `late` are histories.

A slot is `buffByte` (256) bytes after the one before, while `buffer_storage` has
128 for each: `Inside` holds for the first half of the slots only.  A copy to one
of the others ends the process (the build has `-fsanitize=address`) or lands in
memory that other variables own, which may change it at any time
(`OwnerStores`); what the copy does to those variables is not modelled.  So
`FrameFifo` keeps the content of the frames stored inside the storage, its `Sound`
slots, and of all frames only the order and the number.

### CommandPath

Every field of `emcmotCommand` holds the frame it was stored from, so tearing is
visible as a mixture of frames.  `Stores` lists, per command, the order in which
`ProcessTask` stores; the motion thread may run between any two stores, and
`client_p` moves only while it does not.  The task's shutdown copies the
structure field by field under the mutex.  `Restart` ends the process at any
moment and starts it again over the same memory; what
`init_motion_comm_buffers` does not reset keeps its value.  After the handler the
motion thread goes on to the controller, whose loop of the coordinated mode may
never end (`control.c:580`): once that mode was asked for, and with motion
enabled, every period may be such a one, in which the thread keeps the CPU from
`client_p` and from the handler for ever (`spin`).

`TearIsBounded` says what a torn command is made of. Its command, number and
axis are from two frames stored one after the other. Its parameters may be from
a third: a DOWNLOADS_CONFIG stores its command and number before its parameters,
so it can be executed with those of the last frame that had any; and a jog or a
line stores parameters before its command and number, so the frame before it can
be executed with them. While the threads run nobody but the handler takes
`command_mutex`; it is tried in vain only at shutdown, by a last period, and
after a kill, which are in `command_path_restart`.

### TcQueue

One action per function of `tcq.c` that changes the queue; a call that the code
refuses changes nothing.  `Ops` selects the operations the planner uses:
`tcqRemove` has no caller, `tcqPopBack` is called when segments are consumed by
blending and `tcqBackStep` when motion runs backwards.  `tcqFull` would warn an
appender before it reaches the reverse history, but nobody asks it: `tcqPut` goes on
to the last slot.  `crowded` is a history that says so: a put has used the last
slot between the newest segment and the oldest of the reverse history.  Until
then the history is intact and the queue the tape (`HistoryIntact`,
`TapeUntilCrowded`); after it `tcqPut` overwrites segments `_rlen` still counts.

### MotionControl

The axis flags and planner fields are sets of axes, the motion flags a set of
bits.  A period is five steps in the order of `emcmotController`, after at most
one command.  Positions, velocities and limits are abstracted: a free planner
is enabled or not, has speed or not, and what one period makes of it is a
choice within what `simple_tp_update` allows; the coordinated planner is its
queue length, `done` and `aborting`.  Inputs of the drives are free choices for
active axes.  A command is one value here (`CommandPath` models its parts), but
the enable pin, which `ProcessTask` writes before the command, is a step of its
own.

Left out: the ERROR and axis INPOS bits, the soft limit flag and the misc
errors (`numMiscError` is 0), which nothing but reports reads; DOWNLOADS_CONFIG,
which sets numbers; PAUSE and SET_CIRCLE, which nobody sends.

### AxisMotion

One axis in three threads on one CPU: `ecat_thread` (99) may run between any two
steps of `motion-thread` (98), `client_p` (96) only between two periods. A
period is one second, so speeds are distances and the arithmetic is exact; casts
to `int32_t` round down, as they do for the positive positions of this machine.
A jog or a line is three steps of `ProcessTask`, acceleration, speed and number,
and a command of the enable pin two, because a period in between overwrites
`vel_cmd` and `acc_cmd`, or sees the pin without the command. The pin is one for
all axes: enabling and disabling another one moves it too. `PlanFree` and
`Publish` split the free-mode period where the drive thread can write the
planner's position. `weak` is a history: a jog took acceleration away from an
axis in motion, or picked up the negative speed a period had stored. Left out:
faults and limit pins (in `MotionControl`).

### TrajPlanner

A pose is its distance along the path; a period is divided into parts so that a
split period is exact, and what falls between two grid points is rounded the
way the comment of the module says.  Every period begins with `tpSetPos`, by which
`handle_interpolation` sets `currentPos` and `goalPos` to where the axes are; the
model counts from there: `ahead` is goalPos less currentPos, `owed` what the moves
have asked for and not been given.  One step per call of `tpAddLine`/`tpAddCircle`
(with `tpRunOptimization` over the queue), `tpAbort`, `tpPause`, `tpClear`, and one
per `tpRunCycle`: stopping, activation, acceleration by the trapezoid or the ramp,
the end condition, the split, parabolic blending being off, and completion.
`id` is `emcmotCommand->id`, which no code of the program sets: with the value it
has, 0, `tpCompleteSegment` fails for every segment, because 0 is also what
`waiting_for_atspeed` holds.  The runs check this value, `Stuck`, beside a value
with which segments are removed.  `TypeOK` is a conjunct of `PathConserved`; that no
speed passes the largest one is one of `CanStop`.

### BlendPlan

What `tpAddLine` and `tpAddCircle` do to the last two segments when blending is on
(nothing in this program sets `arcBlendEnable`; the code is complete without it).
Corners are taken from a set with rational sine and cosine; lengths and speeds
are whole numbers rounded in the direction the code's bound needs.  The last
tests of an arc, on curves, and the speed the segments could reach are free
choices, so the properties hold whatever those tests decide.

### PoseMath and Geometry

Rotations by quarter turns are exact in integers: a quaternion is held with its
four components scaled, a sine is -1, 0 or 1.  `PoseMath` translates the
conversions between matrix, quaternion, axis and angle, roll-pitch-yaw, ZYX and ZYZ
angles and rotation vector, products, inverses and comparisons, and lines,
circles, spirals and helices with their points, tangents, `pmCircleStretch` and the
cuts.  `Geometry` applies any sequence of them to one pose next to a rotation
matrix computed by matrix multiplication, and makes and cuts one path next to
the path it was made as.  Its steps store into an object of their own, as the
functions of `_posemath.c` are meant to be used.  The classes of `posemath.cpp` pass
the first operand as the output as well, and most of what they return is no
rotation any more: `axisAngleMult` and the operators `InPlace` compute what they
return, and `ProductsInPlace` and `InverseInPlace` say exactly when it is right.

### HalRegistry

Singly linked lists, touched only under the mutex, are sets and sequences.  The
function lists keep `next` and `prev`, because `thread_task` walks them without the
mutex: a call that links or unlinks an entry is several steps with a walk in
between.  The order of the stores in `hal_add_funct_to_thread` is what `PassSound`
depends on.  A pass from which an entry was unlinked (`dirty`) is only promised
less, as in the code, where the callers stop the threads first.  With no entry
left `alloc_funct_entry_struct` links a null pointer before it is tested, which ends
the process (`AddWithoutRoom`).

### Rtapi

`Startup` is the sequence of RTAPI calls `emctask_startup` makes, each executed with
its handle search, counts and mutex; any `shmget` may fail.  Then the threads run
on a clock that may leap over several periods, the log takes messages and
`queue_function` prints them, the exit cancels it, and a kill may come anywhere.
What the segments of the operating system hold survives: the mutexes, and the
counter of ids, over which the drive thread stores a pointer.

## What the runs show

| run | bounds | distinct states | result |
|---|---|---|---|
| `socket_rx` | 4 slots, 2 of them inside the storage, 2 frames, 5 chunks | 28,796 | FIFO, a wake-up per frame, service, at most one frame after the close |
| `command_path` | 3 frames of 6 commands, one of each order of stores and SET_COORD | 171,212 | bounded tearing, numbers in order, every new number echoed or the loop |
| `command_path_restart` | 2 frames, a signal, one kill and restart | 891,404 | isolation of the task's copies, shutdown ends, one replay at most |
| `tc_queue` | size 4, margins 2 and 1 | 9,001 | tape, exact `allFull` at every fill level |
| `tc_queue_reverse` | size 6, margins 2 and 1 | 42,631 | newest segment right; tape with running backwards and intact history until crowded |
| `motion_control` | 1 axis, every command and input, one restart | 1,173,609 | still when off, faults trip, modes at rest, the pin stops motion |
| `axis_motion` | 2 jogs or lines of the client, or 4 other commands, 1 late and 1 untimely run of the drive thread | 882,730 | within limits, no jumps, jogs end |
| `traj_planner` | 4 moves of 3 lengths, queue of 3, period of 4 parts | 158,802 | nothing queued lost, can always stop, smooth, comes to rest, the contract |
| `blend_plan` | 3 moves of 10 kinds, 4 corners, 2 speeds | 63,758 | connected, cuts fit, tolerance and acceleration kept |
| `geometry` | offsets of one unit, 4 lines, arcs of 3 normals, 3 radii, 2 heights, 4 turn counts | 28,948 | same pose, conversions agree, paths sound |
| `hal_registry` | 2 threads, 2 functions (one reentrant), 2 entries, 2 ids | 1,817,424 | consistent between calls, passes sound, no reentry |
| `rtapi` | 4 threads, 4 handles, log of 2, clock to 5, 2 sessions | 895,074 | handles sound, on schedule, log kept, start-up ends |

The bounds are enough because the code's cases depend on few things.

- Rings: empty, partly filled and full, and pairs of successive frames.  Four
  slots, the last two outside the storage as the last 32 of 64 are, and five chunks
  wrap the ring and fill it; three frames let a handler meet two frames and any
  third that would mix in; a queue of size 4 with a history of 2 has every
  relation of start, end and rend, one of size 6 room for a history that is full
  and not yet overwritten.
- Axes: one axis exercises every flag, and the theorems hold for any number.
- `axis_motion`: two jogs, a jog that is interrupted between its stores and a
  second one that brakes or turns it, or a jog, a disable and an enable, fit in
  four steps (a jog or a line takes two of them, another command one); the
  speeds and accelerations include a jog that brakes exactly, one that stops
  short and one that takes acceleration away.
- `traj_planner`: a queue of three has a first, a middle and a last segment; the
  lengths are none, one shorter than a braking distance, and one several periods
  long; a period of four parts has every kind of split.
- `blend_plan`: three segments are what a line cut at both ends needs.
- `hal_registry`: a list of two entries has a first and a last one to link around;
  two threads are needed for the double use of a function.
- `rtapi`: two sessions are a kill and what it leaves; a clock that
  goes on for several of the shorter periods has a late pass, a second that carries
  and a leap over two periods.

Exceptions a property names are cases the code does not cover: `weak` in
`WithinLimits`, `Stuck` in `Smooth` and `ComesToRest`, `crowded` in
`HistoryIntact` and `TapeUntilCrowded`, the slots outside the storage in
`ImplementsFifo` and the copies there in `FrameServed`, the endless loop in
`EchoCatchesUp` and `PinOffStops`, the twice-cut line in `CutsFit`,
the orphaned mutex in `StartEnds`, the conversion and the operators in place in
`ConversionsAgree`.  They are
listed with their lines under the disagreements.

Deadlock is checked in `tc_queue`, `tc_queue_reverse` and `motion_control`. In
the others the system may stop: the peer may send no more, the bounded moves or
steps are used up, a process that has exited or was killed does nothing, a write
through a null pointer or outside the ring's storage ends it,
`hal_thread_delete` waits for itself.

### Fairness

- `SocketRx`: the start-up code and a callback in progress finish; `client_p` is a
  periodic realtime thread.  The peer is under no obligation.
- `CommandPath`: `motion-thread` is periodic (weak fairness of the handler); it
  leaves the CPU to `client_p` between periods, which is held off again and
  again but never for ever (strong fairness of its stores); the task, on another
  CPU, finishes its shutdown.
- `MotionControl`: weak fairness of `motion-thread`, which only `ecat_thread` can
  preempt.
- `AxisMotion`: weak fairness of both, each a periodic realtime thread with the CPU
  before all others.
- `TrajPlanner`: the controller asks for a point in every period, so `tpRunCycle`
  comes again and again (or would change nothing, `Idle`).
- `Rtapi`: the main thread runs on unless a mutex holds it, and the printing thread
  never blocks.  No fairness is assumed of the clock, the kernel or the peer.

## What is proved

With TLAPS, for every value of the constants that satisfies the named
assumptions of the modules:

- `RingProofs`, the two rings, which share the arithmetic of wrapping indices.
  For `SocketRx`: when the start-up code is done before the peer sends, type
  correctness, the refinement of `FrameFifo` for every number of slots and size
  of slot, storage and frame, and a wake-up per frame; and always at most one
  frame after the close. With the numbers of the code half the slots are
  `Inside` (`HalfTheSlotsInside`). The inductive invariant ties `tail` to `head`
  plus `length`, says that the slots between hold frames, that the holder of the
  mutex is the thread inside, and that a slot half written lies outside them:
  without the last part a copy could not be shown to leave the FIFO unchanged.
  For `TcQueue`: as used today (no `tcqPopBack`, no `tcqBackStep`) the queue is
  type-correct, `allFull` is exact and the queue refines `SegmentTape`, whatever
  the appender does. The invariant: `end` is `_len` slots after `start`, and
  those slots hold segments. On a queue larger than its margin and without
  `tcqRemove` the refinement also holds with taking back and running backwards,
  and the reverse history is intact, until a put uses the last free slot,
  whatever the appender does (`TapeUntilCrowded`, `HistoryIntact`). The
  invariant adds that until then segments to run and history together do not
  fill the ring, which is what keeps `tcqPut` off the history, and `tcqFull`
  warns before it ends. Either way the slot `tcqLast` reads, the one before
  `end`, holds the segment put last (`LastIsNewest`).
- `MotionControlProofs`: type correctness, `OffMeansStill`, `FaultTrips` and
  `ModeChangeAtRest`, for every number of axes.  The invariant adds that planners
  hold motion only in the mode they belong to, that the state is the one the
  flags stand for after `set_operating_mode`, and that INPOS left by a period means
  rest: an inactive axis that still slows down is why `ModeChangeAtRest` speaks of
  active axes only.
- `CommandPathProofs`: type correctness, `TaskCopyIsolated`, `NumbersInOrder` and
  `ReplayIsSingle` for any number of frames, kills and restarts; `TearIsBounded` when
  no process was killed (`MaxRestarts = 0`; after a kill in the middle of the stores
  the memory may hold a mixture of its own).  The invariant says which stores are
  pending: what `ProcessTask` has still to store holds the frame before, the rest the
  frame it is at, and a jog stores its number before its command, every other
  frame after it; which frame the parameters are from, which a configuration stores
  after its number and a jog or a line before it; and a number not yet echoed is
  newer than all that were executed.
- `AxisMotionProofs`: `WithinLimits` for any jogs, speeds, accelerations, limits
  and lag of the drive thread. The invariant (`AxisInv`) says that the planner
  can brake before either limit (`Brakes`: the square of its speed is at most
  twice the acceleration times the room, plus one step of the acceleration),
  both from where it is and from where the drive was last told to be, since
  `ecat_thread` may set it there at any moment (`Braking`). An update keeps
  that, because the speed asked for is one the planner can stop from
  (`RequestReaches`, which also shows that the search of the model finds one)
  and a speed that is not asked for is one it is braking to (`StepIsSafe`). That
  set back in the middle of a period it can still brake needs `Aligned`: between
  updates a planner that moves is where the drive is, so the step that is taken
  back is the one that was just added; a step from rest is short enough wherever
  it is set (`SetBackBrakes`). A jog that picks up the negative speed a period
  has stored has none to ask for that would keep it within the limits; it is the
  second case of the `weak` the property excludes.
- `TrajPlannerProofs`: `PathConserved` and the refinement of `PlannerContract`,
  for any queue size, period, lengths, speeds and accelerations. The invariant
  (`PathInv`) adds to `PathConserved` that a segment to be removed is at its
  end; that goalPos is between currentPos less the last displacement and
  currentPos plus what is owed (`GoalIsNear`) follows from `tpSetPos` setting
  both to one place at the start of every period. One lemma per function of
  `tp.c` says that it keeps the lengths of the segments and moves none of them
  back (`Advanced`) or moves none at all (`Kept`): the speeds, from roots and
  quotients, are integers, `tcUpdateDistFromAccel` keeps what they do to a
  segment within its length whatever they are, and `tpCheckEndCondition` splits
  a period within the period. What the segments move on is then what they have
  less to go (`AdvancedToGo`), and a segment at its end takes nothing with it
  (`RemovedToGo`). For the refinement it is enough that neither the walk of
  `tpRunOptimization` nor a period changes the number of segments.
- `BlendPlanProofs`: `PathConnected`, `CutsFit` and `ArcAllowed` for any segments,
  corners, tolerances and speeds, however the appends and the run of the head
  interleave.  For the first the argument does not look at a length:
  `tcConnectBlendArc` cuts both segments by the distance the arc stands at,
  everything else on the way leaves ids, cuts and finality alone (`Untouched` and
  `Blended`, one lemma per call).  The strengthening (`Sound`) adds that the last
  segment was programmed and is not yet cut at its end, and that the ids given
  are below the next one.  The other two rest on the numbers of
  `blendComputeParameters` (`Fits`): the radius planned is at most the one the
  geometry allows, so the arc stands no farther from the corner than half of
  either segment and than the tolerance lets it (`ParametersAllowed`), and rounding
  the radius up never takes it past that bound, because the speed was rounded
  down from it.
- `RtapiProofs`: `OnSchedule`, `LogKept` and `HandlesSound` for any number of
  threads, periods, queue sizes, kills and restarts, and a clock without bound.
  A timespec is the quotient and the remainder of a time by `OneSec`;
  `rtapi_timespec_advance` does on the pairs what + does on the times
  (`AdvanceIsPlus`), `rtapi_timespec_less` what < does (`LessIsLess`), whatever
  `OneSec` is. What is owed to the reader of the log is what is in the queue and
  in the hand of the printing thread. For the handles the invariant
  (`HandleInv`) compares the table with the one that the calls made so far lay
  out in a new process (`LaidOut`): each key at the place its first call finds
  free, counting the calls that attached to it, whatever segments the last
  session left; a segment has no size or the one its first caller asks for,
  since the next session asks in the same order; and an id is new because every
  id of the session is at most the counter until the threads run. It assumes
  what the code takes for granted (`SegmentsFit`): that `shmem_array` has three
  entries and that the motion structure fits in the pages of the socket
  structure.
- `HalRegistryProofs`: `RegistryConsistent`, `PassSound` and `NotReentered` for
  any number of threads, functions and entries and any order of calls and walks.
  The invariant (`HalInv`) describes the memory as rings: every entry is in
  exactly one of them, `next` leads round it and `prev` back, or it is in the
  hand of the call in progress (`ListsSound`). `ChainOfRing` shows that walking
  `next` from a root reads the ring there, and one lemma per list operation that
  the rings are laid out again with an entry put in, taken out or a whole list
  given back (`free_thread_struct`). Counts are compared with the entries less
  the one being added, which its call has not counted yet (`FunctsSound`); that
  two entries never call the same function unless it is reentrant is what
  `NotReentered` comes down to. For the walks (`WalkSound`) a pass that nothing
  was unlinked from stands at a place of its list, has called each entry up to
  there at most once, and has before it every entry linked since it began that
  it has not called: an entry added behind it is not called by this pass, one
  added in front is, and neither disturbs the order.

Only model-checked: the liveness properties (`FrameServed`, `EchoCatchesUp`,
`ShutdownCompletes`, `PinOffStops`, `ComesToRest`, `JogEnds`, `StartEnds`),
because liveness under fairness and ENABLED are out of the prover's reach;
`CanStop` and `Smooth` of `TrajPlanner`, which are not true of every grid,
because each speed is rounded on its own (TLC breaks `CanStop` on a grid with
`Period` 1, lengths 5 and 11 and accelerations 5 and 2, `Smooth` with lengths 7
and 10 and accelerations 2 and 1); `NoJump` of `AxisMotion`, which depends on
the numbers of the run (the feed of the lines against the largest speed, the lag
of the drive thread against the following error); and everything about
`Geometry`, whose properties are about numbers over small tables. A function
defined by recursion (`Total`, the walk of `tpRunOptimization`) is reasoned
about through the set of the places where the claim holds (`SetInduction`,
`RecursionExists`), since the induction theorems of the library take an operator
as a parameter.

## Disagreements between code and comments

Behaviour met while modelling that a comment contradicts or nobody can have
meant.  The models have the code as it is; a property that would state the
comment's version is not checked, one that bounds the damage is named.

Socket and mailbox:

- `hpsocket.c:867`: `sem_init` is called while the receive callback is live, so a
  post made just before is wiped out and its frame waits for the next one
  ("通知处理线程有新数据", line 352); line 864 sets the mutex free in the same way,
  whoever holds it.  What the ring promises holds of chunks that arrive once
  start-up is over.
- `hpsocket.c:862`: `buffByte` is twice the room of a slot, so slots 32 to 63 lie
  outside `buffer_storage`; the check at line 85 ("检查读取地址是否有效") compares with
  the same product and never refuses.  `ImplementsFifo` promises the content of the
  slots inside only.
- `hpsocket.c:416`: `ProcessTask` stores the command without `command_mutex`, which
  `motion_struct.h:13` says is "Used to protect access to `command`": a mixture of
  two frames, and of three with the parameters of a configuration, can be
  executed.  `TearIsBounded` says which mixtures.
- `hpsocket.c:483`: a jog increments `commandNum` before it stores the command, so a
  handler in between repeats the earlier command under the new number.
- `hpsocket.c:376`: the payload length minus 4 is unsigned, so a frame shorter than
  4 bytes passes every size check.
- `hpsocket.c:736`: an early return of `ClientThreadData` leaves its mutex locked.
- `motion.c:194`: `init_motion_comm_buffers` keeps the command an earlier
  process left, so a restarted program may enable motion although it "starts up
  disabled" (`motion.h:329`). `ReplayIsSingle` says that this one command is
  all.
- `motion.c:200`: `coordinating` survives a restart ("starts up in free mode").
- `motion.c:168`: a process killed inside the handler leaves `command_mutex` set,
  and the handlers of every later process give up.
- `taskmain.cpp:201`: the threads are stopped before ABORT and MOTION_DISABLE are
  written, so these are never executed; the JOG_ABORTs before them name axis -1
  (`taskintf.cpp:81`), of which the handler would take the address.
- `usrmotintf.cpp:36`: the number of the task's command is commented out, and the
  poll for its receipt succeeds or times out regardless of it.
- `usrmotintf.cpp:70`: a copy of the status begun before `head` is raised and ended
  before `tail` follows has equal marks and mixed contents.

Controller and axes:

- `control.c:289`: the hard limit check asks for the override mask, which is 0 in
  every state, so an axis on its limit switch never trips.
- `control.c:446`: SET_FREE sets the FREE flag and nothing ever clears the COORD
  flag, so the controller, once coordinated, stays coordinated until restarted.
- `control.c:271`: the enable input ("motion inhibit input") is looked at only
  while motion is on, so MOTION_ENABLE with the input off enables it for a period.
- `control.c:580`: the loop of the coordinated mode waits for a point of axis 0 and
  gives points to active axes only; with axis 0 inactive it never ends (`Spinning`).
- `control.c:111`: every period sets the coordinated planner to the position of the
  axes, which `tp.c:430` reserves for initialisation and mode changes: a line of
  3000 moves the axis by 997 (`AxisMotion`).
- `control.c:201`: the limit of the following error uses the signed speed, so
  negative jogs get only the smallest one.
- `control.c:650`: with motion off an inactive axis takes a feedback nobody updates
  as its position.
- `command.c:142`: an axis activated while motion is on keeps the enable flag it
  had, and without it its faults are not looked at.
- `command.c:156`: AXIS_DISABLE freezes a jog, AXIS_ENABLE resumes it at its speed.
- `command.c:56`: an axis past its upper limit refuses every jog, back ones too,
  because `Maxvel` is never negative.
- `hpsocket.c:483`, `control.c:544`: a jog with a lower acceleration makes a moving
  axis overshoot its limit; and one whose stores a period overwrites goes with the
  speed of the planner itself, without acceleration: if that is negative, it runs
  past the limit (`weak`).
- `simple_tp.c:28`: with an acceleration below 1000 the planner stops one position
  short and stays active for ever.

Planner and geometry:

- `tcq.c:137`: `tcqPopBack` leaves `allFull` set on a queue that has room again.
- `control.c:838`: `tcqFull` is published and nobody reads it, so a long program
  overwrites the reverse history (`crowded`).
- `tp.c:430`: `tpSetPos`, "Used only at TP initialization and when switching modes",
  is called in every period (`control.c:111-118`).  It sets `goalPos` to where the
  machine is, so a move added to a queue that is not empty starts there, not at
  the end of the queue (`PathConserved` bounds by how much).
- `tp.c:2172`: `waiting_for_atspeed` and the id of every segment are 0, so no
  finished segment is ever removed, an abort never ends and the queue fills up
  (`Stuck`).
- `tp.c:3035`: `tpIsMoving` holds always, so `tpSetRunDir` always refuses.
- `blendmath.c:571`: at a corner with a circle the planned speed is 0, so blends
  with circles never pass the test of their own speed.
- `tp.c:526`: a line whose start a blend has cut may be cut at its end behind the
  place the tool has reached, because the test for half of it done looks at what
  is left of it (`CutsFit`).
- `tp.c:1583`: with the queue full, the arc is refused after the line before it was
  shortened; the path then has a gap.  `BlendPlan` has no full queue.
- `tc.c:244`: the radial part of a spiral's tangent leans with its height.
- `_posemath.c:1194`: at a pitch of -90 degrees `pmMatZyxConvert` reads `m.y.z`,
  which is 0 there, for `m.y.x` (`ConversionsAgree`).
- `posemath.cpp:1009`: `inv` of a matrix or of a homogeneous transform passes it
  as input and output, which overwrites elements before they are read.
- `posemath.cpp:440`, `:1336`, `:1351`, `:1366`: so do `axisAngleMult` and the
  operators `*` of two quaternions, two matrices and two poses:
  `pmQuatAxisAngleMult` and `pmQuatQuatMult` read `s` after storing it,
  `pmMatMatMult` columns it has replaced, `pmPosePoseMult` a translation it has
  replaced (and `_posemath.c:655`, in `pmLinePoint`, multiplies into its second
  factor). No quarter turn comes out right (`ProductsInPlace`). The operators
  have no callers here.
- `_posemath.c`: the angle of spherical coordinates is measured from the pole in the
  Cartesian conversions and from the plane in the cylindrical ones.

HAL and RTAPI:

- `hal_lib.c:98`: `hal_init` never stores the name of a component, so its test for a
  unique name never refuses.
- `hal_lib.c:1382`: the pins of a component that exits stay; segments are never
  removed, so a second start fails on its pins until the HAL segment is removed
  by hand (the restarts of `CommandPath`, `MotionControl` presuppose that).
- `hal_lib.c:689`: `hal_thread_delete` takes the mutex and calls a function that
  takes it again; it has no callers.
- `hal_lib.c:60`: handle 0 stands for no segment, and is a valid handle; the
  segment of the ids has it, so the HAL never does (`HandlesSound`).
- `hpsocket.c:784`: the socket module asks for 68 bytes under the key of the motion
  module, which needs 1728; pages of 4096 bytes make it fit (`HandlesSound`), and
  both write there.
- `ServoEnable.c:640`: `usrecatInit` is never called, so the drive thread's
  structure is handle 0, the segment of the ids, and a pointer replaces the
  counter; after a restart an id may be negative, and start-up gives up.
- `uspace_common.c:235`: a mutex a killed process held makes the next start spin for
  ever (`StartEnds`).
- `uspace_common.c:85`: the retry of `shmget` compares `errno` with `-EPERM` and
  never runs.
- `uspace_rtapi_app.cpp:438`: the first two passes of a thread are two periods
  apart.
- `uspace_rtapi_app.cpp:720`: a full log drops messages without a trace, and what is
  logged after `stopprintf` is lost.

## Not modelled

- The status read, the send side of the socket (`ClientThreadData`, one mutex around
  a copy and a send) and the client's reconnection: the main loop and the peer only
  show what they get, nothing decides by it.
- Spindle synchronisation, rigid tapping, reverse running and rotary locks of
  `tp.c`: nothing in this program can turn them on.  Parabolic blending needs a
  terminal condition `tpSetTermCond` would set, which has no caller.
- Teleop axes and external offsets (`axis.c`): called, but without a speed or an
  acceleration, which nobody sets, they never move.
- Rotations by other than quarter turns, rounding of floating point, and the
  curves on which the last tests of a blend arc lie: out of TLC's reach.
- Pins, signals and parameters of the HAL: created at start-up, never removed.
- `task_delete`, pause, resume and the clock correction of tasks, `hal/rt_queue.c`,
  `task/watchdog.c`, the EtherCAT bring-up of `ServoEnable.c`: no callers.
- The vendored libraries and the generated build files.

What would come next, if the program grows: a model of the status read when
something decides by it; `TrajPlanner` with blend arcs from `BlendPlan` once
`arcBlendEnable` is set.
