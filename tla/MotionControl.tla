---------------------------- MODULE MotionControl ----------------------------
(* The mode machine of the motion controller: the commands of                 *)
(* src/motion/command.c and the servo period of src/motion/control.c, which   *)
(* motion-thread runs one after the other.  A period is the steps             *)
(*   idle -> inputs -> faults -> mode -> pos -> out -> idle                   *)
(* and client_p, the writer of commands, shares the CPU with the lower        *)
(* priority, so it moves only between two periods.                            *)
(*                                                                            *)
(* The bits of axis->flag and the planner fields are sets of axes.  Positions *)
(* and velocities are left out: a planner may be far from its goal or not,    *)
(* and its speed zero or not.  The bits that are only reported (ERROR, axis   *)
(* INPOS) are left out too.  CommandPath models how a command is stored and   *)
(* read; here a command is one value, and a newer one overwrites it.  A       *)
(* definition named D_Something is a mutated form of D that no action uses.   *)
EXTENDS Integers

CONSTANTS
  EMCMOT_MAX_AXIS,  \* axes of the build (3)
  numAxes,          \* emcmotConfig->numAxes, the axes a jog may name
  QueueSize,        \* capacity of the segment queue (2000)
  Inputs,           \* which of FAULT, FERROR and LIMIT the drives may raise
  Commands,         \* the commands the clients send
  MaxRestarts       \* bound: times the program is started again

Axes == 0 .. EMCMOT_MAX_AXIS - 1
Pins == {"FAULT", "FERROR", "LIMIT"}
AxisCommands == {"AXIS_ENABLE", "AXIS_DISABLE", "JOG", "JOG_ABORT"}
GlobalCommands ==
  {"MOTION_ENABLE", "MOTION_DISABLE", "ABORT", "SET_LINE", "SET_FREE", "SET_COORD"}

ASSUME AxesExist == EMCMOT_MAX_AXIS \in Nat \ {0}
ASSUME NumAxesIsNat == numAxes \in Nat
ASSUME QueueIsNat == QueueSize \in Nat \ {0}
ASSUME InputsArePins == Inputs \subseteq Pins
ASSUME CommandsAreKnown == Commands \subseteq AxisCommands \cup GlobalCommands
ASSUME RestartsIsNat == MaxRestarts \in Nat

VARIABLES
  pc,            \* where motion-thread is in its period
  active,        \* axes with EMCMOT_AXIS_ACTIVE_BIT
  axisEnabled,   \* axes with EMCMOT_AXIS_ENABLE_BIT
  fault,         \* axes with EMCMOT_AXIS_FAULT_BIT
  ferror,        \* axes with EMCMOT_AXIS_FERROR_BIT
  limit,         \* axes with a hard limit bit
  jogging,       \* axes with free_tp.enable
  moving,        \* axes with free_tp.curr_vel other than zero
  amp,           \* axes whose amp_enable pin is on
  motionFlag,    \* emcmotStatus->motionFlag, its ENABLE, INPOS, FREE and COORD bits
  motion_state,  \* emcmotStatus->motion_state
  enable,        \* the motion.enable pin
  enabling, coordinating, freeing,  \* requests, emcmotInternal
  coord_tp,      \* the coordinated planner: queue length, done, aborting
  command,       \* emcmotCommand
  fresh,         \* commandNum differs from commandNumEcho
  storing,       \* the frame client_p has half stored, or NoCommand
  restarts       \* times the program was started again

inputVars == <<fault, ferror, limit>>
planVars == <<jogging, moving, coord_tp>>
requests == <<enabling, coordinating, freeing>>
modeVars == <<motionFlag, motion_state>>
mailbox == <<enable, command, fresh, storing>>
vars == <<pc, active, axisEnabled, amp, inputVars, planVars, requests, modeVars,
          mailbox, restarts>>

NoCommand == [cmd |-> "NONE", axis |-> 0]
Frames == {c \in [cmd : Commands, axis : Axes] : c.cmd \in GlobalCommands => c.axis = 0}
Planners == [len : 0 .. QueueSize, done : BOOLEAN, aborting : BOOLEAN]

(* tpClear, and what tpHandleEmptyQueue and a finished abort leave.           *)
tpClear == [len |-> 0, done |-> TRUE, aborting |-> FALSE]

(* tpAbort: the flag makes tpRunCycle stop and clear the queue later.         *)
tpAbort(tp) == [tp EXCEPT !.aborting = TRUE]

(* tpAddLine: refused (and then aborted by the caller) while aborting or with *)
(* no room; a zero-length line is dropped without an error.                   *)
tpAddLine(tp) ==
  IF tp.aborting \/ tp.len = QueueSize
  THEN {tpAbort(tp)}
  ELSE {tp, [tp EXCEPT !.len = @ + 1, !.done = FALSE]}

(* tpRunCycle: what one cycle of the planner may leave.                       *)
tpRunCycle(tp) ==
  IF tp.len = 0
  THEN {tpClear}
  ELSE {tp, [tp EXCEPT !.len = @ - 1]} \cup (IF tp.aborting THEN {tpClear} ELSE {})

------------------------------------------------------------------------------
(* The first start (init_motion_comm_buffers, init_hal_param, tp_init): the   *)
(* shared memory it does not write is zero.                                   *)
Init ==
  /\ pc = "idle"
  /\ active = {} /\ axisEnabled = Axes /\ amp = Axes
  /\ fault = {} /\ ferror = {} /\ limit = {}
  /\ jogging = {} /\ moving = {} /\ coord_tp = tpClear
  /\ motionFlag = {"INPOS"} /\ motion_state = "DISABLED"
  /\ enable = TRUE /\ enabling = FALSE
  /\ coordinating = FALSE /\ freeing = FALSE
  /\ command = NoCommand /\ fresh = FALSE /\ storing = NoCommand
  /\ restarts = 0

(* The program dies and is started again over the same shared memory: the     *)
(* mode requests and the command are still there, and commandNumEcho is zero. *)
Restart ==
  /\ restarts < MaxRestarts
  /\ restarts' = restarts + 1
  /\ pc' = "idle"
  /\ active' = {} /\ axisEnabled' = Axes /\ amp' = Axes
  /\ fault' = {} /\ ferror' = {} /\ limit' = {}
  /\ jogging' = {} /\ moving' = {} /\ coord_tp' = tpClear
  /\ motionFlag' = {"INPOS"}
  /\ enable' = TRUE /\ enabling' = FALSE
  /\ UNCHANGED <<motion_state, coordinating, freeing, command>>
  /\ fresh' = (command # NoCommand) /\ storing' = NoCommand

------------------------------------------------------------------------------
(* client_p: ProcessTask.                                                     *)

(* AXIS_ENABLE and AXIS_DISABLE also write the one pin that stands for all    *)
(* axes, before they store the command.                                       *)
ClientPin(c) ==
  /\ pc = "idle" /\ storing = NoCommand
  /\ c.cmd \in {"AXIS_ENABLE", "AXIS_DISABLE"}
  /\ enable' = (c.cmd = "AXIS_ENABLE")
  /\ storing' = c
  /\ UNCHANGED <<pc, active, axisEnabled, amp, inputVars, planVars, requests, modeVars,
                 command, fresh, restarts>>

ClientStore(c) ==
  /\ pc = "idle"
  /\ \/ storing = c
     \/ storing = NoCommand /\ c.cmd \notin {"AXIS_ENABLE", "AXIS_DISABLE"}
  /\ command' = c
  /\ fresh' = TRUE
  /\ storing' = NoCommand
  /\ UNCHANGED <<pc, active, axisEnabled, amp, inputVars, planVars, requests, modeVars,
                 enable, restarts>>

ProcessTask == \E c \in Frames : ClientPin(c) \/ ClientStore(c)

------------------------------------------------------------------------------
(* motion-thread, the command handler.  Each command ends the handler.        *)

Handle(cmd) ==
  /\ pc = "idle"
  /\ fresh
  /\ command.cmd = cmd
  /\ fresh' = FALSE
  /\ pc' = "inputs"
  /\ UNCHANGED <<axisEnabled, limit, ferror, moving, modeVars, enable, command, storing, restarts>>

AxisEnable ==
  /\ Handle("AXIS_ENABLE")
  /\ amp' = IF enable THEN amp \cup {command.axis} ELSE amp
  /\ active' = IF enable THEN active \cup {command.axis} ELSE active
  /\ UNCHANGED <<fault, jogging, coord_tp, requests>>

AxisDisable ==
  /\ Handle("AXIS_DISABLE")
  /\ amp' = amp \ {command.axis}
  /\ active' = active \ {command.axis}
  /\ UNCHANGED <<fault, jogging, coord_tp, requests>>

MotionEnable ==
  /\ Handle("MOTION_ENABLE")
  /\ enabling' = TRUE
  /\ UNCHANGED <<active, amp, fault, jogging, coord_tp, coordinating, freeing>>

MotionDisable ==
  /\ Handle("MOTION_DISABLE")
  /\ enabling' = FALSE
  /\ UNCHANGED <<active, amp, fault, jogging, coord_tp, coordinating, freeing>>

Abort ==
  /\ Handle("ABORT")
  /\ IF "COORD" \in motionFlag
     THEN coord_tp' = tpAbort(coord_tp) /\ UNCHANGED jogging
     ELSE jogging' = {a \in jogging : a >= numAxes} /\ UNCHANGED coord_tp
  /\ fault' = {a \in fault : a >= numAxes}
  /\ UNCHANGED <<active, amp, requests>>

(* JOG_CONT, JOG_INCR and JOG_ABS refuse alike; the limit bits and positions  *)
(* refuse some directions and targets, so an allowed jog may still be refused.*)
JogOk(a) == "ENABLE" \in motionFlag /\ a < numAxes

Jog_Unguarded ==
  /\ Handle("JOG")
  /\ jogging' \in {jogging, jogging \cup {command.axis}}
  /\ UNCHANGED <<active, amp, fault, coord_tp, requests>>

Jog ==
  /\ Handle("JOG")
  /\ jogging' \in {jogging} \cup {jogging \cup {a} : a \in {command.axis} \cap {b \in Axes : JogOk(b)}}
  /\ UNCHANGED <<active, amp, fault, coord_tp, requests>>

JogAbort ==
  /\ Handle("JOG_ABORT")
  /\ jogging' = jogging \ {command.axis}
  /\ UNCHANGED <<active, amp, fault, coord_tp, requests>>

limits_ok == \A a \in active : a < numAxes => a \notin limit

SetLine ==
  /\ Handle("SET_LINE")
  /\ coord_tp' \in IF ~({"COORD", "ENABLE"} \subseteq motionFlag) THEN {coord_tp}
                   ELSE IF limits_ok THEN tpAddLine(coord_tp)
                   ELSE {tpAbort(coord_tp)}
  /\ UNCHANGED <<active, amp, fault, jogging, requests>>

SetFree ==
  /\ Handle("SET_FREE")
  /\ freeing' = TRUE /\ coordinating' = FALSE
  /\ UNCHANGED <<active, amp, fault, jogging, coord_tp, enabling>>

SetCoord ==
  /\ Handle("SET_COORD")
  /\ coordinating' = TRUE /\ freeing' = FALSE
  /\ UNCHANGED <<active, amp, fault, jogging, coord_tp, enabling>>

HandlerNothing_Blocks ==
  /\ pc = "idle"
  /\ fresh
  /\ pc' = "inputs"
  /\ UNCHANGED <<active, axisEnabled, amp, inputVars, planVars, requests, modeVars,
                 mailbox, restarts>>

(* No new command, or Task holds the mutex.                                   *)
HandlerNothing ==
  /\ pc = "idle"
  /\ pc' = "inputs"
  /\ UNCHANGED <<active, axisEnabled, amp, inputVars, planVars, requests, modeVars,
                 mailbox, restarts>>

emcmotCommandHandler ==
  \/ AxisEnable \/ AxisDisable \/ MotionEnable \/ MotionDisable \/ Abort
  \/ Jog \/ JogAbort \/ SetLine \/ SetFree \/ SetCoord \/ HandlerNothing

------------------------------------------------------------------------------
(* motion-thread, the controller.                                             *)

(* An active axis takes its bits from the pins, an inactive one keeps them.   *)
process_inputs ==
  /\ pc = "inputs"
  /\ pc' = "faults"
  /\ \E p \in [Inputs -> SUBSET active] :
       LET Read(pin, old) == (old \ active) \cup (IF pin \in Inputs THEN p[pin] ELSE {})
       IN  /\ fault' = Read("FAULT", fault)
           /\ ferror' = Read("FERROR", ferror)
           /\ limit' = Read("LIMIT", limit)
  /\ UNCHANGED <<active, axisEnabled, amp, planVars, requests, modeVars, mailbox, restarts>>

Monitored == active \cap axisEnabled

check_for_faults_NoPin ==
  /\ pc = "faults"
  /\ pc' = "mode"
  /\ enabling' = (enabling /\ \A a \in Monitored : a \notin fault \cup ferror)
  /\ UNCHANGED <<active, axisEnabled, amp, inputVars, planVars, coordinating, freeing,
                 modeVars, mailbox, restarts>>

(* overrideLimitMask is zero in every state, so no limit trips.               *)
check_for_faults ==
  /\ pc = "faults"
  /\ pc' = "mode"
  /\ enabling' = /\ enabling
                 /\ "ENABLE" \in motionFlag => enable
                 /\ \A a \in Monitored : a \notin fault \cup ferror
  /\ UNCHANGED <<active, axisEnabled, amp, inputVars, planVars, coordinating, freeing,
                 modeVars, mailbox, restarts>>

(* A pending request for the coordinated or the free mode.                    *)
WantsCoord == coordinating /\ "COORD" \notin motionFlag
WantsFree == freeing /\ "FREE" \notin motionFlag

NewFlags_AnyTime ==
  ((IF enabling THEN motionFlag \cup {"ENABLE"} ELSE motionFlag \ {"ENABLE"})
     \cup {m \in {"COORD"} : WantsCoord})
     \cup {m \in {"FREE"} : WantsFree /\ "INPOS" \in motionFlag}

(* What set_operating_mode makes of the flags, and the state they stand for.  *)
NewFlags ==
  ((IF enabling THEN motionFlag \cup {"ENABLE"} ELSE motionFlag \ {"ENABLE"})
     \cup {m \in {"COORD"} : WantsCoord /\ "INPOS" \in motionFlag})
     \cup {m \in {"FREE"} : WantsFree /\ "INPOS" \in motionFlag}

StateOf(flags) == IF "ENABLE" \notin flags THEN "DISABLED"
                  ELSE IF "COORD" \in flags THEN "COORD" ELSE "FREE"

set_operating_mode ==
  LET stopping == ~enabling /\ "ENABLE" \in motionFlag
      starting == enabling /\ "ENABLE" \notin motionFlag
      inpos == "INPOS" \in motionFlag
  IN  /\ pc = "mode"
      /\ pc' = "pos"
      /\ motionFlag' = NewFlags
      /\ motion_state' = StateOf(NewFlags)
      /\ axisEnabled' = IF stopping THEN axisEnabled \ active
                        ELSE IF starting THEN axisEnabled \cup active
                        ELSE axisEnabled
      /\ coord_tp' = IF stopping THEN tpClear ELSE coord_tp
      /\ moving' = IF stopping THEN {} ELSE moving
      /\ jogging' = IF stopping \/ (WantsFree /\ inpos) THEN {} ELSE jogging
      /\ coordinating' = (coordinating /\ (WantsCoord => inpos))
      /\ freeing' = (freeing /\ (WantsFree => inpos))
      /\ UNCHANGED <<active, amp, inputVars, enabling, mailbox, restarts>>

WithInpos(inpos) == IF inpos THEN motionFlag \cup {"INPOS"} ELSE motionFlag \ {"INPOS"}

(* EMCMOT_MOTION_FREE: simple_tp_update for each active axis.  far are those  *)
(* not yet at their goal; an arrived planner is disabled and its axis slows   *)
(* down.  An axis that is not far may stop, but not start.                    *)
PosFree ==
  /\ pc = "pos" /\ motion_state = "FREE"
  /\ pc' = "out"
  /\ \E far \in SUBSET (active \cap jogging), slow \in SUBSET active :
       /\ slow \subseteq far \cup moving
       /\ jogging' = (jogging \ active) \cup far
       /\ moving' = (moving \ active) \cup slow
       /\ motionFlag' = WithInpos(far \cup slow = {})
  /\ UNCHANGED <<active, axisEnabled, amp, inputVars, requests, motion_state, coord_tp,
                 mailbox, restarts>>

(* EMCMOT_MOTION_COORD: the loop runs while axis 0 wants a point.  Only an    *)
(* active axis is given one, and with interpolationRate 1 each period needs   *)
(* one, so the loop ends after one round if axis 0 is active and else never.  *)
PosCoord ==
  /\ pc = "pos" /\ motion_state = "COORD"
  /\ coord_tp' \in tpRunCycle(coord_tp)
  /\ IF 0 \in active
     THEN pc' = "out" /\ motionFlag' = WithInpos(coord_tp'.done)
     ELSE UNCHANGED <<pc, motionFlag>>
  /\ UNCHANGED <<active, axisEnabled, amp, inputVars, jogging, moving, requests,
                 motion_state, mailbox, restarts>>

(* EMCMOT_MOTION_DISABLED: the commanded position follows the feedback.       *)
PosDisabled ==
  /\ pc = "pos" /\ motion_state = "DISABLED"
  /\ pc' = "out"
  /\ UNCHANGED <<active, axisEnabled, amp, inputVars, planVars, requests, modeVars,
                 mailbox, restarts>>

get_pos_cmds == PosFree \/ PosCoord \/ PosDisabled

(* output_to_hal and update_status.                                           *)
output_to_hal ==
  /\ pc = "out"
  /\ pc' = "idle"
  /\ amp' = (amp \ active) \cup Monitored
  /\ UNCHANGED <<active, axisEnabled, inputVars, planVars, requests, modeVars, mailbox,
                 restarts>>

emcmotController ==
  process_inputs \/ check_for_faults \/ set_operating_mode \/ get_pos_cmds \/ output_to_hal

MotionThread == emcmotCommandHandler \/ emcmotController

Next == ProcessTask \/ MotionThread \/ Restart

Spec == Init /\ [][Next]_vars

(* motion-thread has a period of its own and the highest priority of its CPU  *)
(* but for ecat_thread, so it keeps running.                                  *)
FairSpec == Spec /\ WF_vars(MotionThread)

------------------------------------------------------------------------------
(* Every variable holds a value of its C type, and the queue of the planner   *)
(* never holds more than it has room for (tcqPut refuses).                    *)
TypeOK ==
  /\ pc \in {"idle", "inputs", "faults", "mode", "pos", "out"}
  /\ active \subseteq Axes /\ axisEnabled \subseteq Axes /\ amp \subseteq Axes
  /\ fault \subseteq Axes /\ ferror \subseteq Axes /\ limit \subseteq Axes
  /\ jogging \subseteq Axes /\ moving \subseteq Axes
  /\ coord_tp \in Planners
  /\ motionFlag \subseteq {"ENABLE", "INPOS", "FREE", "COORD"}
  /\ motion_state \in {"DISABLED", "FREE", "COORD"}
  /\ enable \in BOOLEAN /\ enabling \in BOOLEAN
  /\ coordinating \in BOOLEAN /\ freeing \in BOOLEAN
  /\ command \in Frames \cup {NoCommand} /\ fresh \in BOOLEAN
  /\ storing \in Frames \cup {NoCommand}
  /\ restarts \in 0 .. MaxRestarts

(* Motion that is off has no motion left in it: while the motion enable flag  *)
(* is off no free planner is enabled or still has speed, on an active axis or *)
(* an inactive one, and no segment waits in the queue.  So switching it on    *)
(* again (set_operating_mode) can start nothing by itself.                    *)
OffMeansStill ==
  "ENABLE" \notin motionFlag => jogging = {} /\ moving = {} /\ coord_tp.len = 0

(* Motion that stays on through a period was allowed to: when                 *)
(* set_operating_mode keeps the flag on, the enable pin is on and no axis     *)
(* that is active and enabled reported an amplifier fault or following error. *)
FaultTrips ==
  [][pc = "mode" /\ "ENABLE" \in motionFlag \cap motionFlag'
       => enable /\ Monitored \cap (fault \cup ferror) = {}]_vars

(* A mode is entered at rest ("not in position-- don't honor mode change"):   *)
(* the coordinated mode with no active axis jogging or slowing down, the free *)
(* mode with the coordinated planner done.                                    *)
ModeChangeAtRest ==
  [][/\ "COORD" \in motionFlag' \ motionFlag => active \cap (jogging \cup moving) = {}
     /\ "FREE" \in motionFlag' \ motionFlag => coord_tp.done]_vars

(* The loop of PosCoord with axis 0 inactive, which never ends.               *)
Spinning == pc = "pos" /\ motion_state = "COORD" /\ 0 \notin active

(* The enable pin going off stops motion, unless a client turns it on again   *)
(* before a period has seen it (check_for_faults), or the coordinated mode    *)
(* keeps the thread in its loop.                                              *)
PinOffStops ==
  (~enable /\ "ENABLE" \in motionFlag) ~> (enable \/ "ENABLE" \notin motionFlag \/ Spinning)

==============================================================================
