------------------------------ MODULE AxisMotion ------------------------------
(* One axis with its numbers: the jogs of src/motion/command.c, the free-mode *)
(* planner of src/motion/simple_tp.c, the cubic interpolator of               *)
(* src/kinematics/cubic.cpp and what src/motion/control.c does with their     *)
(* positions, together with the drive thread of src/hal/ServoEnable.c, which  *)
(* echoes the commanded position and writes it into the planner.              *)
(*                                                                            *)
(* The three threads share a CPU.  ecat_thread has the highest priority: its  *)
(* run is one step, between any two steps of motion-thread.  client_p has the *)
(* lowest: it moves only between two periods, and a period may come between   *)
(* any two of its stores: to the axis, to the enable pin, and of the number.  *)
(*                                                                            *)
(* A period is one second, so speeds are distances and integer arithmetic is  *)
(* exact.  Positions are positive, so a cast to int32_t rounds them down.     *)
(* MotionControl models the modes with all their inputs; TrajPlanner models   *)
(* the coordinated planner, which here only hands out the length of its       *)
(* lines, and is never done with one because no command carries an id.        *)
(* A definition named D_Something is a mutated form of D.                     *)
EXTENDS Integers, Sequences, SequencesExt

CONSTANTS Jogs,      \* the jog frames the client sends
          Lines,     \* the line frames
          Others,    \* the other commands: "MOTION_DISABLE", "SET_COORD", ...
          Feed,      \* displacement of one cycle of the coordinated planner
          MaxVel, MaxAcc,      \* emcmotCommand->Maxvel and Maxacc
          MinLimit, MaxLimit,  \* of the axis, for jogs and positions
          Start,     \* where the drive starts (400000000)
          MinFerror, MaxFerror,
          MaxLag,    \* bound: periods without a run of the drive thread
          MaxLost,   \* bound: runs of it inside a period's update
          MaxSteps,  \* bound on the work of client_p: two for a jog or a line, one for another command
          Far        \* bound: an axis that cannot slow down or turn is followed to here

ASSUME AxisAssumption ==
  /\ Jogs \subseteq [cmd : {"JOG_CONT", "JOG_INCR", "JOG_ABS"}, offset : Int, dir : BOOLEAN, vel : Nat, acc : Nat]
  /\ Lines \subseteq [cmd : {"SET_LINE"}, length : Nat \ {0}, vel : Nat, acc : Nat]
  /\ Others \subseteq {"JOG_ABORT", "AXIS_ENABLE", "AXIS_DISABLE", "ENABLE_OTHER", "DISABLE_OTHER",
                       "MOTION_ENABLE", "MOTION_DISABLE", "SET_FREE", "SET_COORD"}
  /\ Feed \in Nat \ {0}
  /\ MaxVel \in Nat \ {0} /\ MaxAcc \in Nat \ {0} /\ MinLimit \in Nat /\ MaxLimit \in Nat
  /\ Start \in MinLimit .. MaxLimit
  /\ MinFerror \in Nat /\ MaxFerror \in Nat /\ MaxLag \in Nat /\ MaxLost \in Nat /\ MaxSteps \in Nat
  /\ Far \in Nat

VARIABLES pc,       \* where motion-thread is in its period
          free_tp,  \* the free-mode planner
          axis,     \* positions, the commands of client_p, the ACTIVE and ENABLE bits
          cubic,    \* the interpolator: its four points, and whether it wants another
          coord_tp, \* the coordinated planner: length left, done
          mode,     \* enabling, coordinating, freeing, the ENABLE, COORD, FREE and INPOS bits, the enable pin
          drive,    \* atomic_actpos and the motor_pos_fb pin
          storing,  \* the frame client_p has half executed, and what it stores next
          posted,   \* the command with a new number
          bounds,   \* periods since the drive ran, its runs inside an update, steps of client_p
          weak      \* history: a jog went with less acceleration than its moving axis had,
                    \* or with a negative speed

vars == <<pc, free_tp, axis, cubic, coord_tp, mode, drive, storing, posted, bounds, weak>>

None == [cmd |-> "NONE"]
Plain(c) == [cmd |-> c]
NoStore == [frame |-> None, next |-> "none"]

Least(a, b) == IF a < b THEN a ELSE b
Clamp(n, lo, hi) == IF n < lo THEN lo ELSE IF n > hi THEN hi ELSE n
Abs(n) == IF n < 0 THEN -n ELSE n

cubicDrain == [x |-> <<0, 0, 0, 0>>, filled |-> FALSE, needNextPoint |-> TRUE]
tpClear == [rest |-> 0, done |-> TRUE]

(* The axis is active, motion is enabled and in free mode, nothing moves.     *)
Init ==
  /\ pc = "idle"
  /\ free_tp = [pos_cmd |-> Start, vel |-> 0, acc |-> 0, enable |-> FALSE, curr_pos |-> Start, curr_vel |-> 0,
                active |-> FALSE]
  /\ axis = [pos_cmd |-> Start, vel_cmd |-> 0, acc_cmd |-> 0, pos_fb |-> Start, active |-> TRUE, enabled |-> TRUE]
  /\ cubic = cubicDrain /\ coord_tp = tpClear
  /\ mode = [enabling |-> TRUE, coordinating |-> FALSE, freeing |-> FALSE,
             enable |-> TRUE, coord |-> FALSE, free |-> FALSE, inpos |-> TRUE, pin |-> TRUE]
  /\ drive = [act |-> Start, fb |-> Start]
  /\ storing = NoStore /\ posted = None
  /\ bounds = [lag |-> 0, lost |-> 0, steps |-> 0]
  /\ weak = FALSE

------------------------------------------------------------------------------
(* client_p.                                                                  *)

Steps(n) == bounds.steps + n <= MaxSteps /\ bounds' = [bounds EXCEPT !.steps = @ + n]

(* ProcessTask stores the acceleration of a jog or a line in the axis, then   *)
(* its speed, and numbers the command afterwards.                             *)
StoreAcc(f) ==
  /\ pc = "idle" /\ storing = NoStore /\ Steps(2)
  /\ axis' = [axis EXCEPT !.acc_cmd = f.acc]
  /\ storing' = [frame |-> f, next |-> "speed"]
  /\ UNCHANGED <<pc, free_tp, cubic, coord_tp, mode, drive, posted, weak>>

StoreVel ==
  /\ pc = "idle" /\ storing.next = "speed"
  /\ axis' = [axis EXCEPT !.vel_cmd = storing.frame.vel]
  /\ storing' = [storing EXCEPT !.next = "number"]
  /\ UNCHANGED <<pc, free_tp, cubic, coord_tp, mode, drive, bounds, posted, weak>>

(* The one enable pin is raised with any axis, and dropped with any.          *)
StorePin(c) ==
  /\ pc = "idle" /\ storing = NoStore /\ Steps(1)
  /\ mode' = [mode EXCEPT !.pin = c \in {"AXIS_ENABLE", "ENABLE_OTHER"}]
  /\ storing' = [frame |-> Plain(c), next |-> "number"]
  /\ UNCHANGED <<pc, free_tp, axis, cubic, coord_tp, drive, posted, weak>>

Post ==
  /\ pc = "idle" /\ storing.next = "number"
  /\ posted' = storing.frame /\ storing' = NoStore
  /\ UNCHANGED <<pc, free_tp, axis, cubic, coord_tp, mode, drive, bounds, weak>>

(* The other commands store nothing but the command.                          *)
PostOther(c) ==
  /\ pc = "idle" /\ storing = NoStore /\ Steps(1)
  /\ posted' = Plain(c)
  /\ UNCHANGED <<pc, free_tp, axis, cubic, coord_tp, mode, drive, storing, weak>>

PinCommands == {"AXIS_ENABLE", "AXIS_DISABLE", "ENABLE_OTHER", "DISABLE_OTHER"}

Client ==
  \/ \E f \in Jogs \cup Lines : StoreAcc(f)
  \/ StoreVel
  \/ \E c \in Others \cap PinCommands : StorePin(c)
  \/ \E c \in Others \ PinCommands : PostOther(c)
  \/ Post

------------------------------------------------------------------------------
(* motion-thread: the command handler.                                        *)

Period ==
  /\ pc = "idle" /\ bounds.lag < MaxLag
  /\ free_tp.acc = 0 \/ free_tp.vel < 0 => axis.pos_cmd \in MinLimit - Far .. MaxLimit + Far
  /\ pc' = "inputs"
  /\ bounds' = [bounds EXCEPT !.lag = @ + 1]
  /\ UNCHANGED <<drive, storing>>

Handle(cmd) ==
  /\ Period
  /\ posted.cmd = cmd /\ posted' = None
  /\ UNCHANGED cubic

HandlerNothing ==
  /\ Period
  /\ posted = None
  /\ UNCHANGED <<free_tp, axis, cubic, coord_tp, mode, posted, weak>>

(* Maxvel is the sign of the direction: only the upper limit ever refuses.    *)
joint_jog_ok == axis.pos_cmd <= MaxLimit

(* A jog takes the speed it finds in the axis, which is the planner's own if  *)
(* a period came after its store.                                             *)
Go(target, acc) ==
  /\ free_tp' = [free_tp EXCEPT !.pos_cmd = target, !.vel = Least(axis.vel_cmd, MaxVel), !.acc = acc,
                                !.enable = TRUE]
  /\ weak' = (weak \/ axis.vel_cmd < 0 \/ (free_tp.curr_vel # 0 /\ acc < free_tp.acc))

Refuse == UNCHANGED <<free_tp, weak>>

JogCont ==
  /\ Handle("JOG_CONT")
  /\ IF mode.enable /\ joint_jog_ok THEN Go(MaxLimit, Least(axis.acc_cmd, MaxAcc)) ELSE Refuse
  /\ UNCHANGED <<axis, coord_tp, mode>>

(* Mutant: an increment is not checked against the limits.                    *)
JogIncr_NoLimit ==
  /\ Handle("JOG_INCR")
  /\ IF mode.enable /\ joint_jog_ok
     THEN Go(free_tp.pos_cmd + (IF posted.dir THEN posted.offset ELSE -posted.offset), axis.acc_cmd)
     ELSE Refuse
  /\ UNCHANGED <<axis, coord_tp, mode>>

(* An increment counts from the planner's target; its acceleration has no     *)
(* upper bound.                                                               *)
JogIncr ==
  LET target == free_tp.pos_cmd + (IF posted.dir THEN posted.offset ELSE -posted.offset)
  IN  /\ Handle("JOG_INCR")
      /\ IF mode.enable /\ joint_jog_ok /\ target \in MinLimit .. MaxLimit THEN Go(target, axis.acc_cmd)
         ELSE Refuse
      /\ UNCHANGED <<axis, coord_tp, mode>>

JogAbs ==
  /\ Handle("JOG_ABS")
  /\ IF mode.enable /\ joint_jog_ok
     THEN Go(Clamp(posted.offset, MinLimit, MaxLimit), Least(axis.acc_cmd, MaxAcc))
     ELSE Refuse
  /\ UNCHANGED <<axis, coord_tp, mode>>

JogAbort ==
  /\ Handle("JOG_ABORT")
  /\ free_tp' = [free_tp EXCEPT !.enable = FALSE]
  /\ UNCHANGED <<axis, coord_tp, mode, weak>>

(* The active bit alone: the planner keeps its target and its speed.  An axis *)
(* is not made active while the pin is low.                                   *)
AxisActive(cmd) ==
  /\ Handle(cmd)
  /\ axis' = [axis EXCEPT !.active = (cmd = "AXIS_ENABLE") /\ (@ \/ mode.pin)]
  /\ UNCHANGED <<free_tp, coord_tp, mode, weak>>

(* The active bit of another axis.                                            *)
OtherAxis(cmd) ==
  /\ Handle(cmd)
  /\ UNCHANGED <<free_tp, axis, coord_tp, mode, weak>>

MotionEnable(cmd) ==
  /\ Handle(cmd)
  /\ mode' = [mode EXCEPT !.enabling = (cmd = "MOTION_ENABLE")]
  /\ UNCHANGED <<free_tp, axis, coord_tp, weak>>

SetMode(cmd) ==
  /\ Handle(cmd)
  /\ mode' = [mode EXCEPT !.coordinating = (cmd = "SET_COORD"), !.freeing = (cmd = "SET_FREE")]
  /\ UNCHANGED <<free_tp, axis, coord_tp, weak>>

(* The line is queued; the interpolator of axis 0 is told to take a point.    *)
SetLine ==
  /\ Period
  /\ posted.cmd = "SET_LINE" /\ posted' = None
  /\ IF mode.coord /\ mode.enable
     THEN /\ coord_tp' = [rest |-> coord_tp.rest + posted.length, done |-> FALSE]
          /\ cubic' = [cubic EXCEPT !.needNextPoint = TRUE]
     ELSE UNCHANGED <<coord_tp, cubic>>
  /\ UNCHANGED <<free_tp, axis, mode, weak>>

emcmotCommandHandler ==
  \/ HandlerNothing \/ JogCont \/ JogIncr \/ JogAbs \/ JogAbort \/ SetLine
  \/ \E c \in {"AXIS_ENABLE", "AXIS_DISABLE"} : AxisActive(c)
  \/ \E c \in {"ENABLE_OTHER", "DISABLE_OTHER"} : OtherAxis(c)
  \/ \E c \in {"MOTION_ENABLE", "MOTION_DISABLE"} : MotionEnable(c)
  \/ \E c \in {"SET_FREE", "SET_COORD"} : SetMode(c)

------------------------------------------------------------------------------
(* motion-thread: the controller.                                             *)

(* process_inputs: the feedback of an active axis, and whether it has fallen  *)
(* too far behind.  The limit grows with the speed, but not with a negative   *)
(* one.                                                                       *)
Feedback == IF axis.active THEN drive.fb ELSE axis.pos_fb
FollowingError ==
  LET allowed == IF axis.vel_cmd > 0 THEN (MaxFerror * axis.vel_cmd) \div MaxVel ELSE 0
  IN  Abs(axis.pos_cmd - Feedback) > (IF allowed < MinFerror THEN MinFerror ELSE allowed)

(* check_for_faults: the pin while motion is on, and the following error of   *)
(* an axis that is active and enabled.                                        *)
Enabling ==
  mode.enabling /\ (mode.enable => mode.pin) /\ ~(axis.active /\ axis.enabled /\ FollowingError)

Stopping == ~Enabling /\ mode.enable
Starting == Enabling /\ ~mode.enable
ToCoord == mode.coordinating /\ ~mode.coord
ToFree == mode.freeing /\ ~mode.free

(* What set_operating_mode leaves of the free planner.                        *)
NewPlanner ==
  [free_tp EXCEPT !.enable = @ /\ ~Stopping /\ ~(ToFree /\ mode.inpos),
                  !.curr_vel = IF Stopping THEN 0 ELSE @,
                  !.curr_pos = IF Starting \/ (ToFree /\ mode.inpos) THEN axis.pos_cmd ELSE @]

(* process_inputs, check_for_faults and set_operating_mode.  A mode request   *)
(* that finds the machine not in position is dropped; neither mode bit is     *)
(* ever cleared.                                                              *)
set_operating_mode ==
  /\ pc = "inputs"
  /\ pc' = "plan"
  /\ free_tp' = NewPlanner
  /\ axis' = [axis EXCEPT !.pos_fb = Feedback,
                          !.enabled = (@ \/ (Starting /\ axis.active)) /\ ~(Stopping /\ axis.active)]
  /\ cubic' = IF Stopping \/ (ToCoord /\ mode.inpos) THEN cubicDrain ELSE cubic
  /\ coord_tp' = IF Stopping THEN tpClear ELSE coord_tp
  /\ mode' = [mode EXCEPT !.enabling = Enabling, !.enable = Enabling,
                          !.coordinating = @ /\ (ToCoord => mode.inpos),
                          !.freeing = @ /\ (ToFree => mode.inpos),
                          !.coord = @ \/ (ToCoord /\ mode.inpos), !.free = @ \/ (ToFree /\ mode.inpos)]
  /\ UNCHANGED <<drive, storing, posted, bounds, weak>>

(* The speed that brings the planner to its target without running past it,   *)
(* at a distance of err: the integer part of sqrt(2 acc err + acc^2) - acc,   *)
(* looked for in two steps.                                                   *)
RequestTowards(err, acc) ==
  LET Reaches(v) == (v + acc) * (v + acc) <= 2 * acc * err + acc * acc
      coarse == 64 * (CHOOSE k \in 0 .. err \div 64 : Reaches(64 * k) /\ ~Reaches(64 * (k + 1)))
  IN  CHOOSE v \in coarse .. coarse + 63 : Reaches(v) /\ ~Reaches(v + 1)

simple_tp_update(tp) ==
  LET err == tp.pos_cmd - tp.curr_pos
      far == tp.enable /\ 1000 * Abs(err) > tp.acc
      want == IF ~far THEN 0
              ELSE IF err > 0 THEN RequestTowards(err, tp.acc) ELSE -RequestTowards(-err, tp.acc)
      asked == IF want > tp.vel THEN tp.vel ELSE IF want < -tp.vel THEN -tp.vel ELSE want
      vel == Clamp(asked, tp.curr_vel - tp.acc, tp.curr_vel + tp.acc)
  IN  [tp EXCEPT !.enable = far, !.active = far \/ vel # 0, !.curr_vel = vel, !.curr_pos = @ + vel,
                 !.pos_cmd = IF tp.enable THEN @ ELSE tp.curr_pos]

InFree == mode.enable /\ ~mode.coord
InCoord == mode.enable /\ mode.coord

(* EMCMOT_MOTION_FREE, the update of the planner.                             *)
PlanFree ==
  /\ pc = "plan" /\ InFree
  /\ free_tp' = IF axis.active THEN simple_tp_update(free_tp) ELSE free_tp
  /\ mode' = [mode EXCEPT !.inpos = axis.active => ~free_tp'.active]
  /\ pc' = IF axis.active THEN "publish" ELSE "idle"
  /\ UNCHANGED <<axis, cubic, coord_tp, drive, storing, posted, bounds, weak>>

(* Mutant: the drive is not told.                                             *)
Publish_NotTold ==
  /\ pc = "publish"
  /\ axis' = [axis EXCEPT !.pos_cmd = free_tp.curr_pos, !.vel_cmd = free_tp.curr_vel, !.acc_cmd = 0]
  /\ pc' = "idle"
  /\ UNCHANGED <<free_tp, cubic, coord_tp, mode, drive, storing, posted, bounds, weak>>

(* The rest of it: the new position goes to the drive and to the axis, whose  *)
(* stored speed and acceleration are overwritten.                             *)
Publish ==
  /\ pc = "publish"
  /\ drive' = [drive EXCEPT !.act = free_tp.curr_pos]
  /\ axis' = [axis EXCEPT !.pos_cmd = free_tp.curr_pos, !.vel_cmd = free_tp.curr_vel, !.acc_cmd = 0]
  /\ pc' = "idle"
  /\ UNCHANGED <<free_tp, cubic, coord_tp, mode, storing, posted, bounds, weak>>

(* Mutant: the first point joins what the drained interpolator holds.         *)
cubicAddPoint_Joins(ci, point) ==
  [x |-> Append(Tail(ci.x), point), filled |-> TRUE, needNextPoint |-> FALSE]

(* cubicAddPoint: the first point fills all four.                             *)
cubicAddPoint(ci, point) ==
  [x |-> IF ci.filled THEN Append(Tail(ci.x), point) ELSE <<point, point, point, point>>,
   filled |-> TRUE, needNextPoint |-> FALSE]

(* The spline through the way points, at the start of its segment.            *)
wayPoint(ci) == (ci.x[1] + 4 * ci.x[2] + ci.x[3]) \div 6
velPoint(ci) == (ci.x[3] - ci.x[1]) \div 2
cubicCoeff(ci) == [d |-> wayPoint(ci), c |-> velPoint(ci), twoB |-> ci.x[1] - 2 * ci.x[2] + ci.x[3]]

(* setTrajCycleTime and setServoCycleTime are called with the same period.    *)
interpolationRate == 1

(* cubicInterpolate: the position with its derivatives.  After as many as     *)
(* interpolationRate the interpolator wants a point.                          *)
cubicInterpolate(ci) ==
  [pos |-> cubicCoeff(ci).d, vel |-> cubicCoeff(ci).c, acc |-> cubicCoeff(ci).twoB,
   ci |-> [ci EXCEPT !.needNextPoint = (interpolationRate = 1)]]

(* Each period sets the coordinated planner to where the axis was told to be. *)
handle_interpolation == axis.pos_cmd

(* EMCMOT_MOTION_COORD: the cycle adds its displacement to the place the      *)
(* planner was set to, and the interpolator takes that as its next point.     *)
PlanCoord ==
  LET step == Least(Feed, coord_tp.rest)
      out == cubicInterpolate(cubicAddPoint(cubic, handle_interpolation + step))
  IN  /\ pc = "plan" /\ InCoord /\ axis.active
      /\ coord_tp' = [coord_tp EXCEPT !.rest = @ - step]
      /\ cubic' = out.ci
      /\ axis' = [axis EXCEPT !.pos_cmd = out.pos, !.vel_cmd = out.vel, !.acc_cmd = out.acc]
      /\ drive' = [drive EXCEPT !.act = out.pos]
      /\ mode' = [mode EXCEPT !.inpos = coord_tp.done]
      /\ pc' = "idle"
      /\ UNCHANGED <<free_tp, storing, posted, bounds, weak>>

(* With the axis inactive no point is ever added, and the loop does not end.  *)
Spin ==
  /\ pc = "plan" /\ InCoord /\ ~axis.active
  /\ coord_tp' = [coord_tp EXCEPT !.rest = @ - Least(Feed, @)]
  /\ UNCHANGED <<pc, free_tp, axis, cubic, mode, drive, storing, posted, bounds, weak>>

(* EMCMOT_MOTION_DISABLED: the command follows the feedback.                  *)
PlanDisabled ==
  /\ pc = "plan" /\ ~mode.enable
  /\ axis' = [axis EXCEPT !.pos_cmd = axis.pos_fb, !.vel_cmd = 0, !.acc_cmd = 0]
  /\ pc' = "idle"
  /\ UNCHANGED <<free_tp, cubic, coord_tp, mode, drive, storing, posted, bounds, weak>>

MotionThread ==
  emcmotCommandHandler \/ set_operating_mode \/ PlanFree \/ Publish \/ PlanCoord \/ Spin \/ PlanDisabled

------------------------------------------------------------------------------
(* ecat_thread: the drive is where it was last told to be, and so is the free *)
(* planner.                                                                   *)
ecatthread ==
  /\ pc = "publish" => bounds.lost < MaxLost
  /\ bounds' = [bounds EXCEPT !.lag = 0, !.lost = IF pc = "publish" THEN @ + 1 ELSE @]
  /\ drive' = [drive EXCEPT !.fb = drive.act]
  /\ free_tp' = [free_tp EXCEPT !.curr_pos = drive.act]
  /\ UNCHANGED <<pc, axis, cubic, coord_tp, mode, storing, posted, weak>>

Next == Client \/ MotionThread \/ ecatthread

Spec == Init /\ [][Next]_vars

(* Both real-time threads have a period of their own and the CPU before all   *)
(* others.                                                                    *)
FairSpec == Spec /\ WF_vars(MotionThread) /\ WF_vars(ecatthread)

------------------------------------------------------------------------------
(* Properties.                                                                *)

(* A jog never takes the drive past the limits of its axis, however it is     *)
(* overtaken by other jogs, stopped, disabled and enabled, and whenever the   *)
(* drive thread writes into the planner: until a jog takes away acceleration  *)
(* from an axis that moves, or goes with a speed the planner stored.          *)
WithinLimits == ~weak /\ ~mode.coord => drive.act \in MinLimit .. MaxLimit

(* What the drive is told never jumps: not from one jog to the next, not from *)
(* the free planner to the interpolator, not when motion is switched off and  *)
(* on or the axis disabled and enabled, not when the drive thread sets the    *)
(* planner back in the middle of a period.                                    *)
NoJump == [][Abs(drive'.act - drive.act) <= MaxVel]_vars

(* A jog ends: the planner comes to rest within a thousandth of its           *)
(* acceleration, or one step short of its target, unless it was left without  *)
(* acceleration, or with a speed the planner stored and that is not positive, *)
(* or its axis or motion is off or in the coordinated mode.                   *)
JogEnds ==
  []<>(\/ Abs(free_tp.pos_cmd - axis.pos_cmd) <= 1 + free_tp.acc \div 1000 /\ free_tp.curr_vel = 0
       \/ free_tp.acc = 0 \/ free_tp.vel <= 0 \/ ~axis.active \/ ~InFree)
=============================================================================
