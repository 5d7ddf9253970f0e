----------------------------- MODULE TrajPlanner -----------------------------
(* The coordinated planner, src/tp/tp.c with the segment operations of        *)
(* src/tp/tc.c.  The command handler and the controller both run in           *)
(* motion-thread, so an operation is one step, and a period is at most one    *)
(* command and one step of the controller.  TcQueue shows that the ring of    *)
(* segments is a sequence.                                                    *)
(*                                                                            *)
(* A pose is its place along the path.  Two distances are kept: how far       *)
(* goalPos, where the next move starts, is ahead of currentPos; and how much  *)
(* of the moves accepted has not been added to currentPos.  They would be the *)
(* same, did handle_interpolation (control.c:111) not set both poses to where *)
(* the axes are at the start of every period.  A period is Period parts long, a speed is a length    *)
(* per period, and the unit of length is what a speed of 1 covers in half a   *)
(* part.  A number that is not on this grid is rounded: speeds down, though a *)
(* speed above zero not to zero, and times up.  TP_POS_EPSILON is the unit of *)
(* length and TP_VEL_EPSILON less than the smallest speed.                    *)
(*                                                                            *)
(* Nothing in the program sets arcBlendEnable, calls tpSetTermCond or         *)
(* tpSetRunDir, or gives spindlesync or atspeed another value than zero: the  *)
(* terminal condition is TANGENT or STOP, there are no blend arcs, motion is  *)
(* forward and not synchronized, and net_feed_scale and maxAxisScale are 1.   *)
(* A definition named D_Something is a mutated form of D.                     *)
EXTENDS Integers, Sequences, FiniteSetsExt, Functions

CONSTANTS
  QueueSize,     \* segments the queue takes
  Period,        \* parts of a period
  Lengths,       \* lengths of the moves asked for
  Vels,          \* reqvel of the moves
  MaxVel,        \* maxvel of the moves
  VLimit,        \* tp->vLimit
  LineAcc,       \* tangential acceleration of a line, per period
  CircleAcc,     \* that of a circle, reduced by acc_ratio_tan
  CircleVel,     \* the speed a circle of the radius allows, once it is finalized
  Kinds,         \* motion_type of the moves: "line", "circle"
  CanonTypes,    \* canon_motion_type: "traverse", "feed"
  Ids,           \* values of emcmotCommand->id: the program sets none, so it is 0
  Cutoff,        \* 1 / arcBlendRampFreq, in periods
  MaxMoves       \* bound: moves of some length asked for

ASSUME QueueHasRoom == QueueSize \in Nat \ {0}
ASSUME PeriodIsPositive == Period \in Nat \ {0}
ASSUME LengthsPositive == Lengths \subseteq Nat
ASSUME SpeedsPositive == Vels \subseteq Nat \ {0} /\ {MaxVel, VLimit, CircleVel} \subseteq Nat \ {0}
ASSUME AccelsDivide == \A a \in {LineAcc, CircleAcc} : a \in Nat \ {0} /\ a % Period = 0
ASSUME MovesAreCounted == MaxMoves \in Nat

VARIABLES
  queue,             \* tp->queue
  ahead,             \* distance from currentPos to goalPos
  owed,              \* history: lengths accepted, less what was added to currentPos
  commanded,         \* has the handler executed a command in this period?
  done, aborting, pausing,
  moved,             \* what the last tpRunCycle added to currentPos
  moves,             \* moves of some length asked for
  id                 \* emcmotCommand->id, which the segments take over

flags == <<done, aborting, pausing>>
path == <<ahead, owed>>
vars == <<queue, path, commanded, flags, moved, moves, id>>

(* tp->spindle.waiting_for_atspeed: in shared memory that is zero at first,   *)
(* and never written.                                                         *)
waiting_for_atspeed == 0

PosEpsilon == 1

------------------------------------------------------------------------------
(* Numbers.                                                                   *)

Least(a, b) == IF a < b THEN a ELSE b
Square(x) == x * x
FloorSqrt(x) == CHOOSE r \in 0 .. x : Square(r) <= x /\ x < Square(r + 1)
saturate(x, max) == IF x > max THEN max ELSE IF x < -max THEN -max ELSE x
(* n / d as a speed.                                                          *)
Speed(n, d) == IF n > 0 THEN Max({1, n \div d}) ELSE n \div d
Total(s) ==
  LET Upto[n \in 0 .. Len(s)] == IF n = 0 THEN 0 ELSE Upto[n - 1] + s[n]
  IN  Upto[Len(s)]

------------------------------------------------------------------------------
(* Segments: tcInit, tcSetupState and tcSetupMotion over a zeroed structure.  *)

SampleMaxvel(len) == len \div (2 * Period)

NewSegment(len, vel, kind, canon) ==
  [target |-> len, progress |-> 0, reqvel |-> vel,
   maxvel |-> Least(MaxVel, SampleMaxvel(len)),       \* tcClampVelocityByLength
   currentvel |-> 0, finalvel |-> 0, term_vel |-> 0, term_cond |-> "TANGENT",
   motion_type |-> kind, canon |-> canon,
   cycle_time |-> Period, active |-> FALSE, ramp |-> FALSE, splitting |-> FALSE,
   remove |-> FALSE, finalized |-> FALSE]

tcGetDistanceToGo(tc) == tc.target - tc.progress
ToGo(q) == Total([i \in 1 .. Len(q) |-> tcGetDistanceToGo(q[i])])

tcGetTangentialMaxAccel(tc) == IF tc.motion_type = "circle" THEN CircleAcc ELSE LineAcc

(* tpGetFeedScale is zero while pausing or aborting.                          *)
Stopping == pausing \/ aborting

tpGetMaxTargetVel(tc) == Least(Least(tc.reqvel, tc.maxvel), VLimit)

tpGetRealTargetVel(tc) == IF Stopping THEN 0 ELSE Least(tc.reqvel, tpGetMaxTargetVel(tc))

(* next is the segment after tc as a sequence of at most one.                 *)
tpGetRealFinalVel(tc, next) ==
  IF tc.term_cond # "TANGENT" THEN 0
  ELSE Min({tc.finalvel, tpGetRealTargetVel(tc)} \cup {tpGetRealTargetVel(n) : n \in Range(next)})

------------------------------------------------------------------------------
(* Adding a move.                                                             *)

(* tcUpdateCircleAccRatio: a circle is slowed down to CircleVel.  What        *)
(* acc_ratio_tan gains on a slower one is rounded off.                        *)
CircleMaxvel(tc, v) == IF tc.motion_type = "circle" THEN Least(v, CircleVel) ELSE v

tcFinalizeLength(tc) ==
  IF tc.finalized THEN tc
  ELSE [tc EXCEPT !.finalized = TRUE,
                  !.maxvel = CircleMaxvel(tc, Least(@, SampleMaxvel(tc.target)))]

handleModeChange(prev, tc) ==
  IF (prev.canon = "traverse") # (tc.canon = "traverse")
  THEN [prev EXCEPT !.term_cond = "STOP"] ELSE prev

tpCalculateOptimizationInitialVel(tc) ==
  Least(FloorSqrt((tcGetTangentialMaxAccel(tc) * tc.target) \div (2 * Period)), tpGetMaxTargetVel(tc))

(* Mutant: the speed of prev ignores what tc can still lose.                  *)
OptimalVel_IgnoresLength(prev, tc) == Least(tc.maxvel, prev.maxvel)

(* tpComputeOptimalVelocity: prev may end at the speed from which tc still    *)
(* slows down to its own final speed, within what both allow.                 *)
OptimalVel(prev, tc) ==
  Min({FloorSqrt(Square(tc.finalvel) + (tcGetTangentialMaxAccel(tc) * tc.target) \div Period),
       tc.maxvel, prev.maxvel})

(* One round of tpRunOptimization, at place i and i - 1 of the queue.         *)
Optimized(q, i) ==
  LET tc == q[i]
      prev == q[i - 1]
  IN  IF ~tc.finalized
      THEN [q EXCEPT ![i - 1].finalvel = Least(prev.maxvel, tpCalculateOptimizationInitialVel(tc)),
                     ![i].finalvel = 0]
      ELSE [q EXCEPT ![i - 1].finalvel = OptimalVel(prev, tc),
                     ![i].maxvel = Least(@, (25 * tc.target) \div (51 * Period))]

(* A step of the walk back, at place i and the place before it.  It gives up  *)
(* at the second segment that is not tangent, at one a quarter done, and at   *)
(* one that is splitting.                                                     *)
WalkBack(w, i) ==
  LET prev == w.q[i - 1] IN
  IF w.stop \/ i < 2 THEN w
  ELSE IF prev.term_cond # "TANGENT"
  THEN [w EXCEPT !.stop = w.nonTangent, !.nonTangent = TRUE]
  ELSE IF 4 * prev.progress >= prev.target \/ prev.splitting
  THEN [w EXCEPT !.stop = TRUE]
  ELSE [w EXCEPT !.q = Optimized(w.q, i)]

(* tpRunOptimization walks back from the end.  The queues here are shorter    *)
(* than its other two limits, depth and number of peaks.                      *)
tpRunOptimization(q) ==
  LET Walk[x \in 0 .. Len(q)] ==
        IF x = 0 THEN [q |-> q, nonTangent |-> FALSE, stop |-> FALSE]
        ELSE WalkBack(Walk[x - 1], Len(q) + 1 - x)
  IN  Walk[Len(q)].q

(* tpAddSegmentToQueue after the changes to the segment before it.            *)
Queued(q, tc) ==
  LET n == Len(q)
      linked == IF n = 0 THEN q
                ELSE [q EXCEPT ![n] = tcFinalizeLength(handleModeChange(@, tc))]
  IN  tpRunOptimization(Append(linked, tc))

tpAbort == aborting' = TRUE /\ pausing' = TRUE

(* EMCMOT_SET_LINE and EMCMOT_SET_CIRCLE: tpAddLine and tpAddCircle, and the  *)
(* abort that follows a refusal.  A move of no length is no error.            *)
tpAddMove(len, vel, kind, canon) ==
  LET tc == NewSegment(len, vel, kind, canon) IN
  /\ moves < MaxMoves /\ moves' = IF len = 0 THEN moves ELSE moves + 1
  /\ IF aborting
     THEN tpAbort /\ UNCHANGED <<queue, path, done>>
     ELSE IF len < PosEpsilon
     THEN UNCHANGED <<queue, path, flags>>
     ELSE IF Len(queue) = QueueSize
     THEN \* the changes to the last segment are made before tcqPut refuses
          /\ queue' = tpRunOptimization([queue EXCEPT ![Len(queue)] =
                        tcFinalizeLength(handleModeChange(@, tc))])
          /\ tpAbort /\ UNCHANGED <<path, done>>
     ELSE /\ queue' = Queued(queue, tc)
          /\ ahead' = ahead + len /\ owed' = owed + len
          /\ done' = FALSE /\ UNCHANGED <<aborting, pausing>>
  /\ UNCHANGED moved

Abort ==
  /\ ~aborting
  /\ tpAbort
  /\ UNCHANGED <<queue, path, done, moved, moves>>

(* EMCMOT_PAUSE.  No command calls tpResume.                                  *)
tpPause ==
  /\ ~pausing /\ pausing' = TRUE
  /\ UNCHANGED <<queue, path, done, aborting, moved, moves>>

(* Motion is switched off: set_operating_mode, in place of tpRunCycle.        *)
tpClear ==
  /\ queue' = <<>> /\ ahead' = 0 /\ owed' = 0
  /\ done' = TRUE /\ aborting' = FALSE /\ pausing' = FALSE
  /\ moved' = 0
  /\ UNCHANGED moves

------------------------------------------------------------------------------
(* A period of one segment: tpUpdateCycle.                                    *)

(* tpCalculateTrapezoidalAccel: the speed at the end of the period.           *)
TrapezoidalVel(tc, next) ==
  LET a == tcGetTangentialMaxAccel(tc)
      c == tc.cycle_time
      v == tc.currentvel
      rest == 4 * Period * (Period * Square(tpGetRealFinalVel(tc, next))
                            + a * (tcGetDistanceToGo(tc) - v * c))
      maxnewvel == Speed((IF rest > 0 THEN FloorSqrt(rest + Square(a * c)) ELSE 0) - a * c,
                         2 * Period)
  IN  v + saturate(saturate(maxnewvel, tpGetRealTargetVel(tc)) - v, (a * c) \div Period)

(* tpCalculateRampAccel: one constant rate to the final speed at the end.     *)
RampVel(tc, next) ==
  LET c == tc.cycle_time
      v == tc.currentvel
      most == (tcGetTangentialMaxAccel(tc) * c) \div Period
      dv2 == Square(tpGetRealFinalVel(tc, next)) - Square(v)
      d == tcGetDistanceToGo(tc)
  IN  v + saturate(IF d = 0 THEN dv2 * most ELSE Speed(v * d + dv2 * c, d) - v, most)

NextVel(tc, next) ==
  IF tc.ramp /\ tc.term_cond = "TANGENT" /\ tpGetRealFinalVel(tc, next) > 0
  THEN RampVel(tc, next) ELSE TrapezoidalVel(tc, next)

(* A speed that would turn negative is zero, and the segment is at its end if *)
(* it could have been reached within the period.                              *)
tcUpdateDistFromAccel(tc, v) ==
  IF v < 0
  THEN [tc EXCEPT !.currentvel = 0,
                  !.progress = IF tcGetDistanceToGo(tc) < 2 * tc.currentvel * tc.cycle_time
                               THEN tc.target ELSE @]
  ELSE [tc EXCEPT !.currentvel = v,
                  !.progress = Least(tc.target, @ + (v + tc.currentvel) * tc.cycle_time)]

(* tpCheckEndCondition: the speed v_f at which tc reaches its end, zero time  *)
(* away if the end can not be reached at all.                                 *)
EndVel(tc, next) ==
  LET v == tc.currentvel
      vf == tpGetRealFinalVel(tc, next)
      ad == tcGetTangentialMaxAccel(tc) * tcGetDistanceToGo(tc)
      change == Period * (Square(vf) - Square(v))
  IN  IF change > ad THEN FloorSqrt(Square(v) + ad \div Period)
      ELSE IF change < -ad THEN FloorSqrt(Square(v) - ad \div Period)
      ELSE vf

tpCheckEndCondition(tc0, next) ==
  LET tc == [tc0 EXCEPT !.cycle_time = Period]
      d == tcGetDistanceToGo(tc)
      v == tc.currentvel
      sum == v + EndVel(tc, next)
  IN  IF d <= PosEpsilon
      THEN [tc EXCEPT !.progress = tc.target, !.splitting = TRUE, !.cycle_time = 0,
                      !.term_vel = v, !.remove = @ \/ tc.term_cond = "STOP"]
      ELSE IF tc.term_cond = "STOP" \/ v + tpGetRealFinalVel(tc, next) = 0
      THEN tc
      ELSE IF d < Period * sum /\ ~tc.splitting
      THEN [tc EXCEPT !.splitting = TRUE, !.cycle_time = (d + sum - 1) \div sum, !.term_vel = EndVel(tc, next)]
      ELSE tc

tpUpdateCycle(tc, next) ==
  tpCheckEndCondition(tcUpdateDistFromAccel(tc, NextVel(tc, next)), next)

(* tpActivateSegment.                                                         *)
tpActivateSegment(tc) ==
  IF tc.active THEN tc
  ELSE [tc EXCEPT !.active = TRUE,
                  !.ramp = @ \/ /\ tcGetDistanceToGo(tc) > 0
                                /\ tcGetDistanceToGo(tc) < Period * Cutoff *
                                     (tc.currentvel + Least(tc.finalvel, tpGetRealTargetVel(tc)))
                                /\ tc.canon # "traverse" /\ tc.term_cond = "TANGENT"]

------------------------------------------------------------------------------
(* tpRunCycle.                                                                *)

(* The segment after place i, if there is one.                                *)
After(q, i) == IF i < Len(q) THEN <<q[i + 1]>> ELSE <<>>

tpHandleRegularCycle(q) ==
  IF q[1].remove THEN q
  ELSE [q EXCEPT ![1] = tpUpdateCycle([@ EXCEPT !.cycle_time = Period], After(q, 1))]

(* Mutant: the next segment starts from rest.                                 *)
tpHandleSplitCycle_FromRest(q) ==
  IF q[1].remove THEN q
  ELSE LET tc == [q[1] EXCEPT !.progress = q[1].target, !.remove = TRUE]
       IN  IF Len(q) = 1 THEN <<tc>>
           ELSE [q EXCEPT ![1] = tc,
                          ![2] = tpUpdateCycle([q[2] EXCEPT !.cycle_time = Period - tc.cycle_time],
                                               After(q, 2))]

(* The segment after tc runs for the rest of the period, from the speed at    *)
(* which tc ends if they are tangent.                                         *)
Follow(tc, next) ==
  IF tc.term_cond = "TANGENT"
  THEN [next EXCEPT !.cycle_time = Period - tc.cycle_time, !.currentvel = tc.term_vel]
  ELSE next

(* tc reaches its end, and the next segment takes over.                       *)
tpHandleSplitCycle(q) ==
  IF q[1].remove THEN q
  ELSE LET tc == [q[1] EXCEPT !.progress = q[1].target, !.remove = TRUE]
       IN  IF Len(q) = 1 THEN <<tc>>
           ELSE [q EXCEPT ![1] = tc, ![2] = tpUpdateCycle(Follow(tc, q[2]), After(q, 2))]

(* Mutant: a finished segment is left in the queue.                           *)
tpCompleteSegment_Never(q) == q

(* Mutant: the segment that shared the period is removed too.                 *)
tpCompleteSegment_Clears(q) == IF q[1].remove THEN <<>> ELSE q

(* What tpCompleteSegment clears goes with the segment.                       *)
tpCompleteSegment(q) ==
  IF q[1].remove /\ id # waiting_for_atspeed THEN Tail(q) ELSE q

Progress(q) == Total([i \in 1 .. Len(q) |-> q[i].progress])

(* The queue after the period of its first segment, before that is removed.   *)
Cycle ==
  LET q == [queue EXCEPT ![1] = tpActivateSegment(@)]
  IN  IF q[1].splitting THEN tpHandleSplitCycle(q) ELSE tpHandleRegularCycle(q)

(* Mutant: the displacement of a split period is not added to currentPos.     *)
Run_LosesDisplacement ==
  /\ queue' = tpCompleteSegment(Cycle)
  /\ moved' = Progress(Cycle) - Progress(queue)
  /\ ahead' = -moved'
  /\ owed' = IF queue[1].splitting THEN owed ELSE owed - moved'
  /\ UNCHANGED <<flags, moves>>

(* tpSetPos, which handle_interpolation calls at the start of the period: how *)
(* far goalPos is ahead of currentPos then.                                   *)
tpSetPos == 0

Run ==
  LET cycle == Cycle
      step == Progress(cycle) - Progress(queue)
  IN  /\ queue' = tpCompleteSegment(cycle)
      /\ moved' = step
      /\ ahead' = tpSetPos - step
      /\ owed' = owed - step
      /\ UNCHANGED <<flags, moves>>

Reset ==
  /\ queue' = <<>> /\ ahead' = 0 /\ owed' = 0
  /\ done' = TRUE /\ aborting' = FALSE /\ pausing' = FALSE
  /\ moved' = 0
  /\ UNCHANGED moves

AtRest == \A i \in 1 .. Least(2, Len(queue)) : queue[i].currentvel = 0

(* tpHandleEmptyQueue *)
RunEmpty == queue = <<>> /\ Reset
(* tpHandleAbort, once motion has stopped *)
RunAborted == queue # <<>> /\ aborting /\ AtRest /\ Reset
RunSegment == queue # <<>> /\ ~(aborting /\ AtRest) /\ Run

tpRunCycle == RunEmpty \/ RunAborted \/ RunSegment

------------------------------------------------------------------------------
Init ==
  /\ queue = <<>> /\ ahead = 0 /\ owed = 0 /\ commanded = FALSE
  /\ done = TRUE /\ aborting = FALSE /\ pausing = FALSE
  /\ moved = 0 /\ moves = 0
  /\ id \in Ids

Command ==
  \/ \E len \in Lengths, vel \in Vels, kind \in Kinds, canon \in CanonTypes :
       tpAddMove(len, vel, kind, canon)
  \/ Abort \/ tpPause

(* A period in another mode does no more than tpSetPos.  While moves are      *)
(* queued the mode is the coordinated one: a move needs it (command.c:396),   *)
(* and it is left only in position, with the planner done (control.c:434).    *)
OtherMode ==
  /\ queue = <<>>
  /\ ahead' = tpSetPos
  /\ UNCHANGED <<queue, owed, flags, moved, moves>>

(* emcmotCommandHandler executes at most one command per period, and          *)
(* emcmotController follows it.                                               *)
Next ==
  /\ UNCHANGED id
  /\ \/ ~commanded /\ commanded' = TRUE /\ Command
     \/ commanded' = FALSE /\ (tpClear \/ OtherMode \/ tpRunCycle)

Spec == Init /\ [][Next]_vars

(* Another period would change nothing.                                       *)
Idle ==
  moved = 0 /\ ahead = 0 /\ ~commanded /\
  IF queue = <<>> THEN done /\ ~Stopping
                  ELSE ~(aborting /\ AtRest) /\ tpCompleteSegment(Cycle) = queue

(* In coordinated mode the controller asks for a point in every period: weak  *)
(* fairness of tpRunCycle, with Idle for the states that do not enable it.  A *)
(* program that leaves the mode is taken to come back to it.                  *)
FairSpec == Spec /\ ([]<>Idle \/ []<><<tpRunCycle>>_vars)

------------------------------------------------------------------------------
Segments ==
  [target : Lengths \ {0}, progress : Nat, reqvel : Vels, maxvel : Nat,
   currentvel : Nat, finalvel : Nat, term_vel : Nat,
   term_cond : {"TANGENT", "STOP"}, motion_type : Kinds, canon : CanonTypes,
   cycle_time : 0 .. Period, active : BOOLEAN,
   ramp : BOOLEAN, splitting : BOOLEAN, remove : BOOLEAN, finalized : BOOLEAN]

(* Every field keeps its range: no speed, computed by roots and quotients, is *)
(* below zero, no segment is driven past its end, the split of a period is    *)
(* within the period.                                                         *)
TypeOK ==
  /\ Len(queue) <= QueueSize
  /\ \A tc \in Range(queue) : tc \in Segments /\ tc.progress <= tc.target
  /\ ahead \in Int /\ owed \in Nat /\ commanded \in BOOLEAN /\ moved \in Nat
  /\ moves \in 0 .. MaxMoves
  /\ done \in BOOLEAN /\ aborting \in BOOLEAN /\ pausing \in BOOLEAN

(* What is added to currentPos is what the moves ask for: the displacements   *)
(* of a move add up to its length, through every split period, refusal, pause *)
(* and abort, so that what is owed is what is left of the queued segments.    *)
(* goalPos is at most that far ahead, and not further behind currentPos than  *)
(* the last displacement: because of tpSetPos a move added to a queue starts  *)
(* anywhere between the two, not at the end of the queue.                     *)
PathConserved ==
  /\ TypeOK
  /\ owed = ToGo(queue)
  /\ ahead \in -moved .. owed

(* No segment runs, or is to end, faster than the largest speed allowed, and  *)
(* from its speed at any time the planner can stop before the queued path     *)
(* ends: half of v squared is at most the sum over the segments of the        *)
(* acceleration times the distance left, up to one unit of rounded speed.     *)
CanStop ==
  /\ \A tc \in Range(queue) :
       {tc.maxvel, tc.currentvel, tc.finalvel, tc.term_vel} \subseteq 0 .. MaxVel
  /\ queue # <<>> =>
       LET v == Max({0} \cup {tc.currentvel : tc \in {s \in Range(queue) : ~s.remove}}) - 1
           room == Total([i \in 1 .. Len(queue) |->
                     tcGetTangentialMaxAccel(queue[i]) * tcGetDistanceToGo(queue[i])])
       IN  v > 0 => Period * Square(v) <= room

(* A finished segment whose id is the one waiting_for_atspeed holds stays at  *)
(* the head of the queue, and with it everything behind it.  In this program  *)
(* that is so of every segment.                                               *)
Stuck == queue # <<>> /\ queue[1].remove /\ id = waiting_for_atspeed

(* The distance of one period and of the next differ by no more than the      *)
(* acceleration allows, unless motion is stuck.                               *)
Smooth ==
  [][tpRunCycle /\ ~Stuck => moved' - moved \in -2 * Period * LineAcc .. 2 * Period * LineAcc]_vars

(* A queued path is driven to its end unless it is paused, aborted or stuck,  *)
(* and an abort comes to its end, and with it the refusal of new moves,       *)
(* unless motion is stuck.                                                    *)
ComesToRest == /\ queue # <<>> ~> queue = <<>> \/ pausing \/ Stuck
               /\ aborting ~> ~aborting \/ Stuck

(* The planner is the queue MotionControl takes it for.                       *)
Queue == INSTANCE PlannerContract WITH len <- Len(queue)
ImplementsContract == Queue!Spec
=============================================================================
