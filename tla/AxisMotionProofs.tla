--------------------------- MODULE AxisMotionProofs ---------------------------
(* A jog never takes the drive past the limits of its axis, for every         *)
(* acceleration, speed, limit and lag of the drive thread: the planner always *)
(* has room to brake, and the drive thread never takes that room away.        *)
EXTENDS AxisMotion, WellFoundedInduction, TLAPS

------------------------------------------------------------------------------
(* The search for a speed.                                                    *)

(* A set of naturals that is not empty has a least element.                   *)
LEMMA HasLeast ==
  ASSUME NEW T, T \subseteq Nat, T # {}
  PROVE  \E x \in T : \A y \in T : x <= y
<1>1. PICK R : R = OpToRel(<, Nat)  OBVIOUS
<1>2. IsWellFoundedOn(R, Nat)  BY <1>1, NatLessThanWellFounded
<1>3. \E x \in T : \A y \in T : ~ (<<y, x>> \in R)  BY <1>2, WFMin
<1>4. \A x \in Nat, y \in Nat : y < x => <<y, x>> \in R  BY <1>1 DEF OpToRel
<1>5. PICK x \in T : \A y \in T : ~ (<<y, x>> \in R)  BY <1>3
<1>6. ASSUME NEW y \in T PROVE x <= y
  <2>1. x \in Nat /\ y \in Nat /\ ~(y < x)  BY <1>4, <1>5, <1>6
  <2> QED  BY <2>1
<1> QED  BY <1>6

(* A set with 0 but not n + 1 in it is left somewhere up to n.                *)
LEMMA LeavesSet ==
  ASSUME NEW n \in Nat, NEW T, 0 \in T, n + 1 \notin T
  PROVE  \E k \in 0 .. n : k \in T /\ k + 1 \notin T
<1>1. PICK U : U = {x \in Nat : x \notin T}  OBVIOUS
<1>2. U \subseteq Nat /\ n + 1 \in U  BY <1>1
<1>3. PICK x \in U : \A y \in U : x <= y  BY <1>2, HasLeast
<1>4. x \in Nat /\ x # 0 /\ x <= n + 1 /\ x \notin T  BY <1>1, <1>2, <1>3
<1>5. PICK k \in 0 .. n : x = k + 1  BY <1>4
<1>6. k \in T
  <2> SUFFICES ASSUME k \notin T PROVE FALSE  OBVIOUS
  <2>1. k \in U  BY <1>1, <1>5
  <2>2. k + 1 <= k  BY <1>3, <1>5, <2>1
  <2> QED  BY <2>2
<1> QED  BY <1>4, <1>5, <1>6

(* At the speed v the planner stops within err.                               *)
Reach(err, acc, v) == (v + acc) * (v + acc) <= 2 * acc * err + acc * acc

(* It does at rest.                                                           *)
LEMMA RestReaches ==
  ASSUME NEW err \in Nat, NEW acc \in Nat
  PROVE  Reach(err, acc, 0)
<1>1. 0 <= 2 * acc * err  BY Z3
<1> QED  BY <1>1, Z3 DEF Reach

(* It does not if the speed alone is more than err.                           *)
LEMMA TooFast ==
  ASSUME NEW err \in Nat, NEW acc \in Nat, NEW v \in Nat, v > err
  PROVE  ~Reach(err, acc, v)
<1>1. acc * err <= acc * v  BY Z3
<1>2. v * v > 0  BY Z3
<1>3. (v + acc) * (v + acc) = v * v + 2 * (acc * v) + acc * acc  BY Z3
<1>4. 2 * acc * err = 2 * (acc * err)  BY Z3
<1> QED  BY <1>1, <1>2, <1>3, <1>4, Z3 DEF Reach

(* The speed asked for is one the planner can stop from within err.           *)
LEMMA RequestReaches ==
  ASSUME NEW err \in Nat, NEW acc \in Nat
  PROVE  RequestTowards(err, acc) \in Nat /\ Reach(err, acc, RequestTowards(err, acc))
<1>1. PICK n \in Nat : n = err \div 64 /\ 64 * (n + 1) > err
  <2>1. err \div 64 \in Nat /\ 64 * ((err \div 64) + 1) > err  BY Z3
  <2> QED  BY <2>1
<1>2. PICK T : T = {k \in Nat : Reach(err, acc, 64 * k)}  OBVIOUS
<1>3. 0 \in T
  <2>1. 64 * 0 = 0  OBVIOUS
  <2> QED  BY <1>2, <2>1, RestReaches
<1>4. n + 1 \notin T
  <2>1. 64 * (n + 1) \in Nat  OBVIOUS
  <2>2. ~Reach(err, acc, 64 * (n + 1))  BY <1>1, <2>1, TooFast
  <2> QED  BY <1>2, <2>2, Zenon
<1>5. \E k \in 0 .. n : k \in T /\ k + 1 \notin T  BY <1>3, <1>4, LeavesSet
<1>6. \E k \in 0 .. n : Reach(err, acc, 64 * k) /\ ~Reach(err, acc, 64 * (k + 1))
  <2>1. PICK k \in 0 .. n : k \in T /\ k + 1 \notin T  BY <1>5
  <2>2. k + 1 \in Nat  OBVIOUS
  <2> QED  BY <1>2, <2>1, <2>2, Zenon
<1>7. PICK c : c = CHOOSE k \in 0 .. n : Reach(err, acc, 64 * k) /\ ~Reach(err, acc, 64 * (k + 1))
  OBVIOUS
<1>8. c \in 0 .. n /\ Reach(err, acc, 64 * c) /\ ~Reach(err, acc, 64 * (c + 1))
  BY <1>6, <1>7, Zenon
<1>9. PICK m \in Nat : m = 64 * c  BY <1>8
<1>10. Reach(err, acc, m) /\ ~Reach(err, acc, m + 64)
  <2>1. 64 * (c + 1) = m + 64  BY <1>8, <1>9
  <2> QED  BY <1>8, <1>9, <2>1
<1>11. PICK V : V = {k \in Nat : Reach(err, acc, m + k)}  OBVIOUS
<1>12. 0 \in V /\ 63 + 1 \notin V
  <2>1. m + 0 = m /\ 63 + 1 = 64  OBVIOUS
  <2> QED  BY <1>10, <1>11, <2>1
<1>13. \E k \in 0 .. 63 : k \in V /\ k + 1 \notin V  BY <1>12, LeavesSet
<1>14. \E v \in m .. m + 63 : Reach(err, acc, v) /\ ~Reach(err, acc, v + 1)
  <2>1. PICK k \in 0 .. 63 : k \in V /\ k + 1 \notin V  BY <1>13
  <2>2. k + 1 \in Nat /\ m + (k + 1) = (m + k) + 1 /\ m + k \in m .. m + 63  OBVIOUS
  <2>3. Reach(err, acc, m + k) /\ ~Reach(err, acc, m + (k + 1))  BY <1>11, <2>1, <2>2, Zenon
  <2> QED  BY <2>2, <2>3, Zenon
<1>15. RequestTowards(err, acc) =
         CHOOSE v \in m .. m + 63 : Reach(err, acc, v) /\ ~Reach(err, acc, v + 1)
  BY <1>1, <1>7, <1>9, Zenon DEF RequestTowards, Reach
<1>16. PICK r : r = RequestTowards(err, acc)  OBVIOUS
<1>17. r \in m .. m + 63 /\ Reach(err, acc, r)  BY <1>14, <1>15, <1>16, Zenon
<1>18. r \in Nat  BY <1>17
<1> QED  BY <1>16, <1>17, <1>18

------------------------------------------------------------------------------
(* Room to brake.                                                             *)

(* At the speed v the planner stops within room, or comes to rest at once.    *)
Brakes(v, acc, room) == v * v <= acc * acc + 2 * acc * room

(* At the speed v the planner stops within room.                              *)
Stops(v, acc, room) == v * v <= 2 * acc * room

(* Asked for a speed it can stop from, or braking from one it can brake from, *)
(* the planner can stop in the room left after the step.                      *)
LEMMA RequestStops ==
  ASSUME NEW acc \in Nat, NEW room \in Nat, NEW r \in Nat, NEW v \in 0 .. r, NEW err \in Int,
         err <= room, Reach(err, acc, r)
  PROVE  Stops(v, acc, room - v)
<1>1. r * r + 2 * (acc * r) <= 2 * (acc * err)
  <2>1. (r + acc) * (r + acc) = r * r + 2 * (acc * r) + acc * acc  BY Z3
  <2>2. 2 * acc * err = 2 * (acc * err)  BY Z3
  <2> QED  BY <2>1, <2>2, Z3 DEF Reach
<1>2. v * v <= r * r /\ acc * v <= acc * r  BY Z3
<1>3. acc * err <= acc * room  BY Z3
<1>4. 2 * acc * (room - v) = 2 * (acc * room) - 2 * (acc * v)  BY Z3
<1> QED  BY <1>1, <1>2, <1>3, <1>4, Z3 DEF Stops

LEMMA BrakingStops ==
  ASSUME NEW acc \in Nat, NEW room \in Nat, NEW v \in Nat, NEW w \in Nat, v = w + acc,
         Brakes(v, acc, room)
  PROVE  Stops(w, acc, room - w)
<1>1. v * v = w * w + 2 * (acc * w) + acc * acc  BY Z3
<1>2. 2 * acc * room = 2 * (acc * room)  BY Z3
<1>3. 2 * acc * (room - w) = 2 * (acc * room) - 2 * (acc * w)  BY Z3
<1> QED  BY <1>1, <1>2, <1>3, Z3 DEF Stops, Brakes

(* Where the planner can stop there is room, and it can brake.                *)
LEMMA StopsWithin ==
  ASSUME NEW acc \in Nat, NEW room \in Nat, NEW v \in Nat, Stops(v, acc, room - v)
  PROVE  v <= room
<1>1. CASE acc = 0
  <2>1. v * v <= 0  BY <1>1, Z3 DEF Stops
  <2>2. v = 0  BY <2>1, Z3
  <2> QED  BY <2>2
<1>2. CASE acc # 0
  <2> SUFFICES ASSUME room - v < 0 PROVE FALSE  OBVIOUS
  <2>1. acc * (room - v) < 0  BY <1>2, Z3
  <2>2. 2 * acc * (room - v) = 2 * (acc * (room - v))  BY Z3
  <2>3. v * v >= 0  BY Z3
  <2> QED  BY <2>1, <2>2, <2>3, Z3 DEF Stops
<1> QED  BY <1>1, <1>2

LEMMA StopsThenBrakes ==
  ASSUME NEW acc \in Nat, NEW room \in Int, NEW v \in Int, Stops(v, acc, room)
  PROVE  Brakes(v, acc, room)
<1>1. 0 <= acc * acc  BY Z3
<1>2. v * v \in Int /\ 2 * acc * room \in Int /\ acc * acc \in Int  BY Z3
<1> QED  BY <1>1, <1>2, Z3 DEF Stops, Brakes

(* More acceleration or more room brake no worse.                             *)
LEMMA BrakesMore ==
  ASSUME NEW acc \in Nat, NEW more \in Nat, acc <= more, NEW room \in Nat, NEW wide \in Nat,
         room <= wide, NEW v \in Int, Brakes(v, acc, room)
  PROVE  Brakes(v, more, wide)
<1>1. acc * acc <= more * more  BY Z3
<1>2. acc * room <= more * room  BY Z3
<1>3. more * room <= more * wide  BY Z3
<1>4. 2 * acc * room = 2 * (acc * room) /\ 2 * more * wide = 2 * (more * wide)  BY Z3
<1>5. v * v \in Int /\ acc * acc \in Int /\ more * more \in Int  BY Z3
<1>6. acc * room \in Int /\ more * room \in Int /\ more * wide \in Int  BY Z3
<1> QED  BY <1>1, <1>2, <1>3, <1>4, <1>5, <1>6, Z3 DEF Brakes

(* A speed of one step of the acceleration is braked at once.                 *)
LEMMA SlowBrakes ==
  ASSUME NEW acc \in Nat, NEW room \in Nat, NEW v \in Int, v <= acc, 0 - acc <= v
  PROVE  Brakes(v, acc, room)
<1>1. v * v <= acc * acc
  <2>1. PICK a \in Nat, b \in Nat : a = acc - v /\ b = acc + v  OBVIOUS
  <2>2. a * b >= 0  BY Z3
  <2>3. a * b = acc * acc - v * v  BY <2>1, Z3
  <2> QED  BY <2>2, <2>3, Z3
<1>2. 2 * acc * room >= 0  BY Z3
<1>3. v * v \in Int /\ 2 * acc * room \in Int /\ acc * acc \in Int  BY Z3
<1> QED  BY <1>1, <1>2, <1>3, Z3 DEF Brakes

(* Asked for no more than a speed it can stop from, or braking, the planner   *)
(* can stop in the room left after the step, and can brake again.             *)
LEMMA StepIsSafe ==
  ASSUME NEW acc \in Nat, NEW room \in Nat, NEW v \in Int, NEW asked \in Int, NEW w \in Nat,
         w <= asked \/ w = v - acc,
         v >= 0 => Brakes(v, acc, room),
         NEW r \in Nat, NEW err \in Nat, err <= room, Reach(err, acc, r), asked <= r
  PROVE  w <= room /\ Brakes(w, acc, room - w)
<1>1. CASE w <= asked
  <2>1. w \in 0 .. r  BY <1>1
  <2>2. Stops(w, acc, room - w)  BY <2>1, RequestStops
  <2>3. w \in Int /\ room - w \in Int  OBVIOUS
  <2>4. w <= room  BY <2>2, StopsWithin
  <2>5. Brakes(w, acc, room - w)  BY <2>2, <2>3, StopsThenBrakes
  <2> QED  BY <2>4, <2>5
<1>2. CASE w = v - acc
  <2>1. v \in Nat /\ v = w + acc  BY <1>2
  <2>2. Stops(w, acc, room - w)  BY <2>1, BrakingStops
  <2>3. w \in Int /\ room - w \in Int  OBVIOUS
  <2>4. w <= room  BY <2>2, StopsWithin
  <2>5. Brakes(w, acc, room - w)  BY <2>2, <2>3, StopsThenBrakes
  <2> QED  BY <2>4, <2>5
<1> QED  BY <1>1, <1>2

------------------------------------------------------------------------------
(* The planner.                                                               *)

Limits == MinLimit .. MaxLimit

Planners ==
  [pos_cmd : Limits, vel : Nat, acc : Nat, enable : BOOLEAN, curr_pos : Limits, curr_vel : Int, active : BOOLEAN]

(* From position p the planner can brake before either limit.                 *)
CanBrake(v, acc, p) ==
  /\ v >= 0 => Brakes(v, acc, MaxLimit - p)
  /\ v <= 0 => Brakes(0 - v, acc, p - MinLimit)

(* The limits are integers.                                                   *)
LEMMA LimitsAreInt ==
  /\ MinLimit \in Int /\ MaxLimit \in Int /\ MinLimit <= MaxLimit
  /\ \A p \in Limits : p \in Int /\ MaxLimit - p \in Nat /\ p - MinLimit \in Nat
<1>1. MinLimit \in Nat /\ MaxLimit \in Nat /\ Start \in MinLimit .. MaxLimit  BY AxisAssumption
<1> QED  BY <1>1 DEF Limits

(* What the planner asks for on the way to err, at most speed top.            *)
Bounded(asked, want, top) ==
  asked = IF want > top THEN top ELSE IF want < -top THEN -top ELSE want

(* A speed the planner may take: within one step of the old one, and no more  *)
(* than asked for, unless it is braking as hard as it can.                    *)
LEMMA ClampedSpeed ==
  ASSUME NEW asked \in Int, NEW v \in Int, NEW acc \in Nat
  PROVE  LET w == Clamp(asked, v - acc, v + acc)
         IN  /\ w \in Int /\ v - acc <= w /\ w <= v + acc
             /\ w <= asked \/ w = v - acc
             /\ w >= asked \/ w = v + acc
  BY DEF Clamp

(* One update of the planner keeps it within the limits with room to brake.   *)
LEMMA UpdateIsSafe ==
  ASSUME NEW tp \in Planners, NEW new, new = simple_tp_update(tp),
         CanBrake(tp.curr_vel, tp.acc, tp.curr_pos)
  PROVE  /\ new \in Planners
         /\ new.acc = tp.acc /\ new.curr_pos = tp.curr_pos + new.curr_vel
         /\ CanBrake(new.curr_vel, new.acc, new.curr_pos)
         /\ 0 - tp.acc <= new.curr_vel - tp.curr_vel /\ new.curr_vel - tp.curr_vel <= tp.acc
<1>1. PICK p \in Int, t \in Int, a \in Nat, s \in Nat, v \in Int :
        /\ p = tp.curr_pos /\ t = tp.pos_cmd /\ a = tp.acc /\ s = tp.vel /\ v = tp.curr_vel
        /\ p \in Limits /\ t \in Limits
  BY LimitsAreInt DEF Planners
<1>2. PICK up \in Nat, down \in Nat : up = MaxLimit - p /\ down = p - MinLimit
  BY <1>1, LimitsAreInt
<1>3. PICK err \in Int : err = t - p /\ err <= up /\ 0 - err <= down
  BY <1>1, <1>2, LimitsAreInt DEF Limits
<1>4. PICK far \in BOOLEAN : far = (tp.enable /\ 1000 * Abs(err) > a)
  BY Zenon
<1>5. PICK want : want = IF ~far THEN 0
                         ELSE IF err > 0 THEN RequestTowards(err, a) ELSE -RequestTowards(-err, a)
  OBVIOUS
<1>6. PICK asked : Bounded(asked, want, s)
  BY Zenon DEF Bounded
<1>7. PICK w : w = Clamp(asked, v - a, v + a)
  OBVIOUS
<1>8. new = [tp EXCEPT !.enable = far, !.active = far \/ w # 0, !.curr_vel = w, !.curr_pos = @ + w,
                       !.pos_cmd = IF tp.enable THEN @ ELSE tp.curr_pos]
  <2> DEFINE err0 == tp.pos_cmd - tp.curr_pos
             far0 == tp.enable /\ 1000 * Abs(err0) > tp.acc
             want0 == IF ~far0 THEN 0
                      ELSE IF err0 > 0 THEN RequestTowards(err0, tp.acc) ELSE -RequestTowards(-err0, tp.acc)
             asked0 == IF want0 > tp.vel THEN tp.vel ELSE IF want0 < -tp.vel THEN -tp.vel ELSE want0
             vel0 == Clamp(asked0, tp.curr_vel - tp.acc, tp.curr_vel + tp.acc)
  <2>1. new = [tp EXCEPT !.enable = far0, !.active = far0 \/ vel0 # 0, !.curr_vel = vel0,
                         !.curr_pos = @ + vel0, !.pos_cmd = IF tp.enable THEN @ ELSE tp.curr_pos]
    BY DEF simple_tp_update
  <2>2. err = err0  BY <1>1, <1>3
  <2>3. far = far0  BY <1>1, <1>4, <2>2
  <2>4. want = want0  BY <1>1, <1>5, <2>2, <2>3
  <2>5. asked = asked0  BY <1>1, <1>6, <2>4, Zenon DEF Bounded
  <2>6. w = vel0  BY <1>1, <1>7, <2>5
  <2> HIDE DEF far0, vel0
  <2> QED  BY <2>1, <2>3, <2>6
<1>9. /\ asked \in Int
      /\ \E r \in Nat, e \in Nat : e <= up /\ Reach(e, a, r) /\ asked <= r
      /\ \E r \in Nat, e \in Nat : e <= down /\ Reach(e, a, r) /\ 0 - asked <= r
  <2>1. 0 \in Nat /\ 0 <= up /\ 0 <= down /\ Reach(0, a, 0)  BY RestReaches
  <2>2. CASE ~far
    <3>1. want = 0  BY <1>5, <2>2
    <3>2. asked = 0  BY <1>6, <3>1 DEF Bounded
    <3>3. asked <= 0 /\ 0 - asked <= 0  BY <3>2
    <3> QED  BY <2>1, <3>2, <3>3
  <2>3. CASE far /\ err > 0
    <3>1. err \in Nat  BY <2>3
    <3>2. PICK r \in Nat : r = RequestTowards(err, a) /\ Reach(err, a, r)
      BY <3>1, RequestReaches
    <3>3. want = r  BY <1>5, <2>3, <3>2
    <3>4. asked \in Int /\ asked <= r /\ 0 - asked <= 0  BY <1>6, <3>3 DEF Bounded
    <3> QED  BY <1>3, <2>1, <3>1, <3>2, <3>4
  <2>4. CASE far /\ ~(err > 0)
    <3>1. PICK e \in Nat : e = -err /\ e <= down  BY <1>3, <2>4
    <3>2. PICK r \in Nat : r = RequestTowards(e, a) /\ Reach(e, a, r)
      BY <3>1, RequestReaches
    <3>3. want = -r  BY <1>5, <2>4, <3>1, <3>2
    <3>4. asked \in Int /\ 0 - asked <= r /\ asked <= 0  BY <1>6, <3>3 DEF Bounded
    <3> QED  BY <2>1, <3>1, <3>2, <3>4
  <2> QED  BY <2>2, <2>3, <2>4
<1>10. /\ w \in Int /\ v - a <= w /\ w <= v + a
       /\ w <= asked \/ w = v - a
       /\ w >= asked \/ w = v + a
  BY <1>7, <1>9, ClampedSpeed
<1>11. /\ v >= 0 => Brakes(v, a, up)
       /\ v <= 0 => Brakes(0 - v, a, down)
  BY <1>1, <1>2 DEF CanBrake
<1>12. w >= 0 => w <= up /\ Brakes(w, a, up - w)
  <2> SUFFICES ASSUME w >= 0 PROVE w <= up /\ Brakes(w, a, up - w)  OBVIOUS
  <2>1. w \in Nat  BY <1>10
  <2>2. PICK r \in Nat, e \in Nat : e <= up /\ Reach(e, a, r) /\ asked <= r  BY <1>9
  <2>3. asked \in Int /\ (w <= asked \/ w = v - a)  BY <1>9, <1>10
  <2> QED  BY <1>11, <2>1, <2>2, <2>3, StepIsSafe
<1>13. w <= 0 => 0 - w <= down /\ Brakes(0 - w, a, down - (0 - w))
  <2> SUFFICES ASSUME w <= 0 PROVE 0 - w <= down /\ Brakes(0 - w, a, down - (0 - w))  OBVIOUS
  <2>1. PICK x \in Nat, y \in Int, z \in Int : x = 0 - w /\ y = 0 - v /\ z = 0 - asked
    BY <1>9, <1>10
  <2>2. x <= z \/ x = y - a  BY <1>9, <1>10, <2>1
  <2>3. y >= 0 => Brakes(y, a, down)  BY <1>11, <2>1
  <2>4. PICK r \in Nat, e \in Nat : e <= down /\ Reach(e, a, r) /\ z <= r  BY <1>9, <2>1
  <2>5. x <= down /\ Brakes(x, a, down - x)  BY <2>2, <2>3, <2>4, StepIsSafe
  <2> QED  BY <2>1, <2>5, Zenon
<1>14. PICK q \in Int : q = p + w /\ MaxLimit - q = up - w /\ q - MinLimit = down - (0 - w)
  BY <1>1, <1>2, <1>10, LimitsAreInt
<1>15. q \in Limits
  BY <1>1, <1>2, <1>10, <1>12, <1>13, <1>14, LimitsAreInt DEF Limits
<1>16. CanBrake(w, a, q)
  BY <1>12, <1>13, <1>14, Zenon DEF CanBrake
<1>17. new \in Planners /\ new.acc = a /\ new.curr_vel = w /\ new.curr_pos = q
  <2>1. tp.pos_cmd \in Limits /\ tp.curr_pos \in Limits /\ (far \/ w # 0) \in BOOLEAN
    BY <1>1
  <2>2. PICK b \in BOOLEAN : b = (far \/ w # 0)  BY <2>1
  <2>3. PICK u \in Limits : u = IF tp.enable THEN tp.pos_cmd ELSE tp.curr_pos  BY <2>1
  <2>4. new = [tp EXCEPT !.enable = far, !.active = b, !.curr_vel = w, !.curr_pos = q, !.pos_cmd = u]
    BY <1>1, <1>8, <1>14, <2>2, <2>3
  <2> QED  BY <1>1, <1>10, <1>15, <2>4 DEF Planners
<1>18. 0 - a <= w - v /\ w - v <= a
  BY <1>10
<1> QED  BY <1>1, <1>14, <1>16, <1>17, <1>18

(* What stands still within the limits can brake.                             *)
LEMMA RestBrakes ==
  ASSUME NEW acc \in Nat, NEW p \in Limits
  PROVE  CanBrake(0, acc, p)
<1>1. MaxLimit - p \in Nat /\ p - MinLimit \in Nat  BY LimitsAreInt
<1>2. 0 \in Int /\ 0 - acc <= 0 /\ 0 <= acc /\ 0 - 0 = 0  OBVIOUS
<1>3. Brakes(0, acc, MaxLimit - p) /\ Brakes(0, acc, p - MinLimit)  BY <1>1, <1>2, SlowBrakes
<1> QED  BY <1>2, <1>3, Zenon DEF CanBrake

(* An acceleration may be raised while moving, and lowered at rest.           *)
LEMMA MoreBrakes ==
  ASSUME NEW acc \in Nat, NEW more \in Nat, NEW p \in Limits, NEW v \in Int, CanBrake(v, acc, p),
         acc <= more \/ v = 0
  PROVE  CanBrake(v, more, p)
<1>1. CASE v = 0  BY <1>1, RestBrakes
<1>2. CASE acc <= more
  <2>1. MaxLimit - p \in Nat /\ p - MinLimit \in Nat /\ 0 - v \in Int  BY LimitsAreInt
  <2>2. MaxLimit - p <= MaxLimit - p /\ p - MinLimit <= p - MinLimit  BY <2>1
  <2>3. Brakes(v, acc, MaxLimit - p) => Brakes(v, more, MaxLimit - p)
    BY <1>2, <2>1, <2>2, BrakesMore
  <2>4. Brakes(0 - v, acc, p - MinLimit) => Brakes(0 - v, more, p - MinLimit)
    BY <1>2, <2>1, <2>2, BrakesMore
  <2> QED  BY <2>3, <2>4, Zenon DEF CanBrake
<1> QED  BY <1>1, <1>2

(* Set back by the step it just took, or after a step from rest set to any    *)
(* position within the limits, the planner can still brake.                   *)
LEMMA SetBackBrakes ==
  ASSUME NEW acc \in Nat, NEW p \in Limits, NEW q \in Limits, NEW v \in Int, CanBrake(v, acc, q),
         q = p + v \/ (0 - acc <= v /\ v <= acc)
  PROVE  CanBrake(v, acc, p)
<1>1. PICK up \in Nat, down \in Nat, up2 \in Nat, down2 \in Nat :
        up = MaxLimit - p /\ down = p - MinLimit /\ up2 = MaxLimit - q /\ down2 = q - MinLimit
  BY LimitsAreInt
<1>2. CASE 0 - acc <= v /\ v <= acc
  <2>1. 0 - v \in Int /\ 0 - acc <= 0 - v /\ 0 - v <= acc  BY <1>2
  <2>2. Brakes(v, acc, up)  BY <1>2, SlowBrakes
  <2>3. Brakes(0 - v, acc, down)  BY <2>1, SlowBrakes
  <2> QED  BY <1>1, <2>2, <2>3 DEF CanBrake
<1>3. CASE q = p + v
  <2>1. p \in Int /\ q \in Int /\ acc <= acc /\ 0 - v \in Int  BY LimitsAreInt
  <2>2. ASSUME v >= 0 PROVE Brakes(v, acc, up)
    <3>1. up2 <= up  BY <1>1, <1>3, <2>1, <2>2, LimitsAreInt
    <3>2. Brakes(v, acc, up2)  BY <1>1, <2>2 DEF CanBrake
    <3> QED  BY <2>1, <3>1, <3>2, BrakesMore
  <2>3. ASSUME v <= 0 PROVE Brakes(0 - v, acc, down)
    <3>1. down2 <= down  BY <1>1, <1>3, <2>1, <2>3, LimitsAreInt
    <3>2. Brakes(0 - v, acc, down2)  BY <1>1, <2>3 DEF CanBrake
    <3> QED  BY <2>1, <3>1, <3>2, BrakesMore
  <2> QED  BY <1>1, <2>2, <2>3 DEF CanBrake
<1> QED  BY <1>2, <1>3

------------------------------------------------------------------------------
(* The invariant.                                                             *)

Modes ==
  [enabling : BOOLEAN, coordinating : BOOLEAN, freeing : BOOLEAN,
   enable : BOOLEAN, coord : BOOLEAN, free : BOOLEAN, inpos : BOOLEAN, pin : BOOLEAN]

AxisRecords ==
  [pos_cmd : Limits, vel_cmd : Int, acc_cmd : Nat, pos_fb : Limits, active : BOOLEAN, enabled : BOOLEAN]

Posts == Jogs \cup Lines \cup {Plain(o) : o \in Others} \cup {None}

ModeInv == mode \in Modes /\ coord_tp \in [rest : Int, done : BOOLEAN]

(* A speed is only stored of a frame that has one.                            *)
PostInv ==
  /\ storing \in [frame : Posts, next : {"none", "speed", "number"}]
  /\ storing.next = "speed" => storing.frame \in Jogs \cup Lines
  /\ posted \in Posts

(* The motions the theorem is about.                                          *)
Held == ~weak /\ ~mode.coord

Typed == free_tp \in Planners /\ axis \in AxisRecords /\ drive \in [act : Limits, fb : Limits]

(* The planner can brake from where it is, and from where the drive is, which *)
(* the drive thread may set it to at any time.                                *)
Braking ==
  /\ CanBrake(free_tp.curr_vel, free_tp.acc, free_tp.curr_pos)
  /\ CanBrake(free_tp.curr_vel, free_tp.acc, drive.act)

(* Between updates a planner that moves is where the drive was told to be,    *)
(* and so is the commanded position.                                          *)
Aligned ==
  pc # "publish" /\ free_tp.curr_vel # 0 => free_tp.curr_pos = drive.act /\ axis.pos_cmd = drive.act

(* With motion off nothing moves.                                             *)
Stopped == ~mode.enable => pc # "publish" /\ free_tp.curr_vel = 0

Safe == Typed /\ Braking /\ Aligned /\ Stopped

AxisInv == ModeInv /\ PostInv /\ (Held => Safe)

(* The planner starts at rest within the limits.                              *)
LEMMA InitHolds == Init => AxisInv
<1> SUFFICES ASSUME Init PROVE AxisInv  OBVIOUS
<1>1. Start \in Limits  BY AxisAssumption DEF Limits
<1>2. ModeInv  BY DEF Init, ModeInv, Modes, tpClear
<1>3. PostInv  BY DEF Init, PostInv, Posts, NoStore
<1>4. Typed  BY <1>1 DEF Init, Typed, Planners, AxisRecords
<1>5. Braking
  <2>1. CanBrake(0, 0, Start)  BY <1>1, RestBrakes
  <2> QED  BY <2>1 DEF Init, Braking
<1>6. Aligned /\ Stopped  BY DEF Init, Aligned, Stopped
<1> QED  BY <1>2, <1>3, <1>4, <1>5, <1>6 DEF AxisInv, Safe

(* The modes stay booleans, and what is posted stays a command.               *)
LEMMA ModePostStep ==
  ASSUME AxisInv, Next
  PROVE  ModeInv' /\ PostInv'
<1>1. ModeInv /\ PostInv  BY DEF AxisInv
<1>2. (\A f \in Lines : f.length \in Nat) /\ Feed \in Nat  BY AxisAssumption
<1>3. ASSUME NEW f \in Jogs \cup Lines, StoreAcc(f) PROVE ModeInv' /\ PostInv'
  <2>1. f \in Posts  BY DEF Posts
  <2> QED  BY <1>1, <1>3, <2>1 DEF StoreAcc, ModeInv, PostInv
<1>4. CASE StoreVel
  BY <1>1, <1>4 DEF StoreVel, ModeInv, PostInv
<1>5. CASE Post \/ \E c \in Others : StorePin(c) \/ PostOther(c)
  <2>1. None \in Posts /\ \A c \in Others : Plain(c) \in Posts  BY DEF Posts
  <2>2. CASE Post
    BY <1>1, <2>1, <2>2 DEF Post, NoStore, ModeInv, PostInv
  <2>3. ASSUME NEW c \in Others, PostOther(c) PROVE ModeInv' /\ PostInv'
    BY <1>1, <2>1, <2>3 DEF PostOther, ModeInv, PostInv
  <2>4. ASSUME NEW c \in Others, StorePin(c) PROVE ModeInv' /\ PostInv'
    <3>1. PICK b \in BOOLEAN : b = (c = "AXIS_ENABLE" \/ c = "ENABLE_OTHER")  OBVIOUS
    <3>2. mode' = [mode EXCEPT !.pin = b] /\ UNCHANGED <<coord_tp, posted>>
          /\ storing' = [frame |-> Plain(c), next |-> "number"]
      BY <2>4, <3>1 DEF StorePin
    <3>3. ModeInv'  BY <1>1, <3>2 DEF ModeInv, Modes
    <3>4. PostInv'  BY <1>1, <2>1, <3>2 DEF PostInv
    <3> QED  BY <3>3, <3>4
  <2> QED  BY <1>5, <2>2, <2>3, <2>4
<1>6. CASE emcmotCommandHandler
  <2>1. None \in Posts  BY DEF Posts
  <2>2. posted' \in Posts /\ UNCHANGED storing
    BY <1>1, <1>6, <2>1
    DEF emcmotCommandHandler, HandlerNothing, JogCont, JogIncr, JogAbs, JogAbort, AxisActive,
        OtherAxis, MotionEnable, SetMode, SetLine, Handle, Period, PostInv
  <2>3. CASE HandlerNothing \/ JogCont \/ JogIncr \/ JogAbs \/ JogAbort
    BY <1>1, <2>2, <2>3
    DEF HandlerNothing, JogCont, JogIncr, JogAbs, JogAbort, ModeInv, PostInv
  <2>4. ASSUME NEW c, AxisActive(c) \/ OtherAxis(c) PROVE ModeInv' /\ PostInv'
    BY <1>1, <2>2, <2>4 DEF AxisActive, OtherAxis, ModeInv, PostInv
  <2>5. ASSUME NEW c, MotionEnable(c) PROVE ModeInv' /\ PostInv'
    <3>1. PICK b \in BOOLEAN : b = (c = "MOTION_ENABLE")  OBVIOUS
    <3>2. mode' = [mode EXCEPT !.enabling = b] /\ UNCHANGED coord_tp  BY <2>5, <3>1 DEF MotionEnable
    <3> QED  BY <1>1, <2>2, <3>2 DEF ModeInv, Modes, PostInv
  <2>6. ASSUME NEW c, SetMode(c) PROVE ModeInv' /\ PostInv'
    <3>1. PICK b \in BOOLEAN, d \in BOOLEAN : b = (c = "SET_COORD") /\ d = (c = "SET_FREE")  OBVIOUS
    <3>2. mode' = [mode EXCEPT !.coordinating = b, !.freeing = d] /\ UNCHANGED coord_tp
      BY <2>6, <3>1 DEF SetMode
    <3> QED  BY <1>1, <2>2, <3>2 DEF ModeInv, Modes, PostInv
  <2>7. CASE SetLine
    <3>1. posted.length \in Nat
      <4>1. posted.cmd = "SET_LINE" /\ posted \in Posts  BY <1>1, <2>7 DEF SetLine, PostInv
      <4>2. \A j \in Jogs : j.cmd # "SET_LINE"  BY AxisAssumption
      <4>3. \A o \in Others : Plain(o).cmd # "SET_LINE"  BY AxisAssumption DEF Plain
      <4>4. None.cmd # "SET_LINE"  BY DEF None
      <4>5. posted \in Lines  BY <4>1, <4>2, <4>3, <4>4 DEF Posts
      <4> QED  BY <1>2, <4>5
    <3>2. coord_tp' \in [rest : Int, done : BOOLEAN]
      <4>1. coord_tp \in [rest : Int, done : BOOLEAN]  BY <1>1 DEF ModeInv
      <4>2. PICK n \in Int : n = coord_tp.rest + posted.length  BY <3>1, <4>1
      <4>3. coord_tp' = [rest |-> n, done |-> FALSE] \/ coord_tp' = coord_tp
        BY <2>7, <4>2 DEF SetLine
      <4>4. [rest |-> n, done |-> FALSE] \in [rest : Int, done : BOOLEAN]  OBVIOUS
      <4> QED  BY <4>1, <4>3, <4>4, Zenon
    <3> QED  BY <1>1, <2>2, <2>7, <3>2 DEF SetLine, ModeInv, PostInv
  <2> QED  BY <1>6, <2>3, <2>4, <2>5, <2>6, <2>7 DEF emcmotCommandHandler
<1>7. CASE set_operating_mode
  <2>1. PICK a \in BOOLEAN, b \in BOOLEAN, c \in BOOLEAN, d \in BOOLEAN, e \in BOOLEAN :
          /\ a = Enabling
          /\ b = (mode.coordinating /\ (ToCoord => mode.inpos))
          /\ c = (mode.freeing /\ (ToFree => mode.inpos))
          /\ d = (mode.coord \/ (ToCoord /\ mode.inpos))
          /\ e = (mode.free \/ (ToFree /\ mode.inpos))
    <3>1. Enabling \in BOOLEAN  BY DEF Enabling
    <3> QED  BY <3>1
  <2>2. mode' = [mode EXCEPT !.enabling = a, !.enable = a, !.coordinating = b, !.freeing = c,
                             !.coord = d, !.free = e]
    BY <1>7, <2>1 DEF set_operating_mode
  <2>3. mode' \in Modes
    <3>0. PICK n : n = mode'  OBVIOUS
    <3>1. PICK m \in Modes : m = mode  BY <1>1 DEF ModeInv
    <3>2. n = [m EXCEPT !.enabling = a, !.enable = a, !.coordinating = b, !.freeing = c, !.coord = d, !.free = e]
      BY <2>2, <3>0, <3>1
    <3>3. n = [enabling |-> a, coordinating |-> b, freeing |-> c, enable |-> a, coord |-> d, free |-> e,
               inpos |-> m.inpos, pin |-> m.pin]
      BY <3>2 DEF Modes
    <3>4. m.inpos \in BOOLEAN /\ m.pin \in BOOLEAN  BY DEF Modes
    <3>5. n \in Modes  BY <3>3, <3>4 DEF Modes
    <3> QED  BY <3>0, <3>5
  <2>4. coord_tp' \in [rest : Int, done : BOOLEAN]
    BY <1>1, <1>7 DEF set_operating_mode, ModeInv, tpClear
  <2> QED  BY <1>1, <1>7, <2>3, <2>4 DEF set_operating_mode, ModeInv, PostInv
<1>8. CASE PlanFree
  <2>1. PICK b \in BOOLEAN : b = (axis.active => ~free_tp'.active)  OBVIOUS
  <2>2. mode' = [mode EXCEPT !.inpos = b]  BY <1>8, <2>1 DEF PlanFree
  <2> QED  BY <1>1, <1>8, <2>2 DEF PlanFree, ModeInv, Modes, PostInv
<1>9. CASE Publish \/ PlanDisabled \/ ecatthread
  BY <1>1, <1>9 DEF Publish, PlanDisabled, ecatthread, ModeInv, PostInv
<1>10. CASE PlanCoord \/ Spin
  <2>1. PICK n \in Int : n = coord_tp.rest - Least(Feed, coord_tp.rest)
    BY <1>1, <1>2 DEF ModeInv, Least
  <2>2. coord_tp' = [coord_tp EXCEPT !.rest = n]
    BY <1>10, <2>1 DEF PlanCoord, Spin
  <2>3. mode' = [mode EXCEPT !.inpos = coord_tp.done] \/ mode' = mode
    BY <1>10 DEF PlanCoord, Spin
  <2>4. mode' \in Modes  BY <1>1, <2>3 DEF ModeInv, Modes
  <2>5. PostInv'  BY <1>1, <1>10 DEF PlanCoord, Spin, PostInv
  <2> QED  BY <1>1, <2>2, <2>4, <2>5 DEF ModeInv
<1> QED
  BY <1>3, <1>4, <1>5, <1>6, <1>7, <1>8, <1>9, <1>10 DEF Next, Client, MotionThread

(* Neither the coordinated mode nor the lost acceleration is ever undone.     *)
LEMMA HeldBack ==
  ASSUME AxisInv, Next, Held'
  PROVE  Held
<1>1. mode \in Modes  BY DEF AxisInv, ModeInv
<1>2. ~weak
  BY DEF Held, Next, Client, MotionThread, StoreAcc, StoreVel, StorePin, Post, PostOther,
     emcmotCommandHandler, HandlerNothing, JogCont, JogIncr, JogAbs, JogAbort, AxisActive, OtherAxis,
     MotionEnable, SetMode, SetLine, Go, Refuse, set_operating_mode, PlanFree, Publish, PlanCoord, Spin, PlanDisabled, ecatthread
<1>3. ~mode.coord
  <2>1. CASE UNCHANGED mode  BY <2>1 DEF Held
  <2>2. ASSUME NEW c, MotionEnable(c) \/ SetMode(c) PROVE ~mode.coord
    BY <1>1, <2>2 DEF Held, Modes, MotionEnable, SetMode
  <2>3. CASE set_operating_mode
    <3>1. mode'.coord = (mode.coord \/ (ToCoord /\ mode.inpos))
      BY <1>1, <2>3 DEF set_operating_mode, Modes
    <3> QED  BY <3>1 DEF Held
  <2>4. CASE PlanFree \/ PlanCoord
    BY <1>1, <2>4 DEF Held, PlanFree, PlanCoord, Modes
  <2>5. ASSUME NEW c, StorePin(c) PROVE ~mode.coord
    BY <1>1, <2>5 DEF Held, StorePin, Modes
  <2> QED
    BY <2>1, <2>2, <2>3, <2>4, <2>5
    DEF Next, Client, MotionThread, StoreAcc, StoreVel, Post, PostOther, emcmotCommandHandler, HandlerNothing,
        JogCont, JogIncr, JogAbs, JogAbort, AxisActive, OtherAxis, SetLine, Publish, Spin, PlanDisabled, ecatthread
<1> QED  BY <1>2, <1>3 DEF Held
------------------------------------------------------------------------------
(* client_p and the command handler.                                          *)

(* A jog that is accepted leaves room to brake, whatever it picks up.         *)
LEMMA GoIsSafe ==
  ASSUME Safe, pc = "idle", pc' = "inputs", UNCHANGED <<axis, mode, drive>>, ~weak',
         NEW target \in Limits, NEW acc, acc \in {axis.acc_cmd, Least(axis.acc_cmd, MaxAcc)},
         Go(target, acc)
  PROVE  Safe'
<1>1. Typed /\ Braking /\ Aligned /\ Stopped  BY DEF Safe
<1>2. MaxVel \in Nat /\ MaxAcc \in Nat  BY AxisAssumption
<1>3. PICK v \in Int, a \in Nat, p \in Limits, q \in Limits :
        v = free_tp.curr_vel /\ a = free_tp.acc /\ p = free_tp.curr_pos /\ q = drive.act
  BY <1>1 DEF Typed, Planners
<1>4. CanBrake(v, a, p) /\ CanBrake(v, a, q)  BY <1>1, <1>3 DEF Braking
<1>5. PICK stored \in Nat, speed \in Int : stored = axis.acc_cmd /\ speed = axis.vel_cmd
  BY <1>1 DEF Typed, AxisRecords
<1>6. acc \in Nat  BY <1>2, <1>5 DEF Least
<1>7. a <= acc \/ v = 0
  <2>1. ~(free_tp.curr_vel # 0 /\ acc < free_tp.acc)  BY Zenon DEF Go
  <2>2. ~(v # 0 /\ acc < a)  BY <1>3, <2>1
  <2> QED  BY <1>6, <2>2
<1>8. CanBrake(v, acc, p) /\ CanBrake(v, acc, q)  BY <1>4, <1>6, <1>7, MoreBrakes
<1>9. speed >= 0
  <2>1. ~(axis.vel_cmd < 0)  BY Zenon DEF Go
  <2> QED  BY <1>5, <2>1
<1>10. PICK vel \in Nat : vel = Least(axis.vel_cmd, MaxVel)  BY <1>2, <1>5, <1>9 DEF Least
<1>11. free_tp' = [free_tp EXCEPT !.pos_cmd = target, !.vel = vel, !.acc = acc, !.enable = TRUE]
  BY <1>10 DEF Go
<1>12. /\ free_tp' \in Planners
       /\ free_tp'.curr_vel = v /\ free_tp'.curr_pos = p /\ free_tp'.acc = acc
  BY <1>1, <1>3, <1>6, <1>11 DEF Typed, Planners
<1>13. Typed'  BY <1>1, <1>12 DEF Typed
<1>14. Braking'  BY <1>3, <1>8, <1>12 DEF Braking
<1>15. Aligned'  BY <1>1, <1>3, <1>12 DEF Aligned
<1>16. Stopped'  BY <1>1, <1>3, <1>12 DEF Stopped
<1> QED  BY <1>13, <1>14, <1>15, <1>16 DEF Safe

(* A jog that is posted has the offset of a jog.                              *)
LEMMA PostedJog ==
  ASSUME PostInv, posted.cmd \in {"JOG_INCR", "JOG_ABS"}
  PROVE  posted.offset \in Int
<1>1. \A j \in Jogs : j.offset \in Int  BY AxisAssumption
<1>2. \A o \in Others : Plain(o).cmd \notin {"JOG_INCR", "JOG_ABS"}  BY AxisAssumption DEF Plain
<1>3. \A f \in Lines : f.cmd \notin {"JOG_INCR", "JOG_ABS"}  BY AxisAssumption
<1>4. None.cmd \notin {"JOG_INCR", "JOG_ABS"}  BY DEF None
<1>5. posted \in Jogs  BY <1>2, <1>3, <1>4 DEF PostInv, Posts
<1> QED  BY <1>1, <1>5

(* A step of the client or the handler that leaves the speed, the place and   *)
(* the acceleration of the planner as they were.                              *)
LEMMA CalmIsSafe ==
  ASSUME Safe, pc = "idle", pc' \in {"idle", "inputs"}, UNCHANGED drive,
         mode'.enable = mode.enable,
         free_tp' \in Planners, free_tp'.curr_vel = free_tp.curr_vel,
         free_tp'.curr_pos = free_tp.curr_pos, free_tp'.acc = free_tp.acc,
         axis' \in AxisRecords, axis'.pos_cmd = axis.pos_cmd
  PROVE  Safe'
<1>1. Typed /\ Braking /\ Aligned /\ Stopped  BY DEF Safe
<1>2. Typed'  BY <1>1 DEF Typed
<1>3. Braking'  BY <1>1 DEF Braking
<1>4. Aligned' /\ Stopped'  BY <1>1 DEF Aligned, Stopped
<1> QED  BY <1>2, <1>3, <1>4 DEF Safe

(* The client's steps.                                                        *)
LEMMA ClientIsSafe ==
  ASSUME ModeInv, PostInv, Safe, Client
  PROVE  Safe'
<1>1. Typed /\ mode \in Modes  BY DEF Safe, ModeInv
<1>2. \A f \in Jogs \cup Lines : f.vel \in Nat /\ f.acc \in Nat  BY AxisAssumption
<1>3. CASE Post \/ \E c \in Others : PostOther(c) \/ StorePin(c)
  <2>1. pc = "idle" /\ UNCHANGED <<pc, free_tp, axis, drive>>  BY <1>3 DEF Post, PostOther, StorePin
  <2>2. mode'.enable = mode.enable
    BY <1>1, <1>3 DEF Post, PostOther, StorePin, Modes
  <2> QED  BY <1>1, <2>1, <2>2, CalmIsSafe DEF Typed
<1>4. ASSUME NEW f \in Jogs \cup Lines, StoreAcc(f) PROVE Safe'
  <2>1. PICK n \in Nat : n = f.acc  BY <1>2
  <2>2. pc = "idle" /\ UNCHANGED <<pc, free_tp, mode, drive>> /\ axis' = [axis EXCEPT !.acc_cmd = n]
    BY <1>4, <2>1 DEF StoreAcc
  <2>3. axis' \in AxisRecords /\ axis'.pos_cmd = axis.pos_cmd
    BY <1>1, <2>2 DEF Typed, AxisRecords
  <2> QED  BY <1>1, <2>2, <2>3, CalmIsSafe DEF Typed
<1>5. CASE StoreVel
  <2>1. PICK n \in Int : n = storing.frame.vel  BY <1>2, <1>5 DEF StoreVel, PostInv
  <2>2. pc = "idle" /\ UNCHANGED <<pc, free_tp, mode, drive>> /\ axis' = [axis EXCEPT !.vel_cmd = n]
    BY <1>5, <2>1 DEF StoreVel
  <2>3. axis' \in AxisRecords /\ axis'.pos_cmd = axis.pos_cmd
    BY <1>1, <2>2 DEF Typed, AxisRecords
  <2> QED  BY <1>1, <2>2, <2>3, CalmIsSafe DEF Typed
<1> QED  BY <1>3, <1>4, <1>5 DEF Client

(* The command handler.                                                       *)
LEMMA HandlerIsSafe ==
  ASSUME ModeInv, PostInv, Held, Safe, emcmotCommandHandler, ~weak'
  PROVE  Safe'
<1>1. Typed /\ mode \in Modes  BY DEF Safe, ModeInv
<1>2. MaxLimit \in Limits /\ MaxLimit \in Int /\ MinLimit \in Int /\ MinLimit <= MaxLimit
  BY LimitsAreInt DEF Limits
<1>3. CASE HandlerNothing
  <2>1. pc = "idle" /\ pc' = "inputs" /\ UNCHANGED <<free_tp, axis, mode, drive>>
    BY <1>3 DEF HandlerNothing, Period
  <2> QED  BY <1>1, <2>1, CalmIsSafe DEF Typed
<1>4. CASE JogCont \/ JogIncr \/ JogAbs
  <2>1. pc = "idle" /\ pc' = "inputs" /\ UNCHANGED <<axis, mode, drive>>
    BY <1>4 DEF JogCont, JogIncr, JogAbs, Handle, Period
  <2>2. CASE Refuse
    BY <1>1, <2>1, <2>2, CalmIsSafe DEF Typed, Refuse
  <2>3. CASE JogCont
    BY <1>2, <2>1, <2>2, <2>3, GoIsSafe DEF JogCont
  <2>4. CASE JogIncr
    <3>1. PICK target : target = free_tp.pos_cmd + (IF posted.dir THEN posted.offset ELSE -posted.offset)
      OBVIOUS
    <3>2. CASE target \in Limits /\ Go(target, axis.acc_cmd)
      BY <2>1, <3>2, GoIsSafe
    <3> QED  BY <2>2, <2>4, <3>1, <3>2 DEF JogIncr, Limits
  <2>5. CASE JogAbs
    <3>1. posted.offset \in Int  BY <2>5, PostedJog DEF JogAbs, Handle
    <3>2. PICK target : target = Clamp(posted.offset, MinLimit, MaxLimit)  OBVIOUS
    <3>3. target \in Limits  BY <1>2, <3>1, <3>2 DEF Clamp, Limits
    <3>4. CASE Go(target, Least(axis.acc_cmd, MaxAcc))
      BY <2>1, <3>3, <3>4, GoIsSafe
    <3> QED  BY <2>2, <2>5, <3>2, <3>4 DEF JogAbs
  <2> QED  BY <1>4, <2>3, <2>4, <2>5
<1>5. CASE JogAbort
  <2>1. /\ pc = "idle" /\ pc' = "inputs" /\ UNCHANGED <<axis, mode, drive>>
        /\ free_tp' = [free_tp EXCEPT !.enable = FALSE]
    BY <1>5 DEF JogAbort, Handle, Period
  <2>2. /\ free_tp' \in Planners /\ free_tp'.curr_vel = free_tp.curr_vel
        /\ free_tp'.curr_pos = free_tp.curr_pos /\ free_tp'.acc = free_tp.acc
    BY <1>1, <2>1 DEF Typed, Planners
  <2> QED  BY <1>1, <2>1, <2>2, CalmIsSafe DEF Typed
<1>6. ASSUME NEW c, AxisActive(c) PROVE Safe'
  <2>1. PICK b \in BOOLEAN : b = ((c = "AXIS_ENABLE") /\ (axis.active \/ mode.pin))  BY Zenon
  <2>2. /\ pc = "idle" /\ pc' = "inputs" /\ UNCHANGED <<free_tp, mode, drive>>
        /\ axis' = [axis EXCEPT !.active = b]
    BY <1>6, <2>1 DEF AxisActive, Handle, Period
  <2>3. axis' \in AxisRecords /\ axis'.pos_cmd = axis.pos_cmd
    BY <1>1, <2>2 DEF Typed, AxisRecords
  <2> QED  BY <1>1, <2>2, <2>3, CalmIsSafe DEF Typed
<1>7. ASSUME NEW c, MotionEnable(c) \/ SetMode(c) PROVE Safe'
  <2>1. pc = "idle" /\ pc' = "inputs" /\ UNCHANGED <<free_tp, axis, drive>>
    BY <1>7 DEF MotionEnable, SetMode, Handle, Period
  <2>2. mode'.enable = mode.enable
    BY <1>1, <1>7 DEF MotionEnable, SetMode, Modes
  <2> QED  BY <1>1, <2>1, <2>2, CalmIsSafe DEF Typed
<1>8. ASSUME NEW c, SetLine \/ OtherAxis(c) PROVE Safe'
  <2>1. pc = "idle" /\ pc' = "inputs" /\ UNCHANGED <<free_tp, axis, mode, drive>>
    BY <1>8 DEF SetLine, OtherAxis, Handle, Period
  <2> QED  BY <1>1, <2>1, CalmIsSafe DEF Typed
<1> QED  BY <1>3, <1>4, <1>5, <1>6, <1>7, <1>8 DEF emcmotCommandHandler
------------------------------------------------------------------------------
(* The controller and the drive thread.                                       *)

(* The mode changes move the planner only when it stands still.               *)
LEMMA OperatingModeIsSafe ==
  ASSUME ModeInv, Safe, set_operating_mode
  PROVE  Safe'
<1>1. Typed /\ Braking /\ Aligned /\ Stopped /\ mode \in Modes
  BY DEF Safe, ModeInv
<1>2. pc = "inputs" /\ pc' = "plan" /\ UNCHANGED drive
  BY DEF set_operating_mode
<1>3. PICK v \in Int, a \in Nat, p \in Limits, q \in Limits, c \in Limits :
        /\ v = free_tp.curr_vel /\ a = free_tp.acc /\ p = free_tp.curr_pos
        /\ q = drive.act /\ c = axis.pos_cmd
  BY <1>1 DEF Typed, Planners, AxisRecords
<1>4. PICK e \in BOOLEAN : e = (free_tp.enable /\ ~Stopping /\ ~(ToFree /\ mode.inpos))
  BY Zenon
<1>5. PICK v2 \in Int : v2 = IF Stopping THEN 0 ELSE v
  OBVIOUS
<1>6. PICK p2 \in Limits : p2 = IF Starting \/ (ToFree /\ mode.inpos) THEN c ELSE p
  OBVIOUS
<1>7. free_tp' = [free_tp EXCEPT !.enable = e, !.curr_vel = v2, !.curr_pos = p2]
  BY <1>3, <1>4, <1>5, <1>6 DEF set_operating_mode, NewPlanner
<1>8. free_tp' \in Planners /\ free_tp'.curr_vel = v2 /\ free_tp'.curr_pos = p2 /\ free_tp'.acc = a
  BY <1>1, <1>3, <1>7 DEF Typed, Planners
<1>9. mode'.enable = Enabling
  BY <1>1 DEF set_operating_mode, Modes
<1>10. /\ axis' \in AxisRecords
       /\ axis'.pos_cmd = c /\ axis'.vel_cmd = axis.vel_cmd /\ axis'.acc_cmd = axis.acc_cmd
  <2>1. PICK f \in Limits : f = Feedback  BY <1>1 DEF Typed, AxisRecords, Feedback
  <2>2. PICK b \in BOOLEAN : b = ((axis.enabled \/ (Starting /\ axis.active)) /\ ~(Stopping /\ axis.active))
    BY Zenon
  <2>3. axis' = [axis EXCEPT !.pos_fb = f, !.enabled = b]
    BY <2>1, <2>2 DEF set_operating_mode
  <2> QED  BY <1>1, <1>3, <2>3 DEF Typed, AxisRecords
<1>11. v2 # 0 => v2 = v /\ v # 0 /\ mode.enable /\ Enabling /\ p2 = q /\ c = q
  <2> SUFFICES ASSUME v2 # 0 PROVE v2 = v /\ v # 0 /\ mode.enable /\ Enabling /\ p2 = q /\ c = q
    OBVIOUS
  <2>1. v2 = v /\ v # 0 /\ ~Stopping  BY <1>5
  <2>2. mode.enable  BY <1>1, <1>3, <2>1 DEF Stopped
  <2>3. Enabling  BY <2>1, <2>2 DEF Stopping
  <2>4. ~Starting  BY <2>2 DEF Starting
  <2>5. p = q /\ c = q  BY <1>1, <1>2, <1>3, <2>1 DEF Aligned
  <2> QED  BY <1>6, <2>1, <2>2, <2>3, <2>4, <2>5
<1>12. Typed'
  BY <1>1, <1>2, <1>8, <1>10 DEF Typed
<1>13. Braking'
  <2>1. CASE v2 = 0
    <3>1. CanBrake(v2, a, p2) /\ CanBrake(v2, a, q)  BY <2>1, RestBrakes
    <3> QED  BY <1>2, <1>3, <1>8, <3>1 DEF Braking
  <2>2. CASE v2 # 0
    <3>1. CanBrake(v2, a, q) /\ p2 = q  BY <1>1, <1>3, <1>11, <2>2 DEF Braking
    <3> QED  BY <1>2, <1>3, <1>8, <3>1 DEF Braking
  <2> QED  BY <2>1, <2>2
<1>14. Aligned'
  BY <1>2, <1>3, <1>8, <1>10, <1>11 DEF Aligned
<1>15. Stopped'
  BY <1>2, <1>8, <1>9, <1>11 DEF Stopped
<1> QED  BY <1>12, <1>13, <1>14, <1>15 DEF Safe

(* The update of the planner.                                                 *)
LEMMA PlanFreeIsSafe ==
  ASSUME ModeInv, Safe, PlanFree
  PROVE  Safe'
<1>1. Typed /\ Braking /\ Aligned /\ Stopped /\ mode \in Modes
  BY DEF Safe, ModeInv
<1>2. pc = "plan" /\ mode.enable /\ UNCHANGED <<axis, drive>> /\ mode'.enable = mode.enable
  BY <1>1 DEF PlanFree, InFree, Modes
<1>3. CASE ~axis.active
  <2>1. UNCHANGED free_tp /\ pc' = "idle"  BY <1>3 DEF PlanFree
  <2>2. Typed' /\ Braking'  BY <1>1, <1>2, <2>1 DEF Typed, Braking
  <2>3. Aligned' /\ Stopped'  BY <1>1, <1>2, <2>1 DEF Aligned, Stopped
  <2> QED  BY <2>2, <2>3 DEF Safe
<1>4. CASE axis.active
  <2>1. pc' = "publish" /\ free_tp' = simple_tp_update(free_tp)  BY <1>4 DEF PlanFree
  <2>0. PICK new : new = free_tp'  OBVIOUS
  <2>2. PICK tp \in Planners : tp = free_tp  BY <1>1 DEF Typed
  <2>3. CanBrake(tp.curr_vel, tp.acc, tp.curr_pos)  BY <1>1, <2>2 DEF Braking
  <2>4. new = simple_tp_update(tp)  BY <2>0, <2>1, <2>2
  <2>5. /\ new \in Planners
        /\ new.acc = tp.acc /\ new.curr_pos = tp.curr_pos + new.curr_vel
        /\ CanBrake(new.curr_vel, new.acc, new.curr_pos)
        /\ 0 - tp.acc <= new.curr_vel - tp.curr_vel /\ new.curr_vel - tp.curr_vel <= tp.acc
    BY <2>3, <2>4, UpdateIsSafe
  <2>6. PICK v \in Int, w \in Int, a \in Nat, p \in Limits, q \in Limits, act \in Limits :
          /\ v = tp.curr_vel /\ w = new.curr_vel /\ a = tp.acc
          /\ p = tp.curr_pos /\ q = new.curr_pos /\ act = drive.act
    BY <1>1, <2>5 DEF Typed, Planners
  <2>7. CanBrake(w, a, q) /\ q = p + w /\ 0 - a <= w - v /\ w - v <= a
    BY <2>5, <2>6
  <2>8. v # 0 => p = act  BY <1>1, <1>2, <2>2, <2>6 DEF Aligned
  <2>9. q = act + w \/ (0 - a <= w /\ w <= a)  BY <2>7, <2>8
  <2>10. CanBrake(w, a, act)  BY <2>7, <2>9, SetBackBrakes
  <2>11. Typed'  BY <1>1, <1>2, <2>0, <2>2, <2>5 DEF Typed
  <2>12. Braking'  BY <1>2, <2>0, <2>2, <2>5, <2>6, <2>7, <2>10 DEF Braking
  <2>13. Aligned' /\ Stopped'  BY <1>2, <2>1 DEF Aligned, Stopped
  <2> QED  BY <2>11, <2>12, <2>13 DEF Safe
<1> QED  BY <1>3, <1>4

(* The drive is told where the planner is, and the axis how fast it moves.    *)
LEMMA PublishIsSafe ==
  ASSUME Safe, Publish
  PROVE  Safe'
<1>1. Typed /\ Braking /\ Aligned /\ Stopped  BY DEF Safe
<1>2. /\ pc = "publish" /\ pc' = "idle" /\ UNCHANGED <<free_tp, mode>>
      /\ drive' = [drive EXCEPT !.act = free_tp.curr_pos]
      /\ axis' = [axis EXCEPT !.pos_cmd = free_tp.curr_pos, !.vel_cmd = free_tp.curr_vel, !.acc_cmd = 0]
  BY DEF Publish
<1>3. PICK v \in Int, p \in Limits : v = free_tp.curr_vel /\ p = free_tp.curr_pos
  BY <1>1 DEF Typed, Planners
<1>4. axis' = [axis EXCEPT !.pos_cmd = p, !.vel_cmd = v, !.acc_cmd = 0]
  BY <1>2, <1>3
<1>5. /\ axis' \in AxisRecords
      /\ axis'.pos_cmd = p /\ axis'.vel_cmd = v /\ axis'.acc_cmd = 0
  BY <1>1, <1>4 DEF Typed, AxisRecords
<1>6. drive' \in [act : Limits, fb : Limits] /\ drive'.act = p
  BY <1>1, <1>2, <1>3 DEF Typed
<1>7. Typed'  BY <1>1, <1>2, <1>5, <1>6 DEF Typed
<1>8. Braking'  BY <1>1, <1>2, <1>3, <1>6 DEF Braking
<1>9. Aligned' /\ Stopped'
  BY <1>1, <1>2, <1>3, <1>5, <1>6 DEF Aligned, Stopped
<1> QED  BY <1>7, <1>8, <1>9 DEF Safe

(* With motion off the command follows the feedback.                          *)
LEMMA DisabledIsSafe ==
  ASSUME Safe, PlanDisabled
  PROVE  Safe'
<1>1. Typed /\ Braking /\ Stopped  BY DEF Safe
<1>2. /\ ~mode.enable /\ pc' = "idle" /\ UNCHANGED <<free_tp, mode, drive>>
      /\ axis' = [axis EXCEPT !.pos_cmd = axis.pos_fb, !.vel_cmd = 0, !.acc_cmd = 0]
  BY DEF PlanDisabled
<1>3. axis' \in AxisRecords /\ axis'.vel_cmd = 0
  <2>1. PICK f \in Limits : f = axis.pos_fb  BY <1>1 DEF Typed, AxisRecords
  <2>2. PICK y \in Int, z \in Nat : y = 0 /\ z = 0  OBVIOUS
  <2>3. axis' = [axis EXCEPT !.pos_cmd = f, !.vel_cmd = y, !.acc_cmd = z]  BY <1>2, <2>1, <2>2
  <2>4. axis' \in AxisRecords /\ axis'.vel_cmd = y  BY <1>1, <2>3 DEF Typed, AxisRecords
  <2> QED  BY <2>2, <2>4
<1>4. free_tp.curr_vel = 0  BY <1>1, <1>2 DEF Stopped
<1>5. Typed' /\ Braking'  BY <1>1, <1>2, <1>3 DEF Typed, Braking
<1>6. Aligned' /\ Stopped'
  BY <1>2, <1>3, <1>4 DEF Aligned, Stopped
<1> QED  BY <1>5, <1>6 DEF Safe

(* The drive thread sets the planner to where the drive was told to be, in    *)
(* the middle of a period or between two.                                     *)
LEMMA DriveIsSafe ==
  ASSUME Safe, ecatthread
  PROVE  Safe'
<1>1. Typed /\ Braking /\ Aligned /\ Stopped  BY DEF Safe
<1>2. /\ UNCHANGED <<pc, axis, mode>>
      /\ drive' = [drive EXCEPT !.fb = drive.act]
      /\ free_tp' = [free_tp EXCEPT !.curr_pos = drive.act]
  BY DEF ecatthread
<1>3. drive' \in [act : Limits, fb : Limits] /\ drive'.act = drive.act
  BY <1>1, <1>2 DEF Typed
<1>4. /\ free_tp' \in Planners /\ free_tp'.curr_pos = drive.act
      /\ free_tp'.curr_vel = free_tp.curr_vel /\ free_tp'.acc = free_tp.acc
  BY <1>1, <1>2 DEF Typed, Planners
<1>5. Typed' /\ Braking'  BY <1>1, <1>2, <1>3, <1>4 DEF Typed, Braking
<1>6. Aligned' /\ Stopped'
  BY <1>1, <1>2, <1>3, <1>4 DEF Aligned, Stopped
<1> QED  BY <1>5, <1>6 DEF Safe

------------------------------------------------------------------------------
(* The theorem.                                                               *)

(* Every step keeps the invariant.                                            *)
LEMMA StepHolds ==
  ASSUME AxisInv, Next
  PROVE  AxisInv'
<1>1. ModeInv' /\ PostInv'  BY ModePostStep
<1>2. ASSUME Held' PROVE Safe'
  <2>1. Held  BY <1>2, HeldBack
  <2>2. ModeInv /\ PostInv /\ Safe  BY <2>1 DEF AxisInv
  <2>3. ~weak'  BY <1>2 DEF Held
  <2>4. ~(PlanCoord \/ Spin)  BY <2>1 DEF Held, PlanCoord, Spin, InCoord
  <2>5. CASE Client
    BY <2>2, <2>5, ClientIsSafe
  <2>6. CASE emcmotCommandHandler  BY <2>1, <2>2, <2>3, <2>6, HandlerIsSafe
  <2>7. CASE set_operating_mode  BY <2>2, <2>7, OperatingModeIsSafe
  <2>8. CASE PlanFree  BY <2>2, <2>8, PlanFreeIsSafe
  <2>9. CASE Publish  BY <2>2, <2>9, PublishIsSafe
  <2>10. CASE PlanDisabled  BY <2>2, <2>10, DisabledIsSafe
  <2>11. CASE ecatthread  BY <2>2, <2>11, DriveIsSafe
  <2> QED
    BY <2>4, <2>5, <2>6, <2>7, <2>8, <2>9, <2>10, <2>11 DEF Next, MotionThread
<1> QED  BY <1>1, <1>2 DEF AxisInv

(* A jog never takes the drive past the limits of its axis, whenever the      *)
(* drive thread writes into the planner, and however jogs overtake one        *)
(* another and motion or the axis is switched, until one takes acceleration   *)
(* away from an axis that moves, or goes with a speed the planner stored.     *)
THEOREM DriveStaysWithinLimits == Spec => []WithinLimits
<1>1. Init => AxisInv  BY InitHolds
<1>2. AxisInv /\ [Next]_vars => AxisInv'
  <2>1. CASE Next  BY <2>1, StepHolds
  <2>2. ASSUME AxisInv, UNCHANGED vars PROVE AxisInv'
    BY <2>2 DEF vars, AxisInv, ModeInv, PostInv, Held, Safe, Typed, Braking, Aligned, Stopped
  <2> QED  BY <2>1, <2>2
<1>3. AxisInv => WithinLimits
  BY DEF AxisInv, Held, Safe, Typed, WithinLimits, Limits
<1> QED  BY <1>1, <1>2, <1>3, PTL DEF Spec
=============================================================================
