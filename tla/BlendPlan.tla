------------------------------- MODULE BlendPlan -------------------------------
(* Blend arcs: what tpAddLine and tpAddCircle of src/tp/tp.c do to the last   *)
(* segment of the queue and the new one when arcBlendEnable is set, with the  *)
(* blend parameters of src/tp/blendmath.c.                                    *)
(*                                                                            *)
(* Lengths are whole numbers and speeds are lengths per period.  A corner is  *)
(* known by theta, half the angle between the tangents, with 5 sin and 5 cos  *)
(* whole: "wide" 4/5 and 3/5, "narrow" 3/5 and 4/5; "straight" and "back" are *)
(* the tangent and the reversing corner.  Radii are rounded down where a      *)
(* length bounds them, up where a speed needs them; speeds down.              *)
(*                                                                            *)
(* The speed of the segments (goal), and whether the last tests of an arc     *)
(* (one plane, tangent, faster than the other ways round the corner) allow it *)
(* are free choices: the properties hold whatever they are.                   *)
(* arcBlendGapCycles is never set, so no line is ever consumed by its blend.  *)
(* A definition named D_Something is a mutated form of D.                     *)
EXTENDS Integers, Sequences, SequencesExt, FiniteSetsExt

CONSTANTS Moves,     \* the segments programmed
          Goals,     \* speeds the segments of a blend could reach
          AccMax,    \* a_max of the plane of the corner
          Steps,     \* how far the head of the queue runs at a time
          MaxMoves   \* bound on the segments programmed

ASSUME BlendAssumption ==
  /\ \A m \in Moves : /\ m.kind \in {"line", "rotary", "circle"} /\ m.convex \in BOOLEAN
                      /\ m.length \in Nat \ {0} /\ m.tolerance \in Nat
                      /\ m.term \in {"parabolic", "exact", "stop"} /\ m.canon \in {"traverse", "feed"}
  /\ Goals \subseteq Nat \ {0} /\ AccMax \in Nat /\ AccMax >= 2
  /\ Steps \subseteq Nat \ {0} /\ MaxMoves \in Nat

VARIABLES queue,  \* the segments, head first
          nextId  \* of the next segment programmed

vars == <<queue, nextId>>

Corners == {"straight", "wide", "narrow", "back"}

(* Five times the sine and cosine of theta, and a hundred times phi.          *)
Sine(corner) == IF corner = "wide" THEN 4 ELSE 3
Cosine(corner) == IF corner = "wide" THEN 3 ELSE 4
Phi(corner) == IF corner = "wide" THEN 129 ELSE 185

Least(a, b) == IF a < b THEN a ELSE b
Most(a, b) == IF a < b THEN b ELSE a
Abs(n) == IF n < 0 THEN -n ELSE n
Root(n) == Max({k \in 0 .. n : k * k <= n})
Ceil(n, d) == (n + d - 1) \div d

Init == queue = <<>> /\ nextId = 1

------------------------------------------------------------------------------
(* The parameters of a blend arc.                                             *)

(* Mutant: the tolerance of the last line is not looked at.                   *)
tcFindBlendTolerance_NewOnly(prev, tc) ==
  Least(IF tc.tolerance = 0 THEN tc.nominal \div 4 ELSE tc.tolerance, tc.nominal \div 4)

(* tcFindBlendTolerance: no tolerance is a quarter of the shorter line.       *)
tcFindBlendTolerance(prev, tc) ==
  LET Own(s) == IF s.tolerance = 0 THEN s.nominal \div 4 ELSE s.tolerance
  IN  Least(Least(Own(prev), Own(tc)), Least(prev.nominal \div 4, tc.nominal \div 4))

(* Mutant: the length the last line was programmed with, not what is left.    *)
blendInit3FromLineLine_Nominal(prev, tc, corner) ==
  [L1 |-> prev.nominal, L2 |-> tc.target \div 2, corner |-> corner]

(* How much of each segment a blend may take.  Of a circle it is an angle: a  *)
(* third of it at its start, two thirds at its end; where the circle bends    *)
(* towards the corner, half the chord to the middle of that, and theta is     *)
(* that of the chord.                                                         *)
OnCircle(circle, length) == IF circle.convex THEN length \div 4 ELSE length
Chord(circle, corner) == IF circle.convex THEN "narrow" ELSE corner
OnLineEnd(prev) == Least(prev.target, prev.nominal \div 2)

blendInit3FromLineLine(prev, tc, corner) ==
  [L1 |-> OnLineEnd(prev), L2 |-> tc.target \div 2, corner |-> corner]

blendInit3FromLineArc(prev, tc, corner) ==
  [L1 |-> OnLineEnd(prev), L2 |-> OnCircle(tc, tc.nominal \div 3), corner |-> Chord(tc, corner)]

blendInit3FromArcLine(prev, tc, corner) ==
  [L1 |-> OnCircle(prev, (2 * prev.nominal) \div 3), L2 |-> tc.nominal \div 2,
   corner |-> Chord(prev, corner)]

blendInit3FromArcArc(prev, tc, corner) ==
  [L1 |-> OnCircle(prev, (2 * prev.nominal) \div 3), L2 |-> OnCircle(tc, tc.nominal \div 3),
   corner |-> Chord(prev, Chord(tc, corner))]

(* blendParamKinematics: v_goal.  At a corner with a circle the altitude is   *)
(* zero and so is v_planar_max: the goal is to stand still.                   *)
blendParamKinematics(prev, tc, goal) == IF {prev.kind, tc.kind} = {"line"} THEN goal ELSE 0

NormalAcc == (AccMax * 866) \div 1000

blendComputeParameters(tolerance, init, goal) ==
  LET corner == init.corner
      d_tol == (Cosine(corner) * tolerance) \div (5 - Sine(corner))
      d_geom == Least(Least(init.L1, init.L2), d_tol)
      R_geom == (Sine(corner) * d_geom) \div Cosine(corner)
      v_plan == Least(Root(NormalAcc * R_geom), goal)
      v_triangle == Root(AccMax * d_geom)
      s_blend == (2 * Least(v_triangle, v_plan) * v_plan) \div AccMax
      R_blend == Least((100 * s_blend) \div Phi(corner), R_geom)
      R_plan == Most(Ceil(v_plan * v_plan, NormalAcc), R_blend)
  IN  [R |-> R_plan, v |-> v_plan, d |-> (R_plan * Cosine(corner)) \div Sine(corner)]

------------------------------------------------------------------------------
(* Segments.                                                                  *)

Segment(m) ==
  [id |-> nextId, kind |-> m.kind, convex |-> m.convex, nominal |-> m.length, target |-> m.length,
   cutStart |-> 0, cutEnd |-> 0, tolerance |-> m.tolerance, term |-> m.term, canon |-> m.canon,
   blend_prev |-> FALSE, finalized |-> FALSE, progress |-> 0, R |-> 0, v |-> 0, corner |-> "straight"]

(* tpInitBlendArcFromPrev, with the arc of arcFromBlendPoints3: its length is *)
(* the radius times the angle, it is tangent to the next line, and final.     *)
BlendArc(prev, corner, param) ==
  LET length == Ceil(param.R * Phi(corner), 100)
  IN  [prev EXCEPT !.id = 0, !.kind = "arc", !.nominal = length, !.target = length, !.term = "tangent",
                   !.finalized = TRUE, !.blend_prev = FALSE, !.progress = 0,
                   !.R = param.R, !.v = param.v, !.corner = corner, !.cutStart = param.d, !.cutEnd = 0]

(* tcSetTermCond, on the two segments.                                        *)
Ends(pair, term) ==
  [pair EXCEPT !.prev.term = term, !.tc.blend_prev = (term = "parabolic")]

(* pmCartLineInit gives the distance of the new end points as the length.     *)
Cut(line) == [line EXCEPT !.target = Abs(line.nominal - line.cutStart - line.cutEnd)]

(* Mutant: the new line is not moved to the end of the arc.                   *)
tcConnectBlendArc_PrevOnly(pair, d) ==
  Ends([pair EXCEPT !.prev = Cut([@ EXCEPT !.cutEnd = d])], "tangent")

tcConnectBlendArc(pair, d) ==
  Ends([pair EXCEPT !.prev = Cut([@ EXCEPT !.cutEnd = d]), !.tc = Cut([@ EXCEPT !.cutStart = d])],
       "tangent")

------------------------------------------------------------------------------
(* tpHandleBlendArc, on [prev, tc, arc]: arc is a sequence, empty or of one.  *)

(* A change between traverse and feed is a stop.                              *)
handleModeChange(pair) ==
  IF (pair.prev.canon = "traverse") # (pair.tc.canon = "traverse") THEN Ends(pair, "stop") ELSE pair

(* tpChooseBestBlend without an arc: segments that must stop stay as they are.*)
ChooseWithoutArc(pair, other) ==
  IF pair.prev.term \in {"exact", "stop"} THEN pair ELSE Ends(pair, other)

tpCheckBlendArcType(prev) == prev.term = "parabolic" /\ ~prev.finalized /\ prev.kind \in {"line", "circle"}

(* The blend of a pair at a corner, or the pair as it is: the arc is made      *)
(* when its radius is not too small, it takes no more of a circle than init   *)
(* allows, and the other tests of the function allow it.                      *)
CreateBlend(pair, init, circles, goal, allowed) ==
  LET param == blendComputeParameters(tcFindBlendTolerance(pair.prev, pair.tc), init,
                                      blendParamKinematics(pair.prev, pair.tc, goal))
  IN  IF param.R >= 1 /\ allowed /\ (\A trim \in circles : param.d <= trim)
      THEN [tcConnectBlendArc(pair, param.d) EXCEPT !.arc = <<BlendArc(pair.prev, init.corner, param)>>]
      ELSE pair

tpCreateLineLineBlend(pair, corner, goal, allowed) ==
  CreateBlend(pair, blendInit3FromLineLine(pair.prev, pair.tc, corner), {}, goal, allowed)

tpCreateLineArcBlend(pair, corner, goal, allowed) ==
  LET init == blendInit3FromLineArc(pair.prev, pair.tc, corner)
  IN  CreateBlend(pair, init, {init.L2}, goal, allowed)

tpCreateArcLineBlend(pair, corner, goal, allowed) ==
  LET init == blendInit3FromArcLine(pair.prev, pair.tc, corner)
  IN  CreateBlend(pair, init, {init.L1}, goal, allowed)

tpCreateArcArcBlend(pair, corner, goal, allowed) ==
  LET init == blendInit3FromArcArc(pair.prev, pair.tc, corner)
  IN  CreateBlend(pair, init, {init.L1, init.L2}, goal, allowed)

(* tpCreateBlendIfPossible; where it makes no arc, tpChooseBestBlend chooses  *)
(* again.                                                                     *)
tpCreateBlendIfPossible(pair, corner, goal, allowed, other) ==
  LET kinds == <<pair.prev.kind, pair.tc.kind>>
      made == CASE ~tpCheckBlendArcType(pair.prev) -> pair
                [] kinds = <<"line", "line">> -> tpCreateLineLineBlend(pair, corner, goal, allowed)
                [] kinds = <<"line", "circle">> -> tpCreateLineArcBlend(pair, corner, goal, allowed)
                [] kinds = <<"circle", "line">> -> tpCreateArcLineBlend(pair, corner, goal, allowed)
                [] kinds = <<"circle", "circle">> -> tpCreateArcArcBlend(pair, corner, goal, allowed)
                [] OTHER -> pair
  IN  IF made.arc # <<>> THEN made ELSE ChooseWithoutArc(pair, other)

(* tpSetupTangent, and then the blend: a segment that stops or turns a rotary *)
(* axis is left alone, a reversal becomes a stop, a straight corner tangent.  *)
RoundTheCorner(pair, corner, goal, allowed, other) ==
  IF "rotary" \in {pair.prev.kind, pair.tc.kind} \/ pair.prev.term = "stop" THEN pair
  ELSE IF corner = "back" THEN Ends(pair, "stop")
  ELSE IF corner = "straight" THEN Ends(pair, "tangent")
  ELSE tpCreateBlendIfPossible(pair, corner, goal, allowed, other)

tpHandleBlendArc(pair, corner, goal, allowed, other) ==
  IF 2 * pair.prev.progress > pair.prev.target THEN pair
  ELSE RoundTheCorner(pair, corner, goal, allowed, other)

tcFinalizeLength(tc) == [tc EXCEPT !.finalized = TRUE]

(* tpAddLine and tpAddCircle: the last segment is blended with the new one    *)
(* and is then final.                                                         *)
tpAddMove(m, corner, goal, allowed, other) ==
  LET new == Segment(m)
      both == tpHandleBlendArc(handleModeChange([prev |-> Last(queue), tc |-> new, arc |-> <<>>]),
                               corner, goal, allowed, other)
  IN  /\ nextId <= MaxMoves
      /\ nextId' = nextId + 1
      /\ queue' = IF queue = <<>> THEN <<new>>
                  ELSE Front(queue) \o <<tcFinalizeLength(both.prev)>> \o both.arc \o <<both.tc>>

tpAddLine(m, corner, goal, allowed, other) ==
  m.kind \in {"line", "rotary"} /\ tpAddMove(m, corner, goal, allowed, other)

tpAddCircle(m, corner, goal, allowed, other) ==
  m.kind = "circle" /\ tpAddMove(m, corner, goal, allowed, other)

(* The head runs along its length, and leaves the queue at its end.           *)
Run(step) ==
  /\ queue # <<>> /\ queue[1].progress < queue[1].target
  /\ queue' = [queue EXCEPT ![1].progress = Least(@ + step, queue[1].target)]
  /\ UNCHANGED nextId

Complete ==
  /\ queue # <<>> /\ queue[1].progress >= queue[1].target
  /\ queue' = Tail(queue)
  /\ UNCHANGED nextId

Next ==
  \/ \E m \in Moves, corner \in Corners, goal \in Goals, allowed \in BOOLEAN, other \in {"parabolic", "tangent"} :
       tpAddLine(m, corner, goal, allowed, other) \/ tpAddCircle(m, corner, goal, allowed, other)
  \/ \E step \in Steps : Run(step)
  \/ Complete

Spec == Init /\ [][Next]_vars

------------------------------------------------------------------------------
(* Properties.                                                                *)

Segments == 1 .. Len(queue)
Programmed == {i \in Segments : queue[i].kind # "arc"}

(* The path has no gap: a segment that is cut at its end is followed by the   *)
(* arc that meets it there, the next segment starts where the arc ends, and   *)
(* every arc stands between two segments.                                     *)
Joined ==
  \A i \in Segments : i < Len(queue) =>
    LET s == queue[i]
        next == queue[i + 1]
    IN  IF s.kind = "arc" THEN next.cutStart = s.cutStart
        ELSE IF next.kind = "arc" THEN s.cutEnd = next.cutStart
        ELSE s.cutEnd = 0 /\ next.cutStart = 0

(* Only the last segment can still be blended, and it was programmed.         *)
OnlyLastOpen ==
  /\ \A i \in Segments : i < Len(queue) <=> queue[i].finalized
  /\ \A i, j \in Programmed : i < j => queue[i].id < queue[j].id

(* The two together: the path is connected and stays so, because no segment   *)
(* behind the last is ever cut again.                                         *)
PathConnected == Joined /\ OnlyLastOpen

(* The blends at the two ends of a line, made at two times from what was then *)
(* left of it, never take more than its whole length: pmCartLineInit would    *)
(* turn the line round without a word.  And a line is never cut shorter than  *)
(* it has already been run, unless the blend at its start had taken from it:  *)
(* the test for half of it done looks at what is left, the blend may take     *)
(* half of what was programmed.                                               *)
CutsFit ==
  \A i \in Programmed :
    /\ queue[i].cutStart + queue[i].cutEnd <= queue[i].nominal
    /\ queue[i].progress <= queue[i].target \/ (queue[i].cutStart > 0 /\ queue[i].cutEnd > 0)

(* A blend arc passes its corner within the path tolerance of both segments   *)
(* it joins, its distance from the corner being R (1 - sin) / sin, and at the *)
(* speed planned for it needs no more acceleration towards its center than    *)
(* its share of the machine's.                                                *)
ArcAllowed ==
  \A i \in Segments : queue[i].kind = "arc" =>
    /\ queue[i].v * queue[i].v <= NormalAcc * queue[i].R
    /\ \A j \in {i - 1, i + 1} \ {0} :
         LET limit == IF queue[j].tolerance = 0 THEN queue[j].nominal \div 4 ELSE queue[j].tolerance
         IN  queue[i].R * (5 - Sine(queue[i].corner)) <= limit * Sine(queue[i].corner)
=============================================================================
