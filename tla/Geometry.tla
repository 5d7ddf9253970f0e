------------------------------- MODULE Geometry -------------------------------
(* A pose that goes through any sequence of the operations and conversions of *)
(* src/libnml/_posemath.c, beside the rotation matrix and the offset it       *)
(* should have; and a line or arc that is made and shortened at either end.   *)
(* The functions store into an object of its own here.  Where the classes of  *)
(* posemath.cpp make them overwrite an operand most results are no rotations: *)
(* ProductsInPlace and InverseInPlace say which are right.                    *)
(* A definition named D_Something is a mutated form of D.                     *)
EXTENDS PoseMath

CONSTANTS Reach,      \* the offsets are kept within this distance of the origin
          Spans,      \* the lines: the length and the vector of each
          Normals,    \* the normals of the arcs
          Radii,      \* the radii of the start and end of an arc; zero is the center
          Heights,    \* the heights of the start and end above the center
          TurnCounts  \* the turn argument of an arc

VARIABLES pose,    \* the program's pose: translation and quaternion
          frame,   \* the translation and rotation matrix it should have
          path,    \* the program's PmCartLine or PmCircle
          made,    \* what the path was made from, or NoPath
          from     \* the length or angle cut off at the start

vars == <<pose, frame, path, made, from>>

NoPath == [turn |-> 0, start |-> Origin, end |-> Origin, whole |-> [extent |-> 0]]

Init ==
  /\ pose = [tran |-> Origin, rot |-> NoTurn]
  /\ frame = [tran |-> Origin, rot |-> Identity]
  /\ path = [extent |-> 0]
  /\ made = NoPath
  /\ from = 0

------------------------------------------------------------------------------
(* The reference: rotation matrices, multiplied.                              *)

Matrix(axis, a) ==
  CASE axis = "X" -> <<<<1, 0, 0>>, <<0, Cos(a), Sin(a)>>, <<0, -Sin(a), Cos(a)>>>>
    [] axis = "Y" -> <<<<Cos(a), 0, -Sin(a)>>, <<0, 1, 0>>, <<Sin(a), 0, Cos(a)>>>>
    [] axis = "Z" -> <<<<Cos(a), Sin(a), 0>>, <<-Sin(a), Cos(a), 0>>, <<0, 0, 1>>>>

Apply(m, v) == [i \in 1 .. 3 |-> m[1][i] * v[1] + m[2][i] * v[2] + m[3][i] * v[3]]
After(m, n) == [c \in 1 .. 3 |-> Apply(m, n[c])]
Transposed(m) == [c \in 1 .. 3 |-> [r \in 1 .. 3 |-> m[r][c]]]
Power(m, k) == IF k = 0 THEN Identity ELSE IF k = 1 THEN m ELSE IF k = 2 THEN After(m, m)
               ELSE After(m, After(m, m))

------------------------------------------------------------------------------
(* Operations on the pose.                                                    *)

Within(v) == \A i \in 1 .. 3 : Abs(v[i]) <= Reach

(* pmQuatAxisAngleMult into another quaternion.                               *)
Turn(axis, a) ==
  /\ pose' = [pose EXCEPT !.rot = pmQuatAxisAngleMult(@, axis, a)]
  /\ frame' = [frame EXCEPT !.rot = After(@, Matrix(axis, a))]

(* pmPosePoseMult into another pose: the product with a pose a step along an  *)
(* axis and a turn about another.                                             *)
Compose(step, axis, a) ==
  LET moved == [tran |-> step, rot |-> pmAxisAngleQuatConvert(axis, a)]
  IN  /\ pose' = pmPosePoseMult(pose, moved)
      /\ Within(pose'.tran)
      /\ frame' = [tran |-> [i \in 1 .. 3 |-> frame.tran[i] + Apply(frame.rot, step)[i]],
                   rot |-> After(frame.rot, Matrix(axis, a))]

Invert ==
  /\ pose' = pmPoseInv(pose)
  /\ frame' = [tran |-> [i \in 1 .. 3 |-> -Apply(Transposed(frame.rot), frame.tran)[i]],
               rot |-> Transposed(frame.rot)]

(* operator * and / of a quaternion and a number.                             *)
Repeat(k) ==
  /\ pose' = [pose EXCEPT !.rot = pmQuatScalMult(@, k)]
  /\ frame' = [frame EXCEPT !.rot = Power(@, k)]

------------------------------------------------------------------------------
(* Conversions there and back, which should change nothing.                   *)

Convert(rot) == pose' = [pose EXCEPT !.rot = rot] /\ UNCHANGED frame

ThroughMatrix == Convert(pmMatQuatConvert(pmQuatMatConvert(pose.rot)))
ThroughRotationVector == Convert(pmRotQuatConvert(pmQuatRotConvert(pose.rot)))
ThroughVectorMatrix == Convert(pmMatQuatConvert(pmRotMatConvert(pmQuatRotConvert(pose.rot))))
ThroughRpy == Convert(pmRpyQuatConvert(pmQuatRpyConvert(pose.rot)))
ThroughZyz == Convert(pmZyzQuatConvert(pmQuatZyzConvert(pose.rot)))
ThroughHomogeneous == pose' = pmHomPoseConvert(pmPoseHomConvert(pose)) /\ UNCHANGED frame

PoseStep ==
  /\ made = NoPath
  /\ \/ \E axis \in Axes, a \in Quarters : Turn(axis, a)
     \/ \E step \in {Identity[1], Identity[2], Identity[3]}, axis \in Axes, a \in {1, 2} :
          Compose(step, axis, a)
     \/ Invert
     \/ \E k \in 0 .. 3 : Repeat(k)
     \/ ThroughMatrix
     \/ ThroughRotationVector
     \/ ThroughVectorMatrix
     \/ ThroughRpy
     \/ ThroughZyz
     \/ ThroughHomogeneous
  /\ UNCHANGED <<path, made, from>>

------------------------------------------------------------------------------
(* Paths.                                                                     *)

(* The directions along the axes at right angles to the normal.               *)
Across(normal) ==
  {v \in {pmCartScalMult(Identity[i], sign) : i \in 1 .. 3, sign \in {-1, 1}} :
     pmCartCartDot(v, normal) = 0}

Place(normal, radial, r, height) ==
  pmCartScalMult(pmCartCartAdd(pmCartScalMult(radial, r), pmCartScalMult(Signs(normal), height)), Unit)

Make(whole, start, end, turn) ==
  /\ made = NoPath
  /\ pose = [tran |-> Origin, rot |-> NoTurn]
  /\ path' = whole
  /\ made' = [turn |-> turn, start |-> start, end |-> end, whole |-> whole]
  /\ from' = 0
  /\ UNCHANGED <<pose, frame>>

(* The xyz part of pmLine9Init and pmCircle9Init.                             *)
MakeLine(span) ==
  Make(pmCartLineInit(Origin, pmCartScalMult(span[2], Unit), span[1]),
       Origin, pmCartScalMult(span[2], Unit), 0)

MakeCircle(normal, start, end, turn) ==
  Make(pmCircleInit(start, end, Origin, normal, turn), start, end, turn)

(* Distances along an arc are angles here: pmCircleAngleFromProgress gives    *)
(* the angle of a distance.                                                   *)
tcGetPosReal(p, progress) ==
  IF p.kind = "line" THEN pmCartLinePoint(p, progress) ELSE pmCirclePoint(p, progress)

Shorten(extent, from_end) ==
  /\ path' = IF path.kind = "line" THEN pmCartLineStretch(path, extent, from_end)
                                   ELSE pmCircleStretch(path, extent, from_end)
  /\ from' = IF from_end THEN from + path.extent - path'.extent ELSE from
  /\ UNCHANGED <<pose, frame, made>>

PathStep ==
  \/ \E span \in Spans : MakeLine(span)
  \/ \E normal \in Normals, rs \in Radii \ {0}, re \in Radii, hs, he \in Heights, turn \in TurnCounts :
       \E us, ue \in Across(normal) :
         MakeCircle(normal, Place(normal, us, rs, hs), Place(normal, ue, re, he), turn)
  \/ \E extent \in 1 .. path.extent - 1, from_end \in BOOLEAN : Shorten(extent, from_end)

Next == PoseStep \/ PathStep

Spec == Init /\ [][Next]_vars

------------------------------------------------------------------------------
(* Properties.                                                                *)

(* The program's quaternion is a unit quaternion of one of the 24 rotations   *)
(* with a scalar part that is never negative, which pmQuatQuatCompare and     *)
(* pmQuatMag rely on.                                                         *)
TypeOK ==
  /\ pose.rot[1] \in 0 .. 1
  /\ \A i \in 2 .. 4 : pose.rot[i] \in -1 .. 1
  /\ pose.rot # <<0, 0, 0, 0>>
  /\ Within(pose.tran) /\ Within(frame.tran)
  /\ made = NoPath \/ (path.extent <= made.whole.extent /\ from \in 0 .. made.whole.extent - path.extent)

(* Whatever operations and conversions a pose has been through, it is the     *)
(* pose the product of the rotation matrices gives: the sign rule of          *)
(* pmQuatNorm, the half turns of pmMatQuatConvert and the poles of the Euler  *)
(* conversions lose nothing.                                                  *)
SamePose == TypeOK /\ pose.tran = frame.tran /\ pmQuatMatConvert(pose.rot) = frame.rot

(* pmPoseInv undoes the pose, and pmQuatQuatCompare accepts the two           *)
(* quaternions exactly when they are the same rotation.                       *)
CompareDecides ==
  /\ pmPosePoseCompare(pmPosePoseMult(pose, pmPoseInv(pose)), [tran |-> Origin, rot |-> NoTurn])
  /\ \A axis \in Axes, a \in Quarters :
       LET other == pmQuatQuatMult(pmAxisAngleQuatConvert(axis, a), pmMatQuatConvert(frame.rot))
       IN  pmQuatQuatCompare(pose.rot, other) <=> pmQuatMatConvert(other) = frame.rot

(* pmMatZyxConvert gives back the rotation, but where the pitch is minus 90   *)
(* degrees and m.y.x is not zero: the code reads m.y.z there, which always    *)
(* is, and gives the rotation of another roll.                                *)
ZyxRoundTrip ==
  LET e == pmQuatZyxConvert(pose.rot)
  IN  pmQuatQuatCompare(pmZyxQuatConvert(e), pose.rot) <=> e.y # 3 \/ frame.rot[2][1] = 0

(* pmMatInv gives the inverse into another matrix; into the same matrix, as   *)
(* the class operators inv of src/libnml/posemath.cpp call it, exactly when   *)
(* the matrix was symmetric.                                                  *)
InverseInPlace ==
  /\ pmMatMatMult(frame.rot, pmMatInv(frame.rot)) = Identity
  /\ pmMatInvInPlace(frame.rot) = Transposed(frame.rot) <=> frame.rot = Transposed(frame.rot)

(* The class operations that turn a quaternion, and multiply two quaternions, *)
(* matrices or poses, store into the first factor while they still read it.   *)
(* A quarter turn never comes out right.  A turn of zero does; a half turn    *)
(* only of a matrix, or of a quaternion in which the two components the turn  *)
(* exchanges with later ones, the scalar part and the next off the axis, keep *)
(* their value; and the offset of two poses only if both parts of the sum are *)
(* the same.                                                                  *)
ProductsInPlace ==
  \A axis \in Axes, a \in Quarters :
    LET h == HalfTurned(axis, a)
        turn == pmAxisAngleQuatConvert(axis, a)
        Keeps(product) == \A i \in {1, IF axis = "X" THEN 3 ELSE 2} : product[i] = pose.rot[i]
        Right(product) == a = 0 \/ (a = 2 /\ Keeps(product))
    IN  /\ axisAngleMult(pose.rot, axis, a) = SeparateProduct(pose.rot, h)
             <=> Right(Product(pose.rot, h))
        /\ QuatProductInPlace(pose.rot, turn) = SeparateProduct(pose.rot, turn)
             <=> Right(pmQuatQuatMult(pose.rot, turn))
        /\ MatProductInPlace(frame.rot, Matrix(axis, a)) = After(frame.rot, Matrix(axis, a))
             <=> a \in {0, 2}
        /\ \A i \in 1 .. 3 :
             LET moved == [tran |-> Identity[i], rot |-> turn]
             IN  PoseProductInPlace(pose, moved).tran = pmPosePoseMult(pose, moved).tran
                   <=> frame.tran = Apply(frame.rot, Identity[i])

(* The cylindrical and spherical coordinates of an offset give it back, each  *)
(* by its own pair of conversions.                                            *)
CoordinatesReturn ==
  Along(pose.tran) =>
    /\ pmSphCartConvert(pmCartSphConvert(pose.tran)) = pose.tran
    /\ LET cyl == pmCartCylConvert(pose.tran)
       IN  pmCylCartConvert(cyl) = pose.tran /\ pmSphCylConvert(pmCylSphConvert(cyl)) = cyl

(* The representations of a pose agree, and so do the results stored into an  *)
(* object of their own and those of the classes, except where the code of     *)
(* pmMatZyxConvert, and an operand that is overwritten, say otherwise.  Beside *)
(* a path the pose is the one of the initial state.                           *)
ConversionsAgree ==
  made = NoPath =>
    CompareDecides /\ ZyxRoundTrip /\ InverseInPlace /\ ProductsInPlace /\ CoordinatesReturn

(* A path shortened at its ends any number of times runs along the path it    *)
(* was made as, which runs from the start to the end it was made for.         *)
OnThePath ==
  /\ tcGetPosReal(made.whole, 0) = made.start
  /\ tcGetPosReal(made.whole, made.whole.extent) = made.end
  /\ \A a \in 0 .. path.extent : tcGetPosReal(path, a) = tcGetPosReal(made.whole, from + a)

(* An arc passes the direction of its end once, and once more for each        *)
(* further turn: the turn argument counts from 0 counterclockwise and from -1 *)
(* clockwise about the normal.                                                *)
TurnsCounted ==
  (path = made.whole /\ path.kind = "circle") =>
    LET toEnd == Signs(pmCartPlaneProj(pmCartCartSub(made.end, path.center), path.normal))
        passes == {a \in 1 .. path.extent : Signs(Radial(path, a)) = toEnd}
    IN  toEnd # Origin =>
          Cardinality(passes) = IF made.turn >= 0 THEN made.turn + 1 ELSE -made.turn

(* The tangents at the ends point where the path goes: along a line; on an    *)
(* arc to where the radius will be a quarter turn later, up or down as the    *)
(* ends lie, and, seen along the axis, outward as the radius grows.  Blends   *)
(* are planned from them.                                                     *)
TangentsFollow ==
  LET travelled == pmCartCartSub(tcGetPosReal(path, path.extent), tcGetPosReal(path, 0))
      Planar(v) == pmCartPlaneProj(v, path.normal)
      Radius(a) == Size(Planar(pmCartCartSub(tcGetPosReal(path, a), path.center)))
  IN  \A a \in {0, path.extent} :
        LET tangent == TangentAt(path, a)
        IN  IF path.kind = "line"
            THEN path.tmag_zero \/ tangent.around = Signs(travelled)
            ELSE Radius(a) # 0 =>
                   /\ tangent.around = Signs(Radial(path, a + 1))
                   /\ tangent.climb = Signs(pmCartCartProj(travelled, path.normal))
                   /\ Planar(tangent.outward) =
                        pmCartScalMult(Signs(Radial(path, a)), Sign(Radius(path.extent) - Radius(0)))

(* A line or an arc is the path that was asked for, wherever it is cut.       *)
PathSound == made # NoPath => OnThePath /\ TurnsCounted /\ TangentsFollow
=============================================================================
