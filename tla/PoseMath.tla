------------------------------- MODULE PoseMath -------------------------------
(* Rotations, poses and their representations: src/libnml/_posemath.c, on the *)
(* 24 rotations that carry the axes onto each other, where every number of    *)
(* the code is exact.                                                         *)
(*                                                                            *)
(*   vector        <<x, y, z>>, integers                                      *)
(*   matrix        <<m.x, m.y, m.z>>, the images of the axes                  *)
(*   quaternion    <<s, x, y, z>>, the primitive integers in the direction of *)
(*                 the unit quaternion, which is all that its length of one   *)
(*                 leaves to know                                             *)
(*   rotation vector  [s, axis]: the angle in twelfths of a turn and the      *)
(*                 primitive integers in the direction of the unit axis       *)
(*   Euler angles  quarter turns, modulo 4                                    *)
(*                                                                            *)
(* The fuzz constants separate zero from the next number that occurs, and a   *)
(* comparison with them is a comparison with zero.  An operator returns what  *)
(* the function stores through its last pointer when that does not alias an   *)
(* input.  The classes of posemath.cpp call six of them on their own storage; *)
(* axisAngleMult and the operators named InPlace are for those calls.         *)
(* A definition named D_Something is a mutated form of D.                     *)
EXTENDS Integers, Sequences, SequencesExt, FiniteSetsExt

Quarters == 0 .. 3
Axes == {"X", "Y", "Z"}
Origin == <<0, 0, 0>>
Identity == <<<<1, 0, 0>>, <<0, 1, 0>>, <<0, 0, 1>>>>
NoTurn == <<1, 0, 0, 0>>

Abs(n) == IF n < 0 THEN -n ELSE n
Divides(d, v) == \A i \in DOMAIN v : v[i] % d = 0

(* The primitive integers in the direction of v.                              *)
Primitive(v) ==
  LET d == Max({1} \cup {k \in 1 .. 12 : Divides(k, v) /\ \E i \in DOMAIN v : v[i] # 0})
  IN  [i \in DOMAIN v |-> v[i] \div d]

------------------------------------------------------------------------------
(* Vectors.                                                                   *)

pmCartCartAdd(v, w) == [i \in 1 .. 3 |-> v[i] + w[i]]
pmCartCartSub(v, w) == [i \in 1 .. 3 |-> v[i] - w[i]]
pmCartScalMult(v, d) == [i \in 1 .. 3 |-> v[i] * d]
pmCartCartDot(v, w) == v[1] * w[1] + v[2] * w[2] + v[3] * w[3]
pmCartMagSq(v) == pmCartCartDot(v, v)
pmCartCartCross(v, w) ==
  <<v[2] * w[3] - v[3] * w[2], v[3] * w[1] - v[1] * w[3], v[1] * w[2] - v[2] * w[1]>>

------------------------------------------------------------------------------
(* Angles.  sin, cos and atan2 in quarter turns.                              *)

Cos(a) == <<1, 0, -1, 0>>[(a % 4) + 1]
Sin(a) == <<0, 1, 0, -1>>[(a % 4) + 1]
Atan2(y, x) == IF y > 0 THEN 1 ELSE IF y < 0 THEN 3 ELSE IF x < 0 THEN 2 ELSE 0
Opposite(a) == (4 - a) % 4

------------------------------------------------------------------------------
(* Quaternions.                                                               *)

(* pmQuatNorm: the length is divided out, and s is not negative.              *)
pmQuatNorm(q) ==
  IF \A i \in 1 .. 4 : q[i] = 0 THEN NoTurn
  ELSE Primitive(IF q[1] >= 0 THEN q ELSE [i \in 1 .. 4 |-> -q[i]])

pmQuatInv(q) == <<q[1], -q[2], -q[3], -q[4]>>

Product(p, q) ==
  <<p[1] * q[1] - p[2] * q[2] - p[3] * q[3] - p[4] * q[4],
    p[1] * q[2] + p[2] * q[1] + p[3] * q[4] - p[4] * q[3],
    p[1] * q[3] - p[2] * q[4] + p[3] * q[1] + p[4] * q[2],
    p[1] * q[4] + p[2] * q[3] - p[3] * q[2] + p[4] * q[1]>>

pmQuatQuatMult(p, q) == pmQuatNorm(Product(p, q))

(* The directions of <<cos, sin / |axis|>> of half the angle.                 *)
HalfAngle(a, norm) ==
  CASE norm = 1 -> <<<<1, 0>>, <<1, 1>>, <<0, 1>>, <<-1, 1>>,
                     <<-1, 0>>, <<-1, -1>>, <<0, -1>>, <<1, -1>>>>[((a \div 3) % 8) + 1]
    [] norm = 2 -> <<<<1, 0>>, <<0, 1>>, <<-1, 0>>, <<0, -1>>>>[((a \div 6) % 4) + 1]
    [] norm = 3 -> <<<<1, 0>>, <<1, 1>>, <<-1, 1>>,
                     <<-1, 0>>, <<-1, -1>>, <<1, -1>>>>[((a \div 4) % 6) + 1]

pmQuatRotConvert(q) ==
  LET v == Tail(q)
  IN  IF v = Origin THEN [s |-> 0, axis |-> Origin]
      ELSE [s |-> IF q[1] = 0 THEN 6 ELSE IF pmCartMagSq(v) = 3 THEN 4 ELSE 3,
            axis |-> Primitive(v)]

pmRotQuatConvert(r) ==
  IF r.s = 0 THEN NoTurn
  ELSE LET h == HalfAngle(r.s, pmCartMagSq(r.axis))
       IN  pmQuatNorm(<<h[1]>> \o pmCartScalMult(r.axis, h[2]))

(* pmQuatScalMult: n times the angle about the same axis.                     *)
pmQuatScalMult(q, n) ==
  LET r == pmQuatRotConvert(q) IN pmRotQuatConvert([r EXCEPT !.s = @ * n])

AxisOf(axis) == CASE axis = "X" -> Identity[1] [] axis = "Y" -> Identity[2] [] axis = "Z" -> Identity[3]

(* The cosine and sine of half the angle, as both functions compute them.     *)
HalfTurned(axis, a) ==
  LET h == HalfAngle(3 * a, 1) IN <<h[1]>> \o pmCartScalMult(AxisOf(axis), h[2])

pmAxisAngleQuatConvert(axis, a) == pmQuatNorm(HalfTurned(axis, a))

pmQuatAxisAngleMult(q, axis, a) == pmQuatNorm(Product(q, pmAxisAngleQuatConvert(axis, a)))

(* What is stored when the result is the first factor.  Its components are    *)
(* read after they were overwritten, so that their ratios may be irrational:  *)
(* r[1] + r[2] * sqrt(2) is 8 times the first factor, and the second factor h *)
(* stands for h / |h|, where |h| is 1 or sqrt(2).                             *)
Scaled(q, n) == <<n * q[1], n * q[2], n * q[3], n * q[4]>>
Eightfold(q) == <<Scaled(q, 8), <<0, 0, 0, 0>>>>
Negated(r) == <<Scaled(r[1], -1), Scaled(r[2], -1)>>

Halved(q) == <<q[1] \div 2, q[2] \div 2, q[3] \div 2, q[4] \div 2>>
ExactProduct(r, h) ==
  IF \E i \in 1 .. 4 : h[i] # 0 /\ \A j \in 1 .. 4 \ {i} : h[j] = 0
  THEN <<Product(r[1], h), Product(r[2], h)>>
  ELSE <<Product(r[2], h), Halved(Product(r[1], h))>>

(* The sign of the scalar part, of whose two terms one is zero.               *)
Negative(r) == r[1][1] + r[2][1] < 0

Overwritten(r, h, sign) ==
  LET Store(t, i) ==
        LET product == ExactProduct(t, h)
        IN  <<[t[1] EXCEPT ![i] = sign * product[1][i]], [t[2] EXCEPT ![i] = sign * product[2][i]]>>
  IN  FoldLeft(Store, r, <<1, 2, 3, 4>>)

(* PM_QUATERNION::axisAngleMult: the sign is changed at the end.              *)
axisAngleMult(q, axis, a) ==
  LET r == Overwritten(Eightfold(q), HalfTurned(axis, a), 1)
  IN  IF Negative(r) THEN Negated(r) ELSE r

(* operator * of two quaternions, and so the rotation of that of two poses:   *)
(* the sign is changed as the components are stored.                          *)
QuatProductInPlace(q, h) ==
  Overwritten(Eightfold(q), h, IF Negative(ExactProduct(Eightfold(q), h)) THEN -1 ELSE 1)

(* The product itself, in the same terms.                                     *)
SeparateProduct(q, h) ==
  LET r == ExactProduct(Eightfold(q), h) IN IF Negative(r) THEN Negated(r) ELSE r

(* Mutant: the two quaternions of a half turn are taken for two rotations.    *)
pmQuatQuatCompare_Strict(p, q) == p = q

(* A half turn is the same with its axis reversed; of two quaternions of unit *)
(* length with opposite vectors both have the scalar part the code tests.     *)
pmQuatQuatCompare(p, q) ==
  p = q \/ (p[1] = 0 /\ q[1] = 0 /\ \A i \in 2 .. 4 : p[i] + q[i] = 0)

pmQuatCartMult(q, v) ==
  LET n == q[1] * q[1] + pmCartMagSq(Tail(q))
      u == Tail(q)
      c == pmCartCartCross(u, v)
      d == pmCartCartAdd(pmCartScalMult(c, q[1]), pmCartCartCross(u, c))
  IN  [i \in 1 .. 3 |-> v[i] + (2 * d[i]) \div n]

------------------------------------------------------------------------------
(* Matrices.                                                                  *)

pmMatCartMult(m, v) ==
  [i \in 1 .. 3 |-> m[1][i] * v[1] + m[2][i] * v[2] + m[3][i] * v[3]]

pmMatMatMult(m, n) == [c \in 1 .. 3 |-> pmMatCartMult(m, n[c])]

(* operator * of two matrices, which overwrites the first a column at a time. *)
MatProductInPlace(m, n) ==
  LET Store(t, c) == [t EXCEPT ![c] = pmMatCartMult(t, n[c])] IN FoldLeft(Store, m, <<1, 2, 3>>)

pmMatInv(m) == [c \in 1 .. 3 |-> [r \in 1 .. 3 |-> m[r][c]]]

(* With mout = m, as inv calls it, elements are read after they were          *)
(* overwritten: those above the diagonal are copied below it.                 *)
pmMatInvInPlace(m) == [c \in 1 .. 3 |-> [r \in 1 .. 3 |-> IF r < c THEN m[c][r] ELSE m[r][c]]]

pmQuatMatConvert(q) ==
  LET n == q[1] * q[1] + pmCartMagSq(Tail(q))
      s == q[1]
      x == q[2]
      y == q[3]
      z == q[4]
      Unscaled(v) == [i \in 1 .. 3 |-> v[i] \div n]
  IN  <<Unscaled(<<n - 2 * (y * y + z * z), 2 * (x * y + z * s), 2 * (z * x - y * s)>>),
        Unscaled(<<2 * (x * y - z * s), n - 2 * (z * z + x * x), 2 * (y * z + x * s)>>),
        Unscaled(<<2 * (z * x + y * s), 2 * (y * z - x * s), n - 2 * (x * x + y * y)>>)>>

(* The square roots of the half turn are zero or equal.                       *)
Positive(n) == IF n > 0 THEN 1 ELSE 0
Signed(n, negative) == IF negative THEN -n ELSE n

(* The signs of the axis of a half turn: the largest component is positive.   *)
HalfTurnAxis(m) ==
  LET x == Positive(1 + m[1][1] - m[2][2] - m[3][3])
      y == Positive(1 + m[2][2] - m[1][1] - m[3][3])
      z == Positive(1 + m[3][3] - m[2][2] - m[1][1])
  IN  IF x > y /\ x > z THEN <<x, Signed(y, m[1][2] < 0), Signed(z, m[1][3] < 0)>>
      ELSE IF y > z THEN <<Signed(x, m[1][2] < 0), y, Signed(z, m[2][3] < 0)>>
      ELSE <<Signed(x, m[1][3] < 0), Signed(y, m[2][3] < 0), z>>

pmMatQuatConvert(m) ==
  LET trace == m[1][1] + m[2][2] + m[3][3]
  IN  pmQuatNorm(IF 1 + trace > 0
                 THEN <<1 + trace, m[2][3] - m[3][2], m[3][1] - m[1][3], m[1][2] - m[2][1]>>
                 ELSE <<0>> \o HalfTurnAxis(m))

(* pmRotMatConvert, with twice the cosine and the sine over |axis|.           *)
pmRotMatConvert(r) ==
  LET norm == pmCartMagSq(r.axis)
      c == CASE r.s = 0 -> 2 [] r.s = 3 -> 0 [] r.s = 4 -> -1 [] r.s = 6 -> -2
      s == CASE r.s \in {0, 6} -> 0 [] r.s = 3 -> 2 [] r.s = 4 -> 1
      omc(p) == IF p = 0 THEN 0 ELSE (p * (2 - c)) \div norm
      x == r.axis[1]
      y == r.axis[2]
      z == r.axis[3]
      Half(v) == [i \in 1 .. 3 |-> v[i] \div 2]
  IN  <<Half(<<c + omc(x * x), z * s + omc(y * x), omc(z * x) - y * s>>),
        Half(<<omc(x * y) - z * s, c + omc(y * y), x * s + omc(z * y)>>),
        Half(<<y * s + omc(x * z), omc(y * z) - x * s, c + omc(z * z)>>)>>

------------------------------------------------------------------------------
(* Euler angles.                                                              *)

(* Roll, pitch and yaw are x, y and z of the ZYX angles.                      *)
pmZyxMatConvert(e) ==
  LET sa == Sin(e.z)
      sb == Sin(e.y)
      sg == Sin(e.x)
      ca == Cos(e.z)
      cb == Cos(e.y)
      cg == Cos(e.x)
  IN  <<<<ca * cb, sa * cb, -sb>>,
        <<ca * sb * sg - sa * cg, sa * sb * sg + ca * cg, cb * sg>>,
        <<ca * sb * cg + sa * sg, sa * sb * cg - ca * sg, cb * cg>>>>

pmRpyMatConvert(e) == pmZyxMatConvert([z |-> e.y, y |-> e.p, x |-> e.r])

pmZyzMatConvert(e) ==
  LET sa == Sin(e.z)
      sb == Sin(e.y)
      sg == Sin(e.zp)
      ca == Cos(e.z)
      cb == Cos(e.y)
      cg == Cos(e.zp)
  IN  <<<<ca * cb * cg - sa * sg, sa * cb * cg + ca * sg, -(sb * cg)>>,
        <<-(ca * cb * sg) - sa * cg, ca * cg - sa * cb * sg, sb * sg>>,
        <<ca * sb, sa * sb, cb>>>>

(* pmSqrt of the squares of two elements of a row or column.                  *)
Length(a, b) == Positive(a * a + b * b)

(* Mutant: at a pitch of minus 90 degrees the roll is not negated.            *)
pmMatRpyConvert_SignLost(m) ==
  LET p == Atan2(-m[1][3], Length(m[1][1], m[1][2]))
  IN  IF p \in {1, 3} THEN [r |-> Atan2(m[2][1], m[2][2]), p |-> p, y |-> 0]
      ELSE [r |-> Atan2(m[2][3], m[3][3]), p |-> p, y |-> Atan2(m[1][2], m[1][1])]

pmMatRpyConvert(m) ==
  LET p == Atan2(-m[1][3], Length(m[1][1], m[1][2]))
  IN  IF p = 1 THEN [r |-> Atan2(m[2][1], m[2][2]), p |-> 1, y |-> 0]
      ELSE IF p = 3 THEN [r |-> Opposite(Atan2(m[2][1], m[2][2])), p |-> 3, y |-> 0]
      ELSE [r |-> Atan2(m[2][3], m[3][3]), p |-> p, y |-> Atan2(m[1][2], m[1][1])]

(* At minus 90 degrees this one reads m.y.z, which is zero, for m.y.x.        *)
pmMatZyxConvert(m) ==
  LET y == Atan2(-m[1][3], Length(m[1][1], m[1][2]))
  IN  IF y = 1 THEN [z |-> 0, y |-> 1, x |-> Atan2(m[2][1], m[2][2])]
      ELSE IF y = 3 THEN [z |-> 0, y |-> 3, x |-> Opposite(Atan2(m[2][3], m[2][2]))]
      ELSE [z |-> Atan2(m[1][2], m[1][1]), y |-> y, x |-> Atan2(m[2][3], m[3][3])]

pmMatZyzConvert(m) ==
  LET y == Atan2(Length(m[1][3], m[2][3]), m[3][3])
  IN  IF y = 0 THEN [z |-> 0, y |-> 0, zp |-> Atan2(-m[2][1], m[1][1])]
      ELSE IF y = 2 THEN [z |-> 0, y |-> 2, zp |-> Atan2(m[2][1], -m[1][1])]
      ELSE [z |-> Atan2(m[3][2], m[3][1]), y |-> y, zp |-> Atan2(m[2][3], -m[1][3])]

(* The conversions between quaternions and Euler angles go through a matrix.  *)
pmZyzQuatConvert(e) == pmMatQuatConvert(pmZyzMatConvert(e))
pmZyxQuatConvert(e) == pmMatQuatConvert(pmZyxMatConvert(e))
pmRpyQuatConvert(e) == pmMatQuatConvert(pmRpyMatConvert(e))
pmQuatZyzConvert(q) == pmMatZyzConvert(pmQuatMatConvert(q))
pmQuatZyxConvert(q) == pmMatZyxConvert(pmQuatMatConvert(q))
pmQuatRpyConvert(q) == pmMatRpyConvert(pmQuatMatConvert(q))

------------------------------------------------------------------------------
(* Poses [tran, rot], with a quaternion, and homogeneous transformations,     *)
(* with a matrix.                                                             *)

pmPoseInv(p) ==
  LET inverse == pmQuatInv(p.rot)
  IN  [tran |-> pmCartScalMult(pmQuatCartMult(inverse, p.tran), -1), rot |-> inverse]

pmPosePoseMult(p, q) ==
  [tran |-> pmCartCartAdd(p.tran, pmQuatCartMult(p.rot, q.tran)),
   rot |-> pmQuatQuatMult(p.rot, q.rot)]

(* operator * of two poses: the translation of the first is overwritten by    *)
(* the turned one of the second before it is added.                           *)
PoseProductInPlace(p, q) ==
  LET turned == pmQuatCartMult(p.rot, q.tran)
  IN  [tran |-> pmCartCartAdd(turned, turned), rot |-> QuatProductInPlace(p.rot, q.rot)]

pmPosePoseCompare(p, q) == pmQuatQuatCompare(p.rot, q.rot) /\ p.tran = q.tran

pmPoseHomConvert(p) == [tran |-> p.tran, rot |-> pmQuatMatConvert(p.rot)]
pmHomPoseConvert(h) == [tran |-> h.tran, rot |-> pmMatQuatConvert(h.rot)]

pmHomInv(h) ==
  LET inverse == pmMatInv(h.rot)
  IN  [tran |-> pmCartScalMult(pmMatCartMult(inverse, h.tran), -1), rot |-> inverse]

------------------------------------------------------------------------------
(* Cylindrical and spherical coordinates of vectors along one axis.  The      *)
(* angle phi of pmCartSphConvert is counted from the z axis, that of          *)
(* pmCylSphConvert from the xy plane.                                         *)

Along(v) == Cardinality({i \in 1 .. 3 : v[i] # 0}) <= 1
Size(v) == Abs(v[1]) + Abs(v[2]) + Abs(v[3])

pmCartSphConvert(v) ==
  [theta |-> Atan2(v[2], v[1]), r |-> Size(v), phi |-> Atan2(Abs(v[1]) + Abs(v[2]), v[3])]
pmSphCartConvert(s) ==
  LET planar == s.r * Sin(s.phi) IN <<planar * Cos(s.theta), planar * Sin(s.theta), s.r * Cos(s.phi)>>
pmCartCylConvert(v) == [theta |-> Atan2(v[2], v[1]), r |-> Abs(v[1]) + Abs(v[2]), z |-> v[3]]
pmCylCartConvert(c) == <<c.r * Cos(c.theta), c.r * Sin(c.theta), c.z>>
pmCylSphConvert(c) == [theta |-> c.theta, r |-> c.r + Abs(c.z), phi |-> Atan2(c.z, c.r)]

pmSphCylConvert(s) == [theta |-> s.theta, r |-> s.r * Cos(s.phi), z |-> s.r * Sin(s.phi)]

------------------------------------------------------------------------------
(* Circles and spirals about an axis, with their ends on the axes: angles in  *)
(* quarter turns, coordinates in multiples of Unit, which every number of     *)
(* quarters that occurs divides.                                              *)

Unit == 840
Sign(n) == IF n > 0 THEN 1 ELSE IF n < 0 THEN -1 ELSE 0
Signs(v) == [i \in 1 .. 3 |-> Sign(v[i])]
Share(v, n, d) == [i \in 1 .. 3 |-> (v[i] * n) \div d]

pmCartCartProj(v, w) == Share(w, pmCartCartDot(v, w), pmCartMagSq(w))
pmCartPlaneProj(v, normal) == pmCartCartSub(v, pmCartCartProj(v, normal))

(* Lines, with the length of the difference given: it is not always whole.    *)
pmCartLineInit(start, end, tmag) ==
  [kind |-> "line", start |-> start, end |-> end, extent |-> tmag,
   uVec |-> IF start = end THEN Identity[1] ELSE pmCartCartSub(end, start),
   per |-> IF start = end THEN 1 ELSE tmag, tmag_zero |-> start = end]

Advance(line, len) == Share(line.uVec, len, line.per)

pmCartLinePoint(line, len) ==
  IF line.tmag_zero THEN line.end ELSE pmCartCartAdd(line.start, Advance(line, len))

pmCartLineStretch(line, new_len, from_end) ==
  IF line.tmag_zero \/ new_len <= 0 THEN line
  ELSE IF from_end
       THEN [line EXCEPT !.start = pmCartCartSub(line.end, Advance(line, new_len)), !.extent = new_len]
       ELSE [line EXCEPT !.end = pmCartCartAdd(line.start, Advance(line, new_len)), !.extent = new_len]

(* The angle of the shortest rotation, then about the normal.                 *)
AngleAbout(normal, rTan, rEnd) ==
  LET dot == Sign(pmCartCartDot(rTan, rEnd))
      turned == Sign(pmCartCartDot(pmCartCartCross(Signs(rTan), Signs(rEnd)), normal))
  IN  IF turned <= 0 THEN 4 - (1 - dot) ELSE 1 - dot

(* The turns of the path: -1 -> 0, -2 -> 1, about the normal reversed.        *)
Turns(turn) == IF turn < 0 THEN -1 - turn ELSE turn

pmCircleInit(start, end, center, normal, turn) ==
  LET mid == pmCartCartAdd(pmCartCartProj(pmCartCartSub(start, center), normal), center)
      about == pmCartScalMult(Signs(normal), IF turn < 0 THEN -1 ELSE 1)
      rTan == pmCartCartSub(start, mid)
      out == pmCartCartSub(end, mid)
      rEnd == pmCartPlaneProj(out, about)
      closed == pmCartPlaneProj(start, normal) = pmCartPlaneProj(end, normal)
  IN  [kind |-> "circle", center |-> mid, normal |-> about, radius |-> Size(rTan), rTan |-> rTan,
       rPerp |-> pmCartCartCross(about, rTan), rHelix |-> pmCartCartSub(out, rEnd),
       spiral |-> Size(rEnd) - Size(rTan),
       extent |-> (IF closed THEN 4 ELSE AngleAbout(about, rTan, rEnd)) + 4 * Turns(turn)]

(* The radius vector at an angle, without spiral and helix.                   *)
Radial(c, angle) ==
  pmCartCartAdd(pmCartScalMult(c.rTan, Cos(angle)), pmCartScalMult(c.rPerp, Sin(angle)))

pmCirclePoint(c, angle) ==
  LET round == Radial(c, angle)
      out == Share(Signs(round), c.spiral * angle, c.extent)
  IN  pmCartCartAdd(c.center,
        pmCartCartAdd(pmCartCartAdd(round, out), Share(c.rHelix, angle, c.extent)))

(* pmCircleTangentVector adds up three directions: around, along the axis and *)
(* outward.  The last is that of the whole vector from the center, which      *)
(* leans by the height once the helix has climbed.                            *)
pmCircleTangentVector(c, angle) ==
  LET radius == pmCartCartSub(pmCirclePoint(c, angle), c.center)
  IN  [around |-> Signs(pmCartCartCross(c.normal, radius)), climb |-> Signs(c.rHelix),
       outward |-> pmCartScalMult(Signs(radius), Sign(c.spiral))]

(* tcGetStartTangentUnitVector and tcGetEndTangentUnitVector.                 *)
TangentAt(path, progress) ==
  IF path.kind = "line" THEN [around |-> Signs(path.uVec), climb |-> Origin, outward |-> Origin]
                        ELSE pmCircleTangentVector(path, progress)

(* Mutant: the spiral of the whole circle is kept.                            *)
pmCircleStretch_KeepsSpiral(c, new_angle, from_end) ==
  LET rTan == IF from_end THEN pmCartCartSub(pmCirclePoint(c, c.extent - new_angle), c.center)
                          ELSE c.rTan
  IN  [c EXCEPT !.rTan = rTan, !.rPerp = pmCartCartCross(c.normal, rTan),
                !.radius = Size(rTan), !.extent = new_angle]

(* A helix is refused.  From the end the start vectors are those of the new   *)
(* start; the spiral is shared out in proportion.                             *)
pmCircleStretch(c, new_angle, from_end) ==
  IF new_angle <= 0 \/ c.rHelix # Origin THEN c
  ELSE LET rTan == IF from_end
                   THEN pmCartCartSub(pmCirclePoint(c, c.extent - new_angle), c.center)
                   ELSE c.rTan
       IN  [c EXCEPT !.rTan = rTan, !.rPerp = pmCartCartCross(c.normal, rTan),
                     !.radius = Size(rTan), !.extent = new_angle,
                     !.spiral = (@ * new_angle) \div c.extent]

=============================================================================
