--------------------------- MODULE BlendPlanProofs ---------------------------
(* Proofs about BlendPlan, for any moves, speeds and tolerances.              *)
(*                                                                            *)
(* That the path has no gap does not depend on how far a blend cuts, only on  *)
(* both segments and the arc taking the same distance, and on no segment but  *)
(* the last being touched: nothing is assumed of the numbers.  That the cuts  *)
(* fit and the arcs keep the tolerance and the acceleration does: it is what  *)
(* blendComputeParameters computes, carried along the queue.                  *)
EXTENDS BlendPlan, WellFoundedInduction, TLAPS

------------------------------------------------------------------------------
(* Induction.                                                                 *)

(* A set of naturals that is not empty has a least element.                   *)
LEMMA HasLeast ==
  ASSUME NEW T, T \subseteq Nat, T # {}
  PROVE  \E x \in T : \A y \in T : x <= y
<1>1. PICK R : R = OpToRel(<, Nat)  OBVIOUS
<1>2. IsWellFoundedOn(R, Nat)  BY <1>1, NatLessThanWellFounded
<1>3. \E x \in T : \A y \in T : ~ (<<y, x>> \in R)  BY <1>2, WFMin
<1>4. \A x \in Nat, y \in Nat : y < x => <<y, x>> \in R  BY <1>1 DEF OpToRel
<1>5. PICK x \in T : \A y \in T : ~ (<<y, x>> \in R)  BY <1>3
<1>6. ASSUME NEW y \in T PROVE x <= y
  <2>1. x \in Nat /\ y \in Nat /\ ~(y < x)  BY <1>4, <1>5, <1>6
  <2> QED  BY <2>1
<1> QED  BY <1>6

(* A bounded set of naturals that is not empty has a greatest element.        *)
LEMMA HasGreatest ==
  ASSUME NEW n \in Nat, NEW T, T \subseteq 0 .. n, T # {}
  PROVE  \E x \in T : \A y \in T : x >= y
<1>1. PICK U : U = {i \in 0 .. n : n - i \in T}  OBVIOUS
<1>2. U \subseteq Nat /\ U # {}
  <2>1. PICK x : x \in T /\ x \in 0 .. n  OBVIOUS
  <2>2. n - x \in 0 .. n /\ n - (n - x) = x  BY <2>1
  <2>3. n - x \in U  BY <1>1, <2>1, <2>2
  <2> QED  BY <1>1, <2>3
<1>3. PICK i \in U : \A j \in U : i <= j  BY <1>2, HasLeast
<1>4. n - i \in T /\ i \in 0 .. n  BY <1>1
<1>5. ASSUME NEW y \in T PROVE n - i >= y
  <2>1. y \in 0 .. n /\ n - y \in 0 .. n /\ n - (n - y) = y  BY <1>5
  <2>2. n - y \in U  BY <1>1, <1>5, <2>1
  <2>3. i <= n - y  BY <1>3, <2>2
  <2> QED  BY <1>4, <2>1, <2>3
<1> QED  BY <1>4, <1>5

------------------------------------------------------------------------------
(* Whole numbers.                                                             *)

(* What a division leaves over is less than the divisor.                      *)
LEMMA DivBounds ==
  ASSUME NEW x \in Int, NEW d \in Nat \ {0}
  PROVE  x \div d \in Int /\ d * (x \div d) <= x /\ x < d * (x \div d) + d
  BY Z3

(* A quotient of naturals is one.                                             *)
LEMMA DivIsNat ==
  ASSUME NEW x \in Nat, NEW d \in Nat \ {0}
  PROVE  x \div d \in Nat
  BY Z3

(* Products keep an order.                                                    *)
LEMMA MulMonotone ==
  ASSUME NEW a \in Nat, NEW b \in Int, NEW c \in Int, b <= c
  PROVE  a * b \in Int /\ a * c \in Int /\ a * b <= a * c
  BY Z3

(* A multiple of d below the next multiple of d.                              *)
LEMMA MulCancel ==
  ASSUME NEW d \in Nat \ {0}, NEW x \in Int, NEW y \in Int, d * x < d * y + d
  PROVE  x <= y
  BY Z3

SegmentFields == {"id", "kind", "convex", "nominal", "target", "cutStart", "cutEnd", "tolerance", "term",
                  "canon", "blend_prev", "finalized", "progress", "R", "v", "corner"}

(* t is s but for its end condition and its progress.                         *)
Same(s, t) ==
  /\ DOMAIN s = SegmentFields /\ DOMAIN t = SegmentFields
  /\ t.id = s.id /\ t.kind = s.kind /\ t.finalized = s.finalized
  /\ t.cutStart = s.cutStart /\ t.cutEnd = s.cutEnd
  /\ t.nominal = s.nominal /\ t.target = s.target /\ t.tolerance = s.tolerance
  /\ t.R = s.R /\ t.v = s.v /\ t.corner = s.corner

(* A programmed segment that its cuts leave room in: each end takes at most   *)
(* half of it, the target is what is left, and only a segment cut at both     *)
(* ends may have been run further than that.                                  *)
Sized(s) ==
  /\ s.nominal \in Nat /\ s.tolerance \in Nat /\ s.progress \in Nat
  /\ s.cutStart \in Nat /\ 2 * s.cutStart <= s.nominal
  /\ s.cutEnd \in Nat /\ 2 * s.cutEnd <= s.nominal
  /\ s.target = s.nominal - s.cutStart - s.cutEnd
  /\ s.progress <= s.target \/ (s.cutStart > 0 /\ s.cutEnd > 0)

SegmentFits(s) ==
  IF s.kind = "arc" THEN s.v * s.v <= NormalAcc * s.R ELSE Sized(s)

(* The tolerance of a segment, and an arc that keeps it.                      *)
Limit(s) == IF s.tolerance = 0 THEN s.nominal \div 4 ELSE s.tolerance
WithinTolerance(a, s) == a.R * (5 - Sine(a.corner)) <= Limit(s) * Sine(a.corner)

Neighbours(s, next) ==
  /\ s.kind = "arc" => WithinTolerance(s, next)
  /\ next.kind = "arc" => WithinTolerance(next, s)

Measured(q) == \A i \in 1 .. Len(q) : SegmentFits(q[i])
Tolerant(q) == \A i \in 1 .. Len(q) : i < Len(q) => Neighbours(q[i], q[i + 1])

(* What CutsFit and ArcAllowed rest on, beside the shape of the queue.        *)
Fits(q) == Measured(q) /\ Tolerant(q)

(* A pair as tpAddMove makes it, and one whose blend tpHandleBlendArc may     *)
(* still make.                                                                *)
Prepared(pair) ==
  /\ Sized(pair.prev) /\ pair.prev.cutEnd = 0 /\ pair.prev.kind # "arc"
  /\ Sized(pair.tc) /\ pair.tc.cutStart = 0 /\ pair.tc.cutEnd = 0 /\ pair.tc.progress = 0
  /\ pair.tc.kind # "arc"

Early(pair) == ~(2 * pair.prev.progress > pair.prev.target)

IsPair(pair) == DOMAIN pair = {"prev", "tc", "arc"}

(* r is what became of a pair: nothing that matters here ...                  *)
Untouched(pair, r) ==
  /\ IsPair(r) /\ r.arc = <<>> /\ Same(pair.prev, r.prev) /\ Same(pair.tc, r.tc)
  /\ r.prev.progress = pair.prev.progress /\ r.tc.progress = pair.tc.progress

(* ... or a blend with an arc that meets both, and keeps what it should.      *)
ArcFits(pair, r, a) ==
  /\ SegmentFits(a) /\ Sized(r.prev) /\ Sized(r.tc)
  /\ WithinTolerance(a, r.prev) /\ WithinTolerance(a, r.tc)

Blended(pair, r) ==
  /\ IsPair(r)
  /\ DOMAIN r.prev = SegmentFields /\ DOMAIN r.tc = SegmentFields
  /\ r.prev.id = pair.prev.id /\ r.prev.kind = pair.prev.kind /\ r.prev.cutStart = pair.prev.cutStart
  /\ r.tc.id = pair.tc.id /\ r.tc.kind = pair.tc.kind /\ r.tc.cutEnd = pair.tc.cutEnd
  /\ r.tc.finalized = pair.tc.finalized
  /\ \E a : /\ r.arc = <<a>> /\ DOMAIN a = SegmentFields /\ a.kind = "arc" /\ a.finalized = TRUE
            /\ r.prev.cutEnd = a.cutStart /\ r.tc.cutStart = a.cutStart
            /\ Prepared(pair) /\ Early(pair) => ArcFits(pair, r, a)
  /\ r.prev.nominal = pair.prev.nominal /\ r.prev.tolerance = pair.prev.tolerance

(* A segment and the one after it meet: what Joined says of them.             *)
Meets(s, next) ==
  IF s.kind = "arc" THEN next.cutStart = s.cutStart
  ELSE IF next.kind = "arc" THEN s.cutEnd = next.cutStart
  ELSE s.cutEnd = 0 /\ next.cutStart = 0

(* What holds of the queue q when id is the next one to be given: beside what *)
(* PathConnected says, that the last segment is programmed and whole at its   *)
(* end, and that the ids given are below id.                                  *)
IsQueue(q) == \E S : q \in Seq(S)

Formed(q) ==
  \A i \in 1 .. Len(q) : /\ DOMAIN q[i] = SegmentFields
                         /\ i < Len(q) => q[i].finalized = TRUE
                         /\ i = Len(q) => q[i].finalized = FALSE

Connected(q) == \A i \in 1 .. Len(q) : i < Len(q) => Meets(q[i], q[i + 1])

Below(q, id) == \A i \in 1 .. Len(q) : q[i].kind # "arc" => q[i].id \in Nat /\ q[i].id < id

Ordered(q) ==
  \A i, j \in 1 .. Len(q) : q[i].kind # "arc" /\ q[j].kind # "arc" /\ i < j => q[i].id < q[j].id

OpenEnd(q) == Len(q) > 0 => q[Len(q)].kind # "arc" /\ q[Len(q)].cutEnd = 0

Sound(q, id) ==
  id \in Nat /\ IsQueue(q) /\ Formed(q) /\ Connected(q) /\ Below(q, id) /\ Ordered(q) /\ OpenEnd(q)

------------------------------------------------------------------------------
(* The parameters of a blend.                                                 *)

(* The whole part of a square root.                                           *)
LEMMA RootBelow ==
  ASSUME NEW n \in Nat
  PROVE  Root(n) \in Nat /\ Root(n) * Root(n) <= n
<1>1. PICK T : T = {k \in 0 .. n : k * k <= n}
  OBVIOUS
<1>2. T \subseteq 0 .. n /\ 0 \in T
  BY <1>1
<1>3. \E x \in T : \A y \in T : x >= y
  BY <1>2, HasGreatest
<1>4. Max(T) \in T
  BY <1>3 DEF Max
<1>5. QED
  BY <1>1, <1>2, <1>4 DEF Root

(* A quotient rounded up.                                                     *)
LEMMA CeilCovers ==
  ASSUME NEW x \in Nat, NEW d \in Nat \ {0}
  PROVE  /\ Ceil(x, d) \in Nat /\ x <= d * Ceil(x, d)
         /\ \A y \in Nat : x <= d * y => Ceil(x, d) <= y
         /\ x = 0 => Ceil(x, d) = 0
<1>1. PICK c : c = Ceil(x, d)
  OBVIOUS
<1>2. x + d - 1 \in Nat /\ c = (x + d - 1) \div d
  BY <1>1 DEF Ceil
<1>3. c \in Nat /\ d * c <= x + d - 1 /\ x + d - 1 < d * c + d
  BY <1>2, DivBounds, DivIsNat
<1>4. x <= d * c
  BY <1>3
<1>5. ASSUME NEW y \in Nat, x <= d * y PROVE c <= y
  <2>1. d * c < d * y + d
    BY <1>3, <1>5
  <2>2. QED
    BY <1>3, <2>1, MulCancel
<1>6. ASSUME x = 0 PROVE c = 0
  <2>1. x <= d * 0 /\ 0 \in Nat
    BY <1>6
  <2>2. QED
    BY <1>3, <1>5, <2>1
<1>7. QED
  BY <1>1, <1>3, <1>4, <1>5, <1>6

(* The share of the acceleration towards the center is not nothing.           *)
LEMMA NormalAccIsPositive == NormalAcc \in Nat \ {0} /\ AccMax \in Nat \ {0}
<1>1. AccMax \in Nat /\ AccMax >= 2
  BY BlendAssumption
<1>2. AccMax * 866 \in Nat /\ AccMax * 866 >= 1000
  BY <1>1
<1>3. NormalAcc \in Nat /\ AccMax * 866 < 1000 * NormalAcc + 1000
  BY <1>2, DivBounds, DivIsNat DEF NormalAcc
<1>4. QED
  BY <1>1, <1>2, <1>3

(* What blendComputeParameters promises: the arc keeps the tolerance, the     *)
(* acceleration and the lengths it was given, and none is made to stand still.*)
LEMMA ParametersAllowed ==
  ASSUME NEW tolerance \in Nat, NEW init, init.L1 \in Nat, init.L2 \in Nat, NEW goal \in Nat
  PROVE  LET param == blendComputeParameters(tolerance, init, goal)
         IN  /\ param.R \in Nat /\ param.v \in Nat /\ param.d \in Nat
             /\ param.v * param.v <= NormalAcc * param.R
             /\ param.R * (5 - Sine(init.corner)) <= tolerance * Sine(init.corner)
             /\ param.d <= init.L1 /\ param.d <= init.L2
             /\ goal = 0 => param.R = 0
<1> DEFINE corner == init.corner
           d_tol == (Cosine(corner) * tolerance) \div (5 - Sine(corner))
           d_geom == Least(Least(init.L1, init.L2), d_tol)
           R_geom == (Sine(corner) * d_geom) \div Cosine(corner)
           root == Root(NormalAcc * R_geom)
           v_plan == Least(root, goal)
           v_triangle == Root(AccMax * d_geom)
           s_blend == (2 * Least(v_triangle, v_plan) * v_plan) \div AccMax
           R_blend == Least((100 * s_blend) \div Phi(corner), R_geom)
           need == Ceil(v_plan * v_plan, NormalAcc)
           R_plan == Most(need, R_blend)
           d == (R_plan * Cosine(corner)) \div Sine(corner)
<1>1. PICK S, C, P, A, N : S = Sine(corner) /\ C = Cosine(corner) /\ P = Phi(corner) /\ A = AccMax /\ N = NormalAcc
  OBVIOUS
<1>2. /\ S \in {3, 4} /\ C \in {3, 4} /\ P \in Nat \ {0}
      /\ A \in Nat \ {0} /\ N \in Nat \ {0}
  BY <1>1, NormalAccIsPositive DEF Sine, Cosine, Phi
<1>3. d_tol \in Nat /\ (5 - S) * d_tol <= C * tolerance
  <2>1. C * tolerance \in Nat /\ 5 - S \in Nat \ {0}
    BY <1>2
  <2>2. d_tol = (C * tolerance) \div (5 - S)
    BY <1>1
  <2>3. QED
    BY <2>1, <2>2, DivBounds, DivIsNat
<1>4. d_geom \in Nat /\ d_geom <= init.L1 /\ d_geom <= init.L2 /\ d_geom <= d_tol
  BY <1>3 DEF Least
<1>5. R_geom \in Nat /\ C * R_geom <= S * d_geom
  <2>1. S * d_geom \in Nat /\ C \in Nat \ {0}
    BY <1>2, <1>4
  <2>2. R_geom = (S * d_geom) \div C
    BY <1>1
  <2>3. QED
    BY <2>1, <2>2, DivBounds, DivIsNat
<1> HIDE DEF d_tol, d_geom, R_geom
<1>6. N * R_geom \in Nat /\ A * d_geom \in Nat
  BY <1>2, <1>4, <1>5
<1>7. root \in Nat /\ root * root <= N * R_geom /\ v_triangle \in Nat
  BY <1>1, <1>6, RootBelow
<1> HIDE DEF root, v_triangle
<1>8. /\ v_plan \in Nat /\ v_plan <= root /\ (goal = 0 => v_plan = 0)
      /\ v_plan * v_plan \in Nat /\ v_plan * v_plan <= N * R_geom
  <2>1. v_plan \in Nat /\ v_plan <= root /\ (goal = 0 => v_plan = 0)
    BY <1>7 DEF Least
  <2>2. v_plan * v_plan <= v_plan * root /\ root * v_plan <= root * root
    BY <1>7, <2>1, MulMonotone
  <2>3. QED
    BY <1>6, <1>7, <2>1, <2>2
<1>9. R_blend \in Nat /\ R_blend <= R_geom /\ (v_plan = 0 => R_blend = 0)
  <2>1. PICK w : w = Least(v_triangle, v_plan) /\ w \in Nat
    BY <1>7, <1>8 DEF Least
  <2>2. s_blend = (2 * w * v_plan) \div A
    BY <1>1, <2>1
  <2> HIDE DEF s_blend, v_plan
  <2>3. 2 * w * v_plan \in Nat /\ (v_plan = 0 => 2 * w * v_plan = 0)
    BY <1>8, <2>1
  <2>4. s_blend \in Nat /\ A * s_blend <= 2 * w * v_plan
    BY <1>2, <2>2, <2>3, DivBounds, DivIsNat
  <2>5. v_plan = 0 => s_blend = 0
    BY <1>2, <2>3, <2>4
  <2>6. PICK b : b = (100 * s_blend) \div P /\ b \in Nat /\ P * b <= 100 * s_blend
    <3>1. 100 * s_blend \in Nat
      BY <2>4
    <3>2. QED
      BY <1>2, <3>1, DivBounds, DivIsNat
  <2>7. v_plan = 0 => b = 0
    BY <1>2, <2>5, <2>6
  <2>8. R_blend = Least(b, R_geom)
    BY <1>1, <2>6
  <2>9. QED
    BY <1>5, <2>6, <2>7, <2>8 DEF Least
<1> HIDE DEF R_blend, v_plan
<1>10. need \in Nat /\ v_plan * v_plan <= N * need /\ need <= R_geom /\ (v_plan = 0 => need = 0)
  <2>1. need = Ceil(v_plan * v_plan, N)
    BY <1>1
  <2>2. v_plan = 0 => v_plan * v_plan = 0
    BY <1>8
  <2>3. QED
    BY <1>2, <1>5, <1>8, <2>1, <2>2, CeilCovers
<1> HIDE DEF need
<1>11. R_plan \in Nat /\ need <= R_plan /\ R_plan <= R_geom /\ (goal = 0 => R_plan = 0)
  BY <1>5, <1>8, <1>9, <1>10 DEF Most
<1> HIDE DEF R_plan
<1>12. v_plan * v_plan <= N * R_plan
  <2>1. N * need <= N * R_plan
    BY <1>2, <1>10, <1>11, MulMonotone
  <2>2. N * need \in Nat /\ N * R_plan \in Nat
    BY <1>2, <1>10, <1>11
  <2>3. QED
    BY <1>8, <1>10, <2>1, <2>2
<1>13. R_plan * (5 - S) <= tolerance * S
  BY <1>2, <1>3, <1>4, <1>5, <1>11
<1>14. d \in Nat /\ d <= d_geom
  <2>1. R_plan * C \in Nat /\ S \in Nat \ {0} /\ R_plan * C <= S * d_geom
    BY <1>2, <1>4, <1>5, <1>11
  <2>2. d = (R_plan * C) \div S
    BY <1>1
  <2>3. d \in Nat /\ S * d <= R_plan * C
    BY <2>1, <2>2, DivBounds, DivIsNat
  <2>4. QED
    BY <1>2, <1>4, <2>1, <2>3
<1> HIDE DEF d
<1>15. blendComputeParameters(tolerance, init, goal) = [R |-> R_plan, v |-> v_plan, d |-> d]
  BY DEF blendComputeParameters, R_plan, v_plan, d, d_geom, R_geom, d_tol, root, v_triangle, R_blend, need
<1>16. PICK p : p = blendComputeParameters(tolerance, init, goal)
  OBVIOUS
<1>17. p.R = R_plan /\ p.v = v_plan /\ p.d = d
  BY <1>15, <1>16
<1>18. d <= init.L1 /\ d <= init.L2
  BY <1>4, <1>14
<1>19. /\ p.R \in Nat /\ p.v \in Nat /\ p.d \in Nat
       /\ p.v * p.v <= NormalAcc * p.R
       /\ p.R * (5 - Sine(init.corner)) <= tolerance * Sine(init.corner)
       /\ p.d <= init.L1 /\ p.d <= init.L2
       /\ (goal = 0 => p.R = 0)
  BY <1>1, <1>8, <1>11, <1>12, <1>13, <1>14, <1>17, <1>18
<1>20. QED
  BY <1>16, <1>19, Zenon
------------------------------------------------------------------------------
(* What the calls of tpHandleBlendArc do to a pair.                           *)
LEMMA EndsTouchNothing ==
  ASSUME NEW pair, NEW r, NEW term, Untouched(pair, r)
  PROVE  Untouched(pair, Ends(r, term))
  BY DEF Untouched, Ends, IsPair, Same, SegmentFields

(* Both segments are cut by d.                                                *)
LEMMA ConnectTouches ==
  ASSUME NEW r, NEW d, IsPair(r), DOMAIN r.prev = SegmentFields, DOMAIN r.tc = SegmentFields
  PROVE  LET c == tcConnectBlendArc(r, d)
         IN  /\ IsPair(c) /\ DOMAIN c.prev = SegmentFields /\ DOMAIN c.tc = SegmentFields
             /\ c.prev.id = r.prev.id /\ c.prev.kind = r.prev.kind /\ c.prev.cutStart = r.prev.cutStart
             /\ c.prev.cutEnd = d
             /\ c.tc.id = r.tc.id /\ c.tc.kind = r.tc.kind /\ c.tc.cutEnd = r.tc.cutEnd
             /\ c.tc.finalized = r.tc.finalized /\ c.tc.cutStart = d
             /\ c.prev.nominal = r.prev.nominal /\ c.prev.tolerance = r.prev.tolerance
             /\ c.prev.progress = r.prev.progress
             /\ c.prev.target = Abs(r.prev.nominal - r.prev.cutStart - d)
             /\ c.tc.nominal = r.tc.nominal /\ c.tc.tolerance = r.tc.tolerance
             /\ c.tc.progress = r.tc.progress
             /\ c.tc.target = Abs(r.tc.nominal - d - r.tc.cutEnd)
<1> DEFINE p == Cut([r.prev EXCEPT !.cutEnd = d])
           t == Cut([r.tc EXCEPT !.cutStart = d])
           b == [r EXCEPT !.prev = p, !.tc = t]
<1>1. tcConnectBlendArc(r, d) = Ends(b, "tangent")
  BY DEF tcConnectBlendArc
<1>2. /\ DOMAIN p = SegmentFields /\ p.cutEnd = d
      /\ p.id = r.prev.id /\ p.kind = r.prev.kind /\ p.cutStart = r.prev.cutStart
      /\ p.nominal = r.prev.nominal /\ p.tolerance = r.prev.tolerance /\ p.progress = r.prev.progress
      /\ p.target = Abs(r.prev.nominal - r.prev.cutStart - d)
  <2>1. PICK s, x : s = r.prev /\ x = p
    OBVIOUS
  <2>2. DOMAIN s = SegmentFields /\ x = Cut([s EXCEPT !.cutEnd = d])
    BY <2>1
  <2>3. /\ DOMAIN x = SegmentFields /\ x.cutEnd = d
        /\ x.id = s.id /\ x.kind = s.kind /\ x.cutStart = s.cutStart
        /\ x.nominal = s.nominal /\ x.tolerance = s.tolerance /\ x.progress = s.progress
        /\ x.target = Abs(s.nominal - s.cutStart - d)
    BY <2>2 DEF Cut, SegmentFields
  <2>4. QED
    BY <2>1, <2>3, Zenon
<1>3. /\ DOMAIN t = SegmentFields /\ t.cutStart = d
      /\ t.id = r.tc.id /\ t.kind = r.tc.kind /\ t.cutEnd = r.tc.cutEnd /\ t.finalized = r.tc.finalized
      /\ t.nominal = r.tc.nominal /\ t.tolerance = r.tc.tolerance /\ t.progress = r.tc.progress
      /\ t.target = Abs(r.tc.nominal - d - r.tc.cutEnd)
  <2>1. PICK s, x : s = r.tc /\ x = t
    OBVIOUS
  <2>2. DOMAIN s = SegmentFields /\ x = Cut([s EXCEPT !.cutStart = d])
    BY <2>1
  <2>3. /\ DOMAIN x = SegmentFields /\ x.cutStart = d
        /\ x.id = s.id /\ x.kind = s.kind /\ x.cutEnd = s.cutEnd /\ x.finalized = s.finalized
        /\ x.nominal = s.nominal /\ x.tolerance = s.tolerance /\ x.progress = s.progress
        /\ x.target = Abs(s.nominal - d - s.cutEnd)
    BY <2>2 DEF Cut, SegmentFields
  <2>4. QED
    BY <2>1, <2>3, Zenon
<1> HIDE DEF p, t
<1>4. IsPair(b) /\ b.prev = p /\ b.tc = t
  BY DEF IsPair
<1> HIDE DEF b
<1>5. LET c == Ends(b, "tangent")
      IN  /\ IsPair(c) /\ DOMAIN c.prev = SegmentFields /\ DOMAIN c.tc = SegmentFields
          /\ c.prev.id = p.id /\ c.prev.kind = p.kind /\ c.prev.cutStart = p.cutStart
          /\ c.prev.cutEnd = p.cutEnd
          /\ c.tc.id = t.id /\ c.tc.kind = t.kind /\ c.tc.cutEnd = t.cutEnd
          /\ c.tc.finalized = t.finalized /\ c.tc.cutStart = t.cutStart
          /\ c.prev.nominal = p.nominal /\ c.prev.tolerance = p.tolerance
          /\ c.prev.progress = p.progress /\ c.prev.target = p.target
          /\ c.tc.nominal = t.nominal /\ c.tc.tolerance = t.tolerance
          /\ c.tc.progress = t.progress /\ c.tc.target = t.target
  BY <1>2, <1>3, <1>4 DEF Ends, IsPair, SegmentFields
<1>6. QED
  BY <1>1, <1>2, <1>3, <1>5

(* The lengths a blend may use, half of each where both segments are lines:   *)
(* at a corner with a circle blendParamKinematics leaves no arc.              *)
InitFits(r, init) ==
  /\ init.L1 \in Nat /\ init.L2 \in Nat
  /\ {r.prev.kind, r.tc.kind} = {"line"} => 2 * init.L1 <= r.prev.nominal /\ 2 * init.L2 <= r.tc.nominal

(* The tolerance of a blend is at most that of either segment.                *)
LEMMA ToleranceOfBoth ==
  ASSUME NEW s, NEW t, s.nominal \in Nat, t.nominal \in Nat, s.tolerance \in Nat, t.tolerance \in Nat
  PROVE  /\ Limit(s) \in Nat /\ Limit(t) \in Nat
         /\ tcFindBlendTolerance(s, t) \in Nat
         /\ tcFindBlendTolerance(s, t) <= Limit(s) /\ tcFindBlendTolerance(s, t) <= Limit(t)
<1>1. s.nominal \div 4 \in Nat /\ t.nominal \div 4 \in Nat
  BY DivIsNat
<1>2. Limit(s) \in Nat /\ Limit(t) \in Nat
  BY <1>1 DEF Limit
<1>3. tcFindBlendTolerance(s, t) = Least(Least(Limit(s), Limit(t)), Least(s.nominal \div 4, t.nominal \div 4))
  BY DEF tcFindBlendTolerance, Limit
<1>4. QED
  BY <1>1, <1>2, <1>3 DEF Least

(* Two segments with room for a cut of d keep it when they are cut.           *)
LEMMA CutLeavesRoom ==
  ASSUME NEW pair, NEW c, NEW d \in Nat, Prepared(pair), Early(pair),
         2 * d <= pair.prev.nominal, 2 * d <= pair.tc.nominal,
         c.prev.cutStart = pair.prev.cutStart, c.prev.cutEnd = d,
         c.prev.nominal = pair.prev.nominal, c.prev.tolerance = pair.prev.tolerance,
         c.prev.progress = pair.prev.progress,
         c.prev.target = Abs(pair.prev.nominal - pair.prev.cutStart - d),
         c.tc.cutStart = d, c.tc.cutEnd = pair.tc.cutEnd,
         c.tc.nominal = pair.tc.nominal, c.tc.tolerance = pair.tc.tolerance,
         c.tc.progress = pair.tc.progress,
         c.tc.target = Abs(pair.tc.nominal - d - pair.tc.cutEnd)
  PROVE  Sized(c.prev) /\ Sized(c.tc)
<1>1. PICK n, b, e, w : n = pair.prev.nominal /\ b = pair.prev.cutStart /\ e = pair.prev.progress /\ w = pair.tc.nominal
  OBVIOUS
<1>2. /\ n \in Nat /\ b \in Nat /\ e \in Nat /\ w \in Nat /\ 2 * b <= n
      /\ pair.prev.tolerance \in Nat /\ pair.tc.tolerance \in Nat
      /\ pair.tc.cutEnd = 0 /\ pair.tc.progress = 0
      /\ e <= n - b /\ 2 * e <= n - b
  BY <1>1 DEF Prepared, Sized, Early
<1>3. Abs(n - b - d) = n - b - d /\ Abs(w - d - 0) = w - d - 0
  BY <1>1, <1>2 DEF Abs
<1>4. Sized(c.prev)
  <2>1. e <= n - b - d \/ (b > 0 /\ d > 0)
    BY <1>1, <1>2
  <2>2. c.prev.target = n - b - d
    BY <1>1, <1>3
  <2>3. QED
    BY <1>1, <1>2, <2>1, <2>2 DEF Sized
<1>5. Sized(c.tc)
  <2>1. c.tc.target = w - d - 0
    BY <1>1, <1>2, <1>3
  <2>2. 0 <= w - d - 0
    BY <1>1, <1>2
  <2>3. QED
    BY <1>1, <1>2, <2>1, <2>2 DEF Sized
<1>6. QED
  BY <1>4, <1>5

(* A blend cuts both segments and makes the arc by the same distance.         *)
LEMMA CreateTouches ==
  ASSUME NEW pair, NEW r, NEW init, NEW circles, NEW goal \in Nat, NEW allowed, Untouched(pair, r),
         Prepared(pair) => InitFits(r, init)
  PROVE  \/ CreateBlend(r, init, circles, goal, allowed) = r
         \/ Blended(pair, CreateBlend(r, init, circles, goal, allowed))
<1> DEFINE param == blendComputeParameters(tcFindBlendTolerance(r.prev, r.tc), init,
                                           blendParamKinematics(r.prev, r.tc, goal))
           c == tcConnectBlendArc(r, param.d)
           a == BlendArc(r.prev, init.corner, param)
           made == [c EXCEPT !.arc = <<a>>]
<1>1. \/ CreateBlend(r, init, circles, goal, allowed) = r
      \/ param.R >= 1 /\ CreateBlend(r, init, circles, goal, allowed) = made
  BY DEF CreateBlend
<1>2. /\ IsPair(r) /\ DOMAIN r.prev = SegmentFields /\ DOMAIN r.tc = SegmentFields
      /\ Same(pair.prev, r.prev) /\ Same(pair.tc, r.tc)
      /\ r.prev.progress = pair.prev.progress /\ r.tc.progress = pair.tc.progress
  BY DEF Untouched, Same
<1>3. /\ IsPair(c) /\ DOMAIN c.prev = SegmentFields /\ DOMAIN c.tc = SegmentFields
      /\ c.prev.id = r.prev.id /\ c.prev.kind = r.prev.kind /\ c.prev.cutStart = r.prev.cutStart
      /\ c.prev.cutEnd = param.d
      /\ c.tc.id = r.tc.id /\ c.tc.kind = r.tc.kind /\ c.tc.cutEnd = r.tc.cutEnd
      /\ c.tc.finalized = r.tc.finalized /\ c.tc.cutStart = param.d
      /\ c.prev.nominal = r.prev.nominal /\ c.prev.tolerance = r.prev.tolerance
      /\ c.prev.progress = r.prev.progress
      /\ c.prev.target = Abs(r.prev.nominal - r.prev.cutStart - param.d)
      /\ c.tc.nominal = r.tc.nominal /\ c.tc.tolerance = r.tc.tolerance
      /\ c.tc.progress = r.tc.progress
      /\ c.tc.target = Abs(r.tc.nominal - param.d - r.tc.cutEnd)
  <2> HIDE DEF param
  <2>1. QED
    BY <1>2, ConnectTouches
<1>4. /\ DOMAIN a = SegmentFields /\ a.kind = "arc" /\ a.finalized = TRUE /\ a.cutStart = param.d
      /\ a.R = param.R /\ a.v = param.v /\ a.corner = init.corner
  <2> HIDE DEF param
  <2>1. PICK s, e, x : s = r.prev /\ e = init.corner /\ x = a
    OBVIOUS
  <2>2. DOMAIN s = SegmentFields /\ x = BlendArc(s, e, param)
    BY <1>2, <2>1
  <2>3. /\ DOMAIN x = SegmentFields /\ x.kind = "arc" /\ x.finalized = TRUE /\ x.cutStart = param.d
        /\ x.R = param.R /\ x.v = param.v /\ x.corner = e
    BY <2>2 DEF BlendArc, SegmentFields
  <2>4. QED
    BY <2>1, <2>3, Zenon
<1> HIDE DEF c, a
<1>5. IsPair(made) /\ made.prev = c.prev /\ made.tc = c.tc /\ made.arc = <<a>>
  <2> HIDE DEF param
  <2>1. QED
    BY <1>3 DEF IsPair
<1> HIDE DEF made
<1>6. ASSUME Prepared(pair), Early(pair), param.R >= 1
      PROVE  ArcFits(pair, made, a)
  <2>1. PICK tol, g : tol = tcFindBlendTolerance(r.prev, r.tc) /\ g = blendParamKinematics(r.prev, r.tc, goal)
    OBVIOUS
  <2>2. param = blendComputeParameters(tol, init, g)
    BY <2>1
  <2> HIDE DEF param
  <2>3. /\ tol \in Nat /\ tol <= Limit(r.prev) /\ tol <= Limit(r.tc)
        /\ Limit(r.prev) \in Nat /\ Limit(r.tc) \in Nat
    BY <1>2, <1>6, <2>1, ToleranceOfBoth DEF Prepared, Sized, Same
  <2>4. g \in Nat /\ ({r.prev.kind, r.tc.kind} # {"line"} => g = 0)
    BY <2>1 DEF blendParamKinematics
  <2>5. init.L1 \in Nat /\ init.L2 \in Nat
    BY <1>6 DEF InitFits
  <2>6. /\ param.R \in Nat /\ param.d \in Nat
        /\ param.v * param.v <= NormalAcc * param.R
        /\ param.R * (5 - Sine(init.corner)) <= tol * Sine(init.corner)
        /\ param.d <= init.L1 /\ param.d <= init.L2
        /\ (g = 0 => param.R = 0)
    <3>1. PICK q : q = blendComputeParameters(tol, init, g)
      OBVIOUS
    <3>2. /\ q.R \in Nat /\ q.d \in Nat
          /\ q.v * q.v <= NormalAcc * q.R
          /\ q.R * (5 - Sine(init.corner)) <= tol * Sine(init.corner)
          /\ q.d <= init.L1 /\ q.d <= init.L2
          /\ (g = 0 => q.R = 0)
      BY <2>3, <2>4, <2>5, <3>1, ParametersAllowed
    <3>3. QED
      BY <2>2, <3>1, <3>2, Zenon
  <2>7. {r.prev.kind, r.tc.kind} = {"line"}
    <3>1. param.R # 0
      BY <1>6, <2>6
    <3>2. QED
      BY <2>4, <2>6, <3>1, Zenon
  <2>8. 2 * param.d <= r.prev.nominal /\ 2 * param.d <= r.tc.nominal
    <3>1. 2 * init.L1 <= r.prev.nominal /\ 2 * init.L2 <= r.tc.nominal
      BY <1>6, <2>7 DEF InitFits
    <3>2. r.prev.nominal \in Nat /\ r.tc.nominal \in Nat
      BY <1>2, <1>6 DEF Prepared, Sized, Same
    <3>3. QED
      BY <2>5, <2>6, <3>1, <3>2
  <2>9. Sized(c.prev) /\ Sized(c.tc)
    BY <1>2, <1>3, <1>6, <2>6, <2>8, CutLeavesRoom DEF Same
  <2>10. SegmentFits(a)
    BY <1>4, <2>6 DEF SegmentFits
  <2>11. ASSUME NEW s, tol <= Limit(s), Limit(s) \in Nat PROVE WithinTolerance(a, s)
    <3>1. Sine(init.corner) \in {3, 4}
      BY DEF Sine
    <3>2. param.R * (5 - Sine(init.corner)) <= Limit(s) * Sine(init.corner)
      BY <2>3, <2>6, <2>11, <3>1
    <3>3. QED
      BY <1>4, <3>2 DEF WithinTolerance
  <2>12. WithinTolerance(a, r.prev) /\ WithinTolerance(a, r.tc)
    BY <2>3, <2>11
  <2>13. WithinTolerance(a, c.prev) /\ WithinTolerance(a, c.tc)
    BY <1>3, <2>12 DEF WithinTolerance, Limit
  <2>14. QED
    BY <1>5, <2>9, <2>10, <2>13 DEF ArcFits
<1>7. ASSUME param.R >= 1 PROVE Blended(pair, made)
  <2> HIDE DEF param
  <2>1. Prepared(pair) /\ Early(pair) => ArcFits(pair, made, a)
    BY <1>6, <1>7
  <2>2. QED
    BY <1>2, <1>3, <1>4, <1>5, <2>1 DEF Blended, Same
<1>8. QED
  BY <1>1, <1>7

(* What a blend may use of a circle is a length.                              *)
LEMMA OnCircleIsNat ==
  ASSUME NEW circle, NEW n \in Nat
  PROVE  OnCircle(circle, n) \in Nat
  BY DivIsNat DEF OnCircle

(* Of lines, the four kinds of blends take at most half of what was           *)
(* programmed.                                                                *)
LEMMA InitsFit ==
  ASSUME NEW pair, NEW r, Untouched(pair, r), Prepared(pair), NEW corner
  PROVE  /\ InitFits(r, blendInit3FromLineLine(r.prev, r.tc, corner))
         /\ InitFits(r, blendInit3FromLineArc(r.prev, r.tc, corner))
         /\ r.prev.kind = "circle" => InitFits(r, blendInit3FromArcLine(r.prev, r.tc, corner))
         /\ r.prev.kind = "circle" => InitFits(r, blendInit3FromArcArc(r.prev, r.tc, corner))
<1>1. PICK n, w, e, t : n = r.prev.nominal /\ w = r.tc.nominal /\ e = r.prev.target /\ t = r.tc.target
  OBVIOUS
<1>2. n \in Nat /\ w \in Nat /\ e \in Nat /\ t = w
  BY <1>1 DEF Untouched, Prepared, Sized, Same
<1>3. /\ n \div 2 \in Nat /\ 2 * (n \div 2) <= n /\ w \div 2 \in Nat /\ 2 * (w \div 2) <= w
      /\ w \div 3 \in Nat /\ 2 * (w \div 3) <= w
      /\ (2 * n) \div 3 \in Nat
  <2>1. 2 * n \in Nat /\ 3 * (w \div 3) <= w
    BY <1>2, DivBounds
  <2>2. QED
    BY <1>2, <2>1, DivBounds, DivIsNat
<1>4. OnLineEnd(r.prev) \in Nat /\ 2 * OnLineEnd(r.prev) <= n
  <2>1. OnLineEnd(r.prev) = Least(e, n \div 2)
    BY <1>1 DEF OnLineEnd
  <2>2. QED
    BY <1>2, <1>3, <2>1 DEF Least
<1>5. PICK x, y : x = OnCircle(r.tc, w \div 3) /\ y = OnCircle(r.prev, (2 * n) \div 3)
  OBVIOUS
<1>6. x \in Nat /\ y \in Nat /\ 2 * x <= w
  <2>1. x \in Nat /\ y \in Nat
    BY <1>3, <1>5, OnCircleIsNat
  <2>2. PICK z : z = w \div 3
    OBVIOUS
  <2>3. z \in Nat /\ z \div 4 \in Nat /\ 4 * (z \div 4) <= z /\ 2 * z <= w
    BY <1>3, <2>2, DivBounds, DivIsNat
  <2>4. x = z \/ x = z \div 4
    BY <1>5, <2>2 DEF OnCircle
  <2>5. QED
    BY <1>2, <2>1, <2>3, <2>4
<1>7. /\ blendInit3FromLineLine(r.prev, r.tc, corner) = [L1 |-> OnLineEnd(r.prev), L2 |-> w \div 2, corner |-> corner]
      /\ blendInit3FromLineArc(r.prev, r.tc, corner)
           = [L1 |-> OnLineEnd(r.prev), L2 |-> x, corner |-> Chord(r.tc, corner)]
      /\ blendInit3FromArcLine(r.prev, r.tc, corner)
           = [L1 |-> y, L2 |-> w \div 2, corner |-> Chord(r.prev, corner)]
      /\ blendInit3FromArcArc(r.prev, r.tc, corner)
           = [L1 |-> y, L2 |-> x, corner |-> Chord(r.prev, Chord(r.tc, corner))]
  BY <1>1, <1>2, <1>5
     DEF blendInit3FromLineLine, blendInit3FromLineArc, blendInit3FromArcLine, blendInit3FromArcArc
<1>8. ASSUME NEW a \in Nat, NEW b \in Nat, NEW k,
             r.prev.kind = "circle" \/ (2 * a <= n /\ 2 * b <= w)
      PROVE  InitFits(r, [L1 |-> a, L2 |-> b, corner |-> k])
  BY <1>1, <1>8 DEF InitFits
<1>9. InitFits(r, blendInit3FromLineLine(r.prev, r.tc, corner))
  BY <1>3, <1>4, <1>7, <1>8
<1>10. InitFits(r, blendInit3FromLineArc(r.prev, r.tc, corner))
  BY <1>4, <1>6, <1>7, <1>8
<1>11. ASSUME r.prev.kind = "circle"
       PROVE  /\ InitFits(r, blendInit3FromArcLine(r.prev, r.tc, corner))
              /\ InitFits(r, blendInit3FromArcArc(r.prev, r.tc, corner))
  BY <1>3, <1>6, <1>7, <1>8, <1>11
<1>12. QED
  BY <1>9, <1>10, <1>11

(* Whatever the kinds of the two segments are, and whether or not an arc is   *)
(* possible: and an arc is only made before half of the last is done.         *)
LEMMA HandleTouches ==
  ASSUME NEW pair, NEW corner, NEW goal \in Nat, NEW allowed, NEW other, Untouched(pair, pair)
  PROVE  LET r == tpHandleBlendArc(handleModeChange(pair), corner, goal, allowed, other)
         IN  Untouched(pair, r) \/ (Blended(pair, r) /\ Early(pair))
<1> DEFINE Good(r) == Untouched(pair, r) \/ Blended(pair, r)
<1>1. \A r, term : Untouched(pair, r) => Untouched(pair, Ends(r, term))
  BY EndsTouchNothing
<1>2. \A r : Untouched(pair, r) => Untouched(pair, ChooseWithoutArc(r, other))
  BY <1>1 DEF ChooseWithoutArc
<1>3. \A r, init, circles : Untouched(pair, r) /\ (Prepared(pair) => InitFits(r, init))
                              => Good(CreateBlend(r, init, circles, goal, allowed))
  BY CreateTouches
<1> HIDE DEF Good
<1>4. ASSUME NEW r, Untouched(pair, r)
      PROVE  Good(tpCreateBlendIfPossible(r, corner, goal, allowed, other))
  <2> DEFINE kinds == <<r.prev.kind, r.tc.kind>>
             made == CASE ~tpCheckBlendArcType(r.prev) -> r
                [] kinds = <<"line", "line">> -> tpCreateLineLineBlend(r, corner, goal, allowed)
                [] kinds = <<"line", "circle">> -> tpCreateLineArcBlend(r, corner, goal, allowed)
                [] kinds = <<"circle", "line">> -> tpCreateArcLineBlend(r, corner, goal, allowed)
                [] kinds = <<"circle", "circle">> -> tpCreateArcArcBlend(r, corner, goal, allowed)
                [] OTHER -> r
  <2>1. /\ Good(tpCreateLineLineBlend(r, corner, goal, allowed))
        /\ Good(tpCreateLineArcBlend(r, corner, goal, allowed))
        /\ r.prev.kind = "circle" => Good(tpCreateArcLineBlend(r, corner, goal, allowed))
        /\ r.prev.kind = "circle" => Good(tpCreateArcArcBlend(r, corner, goal, allowed))
    BY <1>3, <1>4, InitsFit
       DEF tpCreateLineLineBlend, tpCreateLineArcBlend, tpCreateArcLineBlend, tpCreateArcArcBlend
  <2>2. Good(r)
    BY <1>4 DEF Good
  <2>3. Good(made)
    BY <2>1, <2>2
  <2>4. tpCreateBlendIfPossible(r, corner, goal, allowed, other)
          = IF made.arc # <<>> THEN made ELSE ChooseWithoutArc(r, other)
    BY DEF tpCreateBlendIfPossible
  <2> HIDE DEF made
  <2>5. CASE Untouched(pair, made)
    BY <1>2, <1>4, <2>4, <2>5 DEF Untouched, Good
  <2>6. CASE Blended(pair, made)
    <3>1. PICK a : made.arc = <<a>>
      BY <2>6 DEF Blended
    <3>2. Len(<<a>>) = 1 /\ Len(<<>>) = 0
      OBVIOUS
    <3>3. made.arc # <<>>
      BY <3>1, <3>2
    <3>4. QED
      BY <2>3, <2>4, <3>3
  <2>7. QED
    BY <2>3, <2>5, <2>6 DEF Good
<1>5. \A r : Untouched(pair, r) => Good(RoundTheCorner(r, corner, goal, allowed, other))
  <2>1. \A r : Untouched(pair, r) => Good(r)
    BY DEF Good
  <2>2. QED
    BY <1>1, <1>4, <2>1 DEF RoundTheCorner
<1>6. PICK p, r : p = handleModeChange(pair) /\ r = tpHandleBlendArc(p, corner, goal, allowed, other)
  OBVIOUS
<1>7. Untouched(pair, p)
  BY <1>1, <1>6 DEF handleModeChange
<1>8. CASE 2 * p.prev.progress > p.prev.target
  BY <1>6, <1>7, <1>8 DEF tpHandleBlendArc
<1>9. CASE ~(2 * p.prev.progress > p.prev.target)
  <2>1. Early(pair)
    BY <1>7, <1>9 DEF Early, Untouched, Same
  <2>2. r = RoundTheCorner(p, corner, goal, allowed, other)
    BY <1>6, <1>9 DEF tpHandleBlendArc
  <2>3. Good(r)
    BY <1>5, <1>7, <2>2
  <2>4. QED
    BY <1>6, <2>1, <2>3, Zenon DEF Good
<1>10. QED
  BY <1>6, <1>8, <1>9, Zenon

------------------------------------------------------------------------------
(* Sequences.                                                                 *)
LEMMA SeqIsEmpty ==
  ASSUME NEW S, NEW s \in Seq(S)
  PROVE  Len(s) \in Nat /\ (s # <<>> => Len(s) > 0)
  OBVIOUS

(* All but the last.                                                          *)
LEMMA OneLess ==
  ASSUME NEW S, NEW s \in Seq(S), Len(s) > 0
  PROVE  /\ Front(s) \in Seq(S) /\ Len(Front(s)) = Len(s) - 1
         /\ \A i \in 1 .. Len(s) - 1 : Front(s)[i] = s[i]
<1>1. Len(s) \in Nat /\ \A i \in 1 .. Len(s) : s[i] \in S
  OBVIOUS
<1>2. Front(s) = [i \in 1 .. Len(s) - 1 |-> s[i]]
  BY <1>1 DEF Front
<1>3. QED
  BY <1>1, <1>2

(* The queue s with x behind it, and with x in the place of its last one.      *)
Behind(s, x) == s \o <<x>>
InPlace(s, x) == Front(s) \o <<x>>

(* One more at the end.                                                       *)
LEMMA OneBehind ==
  ASSUME NEW g, IsQueue(g), NEW x
  PROVE  /\ IsQueue(Behind(g, x)) /\ Len(Behind(g, x)) = Len(g) + 1 /\ Behind(g, x)[Len(g) + 1] = x
         /\ \A i \in 1 .. Len(g) : Behind(g, x)[i] = g[i]
<1>1. PICK T : g \in Seq(T)
  BY DEF IsQueue
<1>2. PICK U, h : U = T \cup {x} /\ h = Behind(g, x)
  OBVIOUS
<1>3. g \in Seq(U) /\ x \in U
  BY <1>1, <1>2
<1>4. /\ h \in Seq(U) /\ Len(h) = Len(g) + 1 /\ h[Len(g) + 1] = x
      /\ \A i \in 1 .. Len(g) : h[i] = g[i]
  BY <1>2, <1>3 DEF Behind
<1>5. IsQueue(h)
  BY <1>4 DEF IsQueue
<1>6. QED
  BY <1>2, <1>4, <1>5, Zenon

(* The length of a queue.                                                     *)
LEMMA LenIsNat ==
  ASSUME NEW s, IsQueue(s)
  PROVE  Len(s) \in Nat
  BY DEF IsQueue

(* Another in the place of the last.                                          *)
LEMMA LastReplaced ==
  ASSUME NEW s, IsQueue(s), Len(s) > 0, NEW p
  PROVE  /\ IsQueue(InPlace(s, p)) /\ Len(InPlace(s, p)) = Len(s) /\ InPlace(s, p)[Len(s)] = p
         /\ \A i \in 1 .. Len(s) - 1 : InPlace(s, p)[i] = s[i]
<1>1. PICK S : s \in Seq(S)
  BY DEF IsQueue
<1>2. PICK f : f = Front(s)
  OBVIOUS
<1>3. f \in Seq(S) /\ Len(f) = Len(s) - 1 /\ \A i \in 1 .. Len(s) - 1 : f[i] = s[i]
  BY <1>1, <1>2, OneLess
<1>4. InPlace(s, p) = Behind(f, p) /\ IsQueue(f) /\ Len(s) \in Nat
  BY <1>1, <1>2, <1>3 DEF InPlace, Behind, IsQueue
<1>5. /\ IsQueue(Behind(f, p)) /\ Len(Behind(f, p)) = Len(f) + 1 /\ Behind(f, p)[Len(f) + 1] = p
      /\ \A i \in 1 .. Len(f) : Behind(f, p)[i] = f[i]
  BY <1>4, OneBehind
<1>6. QED
  BY <1>3, <1>4, <1>5

(* Two segments in the place of the last one.                                 *)
LEMMA ExtendedByOne ==
  ASSUME NEW s, IsQueue(s), Len(s) > 0, NEW p, NEW t, NEW u, u = Behind(InPlace(s, p), t)
  PROVE  /\ IsQueue(u)
         /\ Len(u) = Len(s) + 1 /\ u[Len(s)] = p /\ u[Len(s) + 1] = t
         /\ \A i \in 1 .. Len(s) - 1 : u[i] = s[i]
<1>1. PICK g : g = InPlace(s, p)
  OBVIOUS
<1>2. /\ IsQueue(g) /\ Len(g) = Len(s) /\ g[Len(s)] = p
      /\ \A i \in 1 .. Len(s) - 1 : g[i] = s[i]
  BY <1>1, LastReplaced
<1>3. /\ IsQueue(u) /\ Len(u) = Len(g) + 1 /\ u[Len(g) + 1] = t
      /\ \A i \in 1 .. Len(g) : u[i] = g[i]
  BY <1>1, <1>2, OneBehind
<1>4. QED
  BY <1>2, <1>3, LenIsNat

(* Three of them.                                                             *)
LEMMA ExtendedByTwo ==
  ASSUME NEW s, IsQueue(s), Len(s) > 0, NEW p, NEW a, NEW t, NEW u,
         u = Behind(Behind(InPlace(s, p), a), t)
  PROVE  /\ IsQueue(u)
         /\ Len(u) = Len(s) + 2 /\ u[Len(s)] = p /\ u[Len(s) + 1] = a /\ u[Len(s) + 2] = t
         /\ \A i \in 1 .. Len(s) - 1 : u[i] = s[i]
<1>1. PICK h : h = Behind(InPlace(s, p), a)
  OBVIOUS
<1>2. /\ IsQueue(h)
      /\ Len(h) = Len(s) + 1 /\ h[Len(s)] = p /\ h[Len(s) + 1] = a
      /\ \A i \in 1 .. Len(s) - 1 : h[i] = s[i]
  BY <1>1, ExtendedByOne
<1>3. /\ IsQueue(u) /\ Len(u) = Len(h) + 1 /\ u[Len(h) + 1] = t
      /\ \A i \in 1 .. Len(h) : u[i] = h[i]
  BY <1>1, <1>2, OneBehind
<1>4. Len(s) \in 1 .. Len(h) /\ Len(s) + 1 \in 1 .. Len(h) /\ \A i \in 1 .. Len(s) - 1 : i \in 1 .. Len(h)
  BY <1>2, LenIsNat
<1>5. QED
  BY <1>2, <1>3, <1>4, LenIsNat

------------------------------------------------------------------------------
(* The new segment of tpAddMove is whole.                                     *)
LEMMA NewSegment ==
  ASSUME NEW m \in Moves, nextId \in Nat
  PROVE  LET new == Segment(m)
         IN  /\ DOMAIN new = SegmentFields /\ new.id = nextId /\ new.kind # "arc" /\ new.finalized = FALSE
             /\ new.cutStart = 0 /\ new.cutEnd = 0 /\ new.progress = 0 /\ Sized(new)
<1>1. m.kind # "arc" /\ m.length \in Nat /\ m.tolerance \in Nat
  BY BlendAssumption
<1>2. /\ DOMAIN Segment(m) = SegmentFields /\ Segment(m).id = nextId /\ Segment(m).kind = m.kind
      /\ Segment(m).finalized = FALSE /\ Segment(m).cutStart = 0 /\ Segment(m).cutEnd = 0
      /\ Segment(m).nominal = m.length /\ Segment(m).target = m.length
      /\ Segment(m).tolerance = m.tolerance /\ Segment(m).progress = 0
  BY DEF Segment, SegmentFields
<1>3. Sized(Segment(m))
  BY <1>1, <1>2 DEF Sized
<1>4. QED
  BY <1>1, <1>2, <1>3

(* With the last segment, as tpAddMove hands them on.                         *)
LEMMA PairFacts ==
  ASSUME NEW m \in Moves, nextId \in Nat, NEW prev, DOMAIN prev = SegmentFields
  PROVE  LET pair == [prev |-> prev, tc |-> Segment(m), arc |-> <<>>]
         IN  Untouched(pair, pair)
<1>1. DOMAIN Segment(m) = SegmentFields
  BY NewSegment
<1>2. QED
  BY <1>1 DEF Untouched, Same, IsPair

(* u is q, of n segments, with its last one made final and one or two behind  *)
(* it that meet.                                                              *)
Grown(q, u, n, l, id) ==
  /\ n = Len(q) /\ n > 0 /\ IsQueue(u) /\ l \in {n + 1, n + 2} /\ Len(u) = l
  /\ \A i \in 1 .. n - 1 : u[i] = q[i]
  /\ DOMAIN u[n] = SegmentFields /\ u[n].finalized = TRUE
  /\ u[n].id = q[n].id /\ u[n].kind = q[n].kind /\ u[n].cutStart = q[n].cutStart
  /\ Meets(u[n], u[n + 1])
  /\ l = n + 2 => /\ Meets(u[n + 1], u[n + 2]) /\ DOMAIN u[n + 1] = SegmentFields
                   /\ u[n + 1].finalized = TRUE /\ u[n + 1].kind = "arc"
  /\ DOMAIN u[l] = SegmentFields /\ u[l].finalized = FALSE
  /\ u[l].id = id /\ u[l].kind # "arc" /\ u[l].cutEnd = 0

(* A queue that has grown is sound again.                                     *)
LEMMA SoundAfter ==
  ASSUME NEW q, NEW u, NEW n, NEW l, NEW id, Sound(q, id), Grown(q, u, n, l, id)
  PROVE  Sound(u, id + 1)
<1>0. /\ n = Len(q) /\ n > 0 /\ IsQueue(u) /\ l \in {n + 1, n + 2} /\ Len(u) = l
      /\ \A i \in 1 .. n - 1 : u[i] = q[i]
      /\ DOMAIN u[n] = SegmentFields /\ u[n].finalized = TRUE
      /\ u[n].id = q[n].id /\ u[n].kind = q[n].kind /\ u[n].cutStart = q[n].cutStart
      /\ Meets(u[n], u[n + 1])
      /\ l = n + 2 => /\ Meets(u[n + 1], u[n + 2]) /\ DOMAIN u[n + 1] = SegmentFields
                       /\ u[n + 1].finalized = TRUE /\ u[n + 1].kind = "arc"
      /\ DOMAIN u[l] = SegmentFields /\ u[l].finalized = FALSE
      /\ u[l].id = id /\ u[l].kind # "arc" /\ u[l].cutEnd = 0
  BY DEF Grown
<1>1. n \in Nat /\ id \in Nat /\ l \in Nat /\ l > n
  <2>1. id \in Nat /\ IsQueue(q)
    BY Zenon DEF Sound
  <2>2. n \in Nat
    BY <1>0, <2>1 DEF IsQueue
  <2>3. QED
    BY <1>0, <2>1, <2>2
<1>2. /\ \A i \in 1 .. n : DOMAIN q[i] = SegmentFields /\ (i < n => q[i].finalized = TRUE)
      /\ \A i \in 1 .. n : i < n => Meets(q[i], q[i + 1])
      /\ \A i \in 1 .. n : q[i].kind # "arc" => q[i].id \in Nat /\ q[i].id < id
      /\ \A i, j \in 1 .. n : q[i].kind # "arc" /\ q[j].kind # "arc" /\ i < j => q[i].id < q[j].id
      /\ q[n].kind # "arc"
  <2>1. Formed(q) /\ Connected(q) /\ Below(q, id) /\ Ordered(q) /\ OpenEnd(q)
    BY Zenon DEF Sound
  <2>2. \A i \in 1 .. n : DOMAIN q[i] = SegmentFields /\ (i < n => q[i].finalized = TRUE)
    BY <1>0, <2>1 DEF Formed
  <2>3. \A i \in 1 .. n : i < n => Meets(q[i], q[i + 1])
    BY <1>0, <2>1, Zenon DEF Connected
  <2>4. \A i \in 1 .. n : q[i].kind # "arc" => q[i].id \in Nat /\ q[i].id < id
    BY <1>0, <2>1, Zenon DEF Below
  <2>5. \A i, j \in 1 .. n : q[i].kind # "arc" /\ q[j].kind # "arc" /\ i < j => q[i].id < q[j].id
    BY <1>0, <2>1, Zenon DEF Ordered
  <2>6. q[n].kind # "arc"
    BY <1>0, <2>1 DEF OpenEnd
  <2>7. QED
    BY <1>0, <2>2, <2>3, <2>4, <2>5, <2>6, Zenon
<1>3. \A i \in 1 .. l : i \in 1 .. n - 1 \/ i = n \/ i = l \/ (l = n + 2 /\ i = n + 1)
  BY <1>0, <1>1
<1>4. \A i \in 1 .. n : u[i].kind = q[i].kind /\ u[i].id = q[i].id /\ u[i].cutStart = q[i].cutStart
  <2>1. \A i \in 1 .. n : i \in 1 .. n - 1 \/ i = n
    BY <1>0, <1>1
  <2>2. QED
    BY <1>0, <2>1
<1>5. \A i \in 1 .. l : u[i].kind # "arc" => i \in 1 .. n \/ i = l
  BY <1>0, <1>1, <1>3
<1>6. ASSUME NEW i \in 1 .. l
      PROVE  /\ DOMAIN u[i] = SegmentFields
             /\ i < l => u[i].finalized = TRUE
             /\ i = l => u[i].finalized = FALSE
  <2>1. CASE i \in 1 .. n - 1
    BY <1>0, <1>1, <1>2, <2>1
  <2>2. CASE i = n
    BY <1>0, <1>1, <2>2
  <2>3. CASE i = l
    BY <1>0, <1>1, <2>3
  <2>4. CASE l = n + 2 /\ i = n + 1
    BY <1>0, <1>1, <2>4
  <2>5. QED
    BY <1>0, <1>3, <2>1, <2>2, <2>3, <2>4
<1>7. ASSUME NEW i \in 1 .. l, i < l
      PROVE  Meets(u[i], u[i + 1])
  <2>1. i \in 1 .. n - 2 \/ (i = n - 1 /\ n - 1 \in 1 .. n - 1) \/ i = n \/ (l = n + 2 /\ i = n + 1)
    BY <1>0, <1>1, <1>7
  <2>2. CASE i \in 1 .. n - 2
    <3>1. i \in 1 .. n - 1 /\ i + 1 \in 1 .. n - 1 /\ i \in 1 .. n /\ i < n
      BY <1>0, <1>1, <2>2
    <3>2. Meets(q[i], q[i + 1])
      BY <1>0, <1>2, <3>1
    <3>3. u[i] = q[i] /\ u[i + 1] = q[i + 1]
      BY <1>0, <3>1, Zenon
    <3>4. QED
      BY <1>0, <3>2, <3>3, Zenon
  <2>3. CASE i = n - 1 /\ n - 1 \in 1 .. n - 1
    <3>1. i \in 1 .. n - 1 /\ i \in 1 .. n /\ i < n /\ i + 1 = n
      BY <1>1, <2>3
    <3>2. Meets(q[i], q[i + 1])
      BY <1>2, <3>1, Zenon
    <3>3. u[i] = q[i] /\ Meets(q[i], q[n])
      BY <1>0, <3>1, <3>2, Zenon
    <3>4. QED
      BY <1>0, <3>1, <3>3 DEF Meets
  <2>4. CASE i = n
    BY <1>0, <2>4
  <2>5. CASE l = n + 2 /\ i = n + 1
    <3>1. i + 1 = n + 2
      BY <1>0, <1>1, <2>5
    <3>2. QED
      BY <1>0, <2>5, <3>1
  <2>6. QED
    BY <1>0, <2>1, <2>2, <2>3, <2>4, <2>5
<1>8. ASSUME NEW i \in 1 .. l, u[i].kind # "arc"
      PROVE  u[i].id \in Nat /\ u[i].id < id + 1
  <2>1. CASE i \in 1 .. n
    <3>1. q[i].kind # "arc" /\ u[i].id = q[i].id
      BY <1>0, <1>4, <1>8, <2>1
    <3>2. q[i].id \in Nat /\ q[i].id < id
      BY <1>0, <1>2, <2>1, <3>1
    <3>3. QED
      BY <1>0, <1>1, <3>1, <3>2
  <2>2. CASE i = l
    BY <1>0, <1>1, <2>2
  <2>3. QED
    BY <1>0, <1>5, <1>8, <2>1, <2>2
<1>9. ASSUME NEW i \in 1 .. l, NEW j \in 1 .. l, u[i].kind # "arc", u[j].kind # "arc", i < j
      PROVE  u[i].id < u[j].id
  <2>1. i \in 1 .. n /\ (j \in 1 .. n \/ j = l)
    BY <1>0, <1>1, <1>5, <1>9
  <2>2. q[i].kind # "arc" /\ u[i].id = q[i].id
    BY <1>0, <1>4, <1>9, <2>1
  <2>3. CASE j \in 1 .. n
    <3>1. q[j].kind # "arc" /\ u[j].id = q[j].id
      BY <1>0, <1>4, <1>9, <2>3
    <3>2. q[i].id < q[j].id
      BY <1>0, <1>2, <1>9, <2>1, <2>2, <2>3, <3>1
    <3>3. QED
      BY <1>0, <2>2, <3>1, <3>2
  <2>4. CASE j = l
    <3>1. q[i].id < id
      BY <1>0, <1>2, <2>1, <2>2
    <3>2. QED
      BY <1>0, <2>2, <2>4, <3>1
  <2>5. QED
    BY <1>0, <2>1, <2>3, <2>4
<1>10. Formed(u)
  BY <1>0, <1>6, Zenon DEF Formed
<1>11. Connected(u)
  BY <1>0, <1>7, Zenon DEF Connected
<1>12. Below(u, id + 1)
  BY <1>0, <1>8, Zenon DEF Below
<1>13. Ordered(u)
  BY <1>0, <1>9, Zenon DEF Ordered
<1>14. OpenEnd(u)
  BY <1>0, <1>1 DEF OpenEnd
<1>15. id + 1 \in Nat
  BY <1>0, <1>1
<1>16. QED
  BY <1>0, <1>10, <1>11, <1>12, <1>13, <1>14, <1>15, Zenon DEF Sound

(* The same of the numbers: what is new fits, and the old last segment is no  *)
(* less tolerant.                                                             *)
GrownFit(q, u, n, l) ==
  /\ \A i \in n .. l : SegmentFits(u[i])
  /\ \A i \in n .. l - 1 : Neighbours(u[i], u[i + 1])
  /\ u[n].nominal = q[n].nominal /\ u[n].tolerance = q[n].tolerance

(* What has grown fits again.                                                 *)
LEMMA FitsAfter ==
  ASSUME NEW q, NEW u, NEW n, NEW l, NEW id, IsQueue(q), OpenEnd(q), Fits(q), Grown(q, u, n, l, id),
         GrownFit(q, u, n, l)
  PROVE  Fits(u)
<1>1. /\ n = Len(q) /\ n > 0 /\ l \in {n + 1, n + 2} /\ Len(u) = l
      /\ \A i \in 1 .. n - 1 : u[i] = q[i]
      /\ u[n].kind # "arc"
  BY DEF Grown, OpenEnd
<1>2. n \in Nat
  BY <1>1, LenIsNat
<1>3. /\ \A i \in n .. l : SegmentFits(u[i])
      /\ \A i \in n .. l - 1 : Neighbours(u[i], u[i + 1])
      /\ u[n].nominal = q[n].nominal /\ u[n].tolerance = q[n].tolerance
  BY Zenon DEF GrownFit
<1>4. /\ \A i \in 1 .. n : SegmentFits(q[i])
      /\ \A i \in 1 .. n : i < n => Neighbours(q[i], q[i + 1])
  BY <1>1, Zenon DEF Fits, Measured, Tolerant
<1>5. ASSUME NEW i \in 1 .. l PROVE SegmentFits(u[i])
  <2>1. i \in 1 .. n - 1 \/ i \in n .. l
    BY <1>1, <1>2, <1>5
  <2>2. CASE i \in 1 .. n - 1
    <3>1. u[i] = q[i] /\ i \in 1 .. n
      BY <1>1, <1>2, <2>2
    <3>2. SegmentFits(q[i])
      BY <1>4, <3>1, Zenon
    <3>3. QED
      BY <3>1, <3>2, Zenon
  <2>3. CASE i \in n .. l
    BY <1>3, <2>3, Zenon
  <2>4. QED
    BY <2>1, <2>2, <2>3
<1>6. ASSUME NEW i \in 1 .. l, i < l PROVE Neighbours(u[i], u[i + 1])
  <2>1. i \in n .. l - 1 \/ (i \in 1 .. n - 1 /\ i + 1 = n) \/ (i \in 1 .. n - 1 /\ i + 1 \in 1 .. n - 1)
    BY <1>1, <1>2, <1>6
  <2>2. CASE i \in n .. l - 1
    BY <1>3, <2>2, Zenon
  <2>3. CASE i \in 1 .. n - 1
    <3>1. i \in 1 .. n /\ i < n
      BY <1>2, <2>3
    <3>2. Neighbours(q[i], q[i + 1])
      BY <1>4, <3>1, Zenon
    <3>3. u[i] = q[i]
      BY <1>1, <2>3, Zenon
    <3>4. CASE i + 1 \in 1 .. n - 1
      <4>1. u[i + 1] = q[i + 1]
        BY <1>1, <3>4, Zenon
      <4>2. QED
        BY <3>2, <3>3, <4>1, Zenon
    <3>5. CASE i + 1 = n
      <4>1. Neighbours(q[i], q[n])
        BY <3>2, <3>5
      <4>2. WithinTolerance(q[i], q[n]) = WithinTolerance(q[i], u[n])
        BY <1>3 DEF WithinTolerance, Limit
      <4>3. Neighbours(q[i], u[n])
        BY <1>1, <4>1, <4>2 DEF Neighbours
      <4>4. u[i + 1] = u[n]
        BY <3>5
      <4>5. QED
        BY <3>3, <4>3, <4>4, Zenon
    <3>6. QED
      BY <1>2, <2>1, <2>3, <3>4, <3>5
  <2>4. QED
    BY <2>1, <2>2, <2>3
<1>7. QED
  BY <1>1, <1>5, <1>6, Zenon DEF Fits, Measured, Tolerant

------------------------------------------------------------------------------
(* A move is added to q, which becomes u.                                     *)
LEMMA AddStep ==
  ASSUME Sound(queue, nextId), NEW m \in Moves, NEW corner, NEW goal \in Nat, NEW allowed, NEW other,
         tpAddMove(m, corner, goal, allowed, other)
  PROVE  Sound(queue', nextId') /\ (Fits(queue) => Fits(queue'))
<1> DEFINE new == Segment(m)
           pair == [prev |-> Last(queue), tc |-> new, arc |-> <<>>]
           both == tpHandleBlendArc(handleModeChange(pair), corner, goal, allowed, other)
<1>1. PICK q, u, n : q = queue /\ u = queue' /\ n = Len(q)
  OBVIOUS
<1>2. /\ nextId \in Nat /\ Sound(q, nextId) /\ nextId' = nextId + 1
      /\ IsQueue(q) /\ Formed(q) /\ OpenEnd(q)
  <2>1. Sound(q, nextId)
    BY <1>1, Zenon
  <2>2. nextId \in Nat /\ IsQueue(q) /\ Formed(q) /\ OpenEnd(q)
    BY <2>1, Zenon DEF Sound
  <2>3. QED
    BY <2>1, <2>2, Zenon DEF tpAddMove
<1>3. PICK S : q \in Seq(S)
  BY <1>2, Zenon DEF IsQueue
<1>4. n \in Nat
  BY <1>1, <1>3
<1>5. CASE q = <<>>
  <2>1. u = <<new>>
    BY <1>1, <1>5 DEF tpAddMove
  <2>2. /\ DOMAIN new = SegmentFields /\ new.id = nextId /\ new.kind # "arc" /\ new.finalized = FALSE
        /\ new.cutEnd = 0 /\ Sized(new)
    BY <1>2, NewSegment
  <2> HIDE DEF new
  <2>3. u \in Seq({new}) /\ Len(u) = 1 /\ u[1] = new
    BY <2>1
  <2>4. 1 .. Len(u) = {1}
    BY <2>3
  <2>5. Formed(u) /\ Connected(u) /\ Ordered(u)
    BY <2>2, <2>3, <2>4 DEF Formed, Connected, Ordered
  <2>6. Below(u, nextId + 1) /\ OpenEnd(u)
    BY <1>2, <2>2, <2>3, <2>4 DEF Below, OpenEnd
  <2>7. IsQueue(u) /\ nextId + 1 \in Nat
    BY <1>2, <2>3 DEF IsQueue
  <2>8. Sound(u, nextId + 1)
    BY <2>5, <2>6, <2>7, Zenon DEF Sound
  <2>9. Fits(u)
    <3>1. SegmentFits(u[1]) /\ \A i \in {1} : ~(i < 1)
      BY <2>2, <2>3 DEF SegmentFits
    <3>2. Measured(u) /\ Tolerant(u)
      BY <2>3, <2>4, <3>1 DEF Measured, Tolerant
    <3>3. QED
      BY <3>2, Zenon DEF Fits
  <2>10. QED
    BY <1>1, <1>2, <2>8, <2>9, Zenon
<1>6. CASE q # <<>>
  <2>1. n > 0
    BY <1>1, <1>3, <1>6, SeqIsEmpty
  <2>2. PICK prev : prev = q[n] /\ DOMAIN prev = SegmentFields /\ prev.kind # "arc" /\ prev.cutEnd = 0
    <3>1. n \in 1 .. Len(q)
      BY <1>1, <1>4, <2>1
    <3>2. DOMAIN q[n] = SegmentFields
      BY <1>2, <3>1, Zenon DEF Formed
    <3>3. q[n].kind # "arc" /\ q[n].cutEnd = 0
      BY <1>1, <1>2, <2>1 DEF OpenEnd
    <3>4. QED
      BY <3>2, <3>3
  <2>3. /\ Untouched(pair, pair) /\ pair.prev = prev /\ pair.tc = new
        /\ DOMAIN new = SegmentFields /\ new.id = nextId /\ new.kind # "arc" /\ new.finalized = FALSE
        /\ new.cutStart = 0 /\ new.cutEnd = 0 /\ new.progress = 0 /\ Sized(new)
    <3>1. pair = [prev |-> prev, tc |-> new, arc |-> <<>>]
      BY <1>1, <2>2 DEF Last
    <3>2. QED
      BY <1>2, <2>2, <3>1, PairFacts, NewSegment
  <2>4. Untouched(pair, both) \/ (Blended(pair, both) /\ Early(pair))
    BY <2>3, HandleTouches
  <2>5. u = Front(q) \o <<tcFinalizeLength(both.prev)>> \o both.arc \o <<both.tc>>
    BY <1>1, <1>6 DEF tpAddMove
  <2> HIDE DEF pair, new, both
  <2>6. PICK p, t : p = tcFinalizeLength(both.prev) /\ t = both.tc
    OBVIOUS
  <2>7. /\ DOMAIN p = SegmentFields /\ p.finalized = TRUE /\ p.id = prev.id /\ p.kind = prev.kind
        /\ p.cutStart = prev.cutStart /\ p.cutEnd = both.prev.cutEnd
        /\ p.nominal = prev.nominal /\ p.tolerance = prev.tolerance
        /\ p.progress = both.prev.progress /\ p.target = both.prev.target
    <3>1. PICK s : s = both.prev
      OBVIOUS
    <3>2. /\ DOMAIN s = SegmentFields /\ s.id = prev.id /\ s.kind = prev.kind /\ s.cutStart = prev.cutStart
          /\ s.nominal = prev.nominal /\ s.tolerance = prev.tolerance
      BY <2>3, <2>4, <3>1 DEF Untouched, Blended, Same
    <3>3. p = [s EXCEPT !.finalized = TRUE]
      BY <2>6, <3>1 DEF tcFinalizeLength
    <3>4. QED
      BY <3>1, <3>2, <3>3 DEF SegmentFields
  <2>8. /\ DOMAIN t = SegmentFields /\ t.id = nextId /\ t.kind # "arc" /\ t.finalized = FALSE /\ t.cutEnd = 0
    BY <2>3, <2>4, <2>6 DEF Untouched, Blended, Same
  <2>9. Fits(queue) => Sized(prev) /\ Prepared(pair)
    <3>1. n \in 1 .. Len(q)
      BY <1>1, <1>4, <2>1
    <3>2. Fits(q) => SegmentFits(q[n])
      BY <3>1, Zenon DEF Fits, Measured
    <3>3. Fits(q) => Sized(prev)
      BY <2>2, <3>2 DEF SegmentFits
    <3>4. Fits(queue) => Fits(q)
      BY <1>1, Zenon
    <3>5. QED
      BY <2>2, <2>3, <3>3, <3>4 DEF Prepared
  <2>10. CASE Untouched(pair, both)
    <3>1. both.arc = <<>> /\ p.cutEnd = 0 /\ t.cutStart = 0
      BY <2>2, <2>3, <2>6, <2>7, <2>10 DEF Untouched, Same
    <3>2. u = Behind(InPlace(q, p), t)
      <4>1. IsQueue(InPlace(q, p))
        BY <1>1, <1>2, <2>1, LastReplaced
      <4>2. InPlace(q, p) \o <<>> = InPlace(q, p)
        BY <4>1 DEF IsQueue
      <4>3. u = InPlace(q, p) \o <<>> \o <<t>>
        BY <2>5, <2>6, <3>1 DEF InPlace
      <4>4. QED
        BY <4>2, <4>3 DEF Behind
    <3>3. /\ IsQueue(u)
          /\ Len(u) = n + 1 /\ u[n] = p /\ u[n + 1] = t
          /\ \A i \in 1 .. n - 1 : u[i] = q[i]
      BY <1>1, <1>2, <2>1, <3>2, ExtendedByOne
    <3>4. Meets(p, t)
      BY <2>2, <2>7, <2>8, <3>1 DEF Meets
    <3>5. Grown(q, u, n, n + 1, nextId)
      BY <1>1, <1>4, <2>1, <2>2, <2>7, <2>8, <3>3, <3>4 DEF Grown
    <3>6. Sound(u, nextId + 1)
      BY <1>2, <3>5, SoundAfter, Zenon
    <3>7. ASSUME Fits(queue) PROVE Fits(u)
      <4>1. Sized(p) /\ Sized(t)
        BY <2>3, <2>6, <2>7, <2>9, <2>10, <3>7 DEF Untouched, Same, Sized
      <4>2. SegmentFits(p) /\ SegmentFits(t) /\ Neighbours(p, t)
        BY <2>2, <2>7, <2>8, <4>1 DEF SegmentFits, Neighbours
      <4>3. \A i \in n .. n + 1 : i = n \/ i = n + 1
        BY <1>4
      <4>4. \A i \in n .. (n + 1) - 1 : i = n
        BY <1>4
      <4>5. \A i \in n .. n + 1 : SegmentFits(u[i])
        BY <3>3, <4>2, <4>3, Zenon
      <4>6. \A i \in n .. (n + 1) - 1 : Neighbours(u[i], u[i + 1])
        BY <3>3, <4>2, <4>4, Zenon
      <4>7. u[n].nominal = q[n].nominal /\ u[n].tolerance = q[n].tolerance
        BY <2>2, <2>7, <3>3
      <4>8. GrownFit(q, u, n, n + 1)
        BY <4>5, <4>6, <4>7, Zenon DEF GrownFit
      <4>9. Fits(q)
        BY <1>1, <3>7, Zenon
      <4>10. QED
        BY <1>2, <3>5, <4>8, <4>9, FitsAfter, Zenon
    <3>8. QED
      BY <1>1, <1>2, <3>6, <3>7, Zenon
  <2>11. CASE Blended(pair, both) /\ Early(pair)
    <3>1. PICK a : /\ both.arc = <<a>> /\ DOMAIN a = SegmentFields /\ a.kind = "arc" /\ a.finalized = TRUE
                   /\ p.cutEnd = a.cutStart /\ t.cutStart = a.cutStart
                   /\ Prepared(pair) => ArcFits(pair, both, a)
      BY <2>6, <2>7, <2>11 DEF Blended
    <3>2. u = Behind(Behind(InPlace(q, p), a), t)
      BY <2>5, <2>6, <3>1 DEF InPlace, Behind
    <3>3. /\ IsQueue(u)
          /\ Len(u) = n + 2 /\ u[n] = p /\ u[n + 1] = a /\ u[n + 2] = t
          /\ \A i \in 1 .. n - 1 : u[i] = q[i]
      BY <1>1, <1>2, <2>1, <3>2, ExtendedByTwo
    <3>4. Meets(p, a) /\ Meets(a, t)
      BY <2>2, <2>7, <2>8, <3>1 DEF Meets
    <3>5. Grown(q, u, n, n + 2, nextId)
      BY <1>1, <1>4, <2>1, <2>2, <2>7, <2>8, <3>1, <3>3, <3>4 DEF Grown
    <3>6. Sound(u, nextId + 1)
      BY <1>2, <3>5, SoundAfter, Zenon
    <3>7. ASSUME Fits(queue) PROVE Fits(u)
      <4>1. /\ SegmentFits(a) /\ Sized(both.prev) /\ Sized(t)
            /\ WithinTolerance(a, both.prev) /\ WithinTolerance(a, t)
        BY <2>6, <2>9, <3>1, <3>7 DEF ArcFits
      <4>2. Sized(p) /\ WithinTolerance(a, p)
        <5>1. /\ p.cutStart = both.prev.cutStart /\ p.nominal = both.prev.nominal
              /\ p.tolerance = both.prev.tolerance
          BY <2>6, <2>7, <2>11, <2>3 DEF Blended
        <5>2. QED
          BY <2>7, <4>1, <5>1 DEF Sized, WithinTolerance, Limit
      <4>3. SegmentFits(p) /\ SegmentFits(t) /\ Neighbours(p, a) /\ Neighbours(a, t)
        BY <2>2, <2>7, <2>8, <3>1, <4>1, <4>2 DEF SegmentFits, Neighbours
      <4>4. \A i \in n .. n + 2 : i = n \/ i = n + 1 \/ i = n + 2
        BY <1>4
      <4>5. \A i \in n .. (n + 2) - 1 : i = n \/ (i = n + 1 /\ i + 1 = n + 2)
        BY <1>4
      <4>6. \A i \in n .. n + 2 : SegmentFits(u[i])
        BY <3>3, <4>1, <4>3, <4>4, Zenon
      <4>7. ASSUME NEW i \in n .. (n + 2) - 1 PROVE Neighbours(u[i], u[i + 1])
        <5>1. CASE i = n
          BY <3>3, <4>3, <5>1, Zenon
        <5>2. CASE i = n + 1 /\ i + 1 = n + 2
          BY <3>3, <4>3, <5>2
        <5>3. QED
          BY <4>5, <5>1, <5>2
      <4>8. u[n].nominal = q[n].nominal /\ u[n].tolerance = q[n].tolerance
        BY <2>2, <2>7, <3>3
      <4>9. GrownFit(q, u, n, n + 2)
        BY <4>6, <4>7, <4>8, Zenon DEF GrownFit
      <4>10. Fits(q)
        BY <1>1, <3>7, Zenon
      <4>11. QED
        BY <1>2, <3>5, <4>9, <4>10, FitsAfter, Zenon
    <3>8. QED
      BY <1>1, <1>2, <3>6, <3>7, Zenon
  <2>12. QED
    BY <2>4, <2>10, <2>11
<1>7. QED
  BY <1>5, <1>6

------------------------------------------------------------------------------
(* The queue q, without its head where d is 1, is still sound when what       *)
(* matters of its segments is kept.                                           *)
LEMMA SoundBehind ==
  ASSUME NEW q, NEW u, NEW id, NEW d, d \in {0, 1}, Sound(q, id), IsQueue(u), Len(u) = Len(q) - d,
         \A i \in 1 .. Len(u) : Same(q[i + d], u[i])
  PROVE  Sound(u, id)
<1>1. /\ id \in Nat /\ IsQueue(q) /\ Formed(q) /\ Connected(q) /\ Below(q, id) /\ Ordered(q)
      /\ OpenEnd(q)
  BY Zenon DEF Sound
<1>2. Len(q) \in Nat /\ Len(u) \in Nat
  BY <1>1, LenIsNat
<1>3. \A i \in 1 .. Len(u) : i + d \in 1 .. Len(q)
  BY <1>2
<1>4. \A i \in 1 .. Len(u) : /\ DOMAIN u[i] = SegmentFields
                             /\ u[i].id = q[i + d].id /\ u[i].kind = q[i + d].kind
                             /\ u[i].finalized = q[i + d].finalized
                             /\ u[i].cutStart = q[i + d].cutStart /\ u[i].cutEnd = q[i + d].cutEnd
  BY DEF Same
<1>5. Formed(u)
  <2>1. ASSUME NEW i \in 1 .. Len(u)
        PROVE  /\ i < Len(u) => u[i].finalized = TRUE
               /\ i = Len(u) => u[i].finalized = FALSE
    <3>1. (i < Len(u) => i + d < Len(q)) /\ (i = Len(u) => i + d = Len(q)) /\ i + d \in 1 .. Len(q)
      BY <1>2, <1>3
    <3>2. /\ i + d < Len(q) => q[i + d].finalized = TRUE
          /\ i + d = Len(q) => q[i + d].finalized = FALSE
      BY <1>1, <3>1, Zenon DEF Formed
    <3>3. u[i].finalized = q[i + d].finalized
      BY <1>4
    <3>4. QED
      BY <3>1, <3>2, <3>3
  <2>2. QED
    BY <1>4, <2>1, Zenon DEF Formed
<1>6. Connected(u)
  <2>1. ASSUME NEW i \in 1 .. Len(u), i < Len(u) PROVE Meets(u[i], u[i + 1])
    <3>1. /\ i + d \in 1 .. Len(q) /\ i + d < Len(q) /\ i + 1 \in 1 .. Len(u)
          /\ (i + d) + 1 = (i + 1) + d
      BY <1>2, <2>1
    <3>2. Meets(q[i + d], q[(i + d) + 1])
      BY <1>1, <3>1, Zenon DEF Connected
    <3>3. Meets(q[i + d], q[(i + 1) + d])
      BY <3>1, <3>2
    <3>4. QED
      BY <1>4, <3>1, <3>3 DEF Meets
  <2>2. QED
    BY <2>1, Zenon DEF Connected
<1>7. Below(u, id)
  <2>1. ASSUME NEW i \in 1 .. Len(u), u[i].kind # "arc" PROVE u[i].id \in Nat /\ u[i].id < id
    <3>1. i + d \in 1 .. Len(q) /\ q[i + d].kind # "arc" /\ u[i].id = q[i + d].id
      BY <1>3, <1>4, <2>1
    <3>2. q[i + d].id \in Nat /\ q[i + d].id < id
      BY <1>1, <3>1, Zenon DEF Below
    <3>3. QED
      BY <3>1, <3>2
  <2>2. QED
    BY <2>1, Zenon DEF Below
<1>8. Ordered(u)
  <2>1. ASSUME NEW i \in 1 .. Len(u), NEW j \in 1 .. Len(u), u[i].kind # "arc", u[j].kind # "arc", i < j
        PROVE  u[i].id < u[j].id
    <3>1. /\ i + d \in 1 .. Len(q) /\ q[i + d].kind # "arc" /\ u[i].id = q[i + d].id
          /\ j + d \in 1 .. Len(q) /\ q[j + d].kind # "arc" /\ u[j].id = q[j + d].id
      BY <1>3, <1>4, <2>1
    <3>2. i + d < j + d
      BY <1>2, <2>1
    <3>3. q[i + d].id < q[j + d].id
      BY <1>1, <3>1, <3>2, Zenon DEF Ordered
    <3>4. QED
      BY <3>1, <3>3
  <2>2. QED
    BY <2>1, Zenon DEF Ordered
<1>9. OpenEnd(u)
  <2>1. CASE Len(u) > 0
    <3>1. Len(u) \in 1 .. Len(u) /\ Len(u) + d = Len(q) /\ Len(q) > 0
      BY <1>2, <2>1
    <3>2. q[Len(q)].kind # "arc" /\ q[Len(q)].cutEnd = 0
      BY <1>1, <3>1 DEF OpenEnd
    <3>3. QED
      BY <1>4, <3>1, <3>2 DEF OpenEnd
  <2>2. CASE ~(Len(u) > 0)
    BY <2>2 DEF OpenEnd
  <2>3. QED
    BY <2>1, <2>2
<1>10. QED
  BY <1>1, <1>5, <1>6, <1>7, <1>8, <1>9, Zenon DEF Sound

(* And it fits when its segments do.                                          *)
LEMMA FitsBehind ==
  ASSUME NEW q, NEW u, NEW d, d \in {0, 1}, IsQueue(q), IsQueue(u), Len(u) = Len(q) - d, Fits(q),
         \A i \in 1 .. Len(u) : Same(q[i + d], u[i]) /\ SegmentFits(u[i])
  PROVE  Fits(u)
<1>1. Len(q) \in Nat /\ Len(u) \in Nat
  BY LenIsNat
<1>2. ASSUME NEW i \in 1 .. Len(u), i < Len(u) PROVE Neighbours(u[i], u[i + 1])
  <2>1. /\ i + d \in 1 .. Len(q) /\ i + d < Len(q) /\ i + 1 \in 1 .. Len(u)
        /\ (i + d) + 1 = (i + 1) + d
    BY <1>1, <1>2
  <2>2. Neighbours(q[i + d], q[(i + d) + 1])
    BY <2>1, Zenon DEF Fits, Tolerant
  <2>3. Neighbours(q[i + d], q[(i + 1) + d])
    BY <2>1, <2>2
  <2>4. Same(q[i + d], u[i]) /\ Same(q[(i + 1) + d], u[i + 1])
    BY <2>1, Zenon
  <2>5. QED
    BY <2>3, <2>4 DEF Neighbours, WithinTolerance, Limit, Same
<1>3. QED
  BY <1>2, Zenon DEF Fits, Measured, Tolerant

(* The head runs.                                                             *)
LEMMA RunStep ==
  ASSUME Sound(queue, nextId), NEW step \in Nat, Run(step)
  PROVE  Sound(queue', nextId') /\ (Fits(queue) => Fits(queue'))
<1>1. PICK q, u, x : /\ q = queue /\ u = queue'
                     /\ x = Least(queue[1].progress + step, queue[1].target)
  OBVIOUS
<1>2. Sound(q, nextId) /\ nextId' = nextId
  BY <1>1, Zenon DEF Run
<1>3. IsQueue(q) /\ Formed(q)
  BY <1>2, Zenon DEF Sound
<1>4. q # <<>> /\ u = [q EXCEPT ![1].progress = x]
  BY <1>1 DEF Run
<1>5. PICK S : q \in Seq(S)
  BY <1>3, Zenon DEF IsQueue
<1>6. Len(q) \in Nat /\ Len(q) > 0 /\ 1 \in 1 .. Len(q)
  BY <1>4, <1>5, SeqIsEmpty
<1>7. PICK s, t : s = q[1] /\ t = [s EXCEPT !.progress = x]
  OBVIOUS
<1>8. u = [q EXCEPT ![1] = t]
  BY <1>4, <1>7
<1>9. /\ u \in Seq(S \cup {t}) /\ Len(u) = Len(q) /\ u[1] = t
      /\ \A i \in 1 .. Len(q) : i # 1 => u[i] = q[i]
  BY <1>5, <1>6, <1>8
<1>10. \A i \in 1 .. Len(q) : DOMAIN q[i] = SegmentFields
  BY <1>3, Zenon DEF Formed
<1>11. Same(s, t)
  BY <1>6, <1>7, <1>10 DEF Same, SegmentFields
<1>12. ASSUME NEW i \in 1 .. Len(u) PROVE Same(q[i + 0], u[i])
  <2>1. i + 0 = i /\ i \in 1 .. Len(q)
    BY <1>6, <1>9, <1>12
  <2>2. CASE i = 1
    BY <1>7, <1>9, <1>11, <2>1, <2>2
  <2>3. CASE i # 1
    BY <1>9, <1>10, <2>1, <2>3 DEF Same
  <2>4. QED
    BY <2>2, <2>3
<1>13. IsQueue(u) /\ Len(u) = Len(q) - 0 /\ 0 \in {0, 1}
  BY <1>6, <1>9 DEF IsQueue
<1>14. Sound(u, nextId)
  BY <1>2, <1>12, <1>13, SoundBehind, Zenon
<1>15. ASSUME Fits(queue) PROVE Fits(u)
  <2>1. Fits(q)
    BY <1>1, <1>15, Zenon
  <2>2. \A i \in 1 .. Len(q) : SegmentFits(q[i])
    BY <2>1, Zenon DEF Fits, Measured
  <2>3. SegmentFits(t)
    <3>1. SegmentFits(s) /\ s.progress < s.target /\ x = Least(s.progress + step, s.target)
      BY <1>1, <1>6, <1>7, <2>2 DEF Run
    <3>2. DOMAIN s = SegmentFields
      BY <1>11 DEF Same
    <3>3. t.progress = x
      BY <1>7, <3>2 DEF SegmentFields
    <3>4. CASE s.kind = "arc"
      BY <1>11, <3>1, <3>4 DEF Same, SegmentFits
    <3>5. CASE s.kind # "arc"
      <4>1. Sized(s)
        BY <3>1, <3>5 DEF SegmentFits
      <4>2. x \in Nat /\ x <= s.target
        BY <3>1, <4>1 DEF Least, Sized
      <4>3. Sized(t)
        BY <1>11, <3>3, <4>1, <4>2 DEF Same, Sized
      <4>4. QED
        BY <1>11, <3>5, <4>3 DEF Same, SegmentFits
    <3>6. QED
      BY <3>4, <3>5
  <2>4. ASSUME NEW i \in 1 .. Len(u) PROVE SegmentFits(u[i])
    <3>1. i \in 1 .. Len(q)
      BY <1>9
    <3>2. CASE i = 1
      BY <1>9, <2>3, <3>2
    <3>3. CASE i # 1
      <4>1. u[i] = q[i] /\ SegmentFits(q[i])
        BY <1>9, <2>2, <3>1, <3>3, Zenon
      <4>2. QED
        BY <4>1, Zenon
    <3>4. QED
      BY <3>2, <3>3
  <2>5. QED
    BY <1>3, <1>12, <1>13, <2>1, <2>4, FitsBehind, Zenon
<1>16. QED
  BY <1>1, <1>2, <1>14, <1>15, Zenon

(* The head leaves.                                                           *)
LEMMA CompleteStep ==
  ASSUME Sound(queue, nextId), Complete
  PROVE  Sound(queue', nextId') /\ (Fits(queue) => Fits(queue'))
<1>1. PICK q, u : q = queue /\ u = queue'
  OBVIOUS
<1>2. Sound(q, nextId) /\ nextId' = nextId
  BY <1>1, Zenon DEF Complete
<1>3. IsQueue(q) /\ Formed(q)
  BY <1>2, Zenon DEF Sound
<1>4. q # <<>> /\ u = Tail(q)
  BY <1>1 DEF Complete
<1>5. PICK S : q \in Seq(S)
  BY <1>3, Zenon DEF IsQueue
<1>6. Len(q) \in Nat /\ Len(q) > 0
  BY <1>4, <1>5, SeqIsEmpty
<1>7. /\ u \in Seq(S) /\ Len(u) = Len(q) - 1
      /\ \A i \in 1 .. Len(u) : u[i] = q[i + 1]
  BY <1>4, <1>5, <1>6
<1>8. \A i \in 1 .. Len(q) : DOMAIN q[i] = SegmentFields
  BY <1>3, Zenon DEF Formed
<1>9. \A i \in 1 .. Len(u) : Same(q[i + 1], u[i])
  BY <1>6, <1>7, <1>8 DEF Same
<1>10. IsQueue(u) /\ 1 \in {0, 1}
  BY <1>7 DEF IsQueue
<1>11. Sound(u, nextId)
  BY <1>2, <1>7, <1>9, <1>10, SoundBehind, Zenon
<1>12. ASSUME Fits(queue) PROVE Fits(u)
  <2>1. Fits(q)
    BY <1>1, <1>12, Zenon
  <2>2. ASSUME NEW i \in 1 .. Len(u) PROVE SegmentFits(u[i])
    <3>1. i + 1 \in 1 .. Len(q)
      BY <1>6, <1>7
    <3>2. SegmentFits(q[i + 1])
      BY <2>1, <3>1, Zenon DEF Fits, Measured
    <3>3. QED
      BY <1>7, <3>2
  <2>3. QED
    BY <1>3, <1>7, <1>9, <1>10, <2>1, <2>2, FitsBehind, Zenon
<1>13. QED
  BY <1>1, <1>2, <1>11, <1>12, Zenon

------------------------------------------------------------------------------
(* A sound queue is a connected path.                                         *)
LEMMA SoundIsConnected == Sound(queue, nextId) => PathConnected
<1> SUFFICES ASSUME Sound(queue, nextId) PROVE PathConnected
  OBVIOUS
<1>1. PICK q : q = queue
  OBVIOUS
<1>2. IsQueue(q) /\ Formed(q) /\ Connected(q) /\ Ordered(q)
  <2>1. Sound(q, nextId)
    BY <1>1, Zenon
  <2>2. QED
    BY <2>1, Zenon DEF Sound
<1>3. Len(q) \in Nat
  BY <1>2, LenIsNat
<1>4. Joined
  BY <1>1, <1>2 DEF Joined, Segments, Connected, Meets
<1>5. ASSUME NEW i \in Segments PROVE i < Len(queue) <=> queue[i].finalized
  <2>1. i \in 1 .. Len(q)
    BY <1>1, <1>5 DEF Segments
  <2>2. (i < Len(q) => q[i].finalized = TRUE) /\ (i = Len(q) => q[i].finalized = FALSE)
    BY <1>2, <2>1, Zenon DEF Formed
  <2>3. i < Len(q) \/ (i = Len(q) /\ ~(i < Len(q)))
    BY <1>3, <2>1
  <2>4. i < Len(q) <=> q[i].finalized
    BY <2>2, <2>3, Zenon
  <2>5. QED
    BY <1>1, <2>4, Zenon
<1>6. ASSUME NEW i \in Programmed, NEW j \in Programmed, i < j PROVE queue[i].id < queue[j].id
  <2>1. i \in 1 .. Len(q) /\ j \in 1 .. Len(q) /\ q[i].kind # "arc" /\ q[j].kind # "arc"
    BY <1>1, <1>6 DEF Programmed, Segments
  <2>2. q[i].id < q[j].id
    BY <1>2, <1>6, <2>1, Zenon DEF Ordered
  <2>3. QED
    BY <1>1, <2>2
<1>7. QED
  BY <1>4, <1>5, <1>6, Zenon DEF PathConnected, OnlyLastOpen

(* At the start the queue is empty.                                           *)
LEMMA InitIsSound == Init => Sound(queue, nextId)
<1> SUFFICES ASSUME Init PROVE Sound(queue, nextId)
  OBVIOUS
<1>1. PICK q : q = queue
  OBVIOUS
<1>2. q \in Seq({}) /\ Len(q) = 0 /\ nextId \in Nat
  BY <1>1 DEF Init
<1>3. 1 .. Len(q) = {}
  BY <1>2
<1>4. Formed(q) /\ Connected(q) /\ Below(q, nextId) /\ Ordered(q)
  BY <1>3, Zenon DEF Formed, Connected, Below, Ordered
<1>5. OpenEnd(q) /\ IsQueue(q)
  BY <1>2 DEF OpenEnd, IsQueue
<1>6. Sound(q, nextId)
  BY <1>2, <1>4, <1>5, Zenon DEF Sound
<1>7. QED
  BY <1>1, <1>6, Zenon

(* And nothing in it can be out of its bounds.                                *)
LEMMA InitFitsAll == Init => Fits(queue)
<1> SUFFICES ASSUME Init PROVE Fits(queue)
  OBVIOUS
<1>1. PICK q : q = queue
  OBVIOUS
<1>2. 1 .. Len(q) = {}
  BY <1>1 DEF Init
<1>3. Fits(q)
  BY <1>2, Zenon DEF Fits, Measured, Tolerant
<1>4. QED
  BY <1>1, <1>3, Zenon

(* Every step keeps it sound, and in its bounds.                              *)
LEMMA NextKeepsSound ==
  Sound(queue, nextId) /\ [Next]_vars => Sound(queue, nextId)' /\ (Fits(queue) => Fits(queue)')
<1> SUFFICES ASSUME Sound(queue, nextId), [Next]_vars
             PROVE  Sound(queue', nextId') /\ (Fits(queue) => Fits(queue'))
  OBVIOUS
<1>1. ASSUME NEW m \in Moves, NEW corner \in Corners, NEW goal \in Goals, NEW allowed \in BOOLEAN,
             NEW other \in {"parabolic", "tangent"},
             tpAddLine(m, corner, goal, allowed, other) \/ tpAddCircle(m, corner, goal, allowed, other)
      PROVE  Sound(queue', nextId') /\ (Fits(queue) => Fits(queue'))
  <2>1. tpAddMove(m, corner, goal, allowed, other)
    BY <1>1, Zenon DEF tpAddLine, tpAddCircle
  <2>2. goal \in Nat
    BY <1>1, BlendAssumption
  <2>3. QED
    BY <1>1, <2>1, <2>2, AddStep, Zenon
<1>2. ASSUME NEW step \in Steps, Run(step)
      PROVE  Sound(queue', nextId') /\ (Fits(queue) => Fits(queue'))
  <2>1. step \in Nat
    BY <1>2, BlendAssumption
  <2>2. QED
    BY <1>2, <2>1, RunStep, Zenon
<1>3. CASE Complete
  BY <1>3, CompleteStep, Zenon
<1>4. CASE UNCHANGED vars
  <2>1. queue' = queue /\ nextId' = nextId
    BY <1>4 DEF vars
  <2>2. QED
    BY <2>1, Zenon
<1>5. QED
  BY <1>1, <1>2, <1>3, <1>4, Zenon DEF Next

(* The blended path has no gap and stays as it was cut, for any segments,     *)
(* corners, tolerances and speeds (tpHandleBlendArc and tcConnectBlendArc).   *)
THEOREM PathIsConnected == Spec => []PathConnected
  BY InitIsSound, NextKeepsSound, SoundIsConnected, PTL DEF Spec

------------------------------------------------------------------------------
(* The cuts and the arcs.                                                     *)

(* Segments that fit are cut as CutsFit says, and arcs between them are as    *)
(* ArcAllowed says: an arc is never last, so it has a segment on either side. *)
LEMMA FitsSuffices ==
  ASSUME Sound(queue, nextId), Fits(queue)
  PROVE  CutsFit /\ ArcAllowed
<1>1. PICK q : q = queue
  OBVIOUS
<1>2. IsQueue(q) /\ OpenEnd(q) /\ Measured(q) /\ Tolerant(q)
  <2>1. Sound(q, nextId) /\ Fits(q)
    BY <1>1, Zenon
  <2>2. QED
    BY <2>1, Zenon DEF Sound, Fits
<1>3. Len(q) \in Nat
  BY <1>2, LenIsNat
<1>4. ASSUME NEW i \in Programmed
      PROVE  /\ queue[i].cutStart + queue[i].cutEnd <= queue[i].nominal
             /\ queue[i].progress <= queue[i].target \/ (queue[i].cutStart > 0 /\ queue[i].cutEnd > 0)
  <2>1. i \in 1 .. Len(q) /\ q[i].kind # "arc"
    BY <1>1, <1>4 DEF Programmed, Segments
  <2>2. SegmentFits(q[i])
    BY <1>2, <2>1, Zenon DEF Measured
  <2>3. Sized(q[i])
    BY <2>1, <2>2 DEF SegmentFits
  <2>4. QED
    BY <1>1, <2>3 DEF Sized
<1>5. ASSUME NEW i \in Segments, queue[i].kind = "arc"
      PROVE  /\ queue[i].v * queue[i].v <= NormalAcc * queue[i].R
             /\ \A j \in {i - 1, i + 1} \ {0} : WithinTolerance(queue[i], queue[j])
  <2>1. i \in 1 .. Len(q) /\ q[i].kind = "arc"
    BY <1>1, <1>5 DEF Segments
  <2>2. SegmentFits(q[i])
    BY <1>2, <2>1, Zenon DEF Measured
  <2>3. i # Len(q)
    BY <1>2, <1>3, <2>1 DEF OpenEnd
  <2>4. WithinTolerance(q[i], q[i + 1])
    <3>1. i < Len(q)
      BY <1>3, <2>1, <2>3
    <3>2. Neighbours(q[i], q[i + 1])
      BY <1>2, <2>1, <3>1, Zenon DEF Tolerant
    <3>3. QED
      BY <2>1, <3>2, Zenon DEF Neighbours
  <2>5. i - 1 # 0 => WithinTolerance(q[i], q[i - 1])
    <3>1. CASE i - 1 # 0
      <4>1. i - 1 \in 1 .. Len(q) /\ i - 1 < Len(q) /\ (i - 1) + 1 = i
        BY <1>3, <2>1, <3>1
      <4>2. Neighbours(q[i - 1], q[(i - 1) + 1])
        BY <1>2, <4>1, Zenon DEF Tolerant
      <4>3. Neighbours(q[i - 1], q[i])
        BY <4>1, <4>2
      <4>4. QED
        BY <2>1, <4>3, Zenon DEF Neighbours
    <3>2. QED
      BY <3>1
  <2>6. QED
    BY <1>1, <2>1, <2>2, <2>4, <2>5 DEF SegmentFits
<1>6. CutsFit
  BY <1>4, Zenon DEF CutsFit
<1>7. ArcAllowed
  BY <1>5 DEF ArcAllowed, WithinTolerance, Limit
<1>8. QED
  BY <1>6, <1>7

(* However the corners, tolerances and speeds are, the blends at the two ends *)
(* of a segment leave room for each other, and no segment is cut shorter than *)
(* it was run but one that is cut at both ends.                               *)
THEOREM CutsAlwaysFit == Spec => []CutsFit
<1>1. Init => Sound(queue, nextId) /\ Fits(queue)
  BY InitIsSound, InitFitsAll
<1>2. Sound(queue, nextId) /\ Fits(queue) => CutsFit
  BY FitsSuffices
<1>3. QED
  BY <1>1, <1>2, NextKeepsSound, PTL DEF Spec

(* And every arc keeps the path tolerance of both its neighbours, and its     *)
(* planned speed the acceleration towards its center (blendComputeParameters).*)
THEOREM ArcsAreAllowed == Spec => []ArcAllowed
<1>1. Init => Sound(queue, nextId) /\ Fits(queue)
  BY InitIsSound, InitFitsAll
<1>2. Sound(queue, nextId) /\ Fits(queue) => ArcAllowed
  BY FitsSuffices
<1>3. QED
  BY <1>1, <1>2, NextKeepsSound, PTL DEF Spec
=============================================================================
