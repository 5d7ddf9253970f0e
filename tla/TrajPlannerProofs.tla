--------------------------- MODULE TrajPlannerProofs ---------------------------
(* Proofs about the coordinated planner of src/tp/tp.c, for every queue size, *)
(* period, length, speed and acceleration.  currentPos never parts from the   *)
(* path: what is left to goalPos is what is left of the queued segments, and  *)
(* no segment is driven past its end or backwards.  And the planner is the    *)
(* queue that the motion controller takes it for.                             *)
EXTENDS TrajPlanner, SequenceTheorems, WellFoundedInduction, TLAPS

------------------------------------------------------------------------------
(* Sequences as functions on indices.                                         *)

(* A function on 1 .. n is a sequence of length n.                            *)
LEMMA FunIsSeq ==
  ASSUME NEW S, NEW n \in Nat, NEW g \in [1 .. n -> S]
  PROVE  g \in Seq(S) /\ Len(g) = n
<1>1. g \in Seq(S)  OBVIOUS
<1>2. Len(g) = n  BY <1>1
<1> QED  BY <1>1, <1>2

------------------------------------------------------------------------------
(* Induction.                                                                 *)

(* A set of naturals that is not empty has a least element.                   *)
LEMMA HasLeast ==
  ASSUME NEW T, T \subseteq Nat, T # {}
  PROVE  \E x \in T : \A y \in T : x <= y
<1>1. PICK R : R = OpToRel(<, Nat)  OBVIOUS
<1>2. IsWellFoundedOn(R, Nat)  BY <1>1, NatLessThanWellFounded
<1>3. \E x \in T : \A y \in T : ~ (<<y, x>> \in R)  BY <1>2, WFMin
<1>4. \A x \in Nat, y \in Nat : y < x => <<y, x>> \in R  BY <1>1 DEF OpToRel
<1>5. PICK x \in T : \A y \in T : ~ (<<y, x>> \in R)  BY <1>3
<1>6. ASSUME NEW y \in T PROVE x <= y
  <2>1. x \in Nat /\ y \in Nat /\ ~(y < x)  BY <1>4, <1>5, <1>6
  <2> QED  BY <2>1
<1> QED  BY <1>6

(* A set with 0 in it, and with every n the number after it, holds every      *)
(* natural number.                                                            *)
LEMMA SetInduction ==
  ASSUME NEW S, 0 \in S, \A n \in Nat : n \in S => n + 1 \in S
  PROVE  Nat \subseteq S
<1> SUFFICES ASSUME Nat \ S # {} PROVE FALSE  OBVIOUS
<1>1. PICK x \in Nat \ S : \A y \in Nat \ S : x <= y  BY HasLeast
<1>2. x - 1 \in Nat  BY <1>1
<1> QED  BY <1>1, <1>2

(* A bounded set of naturals that is not empty has a greatest element.        *)
LEMMA HasGreatest ==
  ASSUME NEW n \in Nat, NEW T, T \subseteq 0 .. n, T # {}
  PROVE  \E x \in T : \A y \in T : x >= y
<1>1. PICK U : U = {i \in 0 .. n : n - i \in T}  OBVIOUS
<1>2. U \subseteq Nat /\ U # {}
  <2>1. PICK x : x \in T /\ x \in 0 .. n  OBVIOUS
  <2>2. n - x \in 0 .. n /\ n - (n - x) = x  BY <2>1
  <2>3. n - x \in U  BY <1>1, <2>1, <2>2
  <2> QED  BY <1>1, <2>3
<1>3. PICK i \in U : \A j \in U : i <= j  BY <1>2, HasLeast
<1>4. n - i \in T /\ i \in 0 .. n  BY <1>1
<1>5. ASSUME NEW y \in T PROVE n - i >= y
  <2>1. y \in 0 .. n /\ n - y \in 0 .. n /\ n - (n - y) = y  BY <1>5
  <2>2. n - y \in U  BY <1>1, <1>5, <2>1
  <2>3. i <= n - y  BY <1>3, <2>2
  <2> QED  BY <1>4, <2>1, <2>3
<1> QED  BY <1>4, <1>5

------------------------------------------------------------------------------
(* Whole numbers.                                                             *)

(* What a division leaves over is less than the divisor.                      *)
LEMMA DivBounds ==
  ASSUME NEW x \in Int, NEW d \in Nat \ {0}
  PROVE  x \div d \in Int /\ d * (x \div d) <= x /\ x < d * (x \div d) + d
  BY Z3

(* A quotient of naturals is one.                                             *)
LEMMA DivIsNat ==
  ASSUME NEW x \in Nat, NEW d \in Nat \ {0}
  PROVE  x \div d \in Nat
  BY Z3

(* A multiple of d below the next multiple of d.                              *)
LEMMA MulCancel ==
  ASSUME NEW d \in Nat \ {0}, NEW x \in Int, NEW y \in Int, d * x < d * y + d
  PROVE  x <= y
  BY Z3

------------------------------------------------------------------------------
(* Recursion over 0 .. N.                                                     *)

(* A function whose value at n is got from n and its value at n - 1.          *)
Unrolls(S, N, x, g) ==
  \E f \in [0 .. N -> S] : f[0] = x /\ \A n \in 1 .. N : f[n] = g[n][f[n - 1]]

(* Such a function exists: it is extended by one place at a time.             *)
LEMMA RecursionExists ==
  ASSUME NEW S, NEW N \in Nat, NEW x \in S, NEW g \in [1 .. N -> [S -> S]]
  PROVE  Unrolls(S, N, x, g)
<1> DEFINE Upto(n) == \E f \in [0 .. n -> S] : f[0] = x /\ \A i \in 1 .. n : f[i] = g[i][f[i - 1]]
<1>1. PICK T : T = {n \in Nat : n <= N => Upto(n)}
  OBVIOUS
<1>2. 0 \in T
  <2>1. PICK f : f = [i \in 0 .. 0 |-> x]
    OBVIOUS
  <2>2. f \in [0 .. 0 -> S] /\ f[0] = x /\ 1 .. 0 = {}
    BY <2>1
  <2>3. Upto(0)
    BY <2>2
  <2>4. QED
    BY <1>1, <2>3
<1>3. ASSUME NEW n \in Nat, n \in T PROVE n + 1 \in T
  <2>1. CASE ~(n + 1 <= N)
    BY <1>1, <2>1
  <2>2. CASE n + 1 <= N
    <3>1. PICK f \in [0 .. n -> S] : f[0] = x /\ \A i \in 1 .. n : f[i] = g[i][f[i - 1]]
      BY <1>1, <1>3, <2>2
    <3>2. PICK y : y = g[n + 1][f[n]]
      OBVIOUS
    <3>3. y \in S
      <4>1. n + 1 \in 1 .. N /\ f[n] \in S
        BY <2>2
      <4>2. QED
        BY <3>2, <4>1
    <3>4. PICK h : h = [i \in 0 .. n + 1 |-> IF i <= n THEN f[i] ELSE y]
      OBVIOUS
    <3>5. h \in [0 .. n + 1 -> S]
      <4>1. \A i \in 0 .. n + 1 : i <= n => f[i] \in S
        OBVIOUS
      <4>2. QED
        BY <3>3, <3>4, <4>1
    <3>6. h[0] = x
      BY <3>1, <3>4
    <3>7. ASSUME NEW i \in 1 .. n + 1 PROVE h[i] = g[i][h[i - 1]]
      <4>1. i - 1 \in 0 .. n + 1 /\ i - 1 <= n
        OBVIOUS
      <4>2. h[i - 1] = f[i - 1]
        BY <3>4, <4>1
      <4>3. CASE i <= n
        <5>1. i \in 1 .. n
          BY <4>3
        <5>2. h[i] = f[i] /\ f[i] = g[i][f[i - 1]]
          BY <3>1, <3>4, <5>1
        <5>3. QED
          BY <4>2, <5>2
      <4>4. CASE i = n + 1
        <5>1. h[i] = y /\ h[i - 1] = f[n]
          BY <3>4, <4>2, <4>4
        <5>2. QED
          BY <3>2, <4>4, <5>1
      <4>5. QED
        BY <4>3, <4>4
    <3>8. Upto(n + 1)
      BY <3>5, <3>6, <3>7
    <3>9. n + 1 \in Nat
      OBVIOUS
    <3>10. QED
      BY <1>1, <3>8, <3>9, Zenon
  <2>3. QED
    BY <2>1, <2>2
<1>4. Nat \subseteq T
  BY <1>2, <1>3, SetInduction
<1>5. N \in T /\ N <= N
  BY <1>4
<1>6. QED
  BY <1>1, <1>5 DEF Unrolls

------------------------------------------------------------------------------
(* Totals of sequences.                                                       *)

(* A total is got by adding one element after the other.                      *)
LEMMA TotalSteps ==
  ASSUME NEW s \in Seq(Int)
  PROVE  \E U \in [0 .. Len(s) -> Int] :
           U[0] = 0 /\ (\A n \in 1 .. Len(s) : U[n] = U[n - 1] + s[n]) /\ Total(s) = U[Len(s)]
<1>1. PICK g : g = [n \in 1 .. Len(s) |-> [y \in Int |-> y + s[n]]]
  OBVIOUS
<1>2. Len(s) \in Nat
  OBVIOUS
<1>3. \A n \in 1 .. Len(s), y \in Int : g[n][y] = y + s[n]
  BY <1>1
<1>31. \A n \in 1 .. Len(s), y \in Int : g[n][y] \in Int
  <2> TAKE n \in 1 .. Len(s), y \in Int
  <2>1. s[n] \in Int /\ g[n][y] = y + s[n]
    BY <1>3
  <2>2. QED
    BY <2>1
<1>32. PICK N \in Nat : N = Len(s)
  BY <1>2
<1>4. PICK f \in [0 .. Len(s) -> Int] : f[0] = 0 /\ \A n \in 1 .. Len(s) : f[n] = g[n][f[n - 1]]
  <2>1. \E f \in [0 .. N -> Int] : f[0] = 0 /\ \A n \in 1 .. N : f[n] = g[n][f[n - 1]]
    <3>1. \A n \in 1 .. N, y \in Int : g[n][y] \in Int
      BY <1>31, <1>32
    <3>2. PICK S : S = Int
      OBVIOUS
    <3>3. PICK z : z = 0
      OBVIOUS
    <3>31. z \in S /\ N \in Nat /\ g \in [1 .. N -> [S -> S]]
      BY <1>31, <1>1, <1>32, <3>2, <3>3
    <3>4. Unrolls(S, N, z, g)
      BY <3>31, RecursionExists
    <3>5. QED
      BY <3>2, <3>3, <3>4 DEF Unrolls
  <2>2. QED
    BY <2>1, <1>32
<1>5. \A n \in 1 .. Len(s) : f[n] = f[n - 1] + s[n]
  <2> TAKE n \in 1 .. Len(s)
  <2>1. f[n - 1] \in Int
    BY <1>2
  <2>2. QED
    BY <1>3, <1>4, <2>1
<1>6. f = [n \in 0 .. Len(s) |-> IF n = 0 THEN 0 ELSE f[n - 1] + s[n]]
  BY <1>2, <1>4, <1>5
<1> DEFINE U == CHOOSE h : h = [n \in 0 .. Len(s) |-> IF n = 0 THEN 0 ELSE h[n - 1] + s[n]]
<1>7. U = [n \in 0 .. Len(s) |-> IF n = 0 THEN 0 ELSE U[n - 1] + s[n]]
  BY <1>6, Zenon
<1>8. Total(s) = U[Len(s)]
  BY Zenon DEF Total
<1> HIDE DEF U
<1>9. U[0] = 0 /\ \A n \in 1 .. Len(s) : U[n] = U[n - 1] + s[n]
  <2>1. 0 \in 0 .. Len(s)
    BY <1>2
  <2>2. \A n \in 1 .. Len(s) : n \in 0 .. Len(s) /\ n # 0
    BY <1>2
  <2>3. QED
    BY <1>7, <2>1, <2>2, Zenon
<1>10. PICK T : T = {n \in Nat : n <= Len(s) => U[n] = f[n]}
  OBVIOUS
<1>11. 0 \in T
  BY <1>4, <1>9, <1>10
<1>12. ASSUME NEW n \in Nat, n \in T PROVE n + 1 \in T
  <2>1. CASE n + 1 <= Len(s)
    <3>1. n + 1 \in 1 .. Len(s) /\ (n + 1) - 1 = n /\ n <= Len(s)
      BY <1>2, <2>1
    <3>2. U[n + 1] = U[(n + 1) - 1] + s[n + 1] /\ f[n + 1] = f[(n + 1) - 1] + s[n + 1]
      BY <1>5, <1>9, <3>1, Zenon
    <3>3. U[n] = f[n]
      BY <1>10, <1>12, <3>1
    <3>4. QED
      BY <1>10, <3>1, <3>2, <3>3
  <2>2. CASE ~(n + 1 <= Len(s))
    BY <1>10, <2>2
  <2>3. QED
    BY <2>1, <2>2
<1>13. Nat \subseteq T
  BY <1>11, <1>12, SetInduction
<1>14. Len(s) \in T /\ Len(s) <= Len(s)
  BY <1>2, <1>13
<1>15. QED
  BY <1>4, <1>5, <1>8, <1>10, <1>14

(* Totals add up place by place.                                              *)
LEMMA TotalOfSum ==
  ASSUME NEW s \in Seq(Int), NEW t \in Seq(Int), NEW u \in Seq(Int),
         Len(s) = Len(u), Len(t) = Len(u),
         \A n \in 1 .. Len(u) : u[n] = s[n] + t[n]
  PROVE  Total(u) = Total(s) + Total(t) /\ Total(s) \in Int /\ Total(t) \in Int
<1>1. PICK N \in Nat : N = Len(u)
  OBVIOUS
<1>2. PICK S \in [0 .. N -> Int] :
        S[0] = 0 /\ (\A n \in 1 .. N : S[n] = S[n - 1] + s[n]) /\ Total(s) = S[N]
  BY <1>1, TotalSteps
<1>3. PICK T \in [0 .. N -> Int] :
        T[0] = 0 /\ (\A n \in 1 .. N : T[n] = T[n - 1] + t[n]) /\ Total(t) = T[N]
  BY <1>1, TotalSteps
<1>4. PICK U \in [0 .. N -> Int] :
        U[0] = 0 /\ (\A n \in 1 .. N : U[n] = U[n - 1] + u[n]) /\ Total(u) = U[N]
  BY <1>1, TotalSteps
<1>5. PICK R : R = {n \in Nat : n <= N => U[n] = S[n] + T[n]}
  OBVIOUS
<1>6. 0 \in R
  BY <1>2, <1>3, <1>4, <1>5
<1>7. ASSUME NEW n \in Nat, n \in R PROVE n + 1 \in R
  <2>1. CASE n + 1 <= N
    <3>1. n + 1 \in 1 .. N /\ (n + 1) - 1 = n /\ n \in 0 .. N
      BY <2>1
    <3>2. S[n + 1] = S[n] + s[n + 1] /\ T[n + 1] = T[n] + t[n + 1] /\ U[n + 1] = U[n] + u[n + 1]
      BY <1>2, <1>3, <1>4, <3>1, Zenon
    <3>3. U[n] = S[n] + T[n] /\ u[n + 1] = s[n + 1] + t[n + 1]
      BY <1>1, <1>5, <1>7, <3>1
    <3>4. S[n] \in Int /\ T[n] \in Int
      BY <3>1
    <3>41. s[n + 1] \in Int /\ t[n + 1] \in Int
      <4>1. n + 1 \in 1 .. Len(s) /\ n + 1 \in 1 .. Len(t)
        BY <1>1, <3>1
      <4>2. s[n + 1] \in Int
        BY <4>1, ElementOfSeq
      <4>3. t[n + 1] \in Int
        BY <4>1, ElementOfSeq
      <4>4. QED
        BY <4>2, <4>3
    <3>5. U[n + 1] = S[n + 1] + T[n + 1]
      <4>1. U[n + 1] = (S[n] + T[n]) + (s[n + 1] + t[n + 1])
        BY <3>2, <3>3, Zenon
      <4>2. S[n + 1] + T[n + 1] = (S[n] + s[n + 1]) + (T[n] + t[n + 1])
        BY <3>2, Zenon
      <4>3. \A a, b, c, d \in Int : (a + b) + (c + d) = (a + c) + (b + d)
        OBVIOUS
      <4>4. (S[n] + T[n]) + (s[n + 1] + t[n + 1]) = (S[n] + s[n + 1]) + (T[n] + t[n + 1])
        BY ONLY <3>4, <3>41, <4>3, ZenonT(60)
      <4>5. QED
        BY ONLY <4>1, <4>2, <4>4, Zenon
    <3>6. QED
      BY <1>5, <3>5
  <2>2. CASE ~(n + 1 <= N)
    BY <1>5, <2>2
  <2>3. QED
    BY <2>1, <2>2
<1>8. Nat \subseteq R
  BY <1>6, <1>7, SetInduction
<1>9. N \in R /\ N <= N
  BY <1>8
<1>10. QED
  BY <1>2, <1>3, <1>4, <1>5, <1>9

(* The total of naturals is one.                                              *)
LEMMA TotalIsNat ==
  ASSUME NEW s \in Seq(Nat)
  PROVE  Total(s) \in Nat
<1>1. s \in Seq(Int)
  OBVIOUS
<1>2. PICK N \in Nat : N = Len(s)
  OBVIOUS
<1>3. PICK S \in [0 .. N -> Int] :
        S[0] = 0 /\ (\A n \in 1 .. N : S[n] = S[n - 1] + s[n]) /\ Total(s) = S[N]
  BY <1>1, <1>2, TotalSteps
<1>4. PICK R : R = {n \in Nat : n <= N => S[n] >= 0}
  OBVIOUS
<1>5. 0 \in R
  BY <1>3, <1>4
<1>6. ASSUME NEW n \in Nat, n \in R PROVE n + 1 \in R
  <2>1. CASE n + 1 <= N
    <3>1. n + 1 \in 1 .. N /\ (n + 1) - 1 = n /\ n \in 0 .. N
      BY <2>1
    <3>2. S[n + 1] = S[n] + s[n + 1]
      BY <1>3, <3>1, Zenon
    <3>3. S[n] >= 0 /\ S[n] \in Int /\ s[n + 1] \in Nat
      BY <1>2, <1>4, <1>6, <3>1
    <3>4. QED
      BY <1>4, <3>2, <3>3
  <2>2. CASE ~(n + 1 <= N)
    BY <1>4, <2>2
  <2>3. QED
    BY <2>1, <2>2
<1>7. Nat \subseteq R
  BY <1>5, <1>6, SetInduction
<1>8. N \in R /\ N <= N
  BY <1>7
<1>9. QED
  BY <1>3, <1>4, <1>8

(* The total of a sequence that grows by one element.                         *)
LEMMA TotalOfLonger ==
  ASSUME NEW s \in Seq(Int), NEW t \in Seq(Int), Len(t) = Len(s) + 1,
         \A n \in 1 .. Len(s) : t[n] = s[n]
  PROVE  Total(t) = Total(s) + t[Len(t)] /\ Total(s) \in Int
<1>1. PICK N \in Nat : N = Len(s)
  OBVIOUS
<1>2. PICK S \in [0 .. N -> Int] :
        S[0] = 0 /\ (\A n \in 1 .. N : S[n] = S[n - 1] + s[n]) /\ Total(s) = S[N]
  BY <1>1, TotalSteps
<1>3. PICK T \in [0 .. N + 1 -> Int] :
        T[0] = 0 /\ (\A n \in 1 .. N + 1 : T[n] = T[n - 1] + t[n]) /\ Total(t) = T[N + 1]
  BY <1>1, TotalSteps
<1>4. PICK R : R = {n \in Nat : n <= N => T[n] = S[n]}
  OBVIOUS
<1>5. 0 \in R
  BY <1>2, <1>3, <1>4
<1>6. ASSUME NEW n \in Nat, n \in R PROVE n + 1 \in R
  <2>1. CASE n + 1 <= N
    <3>1. n + 1 \in 1 .. N /\ n + 1 \in 1 .. N + 1 /\ (n + 1) - 1 = n
      BY <2>1
    <3>2. S[n + 1] = S[n] + s[n + 1] /\ T[n + 1] = T[n] + t[n + 1]
      BY <1>2, <1>3, <3>1, Zenon
    <3>3. T[n] = S[n] /\ t[n + 1] = s[n + 1]
      BY <1>1, <1>4, <1>6, <3>1
    <3>4. T[n + 1] = S[n + 1]
      BY <3>2, <3>3
    <3>5. QED
      BY <1>4, <3>4
  <2>2. CASE ~(n + 1 <= N)
    BY <1>4, <2>2
  <2>3. QED
    BY <2>1, <2>2
<1>7. Nat \subseteq R
  BY <1>5, <1>6, SetInduction
<1>8. T[N] = S[N]
  <2>1. N \in R /\ N <= N
    BY <1>7
  <2>2. QED
    BY <1>4, <2>1
<1>9. T[N + 1] = T[N] + t[N + 1]
  <2>1. N + 1 \in 1 .. N + 1
    BY ONLY N \in Nat
  <2>2. (N + 1) - 1 = N
    BY ONLY N \in Nat
  <2>3. QED
    BY <1>3, <2>1, <2>2, Zenon
<1>10. QED
  BY <1>1, <1>2, <1>3, <1>8, <1>9

(* The total of a sequence that loses its first element.                      *)
LEMMA TotalOfRest ==
  ASSUME NEW s \in Seq(Int), NEW t \in Seq(Int), Len(s) = Len(t) + 1,
         \A n \in 1 .. Len(t) : t[n] = s[n + 1]
  PROVE  Total(s) = s[1] + Total(t) /\ Total(t) \in Int
<1>1. PICK N \in Nat : N = Len(t)
  OBVIOUS
<1>2. PICK S \in [0 .. N + 1 -> Int] :
        S[0] = 0 /\ (\A n \in 1 .. N + 1 : S[n] = S[n - 1] + s[n]) /\ Total(s) = S[N + 1]
  BY <1>1, TotalSteps
<1>3. PICK T \in [0 .. N -> Int] :
        T[0] = 0 /\ (\A n \in 1 .. N : T[n] = T[n - 1] + t[n]) /\ Total(t) = T[N]
  BY <1>1, TotalSteps
<1>4. PICK R : R = {n \in Nat : n <= N => S[n + 1] = s[1] + T[n]}
  OBVIOUS
<1>41. s[1] \in Int
  BY <1>1
<1>5. 0 \in R
  <2>1. 1 \in 1 .. N + 1 /\ 1 - 1 = 0 /\ 0 + 1 = 1
    OBVIOUS
  <2>2. S[1] = S[0] + s[1]
    BY <1>2, <2>1, Zenon
  <2>3. QED
    BY <1>2, <1>3, <1>4, <1>41, <2>1, <2>2
<1>6. ASSUME NEW n \in Nat, n \in R PROVE n + 1 \in R
  <2>1. CASE n + 1 <= N
    <3>1. /\ n + 1 \in 1 .. N /\ n + 2 \in 1 .. N + 1
          /\ (n + 1) - 1 = n /\ (n + 2) - 1 = n + 1 /\ (n + 1) + 1 = n + 2
      BY <2>1
    <3>2. S[n + 2] = S[n + 1] + s[n + 2] /\ T[n + 1] = T[n] + t[n + 1]
      BY <1>2, <1>3, <3>1, Zenon
    <3>3. S[n + 1] = s[1] + T[n] /\ t[n + 1] = s[n + 2]
      BY <1>1, <1>4, <1>6, <3>1
    <3>4. T[n] \in Int
      BY <3>1
    <3>41. t[n + 1] \in Int
      <4>1. n + 1 \in 1 .. Len(t)
        BY <1>1, <3>1
      <4>2. QED
        BY <4>1
    <3>5. S[n + 2] = s[1] + T[n + 1]
      <4>1. S[n + 2] = (s[1] + T[n]) + t[n + 1] /\ s[1] + T[n + 1] = s[1] + (T[n] + t[n + 1])
        BY <3>2, <3>3, Zenon
      <4>2. \A a, b, c \in Int : (a + b) + c = a + (b + c)
        OBVIOUS
      <4>3. QED
        BY <1>41, <3>4, <3>41, <4>1, <4>2, Zenon
    <3>6. QED
      BY <1>4, <3>1, <3>5
  <2>2. CASE ~(n + 1 <= N)
    BY <1>4, <2>2
  <2>3. QED
    BY <2>1, <2>2
<1>7. Nat \subseteq R
  BY <1>5, <1>6, SetInduction
<1>8. N \in R /\ N <= N
  BY <1>7
<1>9. QED
  BY <1>2, <1>3, <1>4, <1>8

------------------------------------------------------------------------------
(* Numbers.                                                                   *)

(* The least of some naturals is one of them.                                 *)
LEMMA MinIsOne ==
  ASSUME NEW T, T \subseteq Nat, T # {}
  PROVE  Min(T) \in T /\ Min(T) \in Nat
<1>1. \E x \in T : \A y \in T : x <= y
  BY HasLeast
<1>2. Min(T) \in T
  BY <1>1 DEF Min
<1>3. QED
  BY <1>2

(* The root of a natural is a natural.                                        *)
LEMMA RootIsNat ==
  ASSUME NEW x \in Nat
  PROVE  FloorSqrt(x) \in Nat
<1>1. PICK T : T = {r \in 0 .. x : r * r <= x}
  OBVIOUS
<1>2. T \subseteq 0 .. x /\ 0 \in T
  BY <1>1
<1>3. PICK r \in T : \A y \in T : r >= y
  BY <1>2, HasGreatest
<1>4. r \in 0 .. x /\ r * r <= x
  BY <1>1, <1>3
<1>5. x < (r + 1) * (r + 1)
  <2>1. CASE r + 1 <= x
    <3>1. r + 1 \in 0 .. x /\ ~(r + 1 \in T)
      BY <1>3, <1>4, <2>1
    <3>2. ~((r + 1) * (r + 1) <= x)
      BY <1>1, <3>1, Zenon
    <3>3. (r + 1) * (r + 1) \in Int
      BY <1>4
    <3>4. QED
      BY <3>2, <3>3
  <2>2. CASE r = x
    BY <2>2, Z3
  <2>3. QED
    BY <1>4, <2>1, <2>2
<1>6. \E k \in 0 .. x : Square(k) <= x /\ x < Square(k + 1)
  BY <1>4, <1>5, Zenon DEF Square
<1>7. FloorSqrt(x) \in 0 .. x
  BY <1>6, Zenon DEF FloorSqrt
<1>8. QED
  BY <1>7

(* A rounded speed is an integer.                                             *)
LEMMA SpeedIsInt ==
  ASSUME NEW n \in Int, NEW d \in Nat \ {0}
  PROVE  Speed(n, d) \in Int
<1>1. PICK k \in Int : k = n \div d
  BY DivBounds
<1>2. \E x \in {1, k} : \A y \in {1, k} : x >= y
  OBVIOUS
<1>3. Max({1, k}) \in {1, k}
  BY <1>2 DEF Max
<1>4. Max({1, k}) \in Int
  BY <1>3
<1>5. QED
  BY <1>1, <1>4, Zenon DEF Speed

(* A number cut off at both sides is an integer.                              *)
LEMMA SaturateIsInt ==
  ASSUME NEW x \in Int, NEW max \in Int
  PROVE  saturate(x, max) \in Int
  BY DEF saturate

------------------------------------------------------------------------------
(* Segments.                                                                  *)

(* A segment that is not driven past its end, and is at its end once it is    *)
(* to be removed.                                                             *)
Placed == {tc \in Segments : tc.progress <= tc.target /\ (tc.remove => tc.progress = tc.target)}

(* A step may change everything of a segment but its length, and does not     *)
(* move it back.                                                              *)
Advanced(new, old) ==
  new \in Placed /\ new.target = old.target /\ new.progress >= old.progress

(* A step that does not move the segment either.                              *)
Kept(new, old) ==
  new \in Placed /\ new.target = old.target /\ new.progress = old.progress

(* The numbers of a segment.                                                  *)
LEMMA PlacedHas ==
  ASSUME NEW tc \in Placed
  PROVE  /\ tc.target \in Nat /\ tc.target > 0
         /\ tc.progress \in Nat /\ tc.progress <= tc.target
         /\ tc.remove => tc.progress = tc.target
         /\ tc.reqvel \in Nat /\ tc.maxvel \in Nat /\ tc.currentvel \in Nat
         /\ tc.finalvel \in Nat /\ tc.term_vel \in Nat
         /\ tc.cycle_time \in 0 .. Period
         /\ tcGetDistanceToGo(tc) \in Nat
<1>1. tc \in Segments /\ tc.progress <= tc.target /\ (tc.remove => tc.progress = tc.target)
  BY DEF Placed
<1>2. tc.target \in Lengths \ {0} /\ tc.progress \in Nat
  BY <1>1 DEF Segments
<1>3. tc.reqvel \in Vels
  BY <1>1 DEF Segments
<1>4. /\ tc.maxvel \in Nat /\ tc.currentvel \in Nat
      /\ tc.finalvel \in Nat /\ tc.term_vel \in Nat
      /\ tc.cycle_time \in 0 .. Period
  BY <1>1 DEF Segments
<1>5. tc.target \in Nat /\ tc.target > 0 /\ tc.reqvel \in Nat
  <2>1. PICK t : t = tc.target
    OBVIOUS
  <2>2. t \in Nat /\ t # 0
    BY <1>2, <2>1, LengthsPositive
  <2>3. tc.reqvel \in Nat
    BY <1>3, SpeedsPositive
  <2>4. QED
    BY <2>1, <2>2, <2>3
<1>6. tcGetDistanceToGo(tc) \in Nat
  BY <1>1, <1>2, <1>5 DEF tcGetDistanceToGo
<1>7. QED
  BY <1>1, <1>2, <1>4, <1>5, <1>6

(* Its tangential acceleration.                                               *)
LEMMA AccelIsNat ==
  ASSUME NEW tc
  PROVE  tcGetTangentialMaxAccel(tc) \in Nat
  BY AccelsDivide DEF tcGetTangentialMaxAccel

(* The speed it is allowed at most, and the one it is driven at.              *)
LEMMA TargetVelIsNat ==
  ASSUME NEW tc \in Placed
  PROVE  tpGetMaxTargetVel(tc) \in Nat /\ tpGetRealTargetVel(tc) \in Nat
<1>1. tc.reqvel \in Nat /\ tc.maxvel \in Nat /\ VLimit \in Nat
  BY PlacedHas, SpeedsPositive
<1>2. tpGetMaxTargetVel(tc) \in Nat
  BY <1>1 DEF tpGetMaxTargetVel, Least
<1>3. QED
  BY <1>1, <1>2 DEF tpGetRealTargetVel, Least

(* The speed at which it ends.                                                *)
LEMMA FinalVelIsNat ==
  ASSUME NEW tc \in Placed, NEW next, Range(next) \subseteq Placed
  PROVE  tpGetRealFinalVel(tc, next) \in Nat
<1>1. PICK T : T = {tc.finalvel, tpGetRealTargetVel(tc)} \cup {tpGetRealTargetVel(n) : n \in Range(next)}
  OBVIOUS
<1>2. T \subseteq Nat /\ T # {}
  BY <1>1, PlacedHas, TargetVelIsNat
<1>3. Min(T) \in Nat
  BY <1>2, MinIsOne
<1>4. QED
  BY <1>1, <1>3 DEF tpGetRealFinalVel

------------------------------------------------------------------------------
(* Adding a move.                                                             *)

(* What SampleMaxvel allows is a natural.                                     *)
LEMMA SampleIsNat ==
  ASSUME NEW len \in Nat
  PROVE  SampleMaxvel(len) \in Nat
<1>1. 2 * Period \in Nat \ {0}
  BY PeriodIsPositive
<1>2. QED
  BY <1>1, DivIsNat DEF SampleMaxvel

(* A new segment is at its start.                                             *)
LEMMA NewIsPlaced ==
  ASSUME NEW len \in Lengths, NEW vel \in Vels, NEW kind \in Kinds, NEW canon \in CanonTypes,
         len # 0
  PROVE  /\ NewSegment(len, vel, kind, canon) \in Placed
         /\ NewSegment(len, vel, kind, canon).target = len
         /\ NewSegment(len, vel, kind, canon).progress = 0
<1>1. len \in Nat /\ len \in Lengths \ {0}
  BY LengthsPositive
<1>2. PICK m \in Nat : m = Least(MaxVel, SampleMaxvel(len))
  <2>1. SampleMaxvel(len) \in Nat /\ MaxVel \in Nat
    BY <1>1, SampleIsNat, SpeedsPositive
  <2>2. Least(MaxVel, SampleMaxvel(len)) \in Nat
    BY <2>1 DEF Least
  <2>3. QED
    BY <2>2
<1>3. Period \in 0 .. Period
  BY PeriodIsPositive
<1>4. PICK tc : tc = NewSegment(len, vel, kind, canon)
  OBVIOUS
<1>5. /\ tc.target = len /\ tc.progress = 0 /\ tc.remove = FALSE
      /\ tc \in Segments
  BY <1>1, <1>2, <1>3, <1>4 DEF NewSegment, Segments
<1>6. tc \in Placed
  BY <1>1, <1>5 DEF Placed
<1>7. QED
  BY <1>4, <1>5, <1>6

(* The end of a segment may be made a stop, and its length final.             *)
LEMMA FinalizeKeeps ==
  ASSUME NEW prev \in Placed, NEW tc
  PROVE  Kept(tcFinalizeLength(handleModeChange(prev, tc)), prev)
<1>1. PICK p : p = handleModeChange(prev, tc)
  OBVIOUS
<1>2. Kept(p, prev)
  BY <1>1 DEF handleModeChange, Kept, Placed, Segments
<1>3. p \in Placed /\ p.target = prev.target /\ p.progress = prev.progress
  BY <1>2 DEF Kept
<1>4. PICK m \in Nat : m = CircleMaxvel(p, Least(p.maxvel, SampleMaxvel(p.target)))
  <2>1. SampleMaxvel(p.target) \in Nat /\ p.maxvel \in Nat /\ CircleVel \in Nat
    BY <1>3, PlacedHas, SampleIsNat, SpeedsPositive
  <2>2. QED
    BY <2>1 DEF Least, CircleMaxvel
<1>5. PICK f : f = [p EXCEPT !.finalized = TRUE, !.maxvel = m]
  OBVIOUS
<1>6. Kept(f, p)
  BY <1>3, <1>5 DEF Kept, Placed, Segments
<1>7. tcFinalizeLength(p) = p \/ tcFinalizeLength(p) = f
  BY <1>4, <1>5 DEF tcFinalizeLength
<1>8. QED
  BY <1>1, <1>2, <1>3, <1>6, <1>7 DEF Kept

(* A segment whose speeds are looked at again.                                *)
LEMMA NewSpeedsKeep ==
  ASSUME NEW tc \in Placed, NEW v \in Nat
  PROVE  Kept([tc EXCEPT !.finalvel = v], tc) /\ Kept([tc EXCEPT !.maxvel = v], tc)
<1>1. Kept([tc EXCEPT !.finalvel = v], tc)
  BY DEF Kept, Placed, Segments
<1>2. Kept([tc EXCEPT !.maxvel = v], tc)
  BY DEF Kept, Placed, Segments
<1>3. QED
  BY <1>1, <1>2

(* The speed up to which tc may start.                                        *)
LEMMA InitialVelIsNat ==
  ASSUME NEW tc \in Placed
  PROVE  tpCalculateOptimizationInitialVel(tc) \in Nat
<1>1. PICK p : p = tcGetTangentialMaxAccel(tc) * tc.target
  OBVIOUS
<1>2. p \in Nat
  BY <1>1, AccelIsNat, PlacedHas, Z3
<1>3. 2 * Period \in Nat \ {0}
  BY PeriodIsPositive
<1>4. PICK r : r = FloorSqrt(p \div (2 * Period))
  OBVIOUS
<1>5. r \in Nat
  BY <1>2, <1>3, <1>4, DivIsNat, RootIsNat
<1>6. tpGetMaxTargetVel(tc) \in Nat
  BY TargetVelIsNat
<1>7. Least(r, tpGetMaxTargetVel(tc)) \in Nat
  BY <1>5, <1>6 DEF Least
<1>8. QED
  BY <1>1, <1>4, <1>7, Zenon DEF tpCalculateOptimizationInitialVel

(* The speed at which prev may end.                                           *)
LEMMA OptimalVelIsNat ==
  ASSUME NEW prev \in Placed, NEW tc \in Placed
  PROVE  OptimalVel(prev, tc) \in Nat
<1>1. PICK p : p = tcGetTangentialMaxAccel(tc) * tc.target
  OBVIOUS
<1>2. p \in Nat
  BY <1>1, AccelIsNat, PlacedHas, Z3
<1>3. p \div Period \in Nat
  BY <1>2, DivIsNat, PeriodIsPositive
<1>4. Square(tc.finalvel) \in Nat
  <2>1. \A k \in Nat : k * k \in Nat
    BY Z3
  <2>2. QED
    BY <2>1, PlacedHas DEF Square
<1>5. PICK x \in Nat : x = Square(tc.finalvel) + p \div Period
  BY <1>3, <1>4
<1>6. PICK T : T = {FloorSqrt(x), tc.maxvel, prev.maxvel}
  OBVIOUS
<1>7. T \subseteq Nat /\ T # {}
  BY <1>6, RootIsNat, PlacedHas
<1>8. Min(T) \in Nat
  BY <1>7, MinIsOne
<1>9. QED
  BY <1>1, <1>5, <1>6, <1>8, Zenon DEF OptimalVel

(* Only the speeds of queued segments are changed.                            *)
AllKept(new, old) ==
  /\ new \in Seq(Placed) /\ Len(new) = Len(old)
  /\ \A i \in 1 .. Len(old) : new[i].target = old[i].target /\ new[i].progress = old[i].progress

(* One segment is replaced.                                                   *)
LEMMA ReplacedIsKept ==
  ASSUME NEW q \in Seq(Placed), NEW i \in 1 .. Len(q), NEW e, Kept(e, q[i])
  PROVE  AllKept([q EXCEPT ![i] = e], q)
<1>1. PICK r : r = [q EXCEPT ![i] = e]
  OBVIOUS
<1>2. e \in Placed /\ e.target = q[i].target /\ e.progress = q[i].progress
  BY DEF Kept
<1>3. r \in Seq(Placed) /\ Len(r) = Len(q)
  BY <1>1, <1>2
<1>4. ASSUME NEW k \in 1 .. Len(q)
      PROVE  r[k].target = q[k].target /\ r[k].progress = q[k].progress
  <2>1. CASE k = i
    BY <1>1, <1>2, <2>1
  <2>2. CASE k # i
    BY <1>1, <2>2
  <2>3. QED
    BY <2>1, <2>2
<1>5. QED
  BY <1>1, <1>3, <1>4 DEF AllKept

(* Twice.                                                                     *)
LEMMA KeptTwice ==
  ASSUME NEW p, NEW q, NEW r, AllKept(p, q), AllKept(q, r)
  PROVE  AllKept(p, r)
<1>1. Len(q) = Len(r) /\ Len(p) = Len(q) /\ p \in Seq(Placed)
  BY DEF AllKept
<1>2. ASSUME NEW i \in 1 .. Len(r)
      PROVE  p[i].target = r[i].target /\ p[i].progress = r[i].progress
  BY <1>1 DEF AllKept
<1>3. QED
  BY <1>1, <1>2 DEF AllKept

(* One round of the optimization.                                             *)
LEMMA OptimizedKeeps ==
  ASSUME NEW q \in Seq(Placed), NEW i \in 2 .. Len(q)
  PROVE  AllKept(Optimized(q, i), q)
<1>1. i \in 1 .. Len(q) /\ i - 1 \in 1 .. Len(q) /\ i - 1 # i
  OBVIOUS
<1>2. q[i] \in Placed /\ q[i - 1] \in Placed
  BY <1>1, ElementOfSeq
<1>3. PICK tc \in Placed : tc = q[i]
  BY <1>2
<1>4. PICK prev \in Placed : prev = q[i - 1]
  BY <1>2
<1>5. ASSUME NEW v \in Nat, NEW e, Kept(e, tc)
      PROVE  AllKept([q EXCEPT ![i - 1] = [prev EXCEPT !.finalvel = v], ![i] = e], q)
  <2>1. PICK p : p = [prev EXCEPT !.finalvel = v]
    OBVIOUS
  <2>2. Kept(p, prev)
    BY <2>1, NewSpeedsKeep
  <2>3. PICK r : r = [q EXCEPT ![i - 1] = p]
    OBVIOUS
  <2>4. AllKept(r, q)
    BY <1>1, <1>4, <2>2, <2>3, ReplacedIsKept
  <2>5. r \in Seq(Placed) /\ i \in 1 .. Len(r) /\ r[i] = tc
    BY <1>1, <1>3, <2>3, <2>4 DEF AllKept
  <2>6. AllKept([r EXCEPT ![i] = e], r)
    BY <1>5, <2>5, ReplacedIsKept
  <2>7. AllKept([r EXCEPT ![i] = e], q)
    BY <2>4, <2>6, KeptTwice
  <2>8. QED
    BY <2>1, <2>3, <2>7
<1>6. CASE ~tc.finalized
  <2>1. PICK v : v = Least(prev.maxvel, tpCalculateOptimizationInitialVel(tc))
    OBVIOUS
  <2>2. v \in Nat
    BY <2>1, InitialVelIsNat, PlacedHas DEF Least
  <2>3. PICK e : e = [tc EXCEPT !.finalvel = 0]
    OBVIOUS
  <2>4. Kept(e, tc)
    BY <2>3, NewSpeedsKeep
  <2>5. Optimized(q, i) = [q EXCEPT ![i - 1].finalvel = v, ![i].finalvel = 0]
    BY <1>3, <1>4, <1>6, <2>1, Zenon DEF Optimized
  <2>6. Optimized(q, i) = [q EXCEPT ![i - 1] = [prev EXCEPT !.finalvel = v], ![i] = e]
    BY <1>1, <1>3, <1>4, <2>3, <2>5
  <2>7. QED
    BY <1>5, <2>2, <2>4, <2>6
<1>7. CASE tc.finalized
  <2>1. PICK v : v = OptimalVel(prev, tc)
    OBVIOUS
  <2>2. v \in Nat
    BY <2>1, OptimalVelIsNat
  <2>3. PICK m : m = Least(tc.maxvel, (25 * tc.target) \div (51 * Period))
    OBVIOUS
  <2>4. m \in Nat
    <3>1. 25 * tc.target \in Nat /\ 51 * Period \in Nat \ {0}
      BY PlacedHas, PeriodIsPositive
    <3>2. (25 * tc.target) \div (51 * Period) \in Nat
      BY <3>1, DivIsNat
    <3>3. QED
      BY <2>3, <3>2, PlacedHas DEF Least
  <2>5. PICK e : e = [tc EXCEPT !.maxvel = m]
    OBVIOUS
  <2>6. Kept(e, tc)
    BY <2>4, <2>5, NewSpeedsKeep
  <2>7. Optimized(q, i) = [q EXCEPT ![i - 1].finalvel = v,
                                    ![i].maxvel = Least(@, (25 * tc.target) \div (51 * Period))]
    BY <1>3, <1>4, <1>7, <2>1, Zenon DEF Optimized
  <2>8. Optimized(q, i) = [q EXCEPT ![i - 1] = [prev EXCEPT !.finalvel = v], ![i] = e]
    BY <1>1, <1>3, <1>4, <2>3, <2>5, <2>7
  <2>9. QED
    BY <1>5, <2>2, <2>6, <2>8
<1>8. QED
  BY <1>6, <1>7

(* The walk back over the queue.                                              *)
LEMMA OptimizationKeeps ==
  ASSUME NEW q \in Seq(Placed)
  PROVE  AllKept(tpRunOptimization(q), q)
<1>1. PICK N \in Nat : N = Len(q)
  OBVIOUS
<1>2. PICK S : S = {w \in [q : Seq(Placed), nonTangent : BOOLEAN, stop : BOOLEAN] : AllKept(w.q, q)}
  OBVIOUS
<1>3. PICK w0 : w0 = [q |-> q, nonTangent |-> FALSE, stop |-> FALSE]
  OBVIOUS
<1>4. w0 \in S
  <2>1. AllKept(q, q)
    BY DEF AllKept
  <2>2. QED
    BY <1>2, <1>3, <2>1
<1>5. ASSUME NEW w \in S, NEW i \in 1 .. N
      PROVE  WalkBack(w, i) \in S
  <2>1. w \in [q : Seq(Placed), nonTangent : BOOLEAN, stop : BOOLEAN] /\ AllKept(w.q, q)
    BY <1>2
  <2>2. ASSUME NEW b \in BOOLEAN PROVE [w EXCEPT !.stop = b, !.nonTangent = TRUE] \in S
    BY <1>2, <2>1
  <2>3. [w EXCEPT !.stop = TRUE] \in S
    BY <1>2, <2>1
  <2>4. ASSUME i >= 2 PROVE [w EXCEPT !.q = Optimized(w.q, i)] \in S
    <3>1. PICK p : p = w.q
      OBVIOUS
    <3>2. p \in Seq(Placed) /\ i \in 2 .. Len(p)
      BY <1>1, <2>1, <2>4, <3>1 DEF AllKept
    <3>3. PICK r : r = Optimized(p, i)
      OBVIOUS
    <3>4. AllKept(r, p)
      BY <3>2, <3>3, OptimizedKeeps
    <3>5. AllKept(r, q)
      BY <2>1, <3>1, <3>4, KeptTwice
    <3>6. r \in Seq(Placed)
      BY <3>5 DEF AllKept
    <3>7. [w EXCEPT !.q = r] \in S
      BY <1>2, <2>1, <3>5, <3>6
    <3>8. QED
      BY <3>1, <3>3, <3>7
  <2>5. w.nonTangent \in BOOLEAN
    BY <2>1
  <2>6. \/ WalkBack(w, i) = w
        \/ WalkBack(w, i) = [w EXCEPT !.stop = w.nonTangent, !.nonTangent = TRUE]
        \/ WalkBack(w, i) = [w EXCEPT !.stop = TRUE]
        \/ ~(i < 2) /\ WalkBack(w, i) = [w EXCEPT !.q = Optimized(w.q, i)]
    BY Zenon DEF WalkBack
  <2>7. [w EXCEPT !.stop = w.nonTangent, !.nonTangent = TRUE] \in S
    BY <2>2, <2>5
  <2>8. ~(i < 2) => i >= 2
    OBVIOUS
  <2>9. QED
    BY <1>5, <2>3, <2>4, <2>6, <2>7, <2>8, Zenon
<1>6. PICK g : g = [x \in 1 .. N |-> [w \in S |-> WalkBack(w, N + 1 - x)]]
  OBVIOUS
<1>7. g \in [1 .. N -> [S -> S]] /\ \A x \in 1 .. N, w \in S : g[x][w] = WalkBack(w, N + 1 - x)
  <2>1. \A x \in 1 .. N : N + 1 - x \in 1 .. N
    OBVIOUS
  <2>2. QED
    BY <1>5, <1>6, <2>1
<1>8. PICK f \in [0 .. N -> S] : f[0] = w0 /\ \A x \in 1 .. N : f[x] = g[x][f[x - 1]]
  <2>1. Unrolls(S, N, w0, g)
    BY <1>4, <1>7, RecursionExists
  <2>2. QED
    BY <2>1 DEF Unrolls
<1>9. \A x \in 1 .. N : f[x] = WalkBack(f[x - 1], N + 1 - x)
  <2> TAKE x \in 1 .. N
  <2>1. f[x - 1] \in S
    BY <1>1
  <2>2. QED
    BY <1>7, <1>8, <2>1
<1>10. f = [x \in 0 .. N |-> IF x = 0 THEN w0 ELSE WalkBack(f[x - 1], N + 1 - x)]
  BY <1>8, <1>9
<1> DEFINE W == CHOOSE h : h = [x \in 0 .. N |-> IF x = 0 THEN w0 ELSE WalkBack(h[x - 1], N + 1 - x)]
<1>11. W = [x \in 0 .. N |-> IF x = 0 THEN w0 ELSE WalkBack(W[x - 1], N + 1 - x)]
  BY <1>10, Zenon
<1>12. tpRunOptimization(q) = W[N].q
  BY <1>1, <1>3, Zenon DEF tpRunOptimization
<1> HIDE DEF W
<1>13. W[0] = w0 /\ \A x \in 1 .. N : W[x] = WalkBack(W[x - 1], N + 1 - x)
  <2>1. 0 \in 0 .. N
    OBVIOUS
  <2>2. \A x \in 1 .. N : x \in 0 .. N /\ x # 0
    OBVIOUS
  <2>3. QED
    BY <1>11, <2>1, <2>2, Zenon
<1>14. PICK T : T = {n \in Nat : n <= N => W[n] \in S}
  OBVIOUS
<1>15. 0 \in T
  BY <1>4, <1>13, <1>14
<1>16. ASSUME NEW n \in Nat, n \in T PROVE n + 1 \in T
  <2>1. CASE n + 1 <= N
    <3>1. n + 1 \in 1 .. N /\ (n + 1) - 1 = n /\ N + 1 - (n + 1) \in 1 .. N
      BY <2>1
    <3>2. W[n + 1] = WalkBack(W[n], N + 1 - (n + 1))
      BY <1>13, <3>1, Zenon
    <3>3. W[n] \in S
      BY <1>14, <1>16, <2>1
    <3>4. W[n + 1] \in S
      BY <1>5, <3>1, <3>2, <3>3
    <3>5. QED
      BY <1>14, <3>4
  <2>2. CASE ~(n + 1 <= N)
    BY <1>14, <2>2
  <2>3. QED
    BY <2>1, <2>2
<1>17. Nat \subseteq T
  BY <1>15, <1>16, SetInduction
<1>18. N \in T /\ N <= N
  BY <1>17
<1>19. W[N] \in S
  BY <1>14, <1>18
<1>20. QED
  BY <1>2, <1>12, <1>19

------------------------------------------------------------------------------
(* The distance along the queue.                                              *)

(* Segments move on and keep their lengths.                                   *)
AllAdvanced(new, old) ==
  /\ new \in Seq(Placed) /\ Len(new) = Len(old)
  /\ \A i \in 1 .. Len(old) :
       new[i].target = old[i].target /\ new[i].progress >= old[i].progress

(* The distances and the progress of the segments form sequences.             *)
LEMMA PlacesAreSeqs ==
  ASSUME NEW q \in Seq(Placed)
  PROVE  /\ [i \in 1 .. Len(q) |-> tcGetDistanceToGo(q[i])] \in Seq(Nat)
         /\ Len([i \in 1 .. Len(q) |-> tcGetDistanceToGo(q[i])]) = Len(q)
         /\ [i \in 1 .. Len(q) |-> q[i].progress] \in Seq(Nat)
         /\ Len([i \in 1 .. Len(q) |-> q[i].progress]) = Len(q)
<1>1. PICK N \in Nat : N = Len(q)
  OBVIOUS
<1>2. \A i \in 1 .. N : q[i] \in Placed
  BY <1>1, ElementOfSeq
<1>3. PICK g : g = [i \in 1 .. N |-> tcGetDistanceToGo(q[i])]
  OBVIOUS
<1>4. g \in [1 .. N -> Nat]
  BY <1>2, <1>3, PlacedHas
<1>5. PICK h : h = [i \in 1 .. N |-> q[i].progress]
  OBVIOUS
<1>6. h \in [1 .. N -> Nat]
  BY <1>2, <1>5, PlacedHas
<1>7. g \in Seq(Nat) /\ Len(g) = N /\ h \in Seq(Nat) /\ Len(h) = N
  BY <1>4, <1>6, FunIsSeq
<1>8. QED
  BY <1>1, <1>3, <1>5, <1>7

(* Sequences of naturals are sequences of integers.                           *)
LEMMA NatSeqIsIntSeq ==
  ASSUME NEW s \in Seq(Nat)
  PROVE  s \in Seq(Int)
  OBVIOUS

(* What is left is a natural, and so is what is done.                         *)
LEMMA PathIsNat ==
  ASSUME NEW q \in Seq(Placed)
  PROVE  ToGo(q) \in Nat /\ Progress(q) \in Nat
<1>1. PICK g : g = [i \in 1 .. Len(q) |-> tcGetDistanceToGo(q[i])]
  OBVIOUS
<1>2. PICK h : h = [i \in 1 .. Len(q) |-> q[i].progress]
  OBVIOUS
<1>3. g \in Seq(Nat) /\ h \in Seq(Nat)
  BY <1>1, <1>2, PlacesAreSeqs
<1>4. Total(g) \in Nat /\ Total(h) \in Nat
  BY <1>3, TotalIsNat
<1>5. QED
  BY <1>1, <1>2, <1>4, Zenon DEF ToGo, Progress

(* New speeds leave what is left.                                             *)
LEMMA KeptToGo ==
  ASSUME NEW p, NEW q, AllKept(p, q)
  PROVE  ToGo(p) = ToGo(q)
<1>1. Len(p) = Len(q)
  BY DEF AllKept
<1>2. \A i \in 1 .. Len(q) : tcGetDistanceToGo(p[i]) = tcGetDistanceToGo(q[i])
  BY DEF AllKept, tcGetDistanceToGo
<1>3. [i \in 1 .. Len(p) |-> tcGetDistanceToGo(p[i])] = [i \in 1 .. Len(q) |-> tcGetDistanceToGo(q[i])]
  BY <1>1, <1>2
<1>4. QED
  BY <1>3, Zenon DEF ToGo

(* A segment at the end adds what it has to go.                               *)
LEMMA AppendedToGo ==
  ASSUME NEW q \in Seq(Placed), NEW tc \in Placed
  PROVE  ToGo(Append(q, tc)) = ToGo(q) + tcGetDistanceToGo(tc)
<1>1. PICK N \in Nat : N = Len(q)
  OBVIOUS
<1>2. PICK r : r = Append(q, tc)
  OBVIOUS
<1>3. /\ r \in Seq(Placed) /\ Len(r) = N + 1 /\ r[N + 1] = tc
      /\ \A i \in 1 .. N : r[i] = q[i]
  BY <1>1, <1>2
<1>4. PICK g : g = [i \in 1 .. Len(q) |-> tcGetDistanceToGo(q[i])]
  OBVIOUS
<1>5. PICK h : h = [i \in 1 .. Len(r) |-> tcGetDistanceToGo(r[i])]
  OBVIOUS
<1>6. g \in Seq(Int) /\ Len(g) = N
  BY <1>1, <1>4, PlacesAreSeqs, NatSeqIsIntSeq
<1>7. h \in Seq(Int) /\ Len(h) = N + 1
  BY <1>3, <1>5, PlacesAreSeqs, NatSeqIsIntSeq
<1>8. \A i \in 1 .. N : h[i] = g[i]
  BY <1>1, <1>3, <1>4, <1>5
<1>9. h[N + 1] = tcGetDistanceToGo(tc)
  BY <1>3, <1>5
<1>10. Total(h) = Total(g) + h[N + 1]
  BY <1>6, <1>7, <1>8, TotalOfLonger
<1>11. QED
  BY <1>2, <1>4, <1>5, <1>9, <1>10, Zenon DEF ToGo

(* A segment at its end can be removed.                                       *)
LEMMA RemovedToGo ==
  ASSUME NEW q \in Seq(Placed), Len(q) > 0, q[1].progress = q[1].target
  PROVE  Tail(q) \in Seq(Placed) /\ Len(Tail(q)) = Len(q) - 1 /\ ToGo(Tail(q)) = ToGo(q)
<1>1. PICK N \in Nat : N = Len(q) - 1
  OBVIOUS
<1>2. PICK r : r = Tail(q)
  OBVIOUS
<1>3. r \in Seq(Placed) /\ Len(r) = N /\ \A i \in 1 .. N : r[i] = q[i + 1]
  BY <1>1, <1>2
<1>4. PICK g : g = [i \in 1 .. Len(q) |-> tcGetDistanceToGo(q[i])]
  OBVIOUS
<1>5. PICK h : h = [i \in 1 .. Len(r) |-> tcGetDistanceToGo(r[i])]
  OBVIOUS
<1>6. g \in Seq(Int) /\ Len(g) = N + 1
  BY <1>1, <1>4, PlacesAreSeqs, NatSeqIsIntSeq
<1>7. h \in Seq(Int) /\ Len(h) = N
  BY <1>3, <1>5, PlacesAreSeqs, NatSeqIsIntSeq
<1>8. \A i \in 1 .. N : h[i] = g[i + 1]
  BY <1>1, <1>3, <1>4, <1>5
<1>9. g[1] = 0
  <2>1. 1 \in 1 .. Len(q) /\ q[1] \in Placed
    BY <1>1, ElementOfSeq
  <2>2. tcGetDistanceToGo(q[1]) = 0
    BY <2>1, PlacedHas DEF tcGetDistanceToGo
  <2>3. QED
    BY <1>4, <2>1, <2>2
<1>10. Total(g) = g[1] + Total(h) /\ Total(h) \in Int
  BY <1>6, <1>7, <1>8, TotalOfRest
<1>11. Total(g) = Total(h)
  BY <1>9, <1>10
<1>12. QED
  BY <1>1, <1>2, <1>3, <1>4, <1>5, <1>11 DEF ToGo

(* What segments move on, they have less to go.                               *)
LEMMA AdvancedToGo ==
  ASSUME NEW q \in Seq(Placed), NEW p, AllAdvanced(p, q)
  PROVE  /\ Progress(p) - Progress(q) \in Nat
         /\ ToGo(p) = ToGo(q) - (Progress(p) - Progress(q))
<1>1. PICK N \in Nat : N = Len(q)
  OBVIOUS
<1>2. p \in Seq(Placed) /\ Len(p) = N
  BY <1>1 DEF AllAdvanced
<1>3. PICK gq : gq = [i \in 1 .. Len(q) |-> tcGetDistanceToGo(q[i])]
  OBVIOUS
<1>4. PICK gp : gp = [i \in 1 .. Len(p) |-> tcGetDistanceToGo(p[i])]
  OBVIOUS
<1>5. PICK hq : hq = [i \in 1 .. Len(q) |-> q[i].progress]
  OBVIOUS
<1>6. PICK hp : hp = [i \in 1 .. Len(p) |-> p[i].progress]
  OBVIOUS
<1>7. PICK d : d = [i \in 1 .. N |-> p[i].progress - q[i].progress]
  OBVIOUS
<1>8. /\ gq \in Seq(Int) /\ Len(gq) = N /\ hq \in Seq(Int) /\ Len(hq) = N
      /\ gp \in Seq(Int) /\ Len(gp) = N /\ hp \in Seq(Int) /\ Len(hp) = N
  BY <1>1, <1>2, <1>3, <1>4, <1>5, <1>6, PlacesAreSeqs, NatSeqIsIntSeq
<1>9. ASSUME NEW i \in 1 .. N
      PROVE  /\ d[i] \in Nat /\ hp[i] = hq[i] + d[i] /\ gq[i] = gp[i] + d[i]
  <2>1. p[i] \in Placed /\ q[i] \in Placed
    BY <1>1, <1>2, ElementOfSeq
  <2>2. p[i].target = q[i].target /\ p[i].progress >= q[i].progress
    BY <1>1 DEF AllAdvanced
  <2>3. /\ p[i].target \in Nat /\ p[i].progress \in Nat
        /\ q[i].target \in Nat /\ q[i].progress \in Nat
    BY <2>1, PlacedHas
  <2>4. /\ d[i] = p[i].progress - q[i].progress
        /\ hp[i] = p[i].progress /\ hq[i] = q[i].progress
        /\ gp[i] = p[i].target - p[i].progress /\ gq[i] = q[i].target - q[i].progress
    BY <1>1, <1>2, <1>3, <1>4, <1>5, <1>6, <1>7 DEF tcGetDistanceToGo
  <2>5. QED
    BY <2>2, <2>3, <2>4
<1>10. d \in Seq(Nat) /\ d \in Seq(Int) /\ Len(d) = N
  <2>1. d \in [1 .. N -> Nat]
    BY <1>7, <1>9
  <2>2. d \in Seq(Nat) /\ Len(d) = N
    BY <2>1, FunIsSeq
  <2>3. QED
    BY <2>2, NatSeqIsIntSeq
<1>11. Total(hp) = Total(hq) + Total(d) /\ Total(hq) \in Int
  BY <1>8, <1>9, <1>10, TotalOfSum
<1>12. Total(gq) = Total(gp) + Total(d) /\ Total(gp) \in Int
  BY <1>8, <1>9, <1>10, TotalOfSum
<1>13. Total(d) \in Nat
  BY <1>10, TotalIsNat
<1>14. /\ Total(hp) - Total(hq) \in Nat
       /\ Total(gp) = Total(gq) - (Total(hp) - Total(hq))
  BY <1>11, <1>12, <1>13
<1>15. /\ ToGo(q) = Total(gq) /\ ToGo(p) = Total(gp)
       /\ Progress(q) = Total(hq) /\ Progress(p) = Total(hp)
  BY <1>3, <1>4, <1>5, <1>6, Zenon DEF ToGo, Progress
<1>16. QED
  BY <1>14, <1>15

------------------------------------------------------------------------------
(* A period of one segment.                                                   *)

(* Products and squares of integers.                                          *)
LEMMA ProductIsInt ==
  ASSUME NEW x \in Int, NEW y \in Int
  PROVE  x * y \in Int /\ Square(x) \in Nat /\ (x >= 0 /\ y >= 0 => x * y >= 0)
<1>1. x * y \in Int /\ (x >= 0 /\ y >= 0 => x * y >= 0)
  BY Z3
<1>2. x * x \in Nat
  BY Z3
<1>3. QED
  BY <1>1, <1>2 DEF Square

(* The speed after a period of a trapezoid.                                   *)
LEMMA TrapezoidalIsInt ==
  ASSUME NEW tc \in Placed, NEW next, Range(next) \subseteq Placed
  PROVE  TrapezoidalVel(tc, next) \in Int
<1>1. PICK a \in Nat : a = tcGetTangentialMaxAccel(tc)
  BY AccelIsNat
<1>2. PICK c \in Int : c = tc.cycle_time
  BY PlacedHas
<1>3. PICK v \in Int : v = tc.currentvel
  BY PlacedHas
<1>4. PICK vf \in Int : vf = tpGetRealFinalVel(tc, next)
  BY FinalVelIsNat
<1>5. PICK d \in Int : d = tcGetDistanceToGo(tc)
  BY PlacedHas
<1>6. PICK vt \in Int : vt = tpGetRealTargetVel(tc)
  BY TargetVelIsNat
<1>7. PICK ac \in Int : ac = a * c
  BY ProductIsInt
<1>8. PICK rest \in Int : rest = 4 * Period * (Period * Square(vf) + a * (d - v * c))
  <2>1. PICK x \in Int : x = v * c
    BY ProductIsInt
  <2>2. PICK y \in Int : y = a * (d - x)
    <3>1. d - x \in Int
      OBVIOUS
    <3>2. QED
      BY <3>1, ProductIsInt
  <2>3. PICK z \in Int : z = Period * Square(vf)
    <3>1. PICK k \in Int : k = Square(vf)
      BY ProductIsInt
    <3>2. Period * k \in Int
      BY PeriodIsPositive, ProductIsInt
    <3>3. QED
      BY <3>1, <3>2
  <2>4. PICK w \in Int : w = 4 * Period
    BY PeriodIsPositive
  <2>5. w * (z + y) \in Int
    <3>1. z + y \in Int
      OBVIOUS
    <3>2. QED
      BY <3>1, ProductIsInt
  <2>6. QED
    BY <2>1, <2>2, <2>3, <2>4, <2>5
<1>9. PICK root \in Int : root = IF rest > 0 THEN FloorSqrt(rest + Square(ac)) ELSE 0
  <2>1. CASE rest > 0
    <3>1. rest + Square(ac) \in Nat
      BY <2>1, ProductIsInt
    <3>2. FloorSqrt(rest + Square(ac)) \in Nat
      BY <3>1, RootIsNat
    <3>3. QED
      BY <2>1, <3>2
  <2>2. CASE ~(rest > 0)
    BY <2>2
  <2>3. QED
    BY <2>1, <2>2
<1>10. PICK m \in Int : m = Speed(root - ac, 2 * Period)
  <2>1. 2 * Period \in Nat \ {0} /\ root - ac \in Int
    BY PeriodIsPositive
  <2>2. QED
    BY <2>1, SpeedIsInt
<1>11. PICK s \in Int : s = saturate(m, vt)
  BY SaturateIsInt
<1>12. PICK most \in Int : most = ac \div Period
  BY PeriodIsPositive, DivBounds
<1>13. PICK e \in Int : e = saturate(s - v, most)
  <2>1. s - v \in Int
    OBVIOUS
  <2>2. QED
    BY <2>1, SaturateIsInt
<1>14. TrapezoidalVel(tc, next) = v + e
  BY <1>1, <1>2, <1>3, <1>4, <1>5, <1>6, <1>7, <1>8, <1>9, <1>10, <1>11, <1>12, <1>13, Zenon
  DEF TrapezoidalVel
<1>15. QED
  BY <1>14

(* The speed after a period of a ramp.                                        *)
LEMMA RampIsInt ==
  ASSUME NEW tc \in Placed, NEW next, Range(next) \subseteq Placed
  PROVE  RampVel(tc, next) \in Int
<1>1. PICK a \in Nat : a = tcGetTangentialMaxAccel(tc)
  BY AccelIsNat
<1>2. PICK c \in Int : c = tc.cycle_time
  BY PlacedHas
<1>3. PICK v \in Int : v = tc.currentvel
  BY PlacedHas
<1>4. PICK vf \in Int : vf = tpGetRealFinalVel(tc, next)
  BY FinalVelIsNat
<1>5. PICK d \in Nat : d = tcGetDistanceToGo(tc)
  BY PlacedHas
<1>6. PICK ac \in Int : ac = a * c
  BY ProductIsInt
<1>7. PICK most \in Int : most = ac \div Period
  BY PeriodIsPositive, DivBounds
<1>8. PICK dv2 \in Int : dv2 = Square(vf) - Square(v)
  <2>1. Square(vf) \in Nat
    BY ProductIsInt
  <2>2. Square(v) \in Nat
    BY ProductIsInt
  <2>3. QED
    BY <2>1, <2>2
<1>9. PICK x \in Int : x = IF d = 0 THEN dv2 * most ELSE Speed(v * d + dv2 * c, d) - v
  <2>1. dv2 * most \in Int
    BY ProductIsInt
  <2>2. PICK n \in Int : n = v * d + dv2 * c
    <3>1. v * d \in Int /\ dv2 * c \in Int
      BY ProductIsInt
    <3>2. QED
      BY <3>1
  <2>3. d # 0 => Speed(n, d) - v \in Int
    <3>1. d # 0 => Speed(n, d) \in Int
      BY SpeedIsInt
    <3>2. QED
      BY <3>1
  <2>4. QED
    BY <2>1, <2>2, <2>3
<1>10. PICK e \in Int : e = saturate(x, most)
  BY SaturateIsInt
<1>11. RampVel(tc, next) = v + e
  BY <1>1, <1>2, <1>3, <1>4, <1>5, <1>6, <1>7, <1>8, <1>9, <1>10, Zenon DEF RampVel
<1>12. QED
  BY <1>11

(* The period moves the segment on, at most to its end.                       *)
LEMMA MovedIsAdvanced ==
  ASSUME NEW tc \in Placed, NEW v \in Int
  PROVE  Advanced(tcUpdateDistFromAccel(tc, v), tc)
<1>1. tc \in Segments /\ tc.progress <= tc.target /\ (tc.remove => tc.progress = tc.target)
  BY DEF Placed
<1>2. /\ tc.target \in Nat /\ tc.progress \in Nat /\ tc.currentvel \in Nat
      /\ tc.cycle_time \in Nat
  BY PlacedHas
<1>3. ASSUME NEW p \in Nat, NEW w \in Nat, tc.progress <= p, p <= tc.target
      PROVE  Advanced([tc EXCEPT !.currentvel = w, !.progress = p], tc)
  <2>1. PICK new : new = [tc EXCEPT !.currentvel = w, !.progress = p]
    OBVIOUS
  <2>2. new \in Segments
    BY <1>1, <2>1 DEF Segments
  <2>3. new.target = tc.target /\ new.progress = p /\ new.remove = tc.remove
    BY <1>1, <2>1 DEF Segments
  <2>4. tc.remove => p = tc.target
    BY <1>1, <1>2, <1>3
  <2>5. new.progress <= new.target
    BY <1>3, <2>3
  <2>6. new.remove => new.progress = new.target
    BY <2>3, <2>4, Zenon
  <2>7. new \in Placed
    BY <2>2, <2>5, <2>6 DEF Placed
  <2>8. QED
    BY <1>3, <2>1, <2>3, <2>7 DEF Advanced
<1>4. CASE v < 0
  <2>1. PICK p : p = IF tcGetDistanceToGo(tc) < 2 * tc.currentvel * tc.cycle_time
                     THEN tc.target ELSE tc.progress
    OBVIOUS
  <2>2. p \in Nat /\ tc.progress <= p /\ p <= tc.target
    BY <1>1, <1>2, <2>1
  <2>3. tcUpdateDistFromAccel(tc, v) = [tc EXCEPT !.currentvel = 0, !.progress = p]
    BY <1>4, <2>1, Zenon DEF tcUpdateDistFromAccel
  <2>4. QED
    BY <1>3, <2>2, <2>3
<1>5. CASE ~(v < 0)
  <2>1. PICK x \in Nat : x = (v + tc.currentvel) * tc.cycle_time
    <3>1. PICK y \in Nat : y = v + tc.currentvel
      BY <1>2, <1>5
    <3>2. y * tc.cycle_time \in Int /\ y * tc.cycle_time >= 0
      BY <1>2, ProductIsInt
    <3>3. QED
      BY <3>1, <3>2
  <2>2. PICK p : p = Least(tc.target, tc.progress + x)
    OBVIOUS
  <2>3. p \in Nat /\ tc.progress <= p /\ p <= tc.target
    BY <1>1, <1>2, <2>2 DEF Least
  <2>4. tcUpdateDistFromAccel(tc, v) = [tc EXCEPT !.currentvel = v, !.progress = p]
    BY <1>5, <2>1, <2>2, Zenon DEF tcUpdateDistFromAccel
  <2>5. v \in Nat
    BY <1>5
  <2>6. QED
    BY <1>3, <2>3, <2>4, <2>5
<1>6. QED
  BY <1>4, <1>5

(* The speed at which the segment reaches its end.                            *)
LEMMA EndVelIsNat ==
  ASSUME NEW tc \in Placed, NEW next, Range(next) \subseteq Placed
  PROVE  EndVel(tc, next) \in Nat
<1>1. PICK a \in Nat : a = tcGetTangentialMaxAccel(tc)
  BY AccelIsNat
<1>2. PICK v \in Int : v = tc.currentvel
  BY PlacedHas
<1>3. PICK vf \in Nat : vf = tpGetRealFinalVel(tc, next)
  BY FinalVelIsNat
<1>4. PICK d \in Nat : d = tcGetDistanceToGo(tc)
  BY PlacedHas
<1>5. PICK ad \in Nat : ad = a * d
  <2>1. a * d \in Int /\ a * d >= 0
    BY ProductIsInt
  <2>2. QED
    BY <2>1
<1>6. PICK v2 \in Nat : v2 = Square(v)
  BY ProductIsInt
<1>7. PICK vf2 \in Nat : vf2 = Square(vf)
  BY ProductIsInt
<1>8. PICK q \in Nat : q = ad \div Period
  BY PeriodIsPositive, DivIsNat
<1>9. PICK change \in Int : change = Period * (vf2 - v2)
  <2>1. vf2 - v2 \in Int
    OBVIOUS
  <2>2. QED
    BY <2>1, PeriodIsPositive, ProductIsInt
<1>10. FloorSqrt(v2 + q) \in Nat
  <2>1. v2 + q \in Nat
    OBVIOUS
  <2>2. QED
    BY <2>1, RootIsNat
<1>11. ASSUME change < -ad
       PROVE  FloorSqrt(v2 - q) \in Nat
  <2>1. Period * q <= ad
    BY <1>8, PeriodIsPositive, DivBounds
  <2>2. Period * (vf2 - v2) = Period * vf2 - Period * v2
    BY PeriodIsPositive, Z3
  <2>3. Period * vf2 \in Int /\ Period * vf2 >= 0 /\ Period * v2 \in Int /\ Period * q \in Int
    BY PeriodIsPositive, ProductIsInt
  <2>4. Period * q < Period * v2
    BY <1>9, <1>11, <2>1, <2>2, <2>3
  <2>5. Period * q < Period * v2 + Period
    BY <2>3, <2>4, PeriodIsPositive
  <2>6. q <= v2
    BY <2>5, PeriodIsPositive, MulCancel
  <2>7. v2 - q \in Nat
    BY <2>6
  <2>8. QED
    BY <2>7, RootIsNat
<1>12. EndVel(tc, next) = IF change > ad THEN FloorSqrt(v2 + q)
                          ELSE IF change < -ad THEN FloorSqrt(v2 - q)
                          ELSE vf
  BY <1>1, <1>2, <1>3, <1>4, <1>5, <1>6, <1>7, <1>8, <1>9, Zenon DEF EndVel
<1>13. QED
  BY <1>10, <1>11, <1>12

(* A period that ends within a period is split there.                         *)
LEMMA SplitIsWithinPeriod ==
  ASSUME NEW d \in Nat, NEW sum \in Nat, d < Period * sum
  PROVE  (d + sum - 1) \div sum \in 0 .. Period
<1>1. sum # 0
  <2>1. CASE sum = 0
    <3>1. Period * sum = 0
      BY <2>1, PeriodIsPositive
    <3>2. QED
      BY <3>1
  <2>2. QED
    BY <2>1
<1>2. d + sum - 1 \in Nat /\ sum \in Nat \ {0}
  BY <1>1
<1>3. PICK q \in Nat : q = (d + sum - 1) \div sum
  BY <1>2, DivIsNat
<1>4. sum * q <= d + sum - 1
  BY <1>2, <1>3, DivBounds
<1>5. sum * Period = Period * sum /\ sum * Period \in Int /\ sum * q \in Int
  <2>1. \A x, y \in Int : x * y = y * x /\ x * y \in Int
    BY Z3
  <2>2. QED
    BY <2>1, PeriodIsPositive
<1>6. sum * q < sum * Period + sum
  BY <1>4, <1>5
<1>7. q <= Period
  BY <1>2, <1>6, PeriodIsPositive, MulCancel
<1>8. QED
  BY <1>3, <1>7, PeriodIsPositive

(* The check for the end keeps a segment in its place, or takes it to its end.*)
LEMMA CheckedIsAdvanced ==
  ASSUME NEW tc0 \in Placed, NEW next, Range(next) \subseteq Placed
  PROVE  Advanced(tpCheckEndCondition(tc0, next), tc0)
<1>1. PICK tc : tc = [tc0 EXCEPT !.cycle_time = Period]
  OBVIOUS
<1>2. tc \in Placed /\ tc.target = tc0.target /\ tc.progress = tc0.progress
  <2>1. Period \in 0 .. Period
    BY PeriodIsPositive
  <2>2. QED
    BY <1>1, <2>1 DEF Placed, Segments
<1>3. tc \in Segments /\ tc.progress <= tc.target /\ (tc.remove => tc.progress = tc.target)
  BY <1>2 DEF Placed
<1>4. /\ tc.target \in Nat /\ tc.progress \in Nat /\ tc.currentvel \in Nat
      /\ tcGetDistanceToGo(tc) \in Nat
  BY <1>2, PlacedHas
<1>5. ASSUME NEW b \in BOOLEAN
      PROVE  Advanced([tc EXCEPT !.progress = tc.target, !.splitting = TRUE, !.cycle_time = 0,
                                 !.term_vel = tc.currentvel, !.remove = b], tc0)
  <2>1. PICK new : new = [tc EXCEPT !.progress = tc.target, !.splitting = TRUE, !.cycle_time = 0,
                                    !.term_vel = tc.currentvel, !.remove = b]
    OBVIOUS
  <2>2. 0 \in 0 .. Period
    BY PeriodIsPositive
  <2>3. new \in Segments /\ new.target = tc.target /\ new.progress = tc.target
    BY <1>3, <1>4, <2>1, <2>2 DEF Segments
  <2>4. new \in Placed
    BY <1>4, <2>3 DEF Placed
  <2>5. QED
    BY <1>2, <1>3, <1>4, <2>1, <2>3, <2>4 DEF Advanced
<1>6. ASSUME NEW c \in 0 .. Period, NEW e \in Nat
      PROVE  Advanced([tc EXCEPT !.splitting = TRUE, !.cycle_time = c, !.term_vel = e], tc0)
  <2>1. PICK new : new = [tc EXCEPT !.splitting = TRUE, !.cycle_time = c, !.term_vel = e]
    OBVIOUS
  <2>2. /\ new \in Segments /\ new.target = tc.target
        /\ new.progress = tc.progress /\ new.remove = tc.remove
    BY <1>3, <2>1 DEF Segments
  <2>3. new.progress <= new.target
    BY <1>3, <2>2
  <2>4. new.remove => new.progress = new.target
    BY <1>3, <2>2, Zenon
  <2>5. new \in Placed
    BY <2>2, <2>3, <2>4 DEF Placed
  <2>6. QED
    BY <1>2, <1>4, <2>1, <2>2, <2>5 DEF Advanced
<1>7. Advanced(tc, tc0)
  BY <1>2, <1>4 DEF Advanced
<1>8. PICK e \in Nat : e = EndVel(tc, next)
  BY <1>2, EndVelIsNat
<1>9. PICK d \in Nat : d = tcGetDistanceToGo(tc)
  BY <1>4
<1>10. PICK sum \in Nat : sum = tc.currentvel + e
  BY <1>4
<1>11. PICK b : b = (tc.remove \/ tc.term_cond = "STOP")
  OBVIOUS
<1>12. b \in BOOLEAN
  BY <1>11, Zenon
<1>13. \/ tpCheckEndCondition(tc0, next) = tc
       \/ tpCheckEndCondition(tc0, next) =
            [tc EXCEPT !.progress = tc.target, !.splitting = TRUE, !.cycle_time = 0,
                       !.term_vel = tc.currentvel, !.remove = tc.remove \/ tc.term_cond = "STOP"]
       \/ /\ d < Period * sum
          /\ tpCheckEndCondition(tc0, next) =
               [tc EXCEPT !.splitting = TRUE, !.cycle_time = (d + sum - 1) \div sum, !.term_vel = e]
  BY <1>1, <1>8, <1>9, <1>10, Zenon DEF tpCheckEndCondition
<1>14. d < Period * sum => (d + sum - 1) \div sum \in 0 .. Period
  BY SplitIsWithinPeriod
<1>15. QED
  BY <1>5, <1>6, <1>7, <1>11, <1>12, <1>13, <1>14, Zenon

(* Advancing twice.                                                           *)
LEMMA AdvancedTwice ==
  ASSUME NEW x, NEW y \in Placed, NEW z \in Placed, Advanced(x, y), Advanced(y, z)
  PROVE  Advanced(x, z)
<1>1. x \in Placed /\ x.target = z.target /\ x.progress >= y.progress /\ y.progress >= z.progress
  BY DEF Advanced
<1>2. x.progress \in Nat /\ y.progress \in Nat /\ z.progress \in Nat
  BY <1>1, PlacedHas
<1>3. QED
  BY <1>1, <1>2 DEF Advanced

(* A period of one segment.                                                   *)
LEMMA UpdatedIsAdvanced ==
  ASSUME NEW tc \in Placed, NEW next, Range(next) \subseteq Placed
  PROVE  Advanced(tpUpdateCycle(tc, next), tc)
<1>1. PICK v \in Int : v = NextVel(tc, next)
  <2>1. NextVel(tc, next) = RampVel(tc, next) \/ NextVel(tc, next) = TrapezoidalVel(tc, next)
    BY DEF NextVel
  <2>2. QED
    BY <2>1, RampIsInt, TrapezoidalIsInt
<1>2. PICK t : t = tcUpdateDistFromAccel(tc, v)
  OBVIOUS
<1>3. Advanced(t, tc)
  BY <1>2, MovedIsAdvanced
<1>4. t \in Placed
  BY <1>3 DEF Advanced
<1>5. Advanced(tpCheckEndCondition(t, next), t)
  BY <1>4, CheckedIsAdvanced
<1>6. Advanced(tpCheckEndCondition(t, next), tc)
  BY <1>3, <1>4, <1>5, AdvancedTwice
<1>7. QED
  BY <1>1, <1>2, <1>6, Zenon DEF tpUpdateCycle

(* Activation keeps a segment in its place.                                   *)
LEMMA ActivatedIsAdvanced ==
  ASSUME NEW tc \in Placed
  PROVE  Advanced(tpActivateSegment(tc), tc)
<1>1. tc \in Segments /\ tc.progress <= tc.target /\ (tc.remove => tc.progress = tc.target)
  BY DEF Placed
<1>2. tc.progress \in Nat
  BY PlacedHas
<1>3. ASSUME NEW b \in BOOLEAN
      PROVE  Advanced([tc EXCEPT !.active = TRUE, !.ramp = b], tc)
  <2>1. PICK new : new = [tc EXCEPT !.active = TRUE, !.ramp = b]
    OBVIOUS
  <2>2. /\ new \in Segments /\ new.target = tc.target
        /\ new.progress = tc.progress /\ new.remove = tc.remove
    BY <1>1, <2>1 DEF Segments
  <2>3. new.progress <= new.target
    BY <1>1, <2>2
  <2>4. new.remove => new.progress = new.target
    BY <1>1, <2>2, Zenon
  <2>5. new \in Placed
    BY <2>2, <2>3, <2>4 DEF Placed
  <2>6. QED
    BY <1>2, <2>1, <2>2, <2>5 DEF Advanced
<1>4. Advanced(tc, tc)
  BY <1>2 DEF Advanced
<1>5. PICK b : b = (\/ tc.ramp
                    \/ /\ tcGetDistanceToGo(tc) > 0
                       /\ tcGetDistanceToGo(tc) < Period * Cutoff *
                            (tc.currentvel + Least(tc.finalvel, tpGetRealTargetVel(tc)))
                       /\ tc.canon # "traverse" /\ tc.term_cond = "TANGENT")
  OBVIOUS
<1>6. b \in BOOLEAN
  BY <1>5, Zenon
<1>7. tpActivateSegment(tc) = tc \/ tpActivateSegment(tc) = [tc EXCEPT !.active = TRUE, !.ramp = b]
  BY <1>5, Zenon DEF tpActivateSegment
<1>8. QED
  BY <1>3, <1>4, <1>6, <1>7

------------------------------------------------------------------------------
(* A period of the queue.                                                     *)

(* One segment is moved on.                                                   *)
LEMMA ReplacedIsAdvanced ==
  ASSUME NEW q \in Seq(Placed), NEW i \in 1 .. Len(q), NEW e, Advanced(e, q[i])
  PROVE  AllAdvanced([q EXCEPT ![i] = e], q)
<1>1. PICK r : r = [q EXCEPT ![i] = e]
  OBVIOUS
<1>2. e \in Placed /\ e.target = q[i].target /\ e.progress >= q[i].progress
  BY DEF Advanced
<1>3. r \in Seq(Placed) /\ Len(r) = Len(q)
  BY <1>1, <1>2
<1>4. ASSUME NEW k \in 1 .. Len(q)
      PROVE  r[k].target = q[k].target /\ r[k].progress >= q[k].progress
  <2>1. CASE k = i
    BY <1>1, <1>2, <2>1
  <2>2. CASE k # i
    <3>1. q[k] \in Placed /\ r[k] = q[k]
      BY <1>1, <2>2, ElementOfSeq
    <3>2. q[k].progress \in Nat
      BY <3>1, PlacedHas
    <3>3. QED
      BY <3>1, <3>2
  <2>3. QED
    BY <2>1, <2>2
<1>5. QED
  BY <1>1, <1>3, <1>4 DEF AllAdvanced

(* Segments are moved on twice.                                               *)
LEMMA AllAdvancedTwice ==
  ASSUME NEW p, NEW q \in Seq(Placed), NEW r \in Seq(Placed), AllAdvanced(p, q), AllAdvanced(q, r)
  PROVE  AllAdvanced(p, r)
<1>1. Len(q) = Len(r) /\ Len(p) = Len(r) /\ p \in Seq(Placed)
  BY DEF AllAdvanced
<1>2. ASSUME NEW i \in 1 .. Len(r)
      PROVE  p[i].target = r[i].target /\ p[i].progress >= r[i].progress
  <2>1. p[i] \in Placed /\ q[i] \in Placed /\ r[i] \in Placed
    BY <1>1, ElementOfSeq
  <2>2. p[i].progress \in Nat /\ q[i].progress \in Nat /\ r[i].progress \in Nat
    BY <2>1, PlacedHas
  <2>3. p[i].target = q[i].target /\ p[i].progress >= q[i].progress
    BY <1>1 DEF AllAdvanced
  <2>4. q[i].target = r[i].target /\ q[i].progress >= r[i].progress
    BY <1>1 DEF AllAdvanced
  <2>5. QED
    BY <2>2, <2>3, <2>4
<1>3. QED
  BY <1>1, <1>2 DEF AllAdvanced

(* Segments that stay where they are.                                         *)
LEMMA UnchangedIsAdvanced ==
  ASSUME NEW q \in Seq(Placed)
  PROVE  AllAdvanced(q, q)
<1>1. \A i \in 1 .. Len(q) : q[i].progress \in Nat
  BY ElementOfSeq, PlacedHas
<1>2. QED
  BY <1>1 DEF AllAdvanced

(* The next segment is one of the queue.                                      *)
LEMMA AfterIsPlaced ==
  ASSUME NEW q \in Seq(Placed), NEW i \in Nat \ {0}
  PROVE  Range(After(q, i)) \subseteq Placed
<1>1. CASE i < Len(q)
  <2>1. i + 1 \in 1 .. Len(q)
    BY <1>1
  <2>2. PICK e : e = q[i + 1]
    OBVIOUS
  <2>3. e \in Placed
    BY <2>1, <2>2, ElementOfSeq
  <2>4. After(q, i) = <<e>>
    BY <1>1, <2>2 DEF After
  <2>5. QED
    BY <2>3, <2>4 DEF Range
<1>2. CASE ~(i < Len(q))
  BY <1>2 DEF After, Range
<1>3. QED
  BY <1>1, <1>2

(* A period within one segment.                                               *)
LEMMA RegularAdvances ==
  ASSUME NEW q \in Seq(Placed), Len(q) > 0
  PROVE  AllAdvanced(tpHandleRegularCycle(q), q)
<1>1. 1 \in 1 .. Len(q) /\ q[1] \in Placed
  BY ElementOfSeq
<1>2. PICK tc : tc = [q[1] EXCEPT !.cycle_time = Period]
  OBVIOUS
<1>3. PICK old : old = q[1]
  OBVIOUS
<1>4. tc \in Placed /\ tc.target = old.target /\ tc.progress = old.progress
  <2>1. Period \in 0 .. Period
    BY PeriodIsPositive
  <2>2. old \in Placed
    BY <1>1, <1>3
  <2>3. QED
    BY <1>2, <1>3, <2>1, <2>2 DEF Placed, Segments
<1>5. PICK e : e = tpUpdateCycle(tc, After(q, 1))
  OBVIOUS
<1>6. Advanced(e, tc)
  <2>1. Range(After(q, 1)) \subseteq Placed
    BY AfterIsPlaced
  <2>2. QED
    BY <1>4, <1>5, <2>1, UpdatedIsAdvanced
<1>7. Advanced(e, q[1])
  BY <1>3, <1>4, <1>6 DEF Advanced
<1>8. AllAdvanced([q EXCEPT ![1] = e], q)
  BY <1>1, <1>7, ReplacedIsAdvanced
<1>9. tpHandleRegularCycle(q) = q \/ tpHandleRegularCycle(q) = [q EXCEPT ![1] = e]
  BY <1>2, <1>5, Zenon DEF tpHandleRegularCycle
<1>10. QED
  BY <1>8, <1>9, UnchangedIsAdvanced

(* A period in which one segment ends and the next starts.                    *)
LEMMA SplitAdvances ==
  ASSUME NEW q \in Seq(Placed), Len(q) > 0
  PROVE  AllAdvanced(tpHandleSplitCycle(q), q)
<1>1. 1 \in 1 .. Len(q) /\ q[1] \in Placed
  BY ElementOfSeq
<1>2. PICK old \in Placed : old = q[1]
  BY <1>1
<1>3. PICK tc : tc = [old EXCEPT !.progress = old.target, !.remove = TRUE]
  OBVIOUS
<1>4. /\ old \in Segments /\ old.progress <= old.target
      /\ old.target \in Nat /\ old.progress \in Nat
  BY PlacedHas DEF Placed
<1>5. tc \in Segments /\ tc.target = old.target /\ tc.progress = old.target
  BY <1>3, <1>4 DEF Segments
<1>6. tc \in Placed
  BY <1>4, <1>5 DEF Placed
<1>7. Advanced(tc, q[1])
  BY <1>2, <1>4, <1>5, <1>6 DEF Advanced
<1>8. PICK r : r = [q EXCEPT ![1] = tc]
  OBVIOUS
<1>9. AllAdvanced(r, q)
  BY <1>1, <1>7, <1>8, ReplacedIsAdvanced
<1>10. r \in Seq(Placed) /\ Len(r) = Len(q)
  BY <1>9 DEF AllAdvanced
<1>11. CASE q[1].remove
  <2>1. tpHandleSplitCycle(q) = q
    BY <1>11, Zenon DEF tpHandleSplitCycle
  <2>2. QED
    BY <2>1, UnchangedIsAdvanced
<1>12. CASE ~q[1].remove /\ Len(q) = 1
  <2>1. tpHandleSplitCycle(q) = <<tc>>
    BY <1>2, <1>3, <1>12, Zenon DEF tpHandleSplitCycle
  <2>2. r = <<tc>>
    BY <1>8, <1>10, <1>12
  <2>3. QED
    BY <1>9, <2>1, <2>2
<1>13. CASE ~q[1].remove /\ Len(q) # 1
  <2>1. 2 \in 1 .. Len(q) /\ q[2] \in Placed
    <3>1. PICK N \in Nat : N = Len(q)
      OBVIOUS
    <3>2. N # 1 /\ N > 0
      BY <1>13, <3>1, Zenon
    <3>3. 2 \in 1 .. N
      BY ONLY N \in Nat, <3>2
    <3>4. QED
      BY <3>1, <3>3, ElementOfSeq
  <2>2. PICK second \in Placed : second = q[2]
    BY <2>1
  <2>3. PICK c : c = Period - tc.cycle_time
    OBVIOUS
  <2>4. c \in 0 .. Period
    BY <1>6, <2>3, PlacedHas, PeriodIsPositive
  <2>5. PICK v \in Nat : v = tc.term_vel
    BY <1>6, PlacedHas
  <2>6. PICK next : next = Follow(tc, second)
    OBVIOUS
  <2>7. next \in Placed /\ next.target = second.target /\ next.progress = second.progress
    <3>1. PICK n : n = [second EXCEPT !.cycle_time = c, !.currentvel = v]
      OBVIOUS
    <3>2. n \in Placed /\ n.target = second.target /\ n.progress = second.progress
      BY <2>4, <3>1 DEF Placed, Segments
    <3>3. next = n \/ next = second
      BY <2>3, <2>5, <2>6, <3>1, Zenon DEF Follow
    <3>4. QED
      BY <3>2, <3>3
  <2>8. PICK e : e = tpUpdateCycle(next, After(q, 2))
    OBVIOUS
  <2>9. Advanced(e, next)
    <3>1. Range(After(q, 2)) \subseteq Placed
      BY AfterIsPlaced
    <3>2. QED
      BY <2>7, <2>8, <3>1, UpdatedIsAdvanced
  <2>10. r[2] = second
    BY <1>8, <2>1, <2>2
  <2>11. Advanced(e, r[2])
    BY <2>7, <2>9, <2>10 DEF Advanced
  <2>12. 2 \in 1 .. Len(r)
    BY <1>10, <2>1
  <2>13. AllAdvanced([r EXCEPT ![2] = e], r)
    BY <1>10, <2>11, <2>12, ReplacedIsAdvanced
  <2>14. AllAdvanced([r EXCEPT ![2] = e], q)
    BY <1>9, <1>10, <2>13, AllAdvancedTwice
  <2>15. tpHandleSplitCycle(q) = [q EXCEPT ![1] = tc, ![2] = e]
    BY <1>2, <1>3, <1>13, <2>2, <2>6, <2>8, Zenon DEF tpHandleSplitCycle
  <2>16. QED
    BY <1>8, <2>14, <2>15
<1>14. QED
  BY <1>11, <1>12, <1>13

(* A period moves the segments on, and no other field decides on the path.    *)
LEMMA CycleAdvances ==
  ASSUME queue \in Seq(Placed), Len(queue) > 0
  PROVE  AllAdvanced(Cycle, queue)
<1>1. PICK o : o = queue
  OBVIOUS
<1>2. o \in Seq(Placed) /\ 1 \in 1 .. Len(o)
  BY <1>1
<1>3. PICK e : e = tpActivateSegment(o[1])
  OBVIOUS
<1>4. o[1] \in Placed
  BY <1>2, ElementOfSeq
<1>5. Advanced(e, o[1])
  BY <1>3, <1>4, ActivatedIsAdvanced
<1>6. PICK q : q = [o EXCEPT ![1] = e]
  OBVIOUS
<1>7. AllAdvanced(q, o)
  BY <1>2, <1>5, <1>6, ReplacedIsAdvanced
<1>8. q \in Seq(Placed) /\ Len(q) > 0
  BY <1>2, <1>7 DEF AllAdvanced
<1>9. AllAdvanced(tpHandleSplitCycle(q), q) /\ AllAdvanced(tpHandleRegularCycle(q), q)
  BY <1>8, SplitAdvances, RegularAdvances
<1>10. AllAdvanced(tpHandleSplitCycle(q), o) /\ AllAdvanced(tpHandleRegularCycle(q), o)
  BY <1>2, <1>7, <1>8, <1>9, AllAdvancedTwice
<1>11. Cycle = tpHandleSplitCycle(q) \/ Cycle = tpHandleRegularCycle(q)
  BY <1>1, <1>3, <1>6, Zenon DEF Cycle
<1>12. QED
  BY <1>1, <1>10, <1>11

(* Removing the first segment takes no distance with it.                      *)
LEMMA CompletionKeeps ==
  ASSUME NEW q \in Seq(Placed), Len(q) > 0
  PROVE  /\ tpCompleteSegment(q) \in Seq(Placed)
         /\ \/ Len(tpCompleteSegment(q)) = Len(q)
            \/ Len(tpCompleteSegment(q)) = Len(q) - 1
         /\ ToGo(tpCompleteSegment(q)) = ToGo(q)
<1>1. CASE q[1].remove /\ tpCompleteSegment(q) = Tail(q)
  <2>1. q[1] \in Placed
    BY ElementOfSeq
  <2>2. q[1].progress = q[1].target
    BY <1>1, <2>1, PlacedHas
  <2>3. QED
    BY <1>1, <2>2, RemovedToGo
<1>2. CASE tpCompleteSegment(q) = q
  BY <1>2
<1>3. (q[1].remove /\ tpCompleteSegment(q) = Tail(q)) \/ tpCompleteSegment(q) = q
  BY Zenon DEF tpCompleteSegment
<1>4. QED
  BY <1>1, <1>2, <1>3

------------------------------------------------------------------------------
(* The invariant.                                                             *)

(* How far goalPos is ahead of currentPos.                                    *)
GoalIsNear == ahead \in Int /\ 0 - moved <= ahead /\ ahead <= owed

(* PathConserved with what it rests on: a segment to be removed is at its end,*)
(* so that removing it takes no distance with it.                             *)
PathInv ==
  /\ queue \in Seq(Placed) /\ Len(queue) <= QueueSize
  /\ moved \in Nat /\ moves \in 0 .. MaxMoves
  /\ done \in BOOLEAN /\ aborting \in BOOLEAN /\ pausing \in BOOLEAN
  /\ owed = ToGo(queue) /\ owed \in Nat /\ GoalIsNear

(* The planner as the motion controller sees it.                              *)
QueueStep == Queue!Next \/ UNCHANGED Queue!Contract

(* An empty queue has nothing left to go.                                     *)
LEMMA EmptyToGo == <<>> \in Seq(Placed) /\ Len(<<>>) = 0 /\ ToGo(<<>>) = 0
<1>1. <<>> \in Seq(Placed) /\ Len(<<>>) = 0
  OBVIOUS
<1>2. PICK q : q = <<>>
  OBVIOUS
<1>3. q \in Seq(Placed) /\ Len(q) = 0
  BY <1>1, <1>2
<1>4. PICK g : g = [i \in 1 .. Len(q) |-> tcGetDistanceToGo(q[i])]
  OBVIOUS
<1>5. g \in Seq(Int) /\ Len(g) = 0
  BY <1>3, <1>4, PlacesAreSeqs, NatSeqIsIntSeq
<1>6. Total(g) = 0
  BY <1>5, TotalSteps
<1>7. QED
  BY <1>1, <1>2, <1>4, <1>6, Zenon DEF ToGo

(* The planner starts with an empty queue.                                    *)
LEMMA InitIsPlaced == Init => PathInv /\ Queue!Init
<1> SUFFICES ASSUME Init PROVE PathInv /\ Queue!Init
  OBVIOUS
<1>1. /\ queue = <<>> /\ ahead = 0 /\ owed = 0
      /\ done = TRUE /\ aborting = FALSE /\ pausing = FALSE
      /\ moved = 0 /\ moves = 0
  BY DEF Init
<1>2. queue \in Seq(Placed) /\ Len(queue) = 0 /\ ToGo(queue) = 0
  BY <1>1, EmptyToGo
<1>3. PathInv
  <2>1. Len(queue) <= QueueSize
    BY <1>2, QueueHasRoom
  <2>2. moved \in Nat /\ moves \in 0 .. MaxMoves
    BY <1>1, MovesAreCounted
  <2>3. done \in BOOLEAN /\ aborting \in BOOLEAN /\ pausing \in BOOLEAN
    BY <1>1, Zenon
  <2>4. owed = ToGo(queue) /\ owed \in Nat /\ GoalIsNear
    BY <1>1, <1>2 DEF GoalIsNear
  <2>5. QED
    BY <1>2, <2>1, <2>2, <2>3, <2>4, Zenon DEF PathInv
<1>4. Queue!Init
  BY <1>1, <1>2 DEF Queue!Init
<1>5. QED
  BY <1>3, <1>4

(* The last segment of a queue, with its end and its length final.            *)
LEMMA LinkedIsKept ==
  ASSUME NEW q \in Seq(Placed), Len(q) > 0, NEW tc
  PROVE  AllKept([q EXCEPT ![Len(q)] = tcFinalizeLength(handleModeChange(@, tc))], q)
<1>1. PICK N \in Nat : N = Len(q)
  OBVIOUS
<1>2. N \in 1 .. Len(q)
  BY <1>1
<1>3. PICK e : e = tcFinalizeLength(handleModeChange(q[N], tc))
  OBVIOUS
<1>4. q[N] \in Placed
  BY <1>2, ElementOfSeq
<1>5. Kept(e, q[N])
  BY <1>3, <1>4, FinalizeKeeps
<1>6. AllKept([q EXCEPT ![N] = e], q)
  BY <1>2, <1>5, ReplacedIsKept
<1>7. QED
  BY <1>1, <1>3, <1>6

(* A move is added at the end, and only speeds change before it.              *)
LEMMA QueuedAdds ==
  ASSUME NEW q \in Seq(Placed), NEW tc \in Placed
  PROVE  /\ Queued(q, tc) \in Seq(Placed) /\ Len(Queued(q, tc)) = Len(q) + 1
         /\ ToGo(Queued(q, tc)) = ToGo(q) + tcGetDistanceToGo(tc)
<1>1. PICK linked : linked = IF Len(q) = 0 THEN q
                             ELSE [q EXCEPT ![Len(q)] = tcFinalizeLength(handleModeChange(@, tc))]
  OBVIOUS
<1>2. AllKept(linked, q)
  <2>1. AllKept(q, q)
    BY DEF AllKept
  <2>2. Len(q) # 0 => AllKept([q EXCEPT ![Len(q)] = tcFinalizeLength(handleModeChange(@, tc))], q)
    <3>1. Len(q) # 0 => Len(q) > 0
      OBVIOUS
    <3>2. QED
      BY <3>1, LinkedIsKept, Zenon
  <2>3. QED
    BY <1>1, <2>1, <2>2, Zenon
<1>3. linked \in Seq(Placed) /\ Len(linked) = Len(q) /\ ToGo(linked) = ToGo(q)
  BY <1>2, KeptToGo DEF AllKept
<1>4. PICK longer : longer = Append(linked, tc)
  OBVIOUS
<1>5. /\ longer \in Seq(Placed) /\ Len(longer) = Len(q) + 1
      /\ ToGo(longer) = ToGo(q) + tcGetDistanceToGo(tc)
  BY <1>3, <1>4, AppendedToGo
<1>6. AllKept(tpRunOptimization(longer), longer)
  BY <1>5, OptimizationKeeps
<1>7. /\ tpRunOptimization(longer) \in Seq(Placed)
      /\ Len(tpRunOptimization(longer)) = Len(longer)
      /\ ToGo(tpRunOptimization(longer)) = ToGo(longer)
  BY <1>6, KeptToGo DEF AllKept
<1>8. Queued(q, tc) = tpRunOptimization(longer)
  BY <1>1, <1>4, Zenon DEF Queued
<1>9. QED
  BY <1>5, <1>7, <1>8

(* A move is refused while aborting or if the queue is full, and added else.  *)
LEMMA AddMoveKeeps ==
  ASSUME PathInv, NEW len \in Lengths, NEW vel \in Vels, NEW kind \in Kinds,
         NEW canon \in CanonTypes, tpAddMove(len, vel, kind, canon)
  PROVE  PathInv' /\ QueueStep
<1>1. PICK tc : tc = NewSegment(len, vel, kind, canon)
  OBVIOUS
<1>2. /\ queue \in Seq(Placed) /\ Len(queue) <= QueueSize
      /\ moved \in Nat /\ moves \in 0 .. MaxMoves
      /\ done \in BOOLEAN /\ aborting \in BOOLEAN /\ pausing \in BOOLEAN
      /\ owed = ToGo(queue) /\ owed \in Nat /\ GoalIsNear
  BY DEF PathInv
<1>3. moved' = moved /\ moves' \in 0 .. MaxMoves
  <2>1. /\ moves < MaxMoves /\ moves' = (IF len = 0 THEN moves ELSE moves + 1)
        /\ moved' = moved
    BY DEF tpAddMove
  <2>2. QED
    BY <1>2, <2>1, MovesAreCounted
<1>4. CASE aborting /\ tpAbort /\ UNCHANGED <<queue, path, done>>
  <2>1. /\ queue' = queue /\ ahead' = ahead /\ owed' = owed /\ done' = done
        /\ aborting' = TRUE /\ pausing' = TRUE
    BY <1>4 DEF tpAbort, path
  <2>2. PathInv'
    BY <1>2, <1>3, <2>1 DEF PathInv, GoalIsNear
  <2>3. QueueStep
    BY <2>1 DEF QueueStep, Queue!Next, Queue!Ask
  <2>4. QED
    BY <2>2, <2>3
<1>5. CASE ~aborting /\ len < PosEpsilon /\ UNCHANGED <<queue, path, flags>>
  <2>1. /\ queue' = queue /\ ahead' = ahead /\ owed' = owed /\ done' = done
        /\ aborting' = aborting /\ pausing' = pausing
    BY <1>5 DEF flags, path
  <2>2. PathInv'
    BY <1>2, <1>3, <2>1 DEF PathInv, GoalIsNear
  <2>3. QueueStep
    BY <2>1 DEF QueueStep, Queue!Contract
  <2>4. QED
    BY <2>2, <2>3
<1>6. CASE /\ ~aborting /\ Len(queue) = QueueSize
           /\ queue' = tpRunOptimization([queue EXCEPT ![Len(queue)] =
                          tcFinalizeLength(handleModeChange(@, tc))])
           /\ tpAbort /\ UNCHANGED <<path, done>>
  <2>1. /\ ahead' = ahead /\ owed' = owed /\ done' = done
        /\ aborting' = TRUE /\ pausing' = TRUE
    BY <1>6 DEF tpAbort, path
  <2>2. Len(queue) > 0
    BY <1>6, QueueHasRoom
  <2>3. PICK q : q = [queue EXCEPT ![Len(queue)] = tcFinalizeLength(handleModeChange(@, tc))]
    OBVIOUS
  <2>4. AllKept(q, queue)
    BY <1>2, <2>2, <2>3, LinkedIsKept
  <2>5. q \in Seq(Placed)
    BY <2>4 DEF AllKept
  <2>6. AllKept(queue', queue)
    BY <1>6, <2>3, <2>4, <2>5, OptimizationKeeps, KeptTwice
  <2>7. queue' \in Seq(Placed) /\ Len(queue') = Len(queue) /\ ToGo(queue') = ToGo(queue)
    BY <2>6, KeptToGo DEF AllKept
  <2>8. PathInv'
    BY <1>2, <1>3, <2>1, <2>7 DEF PathInv, GoalIsNear
  <2>9. QueueStep
    BY <2>1, <2>7 DEF QueueStep, Queue!Next, Queue!Ask
  <2>10. QED
    BY <2>8, <2>9
<1>7. CASE /\ ~aborting /\ ~(len < PosEpsilon) /\ Len(queue) # QueueSize
           /\ queue' = Queued(queue, tc) /\ ahead' = ahead + len /\ owed' = owed + len
           /\ done' = FALSE /\ UNCHANGED <<aborting, pausing>>
  <2>1. len \in Nat /\ len # 0
    BY <1>7, LengthsPositive DEF PosEpsilon
  <2>2. tc \in Placed /\ tcGetDistanceToGo(tc) = len
    BY <1>1, <2>1, NewIsPlaced DEF tcGetDistanceToGo
  <2>3. /\ queue' \in Seq(Placed) /\ Len(queue') = Len(queue) + 1
        /\ ToGo(queue') = ToGo(queue) + len
    BY <1>2, <1>7, <2>2, QueuedAdds
  <2>4. Len(queue) < QueueSize /\ Len(queue') <= QueueSize
    BY <1>2, <1>7, <2>3, QueueHasRoom
  <2>5. done' = FALSE /\ aborting' = aborting /\ pausing' = pausing
    BY <1>7
  <2>6. PathInv'
    <3>1. /\ owed' = ToGo(queue') /\ owed' \in Nat
      BY <1>2, <1>7, <2>1, <2>3
    <3>2. GoalIsNear'
      BY <1>2, <1>3, <1>7, <2>1 DEF GoalIsNear
    <3>3. QED
      BY <1>2, <1>3, <2>3, <2>4, <2>5, <3>1, <3>2 DEF PathInv
  <2>7. Queue!Accept
    BY <1>7, <2>3, <2>4, <2>5 DEF Queue!Accept
  <2>8. QED
    BY <2>6, <2>7 DEF QueueStep, Queue!Next
<1>8. QED
  BY <1>1, <1>4, <1>5, <1>6, <1>7, Zenon DEF tpAddMove

(* An abort or a pause changes no more than what it asks for.                 *)
LEMMA AskingKeeps ==
  ASSUME PathInv, Abort \/ tpPause
  PROVE  PathInv' /\ QueueStep
<1>1. /\ queue' = queue /\ ahead' = ahead /\ owed' = owed
      /\ done' = done /\ moved' = moved /\ moves' = moves
      /\ pausing' = TRUE /\ (aborting' = aborting \/ aborting' = TRUE)
  BY DEF Abort, tpPause, tpAbort, path
<1>2. PathInv'
  BY <1>1 DEF PathInv, GoalIsNear
<1>3. QueueStep
  BY <1>1 DEF QueueStep, Queue!Next, Queue!Ask, Queue!Contract
<1>4. QED
  BY <1>2, <1>3

(* The queue is emptied.                                                      *)
LEMMA ResetKeeps ==
  ASSUME PathInv, tpClear \/ RunEmpty \/ RunAborted
  PROVE  PathInv' /\ QueueStep
<1>1. /\ queue' = <<>> /\ ahead' = 0 /\ owed' = 0
      /\ done' = TRUE /\ aborting' = FALSE /\ pausing' = FALSE
      /\ moved' = 0 /\ moves' = moves
  BY DEF tpClear, RunEmpty, RunAborted, Reset
<1>2. queue' \in Seq(Placed) /\ Len(queue') = 0 /\ ToGo(queue') = 0
  BY <1>1, EmptyToGo
<1>3. PathInv'
  <2>1. Len(queue') <= QueueSize
    BY <1>2, QueueHasRoom
  <2>2. moved' \in Nat /\ moves' \in 0 .. MaxMoves
    BY <1>1 DEF PathInv
  <2>3. done' \in BOOLEAN /\ aborting' \in BOOLEAN /\ pausing' \in BOOLEAN
    BY <1>1, Zenon
  <2>4. owed' = ToGo(queue') /\ owed' \in Nat /\ GoalIsNear'
    BY <1>1, <1>2 DEF GoalIsNear
  <2>5. QED
    BY <1>2, <2>1, <2>2, <2>3, <2>4, Zenon DEF PathInv
<1>4. QueueStep
  BY <1>1, <1>2 DEF QueueStep, Queue!Next, Queue!Reset, Queue!Empty
<1>5. QED
  BY <1>3, <1>4

(* A period in another mode only puts goalPos where currentPos is.            *)
LEMMA OtherModeKeeps ==
  ASSUME PathInv, OtherMode
  PROVE  PathInv' /\ QueueStep
<1>1. /\ queue' = queue /\ ahead' = 0 /\ owed' = owed
      /\ done' = done /\ aborting' = aborting /\ pausing' = pausing
      /\ moved' = moved /\ moves' = moves
  BY DEF OtherMode, tpSetPos, flags
<1>2. PathInv'
  BY <1>1 DEF PathInv, GoalIsNear
<1>3. QueueStep
  BY <1>1 DEF QueueStep, Queue!Contract
<1>4. QED
  BY <1>2, <1>3

(* A number below zero is below every natural.                                *)
LEMMA NegativeIsBelow ==
  ASSUME NEW a, NEW m \in Nat, NEW o \in Nat, a = 0 - m
  PROVE  0 - m <= a /\ a <= o /\ a \in Int
<1>1. a = 0 - m
  OBVIOUS
<1>2. 0 - m \in Int /\ 0 - m <= 0 - m /\ 0 - m <= o
  OBVIOUS
<1>3. QED
  BY <1>1, <1>2, Zenon

(* A period moves currentPos by as much as the segments move on.              *)
LEMMA RunKeeps ==
  ASSUME PathInv, RunSegment
  PROVE  PathInv' /\ QueueStep
<1>1. /\ queue \in Seq(Placed) /\ Len(queue) <= QueueSize
      /\ moves \in 0 .. MaxMoves /\ owed = ToGo(queue)
      /\ done \in BOOLEAN /\ aborting \in BOOLEAN /\ pausing \in BOOLEAN
  BY DEF PathInv
<1>2. Len(queue) > 0
  <2>1. queue # <<>>
    BY DEF RunSegment
  <2>2. QED
    BY <1>1, <2>1
<1>3. PICK q : q = Cycle
  OBVIOUS
<1>4. /\ queue' = tpCompleteSegment(q)
      /\ moved' = Progress(q) - Progress(queue)
      /\ ahead' = 0 - (Progress(q) - Progress(queue))
      /\ owed' = owed - (Progress(q) - Progress(queue))
      /\ done' = done /\ aborting' = aborting /\ pausing' = pausing /\ moves' = moves
  BY <1>3 DEF RunSegment, Run, flags, tpSetPos
<1>5. AllAdvanced(q, queue)
  BY <1>1, <1>2, <1>3, CycleAdvances
<1>6. q \in Seq(Placed) /\ Len(q) = Len(queue) /\ Len(q) > 0
  BY <1>2, <1>5 DEF AllAdvanced
<1>7. /\ Progress(q) - Progress(queue) \in Nat
      /\ ToGo(q) = ToGo(queue) - (Progress(q) - Progress(queue))
  BY <1>1, <1>5, AdvancedToGo
<1>8. /\ queue' \in Seq(Placed)
      /\ Len(queue') = Len(queue) \/ Len(queue') = Len(queue) - 1
      /\ ToGo(queue') = ToGo(q)
  BY <1>4, <1>6, CompletionKeeps
<1>9. /\ owed' = ToGo(queue') /\ owed' \in Nat
      /\ moved' \in Nat /\ GoalIsNear'
  <2>1. owed' = ToGo(queue') /\ moved' \in Nat
    BY <1>1, <1>4, <1>7, <1>8
  <2>2. owed' \in Nat
    BY <1>8, <2>1, PathIsNat
  <2>3. ahead' = 0 - moved'
    BY <1>4
  <2>4. 0 - moved' <= ahead' /\ ahead' <= owed' /\ ahead' \in Int
    <3>1. moved' \in Nat
      BY <2>1
    <3>2. QED
      BY <2>2, <2>3, <3>1, NegativeIsBelow, Zenon
  <2>5. GoalIsNear'
    BY <2>4, Zenon DEF GoalIsNear
  <2>6. QED
    BY <2>1, <2>2, <2>5, Zenon
<1>10. Len(queue') <= QueueSize
  BY <1>1, <1>8, QueueHasRoom
<1>11. PathInv'
  BY <1>1, <1>4, <1>8, <1>9, <1>10 DEF PathInv
<1>12. QueueStep
  BY <1>2, <1>4, <1>8 DEF QueueStep, Queue!Next, Queue!Finish, Queue!Contract
<1>13. QED
  BY <1>11, <1>12

(* Every step keeps the invariant, and is one of the motion controller's      *)
(* queue or none.                                                             *)
LEMMA NextKeeps ==
  ASSUME PathInv, [Next]_vars
  PROVE  PathInv' /\ QueueStep
<1>1. CASE Next
  <2>1. Command \/ tpClear \/ OtherMode \/ tpRunCycle
    BY <1>1, Zenon DEF Next
  <2>2. \/ \E len \in Lengths, vel \in Vels, kind \in Kinds, canon \in CanonTypes :
              tpAddMove(len, vel, kind, canon)
        \/ Abort \/ tpPause
        \/ tpClear \/ RunEmpty \/ RunAborted
        \/ OtherMode \/ RunSegment
    BY <2>1, Zenon DEF Command, tpRunCycle
  <2>3. QED
    BY <2>2, AddMoveKeeps, AskingKeeps, ResetKeeps, OtherModeKeeps, RunKeeps, Zenon
<1>2. CASE UNCHANGED vars
  <2>1. /\ queue' = queue /\ ahead' = ahead /\ owed' = owed
        /\ done' = done /\ aborting' = aborting
        /\ pausing' = pausing /\ moved' = moved /\ moves' = moves
    BY <1>2 DEF vars, flags, path
  <2>2. PathInv'
    BY <2>1 DEF PathInv, GoalIsNear
  <2>3. QueueStep
    BY <2>1 DEF QueueStep, Queue!Contract
  <2>4. QED
    BY <2>2, <2>3
<1>3. QED
  BY <1>1, <1>2

(* The invariant holds in every state.                                        *)
LEMMA PathInvHolds == Spec => []PathInv
<1>1. Init => PathInv
  BY InitIsPlaced
<1>2. PathInv /\ [Next]_vars => PathInv'
  BY NextKeeps
<1>3. QED
  BY <1>1, <1>2, PTL DEF Spec

(* A period has been given a command, or it has not.                          *)
CommandOnce == commanded \in BOOLEAN

LEMMA CommandedHolds == Spec => []CommandOnce
<1>1. Init => CommandOnce
  BY Zenon DEF Init, CommandOnce
<1>2. CommandOnce /\ [Next]_vars => CommandOnce'
  <2>1. Next => commanded' = TRUE \/ commanded' = FALSE
    BY Zenon DEF Next
  <2>2. UNCHANGED vars => commanded' = commanded
    BY DEF vars
  <2>3. QED
    BY <2>1, <2>2, Zenon DEF CommandOnce
<1>3. QED
  BY <1>1, <1>2, PTL DEF Spec

(* What the invariant says of the path.                                       *)
LEMMA PathInvSuffices == PathInv /\ CommandOnce => PathConserved
<1> SUFFICES ASSUME PathInv, CommandOnce PROVE PathConserved
  OBVIOUS
<1>1. /\ queue \in Seq(Placed) /\ Len(queue) <= QueueSize
      /\ moved \in Nat /\ moves \in 0 .. MaxMoves
      /\ done \in BOOLEAN /\ aborting \in BOOLEAN /\ pausing \in BOOLEAN
      /\ owed = ToGo(queue) /\ owed \in Nat /\ GoalIsNear
  BY DEF PathInv
<1>2. ahead \in Int /\ ahead \in -moved .. owed
  BY <1>1 DEF GoalIsNear
<1>3. ASSUME NEW tc \in Range(queue)
      PROVE  tc \in Segments /\ tc.progress <= tc.target
  <2>1. PICK i \in DOMAIN queue : tc = queue[i]
    BY DEF Range
  <2>2. tc \in Placed
    BY <1>1, <2>1, ElementOfSeq
  <2>3. QED
    BY <2>2 DEF Placed
<1>4. TypeOK
  BY <1>1, <1>2, <1>3 DEF TypeOK, CommandOnce
<1>5. QED
  BY <1>1, <1>2, <1>4 DEF PathConserved

(* The displacements tpUpdateCycle and tpHandleSplitCycle add to currentPos   *)
(* make up the lengths of the moves accepted, through every split period,     *)
(* refusal, pause and abort, for every queue size, period, length, speed and  *)
(* acceleration: what is owed is what is left of the queued segments, and     *)
(* none of them is driven past its end.  goalPos, set back by tpSetPos in     *)
(* every period, is at most that far ahead, and one displacement behind.      *)
THEOREM PathIsConserved == Spec => []PathConserved
<1>1. PathInv /\ CommandOnce => PathConserved
  BY PathInvSuffices
<1>2. QED
  BY <1>1, PathInvHolds, CommandedHolds, PTL

(* The planner is the queue MotionControl takes it for: it takes one segment  *)
(* at a time, and none while an abort is under way or the queue is full, and  *)
(* it loses one at a time, or all of them at once when it is reset.           *)
THEOREM PlannerIsTheQueue == Spec => ImplementsContract
<1>1. Init => Queue!Init
  BY InitIsPlaced
<1>2. PathInv /\ [Next]_vars => [Queue!Next]_(Queue!Contract)
  BY NextKeeps DEF QueueStep
<1>3. QED
  BY <1>1, <1>2, PathInvHolds, PTL DEF Spec, ImplementsContract, Queue!Spec

==============================================================================
