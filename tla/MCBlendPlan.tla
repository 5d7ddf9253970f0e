----------------------------- MODULE MCBlendPlan -----------------------------
(* The segments programmed in BlendPlan: long and short lines with and        *)
(* without a tolerance, one that must stop, a traverse, a line that turns a   *)
(* rotary axis, and circles that bend either way.                             *)
EXTENDS BlendPlan

Move(kind, convex, length, tolerance, term, canon) ==
  [kind |-> kind, convex |-> convex, length |-> length, tolerance |-> tolerance, term |-> term, canon |-> canon]

AllMoves ==
  {Move("line", FALSE, length, tolerance, "parabolic", "feed") : length \in {40, 100}, tolerance \in {0, 6}}
  \cup {Move("line", FALSE, 100, 6, "exact", "feed"), Move("line", FALSE, 40, 0, "stop", "feed"),
        Move("line", FALSE, 100, 0, "parabolic", "traverse"), Move("rotary", FALSE, 100, 0, "parabolic", "feed"),
        Move("circle", TRUE, 100, 0, "parabolic", "feed"), Move("circle", FALSE, 100, 6, "parabolic", "feed")}
=============================================================================
