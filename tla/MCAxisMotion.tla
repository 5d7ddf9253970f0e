----------------------------- MODULE MCAxisMotion -----------------------------
(* The frames sent to AxisMotion: a continuous jog, an increment up and an    *)
(* absolute jog down, with an acceleration the planner can stop exactly with  *)
(* and one it stops short with, and a line.                                   *)
EXTENDS AxisMotion

AllJogs ==
  {[cmd |-> "JOG_CONT", offset |-> 0, dir |-> TRUE, vel |-> 1500, acc |-> 1000],
   [cmd |-> "JOG_INCR", offset |-> 1500, dir |-> TRUE, vel |-> 1500, acc |-> 1000],
   [cmd |-> "JOG_ABS", offset |-> 0, dir |-> FALSE, vel |-> 600, acc |-> 400]}

AllLines == {[cmd |-> "SET_LINE", length |-> 3000, vel |-> 900, acc |-> 1000]}
=============================================================================
