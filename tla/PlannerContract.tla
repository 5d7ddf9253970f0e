--------------------------- MODULE PlannerContract ---------------------------
(* What the motion controller (MotionControl) relies on of the coordinated    *)
(* planner src/tp/tp.c: a queue that grows by one accepted segment and        *)
(* shrinks by one finished segment, that an abort empties only once it is     *)
(* asked for, and that refuses segments until the abort is over.              *)
EXTENDS Naturals

CONSTANT QueueSize

VARIABLES len, done, aborting

Contract == <<len, done, aborting>>

Empty == len' = 0 /\ done' = TRUE /\ aborting' = FALSE

Accept ==
  /\ ~aborting /\ len < QueueSize
  /\ len' = len + 1 /\ done' = FALSE /\ UNCHANGED aborting

Ask == aborting' = TRUE /\ UNCHANGED <<len, done>>

Finish == len > 0 /\ len' = len - 1 /\ UNCHANGED <<done, aborting>>

(* An empty queue is found empty; an abort is over; motion is switched off.   *)
Reset == Empty

Init == len = 0 /\ done = TRUE /\ aborting = FALSE

Next == Accept \/ Ask \/ Finish \/ Reset

Spec == Init /\ [][Next]_Contract
=============================================================================
