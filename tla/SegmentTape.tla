----------------------------- MODULE SegmentTape -----------------------------
(* What the segment queue of the trajectory planner promises: a tape of       *)
(* motion segments with the ones still to run ahead of the head and a limited *)
(* number of the ones already run behind it.                                  *)
EXTENDS Integers, Sequences

CONSTANTS Segments, Capacity, Memory

VARIABLES ahead,   \* segments to run, the next one first
          behind   \* segments run, the latest one last

vars == <<ahead, behind>>

(* The last n elements of a sequence, or all of them.                         *)
Latest(s, n) == IF Len(s) <= n THEN s ELSE SubSeq(s, Len(s) - n + 1, Len(s))

Init == ahead = <<>> /\ behind = <<>>

Clear == ahead' = <<>> /\ behind' = <<>>

Put(s) == /\ Len(ahead) < Capacity
          /\ ahead' = Append(ahead, s)
          /\ UNCHANGED behind

PopBack == /\ ahead # <<>>
           /\ ahead' = SubSeq(ahead, 1, Len(ahead) - 1)
           /\ UNCHANGED behind

Advance == /\ ahead # <<>>
           /\ ahead' = Tail(ahead)
           /\ behind' = Latest(Append(behind, Head(ahead)), Memory)

Drop(n) == /\ n <= Len(ahead)
           /\ ahead' = SubSeq(ahead, n + 1, Len(ahead))
           /\ UNCHANGED behind

StepBack == /\ behind # <<>>
            /\ ahead' = <<behind[Len(behind)]>> \o ahead
            /\ behind' = SubSeq(behind, 1, Len(behind) - 1)

Next == \/ Clear \/ PopBack \/ Advance \/ StepBack
        \/ \E s \in Segments : Put(s)
        \/ \E n \in 1 .. Len(ahead) : Drop(n)

Spec == Init /\ [][Next]_vars
==============================================================================
