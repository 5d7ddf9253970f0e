------------------------------- MODULE MCRtapi -------------------------------
(* The values of Rtapi for the model checker.  The sizes are those of the     *)
(* structures in units of 64 bytes, rounded up, the page too; the address     *)
(* stored over the counter may make the next ids run past the largest int, be *)
(* negative, or be small.                                                     *)
EXTENDS Rtapi

MCPeriod ==
  [t \in {"client_p", "client_s", "motion-thread", "ecat-thread"} |->
    CASE t = "client_p" -> 2 [] t = "client_s" -> 9 [] OTHER -> 3]
MCSizes == [uuid |-> 1, hal |-> 16384, socket |-> 2, motion |-> 27]
MCPointers == {-9, 3, 12}
==============================================================================
