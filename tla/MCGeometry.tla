------------------------------ MODULE MCGeometry ------------------------------
(* The paths the model checker tries: lines of whole length, one of no        *)
(* length; arcs with normals along each axis, one reversed and one not of     *)
(* unit length, clockwise and counterclockwise.                               *)
EXTENDS Geometry

MCSpans == {<<0, <<0, 0, 0>>>>, <<2, <<0, -2, 0>>>>, <<5, <<3, 0, 4>>>>, <<3, <<1, 2, 2>>>>}
MCNormals == {<<0, 0, 1>>, <<0, -1, 0>>, <<2, 0, 0>>}
MCTurnCounts == {-2, -1, 0, 1}
=============================================================================
