-------------------------- MODULE MCRenderScheduler --------------------------
(* The instance of RenderScheduler that TLC checks: two semantic keys that   *)
(* look alike and one that does not.                                         *)
EXTENDS RenderScheduler

CONSTANTS up, rising, down

MCPicture == [key \in SemanticKeys |-> IF key = down THEN "red" ELSE "green"]
MCIntervals == {1, 2}
=============================================================================
