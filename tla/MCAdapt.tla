------------------------------ MODULE MCAdapt ------------------------------
(* A busy flow beside one that only opens and closes, for TLC.             *)
EXTENDS Adapt

CONSTANTS f1, f2, Busy, Frames

MCFlow == {f1, f2}
MCRequests == [f \in MCFlow |-> IF f = f1 THEN Busy ELSE 0]
MCResponses == [f \in MCFlow |-> IF f = f1 THEN Frames ELSE 0]
=============================================================================
