------------------------------- MODULE MCLane -------------------------------
(* Small instances of Lane for TLC.                                        *)
EXTENDS Lane
=============================================================================
