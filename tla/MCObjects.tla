----------------------------- MODULE MCObjects -----------------------------
(* Small objects over a two-letter alphabet, for TLC.                      *)
EXTENDS Objects

CONSTANTS a, b

(* Two objects that share their first chunk; one has it twice and ends in  *)
(* a short chunk; and the empty object.                                    *)
MCObject == {<<a, b, a, b, b>>, <<a, b>>, <<>>}
=============================================================================
