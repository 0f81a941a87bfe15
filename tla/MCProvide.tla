----------------------------- MODULE MCProvide -----------------------------
(* A capability of one topic, for TLC.                                     *)
EXTENDS Provide

CONSTANTS capTopic, tok1, tok2

(* Two requests, for a de-dup set that holds one.                          *)
MCRequest == [topic: {capTopic}, token: {tok1, tok2}, ok: {TRUE}]
=============================================================================
