------------------------------- MODULE MCTags -------------------------------
(* Two tags of one node beside a peer, for TLC.                            *)
EXTENDS Tags

CONSTANTS gpu, infer, self, peer

MCOwnTags == <<gpu, infer>>
=============================================================================
