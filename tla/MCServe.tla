------------------------------ MODULE MCServe ------------------------------
(* A small instance of Serve for TLC.                                      *)
EXTENDS Serve

CONSTANTS rpc, events, other, tok1, tok2, tok3

MCTopic == {rpc, events, other}
MCServed == {rpc, events}
MCNone == {}

Req(topic, token) == [topic |-> topic, token |-> token, ok |-> TRUE]

(* A request, one that cannot be decoded, one on a topic that is not       *)
(* served, and a fire-and-forget message.                                  *)
MCMessage ==
    {Req(rpc, tok1), [topic |-> rpc, token |-> tok2, ok |-> FALSE],
     Req(other, tok3), Req(events, NoToken)}
=============================================================================
