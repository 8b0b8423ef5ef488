----------------------------- MODULE MCAgentChat -----------------------------
(* A small instance of AgentChat.                                            *)
EXTENDS AgentChat

TwoTools == {<<"read", 1>>, <<"exec", 1>>}
=============================================================================
