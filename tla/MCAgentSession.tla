--------------------------- MODULE MCAgentSession ---------------------------
(* Two runs, two calls to a response, one canceller that may call cancel()  *)
(* again and again.                                                        *)
EXTENDS AgentSession

CONSTANTS c1, c2, k1

MCCalls == {c1, c2}
MCCancellers == {k1}

=============================================================================
