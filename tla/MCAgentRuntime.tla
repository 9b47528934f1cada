--------------------------- MODULE MCAgentRuntime ---------------------------
(* AgentRuntime with two capabilities that share provider 1: a strict one   *)
(* without fallback and a lenient one with provider 2 behind it.            *)
EXTENDS AgentRuntime, TLC

CONSTANTS t1, t2, strict, lenient

MCCertified == (strict :> {1}) @@ (lenient :> {1, 2})
MCMaxConcurrency == [c \in Capability |-> 1]
MCThreshold == (strict :> 1) @@ (lenient :> 2)
=============================================================================
