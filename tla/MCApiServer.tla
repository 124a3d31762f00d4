---------------------------- MODULE MCApiServer -----------------------------
(* ApiServer for TLC: two requests that may race for one name.              *)
EXTENDS ApiServer
CONSTANT lm
MCNameOf == [r \in Requests |-> lm]
=============================================================================
