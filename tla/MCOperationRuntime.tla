------------------------- MODULE MCOperationRuntime -------------------------
(* OperationRuntime with three threads: two requests that share a key, one  *)
(* forbids the commit the handler makes, one misses a log of it, and one of  *)
(* another key that gets what it asks for.  One tick is every timeout, so    *)
(* calls race each other and their deadline; the time after it is only that  *)
(* of handlers that are late or never return.                               *)
EXTENDS OperationRuntime

CONSTANTS t1, t2, t3, k1, k2

Req(k, allowed, required) ==
    [key |-> k, head |-> 1, scope |-> "case", allowed |-> allowed,
     required |-> required, timeout |-> 1, input |-> 0]

MCRequest == {Req(k1, {}, {}), Req(k1, {"commit"}, {"log"}), Req(k2, {"commit"}, {"commit"})}

MCOutcome == {[status |-> "success", effects |-> {"commit"}, kinds |-> {"commit"},
               sha |-> TRUE, errors |-> {}]}
=============================================================================
