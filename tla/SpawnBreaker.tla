---------------------------- MODULE SpawnBreaker ----------------------------
(***************************************************************************)
(* What the circuit breaker of the MCP gateway (mcp_gateway/breaker.py)    *)
(* promises the backend pool, without clocks: of each key it counts the    *)
(* fast deaths that are still recent, it trips when there are              *)
(* FastDeathLimit of them, and it forgets a key altogether when the key is *)
(* healthy, when a trip has cooled down, or to keep its table small.  How  *)
(* many deaths are still recent is left open.  CircuitBreaker implements   *)
(* this module, BackendPool uses its operators.                            *)
(***************************************************************************)
EXTENDS Naturals

CONSTANTS Keys, FastDeathLimit

VARIABLE breaker    \* what is known of each key

Clear == [recent |-> 0, open |-> FALSE]

KeyStates == [recent: Nat, open: BOOLEAN]

\* The states a key may be in after one more fast death: some of the deaths
\* counted before may have aged out.  A key that has tripped stays open.
AfterDeath(s) ==
  { [recent |-> n, open |-> s.open \/ n >= FastDeathLimit] : n \in 1..(s.recent + 1) }

\* record_death: keys are forgotten when the table overflows, k itself among
\* them if it has just tripped.
RecordDeath(k) ==
  \E s \in AfterDeath(breaker[k]), F \in SUBSET Keys :
    breaker' = [j \in Keys |-> IF j \in F THEN Clear ELSE IF j = k THEN s ELSE breaker[j]]

\* record_healthy, and allow after the cool-down.
Forget(k) == breaker' = [breaker EXCEPT ![k] = Clear]

Init == breaker = [k \in Keys |-> Clear]

Next == \E k \in Keys : RecordDeath(k) \/ Forget(k)

Spec == Init /\ [][Next]_breaker

=============================================================================
