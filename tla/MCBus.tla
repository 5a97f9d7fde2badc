------------------------------- MODULE MCBus -------------------------------
(***************************************************************************)
(* Bus for model checking: a service, a client, and who calls what.        *)
(***************************************************************************)
EXTENDS Bus

CONSTANTS s, c, o, p, i1, i2, l1

\* The service serves o and the client p; or the service serves both.
ServesEach == [b \in Buses |-> IF b = s THEN {o} ELSE {p}]
ServesTwo  == [b \in Buses |-> IF b = s THEN {o, p} ELSE {}]

\* The client makes all calls: synchronous ones of o, an asynchronous one of
\* p, a lookup of o.
ClientCalls == [x \in Calls |-> c]
MixedTarget == [x \in Calls |-> IF x = i2 THEN p ELSE o]
MixedKind   == [x \in Calls |-> IF x = l1 THEN "lookup" ELSE IF x = i2 THEN "async" ELSE "invoke"]
AllTargetO  == [x \in Calls |-> o]
AllInvoke   == [x \in Calls |-> "invoke"]
============================================================================
