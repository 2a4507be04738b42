------------------------------- MODULE Gateway -------------------------------
(***************************************************************************)
(* The executor as the API uses it: the handlers call Execute or Stream,   *)
(* whichever a request asks for, and both kinds of request share one       *)
(* conversation store and one account selector.  Every response is served  *)
(* by one of the two; conversations, sessions and accounts are contended   *)
(* across them.  The operators of streams are those of StreamExecutor,     *)
(* those of the other requests are Waiting's.                              *)
(***************************************************************************)
EXTENDS StreamExecutor

CONSTANT MaxRounds   \* see Executor

VARIABLE request

gatewayVars == <<stream, request, storeVars, selectorVars>>

Waiting == INSTANCE Executor

ASSUME GatewayAssumption == Waiting!ExecutorAssumption

GatewayInit == Init /\ Waiting!Init

GatewayNext ==
    \/ (Arrive \/ \E r \in Responses : Step(r) \/ HangUp(r)) /\ UNCHANGED request
    \/ /\ \/ Waiting!Arrive
          \/ \E r \in Responses : Waiting!Step(r) \/ Waiting!HangUp(r)
       /\ UNCHANGED stream
    \/ (Reload \/ Tick) /\ UNCHANGED <<stream, request, storeVars>>

(* The goroutine of r, whichever function it runs. *)
GatewayStep(r) ==
    \/ Step(r) /\ UNCHANGED request
    \/ Waiting!Step(r) /\ UNCHANGED stream

GatewayFairness ==
    /\ WF_gatewayVars(Tick /\ UNCHANGED <<stream, request, storeVars>>)
    /\ \A r \in Responses : WF_gatewayVars(GatewayStep(r))

GatewaySpec == GatewayInit /\ [][GatewayNext]_gatewayVars /\ GatewayFairness

-----------------------------------------------------------------------------
Active(r) == At(r, Running) \/ request[r].pc \in Waiting!Running
Over(r) == Ended(r) \/ Waiting!Ended(r)

(* Every request comes to its end: candidates, rounds, accounts and waits   *)
(* run out, even while other requests, of either kind, keep the accounts    *)
(* cooling for each other.                                                  *)
RequestsEnd == \A r \in Responses : Active(r) ~> Over(r)
=============================================================================
