------------------------------ MODULE MCServer ------------------------------
(***************************************************************************)
(* The coordinator's HTTP server in one run: a behaviour is one of its     *)
(* operations (ServerOps) or one of its exhaustive jobs (ExhaustiveJobs),  *)
(* and the variables of the other stay at their initial values.            *)
(***************************************************************************)
EXTENDS ServerOps, ExhaustiveJobs, TLC

VARIABLE part

Two(a, b) == ("q1" :> a) @@ ("q2" :> b)
Three(a, b, c) == Two(a, b) @@ ("q3" :> c)

(* The endpoints that take locks alone beside each other, and every other   *)
(* endpoint beside one that excludes it or shares its permit.               *)
MCPairs ==
  {<<"resize", "remoteResize">>, <<"resize", "vocab">>, <<"resize", "flush">>,
   <<"remoteResize", "vocab">>, <<"remoteResize", "flush">>, <<"vocab", "vocab">>,
   <<"flush", "flush">>, <<"rebalance", "vocab">>, <<"reconcile", "register">>,
   <<"gc", "vocab">>, <<"handoff", "vocab">>, <<"reassign", "write">>, <<"resync", "flush">>,
   <<"deregister", "vocab">>, <<"learnVocab", "remoteResize">>, <<"importAliases", "write">>,
   <<"learnAliases", "bulk">>, <<"checkpoint", "backup">>, <<"checkpoint", "write">>,
   <<"stats", "clusterState">>, <<"catShards", "health">>, <<"getDoc", "search">>,
   <<"v2Search", "v2Batch">>, <<"reconcileLoop", "reconcile">>}

MCPlans == {Two(p[1], p[2]) : p \in MCPairs} \cup {Three("vocab", "flush", "write")}

OnePlan == CHOOSE plan \in MCPlans : TRUE

ServerInit ==
  /\ part \in {"ops", "jobs"}
  /\ OpsInit /\ JobsInit
  /\ part = "jobs" => req = [r \in DOMAIN OnePlan |-> [req[r] EXCEPT !.kind = OnePlan[r]]]

ServerNext ==
  \/ part = "ops" /\ OpsNext /\ UNCHANGED <<part, jobVars>>
  \/ part = "jobs" /\ JobsNext /\ UNCHANGED <<part, opsVars>>

(* A step of the part that rests is never enabled.                          *)
ServerSpec ==
  ServerInit /\ [][ServerNext]_<<part, opsVars, jobVars>> /\ OpsFairness /\ JobsFairness

-----------------------------------------------------------------------------
(* Every request that asked for its permit is over in the end, or shutdown  *)
(* took it; a server told to stop exits, whatever detached workers and      *)
(* half-done resizes it finds; and every job becomes terminal and gives its *)
(* slot back, whether or not anybody reads its stream.                      *)
EverythingEnds == RequestsEnd /\ ShutdownEnds /\ JobsEnd
=============================================================================
