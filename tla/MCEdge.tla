------------------------------- MODULE MCEdge -------------------------------
(* The edge worker: two requests of alice for simulations compete for her    *)
(* budgets, or, with callers that stay, look up her row as it comes and      *)
(* goes; two calls to the Rust service share identity tokens; two callers    *)
(* reach the Node origin, through the worker or directly.  The three modules *)
(* share no variable, so a behaviour drives one of them, `driven`, and       *)
(* leaves the others as they start.                                          *)
EXTENDS EdgeSimulation, IdToken, EdgeProxy, TLC

CONSTANTS alice, r1, r2, RequestLimit, PathLimit
MCWho == [r \in Requests |-> alice]
MCPaths == [r \in Requests |-> 2]
MCKeys == {"simulate", "simulate-paths"} \X Uids
MCLimit == [k \in Keys |-> IF k[1] = "simulate" THEN RequestLimit ELSE PathLimit]

(* Two calls on one isolate, on two of a colo, or at the origin. *)
MCPlacements == {<<"a", "a">>, <<"a", "b">>, <<"origin", "origin">>}

VARIABLE driven

routeVars == <<now, objectVars, memberVars, req>>
edgeVars == <<routeVars, tokenVars, proxyVars, driven>>

EdgeInit ==
  /\ driven \in {"quota", "membership", "token", "proxy"}
  /\ Init /\ (driven # "membership" => users = {alice})
  /\ TokenInit /\ (driven # "token" => host = <<"a", "a">>)
  /\ ProxyInit

(* An earlier request of alice was charged and then refused. *)
EarlierRequest ==
  /\ now = 0 /\ stored[RequestKey(alice)] = None
  /\ \A r \in Requests : req[r].at = "idle"
  /\ Grant(RequestKey(alice), 1)
  /\ UNCHANGED <<now, memberVars, req>>

(* Of the two callers of the proxy the second comes after the first.         *)
EdgeNext ==
  \/ /\ driven = "quota" /\ (Next \/ EarlierRequest) /\ UNCHANGED users
     /\ UNCHANGED <<tokenVars, proxyVars, driven>>
  \/ /\ driven = "membership" /\ Next /\ \A r \in Requests : ~req'[r].aborted
     /\ UNCHANGED <<tokenVars, proxyVars, driven>>
  \/ driven = "token" /\ TokenNext /\ UNCHANGED <<routeVars, proxyVars, driven>>
  \/ /\ driven = "proxy" /\ ProxyNext
     /\ passing'[2] # passing[2] => passing[1].pc = "answered"
     /\ UNCHANGED <<routeVars, tokenVars, driven>>

(* The fairness of EdgeSimulation, when it is driven. *)
Driven == driven \in {"quota", "membership"}
EdgeFairness ==
  /\ WF_routeVars(Driven /\ Tick)
  /\ \A r \in Requests :
       WF_routeVars(Driven /\ Handle(r)) /\ WF_routeVars(Driven /\ RustAborted(r))

EdgeSpec == EdgeInit /\ [][EdgeNext]_edgeVars /\ EdgeFairness
=============================================================================
