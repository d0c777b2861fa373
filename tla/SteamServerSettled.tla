-------------------------- MODULE SteamServerSettled --------------------------
(***************************************************************************)
(* When the operator may rest: a server for which no request waits, no     *)
(* event is undelivered and no reconciliation runs.  Nothing wakes the     *)
(* operator for it any more, so whatever is wrong then stays wrong.        *)
(***************************************************************************)
EXTENDS SteamServerRefinement

(* Every event about the server, its resources and its definition has been *)
(* delivered, and every request they left has been dealt with.             *)
Settled(s) ==
  /\ s \notin queue /\ req # s
  /\ serverCache[s] = server[s]
  /\ childCache[s] = child[s]
  /\ server[s] # None /\ server[s].spec.game # None
       => defCache[server[s].spec.game] = def[server[s].spec.game]

(* The operator rests only when its work is done: a settled server is not  *)
(* being deleted, has its finalizer, is accepted and reported Running, and *)
(* its resources are those of its stored spec and definition.  No event,   *)
(* conflict, failed call or restart makes the operator forget a server.    *)
SettledInStep ==
  \A s \in Servers : Settled(s) /\ server[s] # None =>
    /\ Wanted(s) /\ server[s].finalizer
    /\ server[s].status.state = "Running"
    /\ Acceptable(server[s].spec, def)
    /\ InStep(s)

-----------------------------------------------------------------------------
(* What makes SettledInStep inductive: what the operator knows of a server *)
(* that has no request waiting.                                            *)

(* The cached server is due to be replaced: the object is gone, is another *)
(* one, or has a status that the cache does not show yet.                  *)
Outdated(s) ==
  \/ server[s] = None
  \/ server[s].uid # serverCache[s].uid
  \/ server[s].status # serverCache[s].status

(* The cached resource fits, or an event about it is still to come *)
FitsOrStale(s, k, spec, d) ==
  childCache[s][k] # child[s][k] \/ Fits(k, childCache[s][k], spec, d)

(* The kinds the worker is done with when it comes to a step *)
Passed(step) ==
  CASE step = "ConfigMap"   -> {}
    [] step = "PVC"         -> {"ConfigMap"}
    [] step = "StatefulSet" -> {"ConfigMap", "PVC"}
    [] step = "Service"     -> {"ConfigMap", "PVC", "StatefulSet"}
    [] step = "status"      -> Kinds

(* The worker works on what the caches show, and has dealt with the kinds  *)
(* it has passed.                                                          *)
UpToDate(s) ==
  /\ held = serverCache[s] /\ ~held.deleting
  /\ Acceptable(held.spec, defCache)
  /\ heldDef = DefOf(held.spec, defCache)
  /\ \A k \in Passed(pc) : FitsOrStale(s, k, held.spec, heldDef)

Reconciled(s) ==
  LET o == serverCache[s]
  IN  /\ ~o.deleting /\ o.finalizer
      /\ o.status.state = "Running"
      /\ Acceptable(o.spec, defCache)
      /\ \A k \in Kinds : FitsOrStale(s, k, o.spec, DefOf(o.spec, defCache))

Remembered(s) ==
  s \notin queue =>
    /\ req = s /\ pc # "fail" => UpToDate(s)
    /\ req # s /\ serverCache[s] # None => Outdated(s) \/ Reconciled(s)

(* A server without a request is up to date in the worker's hands, or      *)
(* reconciled, or an event about it is still to come.                      *)
NothingForgotten == \A s \in Servers : Remembered(s)

(* Nor does the cache show a deletion of a server without the finalizer. *)
CacheGuarded ==
  \A s \in Servers :
    serverCache[s] # None /\ serverCache[s].deleting => serverCache[s].finalizer

SettledInv == LifecycleInv /\ CacheGuarded /\ NothingForgotten
=============================================================================
