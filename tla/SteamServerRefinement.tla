----------------------- MODULE SteamServerRefinement -----------------------
(***************************************************************************)
(* The operator implements ServerLifecycle for every server name: the      *)
(* stored object gives the phase, and the owner recorded in a resource     *)
(* tells what is owned from what was left behind.                          *)
(***************************************************************************)
EXTENDS SteamServerController

Phase(s) ==
  IF server[s] = None THEN "absent"
  ELSE IF server[s].deleting THEN "deleting"
  ELSE IF server[s].finalizer THEN "guarded" ELSE "new"

Present(s) == {k \in Kinds : child[s][k] # None}

Owned(s) ==
  {k \in Present(s) : server[s] # None /\ child[s][k].owner = server[s].uid}

Left(s) == Present(s) \ Owned(s)

L == INSTANCE ServerLifecycle
       WITH phase   <- [s \in Servers |-> Phase(s)],
            owns    <- [s \in Servers |-> Owned(s)],
            orphans <- [s \in Servers |-> Left(s)]

(* Reconcile, handleDeletion, the finalizer and the owner references       *)
(* together keep the promise of ServerLifecycle, safety and progress.      *)
ImplementsLifecycle == L!Spec

(* The safety part alone, which needs no fairness.                         *)
ImplementsSafely == L!Safety

-----------------------------------------------------------------------------
(* What makes the implementation inductive, besides FinalizerInv.          *)

(* A deletion is only requested of a server with the finalizer. *)
DeletingGuarded ==
  \A s \in Servers :
    server[s] # None /\ server[s].deleting => server[s].finalizer

(* Copies are not newer than what they are copies of: a cached server is   *)
(* an earlier or the stored one, the held one an earlier or the cached one. *)
CopiesInOrder ==
  /\ \A s \in Servers :
       server[s] # None /\ serverCache[s] # None
         => serverCache[s].uid <= server[s].uid
  /\ held # None =>
       /\ server[req] # None => held.uid <= server[req].uid
       /\ serverCache[req] # None => held.uid <= serverCache[req].uid

(* Once a server owns something, no copy of an earlier server of its name  *)
(* is left, in the cache or in the worker, that could take it away.        *)
OwnersSeen ==
  \A s \in Servers : Owned(s) # {} =>
    /\ serverCache[s] # None => serverCache[s].uid = server[s].uid
    /\ held # None /\ req = s => held.uid = server[s].uid

LifecycleInv == FinalizerInv /\ DeletingGuarded /\ CopiesInOrder /\ OwnersSeen
=============================================================================
