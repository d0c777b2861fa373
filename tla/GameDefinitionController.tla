---------------------- MODULE GameDefinitionController ----------------------
(***************************************************************************)
(* The GameDefinition controller: it validates every GameDefinition and    *)
(* records the result in the status, which gates the SteamServers that     *)
(* refer to it.                                                            *)
(*                                                                         *)
(* def is the API server's store, defCache the informer cache the          *)
(* controller reads, which may lag behind.  A write from the cache         *)
(* succeeds only on an object that has not changed since it was cached     *)
(* (resourceVersion): here, when the cached and the stored object are      *)
(* equal.  Every object carries its uid, here the number of user actions   *)
(* at its creation, so that a recreated object differs from the old one.   *)
(***************************************************************************)
EXTENDS Admission

CONSTANTS Games,      \* names of GameDefinitions
          Defs,       \* specs users may give a GameDefinition
          MaxEdits,   \* bound on the number of user actions
          MaxFaults   \* bound on API failures and operator crashes

ASSUME BoundAssumption == MaxEdits \in Nat /\ MaxFaults \in Nat
ASSUME NoneAssumption  == None \notin Defs /\ None \notin Games

VARIABLES def,       \* [Games -> definition or None], the API server's store
          defCache,  \* the controllers' cache of def
          defQueue,  \* names waiting to be reconciled
          edits,     \* user actions so far: a logical clock, bounded
          faults     \* API failures and crashes so far

defVars == <<def, defCache, defQueue, edits, faults>>

Definitions == [uid : 0..MaxEdits, spec : Defs, ready : BOOLEAN,
                message : {"", "validated", "invalid"}]

-----------------------------------------------------------------------------
(* The two verdicts *)

(* Fault: the text written is not the text compared with *)
ValidatedMisspelt(d) == [d EXCEPT !.ready = TRUE, !.message = "valid"]

(* Fault: an invalid definition keeps the ready flag it had *)
InvalidatedKeepsReady(d) == [d EXCEPT !.message = "invalid"]

Validated(d) == [d EXCEPT !.ready = TRUE, !.message = "validated"]

Invalidated(d) == [d EXCEPT !.ready = FALSE, !.message = "invalid"]

-----------------------------------------------------------------------------
(* The cluster at start: definitions an earlier run of the operator has    *)
(* validated, or none.  The informers' first list enqueues every object.   *)

ExistingDefs == {g \in Games : def[g] # None}

DefInit ==
  /\ def \in [Games -> {None} \cup
                {[uid |-> 0, spec |-> d, ready |-> TRUE, message |-> "validated"] :
                    d \in {x \in Defs : ValidDefinition(x)}}]
  /\ defCache = def
  /\ defQueue = ExistingDefs
  /\ edits = 0
  /\ faults = 0

-----------------------------------------------------------------------------
(* Users *)

UserActs == edits < MaxEdits /\ edits' = edits + 1

CreateDef(g) ==
  /\ UserActs
  /\ def[g] = None
  /\ \E d \in Defs :
       def' = [def EXCEPT ![g] = [uid |-> edits', spec |-> d,
                                  ready |-> FALSE, message |-> ""]]
  /\ UNCHANGED <<defCache, defQueue, faults>>

(* The status is a subresource: an edit leaves it as it is *)
EditDef(g) ==
  /\ UserActs
  /\ def[g] # None
  /\ \E d \in Defs \ {def[g].spec} : def' = [def EXCEPT ![g].spec = d]
  /\ UNCHANGED <<defCache, defQueue, faults>>

DeleteDef(g) ==
  /\ UserActs
  /\ def[g] # None
  /\ def' = [def EXCEPT ![g] = None]
  /\ UNCHANGED <<defCache, defQueue, faults>>

-----------------------------------------------------------------------------
(* The informer *)

SyncDef(g) ==
  /\ defCache[g] # def[g]
  /\ defCache' = [defCache EXCEPT ![g] = def[g]]
  /\ defQueue' = defQueue \cup {g}
  /\ UNCHANGED <<def, edits, faults>>

-----------------------------------------------------------------------------
(* The controller.  One reconciliation reads the cache once and writes the *)
(* status at most once, so it is one step.  An error returns the request   *)
(* to the queue (rate limited: later, in any order).                       *)

Dequeue(g) == g \in defQueue /\ defQueue' = defQueue \ {g}

ReconcileDefGone(g) ==
  /\ Dequeue(g)
  /\ defCache[g] = None
  /\ UNCHANGED <<def, defCache, edits, faults>>

(* Fault: the verdict is patched in, whatever the stored object is by now *)
WriteDefStatusUnlocked(g, d) ==
  /\ def' = IF def[g] = None THEN def
            ELSE [def EXCEPT ![g].ready = d.ready, ![g].message = d.message]
  /\ defQueue' = defQueue \ {g}

(* Status().Update of the cached object with its new status *)
WriteDefStatus(g, d) ==
  IF def[g] = defCache[g]
  THEN def' = [def EXCEPT ![g] = d] /\ defQueue' = defQueue \ {g}
  ELSE UNCHANGED <<def, defQueue>>

ReconcileInvalidDef(g) ==
  /\ g \in defQueue
  /\ defCache[g] # None
  /\ ~ValidDefinition(defCache[g].spec)
  /\ WriteDefStatus(g, Invalidated(defCache[g]))
  /\ UNCHANGED <<defCache, edits, faults>>

ReconcileValidDef(g) ==
  /\ g \in defQueue
  /\ defCache[g] # None
  /\ ValidDefinition(defCache[g].spec)
  /\ IF defCache[g] = Validated(defCache[g])
     THEN defQueue' = defQueue \ {g} /\ UNCHANGED def
     ELSE WriteDefStatus(g, Validated(defCache[g]))
  /\ UNCHANGED <<defCache, edits, faults>>

ReconcileDef(g) ==
  ReconcileDefGone(g) \/ ReconcileInvalidDef(g) \/ ReconcileValidDef(g)

(* A write that reached the API server and whose answer is lost: the       *)
(* controller sees an error and keeps the request.  (One that never        *)
(* reached it changes nothing and is a stutter.)                           *)
DefAnswerLost(g) ==
  /\ faults < MaxFaults /\ faults' = faults + 1
  /\ g \in defQueue
  /\ defCache[g] # None
  /\ def[g] = defCache[g]
  /\ def' = [def EXCEPT ![g] = IF ValidDefinition(defCache[g].spec)
                                 THEN Validated(defCache[g])
                                 ELSE Invalidated(defCache[g])]
  /\ UNCHANGED <<defCache, defQueue, edits>>

(* The operator restarts: the queue is lost, the informers list again *)
DefCrash ==
  /\ faults < MaxFaults /\ faults' = faults + 1
  /\ defCache' = def
  /\ defQueue' = ExistingDefs
  /\ UNCHANGED <<def, edits>>

-----------------------------------------------------------------------------
DefUserNext == \E g \in Games : CreateDef(g) \/ EditDef(g) \/ DeleteDef(g)

DefSystemNext ==
  \E g \in Games : SyncDef(g) \/ ReconcileDef(g) \/ DefAnswerLost(g)

DefNext == DefUserNext \/ DefSystemNext \/ DefCrash

(* Users are never obliged to act.  The informer delivers what changed and *)
(* the worker takes every request in the end: the queue is first in first  *)
(* out and a delayed request comes back after a bounded time.              *)
DefFairness ==
  \A g \in Games : WF_defVars(SyncDef(g)) /\ WF_defVars(ReconcileDef(g))

DefSpec == DefInit /\ [][DefNext]_defVars /\ DefFairness

-----------------------------------------------------------------------------
(* Properties *)

(* Type invariant of the GameDefinition controller's state. *)
DefTypeOK ==
  /\ def \in [Games -> Definitions \cup {None}]
  /\ defCache \in [Games -> Definitions \cup {None}]
  /\ defQueue \subseteq Games
  /\ edits \in 0..MaxEdits
  /\ faults \in 0..MaxFaults

ReadyRises(g) ==
  def[g] # None /\ def'[g] # None /\ ~def[g].ready /\ def'[g].ready

(* A status write never marks ready a definition whose stored spec does    *)
(* not validate: Reconcile validates a cached copy and Status().Update     *)
(* must not put that verdict on a spec edited in the meantime.             *)
ReadyOnlyWhenValid ==
  [][\A g \in Games : ReadyRises(g) => ValidDefinition(def'[g].spec)]_defVars

(* The status is the verdict on the spec *)
Accurate(d) ==
  /\ d.ready <=> ValidDefinition(d.spec)
  /\ d.message = IF d.ready THEN "validated" ELSE "invalid"

(* The statuses agree with the specs once the users stop: whatever edits,  *)
(* conflicts, lost answers and crashes came before, every definition ends  *)
(* up ready if it validates and not ready, with the error, if it does not. *)
ReadyEventuallyAccurate ==
  \A g \in Games : <>[](def[g] # None => Accurate(def[g]))

(* The request has been dealt with, and every event has been delivered *)
DefSettled(g) == g \notin defQueue /\ defCache[g] = def[g]

(* The controller rests only when the status is right: neither a conflict  *)
(* nor a lost answer, a restart or an edit in the meantime makes it forget *)
(* a definition, of which nothing would remind it any more.                *)
DefSettledAccurate ==
  \A g \in Games : DefSettled(g) /\ def[g] # None => Accurate(def[g])

(* What makes DefSettledAccurate inductive: uids are not reused, and of a  *)
(* definition without a request the cache shows the right status, or is    *)
(* due to be replaced.                                                     *)
DefUidsUsed ==
  \A g \in Games : /\ def[g] # None => def[g].uid <= edits
                   /\ defCache[g] # None => defCache[g].uid <= edits

DefOutdated(g) ==
  \/ def[g] = None
  \/ def[g].uid # defCache[g].uid
  \/ def[g].ready # defCache[g].ready
  \/ def[g].message # defCache[g].message

DefRemembered(g) ==
  g \notin defQueue /\ defCache[g] # None => DefOutdated(g) \/ Accurate(defCache[g])

DefSettledInv ==
  DefTypeOK /\ DefUidsUsed /\ \A g \in Games : DefRemembered(g)
=============================================================================
