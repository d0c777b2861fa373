----------------------- MODULE SteamServerController -----------------------
(***************************************************************************)
(* The operator: the SteamServer controller together with the              *)
(* GameDefinition controller it depends on, the API server both write to,  *)
(* the informer cache both read from, and the garbage collector.           *)
(*                                                                         *)
(* One worker reconciles one server at a time.  pc says which step of      *)
(* Reconcile it is about to make: "idle", one of the Kinds of child        *)
(* resources, "status" (updateStatus) or "fail" (setErrorStatus).  Every   *)
(* step reads the cache and makes at most one API call; between two steps  *)
(* anything may happen to the objects, and the worker goes on with the     *)
(* SteamServer and the GameDefinition it fetched at the start.             *)
(***************************************************************************)
EXTENDS GameDefinitionController

CONSTANTS Servers,   \* names of SteamServers
          Specs,     \* specs users may give a SteamServer
          Workloads, \* what the controller may find of a StatefulSet's pod
          Networks,  \* what the controller may find of a Service's addresses
          Laggards   \* bound: the kinds the worker may read stale copies of

ASSUME ServersAssumption == None \notin Servers

ASSUME SpecsAssumption ==
  \A spec \in Specs : spec.game \in Games \cup {None}

Pods == [phase : {"Pending", "Running", "Succeeded", "Failed", "Unknown"},
         init : {"running", "failed", "other"},
         main : {"ready", "running", "other"}]

ASSUME WorkloadsAssumption ==
  Workloads \subseteq [replicas : Nat, pod : Pods \cup {None}]

VARIABLES server,      \* [Servers -> SteamServer or None], the store
          serverCache, \* the cache of server
          child,       \* [Servers -> [Kinds -> resource or None]], the store
          childCache,  \* the cache of child
          queue,       \* requests waiting for the worker, at once or later
          pc,          \* the worker's next step
          req,         \* the request being reconciled, or None
          held,        \* the SteamServer fetched for it
          heldDef,     \* the spec of the GameDefinition fetched for it
          reason       \* the resource whose reconciliation failed, or None

workVars == <<pc, req, held, heldDef, reason>>
serverVars == <<server, serverCache, child, childCache, queue, workVars>>
vars == <<defVars, serverVars>>

Kinds == {"ConfigMap", "PVC", "StatefulSet", "Service"}
Reasons == Kinds \cup {"GameDefinition", "Config"}

NoChildren == [k \in Kinds |-> None]

-----------------------------------------------------------------------------
(* What a server asks for, as seen through a map of definitions *)

DefOf(spec, defs) ==
  IF spec.game = None THEN None ELSE defs[spec.game].spec

DefinitionReady(spec, defs) ==
  spec.game # None => defs[spec.game] # None /\ defs[spec.game].ready

ConfigAccepted(spec, d) ==
  d # None /\ d.configSchema # None => ValidateConfig(spec.config, d.configSchema)

Acceptable(spec, defs) ==
  DefinitionReady(spec, defs) /\ ConfigAccepted(spec, DefOf(spec, defs))

-----------------------------------------------------------------------------
Init ==
  /\ DefInit
  /\ server = [s \in Servers |-> None]
  /\ serverCache = server
  /\ child = [s \in Servers |-> NoChildren]
  /\ childCache = child
  /\ queue = {}
  /\ pc = "idle"
  /\ req = None /\ held = None /\ heldDef = None /\ reason = None

-----------------------------------------------------------------------------
(* Users *)

CreateServer(s) ==
  /\ UserActs
  /\ server[s] = None
  /\ \E spec \in Specs :
       server' = [server EXCEPT ![s] =
                    [uid |-> edits', spec |-> spec, finalizer |-> FALSE,
                     deleting |-> FALSE, status |-> NoStatus]]
  /\ UNCHANGED <<def, defCache, defQueue, faults, serverCache, child,
                 childCache, queue, workVars>>

EditServer(s) ==
  /\ UserActs
  /\ server[s] # None
  /\ \E spec \in Specs \ {server[s].spec} :
       server' = [server EXCEPT ![s].spec = spec]
  /\ UNCHANGED <<def, defCache, defQueue, faults, serverCache, child,
                 childCache, queue, workVars>>

(* With the finalizer the API server only marks the object; without, it is *)
(* gone at once.                                                           *)
DeleteServer(s) ==
  /\ UserActs
  /\ server[s] # None
  /\ ~server[s].deleting
  /\ server' = [server EXCEPT ![s] = IF server[s].finalizer
                                       THEN [server[s] EXCEPT !.deleting = TRUE]
                                       ELSE None]
  /\ UNCHANGED <<def, defCache, defQueue, faults, serverCache, child,
                 childCache, queue, workVars>>

(* A resource that the informer has not seen yet is deleted: it delivers   *)
(* the creation and the deletion, which leave the cache as it was and the  *)
(* owner in the queue.                                                     *)
Unseen(s, k) == IF childCache[s][k] = None THEN {s} ELSE {}

DeleteChild(s, k) ==
  /\ UserActs
  /\ child[s][k] # None
  /\ child' = [child EXCEPT ![s][k] = None]
  /\ queue' = queue \cup Unseen(s, k)
  /\ UNCHANGED <<def, defCache, defQueue, faults, server, serverCache,
                 childCache, workVars>>

-----------------------------------------------------------------------------
(* The informers: For(SteamServer), Owns(the four kinds), and              *)
(* Watches(GameDefinition), mapped to the servers that refer to it         *)

SyncServer(s) ==
  /\ serverCache[s] # server[s]
  /\ serverCache' = [serverCache EXCEPT ![s] = server[s]]
  /\ queue' = queue \cup {s}
  /\ UNCHANGED <<defVars, server, child, childCache, workVars>>

(* Fault: deletions are no events *)
SyncChildUnlessGone(s, k) ==
  /\ childCache[s][k] # child[s][k]
  /\ childCache' = [childCache EXCEPT ![s][k] = child[s][k]]
  /\ queue' = IF child[s][k] = None THEN queue ELSE queue \cup {s}
  /\ UNCHANGED <<defVars, server, serverCache, child, workVars>>

SyncChild(s, k) ==
  /\ childCache[s][k] # child[s][k]
  /\ childCache' = [childCache EXCEPT ![s][k] = child[s][k]]
  /\ queue' = queue \cup {s}
  /\ UNCHANGED <<defVars, server, serverCache, child, workVars>>

(* The worker goes on when it has every event but the Laggards' *)
Delivered ==
  \A s \in Servers, k \in Kinds \ Laggards : childCache[s][k] = child[s][k]

(* Fault: definitions are not watched *)
FindNoSteamServers(g) == {}

FindSteamServersForGameDef(g) ==
  {s \in Servers : serverCache[s] # None /\ serverCache[s].spec.game = g}

SyncDefinition(g) ==
  /\ SyncDef(g)
  /\ queue' = queue \cup FindSteamServersForGameDef(g)
  /\ UNCHANGED <<server, serverCache, child, childCache, workVars>>

-----------------------------------------------------------------------------
(* The garbage collector deletes a resource whose owner is no more *)

Orphan(s, k) ==
  /\ child[s][k] # None
  /\ child[s][k].owner # None
  /\ server[s] # None => server[s].uid # child[s][k].owner

CollectGarbage(s, k) ==
  /\ Orphan(s, k)
  /\ child' = [child EXCEPT ![s][k] = None]
  /\ queue' = queue \cup Unseen(s, k)
  /\ UNCHANGED <<defVars, server, serverCache, childCache, workVars>>

-----------------------------------------------------------------------------
(* The worker: fetch, deletion, finalizer, definition, validation *)

(* The worker takes a request: from its cached server it is told what to   *)
(* do.  A reconciliation that ends in an error, with Requeue or with       *)
(* RequeueAfter puts the request back, to be taken at some later time.     *)
Dequeued(s, retry) ==
  /\ Delivered
  /\ pc = "idle"
  /\ s \in queue
  /\ queue' = IF retry THEN queue ELSE queue \ {s}

(* The API call of this step fails, and may or may not have been applied *)
ApiFault == faults < MaxFaults /\ faults' = faults + 1

(* Fault: the update ignores the resourceVersion *)
UpdatedUnlocked(s, old, new) ==
  server[s] # None /\ server' = [server EXCEPT ![s] = new] /\ UNCHANGED faults

(* The outcomes of an update of a server from the cached copy old: done,   *)
(* refused because the stored object is another by now, or failed.  fault  *)
(* also covers an answer that is lost after the update is done.            *)
Updated(s, old, new) ==
  server[s] = old /\ server' = [server EXCEPT ![s] = new] /\ UNCHANGED faults

NotUpdated(s, old, new) ==
  \/ server[s] # old /\ UNCHANGED <<server, faults>>
  \/ ApiFault /\ UNCHANGED server
  \/ ApiFault /\ server[s] = old /\ server' = [server EXCEPT ![s] = new]

ReconcileGone(s) ==
  /\ Dequeued(s, FALSE)
  /\ serverCache[s] = None
  /\ UNCHANGED <<defVars, server, serverCache, child, childCache,
                 workVars>>

(* Fault: a failed update does not bring the request back *)
HandleDeletionOnce(s) ==
  /\ Dequeued(s, FALSE)
  /\ serverCache[s] # None
  /\ serverCache[s].deleting
  /\ IF serverCache[s].finalizer
     THEN \/ Updated(s, serverCache[s], None)
          \/ NotUpdated(s, serverCache[s], None)
     ELSE UNCHANGED <<server, faults>>
  /\ UNCHANGED <<def, defCache, defQueue, edits, serverCache, child,
                 childCache, workVars>>

(* Removing the last finalizer of a deleting object deletes it *)
HandleDeletion(s) ==
  /\ serverCache[s] # None
  /\ serverCache[s].deleting
  /\ \/ /\ ~serverCache[s].finalizer
        /\ Dequeued(s, FALSE)
        /\ UNCHANGED <<server, faults>>
     \/ /\ serverCache[s].finalizer
        /\ \/ Updated(s, serverCache[s], None) /\ Dequeued(s, FALSE)
           \/ NotUpdated(s, serverCache[s], None) /\ Dequeued(s, TRUE)
  /\ UNCHANGED <<def, defCache, defQueue, edits, serverCache, child,
                 childCache, workVars>>

Live(s) == serverCache[s] # None /\ ~serverCache[s].deleting

(* The whole object is written back; the request comes back either way *)
AddFinalizer(s) ==
  /\ Dequeued(s, TRUE)
  /\ Live(s)
  /\ ~serverCache[s].finalizer
  /\ LET new == [serverCache[s] EXCEPT !.finalizer = TRUE]
     IN  Updated(s, serverCache[s], new) \/ NotUpdated(s, serverCache[s], new)
  /\ UNCHANGED <<def, defCache, defQueue, edits, serverCache, child,
                 childCache, workVars>>

(* Fault: the reconciliation does not wait for the finalizer *)
FetchWithoutFinalizer(s) ==
  /\ Dequeued(s, FALSE)
  /\ Live(s)
  /\ req' = s
  /\ held' = serverCache[s]
  /\ UNCHANGED <<defVars, server, serverCache, child, childCache>>

Fetch(s) ==
  /\ Dequeued(s, FALSE)
  /\ Live(s)
  /\ serverCache[s].finalizer
  /\ req' = s
  /\ held' = serverCache[s]
  /\ UNCHANGED <<defVars, server, serverCache, child, childCache>>

(* The definition is missing or not ready, or the config does not fit it *)
RejectServer(s) ==
  /\ Fetch(s)
  /\ LET spec == serverCache[s].spec
     IN  /\ ~Acceptable(spec, defCache)
         /\ reason' = IF DefinitionReady(spec, defCache) THEN "Config"
                                                         ELSE "GameDefinition"
  /\ pc' = "fail"
  /\ heldDef' = None

AcceptServer(s) ==
  /\ Fetch(s)
  /\ Acceptable(serverCache[s].spec, defCache)
  /\ pc' = "ConfigMap"
  /\ heldDef' = DefOf(serverCache[s].spec, defCache)
  /\ reason' = None

Start(s) ==
  \/ ReconcileGone(s) \/ HandleDeletion(s) \/ AddFinalizer(s)
  \/ RejectServer(s) \/ AcceptServer(s)

-----------------------------------------------------------------------------
(* The worker: the four child resources, in order, each in one API call.   *)
(* A call fails with AlreadyExists or a conflict when the store has moved  *)
(* on from the cache, and is refused when it changes an immutable part or  *)
(* sends a Service that is none, however often it is repeated.             *)

NextStep(k) ==
  CASE k = "ConfigMap"   -> "PVC"
    [] k = "PVC"         -> "StatefulSet"
    [] k = "StatefulSet" -> "Service"
    [] k = "Service"     -> "status"

Proceed == pc' = NextStep(pc) /\ UNCHANGED <<req, held, heldDef, reason>>

(* Fault: the error of a resource is logged and not returned *)
FailStepLogged == Proceed

FailStep == pc' = "fail" /\ reason' = pc /\ UNCHANGED <<req, held, heldDef>>

Skip == Proceed /\ UNCHANGED <<child, faults>>

Send(new) ==
  LET old      == child[req][pc]
      accepted == /\ old = childCache[req][pc]
                  /\ old # None => new.fixed = old.fixed
                  /\ pc = "Service" => ServiceAccepted(new.body)
      stored   == [child EXCEPT ![req][pc] = new]
  IN  \/ accepted /\ child' = stored /\ Proceed /\ UNCHANGED faults
      \/ ~accepted /\ FailStep /\ UNCHANGED <<child, faults>>
      \/ ApiFault /\ FailStep /\ child' = child
      \/ ApiFault /\ FailStep /\ accepted /\ child' = stored

OnlyChildren == UNCHANGED <<def, defCache, defQueue, edits, server, serverCache,
                            childCache, queue>>

Cached(k) == childCache[req][k]

(* CreateOrUpdate: data, labels and owner, and no call when they are right *)
ReconcileConfigMap ==
  /\ pc = "ConfigMap"
  /\ LET new == [owner |-> held.uid, fixed |-> None,
                 body |-> ConfigMapBody(held.spec)]
     IN  IF held.spec.files = <<>> \/ Cached("ConfigMap") = new THEN Skip
                                                                ELSE Send(new)
  /\ OnlyChildren

(* Created if missing; of an existing claim only the labels are updated *)
ReconcilePVC ==
  /\ pc = "PVC"
  /\ LET size == StorageSize(held.spec, heldDef)
         old  == Cached("PVC")
     IN  CASE size = 0   -> Skip
           [] size # 0 /\ old = None ->
                Send([owner |-> held.uid, fixed |-> size,
                      body |-> ClaimLabels(held.spec)])
           [] size # 0 /\ old # None ->
                IF old.body = ClaimLabels(held.spec)
                THEN Skip
                ELSE Send([old EXCEPT !.body = ClaimLabels(held.spec)])
  /\ OnlyChildren

(* Fault: the server is read again for the template *)
ReconcileStatefulSetRefetching ==
  /\ pc = "StatefulSet"
  /\ LET fresh == IF serverCache[req] # None THEN serverCache[req].spec
                                             ELSE held.spec
         old   == Cached("StatefulSet")
         labels == StatefulSetLabels(fresh, heldDef)
     IN  \E template \in PodTemplates(fresh, heldDef) :
           Send(IF old = None
                THEN [owner |-> held.uid, fixed |-> labels, body |-> template]
                ELSE [old EXCEPT !.fixed = labels, !.body = template])
  /\ OnlyChildren

(* Created with its owner if missing; else spec and labels are replaced    *)
(* and the metadata, owner included, stays as it was                       *)
ReconcileStatefulSet ==
  /\ pc = "StatefulSet"
  /\ \E template \in PodTemplates(held.spec, heldDef) :
       LET labels == StatefulSetLabels(held.spec, heldDef)
           old    == Cached("StatefulSet")
       IN  Send(IF old = None
                THEN [owner |-> held.uid, fixed |-> labels, body |-> template]
                ELSE [old EXCEPT !.fixed = labels, !.body = template])
  /\ OnlyChildren

(* Fault: the Service is created without an owner *)
ReconcileServiceUnowned ==
  /\ pc = "Service"
  /\ LET body == ServiceBody(held.spec, heldDef)
         old  == Cached("Service")
     IN  Send(IF old = None THEN [owner |-> None, fixed |-> None, body |-> body]
                            ELSE [old EXCEPT !.body = body])
  /\ OnlyChildren

(* Fault: an existing Service is left as it is *)
ReconcileServiceOnce ==
  /\ pc = "Service"
  /\ IF Cached("Service") # None THEN Skip
     ELSE Send([owner |-> held.uid, fixed |-> None,
                body |-> ServiceBody(held.spec, heldDef)])
  /\ OnlyChildren

ReconcileService ==
  /\ pc = "Service"
  /\ LET body == ServiceBody(held.spec, heldDef)
         old  == Cached("Service")
     IN  Send(IF old = None
              THEN [owner |-> held.uid, fixed |-> None, body |-> body]
              ELSE [old EXCEPT !.body = body])
  /\ OnlyChildren

-----------------------------------------------------------------------------
(* The worker: the status, and the end of a reconciliation *)

(* Fault: what was fetched is kept for the next request *)
FinishKeepingServer(retry) ==
  /\ pc' = "idle"
  /\ req' = None /\ held' = held /\ heldDef' = heldDef /\ reason' = None
  /\ queue' = IF retry THEN queue \cup {req} ELSE queue

Finish(retry) ==
  /\ pc' = "idle"
  /\ req' = None /\ held' = None /\ heldDef' = None /\ reason' = None
  /\ queue' = IF retry THEN queue \cup {req} ELSE queue

OnlyStatus == UNCHANGED <<def, defCache, defQueue, edits, serverCache, child,
                          childCache>>

(* A server that is not running is looked at again after a while *)
UpdateStatus ==
  /\ pc = "status"
  /\ \E w \in Workloads, n \in Networks :
       LET svc   == IF Cached("Service") = None THEN None
                                                ELSE Cached("Service").body
           state == DetermineState(Cached("StatefulSet"), w)
           new   == ObservedStatus(held.status, state, DetermineAddress(svc, n),
                                   DeterminePorts(svc, n))
           written == [held EXCEPT !.status = new]
       IN  IF new = held.status
           THEN Finish(state # "Running") /\ UNCHANGED <<server, faults>>
           ELSE \/ Updated(req, held, written) /\ Finish(state # "Running")
                \/ NotUpdated(req, held, written) /\ Finish(TRUE)
  /\ OnlyStatus

(* Fault: a status that could not be written is given up *)
SetErrorStatusOnce ==
  /\ pc = "fail"
  /\ LET written == [held EXCEPT !.status = ErrorStatus(held.status, reason)]
     IN  \/ Updated(req, held, written) /\ Finish(TRUE)
         \/ NotUpdated(req, held, written) /\ Finish(FALSE)
  /\ OnlyStatus

SetErrorStatus ==
  /\ pc = "fail"
  /\ LET written == [held EXCEPT !.status = ErrorStatus(held.status, reason)]
     IN  Updated(req, held, written) \/ NotUpdated(req, held, written)
  /\ Finish(TRUE)
  /\ OnlyStatus

Work ==
  /\ Delivered
  /\ \/ ReconcileConfigMap \/ ReconcilePVC \/ ReconcileStatefulSet
     \/ ReconcileService \/ UpdateStatus \/ SetErrorStatus

(* The operator stops anywhere and restarts: requests and the worker's     *)
(* state are lost, the informers list every object again                   *)
Crash ==
  /\ DefCrash
  /\ serverCache' = server
  /\ childCache' = child
  /\ queue' = {s \in Servers : server[s] # None \/ child[s] # NoChildren}
  /\ pc' = "idle"
  /\ req' = None /\ held' = None /\ heldDef' = None /\ reason' = None
  /\ UNCHANGED <<server, child>>

-----------------------------------------------------------------------------
UserNext ==
  \/ \E s \in Servers :
       \/ CreateServer(s) \/ EditServer(s) \/ DeleteServer(s)
       \/ \E k \in Kinds : DeleteChild(s, k)
  \/ DefUserNext /\ UNCHANGED serverVars

DefinitionNext(g) ==
  \/ SyncDefinition(g)
  \/ (ReconcileDef(g) \/ DefAnswerLost(g)) /\ UNCHANGED serverVars

ServerNext(s) ==
  \/ SyncServer(s) \/ Start(s)
  \/ \E k \in Kinds : SyncChild(s, k) \/ CollectGarbage(s, k)

Next ==
  \/ UserNext
  \/ \E g \in Games : DefinitionNext(g)
  \/ \E s \in Servers : ServerNext(s)
  \/ Work
  \/ Crash

(* Users and faults are never obliged.  The informers and the garbage      *)
(* collector deliver, the worker finishes what it started, and, as its     *)
(* queue is first in first out, every queued server gets its turn even     *)
(* when the others keep coming back (strong fairness).                     *)
Fairness ==
  /\ \A g \in Games : /\ WF_vars(SyncDefinition(g))
                      /\ WF_vars(ReconcileDef(g) /\ UNCHANGED serverVars)
  /\ \A s \in Servers :
       /\ WF_vars(SyncServer(s))
       /\ SF_vars(Start(s))
       /\ \A k \in Kinds : WF_vars(SyncChild(s, k)) /\ WF_vars(CollectGarbage(s, k))
  /\ WF_vars(Work)

Spec == Init /\ [][Next]_vars
FairSpec == Spec /\ Fairness
-----------------------------------------------------------------------------
(* Properties: safety *)

IsStatus(st) ==
  /\ st = [state |-> st.state, message |-> st.message,
           address |-> st.address, ports |-> st.ports]
  /\ st.state \in States \cup {""}
  /\ st.message \in States \cup Reasons \cup {""}

IsServer(o) ==
  /\ o = [uid |-> o.uid, spec |-> o.spec, finalizer |-> o.finalizer,
          deleting |-> o.deleting, status |-> o.status]
  /\ o.uid \in 1..MaxEdits
  /\ o.spec \in Specs
  /\ o.finalizer \in BOOLEAN
  /\ o.deleting \in BOOLEAN
  /\ IsStatus(o.status)

IsResource(r) ==
  /\ r = [owner |-> r.owner, fixed |-> r.fixed, body |-> r.body]
  /\ r.owner \in 1..MaxEdits

ServersOK(store) ==
  /\ store = [s \in Servers |-> store[s]]
  /\ \A s \in Servers : store[s] # None => IsServer(store[s])

ChildrenOK(store) ==
  /\ store = [s \in Servers |-> [k \in Kinds |-> store[s][k]]]
  /\ \A s \in Servers, k \in Kinds :
       store[s][k] # None => IsResource(store[s][k])

(* Type invariant of the operator's state. *)
TypeOK ==
  /\ DefTypeOK
  /\ ServersOK(server) /\ ServersOK(serverCache)
  /\ ChildrenOK(child) /\ ChildrenOK(childCache)
  /\ queue \subseteq Servers
  /\ pc \in Kinds \cup {"idle", "status", "fail"}
  /\ IF pc = "idle" THEN req = None /\ held = None
                    ELSE req \in Servers /\ held # None /\ IsServer(held)
  /\ heldDef \in Defs \cup {None}
  /\ IF pc = "fail" THEN reason \in Reasons ELSE reason = None

(* The finalizer is on before anything is owned: a SteamServer that owns a *)
(* resource still has it, so it cannot vanish without handleDeletion,      *)
(* however stale the copy was from which the resource was created.         *)
FinalizerGuards ==
  \A s \in Servers, k \in Kinds :
    server[s] # None /\ child[s][k] # None /\ child[s][k].owner = server[s].uid
      => server[s].finalizer

(* What makes FinalizerGuards inductive: uids are never reused, and no     *)
(* copy of a server, cached or held by the worker, shows a finalizer that  *)
(* the stored object of the same uid lacks.                                *)
UidsUsed ==
  \A s \in Servers :
    /\ server[s] # None => server[s].uid <= edits
    /\ serverCache[s] # None => serverCache[s].uid <= edits
    /\ \A k \in Kinds : child[s][k] # None => child[s][k].owner <= edits

CacheFinalizer ==
  \A s \in Servers :
    /\ server[s] # None /\ serverCache[s] # None
    /\ server[s].uid = serverCache[s].uid
    /\ serverCache[s].finalizer
    => server[s].finalizer

HeldFinalizer ==
  held # None =>
    /\ held.uid <= edits
    /\ held.finalizer
    /\ server[req] # None /\ server[req].uid = held.uid => server[req].finalizer

FinalizerInv ==
  TypeOK /\ UidsUsed /\ CacheFinalizer /\ HeldFinalizer /\ FinalizerGuards

UserActSurvives(s) ==
  /\ edits' = edits
  /\ server[s] # None /\ server'[s] # None
  => /\ server'[s].uid = server[s].uid
     /\ server'[s].spec = server[s].spec
     /\ server[s].deleting => server'[s].deleting

(* The writes of the operator (the finalizer added with a full Update, the *)
(* status updates) never undo what a user did in the meantime: the spec    *)
(* stays what the user last made it and a deletion stays requested.        *)
UserActsSurvive ==
  [][\A s \in Servers : UserActSurvives(s)]_vars

(* Every pod template is the template of one spec together with one        *)
(* definition whose schema accepts the spec's config: Reconcile validates  *)
(* a pair and builds from the same pair, although both are edited and the  *)
(* caches move on while it runs.                                           *)
TemplatesAreValidated ==
  \A s \in Servers :
    child[s]["StatefulSet"] # None =>
      \E spec \in Specs, d \in Defs \cup {None} :
        /\ spec.game = None <=> d = None
        /\ ConfigAccepted(spec, d)
        /\ child[s]["StatefulSet"].body \in PodTemplates(spec, d)

SameButOrder(t, u) ==
  /\ [t EXCEPT !.env = {}] = [u EXCEPT !.env = {}]
  /\ Range(t.env) = Range(u.env)

(* A pod template that is one of the server and the definition being       *)
(* reconciled is replaced by none that says anything else: Go may iterate  *)
(* over the secrets in any order, another worker's or an earlier           *)
(* reconciliation's, and what was edited since, is not mixed in, and the   *)
(* game finds the same variables whatever the order.  That the order       *)
(* changes is a finding (RolloutOnlyOnChange).                             *)
RolloutOnlyReorders ==
  [][\A s \in Servers :
       LET old == child[s]["StatefulSet"]
           new == child'[s]["StatefulSet"]
       IN  /\ old # None /\ new # None /\ old.body # new.body
           /\ old.body \in PodTemplates(held.spec, heldDef)
           => SameButOrder(old.body, new.body)]_vars

-----------------------------------------------------------------------------
(* Properties: liveness, under FairSpec *)

Wanted(s) == server[s] # None /\ ~server[s].deleting

(* The resource r of kind k is the one of spec and definition d *)
Fits(k, r, spec, d) ==
  CASE k = "ConfigMap" ->
         spec.files # <<>> => r # None /\ r.body = ConfigMapBody(spec)
    [] k = "PVC" ->
         StorageSize(spec, d) # 0 => r # None /\ r.body = ClaimLabels(spec)
    [] k = "StatefulSet" ->
         /\ r # None
         /\ r.fixed = StatefulSetLabels(spec, d)
         /\ r.body \in PodTemplates(spec, d)
    [] k = "Service" -> r # None /\ r.body = ServiceBody(spec, d)

(* A Service can be made of the ports the server or its definition names *)
Exposable(s) ==
  ServiceAccepted(ServiceBody(server[s].spec, DefOf(server[s].spec, def)))

InStep(s) ==
  LET spec == server[s].spec
  IN  \A k \in Kinds : Fits(k, child[s][k], spec, DefOf(spec, def))

(* Once users and faults stop, the resources of every accepted server that *)
(* asks for a possible Service match its spec and its definition and stay  *)
(* so: no event, conflict, failed call or restart loses the last edit of   *)
(* either.                                                                 *)
EventuallyInStep ==
  \A s \in Servers :
    <>[](Wanted(s) /\ Acceptable(server[s].spec, def) /\ Exposable(s)
           => InStep(s))

(* A deletion that was asked for completes: the finalizer is removed even  *)
(* when the update that removes it conflicts or fails.                     *)
DeletionCompletes ==
  \A s \in Servers :
    server[s] # None /\ server[s].deleting
      ~> server[s] = None \/ ~server[s].deleting

(* Nothing outlives its server for good: the cleanup is left to owner      *)
(* references, and even what a reconciliation in progress creates after    *)
(* the server is gone is collected.                                        *)
NothingLeftBehind ==
  \A s \in Servers : <>[](server[s] = None => child[s] = NoChildren)

(* A server whose definition stays missing or not ready, whose config stays *)
(* unacceptable, or one of whose resources stays out of step, because the   *)
(* API server refuses it, ends up reporting Error, and keeps reporting it.  *)
RejectionReported ==
  \A s \in Servers :
    <>[](Wanted(s) /\ ~(Acceptable(server[s].spec, def) /\ InStep(s))
           => server[s].status.state = "Error")
-----------------------------------------------------------------------------
(* Properties: what the repository says of the operator, and the runs      *)
(* refute (see README, Findings)                                           *)

(* "Set owner reference before create/update" (steamserver_controller.go): *)
(* after the StatefulSet step the StatefulSet is owned by the server that  *)
(* is being reconciled.                                                    *)
OwnerSetOnUpdate ==
  [][pc = "StatefulSet" /\ pc' = "Service"
       => child'[req]["StatefulSet"].owner = held.uid]_vars

(* "For v1, require manual restart" (DESIGN.md): a pod template that       *)
(* already is the one the spec and the definition ask for is not replaced, *)
(* so that nothing restarts when nothing was changed.                      *)
RolloutOnlyOnChange ==
  [][\A s \in Servers :
       LET old == child[s]["StatefulSet"]
           new == child'[s]["StatefulSet"]
       IN  old # None /\ new # None /\ old.body # new.body
             => old.body \notin PodTemplates(held.spec, heldDef)]_vars

(* "Ready indicates the GameDefinition is valid and usable"                *)
(* (gamedefinition_types.go): resources are built only from definitions    *)
(* that validate.                                                          *)
AcceptsOnlyValid == heldDef # None => ValidDefinition(heldDef)

(* "updateStatus updates the SteamServer status based on the actual        *)
(* cluster state" (steamserver_controller.go): when it is done, the        *)
(* message is the one of the state.                                        *)
MessageFollowsState ==
  [][/\ pc = "status" /\ pc' = "idle"
     /\ faults' = faults /\ server[req] = held
     => server'[req].status.message = StateMessage(server'[req].status.state)]_vars
=============================================================================
