----------------------- MODULE SteamServerSettledProofs -----------------------
(***************************************************************************)
(* The operator rests only when its work is done, for any servers,         *)
(* definitions and specs, any lag of the caches and any bounds.            *)
(*                                                                         *)
(* As in SteamServerRefinementProofs, that no object is None is a          *)
(* hypothesis, here of servers and of resources.                           *)
(***************************************************************************)
EXTENDS SteamServerSettled, SteamServerRefinementProofs

NoResourceIsNone == \A r : IsResource(r) => r # None

-----------------------------------------------------------------------------
(* What a step may do to what is known of a server it does not deal with *)

ChildrenKept(s) ==
  \A k \in Kinds : child'[s][k] = child[s][k] \/ child'[s][k] # childCache[s][k]

VerdictKept(s) ==
  serverCache[s] # None /\ serverCache[s].spec.game # None
    => defCache'[serverCache[s].spec.game] = defCache[serverCache[s].spec.game]

OutdatedKept(s) == serverCache[s] # None /\ Outdated(s) => Outdated(s)'

LEMMA SameVerdict ==
  ASSUME NEW spec, NEW d1, NEW d2, spec.game # None => d1[spec.game] = d2[spec.game]
  PROVE  /\ DefOf(spec, d1) = DefOf(spec, d2)
         /\ Acceptable(spec, d1) <=> Acceptable(spec, d2)
BY DEF DefOf, Acceptable, DefinitionReady

(* A request is only about the server whose copy the worker holds. *)
LEMMA HeldCopy ==
  ASSUME TypeOK, NEW s \in Servers, req = s
  PROVE  pc # "idle" /\ held # None
BY ServersAssumption DEF ServersAssumption, TypeOK

LEMMA Passing ==
  /\ Passed("ConfigMap") = {} /\ Passed("status") = Kinds
  /\ \A k \in Kinds : Passed(NextStep(k)) = Passed(k) \cup {k} /\ Passed(k) \subseteq Kinds
BY DEF Passed, NextStep, Kinds

(* What is known of a server stays known in a step that keeps the above. *)
LEMMA Quiet ==
  ASSUME TypeOK, NEW s \in Servers, Remembered(s),
         s \in queue => s \in queue',
         serverCache'[s] = serverCache[s], childCache'[s] = childCache[s],
         ChildrenKept(s), VerdictKept(s), OutdatedKept(s),
         UNCHANGED workVars \/ (req # s /\ req' # s)
  PROVE  Remembered(s)'
<1> SUFFICES ASSUME s \notin queue'
             PROVE  /\ req' = s /\ pc' # "fail" => UpToDate(s)'
                    /\ req' # s /\ serverCache'[s] # None
                         => Outdated(s)' \/ Reconciled(s)'
  BY DEF Remembered
<1>0. s \notin queue
  OBVIOUS
<1>1. ASSUME NEW k \in Kinds, NEW spec, NEW d,
             childCache[s][k] # child[s][k] \/ Fits(k, childCache[s][k], spec, d)
      PROVE  childCache'[s][k] # child'[s][k] \/ Fits(k, childCache'[s][k], spec, d)
  BY <1>1 DEF ChildrenKept
<1>2. ASSUME req' = s, pc' # "fail"
      PROVE  UpToDate(s)'
  <2>1. req = s /\ UNCHANGED workVars
    BY <1>2 DEF workVars
  <2>2. /\ pc' = pc /\ held' = held /\ heldDef' = heldDef
        /\ UpToDate(s) /\ held # None /\ pc # "idle"
    BY <1>0, <1>2, <2>1, HeldCopy DEF workVars, Remembered
  <2>3. /\ DefOf(held.spec, defCache') = DefOf(held.spec, defCache)
        /\ Acceptable(held.spec, defCache') <=> Acceptable(held.spec, defCache)
    <3>1. held.spec.game # None
            => defCache'[held.spec.game] = defCache[held.spec.game]
      BY <2>2 DEF UpToDate, VerdictKept
    <3> QED BY <3>1, SameVerdict
  <2>4. Passed(pc) \subseteq Kinds
    BY <1>2, <2>2, Passing DEF TypeOK
  <2>5. \A k \in Passed(pc) :
          childCache'[s][k] # child'[s][k]
            \/ Fits(k, childCache'[s][k], held.spec, heldDef)
    BY <1>1, <2>2, <2>4 DEF UpToDate, FitsOrStale
  <2> QED BY <2>2, <2>3, <2>5 DEF UpToDate, FitsOrStale
<1>3. ASSUME req' # s, serverCache'[s] # None
      PROVE  Outdated(s)' \/ Reconciled(s)'
  <2>1. req # s
    BY <1>3 DEF workVars
  <2>2. CASE Outdated(s)
    BY <1>3, <2>2 DEF OutdatedKept
  <2>3. CASE Reconciled(s)
    <3> DEFINE o == serverCache[s]
    <3>1. /\ DefOf(o.spec, defCache') = DefOf(o.spec, defCache)
          /\ Acceptable(o.spec, defCache') <=> Acceptable(o.spec, defCache)
      <4>1. o.spec.game # None => defCache'[o.spec.game] = defCache[o.spec.game]
        BY <1>3 DEF VerdictKept
      <4> QED BY <4>1, SameVerdict
    <3>2. \A k \in Kinds :
            childCache'[s][k] # child'[s][k]
              \/ Fits(k, childCache'[s][k], o.spec, DefOf(o.spec, defCache))
      BY <1>1, <2>3 DEF Reconciled, FitsOrStale
    <3> QED BY <2>3, <3>1, <3>2 DEF Reconciled, FitsOrStale
  <2> QED BY <1>0, <1>3, <2>1, <2>2, <2>3 DEF Remembered
<1> QED BY <1>2, <1>3

-----------------------------------------------------------------------------
(* Outdated lasts until the cache is renewed: uids are not reused, and the *)
(* status changes only when the worker writes it.                          *)

StatusKept(s) ==
  server[s] # None /\ server'[s] # None /\ server'[s].uid = server[s].uid
    => server'[s].status = server[s].status

LEMMA OutdatedLasts ==
  ASSUME LifecycleInv, [Next]_vars, NEW s \in Servers,
         serverCache'[s] = serverCache[s], StatusKept(s)
  PROVE  OutdatedKept(s)
<1> SUFFICES ASSUME serverCache[s] # None, Outdated(s), server'[s] # None
             PROVE  \/ server'[s].uid # serverCache[s].uid
                    \/ server'[s].status # serverCache[s].status
  BY DEF OutdatedKept, Outdated
<1>1. TypeOK /\ serverCache[s].uid <= edits
  BY DEF LifecycleInv, FinalizerInv, UidsUsed
<1>2. edits \in Int /\ serverCache[s].uid \in Int
  BY <1>1, Numbers
<1>3. CASE FreshServer(s)
  BY <1>1, <1>2, <1>3 DEF FreshServer
<1>4. CASE SameServer(s)
  BY <1>4 DEF SameServer, StatusKept, Outdated
<1> QED BY <1>1, <1>3, <1>4, ServersStep

LEMMA OneServer ==
  ASSUME TypeOK, NEW r \in Servers, NEW new, server' = [server EXCEPT ![r] = new],
         NEW s \in Servers
  PROVE  server'[s] = IF s = r THEN new ELSE server[s]
BY DEF TypeOK, ServersOK

(* A deleted resource is either missed by the informer, which leaves a     *)
(* request, or still in the cache, so that an event is to come.            *)
LEMMA DeletedKept ==
  ASSUME TypeOK, NEW r \in Servers, NEW j \in Kinds,
         child' = [child EXCEPT ![r][j] = None],
         queue' = queue \cup Unseen(r, j),
         NEW s \in Servers, s \notin queue'
  PROVE  ChildrenKept(s)
<1> SUFFICES ASSUME NEW k \in Kinds
             PROVE  child'[s][k] = child[s][k] \/ child'[s][k] # childCache[s][k]
  BY DEF ChildrenKept
<1>1. child'[s][k] = IF s = r /\ k = j THEN None ELSE child[s][k]
  <2>1. child = [x \in Servers |-> [i \in Kinds |-> child[x][i]]]
    BY DEF TypeOK, ChildrenOK
  <2> QED BY <2>1
<1>2. CASE s = r /\ k = j
  BY <1>1, <1>2 DEF Unseen
<1> QED BY <1>1, <1>2

LEMMA UserRemembers ==
  ASSUME LifecycleInv, UserNext, NEW s \in Servers, Remembered(s)
  PROVE  Remembered(s)'
<1> SUFFICES ASSUME s \notin queue'
             PROVE  Remembered(s)'
  BY DEF Remembered
<1>0. TypeOK /\ [Next]_vars
  BY DEF LifecycleInv, FinalizerInv, Next
<1>1. UNCHANGED <<serverCache, childCache, workVars>>
  BY <1>0, UserWrites
<1>2. defCache' = defCache /\ (s \in queue => s \in queue')
  BY DEF UserNext, CreateServer, EditServer, DeleteServer, DeleteChild, DefUserNext,
         CreateDef, EditDef, DeleteDef, serverVars
<1>3. VerdictKept(s)
  BY <1>2 DEF VerdictKept
<1>4. ChildrenKept(s)
  <2>1. ASSUME NEW r \in Servers, NEW k \in Kinds, DeleteChild(r, k)
        PROVE  ChildrenKept(s)
    BY <1>0, <2>1, DeletedKept DEF DeleteChild
  <2>2. CASE child' = child
    BY <2>2 DEF ChildrenKept
  <2> QED BY <2>1, <2>2
          DEF UserNext, CreateServer, EditServer, DeleteServer, serverVars
<1>5. StatusKept(s)
  <2> SUFFICES ASSUME server[s] # None, server'[s] # None
               PROVE  server'[s].status = server[s].status
    BY DEF StatusKept
  <2>0. IsServer(server[s])
    BY <1>0, StoredServer
  <2>1. ASSUME NEW r \in Servers, CreateServer(r)
        PROVE  server'[s] = server[s]
    BY <1>0, <2>1, OneServer DEF CreateServer
  <2>2. ASSUME NEW r \in Servers, EditServer(r)
        PROVE  server'[s].status = server[s].status
    <3>1. PICK spec : server' = [server EXCEPT ![r] = [server[r] EXCEPT !.spec = spec]]
      BY <2>2 DEF EditServer
    <3>2. \A x : [server[s] EXCEPT !.spec = x].status = server[s].status
      BY <2>0 DEF IsServer
    <3>3. server'[s] = IF s = r THEN [server[r] EXCEPT !.spec = spec] ELSE server[s]
      BY <1>0, <3>1, OneServer
    <3> QED BY <3>2, <3>3
  <2>3. ASSUME NEW r \in Servers, DeleteServer(r)
        PROVE  server'[s].status = server[s].status
    <3>1. CASE s = r
      <4>1. server'[s] = [server[s] EXCEPT !.deleting = TRUE]
        BY <1>0, <2>3, <3>1 DEF DeleteServer, TypeOK, ServersOK
      <4>2. \A b : [server[s] EXCEPT !.deleting = b].status = server[s].status
        BY <2>0 DEF IsServer
      <4> QED BY <4>1, <4>2
    <3>2. CASE s # r
      BY <1>0, <2>3, <3>2, OneServer DEF DeleteServer
    <3> QED BY <3>1, <3>2
  <2>4. CASE server' = server
    BY <2>4
  <2> QED BY <2>1, <2>2, <2>3, <2>4 DEF UserNext, DeleteChild, serverVars
<1>6. OutdatedKept(s)
  BY <1>0, <1>1, <1>5, OutdatedLasts
<1> QED BY <1>0, <1>1, <1>2, <1>3, <1>4, <1>6, Quiet

LEMMA DefinitionRemembers ==
  ASSUME LifecycleInv, NEW g \in Games, DefinitionNext(g),
         NEW s \in Servers, Remembered(s)
  PROVE  Remembered(s)'
<1> SUFFICES ASSUME s \notin queue'
             PROVE  Remembered(s)'
  BY DEF Remembered
<1>0. TypeOK /\ [Next]_vars
  BY DEF LifecycleInv, FinalizerInv, Next
<1>1. /\ UNCHANGED <<server, serverCache, child, childCache, workVars>>
      /\ s \in queue => s \in queue'
  BY DEF DefinitionNext, SyncDefinition, serverVars
<1>2. VerdictKept(s)
  <2>1. CASE SyncDefinition(g)
    <3>1. serverCache[s] # None => serverCache[s].spec.game # g
      BY <2>1 DEF SyncDefinition, FindSteamServersForGameDef
    <3>2. defCache' = [defCache EXCEPT ![g] = def[g]]
      BY <2>1 DEF SyncDefinition, SyncDef
    <3>3. \A x : x # g => defCache'[x] = defCache[x]
      BY <1>0, <3>2 DEF TypeOK, DefTypeOK
    <3> QED BY <3>1, <3>3 DEF VerdictKept
  <2>2. CASE defCache' = defCache
    BY <2>2 DEF VerdictKept
  <2> QED BY <2>1, <2>2
          DEF DefinitionNext, ReconcileDef, ReconcileDefGone, ReconcileInvalidDef,
              ReconcileValidDef, DefAnswerLost
<1>3. ChildrenKept(s) /\ StatusKept(s)
  BY <1>1 DEF ChildrenKept, StatusKept
<1> QED BY <1>0, <1>1, <1>2, <1>3, OutdatedLasts, Quiet

LEMMA InformerRemembers ==
  ASSUME LifecycleInv, NEW r \in Servers,
         \/ SyncServer(r)
         \/ \E k \in Kinds : SyncChild(r, k) \/ CollectGarbage(r, k),
         NEW s \in Servers, Remembered(s)
  PROVE  Remembered(s)'
<1> SUFFICES ASSUME s \notin queue'
             PROVE  Remembered(s)'
  BY DEF Remembered
<1>0. TypeOK /\ [Next]_vars
  BY DEF LifecycleInv, FinalizerInv, Next, ServerNext
<1>1. /\ UNCHANGED <<defCache, server, workVars>>
      /\ s \in queue => s \in queue'
  BY DEF SyncServer, SyncChild, CollectGarbage, defVars
<1>2. VerdictKept(s) /\ StatusKept(s)
  BY <1>1 DEF VerdictKept, StatusKept
<1>3. serverCache'[s] = serverCache[s] /\ childCache'[s] = childCache[s]
  <2>1. CASE SyncServer(r)
    BY <1>0, <2>1 DEF SyncServer, TypeOK, ServersOK
  <2>2. ASSUME NEW k \in Kinds, SyncChild(r, k)
        PROVE  serverCache' = serverCache /\ childCache'[s] = childCache[s]
    <3>1. r # s
      BY <2>2 DEF SyncChild
    <3>2. /\ childCache' = [childCache EXCEPT ![r][k] = child[r][k]]
          /\ serverCache' = serverCache
          /\ childCache = [x \in Servers |-> [j \in Kinds |-> childCache[x][j]]]
      BY <1>0, <2>2 DEF SyncChild, TypeOK, ChildrenOK
    <3> QED BY <3>1, <3>2
  <2>3. ASSUME NEW k \in Kinds, CollectGarbage(r, k)
        PROVE  serverCache' = serverCache /\ childCache' = childCache
    BY <2>3 DEF CollectGarbage
  <2> QED BY <2>1, <2>2, <2>3
<1>4. ChildrenKept(s)
  <2>1. ASSUME NEW k \in Kinds, CollectGarbage(r, k)
        PROVE  ChildrenKept(s)
    BY <1>0, <2>1, DeletedKept DEF CollectGarbage
  <2>2. CASE child' = child
    BY <2>2 DEF ChildrenKept
  <2> QED BY <2>1, <2>2 DEF SyncServer, SyncChild
<1> QED BY <1>0, <1>1, <1>2, <1>3, <1>4, OutdatedLasts, Quiet

-----------------------------------------------------------------------------
(* The worker takes a request, of r.  With the finalizer on every deletion *)
(* that the cache shows, it either writes, or begins to reconcile, or puts *)
(* the request back.                                                       *)

LEMMA StartRemembers ==
  ASSUME LifecycleInv, CacheGuarded, NEW r \in Servers, Start(r),
         NEW s \in Servers, Remembered(s)
  PROVE  Remembered(s)'
<1> SUFFICES ASSUME s \notin queue'
             PROVE  Remembered(s)'
  BY DEF Remembered
<1>0. TypeOK /\ [Next]_vars
  BY DEF LifecycleInv, FinalizerInv, Next, ServerNext
<1>1. /\ UNCHANGED <<defCache, serverCache, child, childCache>>
      /\ pc = "idle" /\ r \in queue /\ queue \ {r} \subseteq queue'
  BY DEF Start, ReconcileGone, HandleDeletion, AddFinalizer, RejectServer,
         AcceptServer, Fetch, Dequeued, defVars
<1>2. CASE s # r
  <2>1. s \in queue => s \in queue'
    BY <1>1, <1>2
  <2>2. UNCHANGED workVars \/ (req # s /\ req' # s)
    <3>1. req # s
      BY <1>0, <1>1, HeldCopy
    <3> QED BY <1>2, <3>1 DEF Start, ReconcileGone, HandleDeletion, AddFinalizer,
                              RejectServer, AcceptServer, Fetch, workVars
  <2>3. server'[s] = server[s]
    <3>1. ASSUME NEW old, NEW new, Updated(r, old, new) \/ NotUpdated(r, old, new)
          PROVE  server'[s] = server[s]
      <4>1. server' = server \/ server' = [server EXCEPT ![r] = new]
        BY <3>1 DEF Updated, NotUpdated
      <4> QED BY <1>0, <1>2, <4>1, OneServer
    <3>2. CASE HandleDeletion(r)
      BY <3>1, <3>2 DEF HandleDeletion
    <3>3. CASE AddFinalizer(r)
      BY <3>1, <3>3 DEF AddFinalizer
    <3>4. CASE server' = server
      BY <3>4
    <3> QED BY <3>2, <3>3, <3>4
            DEF Start, ReconcileGone, RejectServer, AcceptServer, Fetch
  <2>4. ChildrenKept(s) /\ VerdictKept(s) /\ StatusKept(s)
    BY <1>1, <2>3 DEF ChildrenKept, VerdictKept, StatusKept
  <2> QED BY <1>0, <1>1, <2>1, <2>2, <2>4, OutdatedLasts, Quiet
<1>3. CASE s = r
  <2>0. req # s
    BY <1>0, <1>1, HeldCopy
  <2>1. CASE ReconcileGone(r)
    BY <1>3, <2>0, <2>1 DEF ReconcileGone, workVars, Remembered
  <2>2. CASE HandleDeletion(r)
    <3>1. serverCache[s].finalizer
      BY <1>3, <2>2 DEF HandleDeletion, CacheGuarded
    <3>2. Updated(s, serverCache[s], None)
      BY <1>1, <1>3, <2>2, <3>1 DEF HandleDeletion, Dequeued
    <3>3. server'[s] = None
      BY <1>0, <3>2 DEF Updated, TypeOK, ServersOK
    <3>4. req' = req
      BY <2>2 DEF HandleDeletion, workVars
    <3> QED BY <2>0, <3>3, <3>4 DEF Remembered, Outdated
  <2>3. CASE AddFinalizer(r)
    BY <1>1, <1>3, <2>3 DEF AddFinalizer, Dequeued
  <2>4. CASE RejectServer(r)
    BY <1>3, <2>4 DEF RejectServer, Fetch, Remembered
  <2>5. CASE AcceptServer(r)
    <3>1. /\ req' = s /\ pc' = "ConfigMap" /\ held' = serverCache[s]
          /\ ~serverCache[s].deleting
          /\ Acceptable(serverCache[s].spec, defCache)
          /\ heldDef' = DefOf(serverCache[s].spec, defCache)
      BY <1>3, <2>5 DEF AcceptServer, Fetch, Live
    <3>2. Passed(pc') = {}
      BY <3>1, Passing
    <3>3. UpToDate(s)'
      BY <1>1, <3>1, <3>2 DEF UpToDate
    <3> QED BY <3>1, <3>3 DEF Remembered
  <2> QED BY <2>1, <2>2, <2>3, <2>4, <2>5 DEF Start
<1> QED BY <1>2, <1>3

-----------------------------------------------------------------------------
(* The worker deals with one kind: it fails, or goes on and leaves a       *)
(* cached resource that fits or an event about one.                        *)

Dealt ==
  \/ childCache[req][pc] # child'[req][pc]
  \/ Fits(pc, childCache[req][pc], held.spec, heldDef)

LEMMA SentFits ==
  ASSUME TypeOK, pc \in Kinds, NEW new, Send(new),
         Fits(pc, new, held.spec, heldDef)
  PROVE  FailStep \/ (Proceed /\ Dealt)
<1>1. CASE child' = [child EXCEPT ![req][pc] = new] /\ Proceed
  <2>1. child = [x \in Servers |-> [i \in Kinds |-> child[x][i]]] /\ req \in Servers
    BY DEF TypeOK, ChildrenOK, Kinds
  <2>2. child'[req][pc] = new
    BY <1>1, <2>1
  <2> QED BY <1>1, <2>2 DEF Dealt
<1> QED BY <1>1 DEF Send

LEMMA Replaced ==
  ASSUME NoResourceIsNone, NEW r, IsResource(r), NEW body
  PROVE  [r EXCEPT !.body = body] # None /\ [r EXCEPT !.body = body].body = body
<1>1. IsResource([r EXCEPT !.body = body])
  BY ResourceTypes
<1>2. [r EXCEPT !.body = body].body = body
  BY DEF IsResource
<1> QED BY <1>1, <1>2 DEF NoResourceIsNone

LEMMA ChildStepDeals ==
  ASSUME NoResourceIsNone, TypeOK,
         \/ ReconcileConfigMap \/ ReconcilePVC \/ ReconcileStatefulSet
         \/ ReconcileService
  PROVE  FailStep \/ (Proceed /\ Dealt)
<1>1. pc \in Kinds /\ req \in Servers /\ IsServer(held)
  BY DEF ReconcileConfigMap, ReconcilePVC, ReconcileStatefulSet, ReconcileService,
         TypeOK, Kinds
<1>2. \A fixed, body :
        [owner |-> held.uid, fixed |-> fixed, body |-> body] # None
  BY <1>1 DEF NoResourceIsNone, IsResource, IsServer
<1>3. \A k \in Kinds : Cached(k) # None => IsResource(Cached(k))
  BY <1>1 DEF Cached, TypeOK, ChildrenOK
<1>4. ASSUME Skip, Fits(pc, Cached(pc), held.spec, heldDef)
      PROVE  Proceed /\ Dealt
  BY <1>4 DEF Skip, Dealt, Cached
<1>5. CASE ReconcileConfigMap
  <2> DEFINE new == [owner |-> held.uid, fixed |-> None,
                     body |-> ConfigMapBody(held.spec)]
  <2>1. new # None /\ new.body = ConfigMapBody(held.spec)
    BY <1>2
  <2>2. /\ pc = "ConfigMap"
        /\ \/ Skip /\ held.spec.files = <<>>
           \/ Skip /\ Cached("ConfigMap") = new
           \/ Send(new)
    BY <1>5 DEF ReconcileConfigMap
  <2> HIDE DEF new
  <2>3. Fits("ConfigMap", new, held.spec, heldDef)
    BY <2>1 DEF Fits
  <2>4. held.spec.files = <<>>
          => Fits("ConfigMap", Cached("ConfigMap"), held.spec, heldDef)
    BY DEF Fits
  <2> QED BY <1>1, <1>4, <2>2, <2>3, <2>4, SentFits
<1>6. CASE ReconcilePVC
  <2> DEFINE size    == StorageSize(held.spec, heldDef)
             labels  == ClaimLabels(held.spec)
             created == [owner |-> held.uid, fixed |-> size, body |-> labels]
             updated == [Cached("PVC") EXCEPT !.body = labels]
  <2>1. created # None /\ created.body = labels
    BY <1>2
  <2>2. Cached("PVC") # None => updated # None /\ updated.body = labels
    BY <1>3, Replaced DEF Kinds
  <2>3. /\ pc = "PVC"
        /\ \/ Skip /\ size = 0
           \/ Skip /\ Cached("PVC") # None /\ Cached("PVC").body = labels
           \/ Send(created)
           \/ Send(updated) /\ Cached("PVC") # None
    BY <1>6 DEF ReconcilePVC
  <2> HIDE DEF created, updated
  <2>4. \A r : size = 0 \/ (r # None /\ r.body = labels)
                => Fits("PVC", r, held.spec, heldDef)
    BY DEF Fits
  <2> QED BY <1>1, <1>4, <2>1, <2>2, <2>3, <2>4, SentFits
<1>7. CASE ReconcileStatefulSet
  <2> DEFINE old    == Cached("StatefulSet")
             labels == StatefulSetLabels(held.spec, heldDef)
  <2>1. PICK template \in PodTemplates(held.spec, heldDef) :
          Send(IF old = None
               THEN [owner |-> held.uid, fixed |-> labels, body |-> template]
               ELSE [old EXCEPT !.fixed = labels, !.body = template])
    BY <1>7 DEF ReconcileStatefulSet
  <2> DEFINE created == [owner |-> held.uid, fixed |-> labels, body |-> template]
             updated == [old EXCEPT !.fixed = labels, !.body = template]
  <2>2. created # None /\ created.fixed = labels /\ created.body = template
    BY <1>2
  <2>3. old # None
          => updated # None /\ updated.fixed = labels /\ updated.body = template
    <3>1. old # None => IsResource(old)
      BY <1>3 DEF Kinds
    <3> HIDE DEF old, labels
    <3> DEFINE q == [old EXCEPT !.fixed = labels]
    <3>2. old # None => IsResource(q) /\ q.fixed = labels
      BY <3>1 DEF IsResource
    <3>3. updated = [q EXCEPT !.body = template]
      OBVIOUS
    <3> HIDE DEF q, updated
    <3>4. \A r : IsResource(r) => /\ IsResource([r EXCEPT !.body = template])
                                 /\ [r EXCEPT !.body = template].fixed = r.fixed
                                 /\ [r EXCEPT !.body = template].body = template
      BY DEF IsResource
    <3> QED BY <3>2, <3>3, <3>4 DEF NoResourceIsNone
  <2>4. pc = "StatefulSet" /\ (Send(created) \/ (old # None /\ Send(updated)))
    BY <1>7, <2>1 DEF ReconcileStatefulSet
  <2> HIDE DEF created, updated
  <2>5. \A r : r # None /\ r.fixed = labels /\ r.body = template
                => Fits("StatefulSet", r, held.spec, heldDef)
    BY DEF Fits
  <2> QED BY <1>1, <2>2, <2>3, <2>4, <2>5, SentFits
<1>8. CASE ReconcileService
  <2> DEFINE old     == Cached("Service")
             body    == ServiceBody(held.spec, heldDef)
             created == [owner |-> held.uid, fixed |-> None, body |-> body]
             updated == [old EXCEPT !.body = body]
  <2>1. created # None /\ created.body = body
    BY <1>2
  <2>2. old # None => updated # None /\ updated.body = body
    BY <1>3, Replaced DEF Kinds
  <2>3. pc = "Service" /\ (Send(created) \/ (old # None /\ Send(updated)))
    BY <1>8 DEF ReconcileService
  <2> HIDE DEF created, updated
  <2>4. \A r : r # None /\ r.body = body => Fits("Service", r, held.spec, heldDef)
    BY DEF Fits
  <2> QED BY <1>1, <2>1, <2>2, <2>3, <2>4, SentFits
<1> QED BY <1>5, <1>6, <1>7, <1>8

LEMMA ChildRemembers ==
  ASSUME NoResourceIsNone, LifecycleInv,
         \/ ReconcileConfigMap \/ ReconcilePVC \/ ReconcileStatefulSet
         \/ ReconcileService,
         [Next]_vars, NEW s \in Servers, Remembered(s)
  PROVE  Remembered(s)'
<1>0. TypeOK
  BY DEF LifecycleInv, FinalizerInv
<1>1. /\ pc \in Kinds /\ req \in Servers /\ OnlyChildren
      /\ req' = req /\ held' = held /\ heldDef' = heldDef
      /\ \A j \in Kinds : s # req \/ j # pc => child'[s][j] = child[s][j]
  <2>1. /\ pc \in Kinds /\ req \in Servers /\ OnlyChildren
        /\ Skip \/ \E new : Send(new)
    BY <1>0 DEF ReconcileConfigMap, ReconcilePVC, ReconcileStatefulSet,
                ReconcileService, TypeOK, Kinds
  <2>2. req' = req /\ held' = held /\ heldDef' = heldDef
    BY <2>1 DEF Skip, Send, Proceed, FailStep
  <2>3. ASSUME NEW new, child' = [child EXCEPT ![req][pc] = new]
        PROVE  \A j \in Kinds : s # req \/ j # pc => child'[s][j] = child[s][j]
    <3>1. child = [x \in Servers |-> [i \in Kinds |-> child[x][i]]]
      BY <1>0 DEF TypeOK, ChildrenOK
    <3> QED BY <2>1, <2>3, <3>1
  <2>4. child' = child \/ \E new : child' = [child EXCEPT ![req][pc] = new]
    BY <2>1 DEF Skip, Send
  <2> QED BY <2>1, <2>2, <2>3, <2>4
<1>2. CASE s # req
  <2>1. ChildrenKept(s) /\ VerdictKept(s) /\ StatusKept(s)
    BY <1>1, <1>2 DEF OnlyChildren, ChildrenKept, VerdictKept, StatusKept
  <2> QED BY <1>0, <1>1, <1>2, <2>1, OutdatedLasts, Quiet DEF OnlyChildren
<1>3. CASE s = req /\ pc' = "fail"
  BY <1>1, <1>3 DEF Remembered
<1>4. CASE s = req /\ s \in queue
  BY <1>1, <1>4 DEF OnlyChildren, Remembered
<1>5. CASE s = req /\ pc' # "fail" /\ s \notin queue
  <2>1. pc' = NextStep(pc) /\ Dealt
    BY <1>0, <1>5, ChildStepDeals DEF Proceed, FailStep
  <2>2. Passed(pc') = Passed(pc) \cup {pc} /\ Passed(pc) \subseteq Kinds
    BY <1>1, <2>1, Passing
  <2>3. UpToDate(s)
    BY <1>1, <1>5 DEF Remembered, Kinds
  <2>4. ASSUME NEW k \in Passed(pc')
        PROVE  childCache[s][k] # child'[s][k]
                 \/ Fits(k, childCache[s][k], held.spec, heldDef)
    <3>1. CASE k = pc
      BY <1>5, <2>1, <3>1 DEF Dealt
    <3>2. CASE k # pc
      <4>1. k \in Passed(pc) /\ child'[s][k] = child[s][k]
        BY <1>1, <2>2, <2>4, <3>2
      <4> QED BY <2>3, <4>1 DEF UpToDate, FitsOrStale
    <3> QED BY <3>1, <3>2
  <2>5. UpToDate(s)'
    BY <1>1, <2>3, <2>4 DEF UpToDate, FitsOrStale, OnlyChildren
  <2> QED BY <1>1, <1>5, <2>5 DEF Remembered
<1> QED BY <1>2, <1>3, <1>4, <1>5

-----------------------------------------------------------------------------
(* The end of a reconciliation.  Without a request left, the status is     *)
(* Running: the one held, or one that the cache does not show yet.         *)

LEMMA StatusEnds ==
  ASSUME TypeOK, UpdateStatus \/ SetErrorStatus, req \notin queue'
  PROVE  /\ pc = "status"
         /\ \/ server' = server /\ held.status.state = "Running"
            \/ /\ server'[req].uid = held.uid
               /\ server'[req].status # held.status
<1>1. pc # "idle" /\ req \in Servers /\ IsServer(held)
  BY DEF UpdateStatus, SetErrorStatus, TypeOK
<1>2. ~Finish(TRUE)
  BY DEF Finish
<1>3. UpdateStatus
  BY <1>2 DEF SetErrorStatus
<1>4. PICK w \in Workloads, n \in Networks :
        LET svc   == IF Cached("Service") = None THEN None
                                                 ELSE Cached("Service").body
            state == DetermineState(Cached("StatefulSet"), w)
            new   == ObservedStatus(held.status, state, DetermineAddress(svc, n),
                                    DeterminePorts(svc, n))
            written == [held EXCEPT !.status = new]
        IN  IF new = held.status
            THEN Finish(state # "Running") /\ UNCHANGED <<server, faults>>
            ELSE \/ Updated(req, held, written) /\ Finish(state # "Running")
                 \/ NotUpdated(req, held, written) /\ Finish(TRUE)
  BY <1>3 DEF UpdateStatus
<1> DEFINE svc     == IF Cached("Service") = None THEN None
                                                  ELSE Cached("Service").body
           state   == DetermineState(Cached("StatefulSet"), w)
           new     == ObservedStatus(held.status, state, DetermineAddress(svc, n),
                                     DeterminePorts(svc, n))
           written == [held EXCEPT !.status = new]
<1>5. new.state = state
  BY DEF ObservedStatus
<1>6. state # "Running" => ~Finish(state # "Running")
  BY DEF Finish
<1>7. written.uid = held.uid /\ written.status = new
  BY <1>1 DEF IsServer
<1>8. pc = "status"
  BY <1>3 DEF UpdateStatus
<1>9. \/ new = held.status /\ server' = server /\ state = "Running"
      \/ new # held.status /\ Updated(req, held, written)
  BY <1>2, <1>4, <1>6
<1> HIDE DEF new, state, written
<1>10. Updated(req, held, written) => server'[req] = written
  BY <1>1 DEF Updated, TypeOK, ServersOK
<1> QED BY <1>5, <1>7, <1>8, <1>9, <1>10

LEMMA StatusRemembers ==
  ASSUME LifecycleInv, UpdateStatus \/ SetErrorStatus, [Next]_vars,
         NEW s \in Servers, Remembered(s)
  PROVE  Remembered(s)'
<1> SUFFICES ASSUME s \notin queue'
             PROVE  Remembered(s)'
  BY DEF Remembered
<1>0. TypeOK
  BY DEF LifecycleInv, FinalizerInv
<1>1. /\ UNCHANGED <<defCache, serverCache, child, childCache>>
      /\ pc # "idle" /\ req \in Servers /\ queue \subseteq queue'
      /\ pc' = "idle" /\ req' = None
  BY <1>0 DEF UpdateStatus, SetErrorStatus, Finish, OnlyStatus, TypeOK
<1>2. req' # s
  BY <1>1, ServersAssumption DEF ServersAssumption
<1>3. CASE s # req
  <2>1. server'[s] = server[s]
    <3>1. server' = server \/ \E new : server' = [server EXCEPT ![req] = new]
      BY DEF UpdateStatus, SetErrorStatus, Updated, NotUpdated
    <3> QED BY <1>0, <1>1, <1>3, <3>1, OneServer
  <2>2. ChildrenKept(s) /\ VerdictKept(s) /\ StatusKept(s)
    BY <1>1, <2>1 DEF ChildrenKept, VerdictKept, StatusKept
  <2> QED BY <1>0, <1>1, <1>2, <1>3, <2>2, OutdatedLasts, Quiet
<1>4. CASE s = req
  <2>1. /\ pc = "status"
        /\ \/ server' = server /\ held.status.state = "Running"
           \/ server'[s].uid = held.uid /\ server'[s].status # held.status
    BY <1>0, <1>4, StatusEnds
  <2>2. UpToDate(s) /\ held = serverCache[s]
    BY <1>1, <1>4, <2>1 DEF Remembered, UpToDate
  <2>3. CASE server'[s].uid = held.uid /\ server'[s].status # held.status
    BY <1>1, <1>2, <2>2, <2>3 DEF Remembered, Outdated
  <2>4. CASE held.status.state = "Running"
    <3>1. held.finalizer
      BY <1>0, <1>1 DEF LifecycleInv, FinalizerInv, HeldFinalizer, TypeOK
    <3>2. \A k \in Kinds : FitsOrStale(s, k, held.spec, heldDef)
      BY <2>1, <2>2, Passing DEF UpToDate
    <3>3. Reconciled(s)'
      BY <1>1, <2>2, <2>4, <3>1, <3>2 DEF UpToDate, Reconciled, FitsOrStale
    <3> QED BY <1>2, <3>3 DEF Remembered
  <2> QED BY <2>1, <2>3, <2>4
<1> QED BY <1>3, <1>4

(* After a restart every server that exists has a request. *)
LEMMA CrashRemembers ==
  ASSUME Crash, NEW s \in Servers
  PROVE  Remembered(s)'
BY ServersAssumption DEF ServersAssumption, Crash, Remembered

LEMMA SettledInit == Init => SettledInv
BY LifecycleInit, ServersAssumption
   DEF Init, SettledInv, CacheGuarded, NothingForgotten, Remembered,
       ServersAssumption

LEMMA SettledStep ==
  ASSUME NoServerIsNone, NoResourceIsNone, SettledInv, [Next]_vars
  PROVE  SettledInv'
<1>1. LifecycleInv /\ LifecycleInv' /\ TypeOK
  BY LifecycleStep DEF SettledInv, LifecycleInv, FinalizerInv
<1>2. CacheGuarded'
  BY <1>1, CacheStep DEF SettledInv, LifecycleInv, DeletingGuarded, CacheGuarded
<1>3. ASSUME NEW s \in Servers
      PROVE  Remembered(s)'
  <2>1. Remembered(s) /\ CacheGuarded
    BY DEF SettledInv, NothingForgotten
  <2>2. CASE UNCHANGED vars
    BY <2>1, <2>2 DEF vars, defVars, serverVars, workVars, Remembered, UpToDate,
                      Reconciled, Outdated, FitsOrStale
  <2>3. CASE Next
    BY <1>1, <2>1, <2>3, UserRemembers, DefinitionRemembers, InformerRemembers,
       StartRemembers, ChildRemembers, StatusRemembers, CrashRemembers
       DEF Next, ServerNext, Work
  <2> QED BY <2>2, <2>3
<1> QED BY <1>1, <1>2, <1>3 DEF SettledInv, NothingForgotten

(* No server is forgotten: the operator has a request for it, or works on  *)
(* it from what the caches show, or has reconciled what they show, or an   *)
(* event about it is still to come.                                        *)
THEOREM SettledInvCorrect ==
  NoServerIsNone /\ NoResourceIsNone => (Spec => []SettledInv)
<1> SUFFICES ASSUME NoServerIsNone, NoResourceIsNone
             PROVE  Spec => []SettledInv
  OBVIOUS
<1>1. SettledInv /\ [Next]_vars => SettledInv'
  BY SettledStep
<1> QED BY SettledInit, <1>1, PTL DEF Spec

(* The operator rests only when its work is done: when nothing is queued,  *)
(* running or undelivered for a server, its resources are those of its     *)
(* stored spec and definition, which is ready and accepts its config, and  *)
(* it is reported Running.                                                 *)
THEOREM SettledInStepCorrect ==
  NoServerIsNone /\ NoResourceIsNone => (Spec => []SettledInStep)
<1>1. ASSUME SettledInv
      PROVE  SettledInStep
  <2> SUFFICES ASSUME NEW s \in Servers, Settled(s), server[s] # None
               PROVE  /\ Wanted(s) /\ server[s].finalizer
                      /\ server[s].status.state = "Running"
                      /\ Acceptable(server[s].spec, def)
                      /\ InStep(s)
    BY DEF SettledInStep
  <2>1. Reconciled(s) /\ serverCache[s] = server[s] /\ childCache[s] = child[s]
    BY <1>1 DEF Settled, SettledInv, NothingForgotten, Remembered, Outdated
  <2> DEFINE spec == server[s].spec
  <2>2. /\ DefOf(spec, defCache) = DefOf(spec, def)
        /\ Acceptable(spec, defCache) <=> Acceptable(spec, def)
    <3>1. spec.game # None => defCache[spec.game] = def[spec.game]
      BY DEF Settled
    <3> QED BY <3>1, SameVerdict
  <2>3. \A k \in Kinds : Fits(k, child[s][k], spec, DefOf(spec, def))
    BY <2>1, <2>2 DEF Reconciled, FitsOrStale
  <2> QED BY <2>1, <2>2, <2>3 DEF Reconciled, Wanted, InStep
<1>2. SettledInv => SettledInStep
  BY <1>1
<1> QED BY <1>2, SettledInvCorrect, PTL
=============================================================================
