--------------------- MODULE SteamServerRefinementProofs ---------------------
(***************************************************************************)
(* The operator implements the safety of ServerLifecycle, for any servers, *)
(* definitions and specs, any lag of the caches and any bounds.            *)
(*                                                                         *)
(* None is the absence of an object, so that no object is None: TLC has it *)
(* from None being a model value, and the proofs have it as a hypothesis.  *)
(***************************************************************************)
EXTENDS SteamServerRefinement, SteamServerProofs

NoServerIsNone == \A o : IsServer(o) => o # None

-----------------------------------------------------------------------------
(* What one step does to one stored server: nothing, create it, delete it  *)
(* for good, or move its finalizer and its deletion forward.               *)

Created(s) ==
  /\ server[s] = None /\ server'[s] # None /\ FreshServer(s)
  /\ ~server'[s].finalizer /\ ~server'[s].deleting

Removed(s) ==
  /\ server[s] # None /\ server'[s] = None
  /\ server[s].deleting \/ ~server[s].finalizer

Advanced(s) ==
  /\ server[s] # None /\ server'[s] # None
  /\ server'[s].uid = server[s].uid
  /\ server[s].finalizer => server'[s].finalizer
  /\ server[s].deleting => server'[s].deleting
  /\ server'[s].deleting => server[s].deleting \/ server[s].finalizer

Absent(s) == server[s] = None /\ server'[s] = None

ObjectStep(s) == Absent(s) \/ Created(s) \/ Removed(s) \/ Advanced(s)

LEMMA StoredServer ==
  ASSUME TypeOK, NEW s \in Servers, server[s] # None
  PROVE  /\ IsServer(server[s])
         /\ server[s].finalizer \in BOOLEAN /\ server[s].deleting \in BOOLEAN
         /\ server[s].uid \in Int
BY DEF TypeOK, ServersOK, IsServer

LEMMA SameObject ==
  ASSUME TypeOK, NEW s \in Servers, server'[s] = server[s]
  PROVE  ObjectStep(s)
BY StoredServer DEF ObjectStep, Absent, Advanced

LEMMA UserObjectStep ==
  ASSUME NoServerIsNone, TypeOK, UserNext, NEW s \in Servers
  PROVE  ObjectStep(s)
<1>0. server = [x \in Servers |-> server[x]]
  BY DEF TypeOK, ServersOK
<1>1. ASSUME NEW r \in Servers, CreateServer(r)
      PROVE  ObjectStep(s)
  <2>1. PICK spec \in Specs :
          server' = [server EXCEPT ![r] =
                       [uid |-> edits', spec |-> spec, finalizer |-> FALSE,
                        deleting |-> FALSE, status |-> NoStatus]]
    BY <1>1 DEF CreateServer
  <2>2. CASE s = r
    <3>1. /\ server[s] = None /\ edits' = edits + 1
          /\ server'[s] = [uid |-> edits', spec |-> spec, finalizer |-> FALSE,
                           deleting |-> FALSE, status |-> NoStatus]
      BY <1>0, <1>1, <2>1, <2>2 DEF CreateServer, UserActs
    <3>2. /\ server'[s].uid = edits + 1
          /\ ~server'[s].finalizer /\ ~server'[s].deleting
      BY <3>1
    <3> QED BY <3>1, <3>2 DEF ObjectStep, Absent, Created, FreshServer
  <2>3. CASE s # r
    BY <1>0, <2>1, <2>3, SameObject
  <2> QED BY <2>2, <2>3
<1>2. ASSUME NEW r \in Servers, EditServer(r)
      PROVE  ObjectStep(s)
  <2>1. PICK spec \in Specs : server' = [server EXCEPT ![r].spec = spec]
    BY <1>2 DEF EditServer
  <2>2. CASE s = r
    <3>1. server[s] # None /\ server'[s] = [server[s] EXCEPT !.spec = spec]
      BY <1>0, <1>2, <2>1, <2>2 DEF EditServer
    <3>2. IsServer(server'[s])
      BY <3>1, StoredServer DEF IsServer
    <3>3. /\ server'[s].uid = server[s].uid
          /\ server'[s].finalizer = server[s].finalizer
          /\ server'[s].deleting = server[s].deleting
      BY <3>1, StoredServer DEF IsServer
    <3> QED BY <3>1, <3>2, <3>3 DEF NoServerIsNone, ObjectStep, Advanced
  <2>3. CASE s # r
    BY <1>0, <2>1, <2>3, SameObject
  <2> QED BY <2>2, <2>3
<1>3. ASSUME NEW r \in Servers, DeleteServer(r)
      PROVE  ObjectStep(s)
  <2>1. CASE s = r /\ server[s].finalizer
    <3>1. server[s] # None /\ server'[s] = [server[s] EXCEPT !.deleting = TRUE]
      BY <1>0, <1>3, <2>1 DEF DeleteServer
    <3>2. IsServer(server'[s])
      BY <3>1, StoredServer, FlagTypes
    <3>3. /\ server'[s].uid = server[s].uid
          /\ server'[s].finalizer = server[s].finalizer
          /\ server'[s].deleting
      BY <3>1, StoredServer DEF IsServer
    <3> QED BY <2>1, <3>1, <3>2, <3>3 DEF NoServerIsNone, ObjectStep, Advanced
  <2>2. CASE s = r /\ ~server[s].finalizer
    BY <1>0, <1>3, <2>2 DEF DeleteServer, ObjectStep, Removed
  <2>3. CASE s # r
    <3>1. server'[s] = server[s]
      BY <1>0, <1>3, <2>3 DEF DeleteServer
    <3> QED BY <3>1, SameObject
  <2> QED BY <2>1, <2>2, <2>3
<1>4. ASSUME \/ \E r \in Servers, k \in Kinds : DeleteChild(r, k)
             \/ DefUserNext /\ UNCHANGED serverVars
      PROVE  ObjectStep(s)
  <2>1. server' = server
    BY <1>4 DEF DeleteChild, serverVars
  <2> QED BY <2>1, SameObject
<1> QED BY <1>1, <1>2, <1>3, <1>4 DEF UserNext

(* The operator removes a server only in handleDeletion. *)
LEMMA OperatorRemoves ==
  ASSUME NoServerIsNone, TypeOK, [Next]_vars, ~UserNext,
         NEW s \in Servers, server[s] # None, server'[s] = None
  PROVE  server[s].deleting
<1>0. server = [x \in Servers |-> server[x]]
  BY DEF TypeOK, ServersOK
<1>1. ASSUME NEW r \in Servers, NEW old, NEW new,
             Updated(r, old, new) \/ NotUpdated(r, old, new)
      PROVE  server[r] = old /\ r = s /\ new = None
  <2>1. server[r] = old /\ server' = [server EXCEPT ![r] = new]
    BY <1>1 DEF Updated, NotUpdated
  <2>2. r = s
    BY <1>0, <2>1
  <2> QED BY <1>0, <2>1, <2>2
<1>2. ASSUME NEW r \in Servers, HandleDeletion(r)
      PROVE  server[s].deleting
  <2>1. \/ Updated(r, serverCache[r], None) \/ NotUpdated(r, serverCache[r], None)
    BY <1>2 DEF HandleDeletion
  <2> QED BY <1>1, <1>2, <2>1 DEF HandleDeletion
<1>3. ASSUME NEW r \in Servers, AddFinalizer(r)
      PROVE  FALSE
  <2> DEFINE new == [serverCache[r] EXCEPT !.finalizer = TRUE]
  <2>1. Updated(r, serverCache[r], new) \/ NotUpdated(r, serverCache[r], new)
    BY <1>3 DEF AddFinalizer
  <2>2. IsServer(new)
    BY <1>3, FlagTypes DEF AddFinalizer, Live, TypeOK, ServersOK
  <2> HIDE DEF new
  <2> QED BY <1>1, <2>1, <2>2 DEF NoServerIsNone
<1>4. ASSUME NEW st, IsStatus(st), req \in Servers, IsServer(held),
             LET written == [held EXCEPT !.status = st]
             IN  Updated(req, held, written) \/ NotUpdated(req, held, written)
      PROVE  FALSE
  <2> DEFINE written == [held EXCEPT !.status = st]
  <2>1. IsServer(written)
    BY <1>4, StatusType
  <2>2. Updated(req, held, written) \/ NotUpdated(req, held, written)
    BY <1>4
  <2> HIDE DEF written
  <2> QED BY <1>1, <1>4, <2>1, <2>2 DEF NoServerIsNone
<1>5. ASSUME UpdateStatus \/ SetErrorStatus
      PROVE  FALSE
  <2>1. req \in Servers /\ IsServer(held) /\ IsStatus(held.status)
    BY <1>5 DEF UpdateStatus, SetErrorStatus, TypeOK, IsServer
  <2>2. CASE SetErrorStatus
    <3>1. IsStatus(ErrorStatus(held.status, reason))
      BY <2>1, <2>2, ErrorType DEF SetErrorStatus, TypeOK
    <3> QED BY <1>4, <2>1, <2>2, <3>1 DEF SetErrorStatus
  <2>3. CASE UpdateStatus
    <3>1. \E st : /\ IsStatus(st)
                  /\ LET written == [held EXCEPT !.status = st]
                     IN  \/ Updated(req, held, written)
                         \/ NotUpdated(req, held, written)
      <4>1. PICK w \in Workloads, n \in Networks :
              LET svc == IF Cached("Service") = None THEN None
                                                     ELSE Cached("Service").body
                  state == DetermineState(Cached("StatefulSet"), w)
                  new   == ObservedStatus(held.status, state,
                                          DetermineAddress(svc, n),
                                          DeterminePorts(svc, n))
                  written == [held EXCEPT !.status = new]
              IN  Updated(req, held, written) \/ NotUpdated(req, held, written)
        BY <2>3 DEF UpdateStatus
      <4> DEFINE svc == IF Cached("Service") = None THEN None
                                                    ELSE Cached("Service").body
                 new == ObservedStatus(held.status,
                                       DetermineState(Cached("StatefulSet"), w),
                                       DetermineAddress(svc, n),
                                       DeterminePorts(svc, n))
      <4>2. IsStatus(new)
        BY <2>1, ObservedType, DetermineStateType
      <4> QED BY <4>1, <4>2
    <3> QED BY <1>4, <2>1, <3>1
  <2> QED BY <1>5, <2>2, <2>3
<1>6. server' # server
  OBVIOUS
<1>7. ASSUME NEW g \in Games, DefinitionNext(g)
      PROVE  server' = server
  BY <1>7 DEF DefinitionNext, SyncDefinition, serverVars
<1>8. ASSUME NEW r \in Servers,
             \/ SyncServer(r) \/ ReconcileGone(r)
             \/ RejectServer(r) \/ AcceptServer(r)
             \/ \E k \in Kinds : SyncChild(r, k) \/ CollectGarbage(r, k)
      PROVE  server' = server
  BY <1>8 DEF SyncServer, ReconcileGone, RejectServer, AcceptServer, Fetch,
              SyncChild, CollectGarbage
<1>9. ASSUME \/ ReconcileConfigMap \/ ReconcilePVC \/ ReconcileStatefulSet
             \/ ReconcileService \/ Crash \/ UNCHANGED vars
      PROVE  server' = server
  BY <1>9 DEF ReconcileConfigMap, ReconcilePVC, ReconcileStatefulSet,
              ReconcileService, OnlyChildren, Crash, vars, serverVars
<1> QED BY <1>2, <1>3, <1>5, <1>6, <1>7, <1>8, <1>9
        DEF Next, ServerNext, Start, Work

LEMMA ObjectSteps ==
  ASSUME NoServerIsNone, TypeOK, DeletingGuarded, [Next]_vars, NEW s \in Servers
  PROVE  ObjectStep(s)
<1>1. CASE UserNext
  BY <1>1, UserObjectStep
<1>2. CASE ~UserNext /\ server'[s] # None
  BY <1>2, OperatorKeeps, StoredServer
     DEF SameServer, SameUserPart, ObjectStep, Advanced
<1>3. CASE ~UserNext /\ server'[s] = None
  BY <1>3, OperatorRemoves DEF ObjectStep, Absent, Removed
<1> QED BY <1>1, <1>2, <1>3

-----------------------------------------------------------------------------
(* What one step does to the resources of a server: nothing, or it changes *)
(* one of them and no server.                                              *)

SameChildren(s) == \A k \in Kinds : child'[s][k] = child[s][k]

OneChild(s) ==
  /\ server' = server
  /\ \E k \in Kinds : \A j \in Kinds \ {k} : child'[s][j] = child[s][j]

LEMMA ExceptChild ==
  ASSUME TypeOK, NEW r \in Servers, NEW k \in Kinds, NEW new,
         child' = [child EXCEPT ![r][k] = new], server' = server,
         NEW s \in Servers
  PROVE  OneChild(s)
<1>1. child = [x \in Servers |-> [j \in Kinds |-> child[x][j]]]
  BY DEF TypeOK, ChildrenOK
<1>2. \A j \in Kinds \ {k} : child'[s][j] = child[s][j]
  BY <1>1
<1> QED BY <1>2 DEF OneChild

LEMMA ChildrenStep ==
  ASSUME TypeOK, [Next]_vars, NEW s \in Servers
  PROVE  SameChildren(s) \/ OneChild(s)
<1>0. ASSUME child' = child
      PROVE  SameChildren(s)
  BY <1>0 DEF SameChildren
<1>1. ASSUME NEW r \in Servers, NEW k \in Kinds, DeleteChild(r, k)
      PROVE  OneChild(s)
  BY <1>1, ExceptChild DEF DeleteChild
<1>2. ASSUME NEW r \in Servers, NEW k \in Kinds, CollectGarbage(r, k)
      PROVE  OneChild(s)
  BY <1>2, ExceptChild DEF CollectGarbage
<1>3. ASSUME \/ ReconcileConfigMap \/ ReconcilePVC \/ ReconcileStatefulSet
             \/ ReconcileService
      PROVE  SameChildren(s) \/ OneChild(s)
  <2>1. /\ pc \in Kinds /\ req \in Servers /\ server' = server
        /\ Skip \/ \E new : Send(new)
    BY <1>3 DEF ReconcileConfigMap, ReconcilePVC, ReconcileStatefulSet,
                ReconcileService, OnlyChildren, TypeOK, Kinds
  <2>2. child' = child \/ \E new : child' = [child EXCEPT ![req][pc] = new]
    BY <2>1 DEF Skip, Send
  <2> QED BY <1>0, <2>1, <2>2, ExceptChild
<1>4. ASSUME UserNext, ~\E r \in Servers, k \in Kinds : DeleteChild(r, k)
      PROVE  child' = child
  BY <1>4 DEF UserNext, CreateServer, EditServer, DeleteServer, serverVars
<1>5. ASSUME \/ \E g \in Games : DefinitionNext(g)
             \/ \E r \in Servers :
                  Start(r) \/ SyncServer(r) \/ \E k \in Kinds : SyncChild(r, k)
             \/ UpdateStatus \/ SetErrorStatus \/ Crash \/ UNCHANGED vars
      PROVE  child' = child
  BY <1>5 DEF DefinitionNext, SyncDefinition, serverVars, Start, ReconcileGone,
              HandleDeletion, AddFinalizer, RejectServer, AcceptServer, Fetch,
              SyncServer, SyncChild, UpdateStatus, SetErrorStatus, OnlyStatus,
              Crash, vars
<1> QED BY <1>0, <1>1, <1>2, <1>3, <1>4, <1>5 DEF Next, ServerNext, Work

-----------------------------------------------------------------------------
(* The inductive invariant *)

LEMMA LifecycleInit == Init => LifecycleInv
BY FinalizerInit DEF Init, LifecycleInv, DeletingGuarded, CopiesInOrder,
                     OwnersSeen, Owned, Present, NoChildren

LEMMA Numbers ==
  ASSUME TypeOK
  PROVE  /\ edits \in Int
         /\ held # None => held.uid \in Int /\ req \in Servers
         /\ \A s \in Servers :
              /\ server[s] # None => server[s].uid \in Int
              /\ serverCache[s] # None => serverCache[s].uid \in Int
              /\ \A k \in Kinds : child[s][k] # None => child[s][k].owner \in Int
<1>1. \A o : IsServer(o) => o.uid \in Int
  BY DEF IsServer
<1>2. \A r : IsResource(r) => r.owner \in Int
  BY DEF IsResource
<1> QED BY <1>1, <1>2 DEF TypeOK, DefTypeOK, ServersOK, ChildrenOK

LEMMA LifecycleStep ==
  ASSUME NoServerIsNone, LifecycleInv, [Next]_vars
  PROVE  LifecycleInv'
<1>1. FinalizerInv'
  BY FinalizerStep DEF LifecycleInv
<1>2. TypeOK /\ TypeOK'
  BY <1>1 DEF LifecycleInv, FinalizerInv
<1>3. \A s \in Servers : ObjectStep(s)
  BY <1>2, ObjectSteps DEF LifecycleInv
<1>4. DeletingGuarded'
  BY <1>3 DEF LifecycleInv, DeletingGuarded, ObjectStep, Absent, Created, Removed,
              Advanced
<1>5. \A s \in Servers : server'[s] # None => SameServer(s) \/ FreshServer(s)
  BY <1>2, ServersStep
<1> USE <1>2, Numbers DEF SameServer, FreshServer
<1>6. CopiesInOrder'
  <2>1. ASSUME NEW s \in Servers, server'[s] # None, serverCache'[s] # None
        PROVE  serverCache'[s].uid <= server'[s].uid
    BY <1>5, <2>1, CacheStep
       DEF LifecycleInv, FinalizerInv, UidsUsed, CopiesInOrder
  <2>2. ASSUME held' = held, req' = req, held # None
        PROVE  /\ server'[req] # None => held.uid <= server'[req].uid
               /\ serverCache'[req] # None => held.uid <= serverCache'[req].uid
    <3>1. server'[req] # None => held.uid <= server'[req].uid
      BY <1>5, <2>2 DEF LifecycleInv, FinalizerInv, HeldFinalizer, CopiesInOrder
    <3>2. serverCache'[req] # None => held.uid <= serverCache'[req].uid
      BY <2>2, CacheStep DEF LifecycleInv, CopiesInOrder
    <3> QED BY <3>1, <3>2
  <2>3. ASSUME NEW s \in Servers, req' = s, held' = serverCache[s], held' # None,
               server' = server
        PROVE  /\ server'[s] # None => held'.uid <= server'[s].uid
               /\ serverCache'[s] # None => held'.uid <= serverCache'[s].uid
    BY <2>3, CacheStep DEF LifecycleInv, CopiesInOrder
  <2> QED BY <2>1, <2>2, <2>3, HeldStep DEF CopiesInOrder
<1>7. OwnersSeen'
  <2> SUFFICES ASSUME NEW s \in Servers, NEW k \in Kinds,
                      server'[s] # None, child'[s][k] # None,
                      child'[s][k].owner = server'[s].uid
               PROVE  /\ serverCache'[s] # None
                           => serverCache'[s].uid = server'[s].uid
                      /\ held' # None /\ req' = s => held'.uid = server'[s].uid
    BY DEF OwnersSeen, Owned, Present
  <2>1. CASE SameOwner(s, k)
    <3>1. child[s][k] # None /\ child[s][k].owner <= edits
      BY <2>1 DEF SameOwner, LifecycleInv, FinalizerInv, UidsUsed
    <3>2. SameServer(s) /\ child[s][k].owner = server[s].uid
      <4>1. child[s][k].owner = server'[s].uid /\ child[s][k].owner \in Int
        BY <2>1, <3>1 DEF SameOwner
      <4>2. ~FreshServer(s)
        BY <3>1, <4>1
      <4>3. SameServer(s)
        BY <1>5, <4>2
      <4> QED BY <4>1, <4>3
    <3>3. /\ serverCache[s] # None => serverCache[s].uid = server[s].uid
          /\ held # None /\ req = s => held.uid = server[s].uid
      BY <3>1, <3>2 DEF LifecycleInv, OwnersSeen, Owned, Present
    <3>4. serverCache'[s] # None => serverCache'[s].uid = server'[s].uid
      BY <3>2, <3>3, CacheStep
    <3>5. held' # None /\ req' = s => held'.uid = server'[s].uid
      BY <3>2, <3>3, HeldStep
    <3> QED BY <3>4, <3>5
  <2>2. CASE HeldOwner(s, k)
    <3>1. /\ s = req /\ held' = held /\ held # None /\ server' = server
          /\ held.uid = server[s].uid
      BY <2>2 DEF HeldOwner
    <3>2. serverCache[s] # None => serverCache[s].uid = server[s].uid
      BY <3>1 DEF LifecycleInv, CopiesInOrder
    <3> QED BY <3>1, <3>2, CacheStep
  <2> QED BY <2>1, <2>2, ChildStep
<1> QED BY <1>1, <1>4, <1>6, <1>7 DEF LifecycleInv

(* No copy of an earlier server of the same name can take away what the    *)
(* present one owns: the copies that the cache and the worker hold never   *)
(* run ahead of the store and are renewed before anything is owned.        *)
THEOREM LifecycleInvCorrect == NoServerIsNone => (Spec => []LifecycleInv)
<1> SUFFICES ASSUME NoServerIsNone
             PROVE  Spec => []LifecycleInv
  OBVIOUS
<1>1. LifecycleInv /\ [Next]_vars => LifecycleInv'
  BY LifecycleStep
<1> QED BY LifecycleInit, <1>1, PTL DEF Spec

-----------------------------------------------------------------------------
(* Every step of the operator is, for every server, a step of              *)
(* ServerLifecycle or none at all.                                         *)

LEMMA ObjectSimulation ==
  ASSUME LifecycleInv, NEW s \in Servers, ObjectStep(s), SameChildren(s)
  PROVE  L!Step(s) \/ L!Stay(s)
<1>0. TypeOK
  BY DEF LifecycleInv, FinalizerInv
<1>1. Present(s)' = Present(s)
  BY DEF SameChildren, Present
<1>2. ASSUME server[s] # None
      PROVE  /\ server[s].finalizer \in BOOLEAN /\ server[s].deleting \in BOOLEAN
             /\ server[s].deleting => server[s].finalizer
             /\ ~server[s].finalizer => Owned(s) = {}
  <2>1. server[s].deleting => server[s].finalizer
    BY <1>2 DEF LifecycleInv, DeletingGuarded
  <2>2. ~server[s].finalizer => Owned(s) = {}
    BY <1>2 DEF LifecycleInv, FinalizerInv, FinalizerGuards, Owned, Present
  <2> QED BY <1>0, <1>2, <2>1, <2>2, StoredServer
<1>3. server[s] = None => Owned(s) = {} /\ Phase(s) = "absent"
  BY DEF Owned, Phase
<1>4. server'[s] = None => Owned(s)' = {} /\ Phase(s)' = "absent"
  BY DEF Owned, Phase
<1> USE DEF L!Step, L!Stay, L!Turn, Left
<1>5. CASE Absent(s)
  BY <1>1, <1>3, <1>4, <1>5 DEF Absent
<1>6. CASE Created(s)
  <2>1. Owned(s)' = {}
    BY <1>0, <1>6, Numbers
       DEF Created, FreshServer, SameChildren, Owned, Present, LifecycleInv,
           FinalizerInv, UidsUsed
  <2>2. Phase(s)' = "new"
    BY <1>6 DEF Created, Phase
  <2> QED BY <1>1, <1>3, <1>6, <2>1, <2>2 DEF Created, L!Create
<1>7. CASE Removed(s)
  <2>1. CASE server[s].deleting
    <3>1. Phase(s) = "deleting"
      BY <1>7, <2>1 DEF Removed, Phase
    <3>2. Owned(s) \subseteq Present(s)
      BY DEF Owned
    <3> QED BY <1>1, <1>4, <1>7, <3>1, <3>2 DEF Removed, L!Release
  <2>2. CASE ~server[s].deleting
    <3>1. Phase(s) = "new" /\ Owned(s) = {}
      BY <1>2, <1>7, <2>2 DEF Removed, Phase
    <3> QED BY <1>1, <1>4, <1>7, <3>1 DEF Removed, L!Discard
  <2> QED BY <2>1, <2>2
<1>8. CASE Advanced(s)
  <2>1. Owned(s)' = Owned(s)
    BY <1>8 DEF Advanced, SameChildren, Owned, Present
  <2>2. \/ Phase(s)' = Phase(s)
        \/ Phase(s) = "new" /\ Phase(s)' = "guarded"
        \/ Phase(s) = "guarded" /\ Phase(s)' = "deleting"
    BY <1>2, <1>8 DEF Advanced, Phase
  <2> QED BY <1>1, <2>1, <2>2 DEF L!Guard, L!Mark
<1> QED BY <1>5, <1>6, <1>7, <1>8 DEF ObjectStep

LEMMA ChildSimulation ==
  ASSUME LifecycleInv, [Next]_vars, NEW s \in Servers, OneChild(s)
  PROVE  L!Step(s) \/ L!Stay(s)
<1>0. TypeOK /\ server' = server
  BY DEF LifecycleInv, FinalizerInv, OneChild
<1>1. PICK k \in Kinds : \A j \in Kinds \ {k} : child'[s][j] = child[s][j]
  BY DEF OneChild
<1>2. Phase(s)' = Phase(s)
  BY <1>0 DEF Phase
<1>3. /\ Present(s)' \ {k} = Present(s) \ {k}
      /\ Owned(s)' \ {k} = Owned(s) \ {k}
  BY <1>0, <1>1 DEF Present, Owned
<1>4. Owned(s) \subseteq Present(s) /\ Owned(s)' \subseteq Present(s)'
  BY DEF Owned
<1> USE DEF L!Step, L!Stay, L!Turn, Left
<1>5. CASE child'[s][k] = None
  <2>1. k \notin Present(s)'
    BY <1>5 DEF Present
  <2> QED BY <1>2, <1>3, <1>4, <2>1 DEF L!Lose
<1>6. CASE child'[s][k] # None /\ SameOwner(s, k)
  <2>1. /\ k \in Present(s) /\ k \in Present(s)'
        /\ k \in Owned(s)' <=> k \in Owned(s)
    BY <1>0, <1>6 DEF SameOwner, Present, Owned
  <2>2. Present(s)' = Present(s) /\ Owned(s)' = Owned(s)
    BY <1>3, <1>4, <2>1
  <2> QED BY <1>2, <2>2
<1>7. CASE child'[s][k] # None /\ HeldOwner(s, k)
  <2>1. s = req /\ held # None /\ child'[s][k].owner = held.uid
    BY <1>7 DEF HeldOwner
  <2>2. k \in Present(s)'
    BY <1>7 DEF Present
  <2>3. CASE server[s] # None /\ server[s].uid = held.uid
    <3>1. k \in Owned(s)'
      BY <1>0, <1>7, <2>1, <2>3 DEF Owned, Present
    <3>2. server[s].finalizer
      BY <2>1, <2>3 DEF LifecycleInv, FinalizerInv, HeldFinalizer
    <3>3. Phase(s) \in {"guarded", "deleting"}
      BY <2>3, <3>2 DEF Phase
    <3>4. CASE k \in Owned(s)
      <4>1. Present(s)' = Present(s) /\ Owned(s)' = Owned(s)
        BY <1>3, <1>4, <3>1, <3>4
      <4> QED BY <1>2, <4>1
    <3>5. CASE k \notin Owned(s)
      <4>1. /\ Owned(s)' = Owned(s) \cup {k}
            /\ Present(s)' \ Owned(s)' = (Present(s) \ Owned(s)) \ {k}
        BY <1>3, <1>4, <3>1, <3>5
      <4> QED BY <1>2, <3>3, <3>5, <4>1 DEF L!Own
    <3> QED BY <3>4, <3>5
  <2>4. CASE ~(server[s] # None /\ server[s].uid = held.uid)
    <3>1. k \notin Owned(s)'
      BY <1>0, <2>1, <2>4 DEF Owned
    <3>2. k \notin Owned(s)
      <4>1. ASSUME k \in Owned(s)
            PROVE  FALSE
        <5>1. server[s] # None
          BY <4>1 DEF Owned
        <5>2. held.uid = server[s].uid
          BY <2>1, <4>1 DEF LifecycleInv, OwnersSeen
        <5> QED BY <2>4, <5>1, <5>2
      <4> QED BY <4>1
    <3>3. Owned(s)' = Owned(s)
      BY <1>3, <3>1, <3>2
    <3>4. CASE k \in Present(s)
      <4>1. Present(s)' = Present(s)
        BY <1>3, <2>2, <3>4
      <4> QED BY <1>2, <3>3, <4>1
    <3>5. CASE k \notin Present(s)
      <4>1. Present(s)' \ Owned(s)' = (Present(s) \ Owned(s)) \cup {k}
        BY <1>3, <2>2, <3>1, <3>3, <3>5
      <4>2. k \notin Owned(s) \cup (Present(s) \ Owned(s))
        BY <3>2, <3>5
      <4> QED BY <1>2, <3>3, <4>1, <4>2 DEF L!Leave
    <3> QED BY <3>4, <3>5
  <2> QED BY <2>3, <2>4
<1> QED BY <1>0, <1>5, <1>6, <1>7, ChildStep

(* The operator implements the safety of ServerLifecycle: the finalizer    *)
(* before the first resource, deletions that stay, and owners that only a  *)
(* completed deletion takes away.                                          *)
THEOREM Implementation == NoServerIsNone => (Spec => ImplementsSafely)
<1> SUFFICES ASSUME NoServerIsNone
             PROVE  Spec => ImplementsSafely
  OBVIOUS
<1>1. Init => L!Init
  BY DEF Init, L!Init, Phase, Owned, Left, Present, NoChildren
<1>2. ASSUME LifecycleInv, [Next]_vars
      PROVE  [L!Next]_(L!vars)
  <2>1. ASSUME NEW s \in Servers
        PROVE  L!Step(s) \/ L!Stay(s)
    <3>1. TypeOK /\ ObjectStep(s)
      BY <1>2, ObjectSteps DEF LifecycleInv, FinalizerInv
    <3> QED BY <1>2, <3>1, ChildrenStep, ObjectSimulation, ChildSimulation
  <2> QED BY <2>1 DEF L!Next
<1>3. LifecycleInv /\ [Next]_vars => [L!Next]_(L!vars)
  BY <1>2
<1> QED BY LifecycleInvCorrect, <1>1, <1>3, PTL DEF Spec, ImplementsSafely, L!Safety
=============================================================================
