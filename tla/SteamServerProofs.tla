------------------------- MODULE SteamServerProofs -------------------------
(***************************************************************************)
(* Proofs about the operator, for any servers, definitions and specs, any  *)
(* lag of the caches and any bounds on edits and faults: type correctness, *)
(* then the inductive invariant about uids and finalizers, then what the   *)
(* writes of the operator and its pod templates never do.                  *)
(***************************************************************************)
EXTENDS SteamServerController, GameDefinitionProofs, ConfigSchemaProofs

-----------------------------------------------------------------------------
(* The stores are maps to objects of the right type, and stay so when one  *)
(* object is replaced.                                                     *)

LEMMA ServersExcept ==
  ASSUME NEW store, ServersOK(store), NEW s \in Servers,
         NEW o, o # None => IsServer(o)
  PROVE  ServersOK([store EXCEPT ![s] = o])
BY DEF ServersOK

LEMMA ChildrenExcept ==
  ASSUME NEW store, ChildrenOK(store), NEW s \in Servers, NEW k \in Kinds,
         NEW r, r # None => IsResource(r)
  PROVE  ChildrenOK([store EXCEPT ![s][k] = r])
<1> DEFINE new == [store EXCEPT ![s][k] = r]
<1>1. store = [x \in Servers |-> [j \in Kinds |-> store[x][j]]]
  BY DEF ChildrenOK
<1>2. \A x \in Servers, j \in Kinds :
        new[x][j] = IF x = s /\ j = k THEN r ELSE store[x][j]
  BY <1>1
<1>3. new = [x \in Servers |-> [j \in Kinds |-> new[x][j]]]
  BY <1>1
<1>4. \A x \in Servers, j \in Kinds : new[x][j] # None => IsResource(new[x][j])
  BY <1>2 DEF ChildrenOK
<1> HIDE DEF new
<1> QED BY <1>3, <1>4 DEF ChildrenOK, new

(* Whatever becomes of an update of a server, the store keeps its type. *)
LEMMA UpdateType ==
  ASSUME TypeOK, NEW s \in Servers, NEW old, NEW new, new # None => IsServer(new),
         Updated(s, old, new) \/ NotUpdated(s, old, new)
  PROVE  ServersOK(server') /\ faults' \in 0..MaxFaults
<1>1. ServersOK([server EXCEPT ![s] = new])
  BY ServersExcept DEF TypeOK
<1> QED BY <1>1, BoundAssumption DEF Updated, NotUpdated, ApiFault, TypeOK,
                                     DefTypeOK, BoundAssumption

LEMMA StatusType ==
  ASSUME NEW o, IsServer(o), NEW st, IsStatus(st)
  PROVE  IsServer([o EXCEPT !.status = st])
BY DEF IsServer

LEMMA FlagTypes ==
  ASSUME NEW o, IsServer(o), NEW b \in BOOLEAN
  PROVE  /\ IsServer([o EXCEPT !.deleting = b])
         /\ IsServer([o EXCEPT !.finalizer = b])
<1>1. o = [uid |-> o.uid, spec |-> o.spec, finalizer |-> o.finalizer,
           deleting |-> o.deleting, status |-> o.status]
  BY DEF IsServer
<1>2. ASSUME NEW c
      PROVE  /\ [o EXCEPT !.deleting = c]
                   = [uid |-> o.uid, spec |-> o.spec, finalizer |-> o.finalizer,
                      deleting |-> c, status |-> o.status]
             /\ [o EXCEPT !.finalizer = c]
                   = [uid |-> o.uid, spec |-> o.spec, finalizer |-> c,
                      deleting |-> o.deleting, status |-> o.status]
  BY <1>1
<1>3. /\ [o EXCEPT !.deleting = b]
           = [uid |-> o.uid, spec |-> o.spec, finalizer |-> o.finalizer,
              deleting |-> b, status |-> o.status]
      /\ [o EXCEPT !.finalizer = b]
           = [uid |-> o.uid, spec |-> o.spec, finalizer |-> b,
              deleting |-> o.deleting, status |-> o.status]
  BY <1>2
<1> QED BY <1>3 DEF IsServer

LEMMA ResourceTypes ==
  ASSUME NEW r, IsResource(r), NEW fixed, NEW body
  PROVE  /\ IsResource([r EXCEPT !.body = body])
         /\ IsResource([r EXCEPT !.fixed = fixed, !.body = body])
<1> DEFINE q == [r EXCEPT !.fixed = fixed]
<1>1. ASSUME NEW p, IsResource(p)
      PROVE  IsResource([p EXCEPT !.body = body])
  BY <1>1 DEF IsResource
<1>2. IsResource(q)
  BY DEF IsResource
<1> HIDE DEF q
<1>3. IsResource([q EXCEPT !.body = body])
  BY <1>1, <1>2
<1> QED BY <1>1, <1>3 DEF q

LEMMA EditsStep ==
  ASSUME TypeOK, UserActs
  PROVE  edits' \in 0..MaxEdits /\ edits' \in 1..MaxEdits
BY BoundAssumption DEF TypeOK, DefTypeOK, UserActs, BoundAssumption

-----------------------------------------------------------------------------
(* Type correctness, one lemma for each part of Next *)

LEMMA UserTypes ==
  ASSUME TypeOK, UserNext
  PROVE  TypeOK'
<1> USE DEF TypeOK
<1>1. ASSUME NEW s \in Servers, CreateServer(s)
      PROVE  TypeOK'
  <2>1. PICK spec \in Specs :
          server' = [server EXCEPT ![s] =
                       [uid |-> edits', spec |-> spec, finalizer |-> FALSE,
                        deleting |-> FALSE, status |-> NoStatus]]
    BY <1>1 DEF CreateServer
  <2>2. edits' \in 0..MaxEdits /\ edits' \in 1..MaxEdits
    BY <1>1, EditsStep DEF CreateServer
  <2>3. IsServer([uid |-> edits', spec |-> spec, finalizer |-> FALSE,
                  deleting |-> FALSE, status |-> NoStatus])
    BY <2>2 DEF IsServer, IsStatus, NoStatus, States
  <2>4. ServersOK(server')
    BY <1>1, <2>1, <2>3, ServersExcept
  <2> QED BY <1>1, <2>2, <2>4 DEF CreateServer, DefTypeOK, workVars
<1>2. ASSUME NEW s \in Servers, EditServer(s)
      PROVE  TypeOK'
  <2>1. PICK spec \in Specs : server' = [server EXCEPT ![s].spec = spec]
    BY <1>2 DEF EditServer
  <2>2. IsServer([server[s] EXCEPT !.spec = spec])
    BY <1>2 DEF EditServer, ServersOK, IsServer
  <2>3. server' = [server EXCEPT ![s] = [server[s] EXCEPT !.spec = spec]]
    BY <2>1
  <2>4. ServersOK(server')
    BY <2>2, <2>3, ServersExcept
  <2>5. edits' \in 0..MaxEdits
    BY <1>2, EditsStep DEF EditServer
  <2> QED BY <1>2, <2>4, <2>5 DEF EditServer, DefTypeOK, workVars
<1>3. ASSUME NEW s \in Servers, DeleteServer(s)
      PROVE  TypeOK'
  <2>1. IsServer([server[s] EXCEPT !.deleting = TRUE])
    BY <1>3, FlagTypes DEF DeleteServer, ServersOK
  <2>2. ServersOK(server')
    BY <1>3, <2>1, ServersExcept DEF DeleteServer
  <2>3. edits' \in 0..MaxEdits
    BY <1>3, EditsStep DEF DeleteServer
  <2> QED BY <1>3, <2>2, <2>3 DEF DeleteServer, DefTypeOK, workVars
<1>4. ASSUME NEW s \in Servers, NEW k \in Kinds, DeleteChild(s, k)
      PROVE  TypeOK'
  <2>1. ChildrenOK(child')
    BY <1>4, ChildrenExcept DEF DeleteChild
  <2>2. edits' \in 0..MaxEdits
    BY <1>4, EditsStep DEF DeleteChild
  <2> QED BY <1>4, <2>1, <2>2 DEF DeleteChild, Unseen, DefTypeOK, workVars
<1>5. ASSUME DefUserNext, UNCHANGED serverVars
      PROVE  TypeOK'
  <2>1. DefTypeOK'
    BY <1>5, DefTypeStep DEF DefNext
  <2> QED BY <1>5, <2>1 DEF serverVars, workVars
<1> QED BY <1>1, <1>2, <1>3, <1>4, <1>5 DEF UserNext

LEMMA DefinitionTypes ==
  ASSUME TypeOK, NEW g \in Games, DefinitionNext(g)
  PROVE  TypeOK'
<1> USE DEF TypeOK
<1>1. CASE SyncDefinition(g)
  <2>1. DefTypeOK'
    BY <1>1, DefTypeStep DEF SyncDefinition, DefNext, DefSystemNext
  <2>2. queue' \subseteq Servers
    BY <1>1 DEF SyncDefinition, FindSteamServersForGameDef
  <2> QED BY <1>1, <2>1, <2>2 DEF SyncDefinition, workVars
<1>2. CASE (ReconcileDef(g) \/ DefAnswerLost(g)) /\ UNCHANGED serverVars
  <2>1. DefTypeOK'
    BY <1>2, DefTypeStep DEF DefNext, DefSystemNext
  <2> QED BY <1>2, <2>1 DEF serverVars, workVars
<1> QED BY <1>1, <1>2 DEF DefinitionNext

LEMMA InformerTypes ==
  ASSUME TypeOK, NEW s \in Servers,
         \/ SyncServer(s)
         \/ \E k \in Kinds : SyncChild(s, k) \/ CollectGarbage(s, k)
  PROVE  TypeOK'
<1> USE DEF TypeOK
<1>1. CASE SyncServer(s)
  <2>1. ServersOK(serverCache')
    BY <1>1, ServersExcept DEF SyncServer, ServersOK
  <2> QED BY <1>1, <2>1 DEF SyncServer, defVars, DefTypeOK, workVars
<1>2. ASSUME NEW k \in Kinds, SyncChild(s, k)
      PROVE  TypeOK'
  <2>1. child[s][k] # None => IsResource(child[s][k])
    BY DEF ChildrenOK
  <2>2. ChildrenOK(childCache')
    BY <1>2, <2>1, ChildrenExcept DEF SyncChild
  <2> QED BY <1>2, <2>2 DEF SyncChild, defVars, DefTypeOK, workVars
<1>3. ASSUME NEW k \in Kinds, CollectGarbage(s, k)
      PROVE  TypeOK'
  <2>1. ChildrenOK(child')
    BY <1>3, ChildrenExcept DEF CollectGarbage
  <2> QED BY <1>3, <2>1 DEF CollectGarbage, Unseen, defVars, DefTypeOK, workVars
<1> QED BY <1>1, <1>2, <1>3

LEMMA StartTypes ==
  ASSUME TypeOK, NEW s \in Servers, Start(s)
  PROVE  TypeOK'
<1> USE DEF TypeOK
<1>0. serverCache[s] # None => IsServer(serverCache[s])
  BY DEF ServersOK
<1>1. CASE ReconcileGone(s)
  BY <1>1 DEF ReconcileGone, Dequeued, defVars, DefTypeOK, workVars
<1>2. CASE HandleDeletion(s)
  <2>1. ServersOK(server') /\ faults' \in 0..MaxFaults
    <3>1. CASE UNCHANGED <<server, faults>>
      BY <3>1 DEF DefTypeOK
    <3>2. CASE \/ Updated(s, serverCache[s], None)
               \/ NotUpdated(s, serverCache[s], None)
      BY <3>2, UpdateType
    <3> QED BY <1>2, <3>1, <3>2 DEF HandleDeletion
  <2>2. queue' \subseteq Servers /\ pc' = pc
    BY <1>2 DEF HandleDeletion, Dequeued, workVars
  <2> QED BY <1>2, <2>1, <2>2 DEF HandleDeletion, DefTypeOK, workVars
<1>3. CASE AddFinalizer(s)
  <2> DEFINE new == [serverCache[s] EXCEPT !.finalizer = TRUE]
  <2>1. IsServer(new)
    BY <1>0, <1>3, FlagTypes DEF AddFinalizer, Live
  <2>2. Updated(s, serverCache[s], new) \/ NotUpdated(s, serverCache[s], new)
    BY <1>3 DEF AddFinalizer
  <2>3. ServersOK(server') /\ faults' \in 0..MaxFaults
    BY <2>1, <2>2, UpdateType
  <2> QED BY <1>3, <2>3 DEF AddFinalizer, Dequeued, DefTypeOK, workVars
<1>4. CASE RejectServer(s)
  BY <1>0, <1>4 DEF RejectServer, Fetch, Live, Dequeued, defVars, DefTypeOK, Reasons,
                    Kinds
<1>5. CASE AcceptServer(s)
  <2>1. heldDef' \in Defs \cup {None}
    <3>1. serverCache[s].spec \in Specs
      BY <1>0, <1>5 DEF AcceptServer, Fetch, Live, IsServer
    <3>2. CASE serverCache[s].spec.game = None
      BY <1>5, <3>2 DEF AcceptServer, DefOf
    <3>3. CASE serverCache[s].spec.game # None
      <4>1. serverCache[s].spec.game \in Games
        BY <3>1, <3>3, SpecsAssumption DEF SpecsAssumption
      <4>2. defCache[serverCache[s].spec.game] \in Definitions
        BY <1>5, <3>3, <4>1 DEF AcceptServer, Acceptable, DefinitionReady, DefTypeOK
      <4> QED BY <1>5, <3>3, <4>2 DEF AcceptServer, DefOf, Definitions
    <3> QED BY <3>2, <3>3
  <2> QED BY <1>0, <1>5, <2>1 DEF AcceptServer, Fetch, Live, Dequeued, defVars,
                                  DefTypeOK, Kinds
<1> QED BY <1>1, <1>2, <1>3, <1>4, <1>5 DEF Start

(* The steps for the four child resources send resources of the right type *)
LEMMA SendTypes ==
  ASSUME TypeOK, pc \in Kinds, NEW new, IsResource(new), Send(new), OnlyChildren
  PROVE  TypeOK'
<1> USE DEF TypeOK
<1>1. ChildrenOK([child EXCEPT ![req][pc] = new])
  BY ChildrenExcept DEF Kinds
<1>2. ChildrenOK(child') /\ faults' \in 0..MaxFaults
  BY <1>1, BoundAssumption DEF Send, ApiFault, DefTypeOK, BoundAssumption
<1>3. pc # "idle" /\ pc # "fail"
  BY DEF Kinds
<1>4. CASE Proceed
  BY <1>2, <1>3, <1>4 DEF Proceed, NextStep, OnlyChildren, DefTypeOK, Kinds
<1>5. CASE FailStep
  BY <1>2, <1>3, <1>5 DEF FailStep, OnlyChildren, DefTypeOK, Reasons
<1> QED BY <1>4, <1>5 DEF Send

LEMMA SkipTypes ==
  ASSUME TypeOK, pc \in Kinds, Skip, OnlyChildren
  PROVE  TypeOK'
BY DEF TypeOK, Skip, Proceed, NextStep, OnlyChildren, DefTypeOK, Kinds

LEMMA ChildStepTypes ==
  ASSUME TypeOK, 
         \/ ReconcileConfigMap \/ ReconcilePVC \/ ReconcileStatefulSet
         \/ ReconcileService
  PROVE  TypeOK'
<1>1. pc \in Kinds /\ OnlyChildren
  BY DEF ReconcileConfigMap, ReconcilePVC, ReconcileStatefulSet, ReconcileService,
         Kinds
<1>2. req \in Servers /\ held.uid \in 1..MaxEdits
  BY <1>1 DEF TypeOK, IsServer, Kinds
<1>3. \A fixed, body :
        IsResource([owner |-> held.uid, fixed |-> fixed, body |-> body])
  BY <1>2 DEF IsResource
<1>4. ASSUME NEW k \in Kinds, Cached(k) # None
      PROVE  /\ IsResource(Cached(k))
             /\ \A body : IsResource([Cached(k) EXCEPT !.body = body])
             /\ \A fixed, body :
                  IsResource([Cached(k) EXCEPT !.fixed = fixed, !.body = body])
  <2>1. IsResource(Cached(k))
    BY <1>2, <1>4 DEF Cached, TypeOK, ChildrenOK
  <2> QED BY <2>1, ResourceTypes
<1>5. CASE ReconcileConfigMap
  <2>1. Skip \/ \E new : IsResource(new) /\ Send(new)
    BY <1>3, <1>5 DEF ReconcileConfigMap
  <2> QED BY <1>1, <2>1, SendTypes, SkipTypes
<1>6. CASE ReconcilePVC
  <2>1. Skip \/ \E new : IsResource(new) /\ Send(new)
    BY <1>3, <1>4, <1>6 DEF ReconcilePVC, Kinds
  <2> QED BY <1>1, <2>1, SendTypes, SkipTypes
<1>7. CASE ReconcileStatefulSet
  <2>1. \E new : IsResource(new) /\ Send(new)
    BY <1>3, <1>4, <1>7 DEF ReconcileStatefulSet, Kinds
  <2> QED BY <1>1, <2>1, SendTypes
<1>8. CASE ReconcileService
  <2>1. \E new : IsResource(new) /\ Send(new)
    BY <1>3, <1>4, <1>8 DEF ReconcileService, Kinds
  <2> QED BY <1>1, <2>1, SendTypes
<1> QED BY <1>5, <1>6, <1>7, <1>8

(* What updateStatus computes is a status, whatever it finds *)
LEMMA ObservedType ==
  ASSUME NEW old, IsStatus(old), NEW state \in States, NEW address, NEW ports
  PROVE  IsStatus(ObservedStatus(old, state, address, ports))
BY DEF IsStatus, ObservedStatus, StateMessage

LEMMA ErrorType ==
  ASSUME NEW old, IsStatus(old), NEW resource \in Reasons
  PROVE  IsStatus(ErrorStatus(old, resource))
<1>1. ASSUME NEW st, IsStatus(st), NEW c
      PROVE  /\ [st EXCEPT !.state = c]
                   = [state |-> c, message |-> st.message,
                      address |-> st.address, ports |-> st.ports]
             /\ [st EXCEPT !.message = c]
                   = [state |-> st.state, message |-> c,
                      address |-> st.address, ports |-> st.ports]
  <2>1. st = [state |-> st.state, message |-> st.message,
              address |-> st.address, ports |-> st.ports]
    BY <1>1 DEF IsStatus
  <2> QED BY <2>1
<1>2. ASSUME NEW st, IsStatus(st), NEW c \in States
      PROVE  IsStatus([st EXCEPT !.state = c])
  BY <1>1, <1>2 DEF IsStatus
<1>3. ASSUME NEW st, IsStatus(st)
      PROVE  IsStatus([st EXCEPT !.message = resource])
  BY <1>1, <1>3 DEF IsStatus
<1> DEFINE failed == [old EXCEPT !.state = "Error"]
<1>4. IsStatus(failed)
  BY <1>2 DEF States
<1> HIDE DEF failed
<1>5. IsStatus([failed EXCEPT !.message = resource])
  BY <1>3, <1>4
<1> QED BY <1>5 DEF ErrorStatus, failed

LEMMA DetermineStateType ==
  ASSUME NEW sts, NEW w \in Workloads
  PROVE  DetermineState(sts, w) \in States
<1>1. CASE sts = None \/ w.replicas = 0 \/ w.pod = None
  BY <1>1 DEF DetermineState, States
<1>2. CASE ~(sts = None \/ w.replicas = 0 \/ w.pod = None)
  <2>1. w.pod \in Pods
    BY <1>2, WorkloadsAssumption DEF WorkloadsAssumption
  <2>2. RunningPodState(w.pod) \in States
    BY <2>1 DEF RunningPodState, States, Pods
  <2> QED BY <1>2, <2>2 DEF DetermineState, States
<1> QED BY <1>1, <1>2

LEMMA StatusStepTypes ==
  ASSUME TypeOK, UpdateStatus \/ SetErrorStatus
  PROVE  TypeOK'
<1> USE DEF TypeOK
<1>1. pc # "idle" /\ pc \notin Kinds /\ OnlyStatus
  BY DEF UpdateStatus, SetErrorStatus, Kinds
<1>2. req \in Servers /\ IsServer(held) /\ IsStatus(held.status)
  BY <1>1 DEF IsServer
<1>3. ASSUME NEW retry, Finish(retry), ServersOK(server'), faults' \in 0..MaxFaults
      PROVE  TypeOK'
  BY <1>1, <1>2, <1>3 DEF Finish, OnlyStatus, DefTypeOK
<1>4. ASSUME NEW st, IsStatus(st),
             LET written == [held EXCEPT !.status = st]
             IN  Updated(req, held, written) \/ NotUpdated(req, held, written)
      PROVE  ServersOK(server') /\ faults' \in 0..MaxFaults
  <2>1. IsServer([held EXCEPT !.status = st])
    BY <1>2, <1>4, StatusType
  <2> QED BY <1>2, <1>4, <2>1, UpdateType
<1>5. CASE SetErrorStatus
  <2>1. IsStatus(ErrorStatus(held.status, reason))
    BY <1>2, <1>5, ErrorType DEF SetErrorStatus
  <2>2. ServersOK(server') /\ faults' \in 0..MaxFaults
    BY <1>4, <1>5, <2>1 DEF SetErrorStatus
  <2> QED BY <1>3, <1>5, <2>2 DEF SetErrorStatus
<1>6. CASE UpdateStatus
  <2>1. PICK w \in Workloads, n \in Networks :
          LET svc   == IF Cached("Service") = None THEN None
                                                   ELSE Cached("Service").body
              state == DetermineState(Cached("StatefulSet"), w)
              new   == ObservedStatus(held.status, state,
                                      DetermineAddress(svc, n),
                                      DeterminePorts(svc, n))
              written == [held EXCEPT !.status = new]
          IN  IF new = held.status
              THEN Finish(state # "Running") /\ UNCHANGED <<server, faults>>
              ELSE \/ Updated(req, held, written) /\ Finish(state # "Running")
                   \/ NotUpdated(req, held, written) /\ Finish(TRUE)
    BY <1>6 DEF UpdateStatus
  <2> DEFINE svc   == IF Cached("Service") = None THEN None
                                                  ELSE Cached("Service").body
             state == DetermineState(Cached("StatefulSet"), w)
             new   == ObservedStatus(held.status, state, DetermineAddress(svc, n),
                                     DeterminePorts(svc, n))
  <2>2. IsStatus(new)
    BY <1>2, ObservedType, DetermineStateType
  <2>3. \E retry : Finish(retry)
    BY <2>1
  <2> HIDE DEF new
  <2>4. ServersOK(server') /\ faults' \in 0..MaxFaults
    <3>1. CASE UNCHANGED <<server, faults>>
      BY <3>1 DEF DefTypeOK
    <3>2. CASE LET written == [held EXCEPT !.status = new]
               IN  Updated(req, held, written) \/ NotUpdated(req, held, written)
      BY <1>4, <2>2, <3>2
    <3> QED BY <2>1, <3>1, <3>2 DEF new
  <2> QED BY <1>3, <2>3, <2>4
<1> QED BY <1>5, <1>6

LEMMA CrashTypes ==
  ASSUME TypeOK, Crash
  PROVE  TypeOK'
<1>1. DefTypeOK'
  BY DefTypeStep DEF Crash, DefNext, TypeOK
<1> QED BY <1>1 DEF Crash, TypeOK

LEMMA TypeInit == Init => TypeOK
BY DefTypeInit DEF Init, TypeOK, ServersOK, ChildrenOK, NoChildren, Kinds

LEMMA TypeStep ==
  ASSUME TypeOK, [Next]_vars
  PROVE  TypeOK'
<1>1. CASE UNCHANGED vars
  BY <1>1 DEF vars, defVars, serverVars, workVars, TypeOK, DefTypeOK
<1> QED BY <1>1, UserTypes, DefinitionTypes, InformerTypes, StartTypes,
           ChildStepTypes, StatusStepTypes, CrashTypes
        DEF Next, ServerNext, Work

(* Type correctness of the operator. *)
THEOREM TypeCorrect == Spec => []TypeOK
BY TypeInit, TypeStep, PTL DEF Spec

-----------------------------------------------------------------------------
(* The GameDefinition controller as a part of the operator: its guarantees *)
(* survive the composition, in which the servers share its cache of        *)
(* definitions, its clock and its crashes.                                 *)

LEMMA DefinitionStep ==
  ASSUME TypeOK, [Next]_vars
  PROVE  DefOrOther
<1>0. edits \in Nat
  BY BoundAssumption DEF TypeOK, DefTypeOK, BoundAssumption
<1>1. ASSUME NEW s \in Servers, NEW k \in Kinds,
             CreateServer(s) \/ EditServer(s) \/ DeleteServer(s) \/ DeleteChild(s, k)
      PROVE  DefOrOther
  <2>1. UserActs /\ UNCHANGED <<def, defCache, defQueue>>
    BY <1>1 DEF CreateServer, EditServer, DeleteServer, DeleteChild
  <2> QED BY <1>0, <2>1, UserActsAdvances DEF DefOrOther
<1>2. CASE DefUserNext /\ UNCHANGED serverVars
  BY <1>2 DEF DefOrOther, DefNext
<1>3. ASSUME NEW g \in Games, DefinitionNext(g)
      PROVE  DefOrOther
  BY <1>3 DEF DefinitionNext, SyncDefinition, DefOrOther, DefNext, DefSystemNext
<1>4. ASSUME NEW s \in Servers, ServerNext(s)
      PROVE  UNCHANGED <<def, defCache, defQueue, edits>>
  BY <1>4 DEF ServerNext, SyncServer, SyncChild, CollectGarbage, Start, ReconcileGone,
              HandleDeletion, AddFinalizer, RejectServer, AcceptServer, Fetch, defVars
<1>5. ASSUME Work
      PROVE  UNCHANGED <<def, defCache, defQueue, edits>>
  <2>1. OnlyChildren \/ OnlyStatus
    BY <1>5, Zenon DEF Work, ReconcileConfigMap, ReconcilePVC, ReconcileStatefulSet,
                       ReconcileService, UpdateStatus, SetErrorStatus
  <2> QED BY <2>1 DEF OnlyChildren, OnlyStatus
<1>6. CASE Crash
  BY <1>6 DEF Crash, DefOrOther, DefNext
<1>7. CASE UNCHANGED vars
  BY <1>7 DEF vars, DefOrOther
<1> QED BY <1>0, <1>1, <1>2, <1>3, <1>4, <1>5, <1>6, <1>7
        DEF Next, UserNext, DefOrOther, Kinds

(* In the operator, too, ready rises only where the stored spec validates. *)
THEOREM OperatorReadyOnlyWhenValid == Spec => ReadyOnlyWhenValid
<1>1. TypeOK /\ [Next]_vars
        => [\A g \in Games : ReadyRises(g) => ValidDefinition(def'[g].spec)]_defVars
  BY DefinitionStep, ReadyStep DEF TypeOK
<1> QED BY <1>1, TypeCorrect, PTL DEF Spec, ReadyOnlyWhenValid

(* In the operator, too, a definition that nothing is queued or undelivered *)
(* for has the status its stored spec deserves: the status that admits or   *)
(* rejects the servers that refer to it.                                    *)
THEOREM OperatorDefinitionsSettle == Spec => []DefSettledAccurate
<1>1. DefSettledInv /\ TypeOK /\ TypeOK' /\ [Next]_vars => DefSettledInv'
  BY DefinitionStep, DefSettledStep DEF TypeOK
<1>2. Init => DefSettledInv
  BY DefSettledInit DEF Init
<1> QED BY <1>1, <1>2, TypeCorrect, DefSettledImplies, PTL DEF Spec

-----------------------------------------------------------------------------
(* What a step may do to one stored server: delete it, keep what identifies *)
(* it, or create it with a uid that was never used.                         *)

SameServer(s) ==
  /\ server[s] # None
  /\ server'[s].uid = server[s].uid
  /\ server[s].finalizer => server'[s].finalizer

FreshServer(s) == server'[s].uid = edits + 1 /\ edits' = edits + 1

SameUserPart(s) ==
  /\ server'[s].spec = server[s].spec
  /\ server'[s].deleting = server[s].deleting

(* An update from a copy changes at most the finalizer and the status. *)
LEMMA UpdateKeeps ==
  ASSUME TypeOK, NEW r \in Servers, NEW old, NEW new,
         \/ new = None
         \/ /\ new.uid = old.uid /\ new.spec = old.spec
            /\ new.deleting = old.deleting
            /\ old.finalizer => new.finalizer,
         old # None,
         Updated(r, old, new) \/ NotUpdated(r, old, new),
         NEW s \in Servers, server'[s] # None
  PROVE  SameServer(s) /\ SameUserPart(s)
<1>1. server' = server \/ (server[r] = old /\ server' = [server EXCEPT ![r] = new])
  BY DEF Updated, NotUpdated
<1>2. CASE server' = server
  BY <1>2 DEF SameServer, SameUserPart
<1>3. CASE server[r] = old /\ server' = [server EXCEPT ![r] = new]
  <2>1. server'[s] = IF s = r THEN new ELSE server[s]
    BY <1>3 DEF TypeOK, ServersOK
  <2> QED BY <1>3, <2>1 DEF SameServer, SameUserPart
<1> QED BY <1>1, <1>2, <1>3

LEMMA StatusKeeps ==
  ASSUME NEW o, IsServer(o), NEW st
  PROVE  LET new == [o EXCEPT !.status = st]
         IN  /\ new.uid = o.uid /\ new.spec = o.spec
             /\ new.deleting = o.deleting /\ new.finalizer = o.finalizer
BY DEF IsServer

LEMMA FlagKeeps ==
  ASSUME NEW o, IsServer(o), NEW b
  PROVE  LET new == [o EXCEPT !.finalizer = b]
         IN  /\ new.uid = o.uid /\ new.spec = o.spec
             /\ new.deleting = o.deleting /\ new.finalizer = b
BY DEF IsServer

(* The operator's own steps keep what a user wrote. *)
LEMMA OperatorKeeps ==
  ASSUME TypeOK, Next \/ UNCHANGED vars, ~UserNext,
         NEW s \in Servers, server'[s] # None
  PROVE  SameServer(s) /\ SameUserPart(s)
<1>1. CASE server' = server
  BY <1>1 DEF SameServer, SameUserPart
<1>2. ASSUME NEW r \in Servers, HandleDeletion(r)
      PROVE  SameServer(s) /\ SameUserPart(s)
  <2>1. CASE \/ Updated(r, serverCache[r], None)
             \/ NotUpdated(r, serverCache[r], None)
    BY <1>2, <2>1, UpdateKeeps DEF HandleDeletion
  <2> QED BY <1>1, <1>2, <2>1 DEF HandleDeletion
<1>3. ASSUME NEW r \in Servers, AddFinalizer(r)
      PROVE  SameServer(s) /\ SameUserPart(s)
  <2> DEFINE new == [serverCache[r] EXCEPT !.finalizer = TRUE]
  <2>1. serverCache[r] # None /\ IsServer(serverCache[r])
    BY <1>3 DEF AddFinalizer, Live, TypeOK, ServersOK
  <2>2. /\ new.uid = serverCache[r].uid /\ new.spec = serverCache[r].spec
        /\ new.deleting = serverCache[r].deleting /\ new.finalizer = TRUE
    BY <2>1, FlagKeeps
  <2>3. Updated(r, serverCache[r], new) \/ NotUpdated(r, serverCache[r], new)
    BY <1>3 DEF AddFinalizer
  <2> HIDE DEF new
  <2> QED BY <2>1, <2>2, <2>3, UpdateKeeps
<1>4. CASE UpdateStatus \/ SetErrorStatus
  <2>1. server' = server \/ \E st :
          LET written == [held EXCEPT !.status = st]
          IN  Updated(req, held, written) \/ NotUpdated(req, held, written)
    BY <1>4 DEF UpdateStatus, SetErrorStatus
  <2>2. req \in Servers /\ held # None /\ IsServer(held)
    BY <1>4 DEF UpdateStatus, SetErrorStatus, TypeOK
  <2>3. ASSUME NEW st,
               LET written == [held EXCEPT !.status = st]
               IN  Updated(req, held, written) \/ NotUpdated(req, held, written)
        PROVE  SameServer(s) /\ SameUserPart(s)
    <3> DEFINE written == [held EXCEPT !.status = st]
    <3>1. /\ written.uid = held.uid /\ written.spec = held.spec
          /\ written.deleting = held.deleting
          /\ written.finalizer = held.finalizer
      BY <2>2, StatusKeeps
    <3>2. Updated(req, held, written) \/ NotUpdated(req, held, written)
      BY <2>3
    <3> HIDE DEF written
    <3> QED BY <2>2, <3>1, <3>2, UpdateKeeps
  <2> QED BY <1>1, <2>1, <2>3
<1>5. CASE UNCHANGED vars
  BY <1>1, <1>5 DEF vars, serverVars
<1>6. ASSUME NEW g \in Games, DefinitionNext(g)
      PROVE  server' = server
  BY <1>6 DEF DefinitionNext, SyncDefinition, serverVars
<1>7. ASSUME NEW r \in Servers,
             \/ SyncServer(r) \/ ReconcileGone(r)
             \/ RejectServer(r) \/ AcceptServer(r)
             \/ \E k \in Kinds : SyncChild(r, k) \/ CollectGarbage(r, k)
      PROVE  server' = server
  BY <1>7 DEF SyncServer, ReconcileGone, RejectServer, AcceptServer, Fetch,
              SyncChild, CollectGarbage
<1>8. CASE \/ ReconcileConfigMap \/ ReconcilePVC \/ ReconcileStatefulSet
           \/ ReconcileService \/ Crash
  <2>1. server' = server
    BY <1>8 DEF ReconcileConfigMap, ReconcilePVC, ReconcileStatefulSet,
                ReconcileService, OnlyChildren, Crash
  <2> QED BY <1>1, <2>1
<1> QED BY <1>1, <1>2, <1>3, <1>4, <1>5, <1>6, <1>7, <1>8
        DEF Next, ServerNext, Start, Work

LEMMA UserWrites ==
  ASSUME TypeOK, UserNext
  PROVE  /\ edits' = edits + 1
         /\ \A s \in Servers :
              server'[s] # None => SameServer(s) \/ FreshServer(s)
         /\ UNCHANGED <<serverCache, childCache, workVars>>
<1> USE DEF SameServer, FreshServer, TypeOK, ServersOK
<1>1. ASSUME NEW s \in Servers, CreateServer(s)
      PROVE  \A t \in Servers :
               server'[t] # None => SameServer(t) \/ FreshServer(t)
  BY <1>1 DEF CreateServer, UserActs
<1>2. ASSUME NEW s \in Servers, EditServer(s)
      PROVE  \A t \in Servers :
               server'[t] # None => SameServer(t) \/ FreshServer(t)
  BY <1>2 DEF EditServer, IsServer
<1>3. ASSUME NEW s \in Servers, DeleteServer(s)
      PROVE  \A t \in Servers :
               server'[t] # None => SameServer(t) \/ FreshServer(t)
  BY <1>3 DEF DeleteServer, IsServer
<1>4. ASSUME NEW s \in Servers, NEW k \in Kinds, DeleteChild(s, k)
      PROVE  \A t \in Servers :
               server'[t] # None => SameServer(t) \/ FreshServer(t)
  BY <1>4 DEF DeleteChild
<1>5. CASE DefUserNext /\ UNCHANGED serverVars
  BY <1>5 DEF DefUserNext, CreateDef, EditDef, DeleteDef, UserActs, serverVars
<1> QED BY <1>1, <1>2, <1>3, <1>4, <1>5
        DEF UserNext, CreateServer, EditServer, DeleteServer, DeleteChild, UserActs

(* The writes of the operator never undo what a user did: the full-object  *)
(* Update that adds the finalizer and the status updates are made from a   *)
(* copy, and only onto the very object that was copied.                    *)
THEOREM UserActsSurviveCorrect == Spec => UserActsSurvive
<1>1. ASSUME TypeOK, [Next]_vars
      PROVE  \A s \in Servers : UserActSurvives(s)
  <2>1. CASE UserNext
    BY <1>1, <2>1, UserWrites DEF UserActSurvives, TypeOK, DefTypeOK
  <2>2. CASE ~UserNext
    BY <1>1, <2>2, OperatorKeeps DEF UserActSurvives, SameServer, SameUserPart
  <2> QED BY <2>1, <2>2
<1>2. TypeOK /\ [Next]_vars => [\A s \in Servers : UserActSurvives(s)]_vars
  BY <1>1
<1> QED BY <1>2, TypeCorrect, PTL DEF Spec, UserActsSurvive

-----------------------------------------------------------------------------
(* Finalizers.  First, what a step does to uids, copies and owners.        *)

LEMMA ServersStep ==
  ASSUME TypeOK, [Next]_vars
  PROVE  /\ edits <= edits'
         /\ \A s \in Servers :
              server'[s] # None => SameServer(s) \/ FreshServer(s)
<1>1. CASE UserNext
  BY <1>1, UserWrites DEF TypeOK, DefTypeOK
<1>2. CASE ~UserNext
  <2>1. edits' = edits
    BY <1>2 DEF Next, vars, defVars, DefinitionNext, SyncDefinition, SyncDef,
                ReconcileDef, ReconcileDefGone, ReconcileInvalidDef,
                ReconcileValidDef, DefAnswerLost, ServerNext, SyncServer, SyncChild,
                CollectGarbage, Start, ReconcileGone, HandleDeletion, AddFinalizer,
                RejectServer, AcceptServer, Fetch, Work, ReconcileConfigMap,
                ReconcilePVC, ReconcileStatefulSet, ReconcileService, OnlyChildren,
                UpdateStatus, SetErrorStatus, OnlyStatus, Crash, DefCrash
  <2> QED BY <1>2, <2>1, OperatorKeeps DEF TypeOK, DefTypeOK
<1> QED BY <1>1, <1>2

LEMMA CacheStep ==
  ASSUME TypeOK, [Next]_vars, NEW s \in Servers
  PROVE  \/ serverCache'[s] = serverCache[s]
         \/ serverCache'[s] = server[s] /\ server' = server
<1>1. CASE UserNext
  BY <1>1, UserWrites
<1>2. ASSUME NEW g \in Games, DefinitionNext(g)
      PROVE  serverCache' = serverCache
  BY <1>2 DEF DefinitionNext, SyncDefinition, serverVars
<1>3. ASSUME NEW r \in Servers, SyncServer(r)
      PROVE  \/ serverCache'[s] = serverCache[s]
             \/ serverCache'[s] = server[s] /\ server' = server
  BY <1>3 DEF SyncServer, TypeOK, ServersOK
<1>4. ASSUME NEW r \in Servers,
             Start(r) \/ \E k \in Kinds : SyncChild(r, k) \/ CollectGarbage(r, k)
      PROVE  serverCache' = serverCache
  BY <1>4 DEF Start, ReconcileGone, HandleDeletion, AddFinalizer, RejectServer,
              AcceptServer, Fetch, SyncChild, CollectGarbage
<1>5. CASE Work
  BY <1>5 DEF Work, ReconcileConfigMap, ReconcilePVC, ReconcileStatefulSet,
              ReconcileService, OnlyChildren, UpdateStatus, SetErrorStatus, OnlyStatus
<1>6. CASE Crash
  BY <1>6 DEF Crash
<1>7. CASE UNCHANGED vars
  BY <1>7 DEF vars, serverVars
<1> QED BY <1>1, <1>2, <1>3, <1>4, <1>5, <1>6, <1>7 DEF Next, ServerNext

LEMMA HeldStep ==
  ASSUME TypeOK, [Next]_vars
  PROVE  \/ held' = held /\ req' = req
         \/ held' = None
         \/ \E s \in Servers :
              /\ req' = s /\ held' = serverCache[s] /\ held' # None
              /\ held'.finalizer
              /\ server' = server
<1>1. CASE UserNext
  BY <1>1, UserWrites DEF workVars
<1>2. ASSUME NEW g \in Games, DefinitionNext(g)
      PROVE  held' = held /\ req' = req
  BY <1>2 DEF DefinitionNext, SyncDefinition, serverVars, workVars
<1>3. ASSUME NEW r \in Servers,
             \/ SyncServer(r) \/ ReconcileGone(r) \/ HandleDeletion(r)
             \/ AddFinalizer(r)
             \/ \E k \in Kinds : SyncChild(r, k) \/ CollectGarbage(r, k)
      PROVE  held' = held /\ req' = req
  BY <1>3 DEF SyncServer, ReconcileGone, HandleDeletion, AddFinalizer, SyncChild,
              CollectGarbage, workVars
<1>4. ASSUME NEW r \in Servers, RejectServer(r) \/ AcceptServer(r)
      PROVE  /\ req' = r /\ held' = serverCache[r] /\ held' # None
             /\ held'.finalizer
             /\ server' = server
  BY <1>4 DEF RejectServer, AcceptServer, Fetch, Live
<1>5. CASE \/ ReconcileConfigMap \/ ReconcilePVC \/ ReconcileStatefulSet
           \/ ReconcileService
  BY <1>5 DEF ReconcileConfigMap, ReconcilePVC, ReconcileStatefulSet,
              ReconcileService, Send, Skip, Proceed, FailStep
<1>6. CASE UpdateStatus \/ SetErrorStatus
  BY <1>6 DEF UpdateStatus, SetErrorStatus, Finish
<1>7. CASE Crash
  BY <1>7 DEF Crash
<1>8. CASE UNCHANGED vars
  BY <1>8 DEF vars, serverVars, workVars
<1> QED BY <1>1, <1>2, <1>3, <1>4, <1>5, <1>6, <1>7, <1>8
        DEF Next, ServerNext, Start, Work

(* The owner of a stored resource is the one it had, or the server held by *)
(* the worker.                                                             *)
SameOwner(s, k) == child[s][k] # None /\ child'[s][k].owner = child[s][k].owner
HeldOwner(s, k) == /\ s = req /\ held # None
                   /\ child'[s][k].owner = held.uid
                   /\ server' = server /\ held' = held

LEMMA SendOwner ==
  ASSUME TypeOK, pc \in Kinds, OnlyChildren, NEW new, Send(new),
         new.owner = held.uid \/ (Cached(pc) # None /\ new.owner = Cached(pc).owner),
         NEW s \in Servers, NEW k \in Kinds, child'[s][k] # None
  PROVE  SameOwner(s, k) \/ HeldOwner(s, k)
<1>1. req \in Servers /\ held # None /\ server' = server /\ held' = held
  BY DEF TypeOK, Kinds, OnlyChildren, Send, Proceed, FailStep
<1>2. CASE child' = child
  BY <1>2 DEF SameOwner
<1>3. CASE child[req][pc] = childCache[req][pc]
           /\ child' = [child EXCEPT ![req][pc] = new]
  <2>1. child'[s][k] = IF s = req /\ k = pc THEN new ELSE child[s][k]
    BY <1>3 DEF TypeOK, ChildrenOK
  <2> QED BY <1>1, <1>3, <2>1 DEF SameOwner, HeldOwner, Cached
<1> QED BY <1>2, <1>3 DEF Send

LEMMA ChildStep ==
  ASSUME TypeOK, [Next]_vars, NEW s \in Servers, NEW k \in Kinds,
         child'[s][k] # None
  PROVE  SameOwner(s, k) \/ HeldOwner(s, k)
<1>0. CASE child' = child
  BY <1>0 DEF SameOwner
<1>1. CASE UserNext
  <2>1. ASSUME NEW r \in Servers, NEW j \in Kinds, DeleteChild(r, j)
        PROVE  SameOwner(s, k)
    BY <2>1 DEF DeleteChild, SameOwner, TypeOK, ChildrenOK
  <2> QED BY <1>0, <1>1, <2>1
          DEF UserNext, CreateServer, EditServer, DeleteServer, serverVars
<1>2. ASSUME NEW g \in Games, DefinitionNext(g)
      PROVE  child' = child
  BY <1>2 DEF DefinitionNext, SyncDefinition, serverVars
<1>3. ASSUME NEW r \in Servers,
             Start(r) \/ SyncServer(r) \/ \E j \in Kinds : SyncChild(r, j)
      PROVE  child' = child
  BY <1>3 DEF Start, ReconcileGone, HandleDeletion, AddFinalizer, RejectServer,
              AcceptServer, Fetch, SyncServer, SyncChild
<1>4. ASSUME NEW r \in Servers, NEW j \in Kinds, CollectGarbage(r, j)
      PROVE  SameOwner(s, k)
  BY <1>4 DEF CollectGarbage, SameOwner, TypeOK, ChildrenOK
<1>5. CASE \/ ReconcileConfigMap \/ ReconcilePVC \/ ReconcileStatefulSet
           \/ ReconcileService
  <2>1. pc \in Kinds /\ OnlyChildren /\ req \in Servers
    BY <1>5 DEF ReconcileConfigMap, ReconcilePVC, ReconcileStatefulSet,
                ReconcileService, TypeOK, Kinds
  <2>2. ASSUME NEW j \in Kinds, Cached(j) # None, NEW fixed, NEW body
        PROVE  /\ [Cached(j) EXCEPT !.body = body].owner = Cached(j).owner
               /\ [Cached(j) EXCEPT !.fixed = fixed, !.body = body].owner
                    = Cached(j).owner
    <3>1. IsResource(Cached(j))
      BY <2>1, <2>2 DEF Cached, TypeOK, ChildrenOK
    <3> QED BY <3>1 DEF IsResource
  <2>3. ASSUME NEW new, Send(new),
               \/ new.owner = held.uid
               \/ Cached(pc) # None /\ new.owner = Cached(pc).owner
        PROVE  SameOwner(s, k) \/ HeldOwner(s, k)
    BY <2>1, <2>3, SendOwner
  <2>4. CASE ReconcileConfigMap
    <3> DEFINE new == [owner |-> held.uid, fixed |-> None,
                       body |-> ConfigMapBody(held.spec)]
    <3>1. child' = child \/ Send(new)
      BY <2>4 DEF ReconcileConfigMap, Skip
    <3>2. new.owner = held.uid
      OBVIOUS
    <3> HIDE DEF new
    <3> QED BY <1>0, <2>3, <3>1, <3>2
  <2>5. CASE ReconcilePVC
    <3> DEFINE labels  == ClaimLabels(held.spec)
               created == [owner |-> held.uid, body |-> labels,
                           fixed |-> StorageSize(held.spec, heldDef)]
               updated == [Cached("PVC") EXCEPT !.body = labels]
    <3>1. \/ child' = child
          \/ Send(created)
          \/ Cached("PVC") # None /\ pc = "PVC" /\ Send(updated)
      BY <2>5 DEF ReconcilePVC, Skip
    <3>2. created.owner = held.uid
      OBVIOUS
    <3>3. Cached("PVC") # None => updated.owner = Cached("PVC").owner
      BY <2>2 DEF Kinds
    <3> HIDE DEF created, updated
    <3> QED BY <1>0, <2>3, <3>1, <3>2, <3>3
  <2>6. CASE ReconcileStatefulSet
    <3> DEFINE old   == Cached("StatefulSet")
               fixed == StatefulSetLabels(held.spec, heldDef)
    <3>1. PICK template :
            Send(IF old = None
                 THEN [owner |-> held.uid, fixed |-> fixed, body |-> template]
                 ELSE [old EXCEPT !.fixed = fixed, !.body = template])
      BY <2>6 DEF ReconcileStatefulSet
    <3> DEFINE created == [owner |-> held.uid, fixed |-> fixed, body |-> template]
               updated == [old EXCEPT !.fixed = fixed, !.body = template]
    <3>2. Send(created) \/ (old # None /\ Send(updated))
      BY <3>1
    <3>3. created.owner = held.uid
      OBVIOUS
    <3>4. old # None => updated.owner = old.owner
      BY <2>2 DEF Kinds
    <3>5. pc = "StatefulSet"
      BY <2>6 DEF ReconcileStatefulSet
    <3> HIDE DEF created, updated
    <3> QED BY <2>3, <3>2, <3>3, <3>4, <3>5
  <2>7. CASE ReconcileService
    <3> DEFINE old     == Cached("Service")
               body    == ServiceBody(held.spec, heldDef)
               created == [owner |-> held.uid, fixed |-> None, body |-> body]
               updated == [old EXCEPT !.body = body]
    <3>1. pc = "Service" /\ (Send(created) \/ (old # None /\ Send(updated)))
      BY <2>7 DEF ReconcileService
    <3>2. created.owner = held.uid
      OBVIOUS
    <3>3. old # None => updated.owner = old.owner
      BY <2>2 DEF Kinds
    <3> HIDE DEF created, updated
    <3> QED BY <2>3, <3>1, <3>2, <3>3
  <2> QED BY <1>5, <2>4, <2>5, <2>6, <2>7
<1>6. CASE UpdateStatus \/ SetErrorStatus \/ Crash \/ UNCHANGED vars
  BY <1>0, <1>6 DEF UpdateStatus, SetErrorStatus, OnlyStatus, Crash, vars, serverVars
<1> QED BY <1>0, <1>1, <1>2, <1>3, <1>4, <1>5, <1>6 DEF Next, ServerNext, Work

LEMMA FinalizerInit == Init => FinalizerInv
BY TypeInit DEF Init, FinalizerInv, UidsUsed, CacheFinalizer, HeldFinalizer,
                FinalizerGuards, NoChildren

LEMMA FinalizerStep ==
  ASSUME FinalizerInv, [Next]_vars
  PROVE  FinalizerInv'
<1>1. TypeOK /\ TypeOK'
  BY TypeStep DEF FinalizerInv
<1>2. /\ edits \in Int /\ edits' \in Int /\ edits <= edits'
      /\ \A s \in Servers :
           server'[s] # None => SameServer(s) \/ FreshServer(s)
  BY <1>1, ServersStep DEF TypeOK, DefTypeOK
<1>3. \A s \in Servers :
        /\ server[s] # None => server[s].uid \in Int
        /\ server'[s] # None => server'[s].uid \in Int
        /\ serverCache[s] # None => serverCache[s].uid \in Int
        /\ \A k \in Kinds : child[s][k] # None => child[s][k].owner \in Int
  <2>1. \A o : IsServer(o) => o.uid \in Int
    BY DEF IsServer
  <2>2. \A r : IsResource(r) => r.owner \in Int
    BY DEF IsResource
  <2>3. \A s \in Servers :
          /\ server[s] # None => IsServer(server[s])
          /\ server'[s] # None => IsServer(server'[s])
          /\ serverCache[s] # None => IsServer(serverCache[s])
    BY <1>1 DEF TypeOK, ServersOK
  <2>4. \A s \in Servers, k \in Kinds :
          child[s][k] # None => IsResource(child[s][k])
    BY <1>1 DEF TypeOK, ChildrenOK
  <2> QED BY <2>1, <2>2, <2>3, <2>4
<1>4. held # None => held.uid \in Int /\ req \in Servers
  BY <1>1 DEF TypeOK, IsServer
<1> USE DEF SameServer, FreshServer
<1>5. UidsUsed'
  <2>1. ASSUME NEW s \in Servers
        PROVE  /\ server'[s] # None => server'[s].uid <= edits'
               /\ serverCache'[s] # None => serverCache'[s].uid <= edits'
    BY <1>1, <1>2, <1>3, CacheStep DEF FinalizerInv, UidsUsed
  <2>2. ASSUME NEW s \in Servers, NEW k \in Kinds, child'[s][k] # None
        PROVE  child'[s][k].owner <= edits'
    BY <1>1, <1>2, <1>3, <1>4, <2>2, ChildStep
       DEF FinalizerInv, UidsUsed, HeldFinalizer, SameOwner, HeldOwner
  <2> QED BY <2>1, <2>2 DEF UidsUsed
<1>6. CacheFinalizer'
  <2>1. ASSUME NEW s \in Servers, server'[s] # None, serverCache'[s] # None,
               server'[s].uid = serverCache'[s].uid, serverCache'[s].finalizer
        PROVE  server'[s].finalizer
    <3>1. CASE serverCache'[s] = serverCache[s]
      BY <1>2, <1>3, <2>1, <3>1 DEF FinalizerInv, UidsUsed, CacheFinalizer
    <3>2. CASE serverCache'[s] = server[s] /\ server' = server
      BY <2>1, <3>2
    <3> QED BY <1>1, <3>1, <3>2, CacheStep
  <2> QED BY <2>1 DEF CacheFinalizer
<1>7. HeldFinalizer'
  <2>1. CASE held' = held /\ req' = req
    <3>1. ASSUME held # None
          PROVE  /\ held.uid <= edits' /\ held.finalizer
                 /\ server'[req] # None /\ server'[req].uid = held.uid
                      => server'[req].finalizer
      BY <1>2, <1>3, <1>4, <3>1 DEF FinalizerInv, HeldFinalizer
    <3> QED BY <2>1, <3>1 DEF HeldFinalizer
  <2>2. CASE held' = None
    BY <2>2 DEF HeldFinalizer
  <2>3. ASSUME NEW s \in Servers, req' = s, held' = serverCache[s], held' # None,
               held'.finalizer, server' = server
        PROVE  HeldFinalizer'
    BY <1>2, <1>3, <2>3 DEF FinalizerInv, UidsUsed, CacheFinalizer, HeldFinalizer
  <2> QED BY <1>1, <2>1, <2>2, <2>3, HeldStep
<1>8. FinalizerGuards'
  <2>1. ASSUME NEW s \in Servers, NEW k \in Kinds,
               server'[s] # None, child'[s][k] # None,
               child'[s][k].owner = server'[s].uid
        PROVE  server'[s].finalizer
    <3>1. CASE SameOwner(s, k)
      <4>1. child[s][k] # None /\ child[s][k].owner = server'[s].uid
        BY <2>1, <3>1 DEF SameOwner
      <4>2. child[s][k].owner <= edits /\ child[s][k].owner \in Int
        BY <1>3, <4>1 DEF FinalizerInv, UidsUsed
      <4>3. SameServer(s)
        BY <1>2, <2>1, <4>1, <4>2
      <4> QED BY <4>1, <4>3 DEF FinalizerInv, FinalizerGuards
    <3>2. CASE HeldOwner(s, k)
      BY <1>4, <2>1, <3>2 DEF HeldOwner, FinalizerInv, HeldFinalizer
    <3> QED BY <1>1, <2>1, <3>1, <3>2, ChildStep
  <2> QED BY <2>1 DEF FinalizerGuards
<1> QED BY <1>1, <1>5, <1>6, <1>7, <1>8 DEF FinalizerInv

(* Uids are not reused, and no copy shows a finalizer the server lacks. *)
THEOREM FinalizerInvCorrect == Spec => []FinalizerInv
BY FinalizerInit, FinalizerStep, PTL DEF Spec

(* A server that owns a resource carries the finalizer, however far the    *)
(* caches lag behind and whatever failed: handleDeletion always runs.      *)
THEOREM FinalizerGuardsCorrect == Spec => []FinalizerGuards
<1>1. FinalizerInv => FinalizerGuards
  BY DEF FinalizerInv
<1> QED BY <1>1, FinalizerInvCorrect, PTL

-----------------------------------------------------------------------------
(* Pod templates are built from a validated pair of spec and definition    *)

ValidatedPair(spec, d) ==
  /\ spec \in Specs
  /\ d \in Defs \cup {None}
  /\ spec.game = None <=> d = None
  /\ ConfigAccepted(spec, d)

(* While the worker goes through the child resources, the pair it holds is *)
(* one it has validated.                                                   *)
PairValidated == pc \in Kinds => ValidatedPair(held.spec, heldDef)

TemplatesInv == TypeOK /\ PairValidated /\ TemplatesAreValidated

LEMMA AcceptedPair ==
  ASSUME TypeOK, NEW s \in Servers, AcceptServer(s)
  PROVE  ValidatedPair(held'.spec, heldDef')
<1> DEFINE spec == serverCache[s].spec
           d    == DefOf(spec, defCache)
<1>1. held'.spec = spec /\ heldDef' = d /\ Acceptable(spec, defCache)
  BY DEF AcceptServer, Fetch
<1>2. spec \in Specs
  BY DEF AcceptServer, Fetch, Live, TypeOK, ServersOK, IsServer
<1>3. CASE spec.game = None
  BY <1>1, <1>2, <1>3 DEF ValidatedPair, DefOf, Acceptable
<1>4. CASE spec.game # None
  <2>1. defCache[spec.game] \in Definitions
    BY <1>1, <1>2, <1>4, SpecsAssumption
       DEF Acceptable, DefinitionReady, SpecsAssumption, TypeOK, DefTypeOK
  <2>2. d \in Defs
    BY <1>4, <2>1 DEF DefOf, Definitions
  <2> HIDE DEF d
  <2>3. ConfigAccepted(spec, d)
    BY <1>1 DEF Acceptable, d
  <2> QED BY <1>1, <1>2, <1>4, <2>2, <2>3, NoneAssumption
          DEF ValidatedPair, NoneAssumption
<1> QED BY <1>3, <1>4

LEMMA PairStep ==
  ASSUME TypeOK, PairValidated, [Next]_vars
  PROVE  PairValidated'
<1>1. CASE UNCHANGED workVars
  BY <1>1 DEF workVars, PairValidated
<1>2. CASE pc' \notin Kinds
  BY <1>2 DEF PairValidated
<1>3. CASE UserNext
  BY <1>1, <1>3, UserWrites
<1>4. ASSUME NEW g \in Games, DefinitionNext(g)
      PROVE  UNCHANGED workVars
  BY <1>4 DEF DefinitionNext, SyncDefinition, serverVars
<1>5. ASSUME NEW s \in Servers,
             \/ SyncServer(s) \/ ReconcileGone(s) \/ HandleDeletion(s)
             \/ AddFinalizer(s)
             \/ \E k \in Kinds : SyncChild(s, k) \/ CollectGarbage(s, k)
      PROVE  UNCHANGED workVars
  BY <1>5 DEF SyncServer, ReconcileGone, HandleDeletion, AddFinalizer, SyncChild,
              CollectGarbage
<1>6. ASSUME NEW s \in Servers, RejectServer(s)
      PROVE  pc' \notin Kinds
  BY <1>6 DEF RejectServer, Kinds
<1>7. ASSUME NEW s \in Servers, AcceptServer(s)
      PROVE  PairValidated'
  BY <1>7, AcceptedPair DEF PairValidated
<1>8. CASE \/ ReconcileConfigMap \/ ReconcilePVC \/ ReconcileStatefulSet
           \/ ReconcileService
  <2>1. pc \in Kinds /\ held' = held /\ heldDef' = heldDef
    BY <1>8 DEF ReconcileConfigMap, ReconcilePVC, ReconcileStatefulSet,
                ReconcileService, Send, Skip, Proceed, FailStep, Kinds
  <2> QED BY <2>1 DEF PairValidated
<1>9. CASE UpdateStatus \/ SetErrorStatus \/ Crash
  <2>1. pc' = "idle"
    BY <1>9 DEF UpdateStatus, SetErrorStatus, Finish, Crash
  <2> QED BY <1>2, <2>1 DEF Kinds
<1>10. CASE UNCHANGED vars
  BY <1>1, <1>10 DEF vars, serverVars
<1> QED BY <1>1, <1>2, <1>3, <1>4, <1>5, <1>6, <1>7, <1>8, <1>9, <1>10
        DEF Next, ServerNext, Start, Work

(* A step leaves a stored pod template as it is or, at the StatefulSet     *)
(* step, replaces it with one of the pair that is held.                    *)
SameTemplate(s) ==
  /\ child[s]["StatefulSet"] # None
  /\ child'[s]["StatefulSet"].body = child[s]["StatefulSet"].body

BuiltTemplate(s) ==
  /\ pc = "StatefulSet"
  /\ child'[s]["StatefulSet"].body \in PodTemplates(held.spec, heldDef)

LEMMA TemplateStep ==
  ASSUME TypeOK, [Next]_vars, NEW s \in Servers, child'[s]["StatefulSet"] # None
  PROVE  SameTemplate(s) \/ BuiltTemplate(s)
<1>0. CASE child' = child
  BY <1>0 DEF SameTemplate
<1>1. CASE UserNext
  <2>1. ASSUME NEW r \in Servers, NEW j \in Kinds, DeleteChild(r, j)
        PROVE  SameTemplate(s)
    BY <2>1 DEF DeleteChild, SameTemplate, TypeOK, ChildrenOK, Kinds
  <2> QED BY <1>0, <1>1, <2>1
          DEF UserNext, CreateServer, EditServer, DeleteServer, serverVars
<1>2. ASSUME NEW g \in Games, DefinitionNext(g)
      PROVE  child' = child
  BY <1>2 DEF DefinitionNext, SyncDefinition, serverVars
<1>3. ASSUME NEW r \in Servers,
             Start(r) \/ SyncServer(r) \/ \E j \in Kinds : SyncChild(r, j)
      PROVE  child' = child
  BY <1>3 DEF Start, ReconcileGone, HandleDeletion, AddFinalizer, RejectServer,
              AcceptServer, Fetch, SyncServer, SyncChild
<1>4. ASSUME NEW r \in Servers, NEW j \in Kinds, CollectGarbage(r, j)
      PROVE  SameTemplate(s)
  BY <1>4 DEF CollectGarbage, SameTemplate, TypeOK, ChildrenOK, Kinds
<1>5. CASE ReconcileConfigMap \/ ReconcilePVC \/ ReconcileService
  <2>1. pc \in Kinds \ {"StatefulSet"} /\ (Skip \/ \E new : Send(new))
    BY <1>5 DEF ReconcileConfigMap, ReconcilePVC, ReconcileService, Kinds
  <2>2. child' = child \/ \E new : child' = [child EXCEPT ![req][pc] = new]
    BY <2>1 DEF Skip, Send
  <2>3. child'[s]["StatefulSet"] = child[s]["StatefulSet"]
    <3>1. ASSUME NEW new, child' = [child EXCEPT ![req][pc] = new]
          PROVE  child'[s]["StatefulSet"] = child[s]["StatefulSet"]
      <4>1. /\ child = [r \in Servers |-> [k \in Kinds |-> child[r][k]]]
            /\ "StatefulSet" \in Kinds /\ pc # "StatefulSet"
        BY <2>1 DEF TypeOK, ChildrenOK, Kinds
      <4> QED BY <3>1, <4>1
    <3> QED BY <2>2, <3>1
  <2> QED BY <2>3 DEF SameTemplate
<1>6. CASE ReconcileStatefulSet
  <2> DEFINE old   == Cached("StatefulSet")
             fixed == StatefulSetLabels(held.spec, heldDef)
  <2>1. PICK template \in PodTemplates(held.spec, heldDef) :
          Send(IF old = None
               THEN [owner |-> held.uid, fixed |-> fixed, body |-> template]
               ELSE [old EXCEPT !.fixed = fixed, !.body = template])
    BY <1>6 DEF ReconcileStatefulSet
  <2> DEFINE created == [owner |-> held.uid, fixed |-> fixed, body |-> template]
             updated == [old EXCEPT !.fixed = fixed, !.body = template]
  <2>2. pc = "StatefulSet" /\ req \in Servers
    BY <1>6 DEF ReconcileStatefulSet, TypeOK, Kinds
  <2>3. created.body = template
    OBVIOUS
  <2>4. old # None => updated.body = template
    BY <2>2 DEF Cached, TypeOK, ChildrenOK, IsResource, Kinds
  <2>5. PICK new : Send(new) /\ new.body = template
    <3>1. Send(created) \/ (old # None /\ Send(updated))
      BY <2>1
    <3> HIDE DEF created, updated
    <3> QED BY <2>3, <2>4, <3>1
  <2>6. child' = child \/ child' = [child EXCEPT ![req]["StatefulSet"] = new]
    BY <2>2, <2>5 DEF Send
  <2>7. \/ child' = child
        \/ child'[s]["StatefulSet"] = child[s]["StatefulSet"]
        \/ child'[s]["StatefulSet"] = new
    BY <2>2, <2>6 DEF TypeOK, ChildrenOK, Kinds
  <2> QED BY <1>0, <2>2, <2>5, <2>7 DEF SameTemplate, BuiltTemplate
<1>7. CASE UpdateStatus \/ SetErrorStatus \/ Crash \/ UNCHANGED vars
  BY <1>0, <1>7 DEF UpdateStatus, SetErrorStatus, OnlyStatus, Crash, vars, serverVars
<1> QED BY <1>0, <1>1, <1>2, <1>3, <1>4, <1>5, <1>6, <1>7 DEF Next, ServerNext, Work

(* Every stored pod template comes from one spec and one definition that   *)
(* were validated together, whatever was edited while they were in use.    *)
THEOREM TemplatesAreValidatedCorrect == Spec => []TemplatesAreValidated
<1>1. Init => TemplatesInv
  BY TypeInit DEF Init, TemplatesInv, PairValidated, TemplatesAreValidated, Kinds,
                  NoChildren
<1>2. ASSUME TemplatesInv, [Next]_vars
      PROVE  TemplatesInv'
  <2>1. TypeOK /\ TypeOK'
    BY <1>2, TypeStep DEF TemplatesInv
  <2>2. PairValidated'
    BY <1>2, PairStep DEF TemplatesInv
  <2>3. ASSUME NEW s \in Servers, child'[s]["StatefulSet"] # None
        PROVE  \E spec \in Specs, d \in Defs \cup {None} :
                 /\ spec.game = None <=> d = None
                 /\ ConfigAccepted(spec, d)
                 /\ child'[s]["StatefulSet"].body \in PodTemplates(spec, d)
    <3>1. CASE SameTemplate(s)
      BY <1>2, <3>1 DEF SameTemplate, TemplatesInv, TemplatesAreValidated
    <3>2. CASE BuiltTemplate(s)
      BY <1>2, <3>2 DEF BuiltTemplate, TemplatesInv, PairValidated, ValidatedPair, Kinds
    <3> QED BY <1>2, <2>1, <2>3, <3>1, <3>2, TemplateStep
  <2>4. TemplatesAreValidated'
    BY <2>3 DEF TemplatesAreValidated
  <2> QED BY <2>1, <2>2, <2>4 DEF TemplatesInv
<1>3. TemplatesInv => TemplatesAreValidated
  BY DEF TemplatesInv
<1> QED BY <1>1, <1>2, <1>3, PTL DEF Spec

-----------------------------------------------------------------------------
(* Rollouts *)

(* The templates of a spec and a definition differ in the order of the     *)
(* variables alone.                                                        *)
LEMMA TemplatesOnlyReorder ==
  ASSUME NEW spec, NEW d, SecretsApart(spec, d),
         NEW t \in PodTemplates(spec, d), NEW u \in PodTemplates(spec, d)
  PROVE  SameButOrder(t, u)
<1>1. PICK one \in SecretEnvVars(spec.config) : t = PodTemplate(spec, d, one)
  BY DEF PodTemplates
<1>2. PICK other \in SecretEnvVars(spec.config) : u = PodTemplate(spec, d, other)
  BY DEF PodTemplates
<1>3. /\ IsFiniteSet(SecretKeys(spec.config))
      /\ \A k, l \in SecretKeys(spec.config) : EnvName(k) = EnvName(l) => k = l
      /\ DefinitionEnv(d) \in Seq(Range(DefinitionEnv(d)))
      /\ spec.env \in Seq(Range(spec.env))
  BY DEF SecretsApart, IsList
<1> DEFINE V   == Range(DefinitionEnv(d)) \cup Range(spec.env)
           env == DefinitionEnv(d) \o spec.env
<1>4. env \in Seq(V)
  <2>1. DefinitionEnv(d) \in Seq(V) /\ spec.env \in Seq(V)
    BY <1>3
  <2> HIDE DEF V
  <2> QED BY <2>1
<1> HIDE DEF V, env
<1>5. Range(MergeEnvVars(env \o one)) = Range(MergeEnvVars(env \o other))
  BY <1>3, <1>4, OrderOnlyReorders
<1>6. t.env = MainEnv(spec, d, one) /\ u.env = MainEnv(spec, d, other)
  BY <1>1, <1>2 DEF PodTemplate
<1>7. MainEnv(spec, d, one) = MergeEnvVars(env \o one) /\ MainEnv(spec, d, other) = MergeEnvVars(env \o other)
  BY DEF MainEnv, env
<1>8. [t EXCEPT !.env = {}] = [u EXCEPT !.env = {}]
  BY <1>1, <1>2 DEF PodTemplate
<1> QED BY <1>5, <1>6, <1>7, <1>8 DEF SameButOrder

(* A rollout without a change says nothing else to the game: wherever the  *)
(* secrets of a spec have variables of their own, a template of the pair   *)
(* that is held is replaced only by one with the same variables in another *)
(* order, whatever the number of secrets and whatever was edited or is     *)
(* stale meanwhile.                                                        *)
THEOREM RolloutOnlyReordersCorrect ==
  (\A spec \in Specs, d \in Defs \cup {None} : SecretsApart(spec, d))
    => (Spec => RolloutOnlyReorders)
<1> SUFFICES ASSUME \A spec \in Specs, d \in Defs \cup {None} : SecretsApart(spec, d)
             PROVE  Spec => RolloutOnlyReorders
  OBVIOUS
<1> DEFINE Rollout(s) ==
             LET old == child[s]["StatefulSet"]
                 new == child'[s]["StatefulSet"]
             IN  /\ old # None /\ new # None /\ old.body # new.body
                 /\ old.body \in PodTemplates(held.spec, heldDef)
                 => SameButOrder(old.body, new.body)
<1>1. ASSUME TypeOK, [Next]_vars, NEW s \in Servers
      PROVE  Rollout(s)
  <2> SUFFICES ASSUME child'[s]["StatefulSet"] # None, BuiltTemplate(s),
                      child[s]["StatefulSet"].body \in PodTemplates(held.spec, heldDef)
               PROVE  SameButOrder(child[s]["StatefulSet"].body, child'[s]["StatefulSet"].body)
    BY <1>1, TemplateStep DEF SameTemplate
  <2>1. SecretsApart(held.spec, heldDef)
    BY <1>1 DEF BuiltTemplate, TypeOK, IsServer
  <2> QED BY <2>1, TemplatesOnlyReorder DEF BuiltTemplate
<1>2. TypeOK /\ [Next]_vars => [\A s \in Servers : Rollout(s)]_vars
  BY <1>1
<1> QED BY <1>2, TypeCorrect, PTL DEF Spec, RolloutOnlyReorders
=============================================================================
