------------------------- MODULE PodLifecycleProofs -------------------------
(***************************************************************************)
(* updateStatus leaves a right status behind, for any number of events and *)
(* faults, unless a pod was late: the polling of servers that are not      *)
(* Running and the watches of StatefulSet, Service and SteamServer are     *)
(* then enough.                                                            *)
(***************************************************************************)
EXTENDS PodLifecycle, TLAPS

USE DEF history

-----------------------------------------------------------------------------
(* The status that is computed *)

LEMMA RunningMeansReady ==
  ASSUME NEW replicas, NEW p, PodOK(p), State(replicas, p) = "Running"
  PROVE  PodReady(p)
<1> DEFINE w == [replicas |-> IF replicas.ready > replicas.replicas
                                THEN replicas.ready ELSE replicas.replicas,
                 pod |-> p]
<1>1. w.pod = p
  OBVIOUS
<1> HIDE DEF w
<1>2. DetermineState("StatefulSet", w) = "Running"
  BY DEF State, w
<1>3. p # None
  BY <1>1, <1>2 DEF DetermineState
<1>4. p.phase \in PodPhases /\ p.init \in {"running", "failed", "other"}
  BY <1>3 DEF PodOK
<1>5. p.phase = "Running" /\ RunningPodState(p) = "Running"
  BY <1>1, <1>2, <1>3, <1>4 DEF DetermineState, PodPhases
<1>6. p.main = "ready"
  BY <1>4, <1>5 DEF RunningPodState
<1> QED BY <1>3, <1>5, <1>6 DEF PodReady

LEMMA ReadyMeansRunning ==
  ASSUME NEW p, PodOK(p), PodReady(p)
  PROVE  State(CountOf(p), p) = "Running"
<1>1. p # None /\ p.phase = "Running" /\ p.main = "ready" /\ p.init = "other"
  BY DEF PodOK, PodReady
<1>2. RunningPodState(p) = "Running"
  BY <1>1 DEF RunningPodState
<1>3. CountOf(p) = [replicas |-> 1, ready |-> 1]
  BY <1>1 DEF CountOf, PodReady
<1> QED BY <1>1, <1>2, <1>3, PodNoneAssumption
        DEF State, DetermineState, PodNoneAssumption

(* A status that is not written because nothing changed is a right one. *)
LEMMA ReportIsRight ==
  ASSUME NEW old, NEW r
  PROVE  /\ Report(old, r).state = State(r.sts, r.pod)
         /\ Report(old, r).address = Address(r.ingress)
BY DEF Report, ObservedStatus

-----------------------------------------------------------------------------
(* The inductive invariant, one lemma for each group of steps *)

LEMMA StatusInit == Init => StatusInv
<1> SUFFICES ASSUME Init
             PROVE  StatusInv
  OBVIOUS
<1>1. StatusTypeOK
  <2>1. PodOK(pod) /\ PodOK(podCache) /\ PodOK(seen.pod)
    <3>1. PodOK(NewPod) /\ PodOK(Started) /\ PodOK(None) /\ PodOK(Nothing.pod)
      BY DEF NewPod, Started, PodOK, PodPhases, Nothing
    <3> QED BY <3>1 DEF Init
  <2>2. ServerOK(server) /\ serverCache = server /\ serverCache.edits <= server.edits
    <3>1. server = [edits |-> 0, status |-> NoStatus] /\ serverCache = server
      BY DEF Init
    <3>2. server.edits = 0 /\ server.status = NoStatus
      BY <3>1
    <3>3. server.edits \in Nat /\ server.edits <= server.edits
      BY <3>2
    <3>4. server = [edits |-> server.edits, status |-> server.status]
      BY <3>1, <3>2
    <3> QED BY <3>1, <3>3, <3>4 DEF ServerOK
  <2>3. /\ pc = "idle" /\ held = None /\ seen = Nothing
        /\ seen = [sts |-> seen.sts, ingress |-> seen.ingress, pod |-> seen.pod]
    BY DEF Init, Nothing
  <2> QED BY <2>1, <2>2, <2>3 DEF StatusTypeOK
<1>2. OneChangeAtATime /\ pc = "idle" /\ queued
  BY DEF Init, OneChangeAtATime
<1> QED BY <1>1, <1>2 DEF StatusInv, HeldIsCurrent, DoneIsRunning

IsPod(p) == p = [phase |-> p.phase, init |-> p.init, main |-> p.main,
                 healthy |-> p.healthy]

LEMMA KubeletPods ==
  ASSUME PodOK(pod), KubeletNext
  PROVE  \E p : PodBecomes(p) /\ PodOK(p)
<1>1. \A p : PodOK(p) <=>
             (p # None => /\ IsPod(p) /\ p.phase \in PodPhases
                          /\ p.init \in {"running", "failed", "other"}
                          /\ p.phase = "Running" => p.init = "other")
  BY DEF PodOK, IsPod
<1>2. CASE CreatePod \/ InitDone \/ GameRestarts \/ PodDeleted
  <2>1. PodOK(NewPod) /\ PodOK(Started) /\ PodOK(None)
    BY <1>1 DEF NewPod, Started, IsPod, PodPhases
  <2> QED BY <1>2, <2>1 DEF CreatePod, InitDone, GameRestarts, PodDeleted
<1>3. CASE InitStarts \/ InitFails \/ InitRetries
  <2>1. pod # None /\ pod.phase = "Pending"
        /\ \E c \in {"running", "failed", "other"} :
             PodBecomes([pod EXCEPT !.init = c])
    BY <1>3 DEF InitStarts, InitFails, InitRetries, PodIs
  <2>2. ASSUME NEW c \in {"running", "failed", "other"}
        PROVE  PodOK([pod EXCEPT !.init = c])
    <3>1. pod = [phase |-> pod.phase, init |-> pod.init, main |-> pod.main,
                 healthy |-> pod.healthy]
      BY <2>1 DEF PodOK
    <3>2. [pod EXCEPT !.init = c] = [phase |-> pod.phase, init |-> c,
                                     main |-> pod.main, healthy |-> pod.healthy]
      BY <3>1
    <3> QED BY <2>1, <3>2 DEF PodOK, PodPhases
  <2> QED BY <2>1, <2>2
<1>4. ASSUME pod # None, NEW c, NEW d
      PROVE  PodOK([pod EXCEPT !.main = c, !.healthy = d])
  <2>1. pod = [phase |-> pod.phase, init |-> pod.init, main |-> pod.main,
               healthy |-> pod.healthy]
    BY <1>4 DEF PodOK
  <2> DEFINE q == [pod EXCEPT !.main = c]
  <2>2. q = [phase |-> pod.phase, init |-> pod.init, main |-> c,
             healthy |-> pod.healthy]
    BY <2>1
  <2> HIDE DEF q
  <2>3. [q EXCEPT !.healthy = d] = [phase |-> pod.phase, init |-> pod.init,
                                    main |-> c, healthy |-> d]
    BY <2>2
  <2>4. PodOK([q EXCEPT !.healthy = d])
    BY <1>4, <2>3 DEF PodOK
  <2> QED BY <2>4 DEF q
<1>5. CASE GameServes \/ GameCrashes
  <2>1. pod # None
        /\ \E c, d : PodBecomes([pod EXCEPT !.main = c, !.healthy = d])
    BY <1>5 DEF GameServes, GameCrashes
  <2> QED BY <1>4, <2>1
<1>6. CASE PodEvicted
  <2>1. pod # None
        /\ PodBecomes([pod EXCEPT !.phase = "Failed", !.main = "other",
                                  !.healthy = FALSE])
    BY <1>6 DEF PodEvicted
  <2> DEFINE q == [pod EXCEPT !.phase = "Failed"]
             r == [q EXCEPT !.main = "other"]
  <2>2. pod = [phase |-> pod.phase, init |-> pod.init, main |-> pod.main,
               healthy |-> pod.healthy]
    BY <2>1 DEF PodOK
  <2>3. q = [phase |-> "Failed", init |-> pod.init, main |-> pod.main,
             healthy |-> pod.healthy]
    BY <2>2
  <2> HIDE DEF q
  <2>4. r = [phase |-> "Failed", init |-> pod.init, main |-> "other",
             healthy |-> pod.healthy]
    BY <2>3
  <2> HIDE DEF r
  <2>5. ASSUME NEW d
        PROVE  PodOK([r EXCEPT !.healthy = d])
    <3>1. [r EXCEPT !.healthy = d] = [phase |-> "Failed", init |-> pod.init,
                                      main |-> "other", healthy |-> d]
      BY <2>4
    <3> QED BY <2>1, <3>1 DEF PodOK, PodPhases
  <2> QED BY <2>1, <2>5 DEF q, r
<1> QED BY <1>2, <1>3, <1>5, <1>6 DEF KubeletNext

LEMMA ClusterSteps ==
  ASSUME StatusInv, ClusterNext
  PROVE  StatusInv'
<1> USE DEF StatusInv
<1>1. CASE KubeletNext
  <2>1. PICK p : PodBecomes(p) /\ PodOK(p)
    BY <1>1, KubeletPods DEF StatusTypeOK
  <2>2. late' <=> late \/ ~(sts = CountOf(pod) /\ stsCache = sts)
    BY <2>1, Zenon DEF PodBecomes
  <2>3. pod' = p /\ UNCHANGED <<sts, ingress, caches, server, worker>>
    BY <2>1 DEF PodBecomes
  <2>4. StatusTypeOK'
    BY <2>1, <2>3 DEF StatusTypeOK, caches, worker
  <2>5. OneChangeAtATime'
    BY <2>2, <2>3 DEF OneChangeAtATime, caches
  <2>6. InCount' => InCount /\ (PodReady(pod') <=> PodReady(pod))
    <3> SUFFICES ASSUME InCount'
                 PROVE  InCount /\ (PodReady(pod') <=> PodReady(pod))
      OBVIOUS
    <3>1. ~late /\ sts = CountOf(pod) /\ stsCache = sts /\ sts = CountOf(pod')
      BY <2>2, <2>3 DEF InCount
    <3> QED BY <3>1 DEF InCount, CountOf
  <2>7. HeldIsCurrent' /\ DoneIsRunning'
    BY <2>3, <2>6 DEF HeldIsCurrent, DoneIsRunning, caches, worker
  <2> QED BY <2>4, <2>5, <2>7
<1>2. CASE IngressChanges
  BY <1>2 DEF IngressChanges, caches, worker, StatusTypeOK, OneChangeAtATime,
              HeldIsCurrent, DoneIsRunning, InCount
<1>3. CASE EditServer
  <2>1. /\ server' = [edits |-> server.edits + 1, status |-> server.status]
        /\ UNCHANGED <<cluster, caches, worker, late>>
    BY <1>3 DEF EditServer, StatusTypeOK, ServerOK
  <2>2. ServerOK(server') /\ serverCache.edits <= server'.edits
    BY <2>1 DEF StatusTypeOK, ServerOK
  <2>3. serverCache # server'
    BY <2>1 DEF StatusTypeOK, ServerOK
  <2>4. StatusTypeOK'
    BY <2>1, <2>2 DEF StatusTypeOK, cluster, caches, worker
  <2>5. OneChangeAtATime' /\ HeldIsCurrent' /\ DoneIsRunning'
    BY <2>1, <2>3 DEF OneChangeAtATime, HeldIsCurrent, DoneIsRunning, InCount,
                      cluster, caches, worker
  <2> QED BY <2>4, <2>5
<1>4. CASE CountReplicas
  <2>1. /\ late \/ stsCache = sts
        /\ sts' = CountOf(pod) /\ late' = late
        /\ UNCHANGED <<pod, ingress, caches, server, worker>>
    BY <1>4 DEF CountReplicas, OneChangeAtATime
  <2> QED BY <2>1 DEF caches, worker, StatusTypeOK, OneChangeAtATime,
                      HeldIsCurrent, DoneIsRunning, InCount, CountOf, PodReady
<1> QED BY <1>1, <1>2, <1>3, <1>4 DEF ClusterNext

LEMMA InformerSteps ==
  ASSUME StatusInv, InformerNext
  PROVE  StatusInv'
<1> USE DEF StatusInv, StatusTypeOK, OneChangeAtATime, HeldIsCurrent,
            DoneIsRunning, InCount, CountOf, PodReady
<1>1. CASE SyncPod
  BY <1>1 DEF SyncPod, cluster, worker
<1>2. CASE SyncStatefulSet
  BY <1>2 DEF SyncStatefulSet, Wake, cluster
<1>3. CASE SyncService
  BY <1>3 DEF SyncService, Wake, cluster
<1>4. CASE SyncServer
  BY <1>4 DEF SyncServer, Wake, cluster, ServerOK
<1> QED BY <1>1, <1>2, <1>3, <1>4 DEF InformerNext

(* Whatever becomes of a write from the held copy, the objects are typed,  *)
(* and without a repetition it was made and the cache is behind it.        *)
LEMMA UpdateStep ==
  ASSUME StatusInv, pc \in {"write", "fail"}, NEW st, NEW retry \in BOOLEAN,
         LET new == [held EXCEPT !.status = st]
         IN  new # held /\ Update(new, retry),
         UNCHANGED <<cluster, caches, history>>
  PROVE  StatusInv' /\ (queued' \/ ~retry)
<1> DEFINE new == [held EXCEPT !.status = st]
<1>1. new = [edits |-> held.edits, status |-> st] /\ held.edits \in Nat
  BY DEF StatusInv, StatusTypeOK, ServerOK
<1>2. ServerOK(new) /\ new.edits = held.edits
  BY <1>1 DEF ServerOK
<1>3. new # held /\ Update(new, retry)
  OBVIOUS
<1> HIDE DEF new
<1>4. /\ pc' = "idle" /\ held' = None /\ seen' = Nothing
      /\ server' = server \/ (server = held /\ server' = new)
      /\ queued' \/ (~queued /\ ~retry /\ server = held /\ server' = new)
  BY <1>3 DEF Update, Done
<1>5. StatusTypeOK'
  BY <1>2, <1>4 DEF StatusInv, StatusTypeOK, cluster, caches, Nothing, PodOK
<1>6. queued' \/ serverCache' # server'
  BY <1>3, <1>4 DEF StatusInv, HeldIsCurrent, caches
<1>7. OneChangeAtATime' /\ HeldIsCurrent' /\ DoneIsRunning'
  BY <1>4, <1>6 DEF StatusInv, OneChangeAtATime, HeldIsCurrent, DoneIsRunning,
                    CountOf, PodReady, cluster, caches
<1> QED BY <1>4, <1>5, <1>7 DEF StatusInv

LEMMA WriteStatusStep ==
  ASSUME StatusInv, WriteStatus
  PROVE  StatusInv'
<1> DEFINE new   == Report(held.status, seen)
           retry == State(seen.sts, seen.pod) # "Running"
<1>1. pc = "write" /\ UNCHANGED <<cluster, caches, history>>
  BY DEF WriteStatus
<1>2. held = [edits |-> held.edits, status |-> held.status]
  BY <1>1 DEF StatusInv, StatusTypeOK, ServerOK
<1>3. CASE new # held.status
  <2>1. Update([held EXCEPT !.status = new], retry)
    BY <1>3 DEF WriteStatus
  <2>2. [held EXCEPT !.status = new] # held
    <3>1. [held EXCEPT !.status = new] = [edits |-> held.edits, status |-> new]
      BY <1>2
    <3>2. [held EXCEPT !.status = new].status = new
      BY <3>1
    <3> QED BY <1>3, <3>2
  <2>3. retry \in BOOLEAN
    OBVIOUS
  <2> HIDE DEF new, retry
  <2> QED BY <1>1, <2>1, <2>2, <2>3, UpdateStep
<1>4. CASE new = held.status
  <2>1. /\ pc' = "idle" /\ held' = None /\ seen' = Nothing /\ server' = server
        /\ queued' = (queued \/ retry)
    BY <1>4 DEF WriteStatus, Done
  <2>2. ASSUME ~queued', serverCache = server
        PROVE  /\ server.status.state = "Running"
               /\ server.status.address = Address(ingressCache)
               /\ InCount => PodReady(pod)
    <3>1. /\ ~queued /\ State(seen.sts, seen.pod) = "Running"
          /\ held = server /\ seen.ingress = ingressCache
      BY <1>1, <2>1, <2>2 DEF StatusInv, HeldIsCurrent
    <3>2. /\ held.status.state = "Running"
          /\ held.status.address = Address(ingressCache)
      BY <1>4, <3>1, ReportIsRight
    <3>3. PodReady(seen.pod)
      BY <3>1, RunningMeansReady DEF StatusInv, StatusTypeOK
    <3> QED BY <1>1, <3>1, <3>2, <3>3 DEF StatusInv, HeldIsCurrent
  <2>3. StatusTypeOK'
    BY <1>1, <2>1 DEF StatusInv, StatusTypeOK, cluster, caches, Nothing, PodOK
  <2>4. OneChangeAtATime' /\ HeldIsCurrent'
    BY <1>1, <2>1 DEF StatusInv, OneChangeAtATime, HeldIsCurrent, CountOf,
                      PodReady, cluster, caches
  <2>5. DoneIsRunning'
    BY <1>1, <2>1, <2>2 DEF DoneIsRunning, InCount, CountOf, PodReady, cluster,
                            caches
  <2> QED BY <2>3, <2>4, <2>5 DEF StatusInv
<1> QED BY <1>3, <1>4

LEMMA SetErrorStatusStep ==
  ASSUME StatusInv, SetErrorStatus
  PROVE  StatusInv'
<1> DEFINE st == ErrorStatus(held.status, "StatefulSet")
<1>1. pc = "fail" /\ Update([held EXCEPT !.status = st], TRUE)
      /\ UNCHANGED <<cluster, caches, history>>
  BY DEF SetErrorStatus
<1>2. [held EXCEPT !.status = st] = [edits |-> held.edits, status |-> st]
      /\ held.edits \in Nat
  BY <1>1 DEF StatusInv, StatusTypeOK, ServerOK
<1> DEFINE new == [held EXCEPT !.status = st]
<1>3. ServerOK(new) /\ new.edits = held.edits /\ Update(new, TRUE)
  BY <1>1, <1>2 DEF ServerOK
<1> HIDE DEF new
<1>4. /\ pc' = "idle" /\ held' = None /\ seen' = Nothing /\ queued'
      /\ server' = server \/ (server = held /\ server' = new)
  BY <1>3 DEF Update, Done
<1>5. StatusTypeOK'
  BY <1>1, <1>3, <1>4 DEF StatusInv, StatusTypeOK, cluster, caches, Nothing, PodOK
<1>6. OneChangeAtATime' /\ HeldIsCurrent' /\ DoneIsRunning'
  BY <1>1, <1>4 DEF StatusInv, OneChangeAtATime, HeldIsCurrent, DoneIsRunning,
                    CountOf, PodReady, cluster, caches
<1> QED BY <1>5, <1>6 DEF StatusInv

LEMMA WorkerSteps ==
  ASSUME StatusInv, Work
  PROVE  StatusInv'
<1> USE DEF StatusInv, StatusTypeOK, OneChangeAtATime, HeldIsCurrent,
            DoneIsRunning, InCount, CountOf, PodReady
<1>1. CASE Take
  <2>1. seen' = seen /\ seen = Nothing /\ Nothing.pod = None
    BY <1>1 DEF Take, Nothing
  <2> QED BY <1>1, <2>1 DEF Take, cluster, caches
<1>2. CASE ReadStatefulSet
  <2>1. seen' = [sts |-> stsCache, ingress |-> seen.ingress, pod |-> seen.pod]
    BY <1>2 DEF ReadStatefulSet
  <2> QED BY <1>2, <2>1 DEF ReadStatefulSet, Goto, cluster, caches
<1>3. CASE ReadService
  <2>1. seen' = [sts |-> seen.sts, ingress |-> ingressCache, pod |-> seen.pod]
    BY <1>3 DEF ReadService
  <2> QED BY <1>3, <2>1 DEF ReadService, Goto, cluster, caches
<1>4. CASE ReadPod
  <2>1. /\ pc = "pod" /\ pc' = "write"
        /\ UNCHANGED <<cluster, caches, server, queued, held>>
    BY <1>4 DEF ReadPod, Goto
  <2>2. CASE NoReplicas(seen.sts)
    <3>1. UNCHANGED <<seen, late>> /\ seen.pod = None
      BY <1>4, <2>1, <2>2 DEF ReadPod
    <3>2. InCount /\ ~queued => pod = None
      BY <2>1, <2>2 DEF NoReplicas
    <3> QED BY <2>1, <3>1, <3>2 DEF cluster, caches
  <2>3. CASE ~NoReplicas(seen.sts)
    <3>1. seen' = [sts |-> seen.sts, ingress |-> seen.ingress, pod |-> podCache]
      BY <1>4, <2>3 DEF ReadPod
    <3>2. late' <=> late \/ podCache # pod
      BY <1>4, <2>3, Zenon DEF ReadPod
    <3> QED BY <2>1, <3>1, <3>2 DEF cluster, caches
  <2> QED BY <2>2, <2>3
<1>5. CASE WriteStatus
  BY <1>5, WriteStatusStep
<1>6. CASE SetErrorStatus
  BY <1>6, SetErrorStatusStep
<1> QED BY <1>1, <1>2, <1>3, <1>4, <1>5, <1>6 DEF Work

LEMMA StatusStep ==
  ASSUME StatusInv, [Next]_vars
  PROVE  StatusInv'
<1>1. CASE Restart
  <2>1. /\ podCache' = pod /\ stsCache' = sts /\ serverCache' = server
        /\ queued' /\ pc' = "idle" /\ held' = None /\ seen' = Nothing
        /\ UNCHANGED <<cluster, server>>
    BY <1>1 DEF Restart
  <2>2. PodOK(None) /\ Nothing.pod = None
        /\ Nothing = [sts |-> Nothing.sts, ingress |-> Nothing.ingress,
                      pod |-> Nothing.pod]
    BY DEF PodOK, Nothing
  <2>3. server.edits <= server.edits
    BY DEF StatusInv, StatusTypeOK, ServerOK
  <2>4. StatusTypeOK'
    BY <2>1, <2>2, <2>3 DEF StatusInv, StatusTypeOK, cluster
  <2>5. OneChangeAtATime' /\ HeldIsCurrent' /\ DoneIsRunning'
    BY <2>1 DEF OneChangeAtATime, HeldIsCurrent, DoneIsRunning, cluster
  <2> QED BY <2>4, <2>5 DEF StatusInv
<1>2. CASE UNCHANGED vars
  BY <1>2 DEF vars, cluster, caches, worker, StatusInv, StatusTypeOK,
              OneChangeAtATime, HeldIsCurrent, DoneIsRunning, InCount, CountOf,
              PodReady
<1> QED BY <1>1, <1>2, ClusterSteps, InformerSteps, WorkerSteps DEF Next

(* The inductive invariant of the status loop. *)
THEOREM StatusInvCorrect == Spec => []StatusInv
<1>1. StatusInv /\ [Next]_vars => StatusInv'
  BY StatusStep
<1> QED BY StatusInit, <1>1, PTL DEF Spec

(* When nothing is under way, the status that updateStatus has left is the *)
(* one of the pod and the Service as they are now.                         *)
THEOREM SettledAccurateCorrect == Spec => []SettledAccurate
<1>1. StatusInv => SettledAccurate
  <2> SUFFICES ASSUME StatusInv, Settled, ~late
               PROVE  /\ server.status.state = State(sts, pod)
                      /\ server.status.address = Address(ingress)
    BY DEF SettledAccurate
  <2>1. /\ server.status.state = "Running" /\ PodReady(pod)
        /\ server.status.address = Address(ingress) /\ PodOK(pod)
        /\ sts = CountOf(pod)
    BY DEF StatusInv, StatusTypeOK, DoneIsRunning, InCount, Settled
  <2> QED BY <2>1, ReadyMeansRunning
<1> QED BY <1>1, StatusInvCorrect, PTL
=============================================================================
