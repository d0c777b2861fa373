---------------------------- MODULE PodLifecycle ----------------------------
(***************************************************************************)
(* How the status of one SteamServer follows its pod: updateStatus against *)
(* a kubelet, a StatefulSet controller and a load balancer that go on      *)
(* while it runs.  The resources of the server exist already.              *)
(*                                                                         *)
(* updateStatus reads the StatefulSet, the Service and the pod one after   *)
(* another, each from an informer cache of its own.  The caches of the     *)
(* SteamServer, the StatefulSet and the Service wake the worker when they  *)
(* change; the pods have a cache too, because they are read, but no watch  *)
(* wakes the worker for them.  The resynchronisation of the informers,     *)
(* every ten hours, is left out: a status is judged by what happens before. *)
(***************************************************************************)
EXTENDS ServerStatus

CONSTANTS MaxEvents,  \* bound on what happens to pod, load balancer and spec
          MaxFaults   \* bound on failed calls and crashes of the operator

ASSUME PodBoundAssumption == MaxEvents \in Nat /\ MaxFaults \in Nat
ASSUME PodNoneAssumption == None # "StatefulSet"

VARIABLES pod,         \* None or [phase, init, main, healthy]
          podCache,
          sts,         \* the StatefulSet's status, [replicas, ready]
          stsCache,
          ingress,     \* the address the load balancer gave, or ""
          ingressCache,
          server,      \* the SteamServer, [edits, status]
          serverCache,
          queued,      \* the server waits for the worker, at once or later
          pc,          \* the worker's next step
          held,        \* the SteamServer it fetched
          seen,        \* what it has read: [sts, ingress, pod]
          events,
          late,        \* the pod changed before its last change was counted and
                       \* delivered, or a copy was read that was not the pod
          faults

cluster == <<pod, sts, ingress>>
caches == <<podCache, stsCache, ingressCache, serverCache>>
worker == <<queued, pc, held, seen>>
history == <<events, late>>
vars == <<cluster, caches, server, worker, history, faults>>

Nothing == [sts |-> None, ingress |-> "", pod |-> None]
Service == [type |-> "LoadBalancer", ports |-> <<>>]

PodReady(p) == p # None /\ p.phase = "Running" /\ p.main = "ready"

(* buildMainContainer sets no probe of any kind *)
ReadinessProbe == FALSE

(* The main container has just started, or started again *)
Started == [phase |-> "Running", init |-> "other", healthy |-> FALSE,
            main |-> IF ReadinessProbe THEN "running" ELSE "ready"]

NewPod == [phase |-> "Pending", init |-> "other", main |-> "other",
           healthy |-> FALSE]

(* The StatefulSet controller counts the pods *)
CountOf(p) == [replicas |-> IF p = None THEN 0 ELSE 1,
               ready    |-> IF PodReady(p) THEN 1 ELSE 0]

-----------------------------------------------------------------------------
(* What updateStatus makes of what it has read *)

State(replicas, p) ==
  DetermineState("StatefulSet",
    [replicas |-> IF replicas.ready > replicas.replicas THEN replicas.ready
                                                        ELSE replicas.replicas,
     pod |-> p])

Address(address) == DetermineAddress(Service, [ingress |-> address, nodePort |-> 0])

Report(old, r) ==
  ObservedStatus(old, State(r.sts, r.pod), Address(r.ingress), <<>>)

-----------------------------------------------------------------------------
(* The operator may find the pod there already *)
Init ==
  /\ pod \in {None, NewPod, Started} /\ podCache = pod
  /\ sts = CountOf(pod) /\ stsCache = sts
  /\ ingress = "" /\ ingressCache = ingress
  /\ server = [edits |-> 0, status |-> NoStatus] /\ serverCache = server
  /\ queued = TRUE
  /\ pc = "idle" /\ held = None /\ seen = Nothing
  /\ events = 0 /\ late = FALSE /\ faults = 0

-----------------------------------------------------------------------------
(* The kubelet.  A pod is in phase Pending until its init containers are   *)
(* done; a failed one is started again.  A container without a readiness   *)
(* probe is ready as soon as it runs.                                      *)

Happens == events < MaxEvents /\ events' = events + 1

PodBecomes(p) ==
  /\ Happens
  /\ late' = (late \/ ~(sts = CountOf(pod) /\ stsCache = sts))
  /\ pod' = p
  /\ UNCHANGED <<sts, ingress, caches, server, worker, faults>>

PodIs(phase, init, main) ==
  pod # None /\ pod.phase = phase /\ pod.init = init /\ pod.main = main

CreatePod   == pod = None /\ PodBecomes(NewPod)
InitStarts  == PodIs("Pending", "other", "other")
                 /\ PodBecomes([pod EXCEPT !.init = "running"])
InitFails   == PodIs("Pending", "running", "other")
                 /\ PodBecomes([pod EXCEPT !.init = "failed"])
InitRetries == PodIs("Pending", "failed", "other")
                 /\ PodBecomes([pod EXCEPT !.init = "running"])
InitDone    == PodIs("Pending", "running", "other") /\ PodBecomes(Started)
GameServes  == /\ pod # None /\ pod.main \in {"running", "ready"} /\ ~pod.healthy
               /\ PodBecomes([pod EXCEPT !.main = "ready", !.healthy = TRUE])
GameCrashes == /\ pod # None /\ pod.main \in {"running", "ready"}
               /\ PodBecomes([pod EXCEPT !.main = "other", !.healthy = FALSE])
GameRestarts == PodIs("Running", "other", "other") /\ PodBecomes(Started)
PodEvicted  == pod # None /\ pod.phase # "Failed"
                 /\ PodBecomes([pod EXCEPT !.phase = "Failed", !.main = "other",
                                           !.healthy = FALSE])
PodDeleted  == pod # None /\ PodBecomes(None)

KubeletNext ==
  \/ CreatePod \/ InitStarts \/ InitFails \/ InitRetries \/ InitDone
  \/ GameServes \/ GameCrashes \/ GameRestarts \/ PodEvicted \/ PodDeleted

(* The load balancer gets or loses its address *)
IngressChanges ==
  /\ Happens
  /\ ingress' = IF ingress = "" THEN "10.0.0.1" ELSE ""
  /\ UNCHANGED <<pod, sts, caches, server, worker, late, faults>>

(* A user edits the spec, which makes a pending status write conflict *)
EditServer ==
  /\ Happens
  /\ server' = [server EXCEPT !.edits = @ + 1]
  /\ UNCHANGED <<cluster, caches, worker, late, faults>>

CountReplicas ==
  /\ sts # CountOf(pod)
  /\ sts' = CountOf(pod)
  /\ UNCHANGED <<pod, ingress, caches, server, worker, history, faults>>

-----------------------------------------------------------------------------
(* The informers *)

Wake == queued' = TRUE /\ UNCHANGED <<pc, held, seen>>

SyncPod ==
  /\ podCache # pod
  /\ podCache' = pod
  /\ UNCHANGED <<cluster, stsCache, ingressCache, serverCache, server, worker,
                 history, faults>>

(* Fault: StatefulSets are not watched *)
SyncStatefulSetQuietly ==
  /\ stsCache # sts
  /\ stsCache' = sts
  /\ UNCHANGED <<cluster, podCache, ingressCache, serverCache, server, worker,
                 history, faults>>

SyncStatefulSet ==
  /\ stsCache # sts
  /\ stsCache' = sts
  /\ Wake
  /\ UNCHANGED <<cluster, podCache, ingressCache, serverCache, server, history,
                 faults>>

(* Fault: Services are not watched *)
SyncServiceQuietly ==
  /\ ingressCache # ingress
  /\ ingressCache' = ingress
  /\ UNCHANGED <<cluster, podCache, stsCache, serverCache, server, worker,
                 history, faults>>

SyncService ==
  /\ ingressCache # ingress
  /\ ingressCache' = ingress
  /\ Wake
  /\ UNCHANGED <<cluster, podCache, stsCache, serverCache, server, history, faults>>

SyncServer ==
  /\ serverCache # server
  /\ serverCache' = server
  /\ Wake
  /\ UNCHANGED <<cluster, podCache, stsCache, ingressCache, server, history, faults>>

-----------------------------------------------------------------------------
(* The worker *)

Fault == faults < MaxFaults /\ faults' = faults + 1

Goto(step) == pc' = step /\ UNCHANGED <<queued, held>>

Take ==
  /\ queued /\ pc = "idle"
  /\ queued' = FALSE
  /\ held' = serverCache
  /\ \/ pc' = "sts" /\ UNCHANGED faults
     \/ pc' = "fail" /\ Fault  \* the resources could not be reconciled
  /\ UNCHANGED <<cluster, caches, server, seen, history>>

ReadStatefulSet ==
  /\ pc = "sts"
  /\ seen' = [seen EXCEPT !.sts = stsCache]
  /\ Goto("svc")
  /\ UNCHANGED <<cluster, caches, server, history, faults>>

ReadService ==
  /\ pc = "svc"
  /\ seen' = [seen EXCEPT !.ingress = ingressCache]
  /\ Goto("pod")
  /\ UNCHANGED <<cluster, caches, server, history, faults>>

(* The pod is not read when the StatefulSet has no replicas *)
NoReplicas(r) == r.ready = 0 /\ r.replicas = 0

ReadPod ==
  /\ pc = "pod"
  /\ \/ NoReplicas(seen.sts) /\ UNCHANGED <<seen, late>>
     \/ /\ ~NoReplicas(seen.sts)
        /\ late' = (late \/ podCache # pod)
        /\ seen' = [seen EXCEPT !.pod = podCache]
  /\ Goto("write")
  /\ UNCHANGED <<cluster, caches, server, events, faults>>

(* Fault: the server is not looked at again while it starts *)
DoneForGood(retry) ==
  /\ pc' = "idle" /\ held' = None /\ seen' = Nothing
  /\ queued' = queued

Done(retry) ==
  /\ pc' = "idle" /\ held' = None /\ seen' = Nothing
  /\ queued' = (queued \/ retry)

(* Status().Update: done, refused as a conflict, failed, or done although  *)
(* the answer is an error.  retry says whether success asks for more.      *)
Update(new, retry) ==
  \/ server = held /\ server' = new /\ Done(retry) /\ UNCHANGED faults
  \/ server # held /\ Done(TRUE) /\ UNCHANGED <<server, faults>>
  \/ /\ Fault /\ Done(TRUE)
     /\ server' = server \/ (server = held /\ server' = new)

WriteStatus ==
  /\ pc = "write"
  /\ LET new   == Report(held.status, seen)
         retry == State(seen.sts, seen.pod) # "Running"
     IN  IF new = held.status
         THEN Done(retry) /\ UNCHANGED <<server, faults>>
         ELSE Update([held EXCEPT !.status = new], retry)
  /\ UNCHANGED <<cluster, caches, history>>

SetErrorStatus ==
  /\ pc = "fail"
  /\ Update([held EXCEPT !.status = ErrorStatus(held.status, "StatefulSet")], TRUE)
  /\ UNCHANGED <<cluster, caches, history>>

Work ==
  \/ Take \/ ReadStatefulSet \/ ReadService \/ ReadPod
  \/ WriteStatus \/ SetErrorStatus

Restart ==
  /\ Fault
  /\ podCache' = pod /\ stsCache' = sts /\ ingressCache' = ingress
  /\ serverCache' = server
  /\ queued' = TRUE /\ pc' = "idle" /\ held' = None /\ seen' = Nothing
  /\ UNCHANGED <<cluster, server, history>>

-----------------------------------------------------------------------------
ClusterNext == KubeletNext \/ IngressChanges \/ EditServer \/ CountReplicas

InformerNext == SyncPod \/ SyncStatefulSet \/ SyncService \/ SyncServer

Next == ClusterNext \/ InformerNext \/ Work \/ Restart

Spec == Init /\ [][Next]_vars

(* The StatefulSet controller counts, the informers deliver, and the       *)
(* worker goes on with the only server there is; nothing else must happen. *)
Fairness ==
  /\ WF_vars(CountReplicas)
  /\ WF_vars(SyncPod) /\ WF_vars(SyncStatefulSet)
  /\ WF_vars(SyncService) /\ WF_vars(SyncServer)
  /\ WF_vars(Work)

FairSpec == Spec /\ Fairness
-----------------------------------------------------------------------------
(* Properties *)

(* Nothing is under way: the worker is idle and has nothing to do, the     *)
(* StatefulSet has counted its pods, every watch has delivered.            *)
Settled ==
  /\ pc = "idle" /\ ~queued
  /\ sts = CountOf(pod)
  /\ stsCache = sts /\ ingressCache = ingress
  /\ podCache = pod /\ serverCache = server

(* updateStatus leaves a right status behind: when nothing is under way,   *)
(* the stored state and address are those of the pod and the Service as    *)
(* they are, although the three reads and the write were made at different *)
(* times, from copies, and a Running server is not polled; unless pods     *)
(* were late.                                                              *)
SettledAccurate ==
  Settled /\ ~late => /\ server.status.state = State(sts, pod)
             /\ server.status.address = Address(ingress)

(* What makes SettledAccurate inductive: what the worker holds is the cache *)
(* it read or it will be asked again, and an idle worker that will not be   *)
(* asked again has left a Running server with a ready pod.                  *)
PodPhases == {"Pending", "Running", "Succeeded", "Failed", "Unknown"}

PodOK(p) ==
  p # None =>
    /\ p = [phase |-> p.phase, init |-> p.init, main |-> p.main,
            healthy |-> p.healthy]
    /\ p.phase \in PodPhases
    /\ p.init \in {"running", "failed", "other"}
    /\ p.phase = "Running" => p.init = "other"

ServerOK(o) == o = [edits |-> o.edits, status |-> o.status] /\ o.edits \in Nat

StatusTypeOK ==
  /\ PodOK(pod) /\ PodOK(podCache) /\ PodOK(seen.pod)
  /\ ServerOK(server) /\ ServerOK(serverCache)
  /\ serverCache.edits <= server.edits
  /\ pc \in {"idle", "sts", "svc", "pod", "write", "fail"}
  /\ IF pc = "idle" THEN held = None /\ seen = Nothing ELSE ServerOK(held)
  /\ seen = [sts |-> seen.sts, ingress |-> seen.ingress, pod |-> seen.pod]

InCount == ~late /\ stsCache = sts /\ sts = CountOf(pod)

OneChangeAtATime == late \/ stsCache = sts \/ sts = CountOf(pod)

HeldIsCurrent ==
  /\ pc \in {"sts", "svc", "pod"} => seen.pod = None
  /\ pc # "idle" /\ ~queued => held = serverCache
  /\ pc \in {"svc", "pod", "write"} /\ ~queued => seen.sts = stsCache
  /\ pc \in {"pod", "write"} /\ ~queued => seen.ingress = ingressCache
  /\ pc = "write" /\ ~queued /\ InCount => (PodReady(seen.pod) <=> PodReady(pod))

DoneIsRunning ==
  pc = "idle" /\ ~queued /\ serverCache = server =>
    /\ server.status.state = "Running"
    /\ server.status.address = Address(ingressCache)
    /\ InCount => PodReady(pod)

StatusInv == StatusTypeOK /\ OneChangeAtATime /\ HeldIsCurrent /\ DoneIsRunning

(* A pod that stays ready ends up reported as Running, whatever failed or  *)
(* conflicted before.                                                      *)
ReadyReported ==
  <>[]PodReady(pod) => <>[](server.status.state = "Running")

(* The address ends up being the one of the load balancer, also for a      *)
(* server that is Running and is not polled any more.                      *)
AddressReported ==
  \A a \in {"", "10.0.0.1"} :
    <>[](ingress = a) => <>[](server.status.address = Address(a))

-----------------------------------------------------------------------------
(* What the repository says, and the runs refute (see README, Findings)    *)

Writes == pc = "write" /\ server' # server

(* "Installing - Init container downloading game files" (local-testing.md): *)
(* what is reported of a pod whose steamcmd container runs.                *)
InstallingReported ==
  [][Writes /\ seen.pod # None /\ seen.pod.init = "running"
       => server'.status.state = "Installing"]_vars

(* "ServerStateRunning indicates the game server is running and ready"     *)
(* (steamserver_types.go): what is reported of a game that does not yet    *)
(* answer the health check of its definition.                              *)
RunningWhenHealthy ==
  [][Writes /\ server'.status.state = "Running"
       => seen.pod.healthy]_vars
=============================================================================
