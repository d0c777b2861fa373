---------------------------- MODULE ServerStatus ----------------------------
(***************************************************************************)
(* The status a SteamServer reports, as functions of what the controller   *)
(* reads from its caches: the StatefulSet's replica counts, the pod, and   *)
(* the Service.                                                            *)
(*                                                                         *)
(* Data.  A workload is [replicas, pod]: the larger of the StatefulSet's   *)
(* two replica counts and the pod, None or [phase, init, main].  init is   *)
(* the state of the steamcmd container ("running", "failed" for a non-zero *)
(* exit, "other"); main that of the gameserver container ("ready",         *)
(* "running", "other").  A status is [state, message, address, ports];     *)
(* LastUpdated is left out here.                                           *)
(***************************************************************************)
EXTENDS ResourceBuilders

NoStatus == [state |-> "", message |-> "", address |-> "", ports |-> <<>>]

States == {"Pending", "Installing", "Starting", "Running", "Error"}

-----------------------------------------------------------------------------
(* State *)

RunningPodState(pod) ==
  CASE pod.init = "running" -> "Installing"
    [] pod.init = "failed"  -> "Error"
    [] pod.init = "other"   -> IF pod.main = "ready" THEN "Running"
                                                     ELSE "Starting"

DetermineState(sts, workload) ==
  IF sts = None \/ workload.replicas = 0 \/ workload.pod = None THEN "Pending"
  ELSE CASE workload.pod.phase = "Running" -> RunningPodState(workload.pod)
         [] workload.pod.phase = "Failed"  -> "Error"
         [] OTHER                          -> "Pending"

(* One fixed text per state: the text is represented by the state's name *)
StateMessage(state) == state

-----------------------------------------------------------------------------
(* Address and ports.  svc is the Service's body, None when it is not      *)
(* found; network is what the cluster gave it: [ingress, nodePort], the    *)
(* load balancer's address ("" while it has none) and the first of the     *)
(* node ports (0 while there are none).                                    *)

DetermineAddress(svc, network) ==
  IF svc = None THEN ""
  ELSE CASE svc.type = "LoadBalancer" -> IF network.ingress # ""
                                           THEN network.ingress
                                           ELSE "<pending>"
         [] svc.type = "NodePort"     -> "<node-ip>"
         [] OTHER                     -> "<cluster-ip>"

DeterminePorts(svc, network) ==
  IF svc = None THEN <<>>
  ELSE [i \in DOMAIN svc.ports |->
          [name     |-> svc.ports[i].name,
           port     |-> IF svc.type = "NodePort" /\ network.nodePort # 0
                          THEN network.nodePort + i - 1
                          ELSE svc.ports[i].port,
           protocol |-> svc.ports[i].protocol]]

-----------------------------------------------------------------------------
(* The two ways a status is computed *)

(* updateStatus compares state, address and ports only: when they are what *)
(* they were, the status is left as it is, message included.               *)
ObservedStatus(old, state, address, ports) ==
  IF old.state = state /\ old.address = address /\ old.ports = ports
  THEN old
  ELSE [state |-> state, message |-> StateMessage(state),
        address |-> address, ports |-> ports]

(* setErrorStatus keeps the address and the ports; the message names the   *)
(* resource that failed.                                                   *)
ErrorStatus(old, resource) ==
  [old EXCEPT !.state = "Error", !.message = resource]
=============================================================================
