------------------------------ MODULE Admission ------------------------------
(***************************************************************************)
(* What the API server makes of a GameDefinition or SteamServer a user     *)
(* writes, by the kubebuilder markers of the API types: it refuses some,   *)
(* and fills fields that are absent.  And what it asks of a Service, and   *)
(* the GameDefinition controller of a definition before it calls it ready. *)
(*                                                                         *)
(* Data.  A written object is a spec as the builders read it, in which     *)
(* None is an absent field.  A field that is present and empty, "", gets   *)
(* no default.                                                             *)
(***************************************************************************)
EXTENDS ServerStatus

OrDefault(field, default) == IF field = None THEN default ELSE field

PortNumbers == 1..65535

-----------------------------------------------------------------------------
(* The markers *)

PortAccepted(port) ==
  /\ port.name # ""
  /\ port.containerPort \in PortNumbers
  /\ port.servicePort # 0 => port.servicePort \in PortNumbers
  /\ port.protocol \in {None, "TCP", "UDP"}

PortAdmitted(port) == [port EXCEPT !.protocol = OrDefault(@, "UDP")]

PortsAccepted(ports) == \A i \in DOMAIN ports : PortAccepted(ports[i])

PortsAdmitted(ports) == [i \in DOMAIN ports |-> PortAdmitted(ports[i])]

MappingAccepted(mapTo) ==
  mapTo # None => mapTo.type \in {"arg", "env", "configFile"}

DefinitionAccepted(d) ==
  /\ d.appId >= 1
  /\ d.ports # <<>> /\ PortsAccepted(d.ports)
  /\ d.configSchema # None =>
       \A k \in DOMAIN d.configSchema : MappingAccepted(d.configSchema[k].mapTo)

DefinitionAdmitted(d) ==
  [d EXCEPT !.image      = OrDefault(@, "steamcmd/steamcmd:ubuntu-22"),
            !.installDir = OrDefault(@, "/data/server"),
            !.storage    = OrDefault(@, 20),
            !.ports      = PortsAdmitted(@)]

ServerAccepted(spec) ==
  /\ PortsAccepted(spec.ports)
  /\ spec.serviceType \in {None, "LoadBalancer", "NodePort", "ClusterIP"}

ServerAdmitted(spec) ==
  [spec EXCEPT !.serviceType = OrDefault(@, "LoadBalancer"),
               !.validate    = OrDefault(@, TRUE),
               !.anonymous   = OrDefault(@, TRUE),
               !.ports       = PortsAdmitted(@)]

(* A Service has ports, with names and numbers of their own *)
ServiceAccepted(body) ==
  /\ body.ports # <<>>
  /\ \A i, j \in DOMAIN body.ports :
       LET a == body.ports[i]
           b == body.ports[j]
       IN  a.name = b.name \/ (a.port = b.port /\ a.protocol = b.protocol) => i = j

-----------------------------------------------------------------------------
(* validate of the GameDefinition controller *)

PortValid(port) == port.name # "" /\ port.containerPort \in PortNumbers

MappingValid(entry) ==
  entry.mapTo # None => entry.mapTo.type \in {"arg", "env", "configFile"}

ValidDefinition(spec) ==
  /\ spec.appId > 0
  /\ spec.command # ""
  /\ spec.ports # <<>>
  /\ \A i \in DOMAIN spec.ports : PortValid(spec.ports[i])
  /\ spec.configSchema # None =>
       \A k \in DOMAIN spec.configSchema : MappingValid(spec.configSchema[k])
=============================================================================
