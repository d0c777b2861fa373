-------------------------- MODULE ResourceBuilders --------------------------
(***************************************************************************)
(* The builders of internal/resources and internal/steamcmd: what the      *)
(* StatefulSet, Service, PersistentVolumeClaim and ConfigMap of a server   *)
(* should contain, computed from the spec of the SteamServer and the spec  *)
(* of its GameDefinition (None in fallback mode).                          *)
(*                                                                         *)
(* Data.  Every override field of a server spec is modelled with the       *)
(* fallback the code gives it; None, "" or <<>> is the unset value, as in  *)
(* the Go types.  Names and namespaces are left out: they are functions of *)
(* the server's name.  A resource is split into the part the API server    *)
(* makes immutable ("fixed") and the part an update may change ("body").   *)
(***************************************************************************)
EXTENDS ConfigSchema

-----------------------------------------------------------------------------
(* The fallback chain: SteamServer, then GameDefinition, then a default *)

AppId(spec, def) ==
  IF spec.appId # None THEN spec.appId
  ELSE IF def # None THEN def.appId ELSE 0

Image(spec, def) ==
  IF spec.image # "" THEN spec.image
  ELSE IF def # None /\ def.image # "" THEN def.image
  ELSE "steamcmd/steamcmd:ubuntu-22"

Args(spec, def) ==
  IF spec.args # <<>> THEN spec.args
  ELSE IF def # None THEN def.args ELSE <<>>

(* The server's command is a list, the definition's a single word *)
Command(spec, def) ==
  IF spec.command # <<>> THEN spec.command
  ELSE IF def # None /\ def.command # "" THEN <<def.command>> ELSE <<>>

Ports(spec, def) ==
  IF spec.ports # <<>> THEN spec.ports
  ELSE IF def # None THEN def.ports ELSE <<>>

Resources(spec, def) ==
  IF spec.resources # None THEN spec.resources
  ELSE IF def # None THEN def.resources ELSE None

(* Fault: the default of the API stands in for the mount path *)
InstallDirOfApi(def) ==
  IF def # None /\ def.installDir # "" THEN def.installDir ELSE "/data/server"

InstallDir(def) ==
  IF def # None /\ def.installDir # "" THEN def.installDir ELSE "/serverfiles"

-----------------------------------------------------------------------------
(* StatefulSet *)

Anonymous(spec) == spec.anonymous # FALSE

(* The selector is the label set, the game and the App ID included, and a  *)
(* selector is immutable.  An App ID that is not positive has no label.    *)
StatefulSetLabels(spec, def) ==
  [game |-> spec.game, appId |-> IF AppId(spec, def) > 0 THEN AppId(spec, def)
                                                         ELSE None]

SteamCMD(spec, def) ==
  [installDir  |-> InstallDir(def),
   login       |-> IF Anonymous(spec) THEN "anonymous" ELSE "credentials",
   appId       |-> AppId(spec, def),
   beta        |-> spec.beta,
   validate    |-> spec.validate # FALSE,
   credentials |-> IF ~Anonymous(spec) THEN spec.steamCredentialsSecret ELSE ""]

SchemaOf(def) ==
  IF def = None \/ def.configSchema = None THEN <<>> ELSE def.configSchema

InterpolatedArgs(spec, def) ==
  LET args == Args(spec, def)
  IN  IF InterpolationFails(args) THEN args  \* the error is swallowed
      ELSE InterpolateArgs(args, ConfigValues(spec.config, SchemaOf(def)))

ContainerPorts(spec, def) ==
  LET ports == Ports(spec, def)
  IN  [i \in DOMAIN ports |->
         [name     |-> ports[i].name,
          port     |-> ports[i].containerPort,
          protocol |-> IF ports[i].protocol = "" THEN "UDP"
                                                 ELSE ports[i].protocol]]

DefinitionEnv(def) == IF def # None THEN def.env ELSE <<>>

(* Fault: the variables of the specs override those of the secrets *)
MainEnvOverridden(spec, def, secretVars) ==
  MergeEnvVars(secretVars \o DefinitionEnv(def) \o spec.env)

MainEnv(spec, def, secretVars) ==
  MergeEnvVars(DefinitionEnv(def) \o spec.env \o secretVars)

(* The volume names the claim whether there is one or not *)
Volumes(spec) ==
  [claim |-> TRUE, files |-> [i \in DOMAIN spec.files |-> spec.files[i].path]]

(* secretVars is one of the orders in which the secrets may come out *)
PodTemplate(spec, def, secretVars) ==
  [labels    |-> StatefulSetLabels(spec, def),
   image     |-> Image(spec, def),
   install   |-> SteamCMD(spec, def),
   command   |-> Command(spec, def),
   args      |-> InterpolatedArgs(spec, def),
   ports     |-> ContainerPorts(spec, def),
   env       |-> MainEnv(spec, def, secretVars),
   resources |-> Resources(spec, def),
   volumes   |-> Volumes(spec)]

PodTemplates(spec, def) ==
  {PodTemplate(spec, def, vars) : vars \in SecretEnvVars(spec.config)}

(* What the properties ask of a config and its environments: every secret  *)
(* has a variable of its own.                                              *)
IsList(s) == s \in Seq(Range(s))

SecretsApart(spec, def) ==
  LET secrets == SecretKeys(spec.config)
  IN  /\ \A k, l \in secrets : EnvName(k) = EnvName(l) => k = l
      /\ IsFiniteSet(secrets) /\ IsList(DefinitionEnv(def)) /\ IsList(spec.env)

-----------------------------------------------------------------------------
(* PersistentVolumeClaim, Service, ConfigMap *)

(* Fault: no size of its own *)
StorageSizeNoDefault(spec, def) ==
  IF spec.storage # None THEN spec.storage
  ELSE IF def # None /\ def.storage # None THEN def.storage ELSE 0

StorageSize(spec, def) ==
  IF spec.storage # None THEN spec.storage
  ELSE IF def # None /\ def.storage # None THEN def.storage
  ELSE 20

ClaimLabels(spec) == [game |-> spec.game]

ServicePorts(spec, def) ==
  LET ports == Ports(spec, def)
  IN  [i \in DOMAIN ports |->
         [name       |-> ports[i].name,
          port       |-> IF ports[i].servicePort = 0
                           THEN ports[i].containerPort
                           ELSE ports[i].servicePort,
          targetPort |-> ports[i].containerPort,
          protocol   |-> IF ports[i].protocol = "" THEN "UDP"
                                                   ELSE ports[i].protocol]]

ServiceBody(spec, def) ==
  [selector |-> [game |-> spec.game],
   type     |-> IF spec.serviceType # "" THEN spec.serviceType
                                         ELSE "LoadBalancer",
   ports    |-> ServicePorts(spec, def)]

ConfigMapBody(spec) ==
  [labels |-> [game |-> spec.game],
   data   |-> [i \in DOMAIN spec.files |-> spec.files[i].content]]
=============================================================================
