------------------------------- MODULE GamePod -------------------------------
(***************************************************************************)
(* From the specs a user writes to the game that runs: admission, the      *)
(* builders, the claim, and the pod the kubelet starts from the template.  *)
(*                                                                         *)
(* One server and its definition.  The four resources are reconciled in    *)
(* one step here; SteamServerController has the steps and what may happen  *)
(* between them.  A pod goes through the steps "mount", "install", "start" *)
(* and "run".  Containers do not share files but on the mounted volume.    *)
(***************************************************************************)
EXTENDS Admission, CommandLine

CONSTANTS Specs,    \* SteamServer specs a user may write
          Defs,     \* GameDefinition specs a user may write
          MaxEdits  \* bound on the users' and the cluster's interventions

ASSUME PodBoundAssumption == MaxEdits \in Nat

VARIABLES server,     \* the admitted spec, or None
          def,        \* the admitted definition, or None
          configMap,  \* the contents of the config files, or None
          claim,      \* the size of the claim, or None
          template,   \* the pod template of the StatefulSet, or None
          service,    \* the Service's body, or None
          volume,     \* what is installed on the volume of the claim: [app, beta]
          pod,        \* None or [template, step]
          edits

specs == <<server, def>>
resources == <<configMap, claim, template, service>>
vars == <<specs, resources, volume, pod, edits>>

Init ==
  /\ server = None /\ def = None
  /\ configMap = None /\ claim = None /\ template = None /\ service = None
  /\ volume = {} /\ pod = None
  /\ edits = 0

Happens == edits < MaxEdits /\ edits' = edits + 1

-----------------------------------------------------------------------------
(* Users and the API server *)

WriteDefinition ==
  /\ Happens
  /\ \E d \in Defs : DefinitionAccepted(d) /\ def' = DefinitionAdmitted(d)
  /\ UNCHANGED <<server, resources, volume, pod>>

WriteServer ==
  /\ Happens
  /\ \E spec \in Specs : ServerAccepted(spec) /\ server' = ServerAdmitted(spec)
  /\ UNCHANGED <<def, resources, volume, pod>>

-----------------------------------------------------------------------------
(* The operator.  Secrets may come out in any order, and a selector that   *)
(* would change makes the API server refuse the StatefulSet; the Service   *)
(* is not reconciled then.                                                 *)

Definition == IF server.game = None THEN None ELSE def

Accepted ==
  /\ server # None
  /\ server.game # None =>
       /\ def # None /\ ValidDefinition(def)
       /\ def.configSchema # None => ValidateConfig(server.config, def.configSchema)

SelectorKept ==
  template = None \/ template.labels = StatefulSetLabels(server, Definition)

ReconcileChildren ==
  /\ Accepted
  /\ configMap' = IF server.files = <<>> THEN configMap
                  ELSE ConfigMapBody(server).data
  /\ LET size == StorageSize(server, Definition)
     IN  claim' = IF claim = None /\ size # 0 THEN size ELSE claim
  /\ IF SelectorKept
     THEN /\ template' \in PodTemplates(server, Definition)
          /\ LET body == ServiceBody(server, Definition)
             IN  service' = IF ServiceAccepted(body) THEN body ELSE service
     ELSE UNCHANGED <<template, service>>
  /\ UNCHANGED <<specs, volume, pod, edits>>

-----------------------------------------------------------------------------
(* The StatefulSet controller and the kubelet *)

VolumeDir == "/serverfiles"

PodIn(step) == pod # None /\ pod.step = step

PodGoes(step) ==
  /\ pod' = [pod EXCEPT !.step = step]
  /\ UNCHANGED <<specs, resources, edits>>

(* Ports have names of their own, and so have mounts their paths; asked of *)
(* the pod, not of the template of a StatefulSet                           *)
PodAccepted(t) ==
  /\ \A i, j \in DOMAIN t.ports : t.ports[i].name = t.ports[j].name => i = j
  /\ IsInjective(<<VolumeDir>> \o t.volumes.files)

CreatePod ==
  /\ template # None /\ pod = None
  /\ PodAccepted(template)
  /\ pod' = [template |-> template, step |-> "mount"]
  /\ UNCHANGED <<specs, resources, volume, edits>>

(* Pods are replaced in order: only one that is ready is *)
ReplacePod ==
  /\ PodIn("run") /\ pod.template # template
  /\ pod' = None
  /\ UNCHANGED <<specs, resources, volume, edits>>

Mount ==
  /\ PodIn("mount")
  /\ claim # None
  /\ LET files == pod.template.volumes.files
     IN  files # <<>> => configMap # None /\ Len(files) <= Len(configMap)
  /\ PodGoes("install") /\ UNCHANGED volume

(* The init container: SteamCMD ends, and is started again if it failed *)
Install ==
  /\ PodIn("install")
  /\ LET result == SteamCMDRun(pod.template.install)
     IN  /\ result.app # None
         /\ volume' = IF result.dir = VolumeDir
                      THEN {old \in volume : old.app # result.app.app} \cup {result.app}
                      ELSE volume
  /\ PodGoes("start")

StartGame == PodIn("start") /\ PodGoes("run") /\ UNCHANGED volume

(* The game ends; its container alone is started again *)
GameEnds ==
  /\ Happens
  /\ PodIn("run")
  /\ pod' = [pod EXCEPT !.step = "start"]
  /\ UNCHANGED <<specs, resources, volume>>

DeletePod ==
  /\ Happens
  /\ pod # None
  /\ pod' = None
  /\ UNCHANGED <<specs, resources, volume>>

ClusterNext ==
  \/ CreatePod \/ ReplacePod \/ Mount \/ Install \/ StartGame
  \/ GameEnds \/ DeletePod

Next == WriteDefinition \/ WriteServer \/ ReconcileChildren \/ ClusterNext

Spec == Init /\ [][Next]_vars

(* The server is reconciled whenever there is something to do, and the     *)
(* cluster goes on with the pod; games need not end nor users write.       *)
FairSpec ==
  /\ Spec
  /\ WF_vars(ReconcileChildren)
  /\ WF_vars(CreatePod) /\ WF_vars(ReplacePod) /\ WF_vars(Mount)
  /\ WF_vars(Install) /\ WF_vars(StartGame)

-----------------------------------------------------------------------------
(* Properties *)

(* What ArgsAsAsked asks of users: where a server is accepted with a       *)
(* definition, every argument is a text or refers to a key that has a      *)
(* value, and every secret has a variable of its own.                      *)
ArgsResolve(spec, d) ==
  LET args == Args(spec, d)
  IN  /\ \A i \in DOMAIN args :
           \/ args[i].kind = "text"
           \/ /\ args[i].kind = "key"
              /\ args[i].key \in DOMAIN ConfigValues(spec.config, SchemaOf(d))
      /\ SecretsApart(spec, d)

AdmittedDefs == {DefinitionAdmitted(d) : d \in {x \in Defs : DefinitionAccepted(x)}}

AdmittedSpecs == {ServerAdmitted(spec) : spec \in {x \in Specs : ServerAccepted(x)}}

ResolvingSpecs(specSet, defSet) ==
  /\ \A spec \in specSet : spec.game = None => ArgsResolve(spec, None)
  /\ \A spec \in specSet, d \in defSet :
       spec.game # None /\ (d.configSchema # None => ValidateConfig(spec.config, d.configSchema))
         => ArgsResolve(spec, d)

(* What a game is started with: Expand applies to its arguments too *)
StartedWith(t) == [i \in DOMAIN t.args |-> Expand(t.args[i], t.env)]

(* What the user asks an argument to be: the secret or the value the       *)
(* server's config gives the key, or else the schema's default, or else    *)
(* nothing; a text is itself.                                              *)
Asked(arg) ==
  IF arg.kind # "key" THEN Literal(arg.text)
  ELSE LET config == server.config
           schema == SchemaOf(Definition)
       IN  IF arg.key \in DOMAIN config
           THEN Literal(IF config[arg.key].secret # None
                        THEN config[arg.key].secret ELSE config[arg.key].value)
           ELSE Literal(IF arg.key \in DOMAIN schema THEN schema[arg.key].default
                                                     ELSE "")

(* ResolveConfigValues, InterpolateArgs, MergeEnvVars and the kubelet      *)
(* together give every argument the value that was asked for, whatever     *)
(* else the environment of the definition and of the server contains.      *)
ArgsAsAsked ==
  [][template' # template =>
       LET args == Args(server, Definition)
       IN  \A i \in DOMAIN args :
             args[i].kind # "malformed" =>
               StartedWith(template')[i] = Asked(args[i])]_vars

(* The App and the branch of a template are on the volume *)
FilesThere(t) == [app |-> t.install.appId, beta |-> t.install.beta] \in volume

OnVolume(t) == t.install.installDir = VolumeDir
NoGame(t)   == t.labels.game = None

(* A game that runs finds the App and the branch of its own template       *)
(* installed, however often it ends, its pod is replaced, its specs are    *)
(* edited, and whatever pods of other templates, on the volume or off it,  *)
(* came in between: always in fallback mode, where the builder chooses the *)
(* directory, and with a definition if its directory is the mounted one    *)
(* (that it need not be is a finding, GameHasItsFiles).                    *)
FilesReachTheGame ==
  PodIn("run") /\ (NoGame(pod.template) \/ OnVolume(pod.template))
    => FilesThere(pod.template)

(* What makes FilesReachTheGame inductive: a template of fallback mode, of *)
(* the StatefulSet or of an old pod, installs into the volume, and what a  *)
(* pod past its installation has installed there is still there.           *)
FilesInv ==
  /\ template # None /\ NoGame(template) => OnVolume(template)
  /\ pod # None /\ NoGame(pod.template) => OnVolume(pod.template)
  /\ (PodIn("start") \/ PodIn("run")) /\ OnVolume(pod.template)
       => FilesThere(pod.template)

(* A user who writes specs that are accepted and then leaves them alone    *)
(* gets a running game of the StatefulSet's current template, and a        *)
(* Service.                                                                *)
GameComesUp ==
  <>[]Accepted =>
     <>[](PodIn("run") /\ pod.template = template /\ service # None)

-----------------------------------------------------------------------------
(* What the repository says, and the runs refute (see README, Findings)    *)

(* "Single PVC mounted at /data. Game files and saves co-located"          *)
(* (DESIGN.md): a game that runs has its files on the volume.              *)
GameHasItsFiles == PodIn("run") => FilesThere(pod.template)

(* "STEAM_USERNAME and STEAM_PASSWORD should be injected from a Kubernetes *)
(* Secret" (command.go): with them, SteamCMD can log in.                   *)
LoginSucceeds ==
  PodIn("install") => SteamCMDRun(pod.template.install).in

(* "User sets crossplay.value = true -> args include -crossplay"           *)
(* (adding-games.md): a config mapped to a flag adds it.                   *)
FlagsAsMapped ==
  [][template' # template /\ Definition # None /\ Definition.configSchema # None =>
       \A k \in DOMAIN server.config \cap DOMAIN Definition.configSchema :
         LET mapTo == Definition.configSchema[k].mapTo
         IN  mapTo # None /\ mapTo.type = "arg"
               /\ server.config[k].value = mapTo.condition
             => Literal(mapTo.value) \in Range(template'.args)]_vars

(* "Apply diffs (create/update/delete resources)" (DESIGN.md): once users  *)
(* leave accepted specs alone, the claim has the size they ask for, there  *)
(* is a ConfigMap just if they have files, and the pod template is theirs. *)
DiffsApplied ==
  <>[](Accepted =>
        /\ LET size == StorageSize(server, Definition)
           IN  size # 0 => claim = size
        /\ configMap = None <=> server.files = <<>>
        /\ template \in PodTemplates(server, Definition))
=============================================================================
