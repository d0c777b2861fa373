---------------------------- MODULE MCSteamServer ----------------------------
(***************************************************************************)
(* Instances of the operator for model checking: the specs and definitions *)
(* users may store, and what the controller may find in the cluster.       *)
(***************************************************************************)
EXTENDS SteamServerSettled

GamePort == [name |-> "game", containerPort |-> 2456, servicePort |-> 0,
             protocol |-> "UDP"]

WorldKey == <<"WORLD", "lower">>
PasswordKey == <<"PASSWORD", "lower">>
AdminKey == <<"ADMIN", "lower">>

Optional == [default |-> "", required |-> FALSE, enum |-> {}, mapTo |-> None]

Schema == WorldKey :> [Optional EXCEPT !.required = TRUE, !.enum = {"a", "b"}]
          @@ PasswordKey :> Optional @@ AdminKey :> Optional

(* Definitions *)
Valheim ==
  [appId |-> 896660, command |-> "./start.sh", image |-> "", 
   args |-> <<[kind |-> "key", key |-> WorldKey]>>, ports |-> <<GamePort>>,
   env |-> <<>>, configSchema |-> Schema, storage |-> None,
   installDir |-> "/data/server", resources |-> None]

NewPort   == [Valheim EXCEPT !.ports = <<[GamePort EXCEPT !.containerPort = 2457]>>]
NoCommand == [Valheim EXCEPT !.command = ""]
Changed   == [NewPort EXCEPT !.configSchema[WorldKey].enum = {"b"}]
OtherAppId == [Valheim EXCEPT !.appId = 258550]

(* Server specs *)
CONSTANT Game  \* the definition the servers of this instance refer to

World(w) == WorldKey :> [value |-> w, secret |-> None]
SecretKey(k) == k :> [value |-> "", secret |-> k[1]]

Midgard ==
  [game |-> Game, appId |-> None, image |-> "", command |-> <<>>,
   args |-> <<>>, ports |-> <<>>, resources |-> None, config |-> World("a"),
   env |-> <<>>, files |-> <<>>, storage |-> None, serviceType |-> "",
   beta |-> "", validate |-> TRUE, anonymous |-> TRUE,
   steamCredentialsSecret |-> ""]

WithFiles == [Midgard EXCEPT !.files = <<[path |-> "/cfg", content |-> "v1"]>>,
                             !.config = World("b")]
NoWorld   == [Midgard EXCEPT !.config = <<>>]
Fallback  == [Midgard EXCEPT !.game = None, !.config = <<>>, !.appId = 896660,
                             !.ports = <<GamePort>>]
Secrets   == SecretKey(PasswordKey) @@ SecretKey(AdminKey)
PasswordVar == [name |-> EnvName(PasswordKey), source |-> "guest"]
TwoSecrets == [Midgard EXCEPT !.config = World("a") @@ Secrets]

(* What the cluster shows *)
NoPod   == [replicas |-> 0, pod |-> None]
Ready   == [replicas |-> 1,
            pod |-> [phase |-> "Running", init |-> "other", main |-> "ready"]]
Failed  == [replicas |-> 1,
            pod |-> [phase |-> "Failed", init |-> "failed", main |-> "other"]]
Unassigned == [ingress |-> "", nodePort |-> 0]
Assigned   == [ingress |-> "10.0.0.1", nodePort |-> 30000]

OperatorDefs  == {Valheim, Changed, NoCommand}
OperatorSpecs == {Midgard, WithFiles, NoWorld}
FallbackSpecs == {Fallback}
NoDefs        == {}
OneDef        == {Valheim}
StaleDefs     == {Valheim, NoCommand}
AppIdDefs     == {Valheim, OtherAppId}
OneSpec       == {Midgard}
StaleSpecs    == {[Fallback EXCEPT !.config = Secrets, !.env = <<PasswordVar>>],
                  [Fallback EXCEPT !.files = WithFiles.files, !.storage = 0,
                                   !.serviceType = "NodePort"],
                  [Fallback EXCEPT !.ports = <<>>]}
SecretSpecs   == {TwoSecrets}

(* These users meet what the theorem about rollouts asks of users *)
ASSUME GoodSecrets == \A spec \in StaleSpecs : SecretsApart(spec, None)

ReadyOnly     == {Ready}
ReadyOrFailed == {Ready, Failed}
AssignedOnly  == {Assigned}
=============================================================================
