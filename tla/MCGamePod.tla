------------------------------ MODULE MCGamePod ------------------------------
(***************************************************************************)
(* Instances of GamePod: what users write.                                 *)
(***************************************************************************)
EXTENDS GamePod

GamePort == [name |-> "game", containerPort |-> 2456, servicePort |-> 0,
             protocol |-> None]

WorldKey    == <<"WORLD", "lower">>
PasswordKey == <<"PASSWORD", "lower">>
AdminKey    == <<"ADMIN_KEY", "dash">>
OtherAdminKey == <<"ADMIN_KEY", "underscore">>

Entry == [default |-> "", required |-> FALSE, enum |-> {}, mapTo |-> None]
Text(t) == [kind |-> "text", text |-> t]
Key(k) == [kind |-> "key", key |-> k]
Value(v) == [value |-> v, secret |-> None]
Secret(s) == [value |-> "", secret |-> s]
PasswordVar == [name |-> EnvName(PasswordKey), source |-> "guest"]

(* Definitions *)
Valheim ==
  [appId |-> 896660, command |-> "./start.sh", image |-> None,
   args |-> <<Text("-nographics"), Key(WorldKey), Key(PasswordKey)>>,
   ports |-> <<GamePort>>, env |-> <<PasswordVar>>,
   configSchema |-> WorldKey :> [Entry EXCEPT !.default = "a", !.enum = {"a", "b"}]
                    @@ PasswordKey :> [Entry EXCEPT !.required = TRUE],
   storage |-> None, installDir |-> "/serverfiles", resources |-> None]

EmptyDefaults == [Valheim EXCEPT !.installDir = "", !.storage = None, !.image = ""]
NoPorts    == [Valheim EXCEPT !.ports = <<>>]
NoCommand  == [Valheim EXCEPT !.command = ""]
DefaultDir == [Valheim EXCEPT !.installDir = None]
SamePortName ==
  [Valheim EXCEPT !.ports = <<GamePort, [GamePort EXCEPT !.containerPort = 2457]>>]
OptionalKey == [Valheim EXCEPT !.configSchema[WorldKey].default = ""]
Malformed ==
  [Valheim EXCEPT !.args = <<Key(WorldKey), [kind |-> "malformed", text |-> "{{"]>>]
Mapped ==
  [Valheim EXCEPT
     !.configSchema[WorldKey].mapTo =
        [type |-> "arg", value |-> "-crossplay", condition |-> "b"]]
TwoAdmins ==
  [Valheim EXCEPT !.args = <<Key(AdminKey), Key(OtherAdminKey)>>,
                  !.configSchema = AdminKey :> Entry @@ OtherAdminKey :> Entry]

(* Servers *)
Midgard ==
  [game |-> "valheim", appId |-> None, image |-> "", command |-> <<>>,
   args |-> <<>>, ports |-> <<>>, resources |-> None, env |-> <<PasswordVar>>,
   config |-> PasswordKey :> Secret("token"), files |-> <<>>, storage |-> None,
   serviceType |-> None, beta |-> "", validate |-> None,
   anonymous |-> None, steamCredentialsSecret |-> ""]

WorldB    == [Midgard EXCEPT !.config = @ @@ WorldKey :> Value("b"), !.env = <<>>]
BetaFiles == [Midgard EXCEPT !.beta = "test", !.validate = FALSE, !.storage = 50,
                !.files = <<[path |-> "/cfg", content |-> "v1"]>>]
NoPassword == [Midgard EXCEPT !.config = <<>>]
WrongPort  == [Midgard EXCEPT !.ports = <<[GamePort EXCEPT !.containerPort = 0]>>]
Fallback   == [Midgard EXCEPT !.game = None, !.appId = 896660,
                 !.ports = <<GamePort>>, !.args = <<Key(PasswordKey)>>]
NamedLogin == [Midgard EXCEPT !.anonymous = FALSE, !.steamCredentialsSecret = "steam"]
NoStorage  == [Midgard EXCEPT !.storage = 0]
Admins     == [Midgard EXCEPT !.config = AdminKey :> Secret("one")
                                         @@ OtherAdminKey :> Secret("two")]

GoodDefs  == {Valheim, DefaultDir, EmptyDefaults, NoPorts, NoCommand}
GoodSpecs == {Midgard, WorldB, BetaFiles, NoPassword, WrongPort, Fallback}

(* These users meet what the theorem about arguments asks of users *)
ASSUME GoodArguments ==
  ResolvingSpecs({ServerAdmitted(spec) : spec \in GoodSpecs},
                 {DefinitionAdmitted(d) : d \in GoodDefs})

JustValheim    == {Valheim}
JustMidgard    == {Midgard}
JustWorldB     == {WorldB}
JustDefaultDir == {DefaultDir}
JustSamePort   == {SamePortName}
JustOptional   == {OptionalKey}
JustMalformed  == {Malformed}
JustMapped     == {Mapped}
JustTwoAdmins  == {TwoAdmins}
JustAdmins     == {Admins}
JustNamedLogin == {NamedLogin}
JustNoStorage  == {NoStorage}
TwoSizes       == {Midgard, [Midgard EXCEPT !.storage = 50]}
FilesOrNone    == {BetaFiles, [BetaFiles EXCEPT !.files = <<>>]}
TwoApps        == {Valheim, [Valheim EXCEPT !.appId = 258550]}
=============================================================================
