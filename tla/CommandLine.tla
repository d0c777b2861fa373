----------------------------- MODULE CommandLine -----------------------------
(***************************************************************************)
(* The command line of internal/steamcmd, the environment of the init      *)
(* container, and what Kubernetes and SteamCMD make of the two.            *)
(*                                                                         *)
(* Data.  The command line is a sequence of commands [name, args].  An     *)
(* argument is a text, or a reference $(NAME) to an environment variable   *)
(* of the container (ConfigSchema).  The kubelet replaces references only: *)
(* a shell's $NAME is text like any other, and no shell runs here.         *)
(***************************************************************************)
EXTENDS ResourceBuilders

SteamCommand(name, args) == [name |-> name, args |-> args]

Login(cmd) ==
  SteamCommand("login",
    IF cmd.login = "anonymous" THEN <<Literal("anonymous")>>
    ELSE <<Literal("$STEAM_USERNAME"), Literal("$STEAM_PASSWORD")>>)

(* Fault: the credentials as references the kubelet replaces; what the     *)
(* comment in the code asks for                                            *)
LoginByReference(cmd) ==
  SteamCommand("login",
    IF cmd.login = "anonymous" THEN <<Literal("anonymous")>>
    ELSE <<EnvReference("STEAM_USERNAME"), EnvReference("STEAM_PASSWORD")>>)

(* The StatefulSet builder never sets a beta password *)
AppUpdate(cmd) ==
  SteamCommand("app_update",
    <<Literal(cmd.appId)>>
    \o (IF cmd.beta # "" THEN <<Literal("-beta"), Literal(cmd.beta)>> ELSE <<>>)
    \o (IF cmd.validate THEN <<Literal("validate")>> ELSE <<>>))

(* Fault: the login comes before the directory *)
BuildLoginFirst(cmd) ==
  <<Login(cmd),
    SteamCommand("force_install_dir", <<Literal(cmd.installDir)>>),
    AppUpdate(cmd), SteamCommand("quit", <<>>)>>

(* Four commands, always *)
Build(cmd) ==
  <<SteamCommand("force_install_dir",
      <<Literal(IF cmd.installDir = "" THEN "/data/server" ELSE cmd.installDir)>>),
    Login(cmd), AppUpdate(cmd), SteamCommand("quit", <<>>)>>

(* A secret is represented by the key it is stored under *)
InitEnv(cmd) ==
  <<[name |-> "APP_ID", source |-> cmd.appId]>>
  \o (IF cmd.credentials # ""
      THEN <<[name |-> "STEAM_USERNAME", source |-> "username"],
             [name |-> "STEAM_PASSWORD", source |-> "password"]>>
      ELSE <<>>)

-----------------------------------------------------------------------------
(* The kubelet and SteamCMD *)

(* What a container gets for an argument: later variables of a name win,   *)
(* and a reference to no variable stays as it is.                          *)
Expand(arg, env) ==
  LET named == {i \in DOMAIN env : "env" \in DOMAIN arg /\ env[i].name = arg.env}
  IN  IF named = {} THEN arg
      ELSE Literal(env[CHOOSE i \in named : \A j \in named : j <= i].source)

(* SteamCMD takes the install directory only before the login, and         *)
(* installs only after it.                                                 *)
LoggedIn(args) ==
  args \in {<<Literal("anonymous")>>, <<Literal("username"), Literal("password")>>}

Installed(args) ==
  [app  |-> args[1].text,
   beta |-> IF Len(args) >= 3 /\ args[2].text = "-beta" THEN args[3].text ELSE ""]

RunCommand(state, command) ==
  CASE command.name = "force_install_dir" /\ ~state.in ->
         [state EXCEPT !.dir = command.args[1].text]
    [] command.name = "login" -> [state EXCEPT !.in = LoggedIn(command.args)]
    [] command.name = "app_update" /\ state.in ->
         [state EXCEPT !.app = Installed(command.args)]
    [] OTHER -> state

Expanded(command, env) ==
  [command EXCEPT !.args = [i \in DOMAIN @ |-> Expand(@[i], env)]]

SteamCMDRun(cmd) ==
  LET Run(state, i) == RunCommand(state, Expanded(Build(cmd)[i], InitEnv(cmd)))
  IN  Run(Run(Run(Run([dir |-> "", in |-> FALSE, app |-> None], 1), 2), 3), 4)
=============================================================================
