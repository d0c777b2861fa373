--------------------------- MODULE GamePodProofs ---------------------------
(***************************************************************************)
(* Proofs about GamePod, for any specs users write and any number of       *)
(* edits, restarts and replaced pods: a running game has its files, and is *)
(* started with the arguments that were asked for.                         *)
(***************************************************************************)
EXTENDS GamePod, ConfigSchemaProofs

-----------------------------------------------------------------------------
(* SteamCMD *)

(* The kubelet leaves a text as it is. *)
LEMMA ExpandText ==
  ASSUME NEW text, NEW env
  PROVE  Expand(Literal(text), env) = Literal(text)
<1>1. DOMAIN Literal(text) = {"text"}
  BY DEF Literal
<1> QED BY <1>1 DEF Expand

LEMMA ExpandedCommand ==
  ASSUME NEW name, NEW args, NEW env
  PROVE  /\ Expanded(SteamCommand(name, args), env).name = name
         /\ Expanded(SteamCommand(name, args), env).args
              = [i \in DOMAIN args |-> Expand(args[i], env)]
BY DEF Expanded, SteamCommand

LEMMA ExpandedText ==
  ASSUME NEW name, NEW text, NEW env
  PROVE  Expanded(SteamCommand(name, <<Literal(text)>>), env).args[1].text = text
<1> DEFINE args == <<Literal(text)>>
<1>1. 1 \in DOMAIN args /\ args[1] = Literal(text)
  OBVIOUS
<1> HIDE DEF args
<1>2. Expanded(SteamCommand(name, args), env).args
        = [i \in DOMAIN args |-> Expand(args[i], env)]
  BY ExpandedCommand
<1>4. Expanded(SteamCommand(name, args), env).args[1] = Literal(text)
  BY <1>1, <1>2, ExpandText
<1>3. Literal(text).text = text
  BY DEF Literal
<1> QED BY <1>4, <1>3 DEF args

(* The parts of app_update's arguments keep their places. *)
LEMMA Places ==
  ASSUME NEW T, NEW app \in T, NEW branch \in Seq(T), NEW check \in Seq(T)
  PROVE  LET args == <<app>> \o branch \o check
         IN  /\ args \in Seq(T)
             /\ Len(args) = 1 + Len(branch) + Len(check)
             /\ args[1] = app
             /\ \A i \in 1..Len(branch) : args[i + 1] = branch[i]
<1>1. /\ <<app>> \o branch \in Seq(T) /\ Len(<<app>> \o branch) = 1 + Len(branch)
      /\ (<<app>> \o branch)[1] = app
      /\ \A i \in 1..Len(branch) : (<<app>> \o branch)[i + 1] = branch[i]
  OBVIOUS
<1> QED BY <1>1

LEMMA InstalledPlain ==
  ASSUME NEW args, NEW app, Len(args) \in Nat, Len(args) < 3, args[1] = Literal(app)
  PROVE  Installed(args) = [app |-> app, beta |-> ""]
<1>1. args[1].text = app
  BY DEF Literal
<1>2. ~(Len(args) >= 3)
  OBVIOUS
<1> QED BY <1>1, <1>2, Zenon DEF Installed

LEMMA InstalledBranch ==
  ASSUME NEW args, NEW app, NEW beta, Len(args) >= 3, args[1] = Literal(app),
         args[2] = Literal("-beta"), args[3] = Literal(beta)
  PROVE  Installed(args) = [app |-> app, beta |-> beta]
<1>1. \A text : Literal(text).text = text
  BY DEF Literal
<1>2. args[1].text = app /\ args[2].text = "-beta" /\ args[3].text = beta
  BY <1>1, Zenon
<1> QED BY <1>2, Zenon DEF Installed

(* What app_update installs is the App and the branch it is asked for. *)
LEMMA UpdateInstalls ==
  ASSUME NEW cmd, NEW env
  PROVE  LET update == Expanded(AppUpdate(cmd), env)
         IN  /\ update.name = "app_update"
             /\ Installed(update.args) = [app |-> cmd.appId, beta |-> cmd.beta]
<1> DEFINE app    == Literal(cmd.appId)
           flag   == Literal("-beta")
           beta   == Literal(cmd.beta)
           valid  == Literal("validate")
           T      == {app, flag, beta, valid}
           branch == IF cmd.beta # "" THEN <<flag, beta>> ELSE <<>>
           check  == IF cmd.validate THEN <<valid>> ELSE <<>>
           args   == <<app>> \o branch \o check
           final  == [i \in DOMAIN args |-> Expand(args[i], env)]
           update == Expanded(AppUpdate(cmd), env)
<1>1. update.name = "app_update" /\ update.args = final
  <2>1. AppUpdate(cmd) = SteamCommand("app_update", args)
    BY Zenon DEF AppUpdate
  <2> HIDE DEF args
  <2> QED BY <2>1, ExpandedCommand
<1>2. \A t \in T : Expand(t, env) = t
  BY ExpandText
<1>3. \/ branch = <<flag, beta>> /\ cmd.beta # ""
      \/ branch = <<>> /\ cmd.beta = ""
  BY Zenon
<1>4. check = <<valid>> \/ check = <<>>
  BY Zenon
<1> HIDE DEF app, flag, beta, valid
<1>5. /\ <<flag, beta>> \in Seq(T) /\ Len(<<flag, beta>>) = 2
      /\ <<flag, beta>>[1] = flag /\ <<flag, beta>>[2] = beta
      /\ <<valid>> \in Seq(T) /\ Len(<<valid>>) = 1
      /\ <<>> \in Seq(T) /\ Len(<<>>) = 0
      /\ app \in T
  OBVIOUS
<1> HIDE DEF T, branch, check
<1>6. branch \in Seq(T) /\ check \in Seq(T) /\ (Len(check) = 0 \/ Len(check) = 1)
  <2>1. branch \in Seq(T)
    BY <1>3, <1>5, Zenon
  <2>2. check \in Seq(T) /\ (Len(check) = 0 \/ Len(check) = 1)
    BY <1>4, <1>5, Zenon
  <2> QED BY <2>1, <2>2
<1>7. /\ args \in Seq(T)
      /\ Len(args) = 1 + Len(branch) + Len(check)
      /\ args[1] = app
      /\ \A i \in 1..Len(branch) : args[i + 1] = branch[i]
  BY <1>5, <1>6, Places
<1> HIDE DEF args
<1>8. DOMAIN final = DOMAIN args /\ \A i \in DOMAIN args : final[i] = args[i]
  BY <1>2, <1>7
<1>9. final = args
  BY <1>7, <1>8
<1>10. CASE branch = <<flag, beta>>
  <2>1. Len(args) >= 3 /\ args[2] = flag /\ args[3] = beta
    <3>1. Len(branch) = 2 /\ branch[1] = flag /\ branch[2] = beta
      BY <1>5, <1>10
    <3>2. args[1 + 1] = branch[1] /\ args[2 + 1] = branch[2]
      BY <1>7, <3>1
    <3>3. 1 + 1 = 2 /\ 2 + 1 = 3
      OBVIOUS
    <3> QED BY <1>6, <1>7, <3>1, <3>2, <3>3
  <2>2. Installed(args) = [app |-> cmd.appId, beta |-> cmd.beta]
    BY <1>7, <2>1, InstalledBranch DEF app, flag, beta
  <2> QED BY <1>1, <1>9, <2>2
<1>11. CASE branch = <<>> /\ cmd.beta = ""
  <2>1. Len(args) \in Nat /\ Len(args) < 3
    <3>1. Len(branch) = 0
      BY <1>5, <1>11, Zenon
    <3>2. Len(args) = 1 + 0 + Len(check)
      BY <1>7, <3>1, Zenon
    <3>3. \A n : n = 1 + 0 + 0 \/ n = 1 + 0 + 1 => n \in Nat /\ n < 3
      OBVIOUS
    <3> QED BY <1>6, <3>2, <3>3, Zenon
  <2>2. Installed(args) = [app |-> cmd.appId, beta |-> ""]
    BY <1>7, <2>1, InstalledPlain DEF app
  <2> QED BY <1>1, <1>9, <1>11, <2>2
<1> QED BY <1>3, <1>10, <1>11

(* The four commands as SteamCMD gets them. *)
LEMMA BuiltCommands ==
  ASSUME NEW cmd, cmd.installDir # "", NEW e
  PROVE  /\ Expanded(Build(cmd)[1], e).name = "force_install_dir"
         /\ Expanded(Build(cmd)[1], e).args[1].text = cmd.installDir
         /\ Expanded(Build(cmd)[2], e).name = "login"
         /\ Expanded(Build(cmd)[3], e).name = "app_update"
         /\ Installed(Expanded(Build(cmd)[3], e).args)
              = [app |-> cmd.appId, beta |-> cmd.beta]
         /\ Expanded(Build(cmd)[4], e).name = "quit"
<1>1. /\ Build(cmd)[1] = SteamCommand("force_install_dir", <<Literal(cmd.installDir)>>)
      /\ Build(cmd)[2] = Login(cmd)
      /\ Build(cmd)[3] = AppUpdate(cmd)
      /\ Build(cmd)[4] = SteamCommand("quit", <<>>)
  BY DEF Build
<1>2. PICK args : Login(cmd) = SteamCommand("login", args)
  BY Zenon DEF Login
<1>3. Expanded(SteamCommand("login", args), e).name = "login"
  BY ExpandedCommand
<1>4. Expanded(SteamCommand("quit", <<>>), e).name = "quit"
  BY ExpandedCommand
<1>5. \A list : Expanded(SteamCommand("force_install_dir", list), e).name
                   = "force_install_dir"
  BY ExpandedCommand
<1>6. Expanded(SteamCommand("force_install_dir", <<Literal(cmd.installDir)>>), e).args[1].text
        = cmd.installDir
  <2> DEFINE dir == cmd.installDir
  <2> HIDE DEF dir
  <2>1. Expanded(SteamCommand("force_install_dir", <<Literal(dir)>>), e).args[1].text = dir
    BY ExpandedText
  <2> QED BY <2>1 DEF dir
<1> QED BY <1>1, <1>2, <1>3, <1>4, <1>5, <1>6, UpdateInstalls, Zenon

(* An anonymous login needs no secret. *)
LEMMA AnonymousLogin ==
  ASSUME NEW cmd, NEW env, cmd.login = "anonymous"
  PROVE  LoggedIn(Expanded(Build(cmd)[2], env).args)
<1> DEFINE args == <<Literal("anonymous")>>
<1>1. Build(cmd)[2] = SteamCommand("login", args)
  BY DEF Build, Login
<1>2. DOMAIN args = {1} /\ args[1] = Literal("anonymous") /\ args = [i \in {1} |-> Literal("anonymous")]
  OBVIOUS
<1> HIDE DEF args
<1>3. Expanded(Build(cmd)[2], env).args = [i \in DOMAIN args |-> Expand(args[i], env)]
  BY <1>1, ExpandedCommand
<1>4. Expanded(Build(cmd)[2], env).args = args
  BY <1>2, <1>3, ExpandText
<1> QED BY <1>4 DEF LoggedIn, args

(* The command line, run in order: SteamCMD is in the directory of the     *)
(* template, because force_install_dir comes before the login that locks   *)
(* it; and what it installs, if anything, is the App and the branch of the *)
(* template.  An anonymous login always gets that far.  This holds for any *)
(* definition, wherever it installs.                                       *)
THEOREM SteamCMDInstalls ==
  ASSUME NEW cmd, cmd.installDir # ""
  PROVE  /\ SteamCMDRun(cmd).dir = cmd.installDir
         /\ SteamCMDRun(cmd).app # None \/ cmd.login = "anonymous"
              => SteamCMDRun(cmd).app = [app |-> cmd.appId, beta |-> cmd.beta]
<1> DEFINE e  == InitEnv(cmd)
           c1 == Expanded(Build(cmd)[1], e)
           c2 == Expanded(Build(cmd)[2], e)
           c3 == Expanded(Build(cmd)[3], e)
           c4 == Expanded(Build(cmd)[4], e)
           s0 == [dir |-> "", in |-> FALSE, app |-> None]
           s1 == RunCommand(s0, c1)
           s2 == RunCommand(s1, c2)
           s3 == RunCommand(s2, c3)
           s4 == RunCommand(s3, c4)
<1>1. SteamCMDRun(cmd) = s4
  BY DEF SteamCMDRun
<1> HIDE DEF e
<1>2. /\ c1.name = "force_install_dir" /\ c1.args[1].text = cmd.installDir
      /\ c2.name = "login"
      /\ c3.name = "app_update"
      /\ Installed(c3.args) = [app |-> cmd.appId, beta |-> cmd.beta]
      /\ c4.name = "quit"
  BY BuiltCommands, Zenon
<1> HIDE DEF c1, c2, c3, c4
<1>3. s1 = [dir |-> cmd.installDir, in |-> FALSE, app |-> None]
  BY <1>2 DEF RunCommand
<1> HIDE DEF s1
<1>4. s2 = [dir |-> cmd.installDir, in |-> LoggedIn(c2.args), app |-> None]
  BY <1>2, <1>3 DEF RunCommand
<1> HIDE DEF s2
<1>5. s3 = IF LoggedIn(c2.args) THEN [s2 EXCEPT !.app = Installed(c3.args)] ELSE s2
  BY <1>2, <1>4 DEF RunCommand
<1> HIDE DEF s3
<1>6. s4 = s3
  BY <1>2 DEF RunCommand
<1> HIDE DEF s4
<1>7. s4.dir = cmd.installDir
  BY <1>4, <1>5, <1>6
<1>8. ASSUME cmd.login = "anonymous"
      PROVE  LoggedIn(c2.args)
  BY <1>8, AnonymousLogin DEF c2
<1>9. LoggedIn(c2.args) => s4.app = [app |-> cmd.appId, beta |-> cmd.beta]
  BY <1>2, <1>4, <1>5, <1>6
<1>10. ~LoggedIn(c2.args) => s4.app = None
  BY <1>4, <1>5, <1>6
<1> QED BY <1>1, <1>7, <1>8, <1>9, <1>10

-----------------------------------------------------------------------------
(* A running game has its files *)

LEMMA FilesInit == Init => FilesInv
BY DEF Init, FilesInv, PodIn

(* A template that is built without a definition installs on the volume. *)
LEMMA TemplateInstalls ==
  ASSUME NEW t \in PodTemplates(server, Definition), NoGame(t)
  PROVE  OnVolume(t)
<1>1. PICK vars1 : t = PodTemplate(server, Definition, vars1)
  BY DEF PodTemplates
<1>2. t.install.installDir = InstallDir(Definition) /\ t.labels.game = server.game
  BY <1>1 DEF PodTemplate, SteamCMD, StatefulSetLabels
<1>3. Definition = None
  BY <1>2 DEF NoGame, Definition
<1>4. InstallDir(None) = VolumeDir
  BY DEF InstallDir, VolumeDir
<1> QED BY <1>2, <1>3, <1>4 DEF OnVolume

(* A step that moves the pod on and leaves the rest alone keeps FilesInv *)
LEMMA PodMoves ==
  ASSUME FilesInv, NEW step, pod # None, pod' = [pod EXCEPT !.step = step],
         UNCHANGED <<template, volume>>,
         step \in {"start", "run"} => PodIn("start") \/ PodIn("run")
  PROVE  FilesInv'
<1>1. pod'.template = pod.template /\ pod'.step \in {step, pod.step}
  OBVIOUS
<1> QED BY <1>1 DEF FilesInv, PodIn, OnVolume, NoGame, FilesThere

LEMMA FilesStep ==
  ASSUME FilesInv, [Next]_vars
  PROVE  FilesInv'
<1> USE DEF specs, resources
<1>1. CASE WriteDefinition \/ WriteServer
  BY <1>1 DEF WriteDefinition, WriteServer, FilesInv, PodIn, OnVolume, NoGame, FilesThere
<1>2. CASE ReconcileChildren
  <2>1. template' = template \/ template' \in PodTemplates(server, Definition)
    BY <1>2 DEF ReconcileChildren
  <2>2. template' # None /\ NoGame(template') => OnVolume(template')
    BY <2>1, TemplateInstalls DEF FilesInv
  <2>3. UNCHANGED <<pod, volume>>
    BY <1>2 DEF ReconcileChildren
  <2> QED BY <2>2, <2>3 DEF FilesInv, PodIn, OnVolume, NoGame, FilesThere
<1>3. CASE CreatePod
  BY <1>3 DEF CreatePod, FilesInv, PodIn, OnVolume, NoGame, FilesThere
<1>4. CASE ReplacePod \/ DeletePod
  BY <1>4 DEF ReplacePod, DeletePod, FilesInv, PodIn, OnVolume, NoGame, FilesThere
<1>5. CASE Mount
  <2>1. pod # None /\ pod' = [pod EXCEPT !.step = "install"] /\ UNCHANGED <<template, volume>>
    BY <1>5 DEF Mount, PodGoes, PodIn
  <2> QED BY <2>1, PodMoves
<1>6. CASE Install
  <2> DEFINE install == pod.template.install
             result  == SteamCMDRun(install)
  <2>1. /\ pod # None /\ pod' = [pod EXCEPT !.step = "start"] /\ template' = template
        /\ result.app # None
    BY <1>6 DEF Install, PodGoes, PodIn
  <2>2. ASSUME OnVolume(pod.template)
        PROVE  FilesThere(pod.template)'
    <3>1. install.installDir = VolumeDir /\ install.installDir # ""
      BY <2>2 DEF OnVolume, VolumeDir
    <3>2. /\ result.dir = VolumeDir
          /\ result.app = [app |-> install.appId, beta |-> install.beta]
      BY <2>1, <3>1, SteamCMDInstalls
    <3> HIDE DEF result
    <3>3. result.app \in volume'
      BY <1>6, <3>2 DEF Install, result
    <3>4. pod'.template = pod.template
      BY <2>1
    <3> QED BY <3>2, <3>3, <3>4 DEF FilesThere
  <2>3. pod'.template = pod.template
    BY <2>1
  <2> QED BY <2>1, <2>2, <2>3 DEF FilesInv, PodIn, OnVolume, NoGame, FilesThere
<1>7. CASE StartGame
  <2>1. /\ pod # None /\ pod' = [pod EXCEPT !.step = "run"] /\ UNCHANGED <<template, volume>>
        /\ PodIn("start")
    BY <1>7 DEF StartGame, PodGoes, PodIn
  <2> QED BY <2>1, PodMoves
<1>8. CASE GameEnds
  <2>1. /\ pod # None /\ pod' = [pod EXCEPT !.step = "start"] /\ UNCHANGED <<template, volume>>
        /\ PodIn("run")
    BY <1>8 DEF GameEnds, PodIn
  <2> QED BY <2>1, PodMoves
<1>9. CASE UNCHANGED vars
  BY <1>9 DEF vars, FilesInv, PodIn, OnVolume, NoGame, FilesThere
<1> QED BY <1>1, <1>2, <1>3, <1>4, <1>5, <1>6, <1>7, <1>8, <1>9
        DEF Next, ClusterNext

(* The inductive invariant, whatever users write: templates of fallback    *)
(* mode install onto the volume, and what a pod installed there is still   *)
(* there when its game starts, however many other pods came in between.    *)
THEOREM FilesInvCorrect == Spec => []FilesInv
<1>1. FilesInv /\ [Next]_vars => FilesInv'
  BY FilesStep
<1> QED BY FilesInit, <1>1, PTL DEF Spec

(* A game that runs in fallback mode, or whose template installs onto the  *)
(* volume, finds its own App and branch there: whatever is edited while    *)
(* pods start, whichever pods of old templates are still there, and        *)
(* however often games end and pods are deleted.                           *)
THEOREM FilesReachTheGameCorrect == Spec => []FilesReachTheGame
<1>1. FilesInv => FilesReachTheGame
  BY DEF FilesInv, FilesReachTheGame, PodIn
<1> QED BY FilesInvCorrect, <1>1, PTL

-----------------------------------------------------------------------------
(* A game is started with the arguments that were asked for *)

(* A reference to the variable of a secret becomes the secret, whatever    *)
(* the specs have in their environments and wherever the secret came out.  *)
LEMMA SecretExpands ==
  ASSUME NEW config, IsFiniteSet(SecretKeys(config)),
         \A k, l \in SecretKeys(config) : EnvName(k) = EnvName(l) => k = l,
         NEW secretVars \in SecretEnvVars(config), NEW V, NEW env \in Seq(V),
         NEW key \in SecretKeys(config)
  PROVE  Expand(EnvReference(EnvName(key)), MergeEnvVars(env \o secretVars))
           = Literal(config[key].secret)
<1>1. PICK n \in Nat : \E keys \in [1..n -> SecretKeys(config)] :
        InOrder(config, secretVars, keys, n)
  BY EverySecretComesOut
<1>2. PICK keys \in [1..n -> SecretKeys(config)] : InOrder(config, secretVars, keys, n)
  BY <1>1
<1> USE DEF InOrder
<1> DEFINE W      == V \cup {secretVars[i] : i \in 1..n}
           merged == MergeEnvVars(env \o secretVars)
<1>3. DOMAIN secretVars = 1..n /\ secretVars \in Seq(W) /\ env \in Seq(W)
  <2>1. \A i \in 1..n : secretVars[i] \in W
    OBVIOUS
  <2>2. V \subseteq W
    OBVIOUS
  <2>3. DOMAIN secretVars = 1..n /\ secretVars = [i \in 1..n |-> secretVars[i]]
    BY <1>2
  <2> HIDE DEF W
  <2> QED BY <2>1, <2>2, <2>3
<1>4. \A i \in 1..n : /\ secretVars[i].name = EnvName(keys[i])
                      /\ secretVars[i].source = config[keys[i]].secret
  BY <1>2
<1>5. \A i, j \in DOMAIN secretVars : secretVars[i].name = secretVars[j].name => i = j
  BY <1>2, <1>3, <1>4
<1>6. PICK i \in 1..n : keys[i] = key
  BY <1>2
<1> HIDE DEF W
<1>7. PICK p \in DOMAIN merged :
        /\ merged[p] = secretVars[i]
        /\ \A q \in DOMAIN merged : merged[q].name = secretVars[i].name => q = p
  <2>1. Holds(merged, secretVars[i])
    BY <1>3, <1>5, LaterVariablesWin
  <2> QED BY <2>1, Zenon DEF Holds
<1>8. p \in Nat
  <2>1. env \o secretVars \in Seq(W)
    BY <1>3
  <2>2. merged \in Seq(W)
    BY <2>1, MergeEnvVarsMerges
  <2> QED BY <2>2
<1> HIDE DEF merged
<1> DEFINE arg   == EnvReference(EnvName(key))
           named == {q \in DOMAIN merged : "env" \in DOMAIN arg /\ merged[q].name = arg.env}
<1>9. "env" \in DOMAIN arg /\ arg.env = EnvName(key)
  BY DEF EnvReference
<1>10. secretVars[i].name = EnvName(key) /\ merged[p].source = config[key].secret
  BY <1>4, <1>6, <1>7
<1> HIDE DEF arg
<1>11. named = {p}
  BY <1>7, <1>9, <1>10
<1>12. (CHOOSE q \in named : \A j \in named : j <= q) = p
  BY <1>8, <1>11
<1>13. Expand(arg, merged)
         = IF named = {} THEN arg
           ELSE Literal(merged[CHOOSE q \in named : \A j \in named : j <= q].source)
  BY Zenon DEF Expand
<1>14. Expand(arg, merged) = Literal(merged[p].source)
  BY <1>11, <1>12, <1>13, Zenon
<1> QED BY <1>10, <1>14 DEF arg, merged

(* Every argument of a template comes out as asked. *)
LEMMA ArgumentAsAsked ==
  ASSUME ArgsResolve(server, Definition),
         NEW secretVars \in SecretEnvVars(server.config),
         NEW i \in DOMAIN Args(server, Definition)
  PROVE  StartedWith(PodTemplate(server, Definition, secretVars))[i]
           = Asked(Args(server, Definition)[i])
<1> DEFINE d      == Definition
           config == server.config
           args   == Args(server, d)
           schema == SchemaOf(d)
           values == ConfigValues(config, schema)
           env    == MainEnv(server, d, secretVars)
           t      == PodTemplate(server, d, secretVars)
<1>1. /\ \A j \in DOMAIN args : \/ args[j].kind = "text"
                                \/ args[j].kind = "key" /\ args[j].key \in DOMAIN values
      /\ \A k, l \in SecretKeys(config) : EnvName(k) = EnvName(l) => k = l
      /\ IsFiniteSet(SecretKeys(config))
      /\ DefinitionEnv(d) \in Seq(Range(DefinitionEnv(d)))
      /\ server.env \in Seq(Range(server.env))
  BY DEF ArgsResolve, SecretsApart, IsList
<1>2. t.args = [j \in DOMAIN args |-> InterpolateArg(args[j], values)] /\ t.env = env
  <2>1. ~InterpolationFails(args)
    BY <1>1 DEF InterpolationFails
  <2>2. InterpolatedArgs(server, d) = InterpolateArgs(args, values)
    BY <2>1, Zenon DEF InterpolatedArgs
  <2>3. t.args = InterpolatedArgs(server, d) /\ t.env = env
    BY DEF PodTemplate
  <2> QED BY <2>2, <2>3 DEF InterpolateArgs
<1> HIDE DEF t
<1>3. StartedWith(t)[i] = Expand(InterpolateArg(args[i], values), env)
  BY <1>2 DEF StartedWith
<1>4. CASE args[i].kind = "text"
  <2>1. InterpolateArg(args[i], values) = Literal(args[i].text)
    BY <1>4 DEF InterpolateArg
  <2>2. Asked(args[i]) = Literal(args[i].text)
    BY <1>4 DEF Asked
  <2> QED BY <1>3, <2>1, <2>2, ExpandText DEF t
<1>5. CASE args[i].kind = "key" /\ args[i].key \in DOMAIN values
  <2> DEFINE key == args[i].key
  <2>1. InterpolateArg(args[i], values) = values[key]
    BY <1>5 DEF InterpolateArg
  <2>2. Asked(args[i]) =
          IF key \in DOMAIN config
          THEN Literal(IF config[key].secret # None THEN config[key].secret
                                                    ELSE config[key].value)
          ELSE Literal(IF key \in DOMAIN schema THEN schema[key].default ELSE "")
    BY <1>5 DEF Asked
  <2> HIDE DEF key
  <2>3. values[key] = IF key \in SecretKeys(config) THEN EnvReference(EnvName(key))
                      ELSE IF key \in DOMAIN config THEN Literal(config[key].value)
                      ELSE Literal(schema[key].default)
    BY <1>5 DEF ConfigValues, key
  <2>4. key \in DOMAIN config \/ key \in DOMAIN schema
    BY <1>5 DEF ConfigValues, key
  <2>5. CASE key \in SecretKeys(config)
    <3> DEFINE V     == Range(DefinitionEnv(d)) \cup Range(server.env)
               specs1 == DefinitionEnv(d) \o server.env
    <3>1. specs1 \in Seq(V)
      BY <1>1
    <3>2. env = MergeEnvVars(specs1 \o secretVars)
      BY Zenon DEF MainEnv
    <3> HIDE DEF specs1, V
    <3>3. Expand(EnvReference(EnvName(key)), env) = Literal(config[key].secret)
      BY <1>1, <2>5, <3>1, <3>2, SecretExpands
    <3>4. key \in DOMAIN config /\ config[key].secret # None
      BY <2>5 DEF SecretKeys
    <3> QED BY <1>3, <2>1, <2>2, <2>3, <2>5, <3>3, <3>4, Zenon DEF t
  <2>6. CASE key \notin SecretKeys(config)
    <3>1. CASE key \in DOMAIN config
      <4>1. config[key].secret = None
        BY <2>6, <3>1 DEF SecretKeys
      <4> QED BY <1>3, <2>1, <2>2, <2>3, <2>6, <3>1, <4>1, ExpandText, Zenon DEF t
    <3>2. CASE key \notin DOMAIN config
      BY <1>3, <2>1, <2>2, <2>3, <2>4, <2>6, <3>2, ExpandText, Zenon DEF t
    <3> QED BY <3>1, <3>2
  <2> QED BY <2>5, <2>6
<1> QED BY <1>1, <1>4, <1>5

(* The API server has admitted what is stored. *)
Stored ==
  /\ server # None => server \in AdmittedSpecs
  /\ def # None => def \in AdmittedDefs

LEMMA StoredStep ==
  ASSUME Stored, [Next]_vars
  PROVE  Stored'
<1> USE DEF Stored
<1>1. CASE WriteDefinition
  BY <1>1 DEF WriteDefinition, AdmittedDefs, AdmittedSpecs
<1>2. CASE WriteServer
  BY <1>2 DEF WriteServer, AdmittedDefs, AdmittedSpecs
<1>3. CASE ReconcileChildren \/ ClusterNext \/ UNCHANGED vars
  <2>1. UNCHANGED specs
    BY <1>3 DEF ReconcileChildren, ClusterNext, CreatePod, ReplacePod, Mount, Install,
                StartGame, GameEnds, DeletePod, PodGoes, vars
  <2> QED BY <2>1 DEF specs, AdmittedDefs, AdmittedSpecs
<1> QED BY <1>1, <1>2, <1>3 DEF Next

(* Wherever a server's arguments refer to keys that have a value and its   *)
(* secrets have variables of their own, each template starts the game with *)
(* just the arguments that were asked for: the definition's and the        *)
(* server's own environments never get in the way of a secret.             *)
THEOREM ArgsAsAskedCorrect ==
  ResolvingSpecs(AdmittedSpecs, AdmittedDefs) => (Spec => ArgsAsAsked)
<1> SUFFICES ASSUME ResolvingSpecs(AdmittedSpecs, AdmittedDefs)
             PROVE  Spec => ArgsAsAsked
  OBVIOUS
<1> DEFINE Right == LET args == Args(server, Definition)
                    IN  \A i \in DOMAIN args :
                          args[i].kind # "malformed" =>
                            StartedWith(template')[i] = Asked(args[i])
<1>1. ASSUME Stored, [Next]_vars, template' # template
      PROVE  Right
  <2>1. ReconcileChildren
    BY <1>1 DEF Next, WriteDefinition, WriteServer, ClusterNext, CreatePod, ReplacePod,
                Mount, Install, StartGame, GameEnds, DeletePod, PodGoes, vars, resources
  <2>2. Accepted /\ template' \in PodTemplates(server, Definition)
    BY <1>1, <2>1 DEF ReconcileChildren
  <2>3. ArgsResolve(server, Definition)
    BY <1>1, <2>2 DEF Accepted, Definition, Stored, ResolvingSpecs
  <2>4. PICK secretVars \in SecretEnvVars(server.config) :
          template' = PodTemplate(server, Definition, secretVars)
    BY <2>2 DEF PodTemplates
  <2> QED BY <2>3, <2>4, ArgumentAsAsked
<1>2. Stored /\ [Next]_vars => [template' # template => Right]_vars
  BY <1>1
<1>3. Init => Stored
  BY DEF Init, Stored
<1>4. Stored /\ [Next]_vars => Stored'
  BY StoredStep
<1> QED BY <1>2, <1>3, <1>4, PTL DEF Spec, ArgsAsAsked
=============================================================================
