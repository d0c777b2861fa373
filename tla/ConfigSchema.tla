---------------------------- MODULE ConfigSchema ----------------------------
(***************************************************************************)
(* The pure functions of internal/config: a SteamServer's config map is    *)
(* validated against the configSchema of its GameDefinition, resolved into *)
(* values for the argument templates and environment variables for the     *)
(* secrets, and interpolated into the arguments.                           *)
(*                                                                         *)
(* Data.  A config map is a function from keys to [value, secret]: the     *)
(* literal (the empty string when there is none) and the SecretKeyRef, or  *)
(* None.  A schema is a function from keys to [default, required, enum].   *)
(* A key is <<name, spelling>>: keys that differ only in letter case or in *)
(* '-' versus '_' have the same name and different spellings.  An          *)
(* environment variable is [name, source]; the text substituted for a key  *)
(* is either literal text or a reference $(NAME) to a variable.            *)
(***************************************************************************)
EXTENDS Naturals, Sequences, FiniteSets, SequencesExt

CONSTANT None  \* the nil pointer, the unset field, the object not found

-----------------------------------------------------------------------------
(* Validation *)

Provided(cv) == cv.value # "" \/ cv.secret # None

ValidateConfig(config, schema) ==
  /\ \A k \in DOMAIN schema :
        schema[k].required => k \in DOMAIN config /\ Provided(config[k])
  /\ DOMAIN config \subseteq DOMAIN schema
  /\ \A k \in DOMAIN config :
        schema[k].enum # {} /\ config[k].value # ""
           => config[k].value \in schema[k].enum

-----------------------------------------------------------------------------
(* Resolution: a key's variable name keeps its name and drops its spelling *)

EnvName(key) == <<"CONFIG", key[1]>>

Literal(text) == [text |-> text]
EnvReference(name) == [env |-> name]

SecretKeys(config) == {k \in DOMAIN config : config[k].secret # None}

ConfigValues(config, schema) ==
  LET defaulted == {k \in DOMAIN schema : schema[k].default # ""}
  IN  [k \in defaulted \cup DOMAIN config |->
         IF k \in SecretKeys(config) THEN EnvReference(EnvName(k))
         ELSE IF k \in DOMAIN config THEN Literal(config[k].value)
         ELSE Literal(schema[k].default)]

(* Fault: the variables share the reference of the last key *)
SecretEnvVarsAliased(config) ==
  {[i \in DOMAIN keys |-> [name   |-> EnvName(keys[i]),
                           source |-> config[keys[Len(keys)]].secret]] :
     keys \in SetToSeqs(SecretKeys(config))}

(* The loop over the config map appends one variable per secret.  Go       *)
(* iterates over a map in a random order: any order may come out.          *)
SecretEnvVars(config) ==
  {[i \in DOMAIN keys |-> [name   |-> EnvName(keys[i]),
                           source |-> config[keys[i]].secret]] :
     keys \in SetToSeqs(SecretKeys(config))}

-----------------------------------------------------------------------------
(* Merging and interpolation *)

MergeEnvVar(merged, var) ==
  IF \E i \in DOMAIN merged : merged[i].name = var.name
  THEN [i \in DOMAIN merged |->
          IF merged[i].name = var.name THEN var ELSE merged[i]]
  ELSE Append(merged, var)

MergeEnvVars(vars) ==
  LET merged[n \in 0..Len(vars)] ==
        IF n = 0 THEN <<>> ELSE MergeEnvVar(merged[n - 1], vars[n])
  IN  merged[Len(vars)]

(* An argument is plain text, a reference to a config key, or a template   *)
(* that does not parse.  One malformed template fails the whole call.      *)
InterpolateArg(arg, values) ==
  CASE arg.kind = "text" -> Literal(arg.text)
    [] arg.kind = "key" -> IF arg.key \in DOMAIN values
                             THEN values[arg.key]
                             ELSE Literal("<no value>")

InterpolationFails(args) == \E i \in DOMAIN args : args[i].kind = "malformed"

InterpolateArgs(args, values) ==
  [i \in DOMAIN args |-> InterpolateArg(args[i], values)]
=============================================================================
