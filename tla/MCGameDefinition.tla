-------------------------- MODULE MCGameDefinition --------------------------
(***************************************************************************)
(* Instance of the GameDefinition controller: the specs a user can store.  *)
(* The CRD's schema rejects a missing port, a port out of range, an App ID *)
(* below 1 and an unknown mapTo type; an empty command passes it.          *)
(***************************************************************************)
EXTENDS GameDefinitionController

GamePort == [name |-> "game", containerPort |-> 2456, servicePort |-> 0,
             protocol |-> "UDP"]

Valheim ==
  [appId |-> 896660, command |-> "./start.sh", image |-> "", args |-> <<>>,
   ports |-> <<GamePort>>, env |-> <<>>, configSchema |-> None,
   storage |-> None, installDir |-> "/data/server", resources |-> None]

MCDefs == {Valheim, [Valheim EXCEPT !.image = "other"],
           [Valheim EXCEPT !.command = ""],
           [Valheim EXCEPT !.command = "", !.image = "other"]}
=============================================================================
