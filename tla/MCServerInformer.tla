--------------------------- MODULE MCServerInformer ---------------------------
(***************************************************************************)
(* Instance of ServerInformer: values of every kind.                       *)
(***************************************************************************)
EXTENDS ServerInformer

Mixed == {[kind |-> "string", text |-> "a"], [kind |-> "object", text |-> "b"],
          [kind |-> "list", text |-> "a"]}
=============================================================================
