--------------------------- MODULE ServerLifecycle ---------------------------
(***************************************************************************)
(* What the operator promises for SteamServers, whatever caches,           *)
(* conflicts, faults and restarts lie behind it: a server is guarded by    *)
(* the finalizer before it owns anything, a deletion is never taken back,  *)
(* only a guarded server that was released leaves resources without an     *)
(* owner, nothing else ever loses its owner, and both the deletion and the *)
(* clean-up complete.                                                      *)
(*                                                                         *)
(* The names are independent of each other: in a step every server takes   *)
(* one step of its own or stays as it is.                                  *)
(***************************************************************************)
CONSTANTS Servers,  \* names of SteamServers
          Kinds     \* the kinds of resources a server owns

VARIABLES phase,    \* [Servers -> "absent", "new", "guarded" or "deleting"]
          owns,     \* the kinds owned by the present server of a name
          orphans   \* the kinds left behind by an earlier one

vars == <<phase, owns, orphans>>

Init ==
  /\ phase = [s \in Servers |-> "absent"]
  /\ owns = [s \in Servers |-> {}]
  /\ orphans = [s \in Servers |-> {}]

-----------------------------------------------------------------------------
(* The server *)

Turn(s, from, to) ==
  /\ phase[s] = from /\ phase'[s] = to
  /\ owns'[s] = owns[s] /\ orphans'[s] = orphans[s]

Create(s)  == Turn(s, "absent", "new")
Guard(s)   == Turn(s, "new", "guarded")
Discard(s) == Turn(s, "new", "absent")
Mark(s)    == Turn(s, "guarded", "deleting")

Release(s) ==
  /\ phase[s] = "deleting" /\ phase'[s] = "absent"
  /\ orphans'[s] = orphans[s] \cup owns[s]
  /\ owns'[s] = {}

-----------------------------------------------------------------------------
(* Its resources: made for the server, or taken over from an earlier one;  *)
(* made too late, for a server that is no more; deleted, or collected      *)

Own(s, k) ==
  /\ phase[s] \in {"guarded", "deleting"} /\ phase'[s] = phase[s]
  /\ k \notin owns[s]
  /\ owns'[s] = owns[s] \cup {k}
  /\ orphans'[s] = orphans[s] \ {k}

Leave(s, k) ==
  /\ phase'[s] = phase[s]
  /\ k \notin owns[s] \cup orphans[s]
  /\ owns'[s] = owns[s]
  /\ orphans'[s] = orphans[s] \cup {k}

Lose(s, k) ==
  /\ phase'[s] = phase[s]
  /\ owns'[s] = owns[s] \ {k}
  /\ orphans'[s] = orphans[s] \ {k}

Step(s) ==
  \/ Create(s) \/ Guard(s) \/ Discard(s) \/ Mark(s) \/ Release(s)
  \/ \E k \in Kinds : Own(s, k) \/ Leave(s, k) \/ Lose(s, k)

Stay(s) == Turn(s, phase[s], phase[s])

Next == \A s \in Servers : Step(s) \/ Stay(s)

Safety == Init /\ [][Next]_vars

Progress ==
  \A s \in Servers :
    /\ phase[s] = "deleting" ~> phase[s] # "deleting"
    /\ \A k \in Kinds : k \in orphans[s] ~> k \notin orphans[s]

Spec == Safety /\ Progress
=============================================================================
