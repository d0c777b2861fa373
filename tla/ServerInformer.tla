---------------------------- MODULE ServerInformer ----------------------------
(***************************************************************************)
(* How SteamServers reach the controller: the informer decodes every       *)
(* object it lists and every event it watches, with the UnmarshalJSON of   *)
(* ConfigValue, and the controller writes whole objects back, encoded      *)
(* without a method of their own.                                          *)
(*                                                                         *)
(* The config of a server is one value here, [kind, text] as stored: a     *)
(* "string", an "object", a "list" or a "number".  The CRD gives a config  *)
(* value no type, so that all of them are accepted.  A list in which one   *)
(* object does not decode fails as a whole, and so does a watch at the     *)
(* first event that does not; the reflector then lists again.              *)
(***************************************************************************)
EXTENDS Naturals, Sequences

CONSTANTS None,       \* the object not found
          Servers,    \* names of SteamServers
          Values,     \* config values users write
          MaxEdits,   \* bound on user actions
          MaxFaults   \* bound on broken watches and restarts

ASSUME InformerBoundAssumption == MaxEdits \in Nat /\ MaxFaults \in Nat

VARIABLES server,    \* [Servers -> None or [rv, value, finalizer, deleting]]
          cache,     \* [Servers -> None or the same with a decoded value]
          events,    \* what the watch has yet to deliver, <<name, object>>
          watching,  \* FALSE: the reflector lists, or tries to
          synced,    \* the first list since the start has succeeded
          queue,     \* names waiting to be reconciled
          applied,   \* [Servers -> None or the config its resources are made of]
          edits,
          faults

informer == <<cache, events, watching, synced>>
vars == <<server, informer, queue, applied, edits, faults>>

-----------------------------------------------------------------------------
(* Decoding and encoding *)

Decodable(value) == value.kind \in {"string", "object"}

(* A string is the text; an object is taken apart; nothing else will do *)
UnmarshalJSON(value) == value.text

(* Fault: what was decoded from a string is encoded as nothing *)
MarshalEmpty(text) == [kind |-> "object", text |-> ""]

(* There is no MarshalJSON: the struct becomes an object *)
Marshal(text) == [kind |-> "object", text |-> text]

Decoded(o) ==
  IF o = None THEN None ELSE [o EXCEPT !.value = UnmarshalJSON(@)]

Readable(o) == o # None => Decodable(o.value)

-----------------------------------------------------------------------------
Init ==
  /\ server = [s \in Servers |-> None]
  /\ cache = server /\ events = <<>>
  /\ watching = TRUE /\ synced = TRUE
  /\ queue = {}
  /\ applied = [s \in Servers |-> None]
  /\ edits = 0 /\ faults = 0

(* The API server stores an object and tells the watch of it; the          *)
(* resources of an object that is gone are garbage                         *)
Store(s, o) ==
  /\ server' = [server EXCEPT ![s] = o]
  /\ applied' = [applied EXCEPT ![s] = IF o = None THEN None ELSE @]
  /\ events' = IF watching THEN Append(events, <<s, o>>) ELSE events

-----------------------------------------------------------------------------
(* Users.  The number of their actions and of the operator's writes makes  *)
(* a resourceVersion.                                                      *)

UserActs == edits < MaxEdits /\ edits' = edits + 1

CreateServer(s) ==
  /\ UserActs
  /\ server[s] = None
  /\ \E v \in Values :
       Store(s, [rv |-> <<edits', 0>>, value |-> v, finalizer |-> FALSE,
                 deleting |-> FALSE])
  /\ UNCHANGED <<cache, watching, synced, queue, faults>>

EditServer(s) ==
  /\ UserActs
  /\ server[s] # None
  /\ \E v \in Values :
       /\ v # server[s].value
       /\ Store(s, [server[s] EXCEPT !.value = v, !.rv = <<edits', 0>>])
  /\ UNCHANGED <<cache, watching, synced, queue, faults>>

DeleteServer(s) ==
  /\ UserActs
  /\ server[s] # None /\ ~server[s].deleting
  /\ Store(s, IF server[s].finalizer
              THEN [server[s] EXCEPT !.deleting = TRUE, !.rv = <<edits', 0>>]
              ELSE None)
  /\ UNCHANGED <<cache, watching, synced, queue, faults>>

UserNext == \E s \in Servers : CreateServer(s) \/ EditServer(s) \/ DeleteServer(s)

-----------------------------------------------------------------------------
(* The reflector.  A list that fails is repeated: nothing has changed.     *)

List ==
  /\ ~watching
  /\ \A s \in Servers : Readable(server[s])
  /\ cache' = [s \in Servers |-> Decoded(server[s])]
  /\ queue' = queue \cup {s \in Servers : cache'[s] # cache[s]}
  /\ watching' = TRUE /\ synced' = TRUE /\ events' = <<>>
  /\ UNCHANGED <<server, applied, edits, faults>>

Deliver ==
  /\ watching /\ events # <<>>
  /\ LET s == Head(events)[1]
         o == Head(events)[2]
     IN  IF Readable(o)
         THEN /\ cache' = [cache EXCEPT ![s] = Decoded(o)]
              /\ queue' = queue \cup {s}
              /\ events' = Tail(events)
              /\ UNCHANGED watching
         ELSE /\ watching' = FALSE
              /\ events' = <<>>
              /\ UNCHANGED <<cache, queue>>
  /\ UNCHANGED <<server, synced, applied, edits, faults>>

Fault == faults < MaxFaults /\ faults' = faults + 1

WatchBreaks ==
  /\ Fault
  /\ watching
  /\ watching' = FALSE /\ events' = <<>>
  /\ UNCHANGED <<server, cache, synced, queue, applied, edits>>

(* Also what the process does to itself when the first list does not       *)
(* succeed in time: Start fails, main exits, the container is started      *)
(* again.                                                                  *)
Restart ==
  /\ Fault
  /\ cache' = [s \in Servers |-> None]
  /\ watching' = FALSE /\ synced' = FALSE /\ events' = <<>>
  /\ queue' = {}
  /\ UNCHANGED <<server, applied, edits>>

-----------------------------------------------------------------------------
(* The worker.  A reconciliation is one step here, and what makes it fail  *)
(* is a conflict; SteamServerController has its steps and failures.        *)

Taken(s) ==
  /\ synced /\ s \in queue
  /\ UNCHANGED <<cache, watching, synced, edits, faults>>

Leave(s) == queue' = queue \ {s} /\ UNCHANGED <<server, events>>

(* Update writes the object as it was decoded; a conflict is repeated *)
Update(s, o, again) ==
  IF server[s] # None /\ server[s].rv = cache[s].rv
  THEN Store(s, o) /\ queue' = IF again THEN queue ELSE queue \ {s}
  ELSE UNCHANGED <<server, events, applied, queue>>

(* Without its finalizer a deleted object is gone *)
HandleDeletion(s) ==
  /\ Taken(s) /\ cache[s] # None /\ cache[s].deleting
  /\ IF cache[s].finalizer THEN Update(s, None, FALSE)
     ELSE Leave(s) /\ UNCHANGED applied

AddFinalizer(s) ==
  /\ Taken(s) /\ cache[s] # None /\ ~cache[s].deleting /\ ~cache[s].finalizer
  /\ Update(s, [cache[s] EXCEPT !.finalizer = TRUE, !.value = Marshal(@),
                                !.rv = <<@[1], @[2] + 1>>], TRUE)

(* Fault: resources that exist are left as they are *)
ReconcileChildrenOnce(s) ==
  /\ Taken(s) /\ cache[s] # None /\ ~cache[s].deleting /\ cache[s].finalizer
  /\ applied' = [applied EXCEPT ![s] = IF @ = None THEN cache[s].value ELSE @]
  /\ Leave(s)

ReconcileChildren(s) ==
  /\ Taken(s) /\ cache[s] # None /\ ~cache[s].deleting /\ cache[s].finalizer
  /\ applied' = [applied EXCEPT ![s] = cache[s].value]
  /\ Leave(s)

ReconcileGone(s) == Taken(s) /\ cache[s] = None /\ Leave(s) /\ UNCHANGED applied

Reconcile(s) ==
  \/ ReconcileGone(s) \/ HandleDeletion(s) \/ AddFinalizer(s)
  \/ ReconcileChildren(s)

Next ==
  \/ UserNext
  \/ List \/ Deliver \/ WatchBreaks \/ Restart
  \/ \E s \in Servers : Reconcile(s)

Spec == Init /\ [][Next]_vars

(* The reflector lists again with a growing delay, and the worker gets to  *)
(* every name in the queue.                                                *)
FairSpec ==
  /\ Spec
  /\ WF_vars(List) /\ WF_vars(Deliver)
  /\ \A s \in Servers : WF_vars(Reconcile(s))

-----------------------------------------------------------------------------
(* Properties *)

Meaning(value) == IF Decodable(value) THEN UnmarshalJSON(value) ELSE None

(* No write of the operator changes what a user has configured, although   *)
(* it writes the whole object in another shape than it read; and a value   *)
(* that the operator cannot read it never replaces.                        *)
ConfigSurvives ==
  [][\A s \in Servers :
       Reconcile(s) /\ server[s] # None /\ server'[s] # None
         => Meaning(server'[s].value) = Meaning(server[s].value)]_vars

(* What the user wants of s is done: its resources are made of its config, *)
(* or, if it is deleted, it is gone.                                       *)
Served(s) ==
  server[s] # None =>
    ~server[s].deleting /\ applied[s] = Meaning(server[s].value)

(* The part of it that is not about the end: once all that was watched has *)
(* been delivered, a server is served as soon as it has left the queue.    *)
(* Nothing needs an event, a list or a restart that may not come.          *)
SettledServed ==
  watching /\ events = <<>> => \A s \in Servers \ queue : Served(s)

(* A server that is deleted has the finalizer to wait for *)
Awaited(s) == server[s] # None /\ server[s].deleting => server[s].finalizer

(* Outside the queue, a copy that is up to date has been acted on *)
ActedOn(s) ==
  s \notin queue /\ server[s] # None /\ cache[s] # None
  /\ cache[s].rv = server[s].rv
    => /\ ~cache[s].deleting /\ cache[s].finalizer
       /\ applied[s] = cache[s].value

(* While the watch lasts, the last event of s is of its stored object, and *)
(* without one the copy is                                                 *)
Pending(s) == {i \in 1..Len(events) : events[i][1] = s}

Told(s) ==
  watching =>
    /\ Pending(s) = {} => Readable(server[s]) /\ cache[s] = Decoded(server[s])
    /\ \A i \in Pending(s) :
         (\A j \in Pending(s) : j <= i) => events[i][2] = server[s]

(* What makes SettledServed inductive: no change is lost between the API   *)
(* server and the worker, and no name leaves the queue before its work is  *)
(* done.                                                                   *)
NothingMissed == \A s \in Servers : Awaited(s) /\ ActedOn(s) /\ Told(s)

(* A value that could not be decoded does no lasting harm: when it has     *)
(* been repaired or removed, every server is served in the end, whatever   *)
(* was missed in between.                                                  *)
ServedWhenReadable ==
  (<>[]\A s \in Servers : Readable(server[s])) => <>[]\A s \in Servers : Served(s)

-----------------------------------------------------------------------------
(* What the repository says, and the run refutes (see README, Findings)    *)

(* "Array indicates this config accepts multiple values"                   *)
(* (gamedefinition_types.go), and DESIGN.md gives a list to one: what      *)
(* users store is served, or at least what others store.                   *)
NeighboursServed ==
  \A s \in Servers : (<>[]Readable(server[s])) => <>[]Served(s)
=============================================================================
