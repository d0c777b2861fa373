# A TLA+ model of the Boilerr operator

Boilerr is a Kubernetes operator for Steam game servers.  A `GameDefinition`
(cluster-scoped) says how a game is installed and run; a `SteamServer` refers to
one and asks for a server.  Two controllers in one process reconcile them.  This
directory holds the TLA+ modules that model them, the TLC instances that check
the models, and the TLAPS proofs of the safety properties.

## The system

| Component | State | Operations | Interacts with |
|---|---|---|---|
| GameDefinition controller (`internal/controller/gamedefinition_controller.go`) | none of its own: a work queue, the status in the API server | `Reconcile`, `validate` | reads the cache, writes `status.ready` |
| SteamServer controller (`internal/controller/steamserver_controller.go`) | a work queue; within one `Reconcile`, the server and definition it fetched | `Reconcile`: finalizer, definition, validation, four child resources, status; `handleDeletion`, `setErrorStatus`, `findSteamServersForGameDef` | reads the caches, writes servers and children; gated by `status.ready` |
| Status (`updateStatus`, `determineState`, `determineAddress`) | what it has read of StatefulSet, Service and pod | one read after another, then a write | caches that move on meanwhile; the kubelet and the load balancer |
| Builders (`internal/resources`, `internal/steamcmd`) | none | what StatefulSet, Service, claim and ConfigMap should contain, and the command line of the init container | called by the SteamServer controller; run by kubelet and SteamCMD |
| Config (`internal/config`) | none | validate, resolve, interpolate, merge | called by controller and builders |
| API types (`api/v1alpha1`) | the objects | defaults and validation of the CRDs; `ConfigValue.UnmarshalJSON` | the API server; the informers |
| API server, informers, garbage collector, StatefulSet controller, kubelet, SteamCMD (not in the repository) | the store, the caches, the pods | optimistic locking, finalizers, immutability, events, owner references, restarts | everything |
| Start-up, charts, demo, test utilities | | | not modelled (below) |

What is hard here: every read comes from a cache that may be old; every write
may conflict, be refused, fail, or be applied without the caller learning of it;
users edit and delete while a reconciliation is between two of its calls; the
process may stop anywhere and keeps nothing but what is in the API server; names
are reused by new objects with new uids; pods, which decide the status, are read
but not watched; one object that does not decode blocks the list of all.

What makes each part correct:

- GameDefinition controller: `ready` is raised only by a verdict on the very
  spec it is stored with, and agrees with the spec in the end.
- SteamServer controller: what users wrote survives; what owns resources has
  the finalizer; templates come from validated pairs; the resources, the
  deletions and the error reports all catch up; nothing is left behind.
- Status: what is left in the status when the loop comes to rest is what the
  cluster shows, although a `Running` server is not polled.
- Builders, config and admission together: the game gets its files and the
  arguments that were asked for, and comes up.

The hazards this code is exposed to are listed, each at its line, in
`PROJECT.json`.

## Modules

| Module | Models | How |
|---|---|---|
| `ConfigSchema` | `internal/config/interpolate.go` | operators |
| `ResourceBuilders` | `internal/resources/*.go` | operators: the fallback chain, labels, templates, claims, services |
| `ServerStatus` | `determineState`, `determineAddress`, `determinePorts`, the two ways a status is computed | operators |
| `Admission` | the kubebuilder markers of `api/v1alpha1`, what the API server asks of a Service, and `validate` | operators: what is refused, what is filled in |
| `GameDefinitionController` | the first controller with store, cache, queue and users | state machine `DefSpec` |
| `SteamServerController` | the operator: both controllers, API server, caches, garbage collector, users | state machine `Spec`, `FairSpec` |
| `ServerLifecycle` | what the operator promises of a server | abstract specification |
| `SteamServerRefinement` | the mapping from the operator to `ServerLifecycle` | `INSTANCE ... WITH` |
| `SteamServerSettled` | when the operator may rest | properties and the inductive invariant behind them |
| `PodLifecycle` | `updateStatus` against pod, StatefulSet controller and load balancer | state machine `Spec`, `FairSpec` |
| `CommandLine` | `internal/steamcmd`, the init container's environment, and what kubelet and SteamCMD make of them | operators |
| `GamePod` | from the specs to the game that runs | state machine `Spec`, `FairSpec` |
| `ServerInformer` | how SteamServers are decoded, cached and written back | state machine `Spec`, `FairSpec` |
| `MC...` | instances | specs, definitions and observations |
| `...Proofs` | | theorems |

`ConfigSchema`, `ResourceBuilders`, `ServerStatus`, `Admission`,
`GameDefinitionController`, `SteamServerController`, `SteamServerRefinement`,
`SteamServerSettled` extend one another in this order; `CommandLine` extends the builders, `GamePod` both
`Admission` and `CommandLine`, `PodLifecycle` extends `ServerStatus`.  The three
smaller state machines refine what `SteamServerController` takes in one step or as
an observation: `PodLifecycle` the step `UpdateStatus`, `GamePod` what becomes of
the resources, `ServerInformer` the delivery of servers.  Each in turn takes in one
step what the large one spells out.

### The operator: state and actions

`def`, `server`, `child` are the API server's store, one object or `None` per
name; `defCache`, `serverCache`, `childCache` what the informers have delivered.
`Sync...` actions deliver one object and enqueue what the controller's watches
(`For`, `Owns`, `Watches`) enqueue for it.

`Status().Update` and `Update` carry the `resourceVersion` of the copy that was
read.  The model has no version numbers: an update from a copy succeeds exactly
when the stored object still equals the copy (`Updated`).  Two writes that leave
an object as it was are therefore no conflict in the model, while in the cluster
an edit and its reversal would be one; such a conflict is retried and leads to
the same state.  Every object has a `uid`, the value of `edits` when it was
created, so that an object created again under the same name is another one.

A reconciliation of a GameDefinition reads once and writes at most once: it is
one action.  A reconciliation of a SteamServer is a chain: `pc` goes through
"idle", the kinds "ConfigMap", "PVC", "StatefulSet", "Service", then "status",
or "fail" from anywhere.  One action stands for the part of `Reconcile` up to
and including one API call, and anything may happen between two.  `held` and
`heldDef` are the Go variables `server` and `gameDef`: fetched once and used to
the end.  The checks of steps 4 to 6 read the caches and write nothing, so they
are one action with the fetch (`AcceptServer`, `RejectServer`).

A child is `[owner, fixed, body]`: the uid in its controller reference, the part
that the API server refuses to change (the selector of a StatefulSet, the size of
a claim), and what an update may change.  `Send` is `Create` or `Update`: it is
accepted when the store still is what the cache showed, the fixed part is
unchanged and a Service has ports, with names of their own (`ServiceAccepted`), and
refused otherwise (`AlreadyExists`, `Conflict`, `Invalid`).  The last refusal is one for
good: the request comes back with a growing delay and fails at the Service each time
(line 127), so `EventuallyInStep` is about servers whose Service the API server accepts
(`Exposable`), and `RejectionReported` says that the others report `Error`.  In
`CreateOrUpdate` of the ConfigMap no call is made when nothing would change.

Deleting a server with the finalizer marks it; removing the finalizer then
removes the object.  The garbage collector deletes a child whose owner's uid is
gone.  Users may delete children too.  A cache takes over the state of an object and
not each of its changes; a child that is deleted before its creation was delivered
leaves the cache as it was, but a watch delivers both events, so that its owner is
enqueued (`Unseen`).

A request that is to come back (error, `Requeue`, `RequeueAfter` of 10 or 30
seconds) returns to `queue`; the delay is left out, as a request may wait in the
queue for any time.  Pods and load balancers are observations here (`Workloads`
and `Networks`); `PodLifecycle` has them in full.
`status.lastUpdated` is left out, so an error status written again with the
same content changes nothing in the model; in the cluster it produces an event
for a request that is queued again anyway.

### The abstract life cycle

`ServerLifecycle` knows of every name a phase (`absent`, `new`, `guarded`,
`deleting`), the kinds the present server owns, and the kinds an earlier one left.
Before it is guarded a server owns nothing; a deletion is never taken back; only a
release makes orphans of what was owned; and deletions and clean-ups complete
(`Progress`).  `SteamServerRefinement` computes these from the store alone: the
phase from the finalizer and the deletion timestamp, what is owned from the uid in
the owner reference.  Caches, queue and worker have no counterpart, so most steps of
the operator are stutters of the abstract one.

### The status loop

In `PodLifecycle` the worker's `pc` goes through the three reads of `updateStatus`
("sts", "svc", "pod") and the write.  `seen` is what it has read, `held` the server
it fetched.  `KubeletNext` moves the pod: init container runs, fails and is retried,
the game serves, crashes, is restarted, the pod is evicted or deleted and made again.
`CountReplicas` is the StatefulSet controller.  The caches of server, StatefulSet and
Service wake the worker (`For`, `Owns`); that of the pods does not.  `late` is a
history variable: a pod changed before its last change was counted and delivered, or
the worker read a copy that was not the pod.  It is used by the properties only.
The resynchronisation of the informers every ten hours is left out, so that what is
checked is what the events and the polling achieve without it.

### From specs to the game

`GamePod` starts with what users write: `Admission` refuses or fills in.  The four
resources are reconciled in one step; a selector that would change makes the API
server refuse the StatefulSet, and with it the Service is not reached.  The pod goes
through `Mount` (the claim and the ConfigMap must be there), `Install` (SteamCMD runs
the command line in order and leaves what it installed on the volume if it was told
the volume's directory), `StartGame` and `GameEnds`.  The API server's rules for ports and mounts
are asked of a pod when it is created (`PodAccepted`), not of the template.

### Delivery

In `ServerInformer` a list fails when one object does not decode, and a watch ends at
an event that does not; the reflector then lists again.  A `resourceVersion` is the
pair of the number of user actions and of the operator's writes since.  The operator
writes a server back as it decoded it, a string as an object.

### Faults

`ApiFault` (counted by `faults`): a call fails without being applied, or is
applied and its answer is lost.  `Crash` (also counted): both controllers
restart, their queues and progress are lost, the informers list every object.
`PodLifecycle` and `ServerInformer` have the same faults, and broken watches.

Operators whose comment begins with "Fault:" (`UpdatedUnlocked`,
`FetchWithoutFinalizer`, ...) are plausible mistakes in the code; no
specification uses them.  `PROJECT.json` pairs each with the property it breaks.

## Runs

| Run | Instance | Shows |
|---|---|---|
| `definitions` | 2 definitions, 4 specs, 3 edits, 1 fault | `DefSettledAccurate`, `DefSettledInv`; `ReadyOnlyWhenValid`, `ReadyEventuallyAccurate` |
| `operator` | 1 server, 1 definition, 3 specs each, 2 edits, 1 fault | `TemplatesAreValidated`, `SettledInStep`, `SettledInv`; `UserActsSurvive`; `EventuallyInStep`, `DeletionCompletes`, `NothingLeftBehind`, `RejectionReported` |
| `lifecycle` | 1 server in fallback mode, 3 edits, 1 fault, StatefulSets lag | `SettledInStep`, `ImplementsLifecycle`, `NothingLeftBehind`, and the invariants of the proofs |
| `stale_children` | 1 server in fallback mode, 3 specs (two secrets; files, no storage and node ports; no ports), 2 edits, 1 fault, all caches lag | `SettledInStep`; `RolloutOnlyReorders`; `EventuallyInStep`, `NothingLeftBehind`, `RejectionReported` |
| `pod` | 3 events from each of three stages of the pod, 1 fault | `SettledAccurate`, `StatusInv`, `ReadyReported`, `AddressReported` |
| `game_pod` | 6 server specs, 5 definitions, one with the CRD's directory, 5 edits and interventions | `FilesReachTheGame`, `FilesInv`; `ArgsAsAsked`, `GameComesUp` |
| `informer` | 2 servers, 3 kinds of config values, 4 edits, 1 fault | `SettledServed`, `NothingMissed`; `ConfigSurvives`, `ServedWhenReadable` |
| `diffs`, `secret_order`, `credentials`, `install_dir`, `installing` | the smallest that shows it | the findings below |

### Bounds

- `MaxEdits` of the operator counts every action of a user (create, edit, delete, of
  servers, definitions and children) after the start.  Definitions may exist at the
  start.  Two actions are enough to create a server and change it, or a definition, at
  any point of a reconciliation; three to create, delete and create again (what the
  finalizer argument and the refinement need).
- `MaxFaults`: one failure at any call, or one restart at any point.  The model
  retries from scratch after a failure, so a second failure meets the states of
  the first; the proofs have no bound.
- One server: the controller keeps nothing from one request to the next (`Finish`
  clears it, checked by `TypeOK`), and servers share only the definition.  The
  proofs are for any number of servers.  In `ServerInformer` they share the list, and
  there are two.
- `Laggards`: the kinds of children whose cache may be old while the worker runs.
  With none, the worker runs when all events on children have arrived; servers and
  definitions may be old in every run.  This bound is about children only;
  `lifecycle` lifts it for StatefulSets and `stale_children` for all kinds.
- The server of `stale_children` has one spec after another of three: one with two
  secrets and an environment variable of the name of one of them, one with files, storage
  of size zero and node ports, and one without ports, whose Service is refused.
- `EventuallyInStep` under lag is checked with two edits, which is where the state
  space of four lagging caches leaves off; its safety part, `SettledInStep`, is proved
  without a bound.
- `MaxEvents` of `PodLifecycle`: three from a pod that is missing, new or just
  started reach every stage: failed and retried download, crash and restart, eviction,
  deletion and a new pod, each together with a change of address or an edit.  The
  proofs have no bound.
- `GamePod`: five edits and interventions leave room for both objects, a change of
  either, and a game that ends or a pod that is deleted.

### Fairness

`FairSpec` of the operator obliges the informers to deliver, the garbage collector to
collect, the worker to finish the reconciliation it started (`WF`), and the queue to
hand out every request in the end (`SF` on `Start(s)`: the work queue is first in
first out and a delayed request is added after a bounded time, so requests of
other servers cannot starve it).  In `PodLifecycle` the StatefulSet controller counts,
the informers deliver and the worker works (`WF`): there is one server, and nothing
disables a step of the worker for good.  In `GamePod` the reconciliation, the kubelet
and the StatefulSet controller go on, and games need not end.  In `ServerInformer`
the reflector lists again with a growing delay, and the worker gets to every name.
Users, faults, pods and load balancers are never obliged.

`CHECK_DEADLOCK FALSE`: the system rests when everything is in step, the users
have used up their actions, and the queues are empty.

## Findings

1. **App ID** (`diffs`).  "Apply diffs (create/update/delete resources)"
   (DESIGN.md:66).  The selector contains the labels `boilerr.dev/game` and
   `boilerr.dev/app-id` (statefulset.go:81-85) and is immutable: after a change of
   either, every update is refused.  The same property is refuted for two other
   reasons: of an existing claim only the labels are compared, so a changed size has no
   effect (line 246, `MCResize.cfg`), and without config files line 181 returns early and
   the ConfigMap of earlier ones stays (`MCConfigMap.cfg`).
2. **Order of secrets** (`secret_order`).  "For v1, require manual restart (delete
   pod)" (DESIGN.md:457).  interpolate.go:77 iterates over a map; with two secrets
   the template differs from one reconciliation to the next, and the StatefulSet
   restarts the pod.
3. **Credentials** (`credentials`).  "STEAM_USERNAME and STEAM_PASSWORD should be
   injected from a Kubernetes Secret" (command.go:69).  They are in the environment,
   but the arguments are `$STEAM_USERNAME` and `$STEAM_PASSWORD`: no shell runs, and
   the kubelet replaces only `$(NAME)`.
4. **Install directory** (`install_dir`).  "Single PVC mounted at `/data`" and
   "Fallback: GameDefinition.InstallDir -> ServerFilesMountPath" (DESIGN.md:455,
   statefulset.go:179).  The CRD fills an absent `installDir` with `/data/server`, the
   volume is mounted at `/serverfiles`: the fallback is never reached and the game does
   not see what was installed.
5. **Installing** (`installing`).  "`Installing` - Init container downloading game
   files" (docs/local-testing.md:191).  Init containers are looked at in phase
   `Running` only (line 411), and a pod is `Pending` until they are done.

### Further instances

Smaller disagreements, each with an instance to run by hand; TLC refutes the property
the instance names.

| Instance | Module | What it shows |
|---|---|---|
| `MCAppId.cfg` | `MCSteamServer` | finding 1 in the full operator: `EventuallyInStep` fails |
| `MCOwner.cfg` | `MCSteamServer` | an adopted StatefulSet keeps its old owner (lines 281-282) and is collected under the new server, then made again |
| `MCStaleReady.cfg` | `MCSteamServer` | no observed generation: between an edit and its verdict, servers are built from a definition that does not validate |
| `MCMessage.cfg` | `MCSteamServer` | the message is not compared (lines 348-350) and may stay that of an earlier error |
| `MCHealthy.cfg` | `PodLifecycle` | without probes a server is `Running` as soon as its process is |
| `MCSecretNames.cfg` | `MCGamePod` | two keys that differ in case or in `-` and `_` share a variable (interpolate.go:80) |
| `MCMissingKey.cfg` | `MCGamePod` | a key without value and default becomes `<no value>` (interpolate.go:32, pinned by a test) |
| `MCMalformed.cfg` | `MCGamePod` | one malformed argument disables interpolation of all (statefulset.go:147) |
| `MCMapping.cfg` | `MCGamePod` | `mapTo` is validated and never applied (docs/adding-games.md:182) |
| `MCNoStorage.cfg` | `MCGamePod` | storage of size zero: no claim, but a mount of it (pvc.go:30, statefulset.go:343) |
| `MCPortNames.cfg` | `MCGamePod` | a definition with one port name twice is ready and its pod is refused |
| `MCNeighbours.cfg` | `MCServerInformer` | a config value that is a list is admitted and stops the delivery of every server (common_types.go:112) |

`SettledAccurate` excepts what `late` records.  Without the exception it does not
hold: when the event of the StatefulSet arrives before that of the pod, the old pod is
reported, and a `Running` server is not polled again (line 371).  Where the StatefulSet
has no replicas the pod is not read (line 388), and nothing is late.

## Proofs

For every value of the constants (any sets of servers, games, definitions and
specs, any bounds, any lag), from the named assumptions only:

| Theorem | Statement |
|---|---|
| `DefTypeCorrect` | `DefSpec => []DefTypeOK` |
| `ReadyOnlyWhenValidCorrect` | `DefSpec => ReadyOnlyWhenValid` |
| `TypeCorrect` | `Spec => []TypeOK` |
| `UserActsSurviveCorrect` | `Spec => UserActsSurvive` |
| `FinalizerInvCorrect`, `FinalizerGuardsCorrect` | `Spec => []FinalizerInv`, `Spec => []FinalizerGuards` |
| `TemplatesAreValidatedCorrect` | `Spec => []TemplatesAreValidated` |
| `RolloutOnlyReordersCorrect` | `(\A spec \in Specs, d \in Defs \cup {None} : SecretsApart(spec, d)) => (Spec => RolloutOnlyReorders)` |
| `DefSettledInvCorrect`, `DefSettledAccurateCorrect` | `DefSpec => []DefSettledInv`, `DefSpec => []DefSettledAccurate` |
| `OperatorReadyOnlyWhenValid`, `OperatorDefinitionsSettle` | `Spec => ReadyOnlyWhenValid`, `Spec => []DefSettledAccurate`: the same in the composed operator |
| `LifecycleInvCorrect` | `NoServerIsNone => (Spec => []LifecycleInv)` |
| `Implementation` | `NoServerIsNone => (Spec => ImplementsSafely)`: the operator implements the safety part of `ServerLifecycle` |
| `SettledInvCorrect`, `SettledInStepCorrect` | `NoServerIsNone /\ NoResourceIsNone => (Spec => []SettledInv)`, and of `SettledInStep` |
| `StatusInvCorrect`, `SettledAccurateCorrect` | `Spec => []StatusInv`, `Spec => []SettledAccurate` of `PodLifecycle` |
| `VersionsTellCorrect`, `ConfigSurvivesCorrect` | `Spec => []VersionsTell`, `Spec => ConfigSurvives` of `ServerInformer` |
| `NothingMissedCorrect`, `SettledServedCorrect` | `Spec => []NothingMissed`, `NoObjectIsNone => (Spec => []SettledServed)` of `ServerInformer` |
| `MergeEnvVarsMerges` | what `MergeEnvVars` returns for any list of variables |
| `SteamCMDInstalls` | where SteamCMD is and what it installs after running the command line of any template |
| `FilesInvCorrect`, `FilesReachTheGameCorrect` | `Spec => []FilesInv`, `Spec => []FilesReachTheGame` of `GamePod` |
| `ArgsAsAskedCorrect` | `ResolvingSpecs(AdmittedSpecs, AdmittedDefs) => (Spec => ArgsAsAsked)` of `GamePod` |

Assumptions: `BoundAssumption` (the bounds are natural numbers), `NoneAssumption`
(`None` is no spec and no name), `SpecsAssumption` (a spec refers to one of the
`Games` or to none), `WorkloadsAssumption` (what a pod may look like).
`ServersAssumption` (`None` names no server) keeps `req` unambiguous.
`NoServerIsNone` (`None` is not a record of a server), `NoResourceIsNone` and
`NoObjectIsNone` (the same of children, and of servers in `ServerInformer`) are
hypotheses and not assumptions, because TLC cannot evaluate them; in the instances
`None` is a model value, which equals no record.  `PodNoneAssumption` says that `None` is no kind.

Two theorems have a hypothesis about what users write.  `SecretsApart`, for
`RolloutOnlyReorders`: no two secrets of a config share a variable (interpolate.go:80,
`MCSecretNames.cfg`), because of two that do the merge keeps the last, which depends on
the order; it also says that environments are lists.  `ResolvingSpecs`, for
`ArgsAsAsked`: wherever a spec is accepted with a definition, each argument is a text or
refers to a key that has a value, and the secrets are apart (`MCMalformed.cfg`,
`MCMissingKey.cfg`, `MCSecretNames.cfg`).  The instances assume them of their specs and
definitions, so TLC evaluates them (`GoodSecrets` in `MCSteamServer`, `GoodArguments` in
`MCGamePod`).

*Types.*  `TypeOK` is inductive.  Besides types it says that `held` and `req` are
set exactly while the worker is not idle and `reason` exactly in "fail"; without
the latter the error message written by `SetErrorStatus` has no type.

*Ready.*  Only `WriteDefStatus` and `DefAnswerLost` raise `ready`, and both write
the verdict on the cached object onto an equal stored object.

*Verdicts at rest.* `DefSettledAccurate` says that a definition about which nothing is
undelivered or queued carries the verdict on its stored spec. It is not inductive: a
copy may be out of date in its status alone. `DefSettledInv` says that outside the
queue the cached definition has the verdict on its own spec, unless the stored one is
another object or has another status, whose event is still to come (`DefOutdated`),
and that no uid is ahead of the counter, so that a new object gets one of its own.
`DefinitionStep` shows that every step of the composed operator is a step of this
controller, the arrival of a definition or none, so both theorems carry over.

*Users.*  Every write of a server by the operator replaces an object by a copy of
itself that differs in the finalizer or the status (`UpdateKeeps`,
`OperatorKeeps`), or removes it.

*Finalizers.*  `FinalizerGuards` is not inductive: a resource is created from
`held`, which may be long out of date.  `FinalizerInv` adds that no uid in use is
larger than `edits`, so a new object never has an old uid (`UidsUsed`); that a
cached copy shows the finalizer only if the stored object of that uid has it
(`CacheFinalizer`); and the same of `held`, which always shows it
(`HeldFinalizer`).  Four lemmas say what a step does to the stored servers, the
cache, the held copy and the owners of children (`ServersStep`, `CacheStep`,
`HeldStep`, `ChildStep`), and `FinalizerStep` needs nothing else of `Next`.  The one
subtle case, an update that leaves the owner of a child as it is (finding 2), holds
because an accepted update is of the very child that is stored.

*Templates.*  `PairValidated`: while the worker is at a child resource, the pair it
holds is one that `AcceptServer` validated.  Then each stored template is an old one
or one built from that pair.

*Refinement.*  The abstract life cycle says that nothing that is owned loses its owner
but by a release.  An update leaves the owner of a child alone, but a deletion by an
old worker, or a release made from an old copy, could take what a later server owns.
`LifecycleInv` excludes it: copies are no newer than what they copy (`CopiesInOrder`),
a server under deletion has the finalizer (`DeletingGuarded`), and once a server owns
something no copy of an earlier server of its name is left (`OwnersSeen`).  That is
what the conflict of a status write or a finalizer protects.  Given it, every step maps
to a step of each name or to a stutter; users, informers, collector and worker are
shown apart.

*Rest.*  `SettledInStep` is the safety part of `EventuallyInStep`: when no event about
a server is undelivered and no request for it waits or runs, then it is in step and
reported `Running`.  It fails if any one path forgets a server: a conflict that is not
retried, an error that is not repeated, a child or definition whose event enqueues
nobody.  The inductive part is `NothingForgotten`.  For a server without a request: in
the worker's hands, it is worked on from what the caches still show, and each resource
the worker has passed fits or has an event to come (`UpToDate`); otherwise the cached
server is about to be replaced (`Outdated`) or all that the caches show is reconciled
(`Reconciled`).  A write that was accepted changes the store and not the cache, so that
it leaves a difference, and with it an event; this is where `LifecycleInv` is needed,
as an object must not come back to an earlier state unnoticed.

*Rollouts.*  That the random order of the secrets restarts games is finding 2.  What
remains true is that it changes nothing else: a template of the held spec and definition
is replaced only by one that gives the game the same variables (`RolloutOnlyReorders`).
Two orders list the same variables (`SecretsListed`), after the same environments; what
is last of its name in one list is last of its name in the other (`OrderKeeps`), so the
merge returns the same variables (`OrderOnlyReorders`), and nothing else in the template
depends on the order (`TemplatesOnlyReorder`).

*Status.*  What the worker holds is what the caches show, or it will be asked again
(`HeldIsCurrent`); and an idle worker that will not be asked again has left a server
that is `Running`, with the address in the cache, and a pod that is ready
(`DoneIsRunning`).  The latter uses that a StatefulSet whose copy is current says
whether its pod is ready, which needs that no pod change overtakes the count of an
earlier one: `OneChangeAtATime`, guaranteed as long as nothing was `late`.

*Config.*  The worker writes whole objects back from their decoded copies, so
`ConfigSurvives` needs that the copy an accepted update was made from is the decoded
stored object.  `VersionsTell` says why: no copy or undelivered event of a name has a
higher resourceVersion than what is stored, one with the same version is the stored
object, and what users and the worker store is newer than all of them (`StoreStep`).
It speaks of sequences of any set and is not evaluated by TLC.

*Delivery.*  `SettledServed` is the safety part of `ServedWhenReadable`.  `NothingMissed`
makes it inductive: while the watch lasts the last event of a server is of its stored
object, and without one the copy is (`Told`); outside the queue a copy that is up to
date has been acted on (`ActedOn`); a server under deletion has the finalizer
(`Awaited`).  That a copy from before a write is not taken for up to date needs
`VersionsTell`.

*Environments.*  The induction theorems of the library take an operator, which the
provers cannot instantiate; `NatSetInduction` is induction for a set, from the
well-foundedness of `<` (`NatLessThanWellFounded`, `WFMin`).  With it the loop of
`MergeEnvVars` is shown to define a function (`MergingExists`) and to preserve `Merged`
(`MergeStep`).  `LaterVariablesWin` and `EverySecretComesOut` follow: secrets are merged
last and each comes out, in whatever order the map is iterated over.

*Files.*  `SteamCMDInstalls` computes the command line of any template: run in order, it
leaves SteamCMD in the template's directory, and what it installs is the App and branch
of the template; an anonymous login always gets that far.  A definition may install
beside the volume, and by default does (finding 4), so `FilesReachTheGame` is about the
pods in fallback mode, for which the builder chooses the directory, and those whose
template names the mounted one, in the company of all others.  `FilesInv` says that
templates of fallback mode, of old pods too, install onto the volume, and that a pod
that is past its installation onto the volume finds its App and branch there.  Neither
needs a hypothesis on the definitions.

*Arguments.*  By the lemmas on environments a reference to a secret expands to that
secret (`SecretExpands`), whatever the definition's and the server's own environments
contain, and so each argument is as it was asked for (`ArgumentAsAsked`).

Only model-checked: all liveness properties, the progress part of `ServerLifecycle`
among them, which are beyond the prover; and the findings.  Every invariant and action
property that a passing run checks is a theorem.  What the remaining builders compute
(claims, Services, ports, labels) is opaque in the proofs.

## Not modelled

- Client-side errors that need a broken cluster (a missing CRD, RBAC), except as
  `ApiFault`.
- Resource names, which are functions of the server's name; storage classes; the beta
  password, which no caller sets; `InterpolateString`, which has no caller.
- The text of messages and events, `status.lastUpdated`.
- Leader election (`cmd/main.go`, off by default, on in the manifests): one process
  works at a time.  A new leader begins as a process that was restarted does, which
  `Crash` models; two leaders at once, for the time a lease has run out unnoticed, are
  not modelled.
- `configSchema` fields the code never reads (`secret`, `array`), health checks and
  config file templates of a definition, the effect of `mapTo`: there is no code.
- The resynchronisation of informers every ten hours.
- Flags, TLS, metrics, probes; generated deep copies; the Helm chart and kustomize
  files; the manifest demo; the end-to-end tests.

## Possible extensions

Two leaders that overlap; theorems about `Admission` and the Service's ports; the
informer of definitions, which decodes without a method of its own.

## Running

    tlc -workers 2 -config MCOperator.cfg MCSteamServer
    tlc -workers 2 -config MCPod.cfg PodLifecycle
    tlapm SteamServerRefinementProofs.tla
