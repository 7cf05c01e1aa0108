# Verification of MaxTac

MaxTac is a Kubernetes controller manager. Users create access objects
(`ClusterAccess`, `Access`, `ClusterExternalAccess`, `ExternalAccess`) that select
source services; annotations on a service override the object's targets and
direction. The controllers keep the `NetworkPolicy` objects that open the access
asked for, list them in the status of the access object, and delete an object
whose `duration` is over. This directory holds TLA+ models of the controllers,
the configurations TLC checks them with, and theorems TLAPS proves about them.

## The system

| Part | State | Operations | Correct when |
| --- | --- | --- | --- |
| ClusterAccess controller (`internal/controller/clusteraccess_*.go`) | the copy of the object read from the cache with its in-memory status, the lists of one reconcile, `StatusNeedUpdate` shared by all reconciles | `Reconcile`: expiry, cleanup, list services, deploy a policy and its mirror for each target, status, requeue | every policy was asked for; what is asked for comes to be in place; orphans go; expired objects go, and only those |
| Access controller and BaseController (`access_*.go`, `base_controller.go`) | the same without the field | `CommonReconcileLogic`, `processAccessTargets`; expiry and status differ from ClusterAccess | as above; the status says what is there |
| ExternalAccess, ClusterExternalAccess (`externalaccess_*.go`, `clusterexternalaccess_*.go`) | as ClusterAccess, each its own | as ClusterAccess with CIDRs for targets and no mirror | as above; only valid CIDRs open anything; one kind does not undo the other |
| NetworkPolicy rules (`internal/k8s/networkpolicy`) | none | direction and ports to a policy spec | each side opens exactly what the direction says |
| Names | none | `fmt.Sprintf` of the parts | different accesses have different names |
| Durations, CIDRs (`internal/utils`) | none | `ParseDuration`, `ValidateTargetCIDR` | no wrap-around, no refused value passed on |
| Manager (`cmd/main.go`) | process lifetime | start, restart | nothing depends on what is lost |
| API server, informer caches, work queue, garbage collector (outside the repository) | stored objects, watch events, cached copies, requests, timers | writes with optimistic concurrency, delivery, collection of dependents | as Kubernetes documents |

The parts share state only through the API server. A controller writes objects
with the API client and reads them from informer caches that lag behind; a watch
event updates a cache and puts requests into the queue: an event of the access
object its own request, an event of a policy the request of the owner its
`ownerReference` names, an event of any service the requests of every access
object. One worker serves a controller's queue, so two requests of one kind never
run at the same time, but the workers of the four kinds, users, caches, collector
and clock move between any two steps of a reconcile. Kinds meet where their policies
have one name: the name of a policy does not say which kind wrote it.

What is hard here: reads of stale caches; two versions of a service used in one
reconcile; conflicts and errors that the code swallows; deletion by name; a
deadline that passes while a reconcile runs; restarts that lose timers and the
shared field; foreground deletion, during which policies are both deployed and
deleted. `PROJECT.json` lists each at its line, with the properties about it.

## Modules

Each builds on the ones before it:

    Durations  NetpolRules  NetpolNames  CidrTargets      pure parts
    Cluster                                               environment
    Reconciling                                           what the reconcilers share
    ClusterAccessController  AccessController  ExternalController
    Intent  PolicyLedger                                  what is asked for, what is promised
    ...Properties                                         properties, refinement, fairness
    MC...                                                 instances for TLC
    ClusterProofs  ReconcilingProofs                      lemmas on the environment, on copies
    ClusterAccessProofs  AccessProofs  ExternalProofs     theorems: types, safety, refinement
    ClusterAccessQuiet  AccessQuiet  ExternalQuiet        theorems: what is done in the end

`NetpolRules` holds validation, normalisation and mirroring of a direction, ports,
and the policy specs of an access between pods and of one to a CIDR. Rule lists hold at most one
rule in the code and are sets here. `NetpolNames` formats names as the code does,
on strings; the instances use it to build the name function of a run, so two
policies share a name in a run exactly when they do in the code. `Durations` is
`ParseDuration`: a number of days multiplied into a signed integer that wraps around.
`CidrTargets` has the forms a target can be written in, `ValidateTargetCIDR`, the
conversion of an annotation's last hyphen into a slash, and what the API server takes.

`Cluster` is the environment of the controllers: stores (`services`, `accesses`,
`netpols`), caches (`svcCache`, `accCache`, `npCache`), pending watch events, the
queue, timers, the clock, and the actions of users, collector, informers and
clock. A pending event of an object means that its cached copy is old, which is
also when a write that carries the cached resourceVersion conflicts. For a policy
the pending events keep the owners they name. `svcHist` and `specHist` are history
variables (every version ever stored); no action reads them. The wiring of the
watches (`SetupWithManager`, `findClusterAccessForService`) is in the `Deliver`
actions. Names of policies come from a constant function `NameOf` on the parts of a
name; it is not assumed injective.

`Reconciling` has the operators on the copy of an access object that are the same in
the reconcilers of ClusterAccess and of the external kinds, and partly in Access:
conditions, deadlines, service details, status lists.

`ClusterAccessController` is the reconciler of `ClusterAccess`. `pc` says where
`Reconcile` is. A step is the reads of the caches about one thing with the write that
follows them: a listed service, an owned policy and its service, a target's details and
its policy, the entries of the status. Between two steps anybody may move:

| Action | Code |
| --- | --- |
| `ReconcileGone`, `ReconcileStart` | Get, `isExpired` |
| `DeleteExpired` | delete of the expired object, by name |
| `ListOwned` | the List of `cleanupOrphanedClusterAccessNetworkPolicies` |
| `CleanupOne` | one owned policy of `cleanupOrphanedClusterAccessNetworkPolicies` |
| `ListServices`, `ListFails` | selector and List |
| `SkipService`, `BeginService` | checks of one listed service; `getServiceDetails` of the source |
| `SkipTarget`, `DeploySource`, `DeployMirror` | one target: details, then `deployResource` (Get, then Create, or `reconcileResource`: a second Get, compare and Update) |
| `UndeploySource`, `UndeployMirror` | the delete at the end of `deployResource` for an object being deleted |
| `FinishReconcile` | the two status lists, `updateStatus`, `RequeueAfter` |
| `Restart` | the process dies between two steps and starts again |

Every API write may fail (`Fault`) as well as conflict. What the code does with the
error is kept: a failed Create or Update, and a second Get that does not find the policy
any more, leave a condition False (in the copy that Access drops, nothing) and count as
deployed; a failed delete of an expired object goes back to the queue.

`AccessController` is the reconciler of `Access`: `CommonReconcileLogic` with the
targets of `access_controller.go` and the deploy functions of `access_utils.go`, on
the same `Cluster`. Its actions have the names above where the code is alike; what
differs:

| Action | Code |
| --- | --- |
| `ReconcileStart` | `isExpired` sets a missing deadline on the copy without comparing it |
| `DeleteExpired` | an expired object that is gone already is no error |
| `ListServices` | only services of the Access's namespace |
| `Deploy`, `Undeploy` | one policy per target, no mirror; the direction in the case the user wrote, the name and the check ignoring case; the API server defaults the types of a policy that names none (`Stored`) |
| `FinishUnchanged` | no list changed: nothing is written, the deadline neither |
| `PrepareStatus`, `FinishStatus` | the lists; then `updateStatus`: the latest cached object, with the lists and the deadline of the copy, and the requeue |

Conditions of an `Access` are set on a copy that is never written and are left out.

`ExternalController` is the reconcilers of `ExternalAccess` and `ClusterExternalAccess`
side by side. Their code is the same line for line but for the scope of the list, the
keys of labels and annotations, and the names; these are constants (`AccessNs`,
`AnnotatedKinds`, `NameOf`). What `ClusterAccessController` has as variables is a record
here, `job[w]` for the worker of kind `w`; both workers read the same caches and write
the same policies. The actions have the names above; what differs:

| Action | Code |
| --- | --- |
| `CleanupOne` | an owned policy is one with this kind's owner label; a policy that both kinds have written carries both labels (`others`) |
| `ListServices` | an ExternalAccess lists its own namespace; `Read` drops the annotations under keys of the other kind |
| `BeginService` | annotated targets are converted, invalid ones skipped |
| `Deploy`, `Undeploy` | one policy per CIDR; the API server refuses one for a bare address (`Valid`), and the policy is listed nevertheless |

`Intent` says what a version of a service and a spec ask for and what a policy
allows, independently of the operators the controllers use.

`PolicyLedger` is the abstract specification: policies in force and the claims of users,
no cache, queue, reconcile or failure. A policy is put in force (`Enact`) only on the
ground of something asked for at some time, goes (`Lift`) only when it has lost its
ground, or is taken away by a user (`TakeAway`); what was asked for is not forgotten
(`Claim`). Its parameters are operators: what is a ground, when it is lost. Each
controller implements it: `KeepsLedger == Ledger!Spec`, with `inForce` mapped to
`netpols`, `claims` to the stored services, the events under way, the access objects, the
histories and the number of edits. The ground is lost (`Forfeited`) when the service in
the policy's label does not exist or its event is still under way, or the owner does not
exist any more in the incarnation that the policy names, or is being deleted. That is
judged on the server, at the moment of the write, while the worker judges by its caches
and an old copy: the gap is what the refinement is about.

`ClusterAccessProperties`, `AccessProperties` and `ExternalProperties` state the
properties, the refinement and the fairness; `MCClusterAccess`, `MCAccess` and
`MCExternal` give the constants of the runs.

Abstractions: pods, labels and ports are opaque values; a selector is the set of
label sets it accepts, or one that does not convert; a duration is a number of
ticks, which may be negative (the CRDs have no pattern for it), or absent (an unparsable
one sets no deadline either); a condition is its
status, since `setCondition` compares nothing else; several undelivered events of one
object are delivered together; reads of a cache do not fail. The instant exactly at
a deadline is not represented. Back-off after an error is a request that is queued
again at once.


## Runs

The instances for ClusterAccess and Access have two services in two namespaces, a source
`db` and a target `web`, and one access object: the smallest cluster in which the two
sides of an access differ in namespace, pods, name and policy. Requests of different
objects meet only through policies they share: `MCAccess` has two Accesses of one name,
`MCSharedName` and `VSharedName` an ExternalAccess `cluster-edge` and a
ClusterExternalAccess `edge`, which format the same names. Initial states range over
every version of the services and every spec, present or absent, so one edit is a change
from any state to any other, and it can come between any two steps of a reconcile, of a
delivery, of the collector. Runs with two edits put a second change on top of the events
of the first. `MCSharedName` starts with the service, not annotated, and both objects
there (`OverlapSpec`): with one object alone there is no policy to share. Bounds:
`MaxEdits` (what users do), `MaxFaults` (writes that fail for no reason of the model;
conflicts and refusals are not counted), `MaxRestarts`, `MaxTime` (the clock; 2 where
deadlines of 1 and 2 are set). In `MCExternal` a write fails or the manager restarts,
not both (`OneMishap`, a state constraint; no step that fairness promises is cut off, as
a write that may fail may also succeed). `Moves` says which moves users make in a run.

| Run | Instance | Shows |
| --- | --- | --- |
| `MCServices` | 1 edit, 1 fault; 508 000 states | a changing source and target, a foreground deletion: `CoveredWhenQuiet` (no wake-up is lost: when nothing is left to do, what is asked for is in place), `NoOrphanWhenQuiet`, `NothingUnrequested`, `KeepsLedger`, `TypeOK` |
| `MCLease` | 2 edits; 419 000 | `ExpiryEnforced`, `DeadlineFixed` with durations set, edited, and objects created again |
| `MCConverge` | 2 edits, 1 restart; 142 000 | `Converges`: after the last user's step, access is in place for good and policies of deleted objects go, also those a user deletes; a broken selector, both deletions |
| `MCAccess` | 2 Accesses of one name, 1 edit, 1 restart; 1 025 000 | `CoveredWhenQuiet`, `NoOrphanWhenQuiet`, `StatusTruthful` (the status, computed from one copy and written onto another, lists what is asked for and nothing that is not there), `RulesRequested` (no rule nobody asked for), `KeepsLedger`, `TypeOK`: two Accesses of one name in two namespaces have one owner label and clean up each other's policies |
| `MCAccessLease` | 2 edits, 1 fault; 288 000 | `StoredDeadlineEnforced`, `NotBeforeItsTime` |
| `MCExternal` | 1 edit, 1 fault or 1 restart; 206 000 | one ExternalAccess whose service's annotation has a CIDR with a hyphen, a bare address and junk; it is edited or deleted; no duration, one of a tick with an invalid direction, a negative one with a broken selector: the properties above, `NotBeforeItsTime` (of the incarnation and the spec that were read), `ListedExist` (the status of an object that asks for nothing the API server refuses lists nothing that has vanished), `Converges` |
| `MCSharedName` | 2 workers, 1 edit; 892 000 | two kinds overwrite one policy and clean it up when its service goes, the one that the other has written last too: `NothingUnrequested` still holds, and so does `KeepsLedger`: neither takes away a policy whose service is there |

`StatusTruthful` speaks of states in which the collector has nothing left to collect: a
list may name the policy of a deleted incarnation until then. `NoOrphanWhenQuiet` speaks
of the policies of living objects: those of an object in foreground deletion are the
collector's. `NotBeforeItsTime` and `OpenForItsDuration` look at the steps that end a
reconcile: the worker's deletes, not those of users.

The runs whose name begins with `V` are counterexamples: each checks one sentence of
the documentation, a comment or a message, which the code does not keep.

| Run | What happens |
| --- | --- |
| `VStaleRule` | a service stops asking for a policy; it stays |
| `VOpenForItsDuration` | an expired object is deleted by name: a new one goes |
| `VAccessDirection` | `Egress` makes a policy that blocks ingress and leaves egress alone |
| `VAccessDuration` | a duration added later is never stored and never ends anything |
| `VSharedName` | two kinds share a name, one wakes up for the policy and does not want it any more; the other wants it and sleeps |

`MCLease` and `MCAccessLease` hold in spite of the missed requeue because the
informers resync (every ten hours by default): without it an object whose deadline
passes within a reconcile can stay for ever. `MCAccessLease` does not create an
Access again, see the last of the known deviations.

Deadlock is not checked: users may stop and the bounds are spent, and a cluster with
nothing left to do stands still, as it should. That it does not stand still too
early is what the properties with `WhenQuiet` say.

Fairness (`Fairness`): the worker goes on with a reconcile it has begun; a queued
request is served in the end, even if other events keep interrupting (strong
fairness, since the queue is first in first out), by the worker of its kind, and neither
worker waits for the other; events are delivered, the
collector collects, timers fire, the clock advances, the resync comes. Users owe
nothing; nothing must fail or restart.

### Known deviations without a run

Met while modelling; the models have them, and the properties are stated so that they
are not hidden but not denied either.

- `clusteraccess_controller.go:279`: the status entry of a source's policy has the
  target's namespace, so it names a policy that does not exist when they differ.
- `clusteraccess_utils.go:437`: new entries do not mark the status as changed, so a
  new policy may not be listed while all conditions are True already.
- `clusteraccess_controller.go:355`: `updateStatus` answers "rescheduling"
  (`clusteraccess_status.go:51`), the caller drops the error and queues nothing.
- `clusteraccess_controller.go:362`, `base_controller.go:224`: a deadline that passes
  between `isExpired` and this line yields no requeue, whatever the comment at
  `clusteraccess_controller.go:359` promises.
- `base_controller.go:595`: a service that no longer matches stays listed as long as
  it exists.
- `base_controller.go:548`: a policy too new for the cache is dropped from the list,
  for good if its service no longer asks for it. Hence `StatusTruthful` demands of
  the list only what is still asked for.
- `base_controller.go:676`: `updateStatus` writes by name; an Access created again
  while a reconcile of its predecessor ends gets the predecessor's deadline.
- `clusteraccess_utils.go:84`: one condition stands for all policies of a reconcile, so
  a later success hides an earlier failure.
- `network.go:12`: a bare address passes `ValidateTargetCIDR`, which
  `externalaccess_types.go` documents as a list of CIDRs; the API server refuses the
  policy at every reconcile, and the status lists it.
- `src/README.md:209` gives the targets of a ClusterExternalAccess under the key
  `maxtac.vtk.io.clusteraccess/targets`; the code reads
  `maxtac.vtk.io.clusterexternalaccess/targets` (`constants.go:27`).
- `clusterexternalaccess_utils.go`, `externalaccess_utils.go`, `updateStatus`: the
  condition of such a refused policy stays False, and while one is False no status is
  written. An entry whose policy or service has gone then stays listed, although nothing
  failed that a retry would mend; `ListedExist` excepts the objects that ask for one
  (`Refused`).
- `externalaccess_utils.go`: as for Access, the owner label holds a name without a
  namespace, so two ExternalAccesses of one name list each other's policies as orphans, and
  the one whose delete comes second sets a condition False. No run has two of one name;
  `ListedExist` is proved under `LabelsApart`.
- `utils.go:17`: 106752 days and more wrap around to a deadline in the past.
- `externalaccess_utils.go:46`, `clusterexternalaccess_utils.go:46`: where two kinds
  share a name, an object deleted in the foreground deletes a policy whose owner, by
  then the other object, lives. `MCSharedName` has no foreground deletion: `KeepsLedger`
  would not hold.

## Proofs

Every safety property the passing runs check is a theorem, and so is each refinement.
The theorems hold for every number of services, namespaces, access objects, kinds,
names, versions and specs and for every bound, under the assumptions on the constants:
`ClusterAssumption` (the constants have their types, markers are not values, and a name
tells whether a policy is a mirror), `MarkerAssumption`, `RangeAssumption`, and
`ClusterAccessAssumption`, `AccessAssumption` or `ExternalAssumption` (what a target is,
the namespace and kind of an object, no `mirrored` field where the kind has none).

| | ClusterAccess | Access | external kinds |
| --- | --- | --- | --- |
| `TypeOK` | `TypeCorrect` | `AccessTypeCorrect` | `ExternalTyped` |
| `NothingUnrequested`, `RulesRequested` | `NothingUnrequestedAlways` | `RulesRequestedAlways` | `NothingUnrequestedByEither` |
| `KeepsLedger` | `LedgerKept` (N) | `AccessLedgerKept` (N) | `LedgerKeptByEither` (N) |
| deadlines | `DeadlineFixedAlways` (D) | `AccessNotBeforeItsTime` (D, C) | `NotBeforeItsTimeByEither` (D) |
| `NoOrphanWhenQuiet` | `ClusterAccessNoOrphan` | `AccessNoOrphan` | `NoOrphanOfEither` |
| `CoveredWhenQuiet` | `ClusterAccessCovered` (N) | `AccessCovered` (N) | `CoveredByEither` (N) |
| status | | `AccessStatusTruthful` (N) | `ListedExistOfEither` (N, L) |

Some need a hypothesis:

- N, `TellsApart(NameOf)` or `KeysApart`: the name of a policy tells its object and its
  service. Otherwise one overwrites or deletes the policy of another by name, see the
  deviations above. The instances evaluate it on names formatted as in the code
  (`NamesAssumption`); `Alike` in `MCExternal` is chosen so that it fails.
- D, `DurationsFit`: durations, which may be negative, are less than `HalfRange` from
  zero, as anything below 106752 days is. `DurationExact` (`ClusterProofs`) says what
  `ParseDuration` makes of a number of days: it is kept exactly if it is above minus and
  below plus half the range, and the next ones above, as many again, become negative.
- C, `"CreateAccess" \notin Moves`: no Access is created again. `DeleteExpired` deletes
  by name, and `updateStatus` (`base_controller.go:660`, `:676`) writes the deadline of
  an old copy onto the Access that has its name by then. The external kinds need no such
  hypothesis, since their property speaks of the incarnation that was read.
- L, `LabelsApart`: see the deviations.

The properties `WhenQuiet`, `StatusTruthful` and `ListedExist` say of themselves that no
write failed (`faults = 0`): an error that the code swallows is repaired by a later
event only, and there may be none.

**The environment** (`ClusterProofs`). Its steps keep the types, once for all
controllers. Then it is said how any step moves it (`ClusterMoves`, `PoliciesNoted`):
what becomes of a stored object, of its cached copy, of its events and of the histories.
What relates these (`CachesCurrent`: an object without events under way is in the cache
as stored; `PoliciesKnown`) follows from that relation alone, so a controller only shows
that its steps are such moves. `ReconcilingProofs` has the lemmas on copies: conditions,
deadlines, lists.

**Types.** `TypeOK` is not inductive: a step from `"targets"` builds a policy from
`source`, which `TypeOK` allows to be absent. The invariant proved is `TypeInv`, which
adds what the worker holds at each `pc` (`Holding`; `JobsHeld` for the two workers).

**Nothing unrequested.** A policy is made of a spec, a listed version, and details read
later; each travels through a cache and through the variables of the worker.
`Provenance` follows them: stores and caches hold members of the histories (`Seen`), so
do the copy, the list, the source and the target that the worker holds, and every stored
and cached policy was asked for. The delicate step is the update: labels of the stored
policy are merged into the new one, and the two have equal names; a name tells mirrors
from others, so the merge changes nothing that the property reads. For the external
kinds the step from a converted annotation to a policy's CIDR is part of it.

**The ledger.** First states map to first states, and every step is a step of the ledger
or a stutter. That a stored policy has a ground is `Provenance`. That a policy the
worker takes away has lost it needs `LedgerInv`:

- a service without events under way is in the cache as stored, so one that the cleanup
  misses is gone or its event is under way;
- `OwnedNamed`: a listed policy has the name for the service it was read with, so the
  policy that is under its key when it is deleted has the same service, although another
  may have been stored there since;
- a policy is deleted again only for a copy that is being deleted;
- `Succession`: uids only grow. The copy precedes what is cached and stored of the same
  name, a deletion once asked for is never taken back within an incarnation, and no
  policy names an owner later than the copy. So a policy deleted for an old copy belongs
  to an incarnation that is gone or being deleted, never to one created since.

**Deadlines.** `DatedInv`: every deadline, stored, cached or on the worker's copy, is
the creation time and a duration of a spec that the object had.

**Nothing is forgotten.** A `WhenQuiet` property is an invariant of quiet states, of
which most are far from the last thing that happened. The inductive form says of every
state: whatever is not yet right is work of the reconcile that is running, or is
awaited, by an event that will queue the object or by its request. `OrphansAttended`
says this of a policy whose service is gone: it is on the list the cleanup still goes
through, or will be put there. `CoverageAttended` says it of each access asked for: it
is in place, or the running reconcile has the versions that are current (or is bound to
be repeated, because their events are under way) and has the source or the target still
before it. The cases are those that a test hardly meets: a service that changes between
List and Get, a spec that is edited while its old form is being deployed, a conflict
whose repair is the event that caused it, a restart with everything in memory lost
(`ClusterRestart` ends with a request of every object). `PoliciesKnown` and
`EventsNamed` bind it together: a cached policy that differs from the stored one has an
event under way, and that names the owner.

For the status of Access the same is said of entries (`VanishedAttended`: an entry
without a policy; `ListingAttended`: a wanted policy that is not listed), with
`CopyCurrent` (the copy whose lists are computed is the stored object or an event of
that is under way) and `ListsNamed` (an entry has the name of its policy). For the
external kinds, `ListsAttended` needs that the status is written when it should be:
`ConditionsReady` (no False condition is ever stored) and `Faithful` (a reconcile whose
copy is current, and that nothing will repeat, meets no obstacle and finds everything it
is about to list).

TLC checked each of these invariants before its proof, on the constants of `MCServices`,
`MCAccess`, `MCExternal`, the last also with two edits and an address among the targets,
and of `MCSharedName` with names that differ. For `ListedExist` the run with two edits was
the counterexample to the statement without `Refused`.

**Model-checked only**: the liveness properties (`ExpiryEnforced`,
`StoredDeadlineEnforced`, `Converges`), since liveness under fairness is out of the
prover's reach, and the five runs that show violations. What two kinds do to a policy
whose name they share is model-checked for `KeepsLedger` (`MCSharedName`);
`NothingUnrequested` and `NoOrphanWhenQuiet` are proved for any names.

## Not modelled

The manager's flags, certificates, metrics, probes and leader election, logging,
generated code and manifests, which no property reads. `BaseController.deployResource`
and its helpers, and the cleanup, expiry and status functions of `access_utils.go` and
`access_status.go`, are called by nothing. Strings are parsed only in names and by form
in CIDRs: malformed targets (`name,namespace` without one of the two) are skipped by the
code and are not in any target set here. A failed List or Get of a cache is not modelled;
it ends the reconcile with an error, as `ListFails` does. Two CIDRs whose names become
equal when their dots, colons and slashes become hyphens are not in an instance; what two
writers of one name do to each other is in `MCSharedName`. ClusterAccess and Access are
not composed with the external kinds: their names meet only by way of hyphens in the
names of services and namespaces, and then as those of the external kinds do.

## Plan

1. Collisions within one kind, between two ClusterAccesses and between two CIDRs of one
   ExternalAccess: which properties survive. `NothingUnrequested` and
   `NoOrphanWhenQuiet` do, as proved.
2. What a pod can reach: the union of all policies on it, the source's ports used for
   egress rules, which should be the target's.
3. A condition on names weaker than `KeysApart` under which `KeepsLedger` holds with two
   kinds that share names, as `MCSharedName` suggests while no deletion is in the
   foreground.
