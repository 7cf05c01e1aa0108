------------------------------ MODULE Cluster ------------------------------
(***************************************************************************)
(* What the controller of one kind of access object (ClusterAccess or      *)
(* Access) runs against: the API server's objects, the informer caches     *)
(* every r.Get and r.List reads, the work queue, the delayed requeues, the *)
(* garbage collector and the users.  All of it is code outside the         *)
(* repository, modelled from how the repository uses it, except the wiring *)
(* of the watches (SetupWithManager, findClusterAccessForService,          *)
(* findAccessForService), which the Deliver actions implement.             *)
(*                                                                         *)
(* An informer cache lags behind the server: a write leaves an undelivered *)
(* watch event, and until it is delivered the cache shows an old object.   *)
(* Several undelivered events of one object are delivered at once.  A      *)
(* cached copy has the server's resourceVersion exactly when no event of   *)
(* the object is pending.                                                  *)
(*                                                                         *)
(* Time is discrete.  The instant that is exactly a deadline is not        *)
(* represented: `now >= deadline` stands for "after it", and               *)
(* `now < deadline` for "time remains".                                    *)
(***************************************************************************)
EXTENDS NetpolRules, Durations, FiniteSets

CONSTANTS
  Accesses,       \* access objects, by namespace and name
  Services,       \* services, by namespace and name
  Targets,        \* what an access can name as a target: services, or CIDRs
  Namespaces,
  NsOf,           \* the namespace of a service
  Labels,         \* label sets a service can carry
  Pods,           \* pod selectors a service can have
  ServicePorts,   \* service ports
  NetpolNames,    \* names of NetworkPolicies
  NameOf,         \* the name the controller formats from the parts of a policy
  Versions,       \* Versions[s]: what users may make of service s
  Specs,          \* Specs[a]: the specs users may give access object a
  Absent, NoTime, NoDuration, NoAnnotation, NoPods, BadSelector,
  Moves,          \* what the users and the resync do in an instance
  MaxEdits,       \* bound on what users do
  MaxFaults,      \* bound on API writes that fail for no reason of the model
  MaxRestarts,    \* bound on restarts of the controller process
  MaxTime         \* bound on the clock

AllMoves == {"PutService", "DeleteService", "CreateAccess", "EditAccess",
             "DeleteAccess", "ForegroundDelete", "DeleteNetpol", "Resync"}

ServiceVersions ==
  [label      : Labels,
   targets    : {NoAnnotation} \cup SUBSET Targets,
   direction  : {NoAnnotation} \cup RawDirections,
   pods       : {NoPods} \cup Pods,
   ports      : SUBSET ServicePorts]

\* A selector is the set of label sets it accepts; BadSelector is one that
\* metav1.LabelSelectorAsSelector refuses.  NoDuration stands for an empty
\* duration and for one that does not parse: both set no deadline.
AccessSpecs ==
  [selector  : {BadSelector} \cup SUBSET Labels,
   targets   : SUBSET Targets,
   direction : RawDirections,
   mirrored  : BOOLEAN,
   duration  : {NoDuration} \cup Int]

NameParts == [access : Accesses, self : Services, peer : Targets,
              suffix : DirectionSuffixes, mirror : BOOLEAN]

ASSUME ClusterAssumption ==
  /\ NsOf \in [Services -> Namespaces]
  /\ NameOf \in [NameParts -> NetpolNames]
  /\ \A p, q \in NameParts : NameOf[p] = NameOf[q] => p.mirror = q.mirror
  /\ Versions \in [Services -> SUBSET ServiceVersions]
  /\ Specs \in [Accesses -> SUBSET AccessSpecs]
  /\ NoTime \notin Int /\ NoDuration \notin Int
  /\ NoAnnotation \notin RawDirections /\ \A T \in SUBSET Targets : NoAnnotation # T
  /\ NoPods \notin Pods /\ \A L \in SUBSET Labels : BadSelector # L
  /\ \A s \in Services : Absent \notin Versions[s]
  /\ Moves \subseteq AllMoves
  /\ MaxEdits \in Nat /\ MaxFaults \in Nat /\ MaxRestarts \in Nat /\ MaxTime \in Nat

NetpolKeys == [ns : Namespaces, name : NetpolNames]

CondTypes == {"ExpireReady", "NetpolsGCReady", "NetpolsGCNotReady",
              "NetworkPolicyDeployReady", "NetpolsListReady",
              "ServicesListReady", "Ready"}
Statuses == {"True", "False", "Unset"}
NoConds == [t \in CondTypes |-> "Unset"]

\* A deadline may lie before the beginning, see Durations.
Times == {NoTime} \cup Int

\* An access object as stored.  The uid tells incarnations of a name apart.
AccessObjects ==
  [uid : Nat, created : Nat, deleting : BOOLEAN, spec : AccessSpecs,
   netpols : SUBSET NetpolKeys, services : SUBSET Services,
   conds : [CondTypes -> Statuses], expiresAt : Times]

AccessRules ==
  [pods : Pods, ns : Namespaces,
   ports : SUBSET ConvertServicePortsToPolicyPorts(ServicePorts)]

CidrRules ==
  [cidr : Targets, ports : SUBSET ConvertServicePortsToPolicyPorts(ServicePorts)]

Rules == AccessRules \cup CidrRules

NetpolSpecs ==
  [podSelector : Pods, policyTypes : SUBSET {"Ingress", "Egress"},
   ingress : SUBSET Rules, egress : SUBSET Rules]

OwnerLabels == [owner : Accesses, svc : Services]

\* A NetworkPolicy as stored: the controller ownerReference (name and uid),
\* the owner labels of its kind (same name, and the source service), those of
\* other kinds that updates have kept, the mirror label.
NetpolObjects ==
  [owner : Accesses, uid : Nat, svc : Services, others : SUBSET OwnerLabels,
   mirror : BOOLEAN, spec : NetpolSpecs]

ASSUME MarkerAssumption == Absent \notin NetpolObjects

VARIABLES
  services, svcCache,   \* [Services -> version or Absent]
  svcEvents,            \* services with undelivered watch events
  accesses, accCache,   \* [Accesses -> object or Absent]
  accEvents,            \* access objects with undelivered watch events
  netpols, npCache,     \* [NetpolKeys -> object or Absent]
  npEvents,             \* the owners named by the undelivered events of a policy
  touched,              \* access objects written since the worker last read them
  queue,                \* the work queue
  timers,               \* when AddAfter will put a request into the queue
  now,                  \* the clock
  edits, faults, restarts,  \* spent of the bounds
  svcHist, specHist     \* history: every version and spec ever stored

stores   == <<services, accesses, netpols>>
svcVars  == <<services, svcCache, svcEvents, svcHist>>
accVars  == <<accesses, accCache, accEvents, touched, specHist>>
npVars   == <<netpols, npCache, npEvents>>
wakeVars == <<queue, timers, now>>
bounds   == <<edits, faults, restarts>>
clusterVars == <<svcVars, accVars, npVars, wakeVars, bounds>>

Maybe(S) == {Absent} \cup S

ServicesTypeOK ==
  /\ services \in [Services -> Maybe(ServiceVersions)]
  /\ svcCache \in [Services -> Maybe(ServiceVersions)]
  /\ svcEvents \subseteq Services
  /\ svcHist \in [Services -> SUBSET ServiceVersions]

AccessesTypeOK ==
  /\ accesses \in [Accesses -> Maybe(AccessObjects)]
  /\ accCache \in [Accesses -> Maybe(AccessObjects)]
  /\ accEvents \subseteq Accesses
  /\ touched \subseteq Accesses
  /\ specHist \in [Accesses -> SUBSET AccessSpecs]

NetpolsTypeOK ==
  /\ netpols \in [NetpolKeys -> Maybe(NetpolObjects)]
  /\ npCache \in [NetpolKeys -> Maybe(NetpolObjects)]
  /\ npEvents \in [NetpolKeys -> SUBSET Accesses]

WakeTypeOK ==
  /\ queue \subseteq Accesses
  /\ timers \in [Accesses -> Times]
  /\ now \in Nat

BoundsTypeOK == edits \in Nat /\ faults \in Nat /\ restarts \in Nat

ClusterTypeOK ==
  ServicesTypeOK /\ AccessesTypeOK /\ NetpolsTypeOK /\ WakeTypeOK /\ BoundsTypeOK

NewAccess(sp) ==
  [uid |-> edits, created |-> now, deleting |-> FALSE, spec |-> sp,
   netpols |-> {}, services |-> {}, conds |-> NoConds, expiresAt |-> NoTime]

\* The manager starts on a cluster with services and access objects but no
\* policy yet; its caches are synced and every access object is queued.
ClusterInit ==
  /\ services \in {f \in [Services -> Maybe(UNION {Versions[s] : s \in Services})] :
                     \A s \in Services : f[s] \in Maybe(Versions[s])}
  /\ svcCache = services /\ svcEvents = {}
  /\ now = 0 /\ edits = 0 /\ faults = 0 /\ restarts = 0
  /\ accesses \in {f \in [Accesses -> Maybe({NewAccess(sp) : sp \in UNION {Specs[a] : a \in Accesses}})] :
                     \A a \in Accesses : f[a] = Absent \/ f[a].spec \in Specs[a]}
  /\ accCache = accesses /\ accEvents = {} /\ touched = {}
  /\ netpols = [k \in NetpolKeys |-> Absent] /\ npCache = netpols
  /\ npEvents = [k \in NetpolKeys |-> {}]
  /\ queue = {a \in Accesses : accesses[a] # Absent}
  /\ timers = [a \in Accesses |-> NoTime]
  /\ svcHist = [s \in Services |-> {services[s]} \ {Absent}]
  /\ specHist = [a \in Accesses |-> IF accesses[a] = Absent THEN {} ELSE {accesses[a].spec}]

-----------------------------------------------------------------------------
(* Writes on the API server *)

\* An API write fails on its own at most MaxFaults times.
Fault == faults < MaxFaults /\ faults' = faults + 1 /\ UNCHANGED <<edits, restarts>>
NoFault == UNCHANGED bounds

OwnerIn(n) == IF n = Absent THEN {} ELSE {n.owner}

\* Store n (or Absent) under k: an event that names the owner of the old and of
\* the new object.
WriteNetpol(k, n) ==
  /\ netpols' = [netpols EXCEPT ![k] = n]
  /\ npEvents' = [npEvents EXCEPT ![k] = @ \cup OwnerIn(netpols[k]) \cup OwnerIn(n)]
  /\ UNCHANGED npCache

WriteAccess(a, obj) ==
  /\ accesses' = [accesses EXCEPT ![a] = obj]
  /\ accEvents' = accEvents \cup {a}
  /\ touched' = touched \cup {a}
  /\ UNCHANGED accCache

WriteService(s, v) ==
  /\ services' = [services EXCEPT ![s] = v]
  /\ svcEvents' = svcEvents \cup {s}
  /\ UNCHANGED svcCache

-----------------------------------------------------------------------------
(* Users *)

Edit(move) ==
  /\ move \in Moves
  /\ edits < MaxEdits
  /\ edits' = edits + 1
  /\ UNCHANGED <<faults, restarts>>

PutService(s) ==
  /\ Edit("PutService")
  /\ \E v \in Versions[s] \ {services[s]} :
       /\ WriteService(s, v)
       /\ svcHist' = [svcHist EXCEPT ![s] = @ \cup {v}]
  /\ UNCHANGED <<accVars, npVars, wakeVars>>

DeleteService(s) ==
  /\ services[s] # Absent
  /\ Edit("DeleteService")
  /\ WriteService(s, Absent)
  /\ UNCHANGED <<svcHist, accVars, npVars, wakeVars>>

CreateAccess(a) ==
  /\ accesses[a] = Absent
  /\ Edit("CreateAccess")
  /\ \E sp \in Specs[a] :
       /\ WriteAccess(a, [NewAccess(sp) EXCEPT !.uid = edits + 1])
       /\ specHist' = [specHist EXCEPT ![a] = @ \cup {sp}]
  /\ UNCHANGED <<svcVars, npVars, wakeVars>>

EditAccess(a) ==
  /\ accesses[a] # Absent
  /\ Edit("EditAccess")
  /\ \E sp \in Specs[a] \ {accesses[a].spec} :
       /\ WriteAccess(a, [accesses[a] EXCEPT !.spec = sp])
       /\ specHist' = [specHist EXCEPT ![a] = @ \cup {sp}]
  /\ UNCHANGED <<svcVars, npVars, wakeVars>>

DeleteAccess(a) ==
  /\ accesses[a] # Absent
  /\ \/ Edit("DeleteAccess") /\ WriteAccess(a, Absent)
     \/ /\ Edit("ForegroundDelete")
        /\ ~accesses[a].deleting
        /\ WriteAccess(a, [accesses[a] EXCEPT !.deleting = TRUE])
  /\ UNCHANGED <<specHist, svcVars, npVars, wakeVars>>

DeleteNetpol(k) ==
  /\ netpols[k] # Absent
  /\ Edit("DeleteNetpol")
  /\ WriteNetpol(k, Absent)
  /\ UNCHANGED <<svcVars, accVars, wakeVars>>

UserStep ==
  \/ \E s \in Services : PutService(s) \/ DeleteService(s)
  \/ \E a \in Accesses : CreateAccess(a) \/ EditAccess(a) \/ DeleteAccess(a)
  \/ \E k \in NetpolKeys : DeleteNetpol(k)

-----------------------------------------------------------------------------
(* The garbage collector: policies whose owner is gone (or is another       *)
(* incarnation) or is being deleted in the foreground, then such an owner.  *)

OwnedBy(n, obj) == obj # Absent /\ n.uid = obj.uid

CollectNetpol(k) ==
  /\ netpols[k] # Absent
  /\ LET obj == accesses[netpols[k].owner]
     IN OwnedBy(netpols[k], obj) => obj.deleting
  /\ WriteNetpol(k, Absent)
  /\ UNCHANGED <<svcVars, accVars, wakeVars, bounds>>

CollectAccess(a) ==
  /\ accesses[a] # Absent
  /\ accesses[a].deleting
  /\ \A k \in NetpolKeys :
       netpols[k] # Absent => ~(netpols[k].owner = a /\ OwnedBy(netpols[k], accesses[a]))
  /\ WriteAccess(a, Absent)
  /\ UNCHANGED <<specHist, svcVars, npVars, wakeVars, bounds>>

-----------------------------------------------------------------------------
(* Watch events, timers, time *)

MatchingAccesses(s) ==
  {a \in Accesses : /\ accCache[a] # Absent /\ services[s] # Absent
                     /\ accCache[a].spec.selector # BadSelector
                     /\ services[s].label \in accCache[a].spec.selector}

\* findClusterAccessForService, findAccessForService: a Service event enqueues
\* every access object in the cache.
AccessesFor(s) == {a \in Accesses : accCache[a] # Absent}

DeliverService(s) ==
  /\ s \in svcEvents
  /\ svcCache' = [svcCache EXCEPT ![s] = services[s]]
  /\ svcEvents' = svcEvents \ {s}
  /\ queue' = queue \cup AccessesFor(s)
  /\ UNCHANGED <<services, svcHist, accVars, npVars, timers, now, bounds>>

\* For(&ClusterAccess{}), For(&Access{}): an event of the object enqueues it.
DeliverAccess(a) ==
  /\ a \in accEvents
  /\ accCache' = [accCache EXCEPT ![a] = accesses[a]]
  /\ accEvents' = accEvents \ {a}
  /\ queue' = queue \cup {a}
  /\ UNCHANGED <<accesses, touched, specHist, svcVars, npVars, timers, now, bounds>>

NoOwners(k) == {}

\* Owns(&NetworkPolicy{}): an event enqueues the owner its ownerReference names.
OwnersFor(k) == npEvents[k]

DeliverNetpol(k) ==
  /\ npEvents[k] # {}
  /\ npCache' = [npCache EXCEPT ![k] = netpols[k]]
  /\ npEvents' = [npEvents EXCEPT ![k] = {}]
  /\ queue' = queue \cup OwnersFor(k)
  /\ UNCHANGED <<netpols, svcVars, accVars, timers, now, bounds>>

TimerFires(a) ==
  /\ timers[a] # NoTime
  /\ now >= timers[a]
  /\ timers' = [timers EXCEPT ![a] = NoTime]
  /\ queue' = queue \cup {a}
  /\ UNCHANGED <<now, svcVars, accVars, npVars, bounds>>

Tick ==
  /\ now < MaxTime
  /\ now' = now + 1
  /\ UNCHANGED <<queue, timers, svcVars, accVars, npVars, bounds>>

\* The informers' periodic resync replays every cached object.
Resync(a) ==
  /\ "Resync" \in Moves
  /\ accCache[a] # Absent
  /\ a \notin queue
  /\ queue' = queue \cup {a}
  /\ UNCHANGED <<timers, now, svcVars, accVars, npVars, bounds>>

PlatformStep ==
  \/ \E k \in NetpolKeys : CollectNetpol(k) \/ DeliverNetpol(k)
  \/ \E s \in Services : DeliverService(s)
  \/ \E a \in Accesses :
       CollectAccess(a) \/ DeliverAccess(a) \/ TimerFires(a) \/ Resync(a)
  \/ Tick

\* A restarted manager lists everything before it works: fresh caches, every
\* object queued, no timer, no pending event.
ClusterRestart ==
  /\ restarts < MaxRestarts
  /\ restarts' = restarts + 1
  /\ svcCache' = services /\ svcEvents' = {}
  /\ accCache' = accesses /\ accEvents' = {} /\ touched' = {}
  /\ npCache' = netpols /\ npEvents' = [k \in NetpolKeys |-> {}]
  /\ queue' = {a \in Accesses : accesses[a] # Absent}
              \cup UNION {OwnerIn(netpols[k]) : k \in NetpolKeys}
  /\ timers' = [a \in Accesses |-> NoTime]
  /\ UNCHANGED <<stores, svcHist, specHist, now, edits, faults>>

Settled == svcEvents = {} /\ accEvents = {} /\ \A k \in NetpolKeys : npEvents[k] = {}
=============================================================================
