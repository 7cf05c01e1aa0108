-------------------------- MODULE AccessController --------------------------
(***************************************************************************)
(* The reconciler of the namespaced Access objects: the loop all kinds     *)
(* were meant to share (base_controller.go, CommonReconcileLogic) with the *)
(* targets of access_controller.go and the deploy functions of             *)
(* access_utils.go.  It runs against the same Cluster as ClusterAccess and *)
(* differs from it in what makes its properties others: the direction      *)
(* keeps its case, the deadline is compared only once it is stored, the    *)
(* status is written when a list changes, onto the latest cached object.   *)
(*                                                                         *)
(* The conditions that access_utils.go sets are set on a copy that         *)
(* updateStatus never writes, and are left out.                            *)
(***************************************************************************)
EXTENDS Cluster

CONSTANTS
  AccessNs,     \* the namespace of an Access
  AccessName    \* its name: the label on its policies has no namespace

ASSUME AccessAssumption ==
  /\ Targets = Services
  /\ AccessNs \in [Accesses -> Namespaces]
  /\ \A a \in Accesses : \A sp \in Specs[a] : ~sp.mirrored

VARIABLES
  pc,        \* where CommonReconcileLogic is
  req,       \* the request it serves
  obj,       \* resource: the copy read from the cache, and its in-memory status
  owned,     \* what is left of the list of owned policies: key and service
  listed,    \* what is left of the list of services: service and version
  matched,   \* matchedServices
  source,    \* the service whose targets are being deployed, its details
  targets,   \* what is left of its targets
  undeploy,  \* the policy deployResource deletes again, if it has to
  deployed   \* deployedNetpols

Idle == "idle"
PCs == {Idle, "expired", "list", "cleanup", "services", "targets", "undeploy", "status"}

jobVars == <<req, obj, owned, listed, matched, source, targets, undeploy, deployed>>
ctlVars == <<pc, jobVars>>
vars    == <<clusterVars, ctlVars>>

Sources == [svc : Services, direction : RawDirections, pods : Pods,
            ports : SUBSET ServicePorts]

JobTypeOK ==
  /\ pc \in PCs
  /\ req \in Maybe(Accesses)
  /\ obj \in Maybe(AccessObjects)
  /\ owned \subseteq [key : NetpolKeys, svc : Services]
  /\ listed \subseteq [svc : Services, version : ServiceVersions]
  /\ matched \subseteq Services
  /\ source \in Maybe(Sources)
  /\ targets \subseteq Services
  /\ undeploy \in Maybe(NetpolKeys)
  /\ deployed \subseteq NetpolKeys

TypeOK == ClusterTypeOK /\ JobTypeOK

AtRest ==
  /\ pc = Idle /\ req = Absent /\ obj = Absent
  /\ owned = {} /\ listed = {} /\ matched = {}
  /\ source = Absent /\ targets = {} /\ undeploy = Absent /\ deployed = {}

ToRest ==
  /\ pc' = Idle /\ req' = Absent /\ obj' = Absent
  /\ owned' = {} /\ listed' = {} /\ matched' = {}
  /\ source' = Absent /\ targets' = {} /\ undeploy' = Absent /\ deployed' = {}

Init == ClusterInit /\ AtRest

-----------------------------------------------------------------------------
(* Helpers *)

\* isExpired gives a copy without a deadline its deadline, in memory, and then
\* does not compare it.
Dated(o) == IF o.spec.duration # NoDuration /\ o.expiresAt = NoTime
            THEN [o EXCEPT !.expiresAt = o.created + ParseDuration(o.spec.duration)]
            ELSE o

ExpiredIfAsked(o) == o.spec.duration # NoDuration /\ o.expiresAt # NoTime
                     /\ now >= o.expiresAt

ExpiredIfSoon(o) == o.expiresAt # NoTime /\ now + 1 >= o.expiresAt

IsExpired(o) == o.expiresAt # NoTime /\ now >= o.expiresAt

HasPorts(v) == v # Absent /\ v.ports # {}

\* getServiceDetails.
HasDetails(v) == v # Absent /\ v.pods # NoPods /\ v.ports # {}

TargetsOf(v, spec)   == IF v.targets = NoAnnotation THEN spec.targets ELSE v.targets
DirectionOf(v, spec) == IF v.direction = NoAnnotation THEN spec.direction ELSE v.direction

\* The suffix ignores the case of the direction.
PolicyKey(a, s, d, t) ==
  [ns |-> NsOf[s],
   name |-> NameOf[[access |-> a, self |-> s, peer |-> t,
                    suffix |-> DirectionSuffix(ToLower(d)), mirror |-> FALSE]]]

SwappedPolicy(o, a, src, t, p) ==
  [owner |-> a, uid |-> o.uid, svc |-> src.svc, others |-> {}, mirror |-> FALSE,
   spec |-> DefineAccessNetworkPolicy(p, src.pods, NsOf[t], src.ports, src.direction)]

\* The policy of a source src and a target with pods p; the direction is passed
\* on as it was written.
Policy(o, a, src, t, p) ==
  [owner |-> a, uid |-> o.uid, svc |-> src.svc, others |-> {}, mirror |-> FALSE,
   spec |-> DefineAccessNetworkPolicy(src.pods, p, NsOf[t], src.ports, src.direction)]

\* The API server defaults the types of a policy that names none.
Stored(n) ==
  IF n.spec.policyTypes # {} THEN n
  ELSE [n EXCEPT !.spec.policyTypes =
          {"Ingress"} \cup (IF n.spec.egress # {} THEN {"Egress"} ELSE {})]

-----------------------------------------------------------------------------
(* Deploying one policy: an error of a write is dropped *)

CreateResource(k, n) ==
  /\ npCache[k] = Absent
  /\ \/ netpols[k] = Absent /\ NoFault /\ WriteNetpol(k, Stored(n))
     \/ /\ IF netpols[k] = Absent THEN Fault ELSE NoFault
        /\ UNCHANGED npVars

SameLabels(n, old) == AccessName[old.owner] = AccessName[n.owner] /\ old.svc = n.svc

Unchanged(n, old) == old.spec = n.spec /\ SameLabels(n, old)

\* An update that changes nothing leaves no event.
Put(k, n) == IF n = netpols[k] THEN UNCHANGED npVars ELSE WriteNetpol(k, n)

\* A second Get that does not find the policy any more comes to the same as the last
\* case: the policy is gone and its event under way.
ReconcileResource(k, n) ==
  /\ npCache[k] # Absent
  /\ \/ Unchanged(n, npCache[k]) /\ NoFault /\ UNCHANGED npVars
     \/ ~Unchanged(n, npCache[k]) /\ npEvents[k] = {} /\ NoFault /\ Put(k, Stored(n))
     \/ /\ ~Unchanged(n, npCache[k])
        /\ IF npEvents[k] = {} THEN Fault ELSE NoFault
        /\ UNCHANGED npVars

DeployResource(k, n) == CreateResource(k, n) \/ ReconcileResource(k, n)

-----------------------------------------------------------------------------
(* CommonReconcileLogic: the start, the expiry and the cleanup *)

ReconcileGone(a) ==
  /\ pc = Idle /\ a \in queue
  /\ accCache[a] = Absent
  /\ queue' = queue \ {a}
  /\ UNCHANGED <<timers, now, svcVars, accVars, npVars, bounds, ctlVars>>

ReconcileStart(a) ==
  /\ pc = Idle /\ a \in queue
  /\ accCache[a] # Absent
  /\ queue' = queue \ {a}
  /\ req' = a
  /\ obj' = Dated(accCache[a])
  /\ IF IsExpired(accCache[a])
     THEN pc' = "expired"
     ELSE pc' = "list"
  /\ UNCHANGED <<owned, listed, matched, source, targets, undeploy, deployed, timers, now,
                 accVars, svcVars, npVars, bounds>>

\* Unlike for ClusterAccess, NotFound is no error.
DeleteExpired ==
  /\ pc = "expired"
  /\ \/ /\ NoFault
        /\ IF accesses[req] = Absent \/ accesses[req].deleting
           THEN UNCHANGED accVars
           ELSE WriteAccess(req, Absent) /\ UNCHANGED specHist
        /\ UNCHANGED queue
     \/ /\ accesses[req] # Absent
        /\ Fault
        /\ queue' = queue \cup {req}
        /\ UNCHANGED accVars
  /\ ToRest
  /\ UNCHANGED <<timers, now, svcVars, npVars>>

\* The owned policies are those labelled with the name, in any namespace.
ListOwned ==
  /\ pc = "list"
  /\ pc' = "cleanup"
  /\ owned' = {[key |-> k, svc |-> npCache[k].svc] :
                 k \in {i \in NetpolKeys : npCache[i] # Absent
                          /\ AccessName[npCache[i].owner] = AccessName[req]}}
  /\ UNCHANGED <<req, obj, listed, matched, source, targets, undeploy, deployed, clusterVars>>

UnmatchedService(o) ==
  IF svcCache[o.svc] = Absent THEN TRUE ELSE svcCache[o.svc].label \notin obj.spec.selector

IsOrphan(o) == svcCache[o.svc] = Absent

CleanupOne ==
  /\ pc = "cleanup"
  /\ \E o \in owned :
       /\ owned' = owned \ {o}
       /\ \/ ~IsOrphan(o) /\ NoFault /\ UNCHANGED npVars
          \/ IsOrphan(o) /\ netpols[o.key] # Absent /\ NoFault /\ WriteNetpol(o.key, Absent)
          \/ /\ IsOrphan(o)
             /\ IF netpols[o.key] = Absent THEN NoFault ELSE Fault
             /\ UNCHANGED npVars
  /\ UNCHANGED <<pc, req, obj, listed, matched, source, targets, undeploy, deployed,
                 wakeVars, svcVars, accVars>>

\* Services of the Access's own namespace.
ListServices ==
  /\ pc = "cleanup" /\ owned = {}
  /\ obj.spec.selector # BadSelector
  /\ pc' = "services"
  /\ listed' = {[svc |-> s, version |-> svcCache[s]] :
                  s \in {t \in Services : /\ NsOf[t] = AccessNs[req]
                                          /\ svcCache[t] # Absent
                                          /\ svcCache[t].label \in obj.spec.selector}}
  /\ UNCHANGED <<req, obj, owned, matched, source, targets, undeploy, deployed, clusterVars>>

ListFails ==
  /\ pc = "cleanup" /\ owned = {}
  /\ obj.spec.selector = BadSelector
  /\ queue' = queue \cup {req}
  /\ ToRest
  /\ UNCHANGED <<timers, now, svcVars, accVars, npVars, bounds>>

-----------------------------------------------------------------------------
(* The services and their targets *)

\* Annotations from the list, details from a later read.
IsSource(l) ==
  /\ TargetsOf(l.version, obj.spec) # {}
  /\ IsValidDirection(DirectionOf(l.version, obj.spec))
  /\ HasDetails(svcCache[l.svc])

SkipService ==
  /\ pc = "services"
  /\ \E l \in listed :
       /\ ~IsSource(l)
       /\ listed' = listed \ {l}
       /\ matched' = matched \cup {l.svc}
  /\ UNCHANGED <<pc, req, obj, owned, source, targets, undeploy, deployed, clusterVars>>

BeginService ==
  /\ pc = "services"
  /\ \E l \in listed :
       /\ IsSource(l)
       /\ listed' = listed \ {l}
       /\ matched' = matched \cup {l.svc}
       /\ targets' = TargetsOf(l.version, obj.spec)
       /\ source' = [svc |-> l.svc, direction |-> DirectionOf(l.version, obj.spec),
                     pods |-> svcCache[l.svc].pods, ports |-> svcCache[l.svc].ports]
  /\ pc' = "targets"
  /\ UNCHANGED <<req, obj, owned, undeploy, deployed, clusterVars>>

NextTarget ==
  IF targets' = {} THEN pc' = "services" /\ source' = Absent
                   ELSE pc' = "targets" /\ UNCHANGED source

SkipTarget ==
  /\ pc = "targets"
  /\ \E t \in targets : ~HasDetails(svcCache[t]) /\ targets' = targets \ {t}
  /\ NextTarget
  /\ UNCHANGED <<req, obj, owned, listed, matched, undeploy, deployed, clusterVars>>

Deploy ==
  /\ pc = "targets"
  /\ \E t \in targets :
       LET k == PolicyKey(req, source.svc, source.direction, t)
       IN /\ HasDetails(svcCache[t])
          /\ targets' = targets \ {t}
          /\ DeployResource(k, Policy(obj, req, source, t, svcCache[t].pods))
          /\ deployed' = deployed \cup {k}
          /\ IF obj.deleting
             THEN pc' = "undeploy" /\ undeploy' = k /\ UNCHANGED source
             ELSE NextTarget /\ UNCHANGED undeploy
  /\ UNCHANGED <<req, obj, owned, listed, matched, wakeVars, svcVars, accVars>>

\* deployResource's last step for an Access that is being deleted.
Undeploy ==
  /\ pc = "undeploy"
  /\ undeploy' = Absent
  /\ \/ /\ npCache[undeploy] # Absent /\ netpols[undeploy] # Absent
        /\ NoFault
        /\ WriteNetpol(undeploy, Absent)
     \/ /\ IF npCache[undeploy] # Absent /\ netpols[undeploy] # Absent THEN Fault ELSE NoFault
        /\ UNCHANGED npVars
  /\ UNCHANGED targets
  /\ NextTarget
  /\ UNCHANGED <<req, obj, owned, listed, matched, deployed, wakeVars, svcVars, accVars>>

-----------------------------------------------------------------------------
(* The status and the requeue *)

AllNetpols(o) == o.netpols \cup deployed

\* The entries of the copy that still exist and those of this reconcile.
FinalNetpols(o) == {k \in o.netpols : npCache[k] # Absent} \cup deployed
FinalServices(o) == {s \in o.services : svcCache[s] # Absent} \cup matched

StatusNeeded == FinalNetpols(obj) # obj.netpols \/ FinalServices(obj) # obj.services

Requeue(o) ==
  IF o.expiresAt # NoTime /\ now < o.expiresAt
  THEN timers' = [timers EXCEPT ![req] =
                    IF @ # NoTime /\ @ < o.expiresAt THEN @ ELSE o.expiresAt]
  ELSE UNCHANGED timers

\* Without a change of the lists nothing is written, the deadline neither.
FinishUnchanged ==
  /\ pc = "services" /\ listed = {}
  /\ ~StatusNeeded
  /\ Requeue(obj)
  /\ ToRest
  /\ UNCHANGED <<queue, now, svcVars, accVars, npVars, bounds>>

PrepareStatus ==
  /\ pc = "services" /\ listed = {}
  /\ StatusNeeded
  /\ pc' = "status"
  /\ obj' = [obj EXCEPT !.netpols = FinalNetpols(obj), !.services = FinalServices(obj)]
  /\ UNCHANGED <<req, owned, listed, matched, source, targets, undeploy, deployed, clusterVars>>

\* The latest object in the cache, which need not be the one reconciled, with the
\* lists and, if the copy has one, the deadline.
WithStatus(latest) ==
  [latest EXCEPT !.netpols = obj.netpols, !.services = obj.services,
                 !.expiresAt = IF obj.expiresAt # NoTime THEN obj.expiresAt ELSE @]

Reordered == Cardinality(obj.netpols) >= 2 \/ Cardinality(obj.services) >= 2

\* updateStatus: each of its tries reads the cache again, so it goes through once
\* the cache is up to date, or gives up.
FinishStatus ==
  /\ pc = "status"
  /\ \/ /\ accCache[req] # Absent /\ req \notin accEvents
        /\ NoFault
        /\ \/ WithStatus(accCache[req]) = accesses[req] /\ UNCHANGED accVars
           \/ /\ WithStatus(accCache[req]) # accesses[req] \/ Reordered
              /\ WriteAccess(req, WithStatus(accCache[req]))
              /\ UNCHANGED specHist
     \/ /\ IF accCache[req] # Absent /\ req \notin accEvents THEN Fault ELSE NoFault
        /\ UNCHANGED accVars
  /\ Requeue(obj)
  /\ ToRest
  /\ UNCHANGED <<queue, now, svcVars, npVars>>

-----------------------------------------------------------------------------
WorkerStep ==
  \/ DeleteExpired \/ ListOwned \/ CleanupOne \/ ListServices \/ ListFails
  \/ SkipService \/ BeginService \/ SkipTarget \/ Deploy \/ Undeploy
  \/ FinishUnchanged \/ PrepareStatus \/ FinishStatus

Reconcile(a) == ReconcileGone(a) \/ ReconcileStart(a)

Restart == ClusterRestart /\ ToRest

Next ==
  \/ (UserStep \/ PlatformStep) /\ UNCHANGED ctlVars
  \/ \E a \in Accesses : Reconcile(a)
  \/ WorkerStep
  \/ Restart

Spec == Init /\ [][Next]_vars
=============================================================================
