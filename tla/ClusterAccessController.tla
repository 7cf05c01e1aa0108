----------------------- MODULE ClusterAccessController -----------------------
(***************************************************************************)
(* The reconciler of ClusterAccess objects (clusteraccess_controller.go,   *)
(* clusteraccess_utils.go, clusteraccess_status.go): one worker that takes *)
(* a request from the queue and goes through the steps of Reconcile, each  *)
(* reading a cache or writing to the API server, while users, watch        *)
(* events, the garbage collector and the clock move between any two steps. *)
(*                                                                         *)
(* A step of the model is a cached read with the write that follows it.    *)
(* The objects that Reconcile holds across steps are variables: the        *)
(* ClusterAccess read at the start (changed in memory only), the list of   *)
(* owned policies, the listed services, the details of the source service  *)
(* and of the current target.                                              *)
(***************************************************************************)
EXTENDS Reconciling

ASSUME ClusterAccessAssumption == Targets = Services

VARIABLES
  pc,        \* where Reconcile is
  req,       \* the request it serves
  obj,       \* access: the copy read from the cache, and its in-memory status
  owned,     \* what is left of the list of owned policies: key and service
  listed,    \* what is left of the list of services: service and version
  matched,   \* matchedServices
  source,    \* the service whose targets are being deployed, its details
  targets,   \* what is left of its targets
  peer,      \* the target whose policies are being deployed, its pods
  deployed,  \* deployedNetpols
  statusNeedUpdate  \* the reconciler's field, shared by all objects

PCs == {Idle, "expired", "list", "cleanup", "services",
        "targets", "undeploySource", "mirror", "undeployMirror"}

NoObj    == Absent
NoSource == Absent
NoPeer   == Absent

jobVars == <<req, obj, owned, listed, matched, source, targets, peer, deployed>>
ctlVars == <<pc, jobVars, statusNeedUpdate>>
vars    == <<clusterVars, ctlVars>>

Sources == [svc : Services, direction : Directions, pods : Pods,
            ports : SUBSET ServicePorts]
Peers   == [svc : Services, pods : Pods]

JobTypeOK ==
  /\ pc \in PCs
  /\ req \in Maybe(Accesses)
  /\ obj \in Maybe(AccessObjects)
  /\ owned \subseteq [key : NetpolKeys, svc : Services]
  /\ listed \subseteq [svc : Services, version : ServiceVersions]
  /\ matched \subseteq Services
  /\ source \in Maybe(Sources)
  /\ targets \subseteq Services
  /\ peer \in Maybe(Peers)
  /\ deployed \subseteq NetpolKeys
  /\ statusNeedUpdate \in BOOLEAN

TypeOK == ClusterTypeOK /\ JobTypeOK

\* No reconcile is running and nothing is held from an earlier one.
AtRest ==
  /\ pc = Idle /\ req = Absent /\ obj = NoObj
  /\ owned = {} /\ listed = {} /\ matched = {}
  /\ source = NoSource /\ targets = {} /\ peer = NoPeer /\ deployed = {}

ToRest ==
  /\ pc' = Idle /\ req' = Absent /\ obj' = NoObj
  /\ owned' = {} /\ listed' = {} /\ matched' = {}
  /\ source' = NoSource /\ targets' = {} /\ peer' = NoPeer /\ deployed' = {}

Init == ClusterInit /\ AtRest /\ statusNeedUpdate = FALSE

-----------------------------------------------------------------------------
(* Helpers *)

\* setCondition: the condition in the copy, and whether that marks the status
\* as changed.
SetCondition(o, type, status) ==
  /\ obj' = WithCond(o, type, status)
  /\ statusNeedUpdate' = (statusNeedUpdate \/ o.conds[type] # status)

\* The two policies of a source and a target: key, labels and spec.
SourceKey(a, s, d, t) ==
  [ns |-> NsOf[s],
   name |-> NameOf[[access |-> a, self |-> s, peer |-> t,
                    suffix |-> DirectionSuffix(d), mirror |-> FALSE]]]

MirrorKey(a, s, d, t) ==
  [ns |-> NsOf[t],
   name |-> NameOf[[access |-> a, self |-> t, peer |-> s,
                    suffix |-> DirectionSuffix(MirroredDirection(d)), mirror |-> TRUE]]]

\* src: the source and its details; p: the target and its pods.  Both policies
\* carry the ports of the source.
SourceNetpol(o, a, src, p) ==
  [owner |-> a, uid |-> o.uid, svc |-> src.svc, others |-> {}, mirror |-> FALSE,
   spec |-> DefineAccessNetworkPolicy(src.pods, p.pods, NsOf[p.svc],
                                      src.ports, src.direction)]

MirrorNetpol(o, a, src, p) ==
  [owner |-> a, uid |-> o.uid, svc |-> src.svc, others |-> {}, mirror |-> TRUE,
   spec |-> DefineAccessNetworkPolicy(p.pods, src.pods, NsOf[src.svc],
                                      src.ports, MirroredDirection(src.direction))]

-----------------------------------------------------------------------------
(* Deploying one policy *)

\* createResource drops the error of a failed Create (setCondition overwrites
\* it), so the caller goes on as after a success.
CreateResource(k, n) ==
  /\ npCache[k] = Absent
  /\ \/ /\ netpols[k] = Absent
        /\ NoFault
        /\ WriteNetpol(k, n)
        /\ SetCondition(obj, "NetworkPolicyDeployReady", "True")
     \/ /\ IF netpols[k] = Absent THEN Fault ELSE NoFault
        /\ UNCHANGED npVars
        /\ SetCondition(obj, "NetworkPolicyDeployReady", "False")

\* The labels of the cached policy are kept and the new ones added, so a mirror
\* label stays.  The ownerReference is not compared.
Merged(n, old) == [n EXCEPT !.mirror = @ \/ old.mirror]

SameLabels(n, old) ==
  /\ old.owner = n.owner /\ old.svc = n.svc
  /\ n.mirror => old.mirror

Unchanged(n, old) ==
  /\ old.spec = n.spec
  /\ SameLabels(n, old)

\* An Update carries the cached resourceVersion and so fails when the policy
\* was written since; its error is dropped too.  So is that of a second Get of the
\* policy, which finds nothing if the cache has heard of its deletion by then.
ReconcileResource(k, n) ==
  /\ npCache[k] # Absent
  /\ \/ /\ Unchanged(n, npCache[k])
        /\ NoFault
        /\ UNCHANGED npVars
        /\ SetCondition(obj, "NetworkPolicyDeployReady", "True")
     \/ /\ ~Unchanged(n, npCache[k])
        /\ npEvents[k] = {}
        /\ NoFault
        /\ WriteNetpol(k, Merged(n, npCache[k]))
        /\ SetCondition(obj, "NetworkPolicyDeployReady", "True")
     \/ /\ ~Unchanged(n, npCache[k]) \/ netpols[k] = Absent
        /\ IF npEvents[k] = {} THEN Fault ELSE NoFault
        /\ UNCHANGED npVars
        /\ SetCondition(obj, "NetworkPolicyDeployReady", "False")

DeployResource(k, n) == CreateResource(k, n) \/ ReconcileResource(k, n)

\* deployResource's last step when the ClusterAccess is being deleted: what the
\* cache shows is deleted again.
DeleteResource(k) ==
  \/ /\ npCache[k] = Absent
     /\ NoFault
     /\ UNCHANGED <<npVars, obj, statusNeedUpdate>>
  \/ /\ npCache[k] # Absent /\ netpols[k] # Absent
     /\ NoFault
     /\ WriteNetpol(k, Absent)
     /\ SetCondition(obj, "NetworkPolicyDeployReady", "True")
  \/ /\ npCache[k] # Absent
     /\ IF netpols[k] = Absent THEN NoFault ELSE Fault
     /\ UNCHANGED npVars
     /\ SetCondition(obj, "NetworkPolicyDeployReady", "False")

-----------------------------------------------------------------------------
(* Reconcile: the start, the expiry and the cleanup *)

\* The request of a ClusterAccess the cache does not have (any more).
ReconcileGone(a) ==
  /\ pc = Idle /\ a \in queue
  /\ accCache[a] = Absent
  /\ queue' = queue \ {a}
  /\ UNCHANGED <<timers, now, svcVars, accVars, npVars, bounds, ctlVars>>

\* Get and isExpired.
ReconcileStart(a) ==
  /\ pc = Idle /\ a \in queue
  /\ accCache[a] # Absent
  /\ queue' = queue \ {a}
  /\ req' = a
  /\ obj' = Dated(accCache[a])
  /\ statusNeedUpdate' = (statusNeedUpdate \/ accCache[a].conds # Dated(accCache[a]).conds)
  /\ touched' = {a} \cap accEvents
  /\ IF IsExpired(accCache[a])
     THEN pc' = "expired"
     ELSE pc' = "list"
  /\ UNCHANGED <<owned, listed, matched, source, targets, peer, deployed, timers, now,
                 accesses, accCache, accEvents, specHist, svcVars, npVars, bounds>>

\* Delete names the object; it carries neither uid nor resourceVersion.  An
\* error, which NotFound is, puts the request back.
DeleteExpired ==
  /\ pc = "expired"
  /\ \/ /\ accesses[req] # Absent
        /\ NoFault
        /\ \/ accesses[req].deleting /\ UNCHANGED accVars
           \/ ~accesses[req].deleting /\ WriteAccess(req, Absent) /\ UNCHANGED specHist
        /\ UNCHANGED queue
     \/ /\ IF accesses[req] = Absent THEN NoFault ELSE Fault
        /\ queue' = queue \cup {req}
        /\ UNCHANGED accVars
  /\ ToRest
  /\ UNCHANGED <<statusNeedUpdate, timers, now, svcVars, npVars>>

\* The list of the policies labelled with this owner, as the cache has them by now.
ListOwned ==
  /\ pc = "list"
  /\ pc' = "cleanup"
  /\ owned' = {[key |-> k, svc |-> npCache[k].svc] :
                 k \in {i \in NetpolKeys : npCache[i] # Absent /\ npCache[i].owner = req}}
  /\ UNCHANGED <<req, obj, listed, matched, source, targets, peer, deployed,
                 statusNeedUpdate, clusterVars>>

UnmatchedService(o) ==
  IF svcCache[o.svc] = Absent THEN TRUE ELSE svcCache[o.svc].label \notin obj.spec.selector

\* The service in the label of an owned policy is not in the cache.
IsOrphan(o) == svcCache[o.svc] = Absent

\* One owned policy, deleted if it is an orphan.  A Delete that fails (NotFound
\* too) sets one condition False, and after either outcome another is set True.
CleanupOne ==
  /\ pc = "cleanup"
  /\ \E o \in owned :
       /\ owned' = owned \ {o}
       /\ \/ /\ ~IsOrphan(o)
             /\ NoFault
             /\ UNCHANGED <<npVars, obj, statusNeedUpdate>>
          \/ /\ IsOrphan(o) /\ netpols[o.key] # Absent
             /\ NoFault
             /\ WriteNetpol(o.key, Absent)
             /\ SetCondition(obj, "NetpolsGCReady", "True")
          \/ /\ IsOrphan(o)
             /\ IF netpols[o.key] = Absent THEN NoFault ELSE Fault
             /\ UNCHANGED npVars
             /\ obj' = WithCond(WithCond(obj, "NetpolsGCNotReady", "False"),
                                "NetpolsGCReady", "True")
             /\ statusNeedUpdate' = (statusNeedUpdate \/ obj'.conds # obj.conds)
  /\ UNCHANGED <<pc, req, listed, matched, source, targets, peer, deployed,
                 wakeVars, svcVars, accVars>>

\* List the services the selector matches; a selector that does not convert is
\* an error, and the request goes back.
ListServices ==
  /\ pc = "cleanup" /\ owned = {}
  /\ obj.spec.selector # BadSelector
  /\ pc' = "services"
  /\ listed' = {[svc |-> s, version |-> svcCache[s]] :
                  s \in {t \in Services : svcCache[t] # Absent
                                          /\ svcCache[t].label \in obj.spec.selector}}
  /\ UNCHANGED <<req, obj, owned, matched, source, targets, peer, deployed,
                 statusNeedUpdate, clusterVars>>

ListFails ==
  /\ pc = "cleanup" /\ owned = {}
  /\ obj.spec.selector = BadSelector
  /\ queue' = queue \cup {req}
  /\ ToRest
  /\ UNCHANGED <<statusNeedUpdate, timers, now, svcVars, accVars, npVars, bounds>>

-----------------------------------------------------------------------------
(* Reconcile: the services and their targets *)

\* The annotations come from the list; the details are read now.
IsSource(l) ==
  /\ TargetsOf(l.version, obj.spec) # {}
  /\ IsValidDirection(DirectionOf(l.version, obj.spec))
  /\ HasDetails(svcCache[l.svc])

SkipService ==
  /\ pc = "services"
  /\ \E l \in listed :
       /\ ~IsSource(l)
       /\ listed' = listed \ {l}
       /\ matched' = matched \cup {l.svc}
  /\ UNCHANGED <<pc, req, obj, owned, source, targets, peer, deployed,
                 statusNeedUpdate, clusterVars>>

BeginService ==
  /\ pc = "services"
  /\ \E l \in listed :
       /\ IsSource(l)
       /\ listed' = listed \ {l}
       /\ matched' = matched \cup {l.svc}
       /\ targets' = TargetsOf(l.version, obj.spec)
       /\ source' = [svc |-> l.svc,
                     direction |-> ToLower(DirectionOf(l.version, obj.spec)),
                     pods |-> svcCache[l.svc].pods, ports |-> svcCache[l.svc].ports]
  /\ pc' = "targets"
  /\ UNCHANGED <<req, obj, owned, peer, deployed, statusNeedUpdate, clusterVars>>

\* Done with a target: the next one, or the next service.
NextTarget ==
  /\ peer' = NoPeer
  /\ IF targets' = {} THEN pc' = "services" /\ source' = NoSource
                      ELSE pc' = "targets" /\ UNCHANGED source

SkipTarget ==
  /\ pc = "targets"
  /\ \E t \in targets :
       /\ ~HasDetails(svcCache[t])
       /\ targets' = targets \ {t}
  /\ NextTarget
  /\ UNCHANGED <<req, obj, owned, listed, matched, deployed, statusNeedUpdate, clusterVars>>

\* After the source's policy: the mirrored one, if the spec asks for it.
AfterSource(p) ==
  IF obj.spec.mirrored
  THEN pc' = "mirror" /\ peer' = p /\ UNCHANGED source
  ELSE NextTarget

\* The status entry of the source's policy is given the target's namespace.
DeploySource ==
  /\ pc = "targets"
  /\ \E t \in targets :
       LET p == [svc |-> t, pods |-> svcCache[t].pods]
           k == SourceKey(req, source.svc, source.direction, t)
       IN /\ HasDetails(svcCache[t])
          /\ targets' = targets \ {t}
          /\ DeployResource(k, SourceNetpol(obj, req, source, p))
          /\ deployed' = deployed \cup {[k EXCEPT !.ns = NsOf[t]]}
          /\ IF obj.deleting
             THEN pc' = "undeploySource" /\ peer' = p /\ UNCHANGED source
             ELSE AfterSource(p)
  /\ UNCHANGED <<req, owned, listed, matched, wakeVars, svcVars, accVars>>

UndeploySource ==
  /\ pc = "undeploySource"
  /\ DeleteResource(SourceKey(req, source.svc, source.direction, peer.svc))
  /\ UNCHANGED targets
  /\ AfterSource(peer)
  /\ UNCHANGED <<req, owned, listed, matched, deployed, wakeVars, svcVars, accVars>>

DeployMirror ==
  /\ pc = "mirror"
  /\ LET k == MirrorKey(req, source.svc, source.direction, peer.svc)
     IN /\ DeployResource(k, MirrorNetpol(obj, req, source, peer))
        /\ deployed' = deployed \cup {k}
  /\ UNCHANGED targets
  /\ IF obj.deleting THEN pc' = "undeployMirror" /\ UNCHANGED <<peer, source>>
                     ELSE NextTarget
  /\ UNCHANGED <<req, owned, listed, matched, wakeVars, svcVars, accVars>>

UndeployMirror ==
  /\ pc = "undeployMirror"
  /\ DeleteResource(MirrorKey(req, source.svc, source.direction, peer.svc))
  /\ UNCHANGED targets
  /\ NextTarget
  /\ UNCHANGED <<req, owned, listed, matched, deployed, wakeVars, svcVars, accVars>>

-----------------------------------------------------------------------------
(* Reconcile: the status and the requeue *)

Refreshed(o) ==
  LET kept   == Existing(o)
      merged == [kept EXCEPT !.netpols = @ \cup deployed, !.services = @ \cup matched]
  IN WithCond(WithCond(merged, "NetpolsListReady", "True"), "ServicesListReady", "True")

\* Only a vanished entry or a changed condition marks the status; a new entry
\* does not.
StatusChanged ==
  \/ statusNeedUpdate
  \/ Existing(obj) # obj
  \/ Refreshed(obj).conds # obj.conds

\* updateStatus.  The update carries the resourceVersion read at the start; an
\* update that changes nothing leaves no event.  When a condition is False
\* nothing is written, and the mark stays.
UpdateStatus(o) ==
  LET ready == WithCond(o, "Ready", "True") IN
  \/ /\ ~StatusChanged
     /\ NoFault
     /\ UNCHANGED <<accVars, statusNeedUpdate>>
  \/ /\ StatusChanged /\ ~AllConditionsReady(o)
     /\ NoFault
     /\ statusNeedUpdate' = TRUE
     /\ UNCHANGED accVars
  \/ /\ StatusChanged /\ AllConditionsReady(o)
     /\ req \notin touched /\ accesses[req] # Absent
     /\ NoFault
     /\ statusNeedUpdate' = FALSE
     /\ \/ WithStatus(req, ready) = accesses[req] /\ UNCHANGED accVars
        \/ /\ WithStatus(req, ready) # accesses[req] \/ Reordered(o)
           /\ WriteAccess(req, WithStatus(req, ready)) /\ UNCHANGED specHist
  \/ /\ StatusChanged /\ AllConditionsReady(o)
     /\ IF req \notin touched /\ accesses[req] # Absent THEN Fault ELSE NoFault
     /\ statusNeedUpdate' = TRUE
     /\ UNCHANGED accVars

FinishReconcile ==
  /\ pc = "services" /\ listed = {}
  /\ UpdateStatus(Refreshed(obj))
  /\ Requeue(req, obj)
  /\ ToRest
  /\ UNCHANGED <<queue, now, svcVars, npVars>>

-----------------------------------------------------------------------------
WorkerStep ==
  \/ DeleteExpired \/ ListOwned \/ CleanupOne \/ ListServices \/ ListFails
  \/ SkipService \/ BeginService \/ SkipTarget
  \/ DeploySource \/ UndeploySource \/ DeployMirror \/ UndeployMirror
  \/ FinishReconcile

Reconcile(a) == ReconcileGone(a) \/ ReconcileStart(a)

\* The process dies between two steps and the manager starts again.
Restart == ClusterRestart /\ ToRest /\ statusNeedUpdate' = FALSE

Next ==
  \/ (UserStep \/ PlatformStep) /\ UNCHANGED ctlVars
  \/ \E a \in Accesses : Reconcile(a)
  \/ WorkerStep
  \/ Restart

Spec == Init /\ [][Next]_vars
=============================================================================
