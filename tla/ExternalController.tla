-------------------------- MODULE ExternalController --------------------------
(***************************************************************************)
(* The reconcilers of ExternalAccess and ClusterExternalAccess objects     *)
(* (externalaccess_*.go, clusterexternalaccess_*.go), side by side in one  *)
(* manager: one worker for each kind, over the same caches, services and   *)
(* policies.  The code of the two kinds is the same but for the names they *)
(* format, the keys of their labels and annotations and the namespaces     *)
(* they list services in.                                                  *)
(*                                                                         *)
(* Each service that an object selects gets one policy for each CIDR.  A   *)
(* policy that both kinds write keeps the labels of both and has the       *)
(* ownerReference of the one that wrote it last.                           *)
(***************************************************************************)
EXTENDS Reconciling, CidrTargets

CONSTANTS
  Kinds,
  KindOf,          \* the kind of an access object
  AccessNs,        \* its namespace, Everywhere if it has none
  AccessName,      \* its name: the label on its policies has no namespace
  Everywhere,
  AnnotatedKinds   \* the kinds whose keys the users write annotations with

ASSUME ExternalAssumption ==
  /\ Targets = WrittenTargets
  /\ KindOf \in [Accesses -> Kinds]
  /\ AccessNs \in [Accesses -> Namespaces \cup {Everywhere}]
  /\ Everywhere \notin Namespaces
  /\ AnnotatedKinds \subseteq Kinds
  /\ \A a \in Accesses : \A sp \in Specs[a] : ~sp.mirrored

VARIABLES
  job,              \* [Kinds -> what the worker holds], see Jobs
  statusNeedUpdate  \* [Kinds -> the reconciler's field]

ctlVars == <<job, statusNeedUpdate>>
vars    == <<clusterVars, ctlVars>>

PCs == {Idle, "expired", "list", "cleanup", "services", "targets", "undeploy"}

Sources == [svc : Services, direction : Directions, pods : Pods,
            ports : SUBSET ServicePorts]

\* pc: where Reconcile is; req: the request it serves; obj: access, the copy
\* read from the cache; owned: what is left of the owned policies; listed: what
\* is left of the services; matched, deployed: as in the code; source: the
\* service whose CIDRs are being deployed; targets: what is left of them;
\* undeploy: the policy deployResource deletes again, if it has to.
Jobs ==
  [pc : PCs, req : Maybe(Accesses), obj : Maybe(AccessObjects),
   owned : SUBSET [key : NetpolKeys, svc : Services],
   listed : SUBSET [svc : Services, version : ServiceVersions],
   matched : SUBSET Services, source : Maybe(Sources), targets : SUBSET Targets,
   undeploy : Maybe(NetpolKeys), deployed : SUBSET NetpolKeys]

NoJob == [pc |-> Idle, req |-> Absent, obj |-> Absent, owned |-> {}, listed |-> {},
          matched |-> {}, source |-> Absent, targets |-> {}, undeploy |-> Absent,
          deployed |-> {}]

TypeOK ==
  /\ ClusterTypeOK
  /\ job \in [Kinds -> Jobs]
  /\ statusNeedUpdate \in [Kinds -> BOOLEAN]

AllIdle == [w \in Kinds |-> NoJob]
NoMarks == [w \in Kinds |-> FALSE]

Init == ClusterInit /\ job = AllIdle /\ statusNeedUpdate = NoMarks

-----------------------------------------------------------------------------
(* Steps of a worker, labels *)

Become(w, j) == job' = [job EXCEPT ![w] = j]

\* setCondition marks the status when a condition changes.
Marks(w, old, new) ==
  statusNeedUpdate' = [statusNeedUpdate EXCEPT ![w] = @ \/ old.conds # new.conds]

Advance(w, j) == Become(w, j) /\ Marks(w, job[w].obj, j.obj)

\* The owner labels of a policy, and those an object of its kind and name reads.
LabelsOf(n) == {[owner |-> n.owner, svc |-> n.svc]} \cup n.others

LabelsFor(a, n) ==
  {l \in LabelsOf(n) : KindOf[l.owner] = KindOf[a] /\ AccessName[l.owner] = AccessName[a]}

ReadAny(w, v) == v

\* What a service's annotations say to the reconciler of kind w.
Read(w, v) == IF w \in AnnotatedKinds THEN v
              ELSE [v EXCEPT !.targets = NoAnnotation, !.direction = NoAnnotation]

-----------------------------------------------------------------------------
(* Deploying one policy; `status` is the condition that results, and an error *)
(* is dropped                                                                 *)

PolicyKey(a, s, d, c) ==
  [ns |-> NsOf[s],
   name |-> NameOf[[access |-> a, self |-> s, peer |-> c,
                    suffix |-> DirectionSuffix(d), mirror |-> FALSE]]]

UnportedPolicy(o, a, src, c) ==
  [owner |-> a, uid |-> o.uid, svc |-> src.svc, others |-> {}, mirror |-> FALSE,
   spec |-> DefineExternalAccessNetworkPolicyCIDR(src.pods, c, {}, src.direction)]

Policy(o, a, src, c) ==
  [owner |-> a, uid |-> o.uid, svc |-> src.svc, others |-> {}, mirror |-> FALSE,
   spec |-> DefineExternalAccessNetworkPolicyCIDR(src.pods, c, src.ports, src.direction)]

Valid(n) == \A r \in n.spec.ingress \cup n.spec.egress : ServerTakes(r.cidr)

CreateResource(k, n, status) ==
  /\ npCache[k] = Absent
  /\ \/ /\ status = "True"
        /\ netpols[k] = Absent /\ Valid(n)
        /\ NoFault
        /\ WriteNetpol(k, n)
     \/ /\ status = "False"
        /\ IF netpols[k] = Absent /\ Valid(n) THEN Fault ELSE NoFault
        /\ UNCHANGED npVars

SameLabels(n, old) == \E l \in LabelsFor(n.owner, old) : l.svc = n.svc

\* The ownerReference is not compared.
Unchanged(n, old) == old.spec = n.spec /\ SameLabels(n, old)

\* The labels of the cached policy that n does not overwrite are kept.
Merged(n, old) ==
  [n EXCEPT !.others = {l \in LabelsOf(old) : KindOf[l.owner] # KindOf[n.owner]}]

\* An Update that fails, and a second Get that does not find the policy any more,
\* leave the condition False.
ReconcileResource(k, n, status) ==
  /\ npCache[k] # Absent
  /\ \/ /\ status = "True"
        /\ Unchanged(n, npCache[k])
        /\ NoFault
        /\ UNCHANGED npVars
     \/ /\ status = "True"
        /\ ~Unchanged(n, npCache[k]) /\ npEvents[k] = {} /\ Valid(n)
        /\ NoFault
        /\ WriteNetpol(k, Merged(n, npCache[k]))
     \/ /\ status = "False"
        /\ ~Unchanged(n, npCache[k]) \/ netpols[k] = Absent
        /\ IF npEvents[k] = {} /\ Valid(n) THEN Fault ELSE NoFault
        /\ UNCHANGED npVars

DeployResource(k, n, status) == CreateResource(k, n, status) \/ ReconcileResource(k, n, status)

DeleteResource(k, status) ==
  /\ npCache[k] # Absent
  /\ \/ /\ status = "True"
        /\ netpols[k] # Absent
        /\ NoFault
        /\ WriteNetpol(k, Absent)
     \/ /\ status = "False"
        /\ IF netpols[k] = Absent THEN NoFault ELSE Fault
        /\ UNCHANGED npVars

-----------------------------------------------------------------------------
(* Reconcile: the start, the expiry and the cleanup *)

ReconcileGone(a) ==
  /\ job[KindOf[a]].pc = Idle /\ a \in queue
  /\ accCache[a] = Absent
  /\ queue' = queue \ {a}
  /\ UNCHANGED <<timers, now, svcVars, accVars, npVars, bounds, ctlVars>>

\* Get and isExpired.
ReconcileStart(a) ==
  LET w == KindOf[a]
      o == Dated(accCache[a])
      j == [NoJob EXCEPT !.req = a, !.obj = o]
  IN /\ job[w].pc = Idle /\ a \in queue
     /\ accCache[a] # Absent
     /\ queue' = queue \ {a}
     /\ touched' = {b \in touched : KindOf[b] # w} \cup ({a} \cap accEvents)
     /\ Marks(w, accCache[a], o)
     /\ IF IsExpired(accCache[a])
        THEN Become(w, [j EXCEPT !.pc = "expired"])
        ELSE Become(w, [j EXCEPT !.pc = "list"])
     /\ UNCHANGED <<timers, now, accesses, accCache, accEvents, specHist,
                    svcVars, npVars, bounds>>

\* Delete names the object; an error, which NotFound is, puts the request back.
DeleteExpired(w) ==
  LET a == job[w].req
  IN /\ job[w].pc = "expired"
     /\ \/ /\ accesses[a] # Absent
           /\ NoFault
           /\ \/ accesses[a].deleting /\ UNCHANGED accVars
              \/ ~accesses[a].deleting /\ WriteAccess(a, Absent) /\ UNCHANGED specHist
           /\ UNCHANGED queue
        \/ /\ IF accesses[a] = Absent THEN NoFault ELSE Fault
           /\ queue' = queue \cup {a}
           /\ UNCHANGED accVars
     /\ Become(w, NoJob)
     /\ UNCHANGED <<statusNeedUpdate, timers, now, svcVars, npVars>>

\* The list of the policies labelled with this name, as the cache has them by now.
ListOwned(w) ==
  LET j == job[w]
  IN /\ j.pc = "list"
     /\ Become(w, [j EXCEPT !.pc = "cleanup",
          !.owned = UNION {{[key |-> k, svc |-> l.svc] : l \in LabelsFor(j.req, npCache[k])} :
                             k \in {i \in NetpolKeys : npCache[i] # Absent}}])
     /\ UNCHANGED <<statusNeedUpdate, clusterVars>>

UnannotatedService(o) ==
  IF svcCache[o.svc] = Absent THEN TRUE ELSE svcCache[o.svc].targets = NoAnnotation

IsOrphan(o) == svcCache[o.svc] = Absent

\* One owned policy, deleted if its service is not in the cache.  A Delete that
\* fails sets one condition False, and after either outcome another is set True.
CleanupOne(w) ==
  /\ job[w].pc = "cleanup"
  /\ \E o \in job[w].owned :
       LET j       == [job[w] EXCEPT !.owned = @ \ {o}]
           cleaned == [j EXCEPT !.obj = WithCond(@, "NetpolsGCReady", "True")]
           failed  == [j EXCEPT !.obj = WithCond(WithCond(@, "NetpolsGCNotReady", "False"),
                                                 "NetpolsGCReady", "True")]
       IN \/ /\ ~IsOrphan(o)
             /\ NoFault
             /\ UNCHANGED npVars
             /\ Advance(w, j)
          \/ /\ IsOrphan(o) /\ netpols[o.key] # Absent
             /\ NoFault
             /\ WriteNetpol(o.key, Absent)
             /\ Advance(w, cleaned)
          \/ /\ IsOrphan(o)
             /\ IF netpols[o.key] = Absent THEN NoFault ELSE Fault
             /\ UNCHANGED npVars
             /\ Advance(w, failed)
  /\ UNCHANGED <<wakeVars, svcVars, accVars>>

\* An ExternalAccess lists services in its own namespace.
InScope(a, s) == AccessNs[a] \in {Everywhere, NsOf[s]}

ListServices(w) ==
  LET j == job[w]
  IN /\ j.pc = "cleanup" /\ j.owned = {}
     /\ j.obj.spec.selector # BadSelector
     /\ Become(w, [j EXCEPT !.pc = "services",
          !.listed = {[svc |-> s, version |-> Read(w, svcCache[s])] :
                        s \in {t \in Services : /\ InScope(j.req, t)
                                                /\ svcCache[t] # Absent
                                                /\ svcCache[t].label \in j.obj.spec.selector}}])
     /\ UNCHANGED <<statusNeedUpdate, clusterVars>>

ListFails(w) ==
  /\ job[w].pc = "cleanup" /\ job[w].owned = {}
  /\ job[w].obj.spec.selector = BadSelector
  /\ queue' = queue \cup {job[w].req}
  /\ Become(w, NoJob)
  /\ UNCHANGED <<statusNeedUpdate, timers, now, svcVars, accVars, npVars, bounds>>

-----------------------------------------------------------------------------
(* Reconcile: the services and their CIDRs *)

\* The annotations come from the list; the details are read now.
IsSource(l, spec) ==
  /\ TargetsOf(l.version, spec) # {}
  /\ IsValidDirection(DirectionOf(l.version, spec))
  /\ HasDetails(svcCache[l.svc])

\* To the next CIDR, or the next service.
NextTarget(j) == IF j.targets = {} THEN [j EXCEPT !.pc = "services", !.source = Absent]
                                   ELSE [j EXCEPT !.pc = "targets"]

SkipService(w) ==
  /\ job[w].pc = "services"
  /\ \E l \in job[w].listed :
       /\ ~IsSource(l, job[w].obj.spec)
       /\ Become(w, [job[w] EXCEPT !.listed = @ \ {l}, !.matched = @ \cup {l.svc}])
  /\ UNCHANGED <<statusNeedUpdate, clusterVars>>

BeginService(w) ==
  /\ job[w].pc = "services"
  /\ \E l \in job[w].listed :
       LET spec == job[w].obj.spec
           v    == svcCache[l.svc]
       IN /\ IsSource(l, spec)
          /\ Become(w, NextTarget(
               [job[w] EXCEPT
                  !.listed = @ \ {l}, !.matched = @ \cup {l.svc},
                  !.targets = FinalCidrs(TargetsOf(l.version, spec),
                                         l.version.targets # NoAnnotation),
                  !.source = [svc |-> l.svc, direction |-> ToLower(DirectionOf(l.version, spec)),
                              pods |-> v.pods, ports |-> v.ports]]))
  /\ UNCHANGED <<statusNeedUpdate, clusterVars>>

EndsSometime(o) == o.deleting \/ o.expiresAt # NoTime

BeingDeleted(o) == o.deleting

\* The policy is listed as deployed whatever the outcome.
Deploy(w) ==
  /\ job[w].pc = "targets"
  /\ \E c \in job[w].targets, status \in {"True", "False"} :
       LET old == job[w]
           k == PolicyKey(old.req, old.source.svc, old.source.direction, c)
           j == [old EXCEPT !.targets = @ \ {c}, !.deployed = @ \cup {k},
                            !.obj = WithCond(@, "NetworkPolicyDeployReady", status)]
       IN /\ DeployResource(k, Policy(old.obj, old.req, old.source, c), status)
          /\ Advance(w, IF BeingDeleted(old.obj)
                        THEN [j EXCEPT !.pc = "undeploy", !.undeploy = k]
                        ELSE NextTarget(j))
  /\ UNCHANGED <<wakeVars, svcVars, accVars>>

\* deployResource's last step for an object that is being deleted.
Undeploy(w) ==
  LET k == job[w].undeploy
      j == NextTarget([job[w] EXCEPT !.undeploy = Absent])
  IN /\ job[w].pc = "undeploy"
     /\ \/ /\ npCache[k] = Absent
           /\ NoFault
           /\ UNCHANGED npVars
           /\ Advance(w, j)
        \/ \E status \in {"True", "False"} :
             /\ DeleteResource(k, status)
             /\ Advance(w, [j EXCEPT !.obj = WithCond(@, "NetworkPolicyDeployReady", status)])
     /\ UNCHANGED <<wakeVars, svcVars, accVars>>

-----------------------------------------------------------------------------
(* Reconcile: the status and the requeue *)

\* The copy with its lists rebuilt and their conditions set.
Refreshed(j) ==
  WithCond(WithCond([Existing(j.obj) EXCEPT !.netpols = @ \cup j.deployed,
                                            !.services = @ \cup j.matched],
                    "NetpolsListReady", "True"), "ServicesListReady", "True")

\* Only a vanished entry or a changed condition marks the status; a new entry
\* does not.
StatusChanged(w) ==
  \/ statusNeedUpdate[w]
  \/ Existing(job[w].obj) # job[w].obj
  \/ Refreshed(job[w]).conds # job[w].obj.conds

Marked(w, b) == statusNeedUpdate' = [statusNeedUpdate EXCEPT ![w] = b]

\* updateStatus.  A conflict and a condition that is False leave the mark.
UpdateStatus(w, o) ==
  LET a     == job[w].req
      ready == WithCond(o, "Ready", "True")
  IN \/ /\ ~StatusChanged(w)
        /\ NoFault
        /\ UNCHANGED <<accVars, statusNeedUpdate>>
     \/ /\ StatusChanged(w) /\ ~AllConditionsReady(o)
        /\ NoFault
        /\ Marked(w, TRUE)
        /\ UNCHANGED accVars
     \/ /\ StatusChanged(w) /\ AllConditionsReady(o)
        /\ a \notin touched /\ accesses[a] # Absent
        /\ NoFault
        /\ Marked(w, FALSE)
        /\ \/ WithStatus(a, ready) = accesses[a] /\ UNCHANGED accVars
           \/ /\ WithStatus(a, ready) # accesses[a] \/ Reordered(o)
              /\ WriteAccess(a, WithStatus(a, ready)) /\ UNCHANGED specHist
     \/ /\ StatusChanged(w) /\ AllConditionsReady(o)
        /\ IF a \notin touched /\ accesses[a] # Absent THEN Fault ELSE NoFault
        /\ Marked(w, TRUE)
        /\ UNCHANGED accVars

FinishReconcile(w) ==
  /\ job[w].pc = "services" /\ job[w].listed = {}
  /\ UpdateStatus(w, Refreshed(job[w]))
  /\ Requeue(job[w].req, job[w].obj)
  /\ Become(w, NoJob)
  /\ UNCHANGED <<queue, now, svcVars, npVars>>

-----------------------------------------------------------------------------
WorkerStep(w) ==
  \/ DeleteExpired(w) \/ ListOwned(w) \/ CleanupOne(w) \/ ListServices(w) \/ ListFails(w)
  \/ SkipService(w) \/ BeginService(w) \/ Deploy(w) \/ Undeploy(w)
  \/ FinishReconcile(w)

Reconcile(a) == ReconcileGone(a) \/ ReconcileStart(a)

\* The process dies between two steps, with both workers, and starts again.
Restart == ClusterRestart /\ job' = AllIdle /\ statusNeedUpdate' = NoMarks

Next ==
  \/ (UserStep \/ PlatformStep) /\ UNCHANGED ctlVars
  \/ \E a \in Accesses : Reconcile(a)
  \/ \E w \in Kinds : WorkerStep(w)
  \/ Restart

Spec == Init /\ [][Next]_vars
=============================================================================
