----------------------------- MODULE AccessQuiet -----------------------------
(***************************************************************************)
(* What the Access controller has done when it has nothing left to do.     *)
(*                                                                         *)
(* Nothing is forgotten: whatever is not yet as the users want it, be it a *)
(* policy whose service is gone or an access that is missing, is the work  *)
(* of the reconcile that is running, or there is an event or a request     *)
(* that will bring the Access before the worker again.                     *)
(***************************************************************************)
EXTENDS AccessProofs

\* The worker leaves a policy or writes it, with an event.
LEMMA WorkerNotes ==
  ASSUME TypeInv, Provenance, WorkerStep
  PROVE  PoliciesNoted /\ \A k \in NetpolKeys : npEvents[k] \subseteq npEvents'[k]
<1>1. ASSUME UNCHANGED npVars
      PROVE  PoliciesNoted /\ \A k \in NetpolKeys : npEvents[k] \subseteq npEvents'[k]
  BY <1>1, PoliciesStay DEF npVars
<1>2. ASSUME NEW k \in NetpolKeys, PolicyStep(k)
      PROVE  PoliciesNoted /\ \A i \in NetpolKeys : npEvents[i] \subseteq npEvents'[i]
  <2>1. \A n : StoredAt(k, n) => n # Absent
    BY StoredRequested, MarkerAssumption DEF Provenance
  <2>2. PICK n : WriteNetpol(k, n) /\ (n # Absent \/ netpols[k] # Absent)
    BY <1>2, <2>1 DEF PolicyStep, Swept, Undone, StoredAt
  <2> QED
    BY <2>2, NetpolWritten DEF TypeInv, TypeOK, ClusterTypeOK
<1> QED
  BY <1>1, <1>2, WorkerChange DEF WorkerChanges

\* So does every step.
LEMMA NextNotes ==
  ASSUME TypeInv, Provenance, [Next]_vars
  PROVE  PoliciesNoted
<1>1. CASE UserStep \/ PlatformStep \/ Restart
  BY <1>1, ClusterPolicies DEF ClusterStep, Restart, TypeInv, TypeOK
<1>2. CASE (\E a \in Accesses : Reconcile(a)) \/ UNCHANGED vars
  BY <1>2, PoliciesStay DEF Reconcile, ReconcileGone, ReconcileStart, vars, clusterVars
<1> QED
  BY <1>1, <1>2, WorkerNotes DEF Next

\* Every step gives notice of what it changes, and only a reconcile takes a request.
LEMMA NextNotices ==
  ASSUME TypeInv, Provenance, [Next]_vars, NEW a \in Accesses, accesses'[a] # Absent
  PROVE  Noticed(a) /\ (a \in queue => a \in queue' \/ Reconcile(a))
<1>0. ClusterTypeOK
  BY DEF TypeInv, TypeOK
<1>1. ASSUME UNCHANGED <<svcVars, accVars>>,
             \A k \in NetpolKeys : npEvents[k] \subseteq npEvents'[k]
      PROVE  Noticed(a)
  BY <1>1 DEF svcVars, accVars, Noticed
<1>2. CASE UserStep \/ PlatformStep \/ Restart
  BY <1>0, <1>2, ClusterNotices DEF ClusterStep, Restart
<1>3. CASE (\E b \in Accesses : Reconcile(b)) \/ UNCHANGED vars
  <2>1. UNCHANGED <<svcVars, accVars, npVars>>
    BY <1>3 DEF Reconcile, ReconcileGone, ReconcileStart, vars, clusterVars
  <2>2. a \in queue => a \in queue' \/ Reconcile(a)
    BY <1>3 DEF Reconcile, ReconcileGone, ReconcileStart, vars, clusterVars, wakeVars
  <2> QED
    BY <1>1, <2>1, <2>2 DEF npVars
<1>4. CASE WorkerStep
  <2>1. queue \subseteq queue'
    BY <1>4 DEF WorkerStep, DeleteExpired, ListOwned, CleanupOne, ListServices, ListFails, SkipService,
                BeginService, SkipTarget, Deploy, Undeploy, FinishUnchanged, PrepareStatus,
                FinishStatus, clusterVars, wakeVars
  <2>2. CASE UNCHANGED npVars /\ ObjectStep /\ UNCHANGED svcVars
    <3>1. accesses' = [accesses EXCEPT ![req] = accesses'[req]] /\ accEvents' = accEvents \cup {req}
      BY <1>0, <2>2 DEF ObjectStep, WriteAccess, ClusterTypeOK, AccessesTypeOK
    <3>2. accesses'[a] = accesses[a] \/ a = req
      BY <1>0, <3>1 DEF ClusterTypeOK, AccessesTypeOK
    <3> QED
      BY <2>1, <2>2, <3>1, <3>2 DEF svcVars, npVars, Noticed
  <2> QED
    BY <1>1, <1>4, <2>1, <2>2, WorkerChange, WorkerNotes DEF WorkerChanges
<1> QED
  BY <1>2, <1>3, <1>4 DEF Next

\* Faults are not forgotten.
LEMMA FaultsStay ==
  ASSUME TypeInv, [Next]_vars, faults' = 0
  PROVE  faults = 0 /\ ~Fault
<1>1. faults \in Nat
  BY DEF TypeInv, TypeOK, ClusterTypeOK, BoundsTypeOK
<1>2. \/ UNCHANGED faults \/ Fault
      \/ \E m : Edit(m)
  BY DEF Next, UserStep, PlatformStep, PutService, DeleteService, CreateAccess, EditAccess,
         DeleteAccess, DeleteNetpol, CollectNetpol, DeliverNetpol, DeliverService,
         CollectAccess, DeliverAccess, TimerFires, Resync, Tick, Restart, ClusterRestart,
         Reconcile, ReconcileGone, ReconcileStart, WorkerStep, DeleteExpired, ListOwned, CleanupOne,
         ListServices, ListFails, SkipService, BeginService, SkipTarget, Deploy, Undeploy,
         FinishUnchanged, PrepareStatus, FinishStatus, DeployResource, CreateResource,
         ReconcileResource, NoFault, bounds, clusterVars, vars
<1> QED
  BY <1>1, <1>2 DEF Fault, Edit

-----------------------------------------------------------------------------
(* Policies whose service is gone *)

\* The policy under k is one of the living Access a, for a service that is gone.
Orphaned(a, k) ==
  /\ Living(a) /\ netpols[k] # Absent /\ netpols[k].owner = a
  /\ services[netpols[k].svc] = Absent

\* The worker is about to delete a or to list its policies, or still has the policy on
\* its list.
Sweeping(a, k) ==
  /\ pc # Idle /\ req = a
  /\ \/ pc \in {"expired", "list"}
     \/ pc = "cleanup" /\ [key |-> k, svc |-> netpols[k].svc] \in owned

OrphansAttended ==
  faults = 0 =>
    \A a \in Accesses, k \in NetpolKeys :
      Orphaned(a, k) => Awaited(a, netpols[k].svc, k) \/ Sweeping(a, k)

\* A reconcile that runs is gone on with, interrupted or done.
LEMMA RunningNext ==
  ASSUME [Next]_vars, pc # Idle
  PROVE  UNCHANGED ctlVars \/ WorkerStep \/ Restart
BY DEF Next, Reconcile, ReconcileGone, ReconcileStart, vars

\* A restarted manager queues every Access.
LEMMA RestartQueues ==
  ASSUME Restart, NEW a \in Accesses, accesses[a] # Absent
  PROVE  a \in queue'
BY DEF Restart, ClusterRestart

\* While no write fails, an Access found expired is deleted.
LEMMA ExpiredDeleted ==
  ASSUME TypeInv, DeleteExpired, ~Fault, Living(req)
  PROVE  accesses'[req] = Absent
<1>1. req \in Accesses
  BY DEF DeleteExpired, TypeInv, Holding, Idle
<1> QED
  BY <1>1 DEF DeleteExpired, Living, WriteAccess, TypeInv, TypeOK, ClusterTypeOK,
              AccessesTypeOK

\* Orphans stay attended.
LEMMA OrphansNext ==
  ASSUME TypeInv, TypeInv', Provenance, PoliciesKnown, OrphansAttended, [Next]_vars
  PROVE  OrphansAttended'
<1> SUFFICES ASSUME faults' = 0, NEW a \in Accesses, NEW k \in NetpolKeys, Orphaned(a, k)',
                    ~Awaited(a, netpols[k].svc, k)'
             PROVE  Sweeping(a, k)'
  BY DEF OrphansAttended
<1>1. faults = 0 /\ ~Fault
  BY FaultsStay
<1>2. accesses'[a] # Absent /\ ~accesses'[a].deleting /\ netpols'[k] # Absent
      /\ netpols'[k].owner = a /\ services'[netpols'[k].svc] = Absent
  BY DEF Orphaned, Living
<1>3. PICK s \in Services : s = netpols'[k].svc
  BY <1>2 DEF TypeInv, TypeOK, ClusterTypeOK, NetpolsTypeOK, Maybe, NetpolObjects
<1>4. PoliciesNoted /\ Noticed(a) /\ (a \in queue => a \in queue' \/ Reconcile(a))
  BY <1>2, NextNotes, NextNotices
<1>5. a \notin queue' /\ a \notin accEvents' /\ a \notin npEvents'[k] /\ s \notin svcEvents'
  BY <1>3 DEF Awaited
<1>6. /\ accesses'[a] = accesses[a] /\ services'[s] = services[s]
      /\ netpols'[k] = netpols[k]
      /\ Awaited(a, s, k) => a \in queue
  BY <1>2, <1>3, <1>4, <1>5, AwaitedStays DEF Provenance, OwnerIn, Awaited
<1>7. Living(a) /\ netpols[k] # Absent /\ netpols[k].svc = s /\ netpols[k].owner = a
      /\ services[s] = Absent
  BY <1>2, <1>3, <1>6 DEF Living
<1>8. a \in queue \/ Sweeping(a, k)
  BY <1>1, <1>6, <1>7 DEF OrphansAttended, Orphaned
<1>9. CASE a \in queue
  <2>1. Reconcile(a)
    BY <1>4, <1>5, <1>9
  <2>2. UNCHANGED accVars
    BY <2>1 DEF Reconcile, ReconcileGone, ReconcileStart
  <2>3. accCache[a] = accesses[a]
    BY <1>5, <2>2 DEF accVars, Provenance, CachesCurrent
  <2>4. ReconcileStart(a)
    BY <1>7, <2>1, <2>3 DEF Reconcile, ReconcileGone, Living
  <2> QED
    BY <2>4 DEF ReconcileStart, Sweeping, Idle
<1>10. CASE Sweeping(a, k)
  <2>1. pc # Idle /\ req = a
    BY <1>10 DEF Sweeping
  <2>2. CASE UNCHANGED ctlVars
    BY <1>6, <1>10, <2>2 DEF ctlVars, jobVars, Sweeping
  <2>3. CASE Restart
    BY <1>5, <1>7, <2>3, RestartQueues DEF Living
  <2>4. CASE WorkerStep /\ pc = "expired"
    <3>1. DeleteExpired
      BY <2>4 DEF WorkerStep, ListOwned, CleanupOne, ListServices, ListFails, SkipService, BeginService,
                  SkipTarget, Deploy, Undeploy, FinishUnchanged, PrepareStatus, FinishStatus
    <3> QED
      BY <1>1, <1>2, <1>7, <2>1, <3>1, ExpiredDeleted
  <2>5. CASE WorkerStep /\ pc = "list"
    <3>1. ListOwned
      BY <2>5 DEF WorkerStep, DeleteExpired, CleanupOne, ListServices, ListFails, SkipService,
             BeginService, SkipTarget, Deploy, Undeploy, FinishUnchanged, PrepareStatus,
             FinishStatus
    <3>2. npCache[k] = netpols[k]
      BY <1>5, <1>7, <3>1 DEF ListOwned, clusterVars, npVars, PoliciesKnown
    <3>3. [key |-> k, svc |-> s] \in owned'
      BY <1>7, <2>1, <3>1, <3>2 DEF ListOwned
    <3> QED
      BY <1>3, <2>1, <3>1, <3>3 DEF ListOwned, Sweeping, Idle
  <2>6. CASE WorkerStep /\ pc = "cleanup"
    <3>1. [key |-> k, svc |-> s] \in owned
      BY <1>7, <1>10, <2>6 DEF Sweeping
    <3>2. CleanupOne
      BY <2>6, <3>1
         DEF WorkerStep, DeleteExpired, ListOwned, ListServices, ListFails, SkipService, BeginService,
             SkipTarget, Deploy, Undeploy, FinishUnchanged, PrepareStatus, FinishStatus
    <3>3. PICK o \in owned :
            /\ owned' = owned \ {o}
            /\ \/ ~IsOrphan(o) /\ UNCHANGED npVars
               \/ IsOrphan(o) /\ netpols[o.key] # Absent /\ WriteNetpol(o.key, Absent)
               \/ IsOrphan(o) /\ netpols[o.key] = Absent
      BY <1>1, <3>2 DEF CleanupOne
    <3>4. o # [key |-> k, svc |-> s]
      <4> SUFFICES ASSUME o = [key |-> k, svc |-> s]
                   PROVE  FALSE
        OBVIOUS
      <4>1. o.key = k /\ o.svc = s
        OBVIOUS
      <4>2. s \notin svcEvents
        BY <1>5, <3>2 DEF CleanupOne, svcVars
      <4>3. IsOrphan(o)
        BY <1>7, <4>1, <4>2 DEF IsOrphan, Provenance, CachesCurrent
      <4>4. WriteNetpol(k, Absent)
        BY <1>7, <3>3, <4>1, <4>3
      <4> QED
        BY <1>2, <4>4 DEF WriteNetpol, TypeInv, TypeOK, ClusterTypeOK, NetpolsTypeOK
    <3> QED
      BY <1>3, <2>1, <2>6, <3>1, <3>2, <3>3, <3>4 DEF CleanupOne, Sweeping
  <2> QED
    BY <1>10, <2>1, <2>2, <2>3, <2>4, <2>5, <2>6, RunningNext DEF Sweeping
<1> QED
  BY <1>8, <1>9, <1>10

\* No policy of a living Access stays behind for a service that is gone: when the
\* events are delivered, the queue is empty and no write failed, there is none,
\* whatever restarts there were, and in whichever order the service, the policy and
\* the Access came and went.
THEOREM AccessNoOrphan == Spec => []NoOrphanWhenQuiet
<1> DEFINE Inv == TypeInv /\ Provenance /\ PoliciesKnown /\ OrphansAttended
<1>1. Init => Inv
  <2>1. Init => OrphansAttended
    BY DEF Init, ClusterInit, OrphansAttended, Orphaned
  <2> QED
    BY <2>1, InitType, InitProvenance, InitKnown DEF Init
<1>2. Inv /\ [Next]_vars => Inv'
  <2> SUFFICES ASSUME Inv, [Next]_vars
               PROVE  Inv'
    OBVIOUS
  <2>1. TypeInv' /\ Provenance'
    BY ProvenanceNext
  <2>2. PoliciesKnown'
    BY NextNotes, PoliciesStayKnown
  <2> QED
    BY <2>1, <2>2, OrphansNext
<1>3. Inv => NoOrphanWhenQuiet
  <2> SUFFICES ASSUME Inv, Quiet, faults = 0, NEW a \in Accesses, Living(a),
                      NEW k \in Generated(a), services[netpols[k].svc] = Absent
               PROVE  FALSE
    BY DEF NoOrphanWhenQuiet
  <2>1. k \in NetpolKeys /\ Orphaned(a, k)
    BY DEF Generated, Orphaned
  <2>2. Awaited(a, netpols[k].svc, k) \/ Sweeping(a, k)
    BY <2>1 DEF OrphansAttended
  <2> QED
    BY <2>1, <2>2 DEF Quiet, Settled, Awaited, Sweeping
<1> HIDE DEF Inv
<1> QED
  BY <1>1, <1>2, <1>3, PTL DEF Spec

-----------------------------------------------------------------------------
(* Access that is asked for *)

\* Events about a policy name the Access its key is for.
EventsNamed ==
  \A k \in NetpolKeys : \A b \in npEvents[k] : \E s \in Services : NamedFor(k, b, s)

\* The worker is about to delete a, or goes on with the spec that a has now and has
\* yet to list s as it is, to begin with it, or to deploy for its target t.
Doing(a, s, t, d) ==
  /\ pc # Idle /\ req = a
  /\ \/ pc = "expired"
     \/ /\ obj.spec = accesses[a].spec /\ ~obj.deleting
        /\ \/ pc \in {"list", "cleanup"}
           \/ /\ pc \in {"services", "targets"}
              /\ [svc |-> s, version |-> services[s]] \in listed
           \/ /\ pc = "targets" /\ t \in targets
              /\ source = [svc |-> s, direction |-> d, pods |-> services[s].pods,
                           ports |-> services[s].ports]

Attended(a, s, t, d) ==
  LET k == PolicyKey(a, s, d, t)
  IN InPlace(a, s, t, d) \/ Doing(a, s, t, d) \/ Awaited(a, s, k) \/ Awaited(a, t, k)

CoverageAttended ==
  faults = 0 =>
    \A a \in Accesses, s, t \in Services, d \in Directions :
      Wanted(a, s, t, d) => Attended(a, s, t, d)

\* The worker reconciles a.
Serving(a) == pc # Idle /\ req = a

\* What it will list as a's policies, or has deployed so far.
Rebuilt == IF pc = "status" THEN obj.netpols ELSE deployed

\* The name of a policy tells the Access.
LEMMA KeyOf ==
  ASSUME KeysApart, NEW k, NEW a \in Accesses, NEW b \in Accesses, NEW s \in Services,
         NEW x \in Services, NamedFor(k, a, s), NamedFor(k, b, x)
  PROVE  a = b /\ s = x
<1>1. PICK d \in RawDirections, t \in Services : k = PolicyKey(a, s, d, t)
  BY DEF NamedFor
<1>2. PICK e \in RawDirections, y \in Services : k = PolicyKey(b, x, e, y)
  BY DEF NamedFor
<1>3. PolicyKey(a, s, d, t) = PolicyKey(b, x, e, y) /\ NsOf[s] = AccessNs[a] /\ NsOf[x] = AccessNs[b]
  BY <1>1, <1>2 DEF NamedFor
<1> QED
  BY <1>3 DEF KeysApart

\* A step writes an event for the owners of a policy only.
LEMMA EventsStayNamed ==
  ASSUME TypeInv, TypeInv', NetpolsNamed, NetpolsNamed', EventsNamed, PoliciesNoted
  PROVE  EventsNamed'
<1> SUFFICES ASSUME NEW k \in NetpolKeys, NEW b \in npEvents'[k]
             PROVE  \E s \in Services : NamedFor(k, b, s)
  BY DEF EventsNamed, NamedFor
<1>1. /\ netpols[k] # Absent => netpols[k].svc \in Services
      /\ netpols'[k] # Absent => netpols'[k].svc \in Services
  BY DEF TypeInv, TypeOK, ClusterTypeOK, NetpolsTypeOK, Maybe, NetpolObjects
<1>2. /\ netpols[k] # Absent => NamedFor(k, netpols[k].owner, netpols[k].svc)
      /\ netpols'[k] # Absent => NamedFor(k, netpols'[k].owner, netpols'[k].svc)
  BY DEF NetpolsNamed, NamedFor
<1> QED
  BY <1>1, <1>2 DEF EventsNamed, PoliciesNoted, OwnerIn

\* The policy defined for a source, a target and a direction opens what it should.
LEMMA DefinedAllows ==
  ASSUME NEW d \in Directions, NEW p, NEW q, NEW ns, NEW ports
  PROVE  /\ Allows(DefineAccessNetworkPolicy(p, q, ns, ports, d), d \in {"ingress", "all"},
                   d \in {"egress", "all"}, p, q, ns, ports)
         /\ PolicyTypes(d) # {}
<1>1. CASE d = "ingress"
  BY <1>1 DEF Allows, Opens, Closed, DefineAccessNetworkPolicy, NetpolSpec, AccessRule,
              PolicyTypes
<1>2. CASE d = "egress"
  BY <1>2 DEF Allows, Opens, Closed, DefineAccessNetworkPolicy, NetpolSpec, AccessRule,
              PolicyTypes
<1>3. CASE d = "all"
  BY <1>3 DEF Allows, Opens, Closed, DefineAccessNetworkPolicy, NetpolSpec, AccessRule,
              PolicyTypes
<1> QED
  BY <1>1, <1>2, <1>3 DEF Directions

\* What is asked for, in the controller's terms.
LEMMA WantedIs ==
  ASSUME NEW a \in Accesses, NEW s \in Services, NEW t \in Services, NEW d \in Directions,
         Wanted(a, s, t, d)
  PROVE  /\ Living(a) /\ NsOf[s] = AccessNs[a]
         /\ HasDetails(services[s]) /\ HasDetails(services[t])
         /\ accesses[a].spec.selector # BadSelector
         /\ services[s].label \in accesses[a].spec.selector
         /\ t \in TargetsOf(services[s], accesses[a].spec)
         /\ DirectionOf(services[s], accesses[a].spec) = d
         /\ IsValidDirection(d)
<1>1. IsValidDirection(d)
  BY DEF IsValidDirection, ToLower, Directions
<1> QED
  BY <1>1 DEF Wanted, Asks, TargetsOf

\* Without a fault, deploying a policy while no event about it is under way leaves it
\* stored as defined, or an event.
LEMMA Deployed ==
  ASSUME TypeInv, Provenance, PoliciesKnown, ~Fault, NEW k \in NetpolKeys, npEvents[k] = {},
         NEW n \in NetpolObjects, Stored(n) = n, DeployResource(k, n)
  PROVE  \/ netpols[k] # Absent /\ netpols[k].spec = n.spec /\ UNCHANGED netpols
         \/ n.owner \in npEvents'[k]
<1>0. npCache[k] = netpols[k] /\ n # Absent
  BY MarkerAssumption DEF PoliciesKnown
<1>1. ASSUME WriteNetpol(k, n)
      PROVE  n.owner \in npEvents'[k]
  BY <1>0, <1>1 DEF WriteNetpol, OwnerIn, TypeInv, TypeOK, ClusterTypeOK, NetpolsTypeOK
<1> QED
  BY <1>0, <1>1 DEF DeployResource, CreateResource, ReconcileResource, Unchanged, Put, npVars

\* A step that leaves nothing awaiting a for a policy named for it has changed neither,
\* and neither was under way to a's cache.
LEMMA NothingTold ==
  ASSUME KeysApart, TypeInv, TypeInv', Provenance, PoliciesKnown, NetpolsNamed,
         NetpolsNamed', EventsNamed, [Next]_vars, NEW a \in Accesses, NEW s \in Services,
         NEW k \in NetpolKeys, NamedFor(k, a, s), accesses'[a] # Absent,
         a \notin queue', a \notin accEvents', a \notin npEvents'[k]
  PROVE  /\ accesses'[a] = accesses[a] /\ accCache[a] = accesses[a] /\ a \notin accEvents
         /\ npEvents[k] = {} /\ npCache[k] = netpols[k] /\ netpols'[k] = netpols[k]
         /\ a \in queue => Reconcile(a)
<1>1. PoliciesNoted /\ Noticed(a) /\ (a \in queue => Reconcile(a))
  BY NextNotes, NextNotices
<1>2. accesses'[a] = accesses[a] /\ a \notin accEvents /\ a \notin npEvents[k]
  BY <1>1 DEF Noticed
<1>3. accCache[a] = accesses[a]
  BY <1>2 DEF Provenance, CachesCurrent
<1>4. npEvents[k] = {}
  <2> SUFFICES ASSUME NEW b \in npEvents[k]
               PROVE  FALSE
    OBVIOUS
  <2>1. b \in Accesses
    BY DEF TypeInv, TypeOK, ClusterTypeOK, NetpolsTypeOK
  <2>2. PICK x \in Services : NamedFor(k, b, x)
    BY DEF EventsNamed
  <2>3. a = b
    BY <2>1, <2>2, KeyOf
  <2> QED
    BY <1>2, <2>3
<1>5. netpols'[k] = netpols[k]
  <2>1. /\ netpols[k] # Absent => NamedFor(k, netpols[k].owner, netpols[k].svc)
        /\ netpols'[k] # Absent => NamedFor(k, netpols'[k].owner, netpols'[k].svc)
    BY DEF NetpolsNamed, NamedFor
  <2>2. /\ netpols[k] # Absent => netpols[k].owner \in Accesses /\ netpols[k].svc \in Services
        /\ netpols'[k] # Absent => netpols'[k].owner \in Accesses /\ netpols'[k].svc \in Services
    BY DEF TypeInv, TypeOK, ClusterTypeOK, NetpolsTypeOK, Maybe, NetpolObjects
  <2>3. /\ netpols[k] # Absent => netpols[k].owner = a
        /\ netpols'[k] # Absent => netpols'[k].owner = a
    BY <2>1, <2>2, KeyOf
  <2>4. a \notin OwnerIn(netpols[k]) \cup OwnerIn(netpols'[k]) \/ netpols'[k] = netpols[k]
    BY <1>1 DEF PoliciesNoted
  <2> QED
    BY <2>3, <2>4 DEF OwnerIn
<1> QED
  BY <1>1, <1>2, <1>3, <1>4, <1>5 DEF PoliciesKnown

\* Nor has a step that leaves nothing awaiting a for s, for t or for the policy of the
\* two changed any of them.
LEMMA NothingNew ==
  ASSUME KeysApart, TypeInv, TypeInv', Provenance, PoliciesKnown, NetpolsNamed,
         NetpolsNamed', EventsNamed, [Next]_vars, NEW a \in Accesses, NEW s \in Services, NEW t \in Services,
         NEW d \in Directions, NEW k \in NetpolKeys, k = PolicyKey(a, s, d, t),
         NsOf[s] = AccessNs[a], accesses'[a] # Absent,
         a \notin queue', a \notin accEvents', a \notin npEvents'[k],
         s \notin svcEvents', t \notin svcEvents'
  PROVE  /\ accesses'[a] = accesses[a] /\ accCache[a] = accesses[a]
         /\ services'[s] = services[s] /\ svcCache[s] = services[s]
         /\ services'[t] = services[t] /\ svcCache[t] = services[t]
         /\ npEvents[k] = {} /\ netpols[k] = netpols'[k]
         /\ a \in queue => Reconcile(a)
         /\ a \notin queue => ~Awaited(a, s, k) /\ ~Awaited(a, t, k)
<1>1. PoliciesNoted /\ Noticed(a) /\ (a \in queue => Reconcile(a))
  BY NextNotes, NextNotices
<1>2. NamedFor(k, a, s)
  <2>1. d \in RawDirections
    BY DEF RawDirections
  <2> QED
    BY <2>1 DEF NamedFor
<1>3. /\ accesses'[a] = accesses[a] /\ accCache[a] = accesses[a] /\ a \notin accEvents
      /\ npEvents[k] = {} /\ netpols'[k] = netpols[k]
  BY <1>2, NothingTold
<1>4. ~Awaited(a, s, k)' /\ ~Awaited(a, t, k)'
  BY DEF Awaited
<1>5. /\ services'[s] = services[s] /\ services'[t] = services[t]
      /\ a \notin queue => ~Awaited(a, s, k) /\ ~Awaited(a, t, k)
  BY <1>1, <1>4, AwaitedStays DEF Provenance
<1>6. Reconcile(a) => UNCHANGED svcVars
  BY DEF Reconcile, ReconcileGone, ReconcileStart
<1>7. s \notin svcEvents /\ t \notin svcEvents
  BY <1>1, <1>5, <1>6 DEF Awaited, svcVars
<1>8. svcCache[s] = services[s] /\ svcCache[t] = services[t]
  BY <1>7 DEF Provenance, CachesCurrent
<1> QED
  BY <1>1, <1>3, <1>5, <1>8

\* A reconcile that starts with what is stored will do what is asked for.
LEMMA StartDoes ==
  ASSUME TypeInv, NEW a \in Accesses, Living(a), accCache[a] = accesses[a],
         accesses'[a] = accesses[a], ReconcileStart(a), NEW s, NEW t, NEW d
  PROVE  Doing(a, s, t, d)'
<1>1. obj' = Dated(accesses[a]) /\ accesses[a] \in AccessObjects
  BY MaybeIn DEF ReconcileStart, Living, TypeInv, TypeOK, ClusterTypeOK, AccessesTypeOK
<1>2. obj'.spec = accesses[a].spec /\ ~obj'.deleting
  BY <1>1, DatedKeeps DEF Living
<1> QED
  BY <1>2 DEF ReconcileStart, Doing, Idle

\* A worker that is doing it goes on with it, or has deployed the policy, which leaves it
\* in place or an event.
LEMMA DoingNext ==
  ASSUME TypeInv, Provenance, PoliciesKnown, WorkerStep, ~Fault,
         NEW a \in Accesses, NEW s \in Services, NEW t \in Services, NEW d \in Directions,
         NEW k \in NetpolKeys, k = PolicyKey(a, s, d, t),
         Wanted(a, s, t, d), Doing(a, s, t, d), pc # "expired",
         accesses'[a] = accesses[a], services'[s] = services[s], services'[t] = services[t],
         svcCache[s] = services[s], svcCache[t] = services[t], npEvents[k] = {}
  PROVE  \/ pc' # Idle /\ Doing(a, s, t, d)'
         \/ /\ Serving(a)' /\ k \in Rebuilt'
            /\ \/ /\ netpols'[k] # Absent
                  /\ netpols'[k].spec =
                       DefineAccessNetworkPolicy(services[s].pods, services[t].pods,
                                                 NsOf[t], services[s].ports, d)
               \/ a \in npEvents'[k]
<1> DEFINE v == services[s]
           l == [svc |-> s, version |-> v]
           src == [svc |-> s, direction |-> d, pods |-> v.pods, ports |-> v.ports]
           sp == accesses[a].spec
<1>1. /\ HasDetails(v) /\ HasDetails(services[t]) /\ NsOf[s] = AccessNs[a]
      /\ sp.selector # BadSelector /\ v.label \in sp.selector
      /\ t \in TargetsOf(v, sp) /\ DirectionOf(v, sp) = d /\ IsValidDirection(d)
  BY WantedIs
<1>2. pc # Idle /\ req = a /\ obj.spec = sp /\ ~obj.deleting
  BY DEF Doing
<1>3. obj \in AccessObjects
  BY <1>2 DEF TypeInv, Holding
<1>4. ASSUME req' = req, obj' = obj,
             \/ pc' = "cleanup"
             \/ pc' \in {"services", "targets"} /\ l \in listed'
             \/ pc' = "targets" /\ t \in targets' /\ source' = src
      PROVE  pc' # Idle /\ Doing(a, s, t, d)'
  BY <1>2, <1>4 DEF Doing, Idle
<1>5. CASE pc \in {"list", "cleanup"}
  <2>1. ListOwned \/ CleanupOne \/ ListServices \/ ListFails
    BY <1>5 DEF WorkerStep, DeleteExpired, SkipService, BeginService, SkipTarget, Deploy,
                Undeploy, FinishUnchanged, PrepareStatus, FinishStatus
  <2>2. CASE CleanupOne
    BY <1>4, <1>5, <2>2 DEF CleanupOne
  <2>3. CASE ListServices
    <3>1. l \in listed'
      BY <1>1, <1>2, <2>3 DEF ListServices, HasDetails
    <3> QED
      BY <1>4, <2>3, <3>1 DEF ListServices
  <2>4. CASE ListFails
    BY <1>1, <1>2, <2>4 DEF ListFails
  <2>5. CASE ListOwned
    BY <1>4, <2>5 DEF ListOwned
  <2> QED
    BY <2>1, <2>2, <2>3, <2>4, <2>5
<1>6. CASE pc = "services"
  <2>1. l \in listed
    BY <1>6 DEF Doing
  <2>2. SkipService \/ BeginService
    BY <1>6, <2>1 DEF WorkerStep, DeleteExpired, ListOwned, CleanupOne, ListServices, ListFails,
                      SkipTarget, Deploy, Undeploy, FinishUnchanged, PrepareStatus, FinishStatus
  <2>3. IsSource(l)
    BY <1>1, <1>2 DEF IsSource
  <2>4. CASE SkipService
    BY <1>4, <1>6, <2>1, <2>3, <2>4 DEF SkipService
  <2>5. CASE BeginService
    <3>1. PICK m \in listed :
            /\ listed' = listed \ {m}
            /\ targets' = TargetsOf(m.version, obj.spec)
            /\ source' = [svc |-> m.svc, direction |-> DirectionOf(m.version, obj.spec),
                          pods |-> svcCache[m.svc].pods, ports |-> svcCache[m.svc].ports]
      BY <2>5 DEF BeginService
    <3>2. pc' = "targets" /\ req' = req /\ obj' = obj
      BY <2>5 DEF BeginService
    <3>3. CASE m = l
      <4>1. m.svc = s /\ m.version = v
        BY <3>3
      <4>2. t \in targets' /\ source' = src
        BY <1>1, <1>2, <3>1, <4>1
      <4> QED
        BY <1>4, <3>2, <4>2
    <3>4. CASE m # l
      BY <1>4, <2>1, <3>1, <3>2, <3>4
    <3> QED
      BY <3>3, <3>4
  <2> QED
    BY <2>2, <2>4, <2>5
<1>7. CASE pc = "targets"
  <2>1. SkipTarget \/ Deploy
    BY <1>7 DEF WorkerStep, DeleteExpired, ListOwned, CleanupOne, ListServices, ListFails, SkipService,
                BeginService, Undeploy, FinishUnchanged, PrepareStatus, FinishStatus
  <2>2. req' = req /\ obj' = obj /\ listed' = listed /\ NextTarget
    BY <1>2, <2>1 DEF SkipTarget, Deploy
  <2>3. CASE l \in listed
    BY <1>4, <2>2, <2>3 DEF NextTarget
  <2>4. CASE t \in targets /\ source = src
    <3>1. CASE t \in targets'
      BY <1>4, <2>2, <2>4, <3>1 DEF NextTarget
    <3>2. CASE t \notin targets'
      <4>1. ~SkipTarget
        BY <1>1, <2>4, <3>2 DEF SkipTarget
      <4>2. PICK x \in targets :
              /\ targets' = targets \ {x}
              /\ deployed' = deployed \cup {PolicyKey(req, source.svc, source.direction, x)}
              /\ DeployResource(PolicyKey(req, source.svc, source.direction, x),
                                Policy(obj, req, source, x, svcCache[x].pods))
        BY <2>1, <4>1 DEF Deploy
      <4>3. x = t
        BY <2>4, <3>2, <4>2
      <4>4. PICK n : n = Policy(obj, a, src, t, services[t].pods)
        OBVIOUS
      <4>5. DeployResource(k, n)
        BY <1>2, <2>4, <4>2, <4>3, <4>4
      <4>6. n.owner = a /\ n.spec = DefineAccessNetworkPolicy(v.pods, services[t].pods, NsOf[t],
                                                              v.ports, d)
        BY <4>4 DEF Policy
      <4>7. Stored(n) = n
        <5>1. n.spec.policyTypes = PolicyTypes(d)
          BY <4>6 DEF DefineAccessNetworkPolicy, NetpolSpec
        <5> QED
          BY <5>1, DefinedAllows DEF Stored
      <4>8. n \in NetpolObjects
        <5>1. source \in Sources
          BY <1>7 DEF TypeInv, Holding
        <5>2. services[t].pods \in Pods
          BY <1>1 DEF HasDetails, TypeInv, TypeOK, ClusterTypeOK, ServicesTypeOK, Maybe,
                      ServiceVersions
        <5> QED
          BY <1>3, <2>4, <4>4, <5>1, <5>2, PolicyType
      <4>9. \/ netpols[k] # Absent /\ netpols[k].spec = n.spec /\ UNCHANGED netpols
            \/ n.owner \in npEvents'[k]
        BY <4>5, <4>7, <4>8, Deployed
      <4>10. Serving(a)' /\ k \in Rebuilt'
        BY <1>2, <2>2, <2>4, <4>2, <4>3 DEF NextTarget, Serving, Rebuilt, Idle
      <4> QED
        BY <4>6, <4>9, <4>10
    <3> QED
      BY <3>1, <3>2
  <2> QED
    BY <1>7, <2>3, <2>4 DEF Doing
<1> QED
  BY <1>5, <1>6, <1>7 DEF Doing

\* Access that is asked for stays attended to.
LEMMA CoverageNext ==
  ASSUME KeysApart, TypeInv, TypeInv', Provenance, PoliciesKnown, NetpolsNamed,
         NetpolsNamed', EventsNamed, CoverageAttended, [Next]_vars
  PROVE  CoverageAttended'
<1> SUFFICES ASSUME faults' = 0,
                    NEW a \in Accesses, NEW s \in Services, NEW t \in Services,
                    NEW d \in Directions, NEW k \in NetpolKeys, k = PolicyKey(a, s, d, t),
                    Wanted(a, s, t, d)',
                    ~Awaited(a, s, k)', ~Awaited(a, t, k)', ~InPlace(a, s, t, d)'
             PROVE  Doing(a, s, t, d)'
  BY KeyType DEF CoverageAttended, Attended, Awaited, InPlace
<1>1. /\ a \notin queue' /\ a \notin accEvents' /\ a \notin npEvents'[k]
      /\ s \notin svcEvents' /\ t \notin svcEvents'
  BY DEF Awaited
<1>2. accesses'[a] # Absent /\ NsOf[s] = AccessNs[a]
  BY DEF Wanted, Living
<1>3. /\ accesses'[a] = accesses[a] /\ accCache[a] = accesses[a]
      /\ services'[s] = services[s] /\ svcCache[s] = services[s]
      /\ services'[t] = services[t] /\ svcCache[t] = services[t]
      /\ npEvents[k] = {} /\ netpols[k] = netpols'[k]
      /\ a \in queue => Reconcile(a)
      /\ a \notin queue => ~Awaited(a, s, k) /\ ~Awaited(a, t, k)
  BY <1>1, <1>2, NothingNew
<1>4. faults = 0 /\ ~Fault
  BY FaultsStay
<1>5. Wanted(a, s, t, d) /\ Living(a)
  BY <1>3 DEF Wanted, Living
<1>6. ~InPlace(a, s, t, d)
  BY <1>3 DEF InPlace
<1>7. CASE a \in queue
  <2>1. ReconcileStart(a)
    BY <1>3, <1>5, <1>7 DEF Reconcile, ReconcileGone, Living
  <2> QED
    BY <1>3, <1>5, <2>1, StartDoes
<1>8. CASE a \notin queue
  <2>1. Doing(a, s, t, d) /\ pc # Idle
    BY <1>3, <1>4, <1>5, <1>6, <1>8 DEF CoverageAttended, Attended, Doing
  <2>2. CASE UNCHANGED ctlVars
    BY <1>3, <2>1, <2>2 DEF ctlVars, jobVars, Doing
  <2>3. CASE Restart
    BY <1>1, <1>2, <1>3, <2>3, RestartQueues
  <2>4. CASE WorkerStep /\ pc = "expired"
    <3>1. DeleteExpired
      BY <2>4 DEF WorkerStep, ListOwned, CleanupOne, ListServices, ListFails, SkipService, BeginService,
                  SkipTarget, Deploy, Undeploy, FinishUnchanged, PrepareStatus, FinishStatus
    <3> QED
      BY <1>2, <1>4, <1>5, <2>1, <3>1, ExpiredDeleted DEF Doing
  <2>5. CASE WorkerStep /\ pc # "expired"
    <3>1. ~(/\ netpols'[k] # Absent
            /\ netpols'[k].spec = DefineAccessNetworkPolicy(services[s].pods, services[t].pods,
                                                            NsOf[t], services[s].ports, d))
      BY <1>3, DefinedAllows DEF InPlace
    <3> QED
      BY <1>1, <1>3, <1>4, <1>5, <2>1, <2>5, <3>1, DoingNext
  <2> QED
    BY <2>1, <2>2, <2>3, <2>4, <2>5, RunningNext
<1> QED
  BY <1>7, <1>8

\* What the arguments below share.
QuietBase ==
  /\ TypeInv /\ Provenance /\ PoliciesKnown
  /\ NetpolsNamed /\ OwnedNamed /\ UndeployHeld /\ EventsNamed

LEMMA InitQuietBase == Init => QuietBase
<1>1. Init => EventsNamed
  BY DEF Init, ClusterInit, EventsNamed
<1> QED
  BY <1>1, InitType, InitProvenance, InitKnown, InitLedgerInv DEF Init, LedgerInv, QuietBase

LEMMA QuietBaseNext ==
  ASSUME QuietBase, [Next]_vars
  PROVE  QuietBase'
<1>1. TypeInv' /\ Provenance'
  BY ProvenanceNext DEF QuietBase
<1>2. PoliciesNoted /\ PoliciesKnown'
  BY NextNotes, PoliciesStayKnown DEF QuietBase
<1>3. NetpolsNamed' /\ OwnedNamed' /\ UndeployHeld'
  BY <1>1, NextWorkerMoves, OwnersNext, NamesMove DEF QuietBase, Provenance
<1>4. EventsNamed'
  BY <1>1, <1>2, <1>3, EventsStayNamed DEF QuietBase
<1> QED
  BY <1>1, <1>2, <1>3, <1>4 DEF QuietBase

\* Where the names of policies tell Accesses apart, no change of a service, an Access
\* or a policy is lost between the caches, the queue and the reconcile that runs: when
\* nothing is left to do and no write failed, every access asked for is in place, with
\* the pods and ports the services have now.
THEOREM AccessCovered == KeysApart => (Spec => []CoveredWhenQuiet)
<1> SUFFICES ASSUME KeysApart
             PROVE  Spec => []CoveredWhenQuiet
  OBVIOUS
<1> DEFINE Inv == QuietBase /\ CoverageAttended
<1>1. Init => Inv
  <2> SUFFICES ASSUME Init, NEW a \in Accesses, accesses[a] # Absent
               PROVE  a \in queue
    BY InitQuietBase DEF CoverageAttended, Attended, Awaited, Wanted, Living
  <2> QED
    BY DEF Init, ClusterInit
<1>2. Inv /\ [Next]_vars => Inv'
  BY QuietBaseNext, CoverageNext DEF QuietBase
<1>3. Inv => CoveredWhenQuiet
  <2> SUFFICES ASSUME Inv, Quiet, faults = 0, NEW a \in Accesses, NEW s \in Services,
                      NEW t \in Services, NEW d \in Directions, Wanted(a, s, t, d)
               PROVE  InPlace(a, s, t, d)
    BY DEF CoveredWhenQuiet
  <2>1. PolicyKey(a, s, d, t) \in NetpolKeys
    BY KeyType
  <2>2. Attended(a, s, t, d)
    BY DEF CoverageAttended
  <2> QED
    BY <2>1, <2>2 DEF Attended, Quiet, Settled, Awaited, Doing
<1> HIDE DEF Inv
<1> QED
  BY <1>1, <1>2, <1>3, PTL DEF Spec

-----------------------------------------------------------------------------
(* The status *)

\* The policies that are a's by their names.
NamedOf(a) == {k \in NetpolKeys : \E s \in Services : NamedFor(k, a, s)}

\* The lists of an Access, on the server, in the cache and with the worker, are of such.
ListsNamed ==
  /\ \A a \in Accesses :
       /\ accesses[a] # Absent => accesses[a].netpols \subseteq NamedOf(a)
       /\ accCache[a] # Absent => accCache[a].netpols \subseteq NamedOf(a)
  /\ pc # Idle => obj.netpols \subseteq NamedOf(req) /\ deployed \subseteq NamedOf(req)

\* Until the worker rebuilds the list, its copy has the one stored, or the Access comes
\* before it again.
CopyCurrent ==
  /\ pc \in {Idle, "expired", "list", "cleanup"} => deployed = {}
  /\ pc \notin {Idle, "status"} =>
       \/ accesses[req] = Absent \/ req \in accEvents \/ req \in queue
       \/ obj.netpols = accesses[req].netpols

\* a will be brought before its worker for a change of its own or of the policy under k.
Told(a, k) == a \in queue \/ a \in accEvents \/ a \in npEvents[k]

\* A policy that is gone is on no list but that of an Access being reconciled, and is
\* not on the list the worker makes.
VanishedAttended ==
  faults = 0 =>
    \A a \in Accesses, k \in NetpolKeys :
      Living(a) /\ k \in NamedOf(a) /\ netpols[k] = Absent /\ ~Told(a, k) =>
        /\ k \in accesses[a].netpols => Serving(a)
        /\ Serving(a) => k \notin Rebuilt

\* A policy that is asked for is listed, will be by the running reconcile, or awaited.
ListingAttended ==
  faults = 0 =>
    \A a \in Accesses, s, t \in Services, d \in Directions :
      Wanted(a, s, t, d) =>
        LET k == PolicyKey(a, s, d, t)
        IN \/ k \in accesses[a].netpols
           \/ Doing(a, s, t, d) \/ (Serving(a) /\ k \in Rebuilt)
           \/ Awaited(a, s, k) \/ Awaited(a, t, k)

\* isExpired leaves the lists.
LEMMA DatedLists ==
  ASSUME NEW o \in AccessObjects
  PROVE  Dated(o).netpols = o.netpols
BY DEF Dated, AccessObjects

\* What a step of the worker does to its lists.
LEMMA WorkerLists ==
  ASSUME TypeInv, WorkerStep
  PROVE  /\ pc # Idle
         /\ \/ ToRest
            \/ /\ pc # "status" /\ pc' \notin {Idle, "expired", "list"} /\ UNCHANGED req
               /\ pc' = "cleanup" => pc \in {"list", "cleanup"}
               /\ \/ pc' # "status" /\ UNCHANGED <<obj, deployed>>
                  \/ /\ pc = "targets" /\ pc' # "status" /\ Deploy /\ UNCHANGED obj
                     /\ \E t \in targets :
                          deployed' = deployed
                            \cup {PolicyKey(req, source.svc, source.direction, t)}
                  \/ /\ pc = "services" /\ pc' = "status" /\ UNCHANGED deployed
                     /\ obj'.netpols = FinalNetpols(obj)
<1>1. CASE DeleteExpired \/ ListFails \/ FinishUnchanged \/ FinishStatus
  BY <1>1 DEF DeleteExpired, ListFails, FinishUnchanged, FinishStatus, Idle
<1>2. CASE \/ ListOwned \/ CleanupOne \/ ListServices \/ SkipService \/ BeginService
           \/ SkipTarget \/ Undeploy
  BY <1>2 DEF ListOwned, CleanupOne, ListServices, SkipService, BeginService, SkipTarget,
              Undeploy, NextTarget, Idle
<1>3. CASE Deploy
  BY <1>3 DEF Deploy, NextTarget, Idle
<1>4. CASE PrepareStatus
  <2>1. obj \in AccessObjects
    BY <1>4 DEF PrepareStatus, TypeInv, Holding, Idle
  <2> QED
    BY <1>4, <2>1 DEF PrepareStatus, AccessObjects, Idle
<1> QED
  BY <1>1, <1>2, <1>3, <1>4 DEF WorkerStep

\* Lists stay named.
LEMMA ListsStayNamed ==
  ASSUME TypeInv, TypeInv', Provenance, CopyCurrent, ListsNamed, [Next]_vars
  PROVE  ListsNamed'
<1>0. ClusterTypeOK /\ \A a : NamedOf(a)' = NamedOf(a)
  BY DEF TypeInv, TypeOK, NamedOf, NamedFor
<1>1. ASSUME NEW a \in Accesses, accesses'[a] # Absent
      PROVE  accesses'[a].netpols \subseteq NamedOf(a)
  <2>1. CASE UserStep \/ PlatformStep \/ Restart
    <3>1. StatusKept(a)
      BY <1>0, <2>1, ClusterStatus DEF ClusterStep, Restart
    <3> QED
      BY <1>1, <3>1 DEF StatusKept, SameStatus, ListsNamed
  <2>2. CASE UNCHANGED accVars
    BY <1>1, <2>2 DEF accVars, ListsNamed
  <2>3. CASE WorkerStep /\ ObjectStep
    <3>1. req \in Accesses /\ obj.netpols \subseteq NamedOf(req)
      BY <2>3 DEF ObjectStep, TypeInv, Holding, ListsNamed, Idle
    <3>2. PICK o : /\ WriteAccess(req, o)
                   /\ o = Absent \/ o.netpols = obj.netpols
      <4>1. CASE WriteAccess(req, Absent)
        BY <4>1
      <4>2. CASE accCache[req] # Absent /\ WriteAccess(req, WithStatus(accCache[req]))
        <5>1. accCache[req] \in AccessObjects
          BY <1>0, <3>1, <4>2, MaybeIn DEF ClusterTypeOK, AccessesTypeOK
        <5>2. PICK o : o = WithStatus(accCache[req])
          OBVIOUS
        <5>3. o.netpols = obj.netpols
          BY <5>1, <5>2 DEF WithStatus, AccessObjects
        <5> QED
          BY <4>2, <5>2, <5>3
      <4> QED
        BY <2>3, <4>1, <4>2 DEF ObjectStep
    <3>3. accesses'[req] = o /\ (a # req => accesses'[a] = accesses[a])
      BY <1>0, <3>1, <3>2 DEF WriteAccess, ClusterTypeOK, AccessesTypeOK
    <3> QED
      BY <1>1, <3>1, <3>2, <3>3 DEF ListsNamed
  <2>4. Reconcile(a) \/ (\E b \in Accesses : Reconcile(b)) \/ UNCHANGED vars => UNCHANGED accVars
    BY DEF Reconcile, ReconcileGone, ReconcileStart, vars, clusterVars
  <2> QED
    BY <2>1, <2>2, <2>3, <2>4, WorkerChange DEF Next, WorkerChanges
<1>2. ASSUME NEW a \in Accesses, accCache'[a] # Absent
      PROVE  accCache'[a].netpols \subseteq NamedOf(a)
  <2>1. accCache'[a] = accCache[a] \/ accCache'[a] = accesses[a]
    BY NextMoves DEF Provenance, ClusterMoves, AccessesMove
  <2> QED
    BY <1>2, <2>1 DEF ListsNamed
<1>3. ASSUME pc' # Idle
      PROVE  obj'.netpols \subseteq NamedOf(req') /\ deployed' \subseteq NamedOf(req')
  <2>1. CASE UNCHANGED ctlVars
    BY <1>3, <2>1 DEF ctlVars, jobVars, ListsNamed
  <2>2. ASSUME NEW a \in Accesses, ReconcileStart(a)
        PROVE  obj'.netpols \subseteq NamedOf(req') /\ deployed' \subseteq NamedOf(req')
    <3>1. req' = a /\ accCache[a] \in AccessObjects /\ obj' = Dated(accCache[a])
          /\ deployed' = {}
      BY <1>0, <2>2, MaybeIn
         DEF ReconcileStart, ClusterTypeOK, AccessesTypeOK, CopyCurrent
    <3> QED
      BY <2>2, <3>1, DatedLists DEF ListsNamed, ReconcileStart
  <2>3. CASE WorkerStep
    <3>1. /\ pc # Idle /\ req' = req /\ req \in Accesses
          /\ obj.netpols \subseteq NamedOf(req) /\ deployed \subseteq NamedOf(req)
      BY <1>3, <2>3, WorkerLists DEF ToRest, TypeInv, Holding, ListsNamed
    <3>2. ASSUME Deploy, NEW t \in targets
          PROVE  PolicyKey(req, source.svc, source.direction, t) \in NamedOf(req)
      <4>1. /\ source \in Sources /\ t \in Services /\ NsOf[source.svc] = AccessNs[req]
        BY <3>2 DEF Deploy, TypeInv, TypeOK, JobTypeOK, Holding, Provenance, Held
      <4>2. source.svc \in Services /\ source.direction \in RawDirections
        BY <4>1 DEF Sources
      <4> QED
        BY <3>1, <4>1, <4>2, KeyType DEF NamedOf, NamedFor
    <3>3. FinalNetpols(obj) \subseteq obj.netpols \cup deployed
      BY DEF FinalNetpols
    <3> QED
      BY <1>3, <2>3, <3>1, <3>2, <3>3, WorkerLists DEF ToRest
  <2>4. CASE Restart
    BY <1>3, <2>4 DEF Restart, ToRest
  <2> QED
    BY <2>1, <2>2, <2>3, <2>4 DEF Next, Reconcile, ReconcileGone, vars
<1> QED
  BY <1>0, <1>1, <1>2, <1>3 DEF ListsNamed

\* The copy stays current.
LEMMA CopyStaysCurrent ==
  ASSUME TypeInv, TypeInv', Provenance, CopyCurrent, [Next]_vars
  PROVE  CopyCurrent'
<1>1. ASSUME pc' \in {Idle, "expired", "list", "cleanup"}
      PROVE  deployed' = {}
  <2>1. ASSUME NEW a \in Accesses, ReconcileStart(a)
        PROVE  deployed' = {}
    BY <2>1 DEF ReconcileStart, CopyCurrent
  <2>2. CASE WorkerStep
    <3>1. CASE ToRest
      BY <3>1 DEF ToRest
    <3>2. CASE ~ToRest
      BY <1>1, <2>2, <3>2, WorkerLists DEF CopyCurrent, Idle
    <3> QED
      BY <3>1, <3>2
  <2>4. CASE Restart
    BY <2>4 DEF Restart, ToRest
  <2>3. CASE UNCHANGED ctlVars
    BY <1>1, <2>3 DEF ctlVars, jobVars, CopyCurrent
  <2> QED
    BY <2>1, <2>2, <2>3, <2>4 DEF Next, Reconcile, ReconcileGone, vars
<1>2. ASSUME pc' \notin {Idle, "status"}, accesses'[req'] # Absent, req' \notin accEvents',
             req' \notin queue'
      PROVE  obj'.netpols = accesses'[req'].netpols
  <2>0. req' \in Accesses
    BY <1>2 DEF TypeInv, Holding
  <2>1. PICK a \in Accesses : a = req'
    BY <2>0
  <2>2. Noticed(a) /\ (a \in queue => Reconcile(a))
    BY <1>2, <2>1, NextNotices
  <2>3. accesses'[a] = accesses[a] /\ a \notin accEvents
    BY <1>2, <2>1, <2>2 DEF Noticed
  <2>4. ASSUME NEW b \in Accesses, ReconcileStart(b)
        PROVE  obj'.netpols = accesses'[a].netpols
    <3>1. a = b /\ accCache[a] = accesses[a] /\ accCache[a] # Absent /\ obj' = Dated(accCache[a])
      BY <2>1, <2>3, <2>4 DEF ReconcileStart, Provenance, CachesCurrent
    <3>2. accCache[a] \in AccessObjects
      BY <3>1, MaybeIn DEF TypeInv, TypeOK, ClusterTypeOK, AccessesTypeOK
    <3> QED
      BY <2>3, <3>1, <3>2, DatedLists
  <2>5. ASSUME pc \notin {Idle, "status"}, req' = req, obj'.netpols = obj.netpols
        PROVE  obj'.netpols = accesses'[a].netpols
    <3>1. ~Reconcile(a)
      BY <2>5 DEF Reconcile, ReconcileGone, ReconcileStart
    <3> QED
      BY <1>2, <2>1, <2>2, <2>3, <2>5, <3>1 DEF CopyCurrent
  <2>6. CASE WorkerStep
    BY <1>2, <2>1, <2>5, <2>6, WorkerLists DEF ToRest
  <2>7. CASE Restart
    BY <1>2, <2>7 DEF Restart, ToRest
  <2>8. CASE UNCHANGED ctlVars
    BY <1>2, <2>1, <2>5, <2>8 DEF ctlVars, jobVars
  <2> QED
    BY <2>1, <2>4, <2>6, <2>7, <2>8 DEF Next, Reconcile, ReconcileGone, vars
<1> QED
  BY <1>1, <1>2 DEF CopyCurrent

\* Without a fault, a reconcile ends with the list it made stored, or with notice of the
\* Access.
LEMMA ServedList ==
  ASSUME TypeInv, CopyCurrent, WorkerStep, ~Fault, NEW a \in Accesses, Serving(a), ~Serving(a)',
         Living(a), accesses'[a] = accesses[a], accCache[a] = accesses[a],
         a \notin queue, a \notin queue', a \notin accEvents, a \notin accEvents'
  PROVE  accesses[a].netpols = IF pc = "status" THEN obj.netpols ELSE FinalNetpols(obj)
<1>1. pc # Idle /\ req = a /\ accesses[a] # Absent /\ ~accesses[a].deleting
  BY DEF Serving, Living
<1>2. ToRest
  BY <1>1, WorkerLists DEF Serving
<1>3. DeleteExpired \/ ListFails \/ FinishUnchanged \/ FinishStatus
  BY <1>2 DEF WorkerStep, ToRest, Idle, ListOwned, CleanupOne, ListServices, SkipService, BeginService,
              SkipTarget, Deploy, Undeploy, PrepareStatus, NextTarget
<1>4. ~DeleteExpired
  BY <1>1, ExpiredDeleted DEF Living
<1>5. ~ListFails
  BY <1>1 DEF ListFails
<1>6. CASE FinishUnchanged
  <2>1. pc = "services" /\ FinalNetpols(obj) = obj.netpols
    BY <1>6 DEF FinishUnchanged, StatusNeeded
  <2> QED
    BY <1>1, <2>1 DEF CopyCurrent, Idle
<1>7. CASE FinishStatus
  <2>1. accCache[req] # Absent /\ req \notin accEvents
    BY <1>1
  <2>2. WithStatus(accCache[req]) = accesses[req]
    BY <1>1, <1>7, <2>1 DEF FinishStatus, WriteAccess
  <2>3. accesses[a] \in AccessObjects
    BY <1>1, MaybeIn DEF TypeInv, TypeOK, ClusterTypeOK, AccessesTypeOK
  <2>4. WithStatus(accesses[a]).netpols = obj.netpols
    BY <2>3 DEF WithStatus, AccessObjects
  <2> QED
    BY <1>1, <1>7, <2>2, <2>4 DEF FinishStatus
<1> QED
  BY <1>3, <1>4, <1>5, <1>6, <1>7

\* A policy that a Deploy finds missing, in the cache and on the server, is there then.
LEMMA DeployCreates ==
  ASSUME TypeInv, Provenance, Deploy, ~Fault, NEW k \in NetpolKeys, netpols[k] = Absent,
         npCache[k] = Absent, k \in deployed', k \notin deployed
  PROVE  netpols'[k] # Absent
<1>1. PICK t \in targets :
        LET i == PolicyKey(req, source.svc, source.direction, t)
        IN /\ HasDetails(svcCache[t])
           /\ DeployResource(i, Policy(obj, req, source, t, svcCache[t].pods))
           /\ deployed' = deployed \cup {i}
  BY DEF Deploy
<1>2. k = PolicyKey(req, source.svc, source.direction, t)
  BY <1>1
<1>3. PICK n : n = Policy(obj, req, source, t, svcCache[t].pods)
  OBVIOUS
<1>4. DeployResource(k, n)
  BY <1>1, <1>2, <1>3
<1>5. WriteNetpol(k, Stored(n))
  BY <1>4 DEF DeployResource, CreateResource, ReconcileResource
<1>6. StoredAt(k, Stored(n))
  BY <1>1, <1>2, <1>3, <1>5 DEF StoredAt, Deploy
<1>7. Stored(n) # Absent
  BY <1>6, StoredRequested, MarkerAssumption DEF Provenance
<1> QED
  BY <1>5, <1>7 DEF WriteNetpol, TypeInv, TypeOK, ClusterTypeOK, NetpolsTypeOK

\* Policies that are gone stay attended.
LEMMA VanishedNext ==
  ASSUME KeysApart, TypeInv, TypeInv', Provenance, PoliciesKnown, NetpolsNamed,
         NetpolsNamed', EventsNamed, CopyCurrent, VanishedAttended, [Next]_vars
  PROVE  VanishedAttended'
<1> SUFFICES ASSUME faults' = 0, NEW a \in Accesses, NEW k \in NetpolKeys,
                    Living(a)', NEW s \in Services, NamedFor(k, a, s),
                    netpols'[k] = Absent, ~Told(a, k)'
             PROVE  /\ k \in accesses'[a].netpols => Serving(a)'
                    /\ Serving(a)' => k \notin Rebuilt'
  BY DEF VanishedAttended, NamedOf, NamedFor
<1>1. /\ accesses'[a] # Absent /\ ~accesses'[a].deleting
      /\ a \notin queue' /\ a \notin accEvents' /\ a \notin npEvents'[k]
  BY DEF Living, Told
<1>2. /\ accesses'[a] = accesses[a] /\ accCache[a] = accesses[a] /\ a \notin accEvents
      /\ npEvents[k] = {} /\ npCache[k] = Absent /\ netpols[k] = Absent
      /\ a \in queue => Reconcile(a)
  BY <1>1, NothingTold
<1>3. faults = 0 /\ ~Fault
  BY FaultsStay
<1>4. Living(a) /\ k \in NamedOf(a)
  BY <1>1, <1>2 DEF Living, NamedOf
<1>5. CASE a \in queue
  <2>1. ReconcileStart(a)
    BY <1>1, <1>2, <1>5 DEF Reconcile, ReconcileGone
  <2>2. Serving(a)' /\ pc' # "status" /\ deployed' = {}
    BY <2>1 DEF ReconcileStart, CopyCurrent, Serving, Idle
  <2> QED
    BY <2>2 DEF Rebuilt
<1>6. CASE a \notin queue
  <2>1. /\ k \in accesses[a].netpols => Serving(a)
        /\ Serving(a) => k \notin Rebuilt
    BY <1>2, <1>3, <1>4, <1>6 DEF VanishedAttended, Told
  <2>2. CASE UNCHANGED ctlVars
    BY <1>2, <2>1, <2>2 DEF ctlVars, jobVars, Serving, Rebuilt
  <2>3. CASE Restart
    BY <1>1, <1>2, <2>3, RestartQueues
  <2>4. ASSUME NEW b \in Accesses, Reconcile(b)
        PROVE  UNCHANGED ctlVars \/ (~Serving(a) /\ ~Serving(a)')
    BY <1>6, <2>4 DEF Reconcile, ReconcileGone, ReconcileStart, Serving
  <2>5. CASE WorkerStep /\ ~Serving(a)
    BY <1>2, <2>1, <2>5, WorkerLists DEF ToRest, Serving
  <2>6. CASE WorkerStep /\ Serving(a)
    <3>1. k \notin FinalNetpols(obj) \/ k \in deployed
      BY <1>2 DEF FinalNetpols
    <3>2. CASE ~Serving(a)'
      <4>1. accesses[a].netpols = IF pc = "status" THEN obj.netpols ELSE FinalNetpols(obj)
        BY <1>1, <1>2, <1>3, <1>4, <1>6, <2>6, <3>2, ServedList
      <4> QED
        BY <1>2, <2>1, <2>6, <3>1, <3>2, <4>1 DEF Rebuilt
    <3>3. CASE Serving(a)'
      <4>1. pc # "status" /\ pc' # Idle /\ k \notin deployed
        BY <2>1, <2>6, <3>3, WorkerLists DEF ToRest, Serving, Rebuilt
      <4>2. k \notin deployed'
        <5> SUFFICES ASSUME k \in deployed'
                     PROVE  FALSE
          OBVIOUS
        <5>1. Deploy
          BY <2>6, <4>1, WorkerLists DEF ToRest
        <5> QED
          BY <1>2, <1>3, <4>1, <5>1, DeployCreates
      <4>3. pc' = "status" => obj'.netpols = FinalNetpols(obj)
        BY <2>6, <4>1, WorkerLists DEF ToRest
      <4> QED
        BY <3>1, <3>3, <4>1, <4>2, <4>3 DEF Rebuilt
    <3> QED
      BY <3>2, <3>3
  <2> QED
    BY <1>2, <2>1, <2>2, <2>3, <2>4, <2>5, <2>6 DEF Next, vars
<1> QED
  BY <1>5, <1>6

\* Policies that are asked for stay listed, or attended.
LEMMA ListingNext ==
  ASSUME KeysApart, TypeInv, TypeInv', Provenance, PoliciesKnown, NetpolsNamed,
         NetpolsNamed', EventsNamed, CopyCurrent, ListingAttended, [Next]_vars
  PROVE  ListingAttended'
<1> SUFFICES ASSUME faults' = 0,
                    NEW a \in Accesses, NEW s \in Services, NEW t \in Services,
                    NEW d \in Directions, NEW k \in NetpolKeys, k = PolicyKey(a, s, d, t),
                    Wanted(a, s, t, d)', k \notin accesses'[a].netpols,
                    ~Awaited(a, s, k)', ~Awaited(a, t, k)'
             PROVE  Doing(a, s, t, d)' \/ (Serving(a)' /\ k \in Rebuilt')
  BY KeyType DEF ListingAttended, Awaited
<1>1. /\ a \notin queue' /\ a \notin accEvents' /\ a \notin npEvents'[k]
      /\ s \notin svcEvents' /\ t \notin svcEvents'
  BY DEF Awaited
<1>2. accesses'[a] # Absent /\ NsOf[s] = AccessNs[a]
  BY DEF Wanted, Living
<1>3. /\ accesses'[a] = accesses[a] /\ accCache[a] = accesses[a]
      /\ services'[s] = services[s] /\ svcCache[s] = services[s]
      /\ services'[t] = services[t] /\ svcCache[t] = services[t]
      /\ npEvents[k] = {}
      /\ a \in queue => Reconcile(a)
      /\ a \notin queue => ~Awaited(a, s, k) /\ ~Awaited(a, t, k)
  BY <1>1, <1>2, NothingNew
<1>4. faults = 0 /\ ~Fault
  BY FaultsStay
<1>5. Wanted(a, s, t, d) /\ Living(a)
  BY <1>3 DEF Wanted, Living
<1>6. CASE a \in queue
  <2>1. ReconcileStart(a)
    BY <1>3, <1>5, <1>6 DEF Reconcile, ReconcileGone, Living
  <2> QED
    BY <1>3, <1>5, <2>1, StartDoes
<1>7. CASE a \notin queue
  <2>0. ~Awaited(a, s, k) /\ ~Awaited(a, t, k)
    BY <1>3, <1>7
  <2>1. Doing(a, s, t, d) \/ (Serving(a) /\ k \in Rebuilt)
    BY <1>3, <1>4, <1>5, <2>0 DEF ListingAttended
  <2>2. Serving(a)
    BY <2>1 DEF Doing, Serving
  <2>3. CASE UNCHANGED ctlVars
    BY <1>3, <2>1, <2>3 DEF ctlVars, jobVars, Doing, Serving, Rebuilt
  <2>4. CASE Restart
    BY <1>1, <1>2, <1>3, <2>4, RestartQueues
  <2>5. CASE WorkerStep /\ k \in Rebuilt
    <3>1. k \in deployed => k \in FinalNetpols(obj)
      BY DEF FinalNetpols
    <3>2. CASE ~Serving(a)'
      <4>1. a \notin accEvents
        BY <2>0 DEF Awaited
      <4>2. accesses[a].netpols = IF pc = "status" THEN obj.netpols ELSE FinalNetpols(obj)
        BY <1>1, <1>3, <1>4, <1>5, <1>7, <2>2, <2>5, <3>2, <4>1, ServedList
      <4> QED
        BY <1>3, <2>5, <3>1, <4>2 DEF Rebuilt
    <3>3. CASE Serving(a)'
      BY <2>5, <3>1, <3>3, WorkerLists DEF ToRest, Serving, Rebuilt
    <3> QED
      BY <3>2, <3>3
  <2>6. CASE WorkerStep /\ Doing(a, s, t, d) /\ pc = "expired"
    <3>1. DeleteExpired
      BY <2>6 DEF WorkerStep, ListOwned, CleanupOne, ListServices, ListFails, SkipService, BeginService,
                  SkipTarget, Deploy, Undeploy, FinishUnchanged, PrepareStatus, FinishStatus
    <3> QED
      BY <1>2, <1>4, <1>5, <2>2, <3>1, ExpiredDeleted DEF Serving
  <2>7. CASE WorkerStep /\ Doing(a, s, t, d) /\ pc # "expired"
    BY <1>3, <1>4, <1>5, <2>7, DoingNext
  <2> QED
    BY <2>1, <2>2, <2>3, <2>4, <2>5, <2>6, <2>7, RunningNext DEF Serving
<1> QED
  BY <1>6, <1>7

\* Where the names of policies tell Accesses apart, the status of an Access tells the
\* truth in the end, although its lists are made from an old copy, written onto another
\* one, and not written at all if nothing seems to have changed: when nothing is left to
\* do and no write failed, it lists the policies of all that is asked for, and no policy
\* that is not there or is not its own.
THEOREM AccessStatusTruthful == KeysApart => (Spec => []StatusTruthful)
<1> SUFFICES ASSUME KeysApart
             PROVE  Spec => []StatusTruthful
  OBVIOUS
<1> DEFINE Status == ListsNamed /\ CopyCurrent /\ VanishedAttended /\ ListingAttended
           Inv == QuietBase /\ Status
<1>1. Init => Inv
  <2> SUFFICES ASSUME Init
               PROVE  Status
    BY InitQuietBase
  <2>1. \A a \in Accesses : accesses[a] # Absent => a \in queue /\ accesses[a].netpols = {}
    <3>1. TAKE a \in Accesses
    <3>2. HAVE accesses[a] # Absent
    <3>3. a \in queue
      BY <3>2 DEF Init, ClusterInit
    <3>4. PICK spec \in UNION {Specs[b] : b \in Accesses} : accesses[a] = NewAccess(spec)
      BY <3>2 DEF Init, ClusterInit, Maybe
    <3> QED
      BY <3>3, <3>4 DEF NewAccess
  <2>2. ListsNamed /\ CopyCurrent
    BY <2>1 DEF Init, ClusterInit, AtRest, ListsNamed, CopyCurrent
  <2>3. VanishedAttended /\ ListingAttended
    BY <2>1 DEF VanishedAttended, ListingAttended, Told, Awaited, Wanted, Living
  <2> QED
    BY <2>2, <2>3
<1>2. Inv /\ [Next]_vars => Inv'
  <2> SUFFICES ASSUME Inv, [Next]_vars
               PROVE  Inv'
    OBVIOUS
  <2>1. QuietBase'
    BY QuietBaseNext
  <2> QED
    BY <2>1, ListsStayNamed, CopyStaysCurrent, VanishedNext, ListingNext DEF QuietBase
<1>3. Inv => StatusTruthful
  <2> SUFFICES ASSUME Inv, Quiet, Collected, faults = 0, NEW a \in Accesses, Living(a)
               PROVE  /\ accesses[a].netpols \subseteq Generated(a)
                      /\ \A s, t \in Services, d \in Directions :
                           Wanted(a, s, t, d) => PolicyKey(a, s, d, t) \in accesses[a].netpols
    BY DEF StatusTruthful
  <2>1. pc = Idle /\ queue = {} /\ accEvents = {} /\ svcEvents = {}
        /\ \A k \in NetpolKeys : npEvents[k] = {}
    BY DEF Quiet, Settled
  <2>2. ASSUME NEW k \in accesses[a].netpols
        PROVE  k \in Generated(a)
    <3>1. k \in NamedOf(a)
      BY DEF ListsNamed, Living
    <3>2. PICK s \in Services : k \in NetpolKeys /\ NamedFor(k, a, s)
      BY <3>1 DEF NamedOf
    <3>3. netpols[k] # Absent
      BY <2>1, <3>1, <3>2 DEF VanishedAttended, Told, Serving
    <3>4. /\ netpols[k].owner \in Accesses /\ netpols[k].svc \in Services
          /\ NamedFor(k, netpols[k].owner, netpols[k].svc)
      BY <3>2, <3>3 DEF QuietBase, NetpolsNamed, TypeInv, TypeOK, ClusterTypeOK,
                        NetpolsTypeOK, Maybe, NetpolObjects
    <3>5. netpols[k].owner = a
      BY <3>2, <3>4, KeyOf
    <3> QED
      BY <3>2, <3>3, <3>5 DEF Collected, Generated
  <2>3. ASSUME NEW s \in Services, NEW t \in Services, NEW d \in Directions,
               Wanted(a, s, t, d)
        PROVE  PolicyKey(a, s, d, t) \in accesses[a].netpols
    <3>1. PolicyKey(a, s, d, t) \in NetpolKeys
      BY KeyType
    <3> QED
      BY <2>1, <2>3, <3>1 DEF ListingAttended, Awaited, Doing, Serving
  <2> QED
    BY <2>2, <2>3
<1> HIDE DEF Inv
<1> QED
  BY <1>1, <1>2, <1>3, PTL DEF Spec
=============================================================================
