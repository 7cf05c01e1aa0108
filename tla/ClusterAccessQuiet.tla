-------------------------- MODULE ClusterAccessQuiet --------------------------
(***************************************************************************)
(* What the ClusterAccess controller has done when it has nothing left to  *)
(* do.                                                                     *)
(*                                                                         *)
(* Nothing is forgotten: whatever is not yet as the users want it, be it a *)
(* policy whose service is gone or an access that is missing, is the work  *)
(* of the reconcile that is running, or there is an event or a request     *)
(* that will bring the ClusterAccess before the worker again.              *)
(***************************************************************************)
EXTENDS ClusterAccessProofs

\* The worker leaves a policy or writes it, with an event.
LEMMA WorkerNotes ==
  ASSUME TypeInv, WorkerStep
  PROVE  PoliciesNoted /\ \A k \in NetpolKeys : npEvents[k] \subseteq npEvents'[k]
<1>1. CASE UNCHANGED npVars
  BY <1>1, PoliciesStay DEF npVars
<1>2. ASSUME NEW k \in NetpolKeys, WorkerChanges(k)
      PROVE  PoliciesNoted /\ \A i \in NetpolKeys : npEvents[i] \subseteq npEvents'[i]
  <2>1. PICK n : WriteNetpol(k, n) /\ (n # Absent \/ netpols[k] # Absent)
    BY <1>2 DEF WorkerChanges, Swept, Undone, Stored
  <2> QED
    BY <2>1, NetpolWritten DEF TypeInv, TypeOK, ClusterTypeOK
<1> QED
  BY <1>1, <1>2, WorkerChange

\* So does every step.
LEMMA NextNotes ==
  ASSUME TypeInv, [Next]_vars
  PROVE  PoliciesNoted
<1>1. CASE UserStep \/ PlatformStep \/ Restart
  BY <1>1, ClusterPolicies DEF ClusterStep, Restart, TypeInv, TypeOK
<1>2. CASE (\E a \in Accesses : Reconcile(a)) \/ UNCHANGED vars
  BY <1>2, PoliciesStay DEF Reconcile, ReconcileGone, ReconcileStart, vars, clusterVars
<1> QED
  BY <1>1, <1>2, WorkerNotes DEF Next

\* The worker writes a policy, or its ClusterAccess, or neither.
LEMMA WorkerWrites ==
  ASSUME TypeInv, WorkerStep
  PROVE  /\ UNCHANGED svcVars /\ queue \subseteq queue'
         /\ UNCHANGED accVars \/ (UNCHANGED npVars /\ \E o : WriteAccess(req, o))
<1>1. CASE DeleteExpired
  BY <1>1 DEF DeleteExpired
<1>2. CASE FinishReconcile
  BY <1>2 DEF FinishReconcile, UpdateStatus
<1>3. CASE \/ ListOwned \/ CleanupOne \/ ListServices \/ ListFails
           \/ SkipService \/ BeginService \/ SkipTarget
           \/ DeploySource \/ UndeploySource \/ DeployMirror \/ UndeployMirror
  BY <1>3 DEF ListOwned, CleanupOne, ListServices, ListFails, SkipService, BeginService, SkipTarget,
              DeploySource, UndeploySource, DeployMirror, UndeployMirror, clusterVars, wakeVars
<1> QED
  BY <1>1, <1>2, <1>3 DEF WorkerStep

\* Every step gives notice of what it changes, and only a reconcile takes a request.
LEMMA NextNotices ==
  ASSUME TypeInv, [Next]_vars, NEW a \in Accesses, accesses'[a] # Absent
  PROVE  Noticed(a) /\ (a \in queue => a \in queue' \/ Reconcile(a))
<1>0. ClusterTypeOK
  BY DEF TypeInv, TypeOK
<1>1. ASSUME UNCHANGED <<svcVars, accesses, accCache, accEvents>>,
             \A k \in NetpolKeys : npEvents[k] \subseteq npEvents'[k]
      PROVE  Noticed(a)
  BY <1>1 DEF svcVars, Noticed
<1>2. CASE UserStep \/ PlatformStep \/ Restart
  BY <1>0, <1>2, ClusterNotices DEF ClusterStep, Restart
<1>3. CASE (\E b \in Accesses : Reconcile(b)) \/ UNCHANGED vars
  <2>1. UNCHANGED <<svcVars, accesses, accCache, accEvents, npVars>>
    BY <1>3 DEF Reconcile, ReconcileGone, ReconcileStart, vars, clusterVars, accVars
  <2>2. a \in queue => a \in queue' \/ Reconcile(a)
    BY <1>3 DEF Reconcile, ReconcileGone, ReconcileStart, vars, clusterVars, wakeVars
  <2> QED
    BY <1>1, <2>1, <2>2 DEF npVars
<1>4. CASE WorkerStep
  <2>1. CASE UNCHANGED accVars
    BY <1>1, <1>4, <2>1, WorkerWrites, WorkerNotes DEF accVars
  <2>2. CASE UNCHANGED npVars /\ \E o : WriteAccess(req, o)
    <3>1. /\ accesses'[a] = accesses[a] \/ a = req
          /\ accEvents' = accEvents \cup {req}
      BY <1>0, <2>2 DEF WriteAccess, ClusterTypeOK, AccessesTypeOK
    <3> QED
      BY <1>4, <2>2, <3>1, WorkerWrites DEF svcVars, npVars, Noticed
  <2> QED
    BY <1>4, <2>1, <2>2, WorkerWrites
<1> QED
  BY <1>2, <1>3, <1>4 DEF Next

\* Faults are not forgotten.
LEMMA FaultsStay ==
  ASSUME TypeInv, [Next]_vars, faults' = 0
  PROVE  faults = 0 /\ ~Fault
<1>1. faults \in Nat
  BY DEF TypeInv, TypeOK, ClusterTypeOK, BoundsTypeOK
<1>2. \/ UNCHANGED faults \/ Fault
      \/ \E m : Edit(m)
  <2>1. CASE UserStep \/ PlatformStep \/ Restart \/ UNCHANGED vars
    BY <2>1 DEF UserStep, PlatformStep, PutService, DeleteService, CreateAccess, EditAccess,
         DeleteAccess, DeleteNetpol, CollectNetpol, DeliverNetpol, DeliverService,
         CollectAccess, DeliverAccess, TimerFires, Resync, Tick, Restart, ClusterRestart,
         bounds, clusterVars, vars
  <2>2. CASE \/ \E a \in Accesses : Reconcile(a)
             \/ DeleteExpired \/ ListOwned \/ CleanupOne \/ ListServices \/ ListFails
             \/ SkipService \/ BeginService \/ SkipTarget \/ FinishReconcile
    BY <2>2 DEF Reconcile, ReconcileGone, ReconcileStart, DeleteExpired, ListOwned,
         CleanupOne, ListServices, ListFails, SkipService, BeginService, SkipTarget, FinishReconcile,
         UpdateStatus, NoFault, bounds, clusterVars
  <2>3. CASE DeploySource \/ UndeploySource \/ DeployMirror \/ UndeployMirror
    BY <2>3 DEF DeploySource, UndeploySource, DeployMirror, UndeployMirror, DeployResource,
         CreateResource, ReconcileResource, DeleteResource, NoFault, bounds
  <2> QED
    BY <2>1, <2>2, <2>3 DEF Next, WorkerStep
<1> QED
  BY <1>1, <1>2 DEF Fault, Edit

\* A reconcile that runs is gone on with, interrupted or done.
LEMMA RunningNext ==
  ASSUME [Next]_vars, pc # Idle
  PROVE  UNCHANGED ctlVars \/ WorkerStep \/ Restart
BY DEF Next, Reconcile, ReconcileGone, ReconcileStart, vars

\* A restarted manager queues every ClusterAccess.
LEMMA RestartQueues ==
  ASSUME Restart, NEW a \in Accesses, accesses[a] # Absent
  PROVE  a \in queue'
BY DEF Restart, ClusterRestart

\* While no write fails, a ClusterAccess found expired is deleted.
LEMMA ExpiredDeleted ==
  ASSUME TypeInv, WorkerStep, pc = "expired", ~Fault, Living(req)
  PROVE  accesses'[req] = Absent
<1>1. req \in Accesses
  BY DEF TypeInv, Holding, Idle
<1>2. DeleteExpired
  BY DEF WorkerStep, ListOwned, CleanupOne, ListServices, ListFails, SkipService,
         BeginService, SkipTarget, DeploySource, UndeploySource, DeployMirror, UndeployMirror,
         FinishReconcile
<1> QED
  BY <1>1, <1>2 DEF DeleteExpired, Living, WriteAccess, TypeInv, TypeOK, ClusterTypeOK,
                    AccessesTypeOK

-----------------------------------------------------------------------------
(* Policies whose service is gone *)

\* The policy under k is one of the living ClusterAccess a, for a service that is gone.
Orphaned(a, k) ==
  /\ Living(a) /\ netpols[k] # Absent /\ netpols[k].owner = a
  /\ services[netpols[k].svc] = Absent

\* The worker is about to delete a or to list its policies, or still has the policy on
\* its list.
Sweeping(a, k) ==
  /\ pc # Idle /\ req = a
  /\ \/ pc \in {"expired", "list"}
     \/ pc = "cleanup" /\ [key |-> k, svc |-> netpols[k].svc] \in owned

OrphansAttended ==
  faults = 0 =>
    \A a \in Accesses, k \in NetpolKeys :
      Orphaned(a, k) => Awaited(a, netpols[k].svc, k) \/ Sweeping(a, k)

\* Orphans stay attended.
LEMMA OrphansNext ==
  ASSUME TypeInv, TypeInv', CachesCurrent, PoliciesKnown, OrphansAttended, [Next]_vars
  PROVE  OrphansAttended'
<1> SUFFICES ASSUME faults' = 0, NEW a \in Accesses, NEW k \in NetpolKeys, Orphaned(a, k)',
                    ~Awaited(a, netpols[k].svc, k)'
             PROVE  Sweeping(a, k)'
  BY DEF OrphansAttended
<1>1. faults = 0 /\ ~Fault
  BY FaultsStay
<1>2. accesses'[a] # Absent /\ ~accesses'[a].deleting /\ netpols'[k] # Absent
      /\ netpols'[k].owner = a /\ services'[netpols'[k].svc] = Absent
  BY DEF Orphaned, Living
<1>3. PICK s \in Services : s = netpols'[k].svc
  BY <1>2 DEF TypeInv, TypeOK, ClusterTypeOK, NetpolsTypeOK, Maybe, NetpolObjects
<1>4. PoliciesNoted /\ Noticed(a) /\ (a \in queue => a \in queue' \/ Reconcile(a))
  BY <1>2, NextNotes, NextNotices
<1>5. a \notin queue' /\ a \notin accEvents' /\ a \notin npEvents'[k] /\ s \notin svcEvents'
  BY <1>3 DEF Awaited
<1>6. /\ accesses'[a] = accesses[a] /\ services'[s] = services[s]
      /\ netpols'[k] = netpols[k]
      /\ Awaited(a, s, k) => a \in queue
  BY <1>2, <1>3, <1>4, <1>5, AwaitedStays DEF OwnerIn, Awaited
<1>7. Living(a) /\ netpols[k] # Absent /\ netpols[k].svc = s /\ netpols[k].owner = a
      /\ services[s] = Absent
  BY <1>2, <1>3, <1>6 DEF Living
<1>8. a \in queue \/ Sweeping(a, k)
  BY <1>1, <1>6, <1>7 DEF OrphansAttended, Orphaned
<1>9. CASE a \in queue
  <2>1. Reconcile(a)
    BY <1>4, <1>5, <1>9
  <2>2. UNCHANGED <<accCache, accEvents, accesses>>
    BY <2>1 DEF Reconcile, ReconcileGone, ReconcileStart, accVars
  <2>3. accCache[a] = accesses[a]
    BY <1>5, <2>2 DEF CachesCurrent
  <2>4. ReconcileStart(a)
    BY <1>7, <2>1, <2>3 DEF Reconcile, ReconcileGone, Living
  <2> QED
    BY <2>4 DEF ReconcileStart, Sweeping, Idle
<1>10. CASE Sweeping(a, k)
  <2>1. pc # Idle /\ req = a
    BY <1>10 DEF Sweeping
  <2>2. CASE UNCHANGED ctlVars
    BY <1>6, <1>10, <2>2 DEF ctlVars, jobVars, Sweeping
  <2>3. CASE Restart
    BY <1>5, <1>7, <2>3, RestartQueues DEF Living
  <2>4. CASE WorkerStep /\ pc = "expired"
    BY <1>1, <1>2, <1>7, <2>1, <2>4, ExpiredDeleted
  <2>5. CASE WorkerStep /\ pc = "list"
    <3>1. ListOwned
      BY <2>5 DEF WorkerStep, DeleteExpired, CleanupOne, ListServices, ListFails, SkipService,
             BeginService, SkipTarget, DeploySource, UndeploySource, DeployMirror,
             UndeployMirror, FinishReconcile
    <3>2. npCache[k] = netpols[k]
      BY <1>5, <1>7, <3>1 DEF ListOwned, clusterVars, npVars, PoliciesKnown
    <3>3. [key |-> k, svc |-> s] \in owned'
      BY <1>7, <2>1, <3>1, <3>2 DEF ListOwned
    <3> QED
      BY <1>3, <2>1, <3>1, <3>3 DEF ListOwned, Sweeping, Idle
  <2>6. CASE WorkerStep /\ pc = "cleanup"
    <3>1. [key |-> k, svc |-> s] \in owned
      BY <1>7, <1>10, <2>6 DEF Sweeping
    <3>2. CleanupOne
      BY <2>6, <3>1
         DEF WorkerStep, DeleteExpired, ListOwned, ListServices, ListFails, SkipService, BeginService,
             SkipTarget, DeploySource, UndeploySource, DeployMirror, UndeployMirror,
             FinishReconcile
    <3>3. PICK o \in owned :
            /\ owned' = owned \ {o}
            /\ \/ ~IsOrphan(o) /\ UNCHANGED npVars
               \/ IsOrphan(o) /\ netpols[o.key] # Absent /\ WriteNetpol(o.key, Absent)
               \/ IsOrphan(o) /\ netpols[o.key] = Absent
      BY <1>1, <3>2 DEF CleanupOne
    <3>4. o # [key |-> k, svc |-> s]
      <4> SUFFICES ASSUME o = [key |-> k, svc |-> s]
                   PROVE  FALSE
        OBVIOUS
      <4>1. o.key = k /\ o.svc = s
        OBVIOUS
      <4>2. s \notin svcEvents
        BY <1>5, <3>2 DEF CleanupOne, svcVars
      <4>3. IsOrphan(o)
        BY <1>7, <4>1, <4>2 DEF IsOrphan, CachesCurrent
      <4>4. WriteNetpol(k, Absent)
        BY <1>7, <3>3, <4>1, <4>3
      <4> QED
        BY <1>2, <4>4 DEF WriteNetpol, TypeInv, TypeOK, ClusterTypeOK, NetpolsTypeOK
    <3> QED
      BY <1>3, <2>1, <2>6, <3>1, <3>2, <3>3, <3>4 DEF CleanupOne, Sweeping
  <2> QED
    BY <1>10, <2>1, <2>2, <2>3, <2>4, <2>5, <2>6, RunningNext DEF Sweeping
<1> QED
  BY <1>8, <1>9, <1>10

\* What the theorems of this module rest on.
QuietBase == TypeInv /\ CachesCurrent /\ PoliciesKnown

\* It holds in the first states.
LEMMA InitBase == Init => QuietBase
BY InitType, InitHistory, InitKnown DEF Init, QuietBase

\* And after every step.
LEMMA BaseNext ==
  ASSUME QuietBase, [Next]_vars
  PROVE  QuietBase'
<1>1. TypeInv' /\ ClusterMoves
  BY NextType, NextMoves DEF QuietBase
<1>2. CachesCurrent'
  BY <1>1, MovesCurrent DEF QuietBase, TypeInv, TypeOK
<1>3. PoliciesKnown'
  BY NextNotes, PoliciesStayKnown DEF QuietBase
<1> QED
  BY <1>1, <1>2, <1>3 DEF QuietBase

\* No policy of a living ClusterAccess stays behind for a service that is gone: when
\* the events are delivered, the queue is empty and no write failed, there is none,
\* whatever restarts there were, and in whichever order the service, the policy and
\* the ClusterAccess came and went.
THEOREM ClusterAccessNoOrphan == Spec => []NoOrphanWhenQuiet
<1> DEFINE Inv == QuietBase /\ OrphansAttended
<1>1. Init => Inv
  BY InitBase DEF Init, ClusterInit, OrphansAttended, Orphaned
<1>2. Inv /\ [Next]_vars => Inv'
  BY BaseNext, OrphansNext DEF QuietBase
<1>3. Inv => NoOrphanWhenQuiet
  <2> SUFFICES ASSUME Inv, Quiet, faults = 0, NEW k \in NetpolKeys, netpols[k] # Absent,
                      Living(netpols[k].owner), services[netpols[k].svc] = Absent
               PROVE  FALSE
    BY DEF NoOrphanWhenQuiet
  <2>1. netpols[k].owner \in Accesses
    BY DEF QuietBase, TypeInv, TypeOK, ClusterTypeOK, NetpolsTypeOK, Maybe, NetpolObjects
  <2>2. Orphaned(netpols[k].owner, k)
    BY DEF Orphaned
  <2>3. Awaited(netpols[k].owner, netpols[k].svc, k) \/ Sweeping(netpols[k].owner, k)
    BY <2>1, <2>2 DEF OrphansAttended
  <2> QED
    BY <2>3 DEF Quiet, Settled, Awaited, Sweeping
<1> HIDE DEF Inv
<1> QED
  BY <1>1, <1>2, <1>3, PTL DEF Spec

-----------------------------------------------------------------------------
(* Access that is asked for *)

\* Events about a policy name the ClusterAccess its key is for.
EventsNamed ==
  \A k \in NetpolKeys : \A b \in npEvents[k] : \E s \in Services : NamedFor(k, b, s)

\* The policies of a source and a target: the source's and the mirrored one.
KeyFor(a, s, t, d, mirror) == IF mirror THEN MirrorKey(a, s, d, t) ELSE SourceKey(a, s, d, t)

\* The one of the two under k is in place.
Standing(k, s, t, d) ==
  netpols[k] # Absent /\ IsRuleFor(k, netpols[k], d, s, services[s], t, services[t])

AsSource(s, d) ==
  [svc |-> s, direction |-> d, pods |-> services[s].pods, ports |-> services[s].ports]

\* The worker is about to delete a, or goes on with the spec that a has now and has
\* yet to list s as it is, to begin with it, to deploy for its target t, or to deploy
\* the mirrored policy of the two.
Doing(a, s, t, d, mirror) ==
  /\ pc # Idle /\ req = a
  /\ \/ pc = "expired"
     \/ /\ obj.spec = accesses[a].spec /\ ~obj.deleting
        /\ \/ pc \in {"list", "cleanup"}
           \/ /\ pc \in {"services", "targets", "mirror"}
              /\ [svc |-> s, version |-> services[s]] \in listed
           \/ pc \in {"targets", "mirror"} /\ t \in targets /\ source = AsSource(s, d)
           \/ /\ pc = "mirror" /\ mirror
              /\ source = AsSource(s, d) /\ peer = [svc |-> t, pods |-> services[t].pods]

Attended(a, s, t, d, mirror) ==
  LET k == KeyFor(a, s, t, d, mirror)
  IN Standing(k, s, t, d) \/ Doing(a, s, t, d, mirror) \/ Awaited(a, s, k) \/ Awaited(a, t, k)

CoverageAttended ==
  faults = 0 =>
    \A a \in Accesses, s, t \in Services, d \in Directions, mirror \in BOOLEAN :
      Wanted(a, s, t, d) /\ (mirror => accesses[a].spec.mirrored)
        => Attended(a, s, t, d, mirror)

\* The name of a policy tells the ClusterAccess.
LEMMA KeyOf ==
  ASSUME TellsApart(NameOf), NEW k, NEW a, NEW b, NEW s, NEW x,
         NamedFor(k, a, s), NamedFor(k, b, x)
  PROVE  a = b
<1>1. PICK p \in NameParts : k.name = NameOf[p] /\ Labelled(p) = [owner |-> a, svc |-> s]
  BY DEF NamedFor
<1>2. PICK q \in NameParts : k.name = NameOf[q] /\ Labelled(q) = [owner |-> b, svc |-> x]
  BY DEF NamedFor
<1>3. Labelled(p) = Labelled(q)
  BY <1>1, <1>2 DEF TellsApart
<1> QED
  BY <1>1, <1>2, <1>3

\* And whether the policy is a mirrored one.
LEMMA KeyMirrors ==
  ASSUME NEW a \in Accesses, NEW s \in Services, NEW t \in Services, NEW d,
         NEW mirror \in BOOLEAN, NEW n \in NetpolObjects,
         Requested(svcHist, specHist, KeyFor(a, s, t, d, mirror), n)
  PROVE  n.mirror = mirror
<1>1. PICK q \in NameParts :
        KeyFor(a, s, t, d, mirror).name = NameOf[q] /\ q.mirror = n.mirror
  BY NameTells
<1>2. PICK p \in NameParts :
        KeyFor(a, s, t, d, mirror).name = NameOf[p] /\ p.mirror = mirror
  <2>1. CASE mirror
    <3> DEFINE p == [access |-> a, self |-> t, peer |-> s,
                     suffix |-> DirectionSuffix(MirroredDirection(d)), mirror |-> TRUE]
    <3>1. p \in NameParts
      BY SuffixType, ClusterAccessAssumption DEF NameParts
    <3> QED
      BY <2>1, <3>1 DEF KeyFor, MirrorKey
  <2>2. CASE ~mirror
    <3> DEFINE p == [access |-> a, self |-> s, peer |-> t,
                     suffix |-> DirectionSuffix(d), mirror |-> FALSE]
    <3>1. p \in NameParts
      BY SuffixType, ClusterAccessAssumption DEF NameParts
    <3> QED
      BY <2>2, <3>1 DEF KeyFor, SourceKey
  <2> QED
    BY <2>1, <2>2
<1> QED
  BY <1>1, <1>2, ClusterAssumption

\* Stored policies are named for their owners.
NetpolsNamed ==
  \A k \in NetpolKeys :
    netpols[k] # Absent => NamedFor(k, netpols[k].owner, netpols[k].svc)

LEMMA RequestedAreNamed ==
  /\ TypeInv /\ PoliciesRequested => NetpolsNamed
  /\ TypeInv' /\ PoliciesRequested' => NetpolsNamed'
<1>1. TypeInv /\ PoliciesRequested => NetpolsNamed
  <2> SUFFICES ASSUME TypeInv, PoliciesRequested, NEW k \in NetpolKeys, netpols[k] # Absent
               PROVE  NamedFor(k, netpols[k].owner, netpols[k].svc)
    BY DEF NetpolsNamed
  <2>1. netpols[k] \in NetpolObjects /\ Requested(svcHist, specHist, k, netpols[k])
    BY DEF PoliciesRequested, TypeInv, TypeOK, ClusterTypeOK, NetpolsTypeOK, Maybe
  <2> QED
    BY <2>1, RequestedNamed
<1>2. TypeInv' /\ PoliciesRequested' => NetpolsNamed'
  <2> SUFFICES ASSUME TypeInv', PoliciesRequested', NEW k \in NetpolKeys, netpols'[k] # Absent
               PROVE  NamedFor(k, netpols'[k].owner, netpols'[k].svc)
    BY DEF NetpolsNamed, NamedFor
  <2>1. netpols'[k] \in NetpolObjects /\ Requested(svcHist', specHist', k, netpols'[k])
    BY DEF PoliciesRequested, TypeInv, TypeOK, ClusterTypeOK, NetpolsTypeOK, Maybe
  <2> QED
    BY <2>1, RequestedNamed
<1> QED
  BY <1>1, <1>2

\* A step writes an event for the owners of a policy only.
LEMMA EventsStayNamed ==
  ASSUME TypeInv, TypeInv', NetpolsNamed, NetpolsNamed', EventsNamed, PoliciesNoted
  PROVE  EventsNamed'
<1> SUFFICES ASSUME NEW k \in NetpolKeys, NEW b \in npEvents'[k]
             PROVE  \E s \in Services : NamedFor(k, b, s)
  BY DEF EventsNamed, NamedFor
<1>1. /\ netpols[k] # Absent => netpols[k].svc \in Services
      /\ netpols'[k] # Absent => netpols'[k].svc \in Services
  BY DEF TypeInv, TypeOK, ClusterTypeOK, NetpolsTypeOK, Maybe, NetpolObjects
<1>2. /\ netpols[k] # Absent => NamedFor(k, netpols[k].owner, netpols[k].svc)
      /\ netpols'[k] # Absent => NamedFor(k, netpols'[k].owner, netpols'[k].svc)
  BY DEF NetpolsNamed, NamedFor
<1> QED
  BY <1>1, <1>2 DEF EventsNamed, PoliciesNoted, OwnerIn

\* A step that leaves nothing awaiting a, for s, t or the policy under k, has changed
\* none of them, and none of them was under way to a's cache.
LEMMA NothingNew ==
  ASSUME TellsApart(NameOf), TypeInv, TypeInv', CachesCurrent, PoliciesKnown, NetpolsNamed,
         NetpolsNamed', EventsNamed, [Next]_vars,
         NEW a \in Accesses, NEW s \in Services, NEW t \in Services,
         NEW k \in NetpolKeys, NamedFor(k, a, s), accesses'[a] # Absent,
         a \notin queue', a \notin accEvents', a \notin npEvents'[k],
         s \notin svcEvents', t \notin svcEvents'
  PROVE  /\ accesses'[a] = accesses[a] /\ accCache[a] = accesses[a]
         /\ services'[s] = services[s] /\ svcCache[s] = services[s]
         /\ services'[t] = services[t] /\ svcCache[t] = services[t]
         /\ npEvents[k] = {} /\ netpols[k] = netpols'[k]
         /\ a \in queue => Reconcile(a)
         /\ a \notin queue => ~Awaited(a, s, k) /\ ~Awaited(a, t, k)
<1>1. PoliciesNoted /\ Noticed(a) /\ (a \in queue => Reconcile(a))
  BY NextNotes, NextNotices
<1>2. ~Awaited(a, s, k)' /\ ~Awaited(a, t, k)'
  BY DEF Awaited
<1>3. /\ accesses'[a] = accesses[a] /\ services'[s] = services[s] /\ services'[t] = services[t]
      /\ netpols'[k] = netpols[k] \/ a \notin OwnerIn(netpols[k]) \cup OwnerIn(netpols'[k])
      /\ a \notin queue => ~Awaited(a, s, k) /\ ~Awaited(a, t, k)
  BY <1>1, <1>2, AwaitedStays
<1>4. Reconcile(a) => UNCHANGED <<svcVars, accesses, accCache, accEvents, npVars>>
  BY DEF Reconcile, ReconcileGone, ReconcileStart, accVars
<1>5. a \notin accEvents /\ a \notin npEvents[k] /\ s \notin svcEvents /\ t \notin svcEvents
  BY <1>1, <1>3, <1>4 DEF Awaited, svcVars, npVars
<1>6. accCache[a] = accesses[a] /\ svcCache[s] = services[s] /\ svcCache[t] = services[t]
  BY <1>5 DEF CachesCurrent
<1>7. npEvents[k] = {}
  BY <1>5, KeyOf DEF EventsNamed
<1>8. netpols[k] = netpols'[k]
  <2>1. /\ netpols[k] # Absent => NamedFor(k, netpols[k].owner, netpols[k].svc)
        /\ netpols'[k] # Absent => NamedFor(k, netpols'[k].owner, netpols'[k].svc)
    BY DEF NetpolsNamed, NamedFor
  <2>2. /\ netpols[k] # Absent => netpols[k].owner = a
        /\ netpols'[k] # Absent => netpols'[k].owner = a
    BY <2>1, KeyOf
  <2> QED
    BY <1>3, <2>2 DEF OwnerIn
<1> QED
  BY <1>1, <1>3, <1>6, <1>7, <1>8

\* What is asked for, in the controller's terms.
LEMMA WantedIs ==
  ASSUME NEW a \in Accesses, NEW s \in Services, NEW t \in Services, NEW d \in Directions,
         Wanted(a, s, t, d)
  PROVE  /\ Living(a)
         /\ HasDetails(services[s]) /\ HasDetails(services[t])
         /\ accesses[a].spec.selector # BadSelector
         /\ services[s].label \in accesses[a].spec.selector
         /\ t \in TargetsOf(services[s], accesses[a].spec)
         /\ ToLower(DirectionOf(services[s], accesses[a].spec)) = d
         /\ IsValidDirection(DirectionOf(services[s], accesses[a].spec))
BY DEF Wanted, Asks, AnyCase, TargetsOf, DirectionOf, IsValidDirection

\* Without a fault, deploying a policy while no event about it is under way leaves it
\* stored as defined, or an event.
LEMMA Deployed ==
  ASSUME TypeInv, PoliciesKnown, ~Fault, NEW k \in NetpolKeys, npEvents[k] = {},
         NEW n \in NetpolObjects, DeployResource(k, n)
  PROVE  \/ /\ netpols[k] # Absent /\ UNCHANGED netpols
            /\ netpols[k].spec = n.spec /\ netpols[k].owner = n.owner
         \/ n.owner \in npEvents'[k]
<1>0. npCache[k] = netpols[k] /\ n # Absent
  BY MarkerAssumption DEF PoliciesKnown
<1>1. ASSUME NEW m, m # Absent, m.owner = n.owner, WriteNetpol(k, m)
      PROVE  n.owner \in npEvents'[k]
  BY <1>1 DEF WriteNetpol, OwnerIn, TypeInv, TypeOK, ClusterTypeOK, NetpolsTypeOK
<1>2. npCache[k] # Absent =>
        Merged(n, npCache[k]).owner = n.owner /\ Merged(n, npCache[k]) # Absent
  BY MarkerAssumption DEF Merged, NetpolObjects
<1> QED
  BY <1>0, <1>1, <1>2 DEF DeployResource, CreateResource, ReconcileResource, Unchanged,
                          SameLabels, npVars

\* The policies that Reconcile defines for a source and a target are the rules for them.
LEMMA SourceIsRule ==
  ASSUME NEW o, NEW a \in Accesses, NEW s \in Services, NEW t \in Services,
         NEW d \in Directions, NEW v, NEW w, NEW n, NEW m, m.owner = a, ~m.mirror,
         m.spec = n.spec,
         n = SourceNetpol(o, a, [svc |-> s, direction |-> d, pods |-> v.pods,
                                 ports |-> v.ports], [svc |-> t, pods |-> w.pods])
  PROVE  IsRuleFor(SourceKey(a, s, d, t), m, d, s, v, t, w)
<1>1. m.spec = DefineAccessNetworkPolicy(v.pods, w.pods, NsOf[t], v.ports, d)
  BY DEF SourceNetpol
<1> QED
  BY <1>1, DefineOpens DEF IsRuleFor

LEMMA MirrorIsRule ==
  ASSUME NEW o, NEW a \in Accesses, NEW s \in Services, NEW t \in Services,
         NEW d \in Directions, NEW v, NEW w, NEW n, NEW m, m.owner = a, m.mirror,
         m.spec = n.spec,
         n = MirrorNetpol(o, a, [svc |-> s, direction |-> d, pods |-> v.pods,
                                 ports |-> v.ports], [svc |-> t, pods |-> w.pods])
  PROVE  IsRuleFor(MirrorKey(a, s, d, t), m, d, s, v, t, w)
<1>1. m.spec = DefineAccessNetworkPolicy(w.pods, v.pods, NsOf[s], v.ports,
                                         MirroredDirection(d))
  BY DEF MirrorNetpol
<1>2. MirroredDirection(d) \in Directions
  BY MirroredType
<1> QED
  BY <1>1, <1>2, DefineOpens, MirrorSwaps DEF IsRuleFor

\* Deployed with what s and t are now, the policy stands, or an event tells of it.
LEMMA DeployedStands ==
  ASSUME TypeInv, PoliciesRequested, PoliciesKnown, ~Fault, obj \in AccessObjects,
         NEW a \in Accesses, NEW s \in Services, NEW t \in Services, NEW d \in Directions,
         NEW mirror \in BOOLEAN, NEW k \in NetpolKeys, k = KeyFor(a, s, t, d, mirror),
         npEvents[k] = {}, services'[s] = services[s], services'[t] = services[t],
         NEW src \in Sources, src = AsSource(s, d),
         NEW p \in Peers, p = [svc |-> t, pods |-> services[t].pods],
         NEW n, n = IF mirror THEN MirrorNetpol(obj, a, src, p) ELSE SourceNetpol(obj, a, src, p),
         DeployResource(k, n)
  PROVE  Standing(k, s, t, d)' \/ a \in npEvents'[k]
<1>1. n \in NetpolObjects /\ n.owner = a
  BY NetpolType DEF SourceNetpol, MirrorNetpol
<1>2. SUFFICES ASSUME netpols[k] # Absent, UNCHANGED netpols,
                      netpols[k].spec = n.spec, netpols[k].owner = a
               PROVE  IsRuleFor(k, netpols[k], d, s, services[s], t, services[t])
  BY <1>1, Deployed DEF Standing
<1>3. netpols[k].mirror = mirror
  <2>1. netpols[k] \in NetpolObjects /\ Requested(svcHist, specHist, k, netpols[k])
    BY <1>2 DEF PoliciesRequested, TypeInv, TypeOK, ClusterTypeOK, NetpolsTypeOK, Maybe
  <2> QED
    BY <2>1, KeyMirrors
<1>4. CASE mirror
  <2>1. k = MirrorKey(a, s, d, t) /\ netpols[k].mirror
    BY <1>3, <1>4 DEF KeyFor
  <2>2. n = MirrorNetpol(obj, a, [svc |-> s, direction |-> d, pods |-> services[s].pods,
                                  ports |-> services[s].ports],
                         [svc |-> t, pods |-> services[t].pods])
    BY <1>4 DEF AsSource
  <2> QED
    BY <1>2, <2>1, <2>2, MirrorIsRule
<1>5. CASE ~mirror
  BY <1>2, <1>3, <1>5, SourceIsRule DEF KeyFor, AsSource
<1> QED
  BY <1>4, <1>5

\* What the worker goes on with when it deploys for a target.
LEMMA TargetsNext ==
  ASSUME TypeInv, PoliciesRequested, PoliciesKnown, ~Fault, SkipTarget \/ DeploySource,
         NEW a \in Accesses, NEW s \in Services, NEW t \in Services, NEW d \in Directions,
         NEW mirror \in BOOLEAN, NEW k \in NetpolKeys, k = KeyFor(a, s, t, d, mirror),
         HasDetails(services[t]), mirror => accesses[a].spec.mirrored,
         Doing(a, s, t, d, mirror),
         accesses'[a] = accesses[a], services'[s] = services[s], services'[t] = services[t],
         svcCache[t] = services[t], npEvents[k] = {}
  PROVE  Doing(a, s, t, d, mirror)' \/ Standing(k, s, t, d)' \/ a \in npEvents'[k]
<1> DEFINE l == [svc |-> s, version |-> services[s]]
<1>1. /\ pc = "targets" /\ req = a /\ req' = a /\ listed' = listed
      /\ obj \in AccessObjects /\ source \in Sources
      /\ obj.spec = accesses[a].spec /\ ~obj.deleting
      /\ l \in listed \/ (t \in targets /\ source = AsSource(s, d))
  BY DEF SkipTarget, DeploySource, Doing, TypeInv, Holding, Idle
<1>2. obj'.spec = obj.spec /\ obj'.deleting = obj.deleting
  BY <1>1, DeployKeeps DEF SkipTarget, DeploySource
<1>3. ASSUME \/ pc' \in {"services", "targets", "mirror"} /\ l \in listed
             \/ /\ pc' \in {"targets", "mirror"} /\ t \in targets'
                /\ source' = AsSource(s, d)
             \/ /\ pc' = "mirror" /\ mirror /\ source' = AsSource(s, d)
                /\ peer' = [svc |-> t, pods |-> services[t].pods]
      PROVE  Doing(a, s, t, d, mirror)'
  BY <1>1, <1>2, <1>3 DEF Doing, AsSource, Idle
<1>4. CASE SkipTarget
  <2>1. PICK x \in targets : ~HasDetails(svcCache[x]) /\ targets' = targets \ {x}
    BY <1>4 DEF SkipTarget
  <2>2. x # t
    BY <2>1
  <2> QED
    BY <1>1, <1>3, <1>4, <2>1, <2>2 DEF SkipTarget, NextTarget
<1>5. CASE DeploySource
  <2>0. PICK x \in targets : \E p :
          /\ p = [svc |-> x, pods |-> svcCache[x].pods] /\ HasDetails(svcCache[x])
          /\ targets' = targets \ {x}
          /\ DeployResource(SourceKey(req, source.svc, source.direction, x),
                            SourceNetpol(obj, req, source, p))
          /\ AfterSource(p)
    BY <1>1, <1>5 DEF DeploySource
  <2>1. PICK p :
          /\ p = [svc |-> x, pods |-> svcCache[x].pods] /\ HasDetails(svcCache[x])
          /\ targets' = targets \ {x}
          /\ DeployResource(SourceKey(req, source.svc, source.direction, x),
                            SourceNetpol(obj, req, source, p))
          /\ AfterSource(p)
    BY <2>0
  <2>2. /\ pc' \in {"services", "targets", "mirror"}
        /\ pc' = "services" <=> ~obj.spec.mirrored /\ targets' = {}
        /\ pc' # "services" => source' = source
        /\ obj.spec.mirrored => pc' = "mirror" /\ peer' = p
    BY <2>1 DEF AfterSource, NextTarget
  <2>3. CASE l \in listed
    BY <1>3, <2>2, <2>3
  <2>4. CASE t \in targets /\ source = AsSource(s, d) /\ x # t
    BY <1>3, <2>1, <2>2, <2>4
  <2>5. CASE source = AsSource(s, d) /\ x = t /\ mirror
    BY <1>1, <1>3, <2>1, <2>2, <2>5
  <2>6. CASE source = AsSource(s, d) /\ x = t /\ ~mirror
    <3>1. p \in Peers /\ p = [svc |-> t, pods |-> services[t].pods]
      BY <2>1, <2>6 DEF HasDetails, Peers, TypeInv, TypeOK, ClusterTypeOK, ServicesTypeOK,
                        Maybe, ServiceVersions
    <3>2. k = SourceKey(req, source.svc, source.direction, x)
      BY <1>1, <2>6 DEF KeyFor, AsSource
    <3> QED
      BY <1>1, <2>1, <2>6, <3>1, <3>2, DeployedStands
  <2> QED
    BY <1>1, <2>3, <2>4, <2>5, <2>6
<1> QED
  BY <1>4, <1>5

\* And when it deploys the mirrored policy.
LEMMA MirrorNext ==
  ASSUME TypeInv, PoliciesRequested, PoliciesKnown, ~Fault, DeployMirror,
         NEW a \in Accesses, NEW s \in Services, NEW t \in Services, NEW d \in Directions,
         NEW mirror \in BOOLEAN, NEW k \in NetpolKeys, k = KeyFor(a, s, t, d, mirror),
         Doing(a, s, t, d, mirror),
         accesses'[a] = accesses[a], services'[s] = services[s], services'[t] = services[t],
         npEvents[k] = {}
  PROVE  Doing(a, s, t, d, mirror)' \/ Standing(k, s, t, d)' \/ a \in npEvents'[k]
<1> DEFINE l == [svc |-> s, version |-> services[s]]
<1>1. /\ pc = "mirror" /\ req = a /\ req' = a /\ listed' = listed /\ targets' = targets
      /\ obj \in AccessObjects /\ source \in Sources /\ peer \in Peers
      /\ obj.spec = accesses[a].spec /\ ~obj.deleting
      /\ \/ l \in listed
         \/ t \in targets /\ source = AsSource(s, d)
         \/ /\ mirror /\ source = AsSource(s, d)
            /\ peer = [svc |-> t, pods |-> services[t].pods]
  BY DEF DeployMirror, Doing, TypeInv, Holding, Idle
<1>2. /\ DeployResource(MirrorKey(req, source.svc, source.direction, peer.svc),
                        MirrorNetpol(obj, req, source, peer))
      /\ NextTarget
  BY <1>1 DEF DeployMirror
<1>3. obj'.spec = obj.spec /\ obj'.deleting = obj.deleting
  BY <1>1, <1>2, DeployKeeps
<1>4. ASSUME \/ pc' \in {"services", "targets"} /\ l \in listed
             \/ pc' = "targets" /\ t \in targets' /\ source' = AsSource(s, d)
      PROVE  Doing(a, s, t, d, mirror)'
  BY <1>1, <1>3, <1>4 DEF Doing, AsSource, Idle
<1>5. CASE l \in listed \/ (t \in targets /\ source = AsSource(s, d))
  BY <1>1, <1>2, <1>4, <1>5 DEF NextTarget
<1>6. CASE mirror /\ source = AsSource(s, d) /\ peer = [svc |-> t, pods |-> services[t].pods]
  <2>1. k = MirrorKey(req, source.svc, source.direction, peer.svc)
    BY <1>1, <1>6 DEF KeyFor, AsSource
  <2> QED
    BY <1>1, <1>2, <1>6, <2>1, DeployedStands
<1> QED
  BY <1>1, <1>5, <1>6

\* A worker that is doing it goes on with it, or leaves the policy in place or an event.
LEMMA DoingNext ==
  ASSUME TypeInv, PoliciesRequested, PoliciesKnown, WorkerStep, ~Fault,
         NEW a \in Accesses, NEW s \in Services, NEW t \in Services, NEW d \in Directions,
         NEW mirror \in BOOLEAN, NEW k \in NetpolKeys, k = KeyFor(a, s, t, d, mirror),
         Wanted(a, s, t, d), mirror => accesses[a].spec.mirrored,
         Doing(a, s, t, d, mirror), pc # "expired",
         accesses'[a] = accesses[a], services'[s] = services[s], services'[t] = services[t],
         svcCache[s] = services[s], svcCache[t] = services[t], npEvents[k] = {}
  PROVE  Doing(a, s, t, d, mirror)' \/ Standing(k, s, t, d)' \/ a \in npEvents'[k]
<1> DEFINE v == services[s]
           l == [svc |-> s, version |-> v]
           sp == accesses[a].spec
<1>1. /\ HasDetails(v) /\ HasDetails(services[t])
      /\ sp.selector # BadSelector /\ v.label \in sp.selector
      /\ t \in TargetsOf(v, sp) /\ ToLower(DirectionOf(v, sp)) = d
      /\ IsValidDirection(DirectionOf(v, sp))
  BY WantedIs
<1>2. pc # Idle /\ req = a /\ obj.spec = sp /\ ~obj.deleting /\ obj \in AccessObjects
  BY DEF Doing, TypeInv, Holding
<1>3. ASSUME req' = req, obj'.spec = obj.spec, obj'.deleting = obj.deleting,
             \/ pc' = "cleanup"
             \/ pc' \in {"services", "targets"} /\ l \in listed'
             \/ pc' = "targets" /\ t \in targets' /\ source' = AsSource(s, d)
      PROVE  Doing(a, s, t, d, mirror)'
  BY <1>2, <1>3 DEF Doing, AsSource, Idle
<1>4. CASE pc \in {"list", "cleanup"}
  <2>1. ListOwned \/ CleanupOne \/ ListServices \/ ListFails
    BY <1>4 DEF WorkerStep, DeleteExpired, SkipService, BeginService, SkipTarget,
                DeploySource, UndeploySource, DeployMirror, UndeployMirror, FinishReconcile
  <2>2. CASE CleanupOne
    <3>1. \/ UNCHANGED obj
          \/ SetCondition(obj, "NetpolsGCReady", "True")
          \/ obj' = WithCond(WithCond(obj, "NetpolsGCNotReady", "False"), "NetpolsGCReady", "True")
      BY <2>2 DEF CleanupOne
    <3>2. obj'.spec = obj.spec /\ obj'.deleting = obj.deleting
      BY <1>2, <3>1, SetConditionKeeps DEF WithCond, AccessObjects
    <3> QED
      BY <1>3, <1>4, <2>2, <3>2 DEF CleanupOne
  <2>3. CASE ListServices
    <3>1. l \in listed'
      BY <1>1, <1>2, <2>3 DEF ListServices, HasDetails
    <3> QED
      BY <1>3, <2>3, <3>1 DEF ListServices
  <2>4. CASE ListFails
    BY <1>1, <1>2, <2>4 DEF ListFails
  <2>5. CASE ListOwned
    BY <1>3, <2>5 DEF ListOwned
  <2> QED
    BY <2>1, <2>2, <2>3, <2>4, <2>5
<1>5. CASE pc = "services"
  <2>1. l \in listed
    BY <1>5 DEF Doing
  <2>2. SkipService \/ BeginService
    BY <1>5, <2>1 DEF WorkerStep, DeleteExpired, ListOwned, CleanupOne, ListServices,
                      ListFails, SkipTarget, DeploySource, UndeploySource, DeployMirror, UndeployMirror,
                      FinishReconcile
  <2>3. IsSource(l)
    BY <1>1, <1>2 DEF IsSource
  <2>4. CASE SkipService
    BY <1>3, <1>5, <2>1, <2>3, <2>4 DEF SkipService
  <2>5. CASE BeginService
    <3>1. PICK m \in listed :
            /\ listed' = listed \ {m}
            /\ targets' = TargetsOf(m.version, obj.spec)
            /\ source' = [svc |-> m.svc, direction |-> ToLower(DirectionOf(m.version, obj.spec)),
                          pods |-> svcCache[m.svc].pods, ports |-> svcCache[m.svc].ports]
      BY <2>5 DEF BeginService
    <3>2. pc' = "targets" /\ req' = req /\ obj' = obj
      BY <2>5 DEF BeginService
    <3>3. CASE m = l
      <4>1. m.svc = s /\ m.version = v
        BY <3>3
      <4>2. t \in targets' /\ source' = AsSource(s, d)
        BY <1>1, <1>2, <3>1, <4>1 DEF AsSource
      <4> QED
        BY <1>3, <3>2, <4>2
    <3>4. CASE m # l
      BY <1>3, <2>1, <3>1, <3>2, <3>4
    <3> QED
      BY <3>3, <3>4
  <2> QED
    BY <2>2, <2>4, <2>5
<1>6. CASE pc = "targets"
  <2>1. SkipTarget \/ DeploySource
    BY <1>6 DEF WorkerStep, DeleteExpired, ListOwned, CleanupOne, ListServices, ListFails,
                SkipService, BeginService, UndeploySource, DeployMirror, UndeployMirror, FinishReconcile
  <2> QED
    BY <1>1, <2>1, TargetsNext
<1>7. CASE pc = "mirror"
  <2>1. DeployMirror
    BY <1>7 DEF WorkerStep, DeleteExpired, ListOwned, CleanupOne, ListServices, ListFails,
                SkipService, BeginService, SkipTarget, DeploySource, UndeploySource, UndeployMirror,
                FinishReconcile
  <2> QED
    BY <2>1, MirrorNext
<1> QED
  BY <1>4, <1>5, <1>6, <1>7 DEF Doing

\* Access that is asked for stays attended to.
LEMMA CoverageNext ==
  ASSUME TellsApart(NameOf), TypeInv, TypeInv', CachesCurrent, PoliciesRequested,
         PoliciesKnown, NetpolsNamed, NetpolsNamed', EventsNamed, CoverageAttended, [Next]_vars
  PROVE  CoverageAttended'
<1> SUFFICES ASSUME faults' = 0,
                    NEW a \in Accesses, NEW s \in Services, NEW t \in Services,
                    NEW d \in Directions, NEW mirror \in BOOLEAN,
                    NEW k \in NetpolKeys, k = KeyFor(a, s, t, d, mirror),
                    Wanted(a, s, t, d)', (mirror => accesses[a].spec.mirrored)',
                    ~Awaited(a, s, k)', ~Awaited(a, t, k)', ~Standing(k, s, t, d)'
             PROVE  Doing(a, s, t, d, mirror)'
  <2> SUFFICES ASSUME faults' = 0, NEW a \in Accesses, NEW s \in Services,
                      NEW t \in Services, NEW d \in Directions, NEW mirror \in BOOLEAN,
                      Wanted(a, s, t, d)', (mirror => accesses[a].spec.mirrored)'
               PROVE  Attended(a, s, t, d, mirror)'
    BY DEF CoverageAttended
  <2>1. PICK k \in NetpolKeys : k = KeyFor(a, s, t, d, mirror)
    BY KeyType DEF KeyFor
  <2> QED
    BY <2>1 DEF Attended
<1>1. /\ a \notin queue' /\ a \notin accEvents' /\ a \notin npEvents'[k]
      /\ s \notin svcEvents' /\ t \notin svcEvents'
  BY DEF Awaited
<1>2. accesses'[a] # Absent /\ NamedFor(k, a, s)
  BY KeysNamed DEF Wanted, Living, KeyFor
<1>3. /\ accesses'[a] = accesses[a] /\ accCache[a] = accesses[a]
      /\ services'[s] = services[s] /\ svcCache[s] = services[s]
      /\ services'[t] = services[t] /\ svcCache[t] = services[t]
      /\ npEvents[k] = {} /\ netpols[k] = netpols'[k]
      /\ a \in queue => Reconcile(a)
      /\ a \notin queue => ~Awaited(a, s, k) /\ ~Awaited(a, t, k)
  BY <1>1, <1>2, NothingNew
<1>4. faults = 0 /\ ~Fault
  BY FaultsStay
<1>5. Wanted(a, s, t, d) /\ Living(a) /\ (mirror => accesses[a].spec.mirrored)
  BY <1>3 DEF Wanted, Living
<1>6. ~Standing(k, s, t, d)
  BY <1>3 DEF Standing
<1>7. CASE a \in queue
  <2>1. ReconcileStart(a)
    BY <1>3, <1>5, <1>7 DEF Reconcile, ReconcileGone, Living
  <2>2. obj' = Dated(accesses[a]) /\ accesses[a] \in AccessObjects
    BY <1>3, <1>5, <2>1, MaybeIn
       DEF ReconcileStart, Living, TypeInv, TypeOK, ClusterTypeOK, AccessesTypeOK
  <2>3. obj'.spec = accesses[a].spec /\ ~obj'.deleting
    BY <1>5, <2>2, DatedKeeps DEF Living
  <2> QED
    BY <1>3, <2>1, <2>3 DEF ReconcileStart, Doing, Idle
<1>8. CASE a \notin queue
  <2>1. Doing(a, s, t, d, mirror) /\ pc # Idle /\ req = a
    BY <1>3, <1>4, <1>5, <1>6, <1>8 DEF CoverageAttended, Attended, Doing
  <2>2. CASE UNCHANGED ctlVars
    BY <1>3, <2>1, <2>2 DEF ctlVars, jobVars, Doing, AsSource
  <2>3. CASE Restart
    BY <1>1, <1>2, <1>3, <2>3, RestartQueues
  <2>4. CASE WorkerStep /\ pc = "expired"
    BY <1>2, <1>4, <1>5, <2>1, <2>4, ExpiredDeleted
  <2>5. CASE WorkerStep /\ pc # "expired"
    BY <1>1, <1>3, <1>4, <1>5, <2>1, <2>5, DoingNext
  <2> QED
    BY <2>1, <2>2, <2>3, <2>4, <2>5, RunningNext
<1> QED
  BY <1>7, <1>8

\* Where the names of policies tell ClusterAccesses and sources apart, no change of a
\* service, a ClusterAccess or a policy is lost between the caches, the queue and the
\* reconcile that runs: when nothing is left to do and no write failed, every access
\* asked for is in place on both sides, with the pods and ports the services have now.
THEOREM ClusterAccessCovered == TellsApart(NameOf) => (Spec => []CoveredWhenQuiet)
<1> SUFFICES ASSUME TellsApart(NameOf)
             PROVE  Spec => []CoveredWhenQuiet
  OBVIOUS
<1> DEFINE Inv == QuietBase /\ Provenance /\ EventsNamed /\ CoverageAttended
<1>1. Init => Inv
  <2>1. Init => EventsNamed
    BY DEF Init, ClusterInit, EventsNamed
  <2>2. Init => CoverageAttended
    <3> SUFFICES ASSUME Init, NEW a \in Accesses, accesses[a] # Absent
                 PROVE  a \in queue
      BY DEF CoverageAttended, Attended, Awaited, Wanted, Living
    <3> QED
      BY DEF Init, ClusterInit
  <2> QED
    BY <2>1, <2>2, InitBase, InitProvenance
<1>2. Inv /\ [Next]_vars => Inv'
  <2> SUFFICES ASSUME Inv, [Next]_vars
               PROVE  Inv'
    OBVIOUS
  <2>1. QuietBase' /\ TypeInv /\ TypeInv' /\ CachesCurrent /\ PoliciesKnown /\ PoliciesNoted
    BY BaseNext, NextNotes DEF QuietBase
  <2>2. Seen' /\ Grows
    BY <2>1, NextMoves, MovesSeen, MovesGrow DEF Provenance
  <2>3. HeldSeen' /\ HeldAsked' /\ PoliciesRequested'
    BY <2>1, <2>2, HeldNext, PoliciesNext DEF Provenance
  <2>4. NetpolsNamed /\ NetpolsNamed'
    BY <2>1, <2>3, RequestedAreNamed DEF Provenance
  <2>5. EventsNamed'
    BY <2>1, <2>4, EventsStayNamed
  <2>6. CoverageAttended'
    BY <2>1, <2>4, CoverageNext DEF Provenance
  <2> QED
    BY <2>1, <2>2, <2>3, <2>5, <2>6 DEF Provenance
<1>3. Inv => CoveredWhenQuiet
  <2> SUFFICES ASSUME Inv, Quiet, faults = 0, NEW a \in Accesses, NEW s \in Services,
                      NEW t \in Services, NEW d \in Directions, Wanted(a, s, t, d)
               PROVE  InPlace(a, s, t, d)
    BY DEF CoveredWhenQuiet, Covered
  <2>1. ASSUME NEW mirror \in BOOLEAN, mirror => accesses[a].spec.mirrored
        PROVE  Standing(KeyFor(a, s, t, d, mirror), s, t, d)
    <3>1. KeyFor(a, s, t, d, mirror) \in NetpolKeys
      BY KeyType DEF KeyFor
    <3>2. Attended(a, s, t, d, mirror)
      BY <2>1 DEF CoverageAttended
    <3> QED
      BY <3>1, <3>2 DEF Attended, Quiet, Settled, Awaited, Doing
  <2>2. Standing(SourceKey(a, s, d, t), s, t, d)
    BY <2>1 DEF KeyFor
  <2>3. accesses[a].spec.mirrored => Standing(MirrorKey(a, s, d, t), s, t, d)
    BY <2>1 DEF KeyFor
  <2> QED
    BY <2>2, <2>3 DEF InPlace, Standing
<1> HIDE DEF Inv
<1> QED
  BY <1>1, <1>2, <1>3, PTL DEF Spec
=============================================================================
