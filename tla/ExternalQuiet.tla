----------------------------- MODULE ExternalQuiet -----------------------------
(***************************************************************************)
(* What the ExternalAccess and ClusterExternalAccess controllers have done *)
(* when they have nothing left to do.                                      *)
(*                                                                         *)
(* Nothing is forgotten, though two workers read the same caches: whatever *)
(* is not yet as the users want it, be it a policy whose service is gone   *)
(* or a CIDR that is not open, is the work of the reconcile that the       *)
(* worker of its kind is running, or there is an event or a request that   *)
(* will bring the object before that worker again.                         *)
(***************************************************************************)
EXTENDS ExternalProofs

\* A worker leaves a policy or writes it, with an event.
LEMMA WorkerNotes ==
  ASSUME TypeInv, NEW w \in Kinds, WorkerStep(w)
  PROVE  PoliciesNoted /\ \A k \in NetpolKeys : npEvents[k] \subseteq npEvents'[k]
<1>1. CASE UNCHANGED npVars
  BY <1>1, PoliciesStay DEF npVars
<1>2. ASSUME NEW k \in NetpolKeys, PolicyStep(w, k)
      PROVE  PoliciesNoted /\ \A i \in NetpolKeys : npEvents[i] \subseteq npEvents'[i]
  <2>1. \A n : Stored(w, k, n) => n # Absent
    BY StoredType, MarkerAssumption
  <2>2. PICK n : WriteNetpol(k, n) /\ (n # Absent \/ netpols[k] # Absent)
    BY <1>2, <2>1 DEF PolicyStep, Swept, Undone, Stored
  <2> QED
    BY <2>2, NetpolWritten DEF TypeInv, ClusterTypeOK
<1> QED
  BY <1>1, <1>2, WorkerChange DEF WorkerChanges

\* So does every step.
LEMMA NextNotes ==
  ASSUME TypeInv, [Next]_vars
  PROVE  PoliciesNoted
<1>1. CASE UserStep \/ PlatformStep \/ Restart
  BY <1>1, ClusterPolicies DEF ClusterStep, Restart, TypeInv
<1>2. CASE (\E a \in Accesses : Reconcile(a)) \/ UNCHANGED vars
  BY <1>2, PoliciesStay DEF Reconcile, ReconcileGone, ReconcileStart, vars, clusterVars
<1> QED
  BY <1>1, <1>2, WorkerNotes DEF Next

\* Every step gives notice of what it changes, and only a reconcile takes a request.
LEMMA NextNotices ==
  ASSUME TypeInv, [Next]_vars, NEW a \in Accesses, accesses'[a] # Absent
  PROVE  Noticed(a) /\ (a \in queue => a \in queue' \/ Reconcile(a))
<1>0. ClusterTypeOK
  BY DEF TypeInv
<1>1. ASSUME UNCHANGED <<svcVars, accesses, accCache, accEvents>>,
             \A k \in NetpolKeys : npEvents[k] \subseteq npEvents'[k]
      PROVE  Noticed(a)
  BY <1>1 DEF svcVars, Noticed
<1>2. CASE UserStep \/ PlatformStep \/ Restart
  BY <1>0, <1>2, ClusterNotices DEF ClusterStep, Restart
<1>3. CASE (\E b \in Accesses : Reconcile(b)) \/ UNCHANGED vars
  <2>1. UNCHANGED <<svcVars, accesses, accCache, accEvents, npVars>>
    BY <1>3 DEF Reconcile, ReconcileGone, ReconcileStart, vars, clusterVars, accVars
  <2>2. ASSUME NEW b \in Accesses, Reconcile(b)
        PROVE  queue' = queue \ {b}
    BY <2>2 DEF Reconcile, ReconcileGone, ReconcileStart
  <2>3. a \in queue => a \in queue' \/ Reconcile(a)
    BY <1>3, <2>2 DEF vars, clusterVars, wakeVars
  <2> QED
    BY <1>1, <2>1, <2>3 DEF npVars
<1>4. ASSUME NEW w \in Kinds, WorkerStep(w)
      PROVE  Noticed(a) /\ (a \in queue => a \in queue' \/ Reconcile(a))
  <2>0. WorkerChanges(w)
    BY <1>4, WorkerChange
  <2>1. UNCHANGED svcVars /\ queue \subseteq queue'
    BY <2>0 DEF WorkerChanges
  <2>2. CASE UNCHANGED accVars
    BY <1>1, <1>4, <2>1, <2>2, WorkerNotes DEF accVars
  <2>3. CASE UNCHANGED npVars /\ ObjectStep(w)
    <3>1. PICK b, o : WriteAccess(b, o)
      BY <2>3 DEF ObjectStep
    <3>2. /\ accesses'[a] = accesses[a] \/ a = b
          /\ accEvents' = accEvents \cup {b}
      BY <1>0, <3>1 DEF WriteAccess, ClusterTypeOK, AccessesTypeOK
    <3> QED
      BY <2>1, <2>3, <3>1, <3>2 DEF svcVars, npVars, Noticed
  <2> QED
    BY <2>0, <2>2, <2>3 DEF WorkerChanges
<1> QED
  BY <1>2, <1>3, <1>4 DEF Next

\* Faults are not forgotten.
LEMMA FaultsStay ==
  ASSUME TypeInv, [Next]_vars, faults' = 0
  PROVE  faults = 0 /\ ~Fault
<1>1. faults \in Nat
  BY DEF TypeInv, ClusterTypeOK, BoundsTypeOK
<1>2. \/ UNCHANGED faults \/ Fault
      \/ \E m : Edit(m)
  <2>1. CASE UserStep \/ PlatformStep \/ Restart \/ UNCHANGED vars
    BY <2>1 DEF UserStep, PlatformStep, PutService, DeleteService, CreateAccess, EditAccess,
         DeleteAccess, DeleteNetpol, CollectNetpol, DeliverNetpol, DeliverService,
         CollectAccess, DeliverAccess, TimerFires, Resync, Tick, Restart, ClusterRestart,
         bounds, clusterVars, vars
  <2>2. CASE \E a \in Accesses : Reconcile(a)
    BY <2>2 DEF Reconcile, ReconcileGone, ReconcileStart, bounds
  <2>3. CASE \E w \in Kinds : WorkerStep(w)
    BY <2>3, WorkerChange DEF WorkerChanges, NoFault, bounds
  <2> QED
    BY <2>1, <2>2, <2>3 DEF Next
<1> QED
  BY <1>1, <1>2 DEF Fault, Edit

\* A reconcile that runs is gone on with, interrupted or done, whatever the other
\* worker does.
LEMMA RunningNext ==
  ASSUME TypeInv, [Next]_vars, NEW w \in Kinds, job[w].pc # Idle
  PROVE  job'[w] = job[w] \/ WorkerStep(w) \/ Restart
<1>1. ASSUME NEW a \in Accesses, ReconcileStart(a)
      PROVE  job'[w] = job[w]
  <2>1. KindOf[a] # w
    BY <1>1 DEF ReconcileStart
  <2>2. PICK j : Become(KindOf[a], j)
    BY <1>1, StartProceeds DEF Begun
  <2> QED
    BY <2>1, <2>2 DEF Become, TypeInv, JobsHeld
<1>2. ASSUME NEW v \in Kinds, WorkerStep(v), v # w
      PROVE  job'[w] = job[w]
  <2>1. PICK j : Become(v, j)
    BY <1>2, WorkerProceeds DEF Proceeds
  <2> QED
    BY <1>2, <2>1 DEF Become, TypeInv, JobsHeld
<1> QED
  BY <1>1, <1>2 DEF Next, Reconcile, ReconcileGone, vars, ctlVars

\* A restarted manager queues every object.
LEMMA RestartQueues ==
  ASSUME Restart, NEW a \in Accesses, accesses[a] # Absent
  PROVE  a \in queue'
BY DEF Restart, ClusterRestart

\* While no write fails, an object found expired is deleted.
LEMMA ExpiredDeleted ==
  ASSUME TypeInv, NEW a \in Accesses, NEW w \in Kinds, job[w].pc = "expired",
         job[w].req = a, WorkerStep(w), ~Fault, Living(a)
  PROVE  accesses'[a] = Absent
<1>1. DeleteExpired(w)
  BY DEF WorkerStep, ListOwned, CleanupOne, ListServices, ListFails, SkipService, BeginService,
         Deploy, Undeploy, FinishReconcile
<1> QED
  BY <1>1 DEF DeleteExpired, Living, WriteAccess, TypeInv, ClusterTypeOK, AccessesTypeOK

-----------------------------------------------------------------------------
(* Policies whose service is gone *)

\* The policy under k is one of the living object a, for a service that is gone.
Orphaned(a, k) ==
  /\ Living(a) /\ netpols[k] # Absent /\ netpols[k].owner = a
  /\ services[netpols[k].svc] = Absent

\* a's worker is about to delete a or to list its policies, or still has the policy on
\* its list.
Sweeping(a, k) ==
  LET j == job[KindOf[a]]
  IN /\ j.pc # Idle /\ j.req = a
     /\ \/ j.pc \in {"expired", "list"}
        \/ j.pc = "cleanup" /\ [key |-> k, svc |-> netpols[k].svc] \in j.owned

OrphansAttended ==
  faults = 0 =>
    \A a \in Accesses, k \in NetpolKeys :
      Orphaned(a, k) => Awaited(a, netpols[k].svc, k) \/ Sweeping(a, k)

\* The worker begins with the copy from the cache.
LEMMA StartHolds ==
  ASSUME TypeInv, NEW a \in Accesses, ReconcileStart(a), NEW j, j = job'[KindOf[a]]
  PROVE  j.pc \in {"expired", "list"} /\ j.req = a /\ j.obj = Dated(accCache[a])
<1>1. KindOf[a] \in Kinds
  BY ExternalAssumption
<1>2. PICK o : o = Dated(accCache[a])
  OBVIOUS
<1>3. PICK n : n = [NoJob EXCEPT !.req = a, !.obj = o]
  OBVIOUS
<1>4. n.req = a /\ n.obj = o
  BY <1>3 DEF NoJob
<1>5. j = [n EXCEPT !.pc = "expired"] \/ j = [n EXCEPT !.pc = "list"]
  BY <1>1, <1>2, <1>3 DEF ReconcileStart, Become, TypeInv, JobsHeld
<1> QED
  BY <1>2, <1>3, <1>4, <1>5 DEF NoJob

\* Then it lists every policy labelled with the object's name.
LEMMA OwnedListed ==
  ASSUME TypeInv, NEW w \in Kinds, ListOwned(w), NEW i, i = job[w], NEW j, j = job'[w]
  PROVE  /\ j \in Jobs /\ j.pc = "cleanup" /\ j.req = i.req /\ j.obj = i.obj
         /\ j.listed = i.listed /\ j.targets = i.targets
         /\ j.matched = i.matched /\ j.deployed = i.deployed
         /\ \A k \in NetpolKeys : npCache[k] # Absent =>
              \A l \in LabelsFor(i.req, npCache[k]) : [key |-> k, svc |-> l.svc] \in j.owned
         /\ Owns(i, j)
<1> DEFINE list == UNION {{[key |-> k, svc |-> l.svc] : l \in LabelsFor(i.req, npCache[k])} :
                            k \in {x \in NetpolKeys : npCache[x] # Absent}}
<1>1. i \in Jobs /\ i.pc = "list"
  BY DEF TypeInv, JobsHeld, ListOwned
<1>2. \A k \in NetpolKeys : npCache[k] # Absent =>
        \A l \in LabelsFor(i.req, npCache[k]) : [key |-> k, svc |-> l.svc] \in list
  OBVIOUS
<1>3. PICK L : L = list
  OBVIOUS
<1>4. j = [i EXCEPT !.pc = "cleanup", !.owned = L]
  BY <1>3 DEF ListOwned, Become, TypeInv, JobsHeld
<1> HIDE DEF list
<1>5. /\ j.pc = "cleanup" /\ j.req = i.req /\ j.obj = i.obj /\ j.owned = L
      /\ j.listed = i.listed /\ j.targets = i.targets
      /\ j.matched = i.matched /\ j.deployed = i.deployed
  BY <1>1, <1>4 DEF Jobs
<1>6. PICK m : Become(w, m) /\ Holds(w, m) /\ (m = NoJob \/ Works(w, i, m))
  BY WorkerProceeds DEF Proceeds, WorkerStep
<1>7. m = j
  BY <1>6 DEF Become, TypeInv, JobsHeld
<1>8. Works(w, i, j) /\ j \in Jobs
  BY <1>5, <1>6, <1>7 DEF NoJob, Idle, Holds
<1>9. Owns(i, j)
  BY <1>1, <1>5, <1>8 DEF Works, Sweeps, Lists, Enters, Handles
<1> QED
  BY <1>2, <1>3, <1>5, <1>8, <1>9

\* A step of the cleanup takes one policy off the list, and deletes it if its service
\* is not in the cache.
LEMMA CleanupTakes ==
  ASSUME TypeInv, NEW w \in Kinds, CleanupOne(w), ~Fault
  PROVE  \E o \in job[w].owned :
           /\ job'[w].pc = "cleanup" /\ job'[w].owned = job[w].owned \ {o}
           /\ IsOrphan(o) /\ netpols[o.key] # Absent => WriteNetpol(o.key, Absent)
<1> DEFINE i == job[w]
<1>1. i \in Jobs /\ i.pc = "cleanup"
  BY DEF CleanupOne, TypeInv, JobsHeld
<1>2. PICK o \in i.owned : \E p :
        /\ Advance(w, [i EXCEPT !.owned = @ \ {o}, !.obj = p])
        /\ IsOrphan(o) /\ netpols[o.key] # Absent => WriteNetpol(o.key, Absent)
  <2>1. PICK o \in i.owned :
          LET j       == [i EXCEPT !.owned = @ \ {o}]
              cleaned == [j EXCEPT !.obj = WithCond(@, "NetpolsGCReady", "True")]
              failed  == [j EXCEPT !.obj = WithCond(WithCond(@, "NetpolsGCNotReady", "False"),
                                                    "NetpolsGCReady", "True")]
          IN \/ ~IsOrphan(o) /\ Advance(w, j)
             \/ WriteNetpol(o.key, Absent) /\ Advance(w, cleaned)
             \/ netpols[o.key] = Absent /\ Advance(w, failed)
    BY DEF CleanupOne
  <2>2. PICK p \in {i.obj, WithCond(i.obj, "NetpolsGCReady", "True"),
                    WithCond(WithCond(i.obj, "NetpolsGCNotReady", "False"),
                             "NetpolsGCReady", "True")} :
          Advance(w, [i EXCEPT !.owned = @ \ {o}, !.obj = p])
    BY <1>1, <2>1 DEF Jobs
  <2> QED
    BY <2>1, <2>2
<1>3. PICK p : Advance(w, [i EXCEPT !.owned = @ \ {o}, !.obj = p])
  BY <1>2
<1>4. PICK j : j = [i EXCEPT !.owned = @ \ {o}, !.obj = p]
  OBVIOUS
<1>5. j.pc = "cleanup" /\ j.owned = i.owned \ {o}
  BY <1>1, <1>4 DEF Jobs
<1>6. job'[w] = j
  BY <1>3, <1>4 DEF Advance, Become, TypeInv, JobsHeld
<1> QED
  BY <1>2, <1>5, <1>6

\* Orphans stay attended.
LEMMA OrphansNext ==
  ASSUME TypeInv, TypeInv', CachesCurrent, PoliciesKnown, OrphansAttended, [Next]_vars
  PROVE  OrphansAttended'
<1> SUFFICES ASSUME faults' = 0, NEW a \in Accesses, NEW k \in NetpolKeys, Orphaned(a, k)',
                    ~Awaited(a, netpols[k].svc, k)'
             PROVE  Sweeping(a, k)'
  BY DEF OrphansAttended
<1>0. PICK w \in Kinds : w = KindOf[a]
  BY ExternalAssumption
<1>1. faults = 0 /\ ~Fault
  BY FaultsStay
<1>2. accesses'[a] # Absent /\ ~accesses'[a].deleting /\ netpols'[k] # Absent
      /\ netpols'[k].owner = a /\ services'[netpols'[k].svc] = Absent
  BY DEF Orphaned, Living
<1>3. PICK s \in Services : s = netpols'[k].svc
  BY <1>2 DEF TypeInv, ClusterTypeOK, NetpolsTypeOK, Maybe, NetpolObjects
<1>4. PoliciesNoted /\ Noticed(a) /\ (a \in queue => a \in queue' \/ Reconcile(a))
  BY <1>2, NextNotes, NextNotices
<1>5. a \notin queue' /\ a \notin accEvents' /\ a \notin npEvents'[k] /\ s \notin svcEvents'
  BY <1>3 DEF Awaited
<1>6. /\ accesses'[a] = accesses[a] /\ services'[s] = services[s]
      /\ netpols'[k] = netpols[k]
      /\ Awaited(a, s, k) => a \in queue
  BY <1>2, <1>3, <1>4, <1>5, AwaitedStays DEF OwnerIn, Awaited
<1>7. Living(a) /\ netpols[k] # Absent /\ netpols[k].svc = s /\ netpols[k].owner = a
      /\ services[s] = Absent
  BY <1>2, <1>3, <1>6 DEF Living
<1>8. a \in queue \/ Sweeping(a, k)
  BY <1>1, <1>6, <1>7 DEF OrphansAttended, Orphaned
<1>9. CASE a \in queue
  <2>1. Reconcile(a)
    BY <1>4, <1>5, <1>9
  <2>2. UNCHANGED <<accCache, accEvents, accesses>>
    BY <2>1 DEF Reconcile, ReconcileGone, ReconcileStart, accVars
  <2>3. accCache[a] = accesses[a]
    BY <1>5, <2>2 DEF CachesCurrent
  <2>4. ReconcileStart(a)
    BY <1>7, <2>1, <2>3 DEF Reconcile, ReconcileGone, Living
  <2> QED
    BY <1>0, <2>4, StartHolds DEF Sweeping, Idle
<1>10. CASE Sweeping(a, k)
  <2>1. /\ job[w].pc # Idle /\ job[w].req = a
        /\ \/ job[w].pc \in {"expired", "list"}
           \/ job[w].pc = "cleanup" /\ [key |-> k, svc |-> s] \in job[w].owned
    BY <1>0, <1>7, <1>10 DEF Sweeping
  <2>2. CASE job'[w] = job[w]
    BY <1>0, <1>3, <2>1, <2>2 DEF Sweeping
  <2>3. CASE Restart
    BY <1>5, <1>7, <2>3, RestartQueues DEF Living
  <2>4. CASE WorkerStep(w) /\ job[w].pc = "expired"
    BY <1>1, <1>2, <1>7, <2>1, <2>4, ExpiredDeleted
  <2>5. CASE WorkerStep(w) /\ job[w].pc = "list"
    <3>1. ListOwned(w)
      BY <2>5 DEF WorkerStep, DeleteExpired, CleanupOne, ListServices, ListFails, SkipService,
             BeginService, Deploy, Undeploy, FinishReconcile
    <3>2. npCache[k] = netpols[k]
      BY <1>5, <1>7, <3>1 DEF ListOwned, clusterVars, npVars, PoliciesKnown
    <3>3. PICK l \in LabelsFor(a, npCache[k]) : l.svc = s
      <4>1. PICK l : l = [owner |-> a, svc |-> s]
        OBVIOUS
      <4>2. l \in LabelsOf(npCache[k]) /\ l.owner = a /\ l.svc = s
        BY <1>7, <3>2, <4>1 DEF LabelsOf
      <4> QED
        BY <4>2 DEF LabelsFor
    <3>4. [key |-> k, svc |-> s] \in job'[w].owned /\ job'[w].pc = "cleanup" /\ job'[w].req = a
      BY <1>7, <2>1, <3>1, <3>2, <3>3, OwnedListed
    <3> QED
      BY <1>0, <1>3, <3>4 DEF Sweeping, Idle
  <2>6. CASE WorkerStep(w) /\ job[w].pc = "cleanup"
    <3>1. [key |-> k, svc |-> s] \in job[w].owned
      BY <2>1, <2>6
    <3>2. CleanupOne(w)
      BY <2>6, <3>1
         DEF WorkerStep, DeleteExpired, ListOwned, ListServices, ListFails, SkipService,
             BeginService, Deploy, Undeploy, FinishReconcile
    <3>3. PICK o \in job[w].owned :
            /\ job'[w].pc = "cleanup" /\ job'[w].owned = job[w].owned \ {o}
            /\ IsOrphan(o) /\ netpols[o.key] # Absent => WriteNetpol(o.key, Absent)
      BY <1>1, <3>2, CleanupTakes
    <3>4. o # [key |-> k, svc |-> s]
      <4> SUFFICES ASSUME o = [key |-> k, svc |-> s]
                   PROVE  FALSE
        OBVIOUS
      <4>1. o.key = k /\ o.svc = s
        OBVIOUS
      <4>2. s \notin svcEvents
        BY <1>5, <3>2 DEF CleanupOne, svcVars
      <4>3. IsOrphan(o)
        BY <1>7, <4>1, <4>2 DEF IsOrphan, CachesCurrent
      <4>4. WriteNetpol(k, Absent)
        BY <1>7, <3>3, <4>1, <4>3
      <4> QED
        BY <1>2, <4>4 DEF WriteNetpol, TypeInv, ClusterTypeOK, NetpolsTypeOK
    <3>5. job'[w].req = a
      <4>1. PICK j : Become(w, j) /\ (j = NoJob \/ Works(w, job[w], j))
        BY <2>6, WorkerProceeds DEF Proceeds
      <4>2. job'[w] = j
        BY <4>1 DEF Become, TypeInv, JobsHeld
      <4>3. j # NoJob
        BY <3>3, <4>2 DEF NoJob, Idle
      <4> QED
        BY <2>1, <4>1, <4>2, <4>3 DEF Works, SameCopy
    <3> QED
      BY <1>0, <1>3, <3>1, <3>3, <3>4, <3>5 DEF Sweeping, Idle
  <2> QED
    BY <2>1, <2>2, <2>3, <2>4, <2>5, <2>6, RunningNext
<1> QED
  BY <1>8, <1>9, <1>10

\* What the theorems of this module rest on.
QuietBase == TypeInv /\ CachesCurrent /\ PoliciesKnown

\* It holds in the first states.
LEMMA InitBase == Init => QuietBase
BY InitType, InitHistory, InitKnown DEF Init, QuietBase

\* And after every step.
LEMMA BaseNext ==
  ASSUME QuietBase, [Next]_vars
  PROVE  QuietBase'
<1>1. TypeInv' /\ ClusterMoves
  BY NextType, NextMoves DEF QuietBase
<1>2. CachesCurrent'
  BY <1>1, MovesCurrent DEF QuietBase, TypeInv
<1>3. PoliciesKnown'
  BY NextNotes, PoliciesStayKnown DEF QuietBase
<1> QED
  BY <1>1, <1>2, <1>3 DEF QuietBase

\* No policy of a living object of either kind stays behind for a service that is
\* gone: when the events are delivered, the queue is empty, both workers rest and no
\* write failed, there is none, whatever the names of the policies, whichever kind
\* wrote one last, and whatever restarts there were.
THEOREM NoOrphanOfEither == Spec => []NoOrphanWhenQuiet
<1> DEFINE Inv == QuietBase /\ OrphansAttended
<1>1. Init => Inv
  BY InitBase DEF Init, ClusterInit, OrphansAttended, Orphaned
<1>2. Inv /\ [Next]_vars => Inv'
  BY BaseNext, OrphansNext DEF QuietBase
<1>3. Inv => NoOrphanWhenQuiet
  <2> SUFFICES ASSUME Inv, Quiet, faults = 0, NEW k \in NetpolKeys, netpols[k] # Absent,
                      Living(netpols[k].owner), services[netpols[k].svc] = Absent
               PROVE  FALSE
    BY DEF NoOrphanWhenQuiet
  <2>1. netpols[k].owner \in Accesses
    BY DEF QuietBase, TypeInv, ClusterTypeOK, NetpolsTypeOK, Maybe, NetpolObjects
  <2>2. Orphaned(netpols[k].owner, k)
    BY DEF Orphaned
  <2>3. Awaited(netpols[k].owner, netpols[k].svc, k) \/ Sweeping(netpols[k].owner, k)
    BY <2>1, <2>2 DEF OrphansAttended
  <2>4. KindOf[netpols[k].owner] \in Kinds
    BY <2>1, ExternalAssumption
  <2> QED
    BY <2>3, <2>4 DEF Quiet, Settled, Awaited, Sweeping
<1> HIDE DEF Inv
<1> QED
  BY <1>1, <1>2, <1>3, PTL DEF Spec

-----------------------------------------------------------------------------
(* CIDRs that are asked for *)

\* Events about a policy name an object its key is for.
EventsNamed ==
  \A k \in NetpolKeys : \A b \in npEvents[k] : \E s \in Services : NamedFor(k, b, s)

AsSource(s, d) ==
  [svc |-> s, direction |-> d, pods |-> services[s].pods, ports |-> services[s].ports]

\* a's worker is about to delete a, or goes on with the spec that a has now and has
\* yet to list s as it is, to begin with it or to deploy the policy of c.
Doing(a, s, d, c) ==
  LET j == job[KindOf[a]]
  IN /\ j.pc # Idle /\ j.req = a
     /\ \/ j.pc = "expired"
        \/ /\ j.obj.spec = accesses[a].spec /\ ~j.obj.deleting
           /\ \/ j.pc \in {"list", "cleanup"}
              \/ /\ j.pc \in {"services", "targets"}
                 /\ [svc |-> s, version |-> Read(KindOf[a], services[s])] \in j.listed
              \/ j.pc = "targets" /\ c \in j.targets /\ j.source = AsSource(s, d)

CoverageAttended ==
  faults = 0 =>
    \A a \in Accesses, s \in Services, d \in Directions, c \in Targets :
      Wanted(a, s, d, c) =>
        InPlace(a, s, d, c) \/ Doing(a, s, d, c) \/ Awaited(a, s, PolicyKey(a, s, d, c))

\* A policy's key is one.
LEMMA KeyType ==
  ASSUME NEW a \in Accesses, NEW s \in Services, NEW d, NEW c \in Targets
  PROVE  PolicyKey(a, s, d, c) \in NetpolKeys
<1>1. [access |-> a, self |-> s, peer |-> c,
       suffix |-> DirectionSuffix(d), mirror |-> FALSE] \in NameParts
  BY SuffixType DEF NameParts
<1>2. NsOf[s] \in Namespaces /\ NameOf \in [NameParts -> NetpolNames]
  BY ClusterAssumption
<1> QED
  BY <1>1, <1>2 DEF PolicyKey, NetpolKeys

\* Stored policies are named for their owners.
LEMMA OwnersNamed ==
  /\ LabelsNamed => \A k \in NetpolKeys :
       netpols[k] # Absent => NamedFor(k, netpols[k].owner, netpols[k].svc)
  /\ LabelsNamed' => \A k \in NetpolKeys :
       netpols'[k] # Absent => NamedFor(k, netpols'[k].owner, netpols'[k].svc)
<1>1. ASSUME NEW k, NEW n, \A l \in LabelsOf(n) : NamedFor(k, l.owner, l.svc)
      PROVE  NamedFor(k, n.owner, n.svc)
  <2>1. PICK l : l = [owner |-> n.owner, svc |-> n.svc]
    OBVIOUS
  <2>2. l \in LabelsOf(n) /\ l.owner = n.owner /\ l.svc = n.svc
    BY <2>1 DEF LabelsOf
  <2> QED
    BY <1>1, <2>2
<1>2. LabelsNamed => \A k \in NetpolKeys :
        netpols[k] # Absent => NamedFor(k, netpols[k].owner, netpols[k].svc)
  BY <1>1 DEF LabelsNamed
<1>3. LabelsNamed' => \A k \in NetpolKeys :
        netpols'[k] # Absent => NamedFor(k, netpols'[k].owner, netpols'[k].svc)
  BY <1>1 DEF LabelsNamed
<1> QED
  BY <1>2, <1>3

\* A step writes an event for the owners of a policy only.
LEMMA EventsStayNamed ==
  ASSUME TypeInv, TypeInv', LabelsNamed, LabelsNamed', EventsNamed, PoliciesNoted
  PROVE  EventsNamed'
<1> SUFFICES ASSUME NEW k \in NetpolKeys, NEW b \in npEvents'[k]
             PROVE  \E s \in Services : NamedFor(k, b, s)
  BY DEF EventsNamed, NamedFor
<1>1. /\ netpols[k] # Absent => netpols[k].svc \in Services
      /\ netpols'[k] # Absent => netpols'[k].svc \in Services
  BY DEF TypeInv, ClusterTypeOK, NetpolsTypeOK, Maybe, NetpolObjects
<1>2. /\ netpols[k] # Absent => NamedFor(k, netpols[k].owner, netpols[k].svc)
      /\ netpols'[k] # Absent => NamedFor(k, netpols'[k].owner, netpols'[k].svc)
  BY OwnersNamed
<1> QED
  BY <1>1, <1>2 DEF EventsNamed, PoliciesNoted, OwnerIn

\* A step that leaves nothing awaiting a, for s or the policy under k, has changed none
\* of them, and none of them was under way to a's cache.
LEMMA NothingNew ==
  ASSUME KeysApart, TypeInv, TypeInv', CachesCurrent, PoliciesKnown, LabelsNamed,
         LabelsNamed', EventsNamed, [Next]_vars,
         NEW a \in Accesses, NEW s \in Services, NEW k \in NetpolKeys, NamedFor(k, a, s),
         accesses'[a] # Absent,
         a \notin queue', a \notin accEvents', a \notin npEvents'[k], s \notin svcEvents'
  PROVE  /\ accesses'[a] = accesses[a] /\ accCache[a] = accesses[a]
         /\ services'[s] = services[s] /\ svcCache[s] = services[s]
         /\ npEvents[k] = {} /\ netpols[k] = netpols'[k]
         /\ a \in queue => Reconcile(a)
         /\ a \notin queue => ~Awaited(a, s, k)
<1>1. PoliciesNoted /\ Noticed(a) /\ (a \in queue => Reconcile(a))
  BY NextNotes, NextNotices
<1>2. ~Awaited(a, s, k)'
  BY DEF Awaited
<1>3. /\ accesses'[a] = accesses[a] /\ services'[s] = services[s]
      /\ netpols'[k] = netpols[k] \/ a \notin OwnerIn(netpols[k]) \cup OwnerIn(netpols'[k])
      /\ a \notin queue => ~Awaited(a, s, k)
  BY <1>1, <1>2, AwaitedStays
<1>4. Reconcile(a) => UNCHANGED <<svcVars, accesses, accCache, accEvents, npVars>>
  BY DEF Reconcile, ReconcileGone, ReconcileStart, accVars
<1>5. a \notin accEvents /\ a \notin npEvents[k] /\ s \notin svcEvents
  BY <1>1, <1>3, <1>4 DEF Awaited, svcVars, npVars
<1>6. accCache[a] = accesses[a] /\ svcCache[s] = services[s]
  BY <1>5 DEF CachesCurrent
<1>7. npEvents[k] = {}
  <2>1. npEvents[k] \subseteq Accesses
    BY DEF TypeInv, ClusterTypeOK, NetpolsTypeOK
  <2> QED
    BY <1>5, <2>1, NamedApart DEF EventsNamed
<1>8. netpols[k] = netpols'[k]
  <2>1. /\ netpols[k] # Absent => NamedFor(k, netpols[k].owner, netpols[k].svc)
        /\ netpols'[k] # Absent => NamedFor(k, netpols'[k].owner, netpols'[k].svc)
    BY OwnersNamed
  <2>2. /\ netpols[k] # Absent => netpols[k].owner \in Accesses /\ netpols[k].svc \in Services
        /\ netpols'[k] # Absent =>
             netpols'[k].owner \in Accesses /\ netpols'[k].svc \in Services
    BY DEF TypeInv, ClusterTypeOK, NetpolsTypeOK, Maybe, NetpolObjects
  <2>3. /\ netpols[k] # Absent => netpols[k].owner = a
        /\ netpols'[k] # Absent => netpols'[k].owner = a
    BY <2>1, <2>2, NamedApart
  <2> QED
    BY <1>3, <2>3 DEF OwnerIn
<1> QED
  BY <1>1, <1>3, <1>6, <1>7, <1>8

\* What is asked for, in the controller's terms: as the worker's kind reads v.
LEMMA WantedIs ==
  ASSUME NEW a \in Accesses, NEW s \in Services, NEW d \in Directions, NEW c \in Targets,
         NEW v \in ServiceVersions, NEW sp \in AccessSpecs, AsksFor(a, s, v, sp, d, c),
         NEW r, r = Read(KindOf[a], v)
  PROVE  /\ c.form = "cidr" /\ InScope(a, s)
         /\ sp.selector # BadSelector /\ v.label \in sp.selector
         /\ c \in FinalCidrs(TargetsOf(r, sp), r.targets # NoAnnotation)
         /\ TargetsOf(r, sp) # {}
         /\ ToLower(DirectionOf(r, sp)) = d /\ IsValidDirection(DirectionOf(r, sp))
<1> DEFINE annotated == KindOf[a] \in AnnotatedKinds
<1>1. /\ r.targets = IF annotated THEN v.targets ELSE NoAnnotation
      /\ r.direction = IF annotated THEN v.direction ELSE NoAnnotation
  BY DEF Read, ServiceVersions
<1>2. c.form = "cidr" /\ c \in WrittenTargets
  BY ExternalAssumption DEF AsksFor
<1>3. c \in FinalCidrs(TargetsOf(r, sp), r.targets # NoAnnotation) /\ TargetsOf(r, sp) # {}
  <2>1. CASE annotated /\ v.targets # NoAnnotation
    <3>1. TargetsOf(r, sp) = v.targets /\ r.targets # NoAnnotation
      BY <1>1, <2>1 DEF TargetsOf
    <3>2. PICK t \in v.targets : t = c \/ t = [c EXCEPT !.form = "hyphen"]
      BY <2>1 DEF AsksFor
    <3>3. FromAnnotation(t) = c
      BY <1>2, <3>2 DEF FromAnnotation, WrittenTargets, Forms
    <3> QED
      BY <1>2, <3>1, <3>2, <3>3 DEF FinalCidrs, ValidateTargetCIDR
  <2>2. CASE ~(annotated /\ v.targets # NoAnnotation)
    BY <1>1, <1>2, <2>2 DEF AsksFor, TargetsOf, FinalCidrs, ValidateTargetCIDR
  <2> QED
    BY <2>1, <2>2
<1>4. DirectionOf(r, sp) \in AnyCase(d)
  BY <1>1 DEF AsksFor, DirectionOf
<1> QED
  BY <1>3, <1>4 DEF AsksFor, InScope, AnyCase, IsValidDirection

\* Without a fault, deploying a policy that the server takes, while no event about it
\* is under way, leaves it stored as defined, or an event.
LEMMA Deployed ==
  ASSUME TypeInv, PoliciesKnown, ~Fault, NEW k \in NetpolKeys, npEvents[k] = {},
         NEW n \in NetpolObjects, Valid(n), NEW status, DeployResource(k, n, status)
  PROVE  \/ netpols[k] # Absent /\ UNCHANGED netpols /\ netpols[k].spec = n.spec
         \/ n.owner \in npEvents'[k]
<1>0. npCache[k] = netpols[k] /\ n # Absent
  BY MarkerAssumption DEF PoliciesKnown
<1>1. ASSUME NEW m, m # Absent, m.owner = n.owner, WriteNetpol(k, m)
      PROVE  n.owner \in npEvents'[k]
  BY <1>1 DEF WriteNetpol, OwnerIn, TypeInv, ClusterTypeOK, NetpolsTypeOK
<1>2. npCache[k] # Absent =>
        Merged(n, npCache[k]).owner = n.owner /\ Merged(n, npCache[k]) # Absent
  <2>1. ASSUME npCache[k] # Absent
        PROVE  Merged(n, npCache[k]).owner = n.owner /\ Merged(n, npCache[k]) \in NetpolObjects
    <3>1. LabelsOf(npCache[k]) \subseteq OwnerLabels
      <4>1. npCache[k] \in NetpolObjects
        BY <2>1 DEF TypeInv, ClusterTypeOK, NetpolsTypeOK, Maybe
      <4> QED
        BY <4>1 DEF LabelsOf, NetpolObjects, OwnerLabels
    <3> QED
      BY <3>1 DEF Merged, NetpolObjects
  <2> QED
    BY <2>1, MarkerAssumption
<1>3. CASE CreateResource(k, n, status)
  BY <1>0, <1>1, <1>3 DEF CreateResource
<1>4. CASE ReconcileResource(k, n, status)
  BY <1>0, <1>1, <1>2, <1>4 DEF ReconcileResource, Unchanged, npVars
<1> QED
  BY <1>3, <1>4 DEF DeployResource

\* Deployed with what s is now, the policy is in place, or an event tells of it.
LEMMA DeployedInPlace ==
  ASSUME TypeInv, PoliciesKnown, ~Fault,
         NEW a \in Accesses, NEW s \in Services, NEW d \in Directions, NEW c \in Targets,
         c.form = "cidr", NEW k \in NetpolKeys, k = PolicyKey(a, s, d, c),
         npEvents[k] = {}, services'[s] = services[s],
         NEW src \in Sources, src = AsSource(s, d), NEW o \in AccessObjects,
         NEW n, n = Policy(o, a, src, c), NEW status, DeployResource(k, n, status)
  PROVE  InPlace(a, s, d, c)' \/ a \in npEvents'[k]
<1>1. n \in NetpolObjects /\ n.owner = a
  BY PolicyType DEF Policy
<1>2. n.spec = DefineExternalAccessNetworkPolicyCIDR(services[s].pods, c, services[s].ports, d)
  BY DEF Policy, AsSource
<1>3. Valid(n)
  BY <1>2 DEF DefineExternalAccessNetworkPolicyCIDR, NetpolSpec, CidrRule, Valid, ServerTakes
<1>4. Grants(n.spec, services[s], d, c)
  BY <1>2, CidrGranted
<1>5. \/ netpols[k] # Absent /\ UNCHANGED netpols /\ netpols[k].spec = n.spec
      \/ a \in npEvents'[k]
  BY <1>1, <1>3, Deployed
<1>6. CASE netpols[k] # Absent /\ UNCHANGED netpols /\ netpols[k].spec = n.spec
  BY <1>4, <1>6 DEF InPlace
<1> QED
  BY <1>5, <1>6

\* What a's worker does next for c, when it is not about to delete a.
Pursues(a, s, d, c, j) ==
  \/ j.pc \in {"list", "cleanup"}
  \/ /\ j.pc \in {"services", "targets"}
     /\ [svc |-> s, version |-> Read(KindOf[a], services[s])] \in j.listed
  \/ j.pc = "targets" /\ c \in j.targets /\ j.source = AsSource(s, d)

\* A step of the worker that keeps pursuing it keeps doing it.
LEMMA StillDoing ==
  ASSUME TypeInv, NEW a \in Accesses, NEW s \in Services, NEW d \in Directions,
         NEW c \in Targets, NEW w \in Kinds, w = KindOf[a], WorkerStep(w),
         Doing(a, s, d, c), job[w].pc # "expired",
         accesses'[a] = accesses[a], services'[s] = services[s],
         Pursues(a, s, d, c, job'[w])
  PROVE  Doing(a, s, d, c)'
<1>1. PICK j : Become(w, j) /\ (j = NoJob \/ Works(w, job[w], j))
  BY WorkerProceeds DEF Proceeds
<1>2. job'[w] = j
  BY <1>1 DEF Become, TypeInv, JobsHeld
<1>3. j.pc # Idle
  BY <1>2 DEF Pursues, Idle
<1>4. j # NoJob
  BY <1>3 DEF NoJob
<1>5. j.req = job[w].req /\ j.obj.spec = job[w].obj.spec /\ j.obj.deleting = job[w].obj.deleting
  BY <1>1, <1>4 DEF Works, SameCopy
<1> QED
  BY <1>2, <1>3, <1>5 DEF Doing, Pursues, AsSource

\* A listed service that is a source is begun with, and others are passed over.
LEMMA ServicesNext ==
  ASSUME TypeInv, NEW a \in Accesses, NEW s \in Services, NEW d \in Directions,
         NEW c \in Targets, NEW w \in Kinds, w = KindOf[a],
         SkipService(w) \/ BeginService(w),
         NEW l \in job[w].listed, l.svc = s, IsSource(l, job[w].obj.spec),
         l = [svc |-> s, version |-> Read(KindOf[a], services[s])],
         c \in FinalCidrs(TargetsOf(l.version, job[w].obj.spec), l.version.targets # NoAnnotation),
         ToLower(DirectionOf(l.version, job[w].obj.spec)) = d, svcCache[s] = services[s]
  PROVE  Pursues(a, s, d, c, job'[w])
<1> DEFINE i == job[w]
<1>1. i \in Jobs /\ i.pc = "services" /\ i.obj \in AccessObjects
  BY DEF TypeInv, JobsHeld, Holds, SkipService, BeginService, Idle
<1>2. CASE SkipService(w)
  <2>1. PICK x \in i.listed :
          /\ ~IsSource(x, i.obj.spec)
          /\ Become(w, [i EXCEPT !.listed = @ \ {x}, !.matched = @ \cup {x.svc}])
    BY <1>2 DEF SkipService
  <2>2. PICK j : j = [i EXCEPT !.listed = @ \ {x}, !.matched = @ \cup {x.svc}]
    OBVIOUS
  <2>3. j.pc = "services" /\ l \in j.listed
    BY <1>1, <2>1, <2>2 DEF Jobs
  <2>4. job'[w] = j
    BY <2>1, <2>2 DEF Become, TypeInv, JobsHeld
  <2> QED
    BY <2>3, <2>4 DEF Pursues
<1>3. CASE BeginService(w)
  <2> DEFINE src(x) == [svc |-> x.svc, direction |-> ToLower(DirectionOf(x.version, i.obj.spec)),
                        pods |-> svcCache[x.svc].pods, ports |-> svcCache[x.svc].ports]
             cidrs(x) == FinalCidrs(TargetsOf(x.version, i.obj.spec),
                                    x.version.targets # NoAnnotation)
  <2>1. PICK x \in i.listed :
          /\ IsSource(x, i.obj.spec)
          /\ Become(w, NextTarget([i EXCEPT !.listed = @ \ {x}, !.matched = @ \cup {x.svc},
                                            !.targets = cidrs(x), !.source = src(x)]))
    BY <1>3 DEF BeginService
  <2>2. x.svc \in Services /\ x.version \in ServiceVersions /\ i.obj.spec \in AccessSpecs
    BY <1>1, <2>1 DEF Jobs, AccessObjects
  <2>3. cidrs(x) \subseteq Targets
    <3>1. TargetsOf(x.version, i.obj.spec) \subseteq Targets
      BY <2>2 DEF TargetsOf, ServiceVersions, AccessSpecs
    <3> QED
      BY <3>1, CidrsType
  <2>4. src(x) \in Sources
    <3>1. svcCache[x.svc] \in ServiceVersions /\ svcCache[x.svc].pods # NoPods
      BY <2>1, <2>2 DEF IsSource, HasDetails, TypeInv, ClusterTypeOK, ServicesTypeOK, Maybe
    <3>2. ToLower(DirectionOf(x.version, i.obj.spec)) \in Directions
      BY <2>1 DEF IsSource, IsValidDirection
    <3> QED
      BY <2>2, <3>1, <3>2 DEF Sources, ServiceVersions
  <2>5. PICK y \in Sources, T \in SUBSET Targets : y = src(x) /\ T = cidrs(x)
    BY <2>3, <2>4
  <2>6. x = l => c \in T /\ y = AsSource(s, d)
    BY <2>5 DEF AsSource
  <2>7. PICK m : m = [i EXCEPT !.listed = @ \ {x}, !.matched = @ \cup {x.svc},
                               !.targets = T, !.source = y]
    OBVIOUS
  <2>8. m \in Jobs /\ m.listed = i.listed \ {x} /\ m.targets = T /\ m.source = y
    BY <1>1, <2>2, <2>7 DEF Jobs, Maybe
  <2>9. PICK j \in Jobs :
          /\ j = NextTarget(m) /\ j.pc \in {"services", "targets"}
          /\ j.listed = m.listed /\ j.targets = m.targets
          /\ j.pc = "targets" => j.source = m.source
    BY <2>8, NextTargetType
  <2>10. T # {} => j.pc = "targets"
    BY <2>8, <2>9 DEF NextTarget, Jobs
  <2>11. job'[w] = j
    BY <2>1, <2>5, <2>7, <2>9 DEF Become, TypeInv, JobsHeld
  <2>12. CASE x = l
    <3>1. j.pc = "targets" /\ c \in j.targets /\ j.source = AsSource(s, d)
      BY <2>6, <2>8, <2>9, <2>10, <2>12
    <3> QED
      BY <2>11, <3>1 DEF Pursues
  <2>13. CASE x # l
    <3>1. l \in j.listed
      BY <2>8, <2>9, <2>13
    <3> QED
      BY <2>9, <2>11, <3>1 DEF Pursues
  <2> QED
    BY <2>12, <2>13
<1> QED
  BY <1>2, <1>3

\* A worker that is deploying takes the CIDRs one by one.
LEMMA TargetsNext ==
  ASSUME TypeInv, PoliciesKnown, ~Fault,
         NEW a \in Accesses, NEW s \in Services, NEW d \in Directions, NEW c \in Targets,
         c.form = "cidr", NEW k \in NetpolKeys, k = PolicyKey(a, s, d, c),
         NEW w \in Kinds, w = KindOf[a], Deploy(w), job[w].req = a, ~job[w].obj.deleting,
         Pursues(a, s, d, c, job[w]),
         services'[s] = services[s], npEvents[k] = {}
  PROVE  Pursues(a, s, d, c, job'[w]) \/ InPlace(a, s, d, c)' \/ a \in npEvents'[k]
<1> DEFINE i == job[w]
           key(x) == PolicyKey(i.req, i.source.svc, i.source.direction, x)
           next(x, status) == [i EXCEPT !.targets = @ \ {x}, !.deployed = @ \cup {key(x)},
                                        !.obj = WithCond(@, "NetworkPolicyDeployReady", status)]
<1>1. i \in Jobs /\ i.pc = "targets" /\ i.obj \in AccessObjects /\ i.source \in Sources
  BY DEF TypeInv, JobsHeld, Holds, Deploy, Idle
<1>2. PICK x \in i.targets, status \in {"True", "False"} :
        /\ DeployResource(key(x), Policy(i.obj, i.req, i.source, x), status)
        /\ Advance(w, NextTarget(next(x, status)))
  <2>1. PICK x \in i.targets, status \in {"True", "False"} :
          /\ DeployResource(key(x), Policy(i.obj, i.req, i.source, x), status)
          /\ Advance(w, IF BeingDeleted(i.obj)
                        THEN [next(x, status) EXCEPT !.pc = "undeploy", !.undeploy = key(x)]
                        ELSE NextTarget(next(x, status)))
    BY DEF Deploy
  <2> HIDE DEF key, next
  <2> QED
    BY <2>1 DEF BeingDeleted
<1>3. PICK p \in AccessObjects : p = WithCond(i.obj, "NetworkPolicyDeployReady", status)
  <2>1. status \in Statuses /\ "NetworkPolicyDeployReady" \in CondTypes
    BY <1>2, ConstantsType
  <2> QED
    BY <1>1, <2>1, WithCondType
<1>4. PICK y \in NetpolKeys : y = key(x)
  BY <1>1, <1>2, PolicyType DEF Jobs
<1>5. PICK m : m = next(x, status)
  OBVIOUS
<1>6. m = [i EXCEPT !.targets = @ \ {x}, !.deployed = @ \cup {y}, !.obj = p]
  BY <1>1, <1>3, <1>4, <1>5 DEF Jobs
<1>7. m \in Jobs /\ m.targets = i.targets \ {x} /\ m.source = i.source /\ m.listed = i.listed
  BY <1>1, <1>6 DEF Jobs, Maybe
<1>8. PICK j \in Jobs :
        /\ j = NextTarget(m) /\ j.pc \in {"services", "targets"}
        /\ j.listed = m.listed /\ j.targets = m.targets
        /\ j.pc = "targets" => j.source = m.source
  BY <1>7, NextTargetType
<1>9. m.targets # {} => j.pc = "targets"
  BY <1>7, <1>8 DEF NextTarget, Jobs
<1>10. job'[w] = j
  BY <1>2, <1>5, <1>8 DEF Advance, Become, TypeInv, JobsHeld
<1>11. CASE [svc |-> s, version |-> Read(KindOf[a], services[s])] \in i.listed
  BY <1>7, <1>8, <1>10, <1>11 DEF Pursues
<1>12. CASE c \in i.targets /\ i.source = AsSource(s, d) /\ x # c
  <2>1. c \in j.targets /\ j.pc = "targets" /\ j.source = AsSource(s, d)
    BY <1>2, <1>7, <1>8, <1>9, <1>12
  <2> QED
    BY <1>10, <2>1 DEF Pursues
<1>13. CASE i.source = AsSource(s, d) /\ x = c
  <2>1. key(x) = k
    BY <1>13 DEF AsSource
  <2> QED
    BY <1>1, <1>2, <1>13, <2>1, DeployedInPlace
<1> QED
  BY <1>1, <1>11, <1>12, <1>13 DEF Pursues

\* A worker that is doing it goes on with it, or leaves the policy in place or an event.
LEMMA DoingNext ==
  ASSUME TypeInv, PoliciesKnown, NEW w \in Kinds, WorkerStep(w), ~Fault,
         NEW a \in Accesses, w = KindOf[a], NEW s \in Services, NEW d \in Directions,
         NEW c \in Targets, NEW k \in NetpolKeys, k = PolicyKey(a, s, d, c),
         Wanted(a, s, d, c), Doing(a, s, d, c), job[w].pc # "expired",
         accesses'[a] = accesses[a], services'[s] = services[s],
         svcCache[s] = services[s], npEvents[k] = {}
  PROVE  Doing(a, s, d, c)' \/ InPlace(a, s, d, c)' \/ a \in npEvents'[k]
<1> DEFINE i == job[w]
<1>1. /\ i.pc # Idle /\ i.req = a /\ ~i.obj.deleting /\ i.obj.spec = accesses[a].spec
      /\ Pursues(a, s, d, c, i)
  BY DEF Doing, Pursues
<1>2. i \in Jobs /\ i.obj \in AccessObjects /\ i.obj.spec \in AccessSpecs
  BY <1>1 DEF TypeInv, JobsHeld, Holds, AccessObjects
<1>3. services[s] \in ServiceVersions /\ HasDetails(services[s])
  BY DEF Wanted, HasDetails, TypeInv, ClusterTypeOK, ServicesTypeOK, Maybe
<1>4. PICK r : r = Read(KindOf[a], services[s])
  OBVIOUS
<1>5. /\ c.form = "cidr" /\ InScope(a, s) /\ i.obj.spec.selector # BadSelector
      /\ services[s].label \in i.obj.spec.selector
      /\ c \in FinalCidrs(TargetsOf(r, i.obj.spec), r.targets # NoAnnotation)
      /\ TargetsOf(r, i.obj.spec) # {}
      /\ ToLower(DirectionOf(r, i.obj.spec)) = d /\ IsValidDirection(DirectionOf(r, i.obj.spec))
  BY <1>1, <1>2, <1>3, <1>4, WantedIs DEF Wanted
<1>6. PICK l : l = [svc |-> s, version |-> r]
  OBVIOUS
<1>7. l.svc = s /\ l.version = r
  BY <1>6
<1>8. IsSource(l, i.obj.spec)
  BY <1>3, <1>5, <1>7 DEF IsSource
<1>9. SUFFICES \/ Pursues(a, s, d, c, job'[w])
               \/ InPlace(a, s, d, c)' \/ a \in npEvents'[k]
  BY StillDoing
<1>10. CASE i.pc \in {"list", "cleanup"}
  <2>1. ListOwned(w) \/ CleanupOne(w) \/ ListServices(w) \/ ListFails(w)
    BY <1>10 DEF WorkerStep, DeleteExpired, SkipService, BeginService, Deploy, Undeploy,
                 FinishReconcile
  <2>2. CASE CleanupOne(w)
    BY <2>2, CleanupTakes DEF Pursues
  <2>3. CASE ListServices(w)
    <3> DEFINE found == {[svc |-> t, version |-> Read(w, svcCache[t])] :
                           t \in {u \in Services : /\ InScope(i.req, u)
                                                   /\ svcCache[u] # Absent
                                                   /\ svcCache[u].label \in i.obj.spec.selector}}
    <3>1. l \in found
      BY <1>1, <1>3, <1>4, <1>5, <1>6 DEF HasDetails
    <3>2. PICK L : L = found
      OBVIOUS
    <3>3. PICK j : j = [i EXCEPT !.pc = "services", !.listed = L]
      OBVIOUS
    <3>4. job'[w] = j
      BY <2>3, <3>2, <3>3 DEF ListServices, Become, TypeInv, JobsHeld
    <3> HIDE DEF found
    <3>5. j.pc = "services" /\ l \in j.listed
      BY <1>2, <3>1, <3>2, <3>3 DEF Jobs
    <3> QED
      BY <1>4, <1>6, <3>4, <3>5 DEF Pursues
  <2>4. CASE ListFails(w)
    BY <1>5, <2>4 DEF ListFails
  <2>5. CASE ListOwned(w)
    BY <2>5, OwnedListed DEF Pursues
  <2> QED
    BY <2>1, <2>2, <2>3, <2>4, <2>5
<1>11. CASE i.pc = "services"
  <2>1. l \in i.listed
    BY <1>1, <1>4, <1>6, <1>11 DEF Pursues
  <2>2. SkipService(w) \/ BeginService(w)
    BY <1>11, <2>1 DEF WorkerStep, DeleteExpired, ListOwned, CleanupOne, ListServices, ListFails,
                       Deploy, Undeploy, FinishReconcile
  <2> QED
    BY <1>4, <1>5, <1>6, <1>7, <1>8, <2>1, <2>2, ServicesNext
<1>12. CASE i.pc = "targets"
  <2>1. Deploy(w)
    BY <1>12 DEF WorkerStep, DeleteExpired, ListOwned, CleanupOne, ListServices, ListFails,
                 SkipService, BeginService, Undeploy, FinishReconcile
  <2> QED
    BY <1>1, <1>5, <2>1, TargetsNext
<1> QED
  BY <1>1, <1>10, <1>11, <1>12 DEF Pursues

\* Access that is asked for stays attended to.
LEMMA CoverageNext ==
  ASSUME KeysApart, TypeInv, TypeInv', CachesCurrent, PoliciesKnown, LabelsNamed,
         LabelsNamed', EventsNamed, CoverageAttended, [Next]_vars
  PROVE  CoverageAttended'
<1> SUFFICES ASSUME faults' = 0,
                    NEW a \in Accesses, NEW s \in Services, NEW d \in Directions,
                    NEW c \in Targets, Wanted(a, s, d, c)',
                    NEW k, k = PolicyKey(a, s, d, c), ~Awaited(a, s, k)',
                    ~InPlace(a, s, d, c)'
             PROVE  Doing(a, s, d, c)'
  BY DEF CoverageAttended
<1>0. PICK w \in Kinds : w = KindOf[a]
  BY ExternalAssumption
<1>1. a \notin queue' /\ a \notin accEvents' /\ a \notin npEvents'[k] /\ s \notin svcEvents'
  BY DEF Awaited
<1>2. /\ accesses'[a] # Absent /\ HasDetails(services'[s])
      /\ AsksFor(a, s, services'[s], accesses'[a].spec, d, c)
  BY DEF Wanted, Living
<1>3. NamedFor(k, a, s)
  BY <1>2 DEF AsksFor, NamedFor, InScope, ValidateTargetCIDR
<1>4. k \in NetpolKeys
  BY KeyType
<1>5. /\ accesses'[a] = accesses[a] /\ accCache[a] = accesses[a]
      /\ services'[s] = services[s] /\ svcCache[s] = services[s]
      /\ npEvents[k] = {} /\ netpols[k] = netpols'[k]
      /\ a \in queue => Reconcile(a)
      /\ a \notin queue => ~Awaited(a, s, k)
  BY <1>1, <1>2, <1>3, <1>4, NothingNew
<1>6. faults = 0 /\ ~Fault
  BY FaultsStay
<1>7. Wanted(a, s, d, c) /\ Living(a)
  BY <1>5 DEF Wanted, Living
<1>8. ~InPlace(a, s, d, c)
  BY <1>5 DEF InPlace
<1>9. CASE a \in queue
  <2>1. ReconcileStart(a)
    BY <1>5, <1>7, <1>9 DEF Reconcile, ReconcileGone, Living
  <2>2. PICK j : j = job'[w]
    OBVIOUS
  <2>3. j.pc \in {"expired", "list"} /\ j.req = a /\ j.obj = Dated(accesses[a])
    BY <1>0, <1>5, <2>1, <2>2, StartHolds
  <2>4. accesses[a] \in AccessObjects
    BY <1>7, MaybeIn DEF Living, TypeInv, ClusterTypeOK, AccessesTypeOK
  <2>5. j.obj.spec = accesses[a].spec /\ ~j.obj.deleting
    BY <1>7, <2>3, <2>4, DatedKeeps DEF Living
  <2> QED
    BY <1>0, <1>5, <2>2, <2>3, <2>5 DEF Doing, Idle
<1>10. CASE a \notin queue
  <2>1. Doing(a, s, d, c) /\ job[w].pc # Idle /\ job[w].req = a
    BY <1>0, <1>5, <1>6, <1>7, <1>8, <1>10 DEF CoverageAttended, Doing
  <2>2. CASE job'[w] = job[w]
    BY <1>0, <1>5, <2>1, <2>2 DEF Doing, AsSource
  <2>3. CASE Restart
    BY <1>1, <1>2, <1>5, <2>3, RestartQueues
  <2>4. CASE WorkerStep(w) /\ job[w].pc = "expired"
    BY <1>2, <1>6, <1>7, <2>1, <2>4, ExpiredDeleted
  <2>5. CASE WorkerStep(w) /\ job[w].pc # "expired"
    BY <1>0, <1>1, <1>4, <1>5, <1>6, <1>7, <2>1, <2>5, DoingNext
  <2> QED
    BY <2>1, <2>2, <2>3, <2>4, <2>5, RunningNext
<1> QED
  BY <1>9, <1>10

\* What the theorems below share.
NamedBase == QuietBase /\ Provenance /\ LedgerInv /\ EventsNamed

\* It holds in the first states.
LEMMA InitNamedBase == Init => NamedBase
<1>1. Init => EventsNamed
  BY DEF Init, ClusterInit, EventsNamed
<1> QED
  BY <1>1, InitBase, InitProvenance, InitLedgerInv DEF NamedBase

\* And after every step.
LEMMA NamedBaseNext ==
  ASSUME NamedBase, [Next]_vars
  PROVE  NamedBase'
<1>1. QuietBase' /\ TypeInv /\ TypeInv' /\ CachesCurrent /\ PoliciesKnown /\ PoliciesNoted
  BY BaseNext, NextNotes DEF QuietBase, NamedBase
<1>2. Provenance' /\ LedgerInv' /\ LabelsNamed /\ LabelsNamed'
  BY <1>1, ProvenanceNext, LedgerInvNext DEF LedgerInv, NamedBase
<1>3. EventsNamed'
  BY <1>1, <1>2, EventsStayNamed DEF NamedBase
<1> QED
  BY <1>1, <1>2, <1>3 DEF NamedBase

\* Where the name of a policy tells its object and its service, no change of a service,
\* an object or a policy is lost between the caches, the queue and the two workers:
\* when nothing is left to do and no write failed, every CIDR asked for of either kind,
\* in a spec or an annotation, is open, to the pods and on the ports the services have.
THEOREM CoveredByEither == KeysApart => (Spec => []CoveredWhenQuiet)
<1> SUFFICES ASSUME KeysApart
             PROVE  Spec => []CoveredWhenQuiet
  OBVIOUS
<1> DEFINE Inv == NamedBase /\ CoverageAttended
<1>1. Init => Inv
  <2> SUFFICES ASSUME Init, NEW a \in Accesses, accesses[a] # Absent
               PROVE  a \in queue
    BY InitNamedBase DEF CoverageAttended, Awaited, Wanted, Living
  <2> QED
    BY DEF Init, ClusterInit
<1>2. Inv /\ [Next]_vars => Inv'
  <2> SUFFICES ASSUME Inv, [Next]_vars
               PROVE  Inv'
    OBVIOUS
  <2>1. NamedBase'
    BY NamedBaseNext
  <2> QED
    BY <2>1, CoverageNext DEF NamedBase, QuietBase, LedgerInv
<1>3. Inv => CoveredWhenQuiet
  <2> SUFFICES ASSUME Inv, Quiet, faults = 0, NEW a \in Accesses, NEW s \in Services,
                      NEW d \in Directions, NEW c \in Targets, Wanted(a, s, d, c)
               PROVE  InPlace(a, s, d, c)
    BY DEF CoveredWhenQuiet, Covered
  <2>1. InPlace(a, s, d, c) \/ Doing(a, s, d, c) \/ Awaited(a, s, PolicyKey(a, s, d, c))
    BY DEF CoverageAttended
  <2>2. KindOf[a] \in Kinds
    BY ExternalAssumption
  <2>3. PolicyKey(a, s, d, c) \in NetpolKeys
    BY KeyType
  <2> QED
    BY <2>1, <2>2, <2>3 DEF Quiet, Settled, Awaited, Doing
<1> HIDE DEF Inv
<1> QED
  BY <1>1, <1>2, <1>3, PTL DEF Spec

-----------------------------------------------------------------------------
(* The status *)

\* Something will bring a before its worker.
Summoned(a) ==
  a \in queue \/ a \in accEvents \/ svcEvents # {} \/ \E k \in NetpolKeys : a \in npEvents[k]

\* The policies that are a's by their names.
NamedOf(a) == {k \in NetpolKeys : \E s \in Services : NamedFor(k, a, s)}

HoldsNamed(j) ==
  j.pc # Idle => j.obj.netpols \subseteq NamedOf(j.req) /\ j.deployed \subseteq NamedOf(j.req)

\* The lists of an object, on the server, in the cache and with its worker, are of such.
ListsNamed ==
  /\ \A a \in Accesses :
       /\ accesses[a] # Absent => accesses[a].netpols \subseteq NamedOf(a)
       /\ accCache[a] # Absent => accCache[a].netpols \subseteq NamedOf(a)
  /\ \A w \in Kinds : HoldsNamed(job[w])

\* No condition is stored that keeps the status from being written.
ConditionsReady ==
  \A a \in Accesses :
    /\ accesses[a] # Absent => AllConditionsReady(accesses[a])
    /\ accCache[a] # Absent => AllConditionsReady(accCache[a])

\* A listed service is as it is now, and selected.
ListedCurrent(a, l) ==
  /\ InScope(a, l.svc) /\ services[l.svc] # Absent
  /\ accesses[a].spec.selector # BadSelector
  /\ services[l.svc].label \in accesses[a].spec.selector
  /\ l.version = Read(KindOf[a], services[l.svc])

\* j is a reconcile of a whose copy is as a is now, which has met no obstacle, and
\* whose lists are of what there is.
Faithful(a, j) ==
  /\ j.obj.spec = accesses[a].spec /\ ~j.obj.deleting
  /\ j.obj.netpols = accesses[a].netpols /\ j.obj.services = accesses[a].services
  /\ AllConditionsReady(j.obj)
  /\ \A o \in j.owned : o.key \in NamedOf(a) /\ netpols[o.key] # Absent
  /\ \A l \in j.listed : ListedCurrent(a, l)
  /\ \A c \in j.targets : c.form = "cidr"
  /\ \A s \in j.matched : services[s] # Absent
  /\ \A k \in j.deployed : k \in NamedOf(a) /\ netpols[k] # Absent

Serving(a) == job[KindOf[a]].pc # Idle /\ job[KindOf[a]].req = a

\* If nothing brings an object before its worker, and it asks for nothing that is
\* refused, its lists are of what there is, or the reconcile that runs makes them so.
ListsAttended ==
  faults = 0 =>
    \A a \in Accesses :
      Living(a) /\ ~Refused(a) /\ ~Summoned(a) =>
        IF Serving(a)
        THEN \/ job[KindOf[a]].pc = "expired"
             \/ a \notin touched /\ Faithful(a, job[KindOf[a]])
        ELSE AllThere(accesses[a])

\* What matters to a stays, and its worker sees it as it is.
Still(a) ==
  /\ accesses'[a] = accesses[a] /\ accCache[a] = accesses[a]
  /\ \A s \in Services : services'[s] = services[s] /\ svcCache[s] = services[s]
  /\ \A k \in NamedOf(a) : /\ npEvents[k] = {} /\ npCache[k] = netpols[k]
                            /\ netpols'[k] = netpols[k]

\* A step that leaves nothing to bring a before its worker has changed nothing that
\* matters to a.
LEMMA Calm ==
  ASSUME KeysApart, TypeInv, TypeInv', CachesCurrent, PoliciesKnown, LabelsNamed,
         LabelsNamed', EventsNamed, [Next]_vars,
         NEW a \in Accesses, accesses'[a] # Absent, ~Summoned(a)'
  PROVE  /\ Still(a)
         /\ a \in queue => Reconcile(a)
         /\ a \notin queue => ~Summoned(a)
<1>1. /\ a \notin queue' /\ a \notin accEvents' /\ svcEvents' = {}
      /\ \A k \in NetpolKeys : a \notin npEvents'[k]
  BY DEF Summoned
<1>2. Noticed(a) /\ (a \in queue => Reconcile(a))
  BY <1>1, NextNotices
<1>3. /\ accesses'[a] = accesses[a] /\ a \notin accEvents /\ accCache[a] = accesses[a]
      /\ \A k \in NetpolKeys : a \notin npEvents[k]
  BY <1>1, <1>2 DEF Noticed, CachesCurrent
<1>4. svcEvents = {}
  BY <1>1, <1>2, <1>3 DEF Noticed, TypeInv, ClusterTypeOK, ServicesTypeOK
<1>5. \A s \in Services : services'[s] = services[s] /\ svcCache[s] = services[s]
  BY <1>1, <1>2, <1>4 DEF Noticed, CachesCurrent
<1>6. ASSUME NEW k \in NamedOf(a)
      PROVE  npEvents[k] = {} /\ npCache[k] = netpols[k] /\ netpols'[k] = netpols[k]
  <2>1. PICK s \in Services : k \in NetpolKeys /\ NamedFor(k, a, s)
    BY DEF NamedOf
  <2>2. npEvents[k] = {} /\ netpols[k] = netpols'[k]
    BY <1>1, <2>1, NothingNew
  <2> QED
    BY <2>1, <2>2 DEF PoliciesKnown
<1> QED
  BY <1>2, <1>3, <1>4, <1>5, <1>6 DEF Summoned, Still

\* What nobody brings before its worker, nobody has written since it was read.
LEMMA TouchedNoted ==
  ASSUME TypeInv, [Next]_vars, NEW a \in Accesses, a \in touched'
  PROVE  /\ a \in touched \/ a \in accEvents'
         /\ ReconcileStart(a) => a \in accEvents'
<1>1. ASSUME UserStep \/ PlatformStep
      PROVE  a \in touched \/ a \in accEvents'
  BY <1>1 DEF UserStep, PlatformStep, PutService, DeleteService, CreateAccess, EditAccess,
     DeleteAccess, DeleteNetpol, CollectNetpol, DeliverNetpol, DeliverService, CollectAccess,
     DeliverAccess, TimerFires, Resync, Tick, WriteAccess, accVars
<1>2. ~Restart
  BY DEF Restart, ClusterRestart
<1>3. ASSUME NEW b \in Accesses, Reconcile(b)
      PROVE  a \in touched \/ a \in accEvents'
  BY <1>3 DEF Reconcile, ReconcileGone, ReconcileStart, accVars
<1>4. ASSUME NEW w \in Kinds, WorkerStep(w)
      PROVE  a \in touched \/ a \in accEvents'
  BY <1>4, WorkerChange DEF WorkerChanges, ObjectStep, WriteAccess, accVars
<1>5. ReconcileStart(a) => a \in accEvents'
  BY DEF ReconcileStart
<1> QED
  BY <1>1, <1>2, <1>3, <1>4, <1>5 DEF Next, vars, clusterVars, accVars

\* A condition is set, and nothing else of the copy changes.
LEMMA CondOnly ==
  ASSUME NEW o \in AccessObjects, NEW t \in CondTypes, NEW st \in Statuses
  PROVE  LET p == WithCond(o, t, st)
         IN /\ p \in AccessObjects /\ p.spec = o.spec /\ p.deleting = o.deleting
            /\ p.netpols = o.netpols /\ p.services = o.services
            /\ st # "False" /\ AllConditionsReady(o) => AllConditionsReady(p)
<1>1. PICK p : p = WithCond(o, t, st)
  OBVIOUS
<1>2. p \in AccessObjects
  BY <1>1, WithCondType
<1>3. /\ p.spec = o.spec /\ p.deleting = o.deleting
      /\ p.netpols = o.netpols /\ p.services = o.services
      /\ \A u \in CondTypes : p.conds[u] = IF u = t THEN st ELSE o.conds[u]
  BY <1>1 DEF WithCond, AccessObjects
<1> QED
  BY <1>1, <1>2, <1>3 DEF AllConditionsReady

\* So does isExpired.
LEMMA DatedOnly ==
  ASSUME NEW o \in AccessObjects
  PROVE  /\ Dated(o) \in AccessObjects /\ Dated(o).spec = o.spec
         /\ Dated(o).deleting = o.deleting
         /\ Dated(o).netpols = o.netpols /\ Dated(o).services = o.services
         /\ AllConditionsReady(o) => AllConditionsReady(Dated(o))
<1>1. PICK q : q = [o EXCEPT !.expiresAt = Deadline(o)]
  OBVIOUS
<1>2. /\ q.spec = o.spec /\ q.deleting = o.deleting
      /\ q.netpols = o.netpols /\ q.services = o.services /\ q.conds = o.conds
  BY <1>1 DEF AccessObjects
<1>3. q \in AccessObjects
  BY <1>1, DatedType DEF AccessObjects
<1>4. "ExpireReady" \in CondTypes /\ "True" \in Statuses
  BY ConstantsType
<1>5. AllConditionsReady(o) => AllConditionsReady(q)
  BY <1>2 DEF AllConditionsReady
<1> QED
  BY <1>1, <1>2, <1>3, <1>4, <1>5, CondOnly DEF Dated

\* A reconcile of i's object goes on as j: with the copy but for its conditions.
GoesOn(i, j) ==
  /\ j \in Jobs /\ j.pc # Idle /\ j.req = i.req /\ j.obj \in AccessObjects
  /\ j.obj.spec = i.obj.spec /\ j.obj.deleting = i.obj.deleting
  /\ j.obj.netpols = i.obj.netpols /\ j.obj.services = i.obj.services

\* The list of the owned policies leaves all else as it is.
LEMMA OwnedGoes ==
  ASSUME TypeInv, NEW w \in Kinds, ListOwned(w), NEW i, i = job[w], NEW j, j = job'[w]
  PROVE  /\ GoesOn(i, j) /\ j.obj = i.obj
         /\ j.listed = i.listed /\ j.targets = i.targets
         /\ j.matched = i.matched /\ j.deployed = i.deployed
         /\ j.owned \subseteq [key : NetpolKeys, svc : Services]
         /\ Owns(i, j)
<1>1. i.obj \in AccessObjects
  BY DEF TypeInv, JobsHeld, Holds, ListOwned, Idle
<1> QED
  BY <1>1, OwnedListed DEF GoesOn, Jobs, Idle

\* The cleanup of one policy sets a condition False only if the policy is gone already,
\* or by a fault.
LEMMA CleanupGoes ==
  ASSUME TypeInv, NEW w \in Kinds, CleanupOne(w), NEW i, i = job[w], NEW j, j = job'[w]
  PROVE  /\ GoesOn(i, j) /\ j.pc = "cleanup"
         /\ j.owned \subseteq i.owned /\ j.listed = i.listed /\ j.targets = i.targets
         /\ j.matched = i.matched /\ j.deployed = i.deployed
         /\ \/ AllConditionsReady(i.obj) => AllConditionsReady(j.obj)
            \/ Fault \/ \E o \in i.owned : netpols[o.key] = Absent
<1>1. i \in Jobs /\ i.pc = "cleanup" /\ i.obj \in AccessObjects
  BY DEF TypeInv, JobsHeld, Holds, CleanupOne, Idle
<1>2. PICK o \in i.owned :
        LET n       == [i EXCEPT !.owned = @ \ {o}]
            cleaned == [n EXCEPT !.obj = WithCond(@, "NetpolsGCReady", "True")]
            failed  == [n EXCEPT !.obj = WithCond(WithCond(@, "NetpolsGCNotReady", "False"),
                                                  "NetpolsGCReady", "True")]
        IN \/ Advance(w, n) \/ Advance(w, cleaned)
           \/ Advance(w, failed) /\ (netpols[o.key] = Absent \/ Fault)
  BY DEF CleanupOne
<1>3. {"NetpolsGCReady", "NetpolsGCNotReady"} \subseteq CondTypes
      /\ {"True", "False"} \subseteq Statuses
  BY DEF CondTypes, Statuses
<1>4. PICK q : q = WithCond(i.obj, "NetpolsGCNotReady", "False")
  OBVIOUS
<1>5. /\ q \in AccessObjects /\ q.spec = i.obj.spec /\ q.deleting = i.obj.deleting
      /\ q.netpols = i.obj.netpols /\ q.services = i.obj.services
  BY <1>1, <1>3, <1>4, CondOnly
<1>6. PICK p : /\ Advance(w, [i EXCEPT !.owned = @ \ {o}, !.obj = p])
               /\ \/ p = i.obj \/ p = WithCond(i.obj, "NetpolsGCReady", "True")
                  \/ /\ p = WithCond(q, "NetpolsGCReady", "True")
                     /\ netpols[o.key] = Absent \/ Fault
  BY <1>1, <1>2, <1>4 DEF Jobs
<1>7. /\ p \in AccessObjects /\ p.spec = i.obj.spec /\ p.deleting = i.obj.deleting
      /\ p.netpols = i.obj.netpols /\ p.services = i.obj.services
      /\ \/ AllConditionsReady(i.obj) => AllConditionsReady(p)
         \/ netpols[o.key] = Absent \/ Fault
  <2>1. CASE p = i.obj
    BY <1>1, <2>1
  <2>2. CASE p = WithCond(i.obj, "NetpolsGCReady", "True")
    <3>1. "NetpolsGCReady" \in CondTypes /\ "True" \in Statuses /\ "True" # "False"
      BY <1>3
    <3> QED
      BY <1>1, <2>2, <3>1, CondOnly
  <2>3. CASE p = WithCond(q, "NetpolsGCReady", "True") /\ (netpols[o.key] = Absent \/ Fault)
    BY <1>3, <1>5, <2>3, CondOnly
  <2> QED
    BY <1>6, <2>1, <2>2, <2>3
<1>8. j = [i EXCEPT !.owned = @ \ {o}, !.obj = p]
  BY <1>6 DEF Advance, Become, TypeInv, JobsHeld
<1>9. /\ j \in Jobs /\ j.pc = "cleanup" /\ j.req = i.req /\ j.obj = p
      /\ j.owned \subseteq i.owned /\ j.listed = i.listed /\ j.targets = i.targets
      /\ j.matched = i.matched /\ j.deployed = i.deployed
  <2>1. PICK S : S = i.owned \ {o}
    OBVIOUS
  <2>2. S \in SUBSET [key : NetpolKeys, svc : Services] /\ p \in Maybe(AccessObjects)
    BY <1>1, <1>7, <2>1 DEF Jobs, Maybe
  <2>3. PICK n : n = [i EXCEPT !.owned = S, !.obj = p]
    OBVIOUS
  <2>4. /\ n \in Jobs /\ n.pc = "cleanup" /\ n.req = i.req /\ n.obj = p
        /\ n.owned = S /\ n.listed = i.listed /\ n.targets = i.targets
        /\ n.matched = i.matched /\ n.deployed = i.deployed
    BY <1>1, <2>2, <2>3 DEF Jobs
  <2> QED
    BY <1>8, <2>1, <2>3, <2>4
<1> QED
  BY <1>7, <1>9 DEF GoesOn, Idle

\* The services listed are the ones in the cache.
LEMMA ListGoes ==
  ASSUME TypeInv, NEW w \in Kinds, ListServices(w), NEW i, i = job[w], NEW j, j = job'[w]
  PROVE  /\ GoesOn(i, j) /\ j.pc = "services" /\ j.obj = i.obj
         /\ j.owned = i.owned /\ j.targets = i.targets
         /\ j.matched = i.matched /\ j.deployed = i.deployed
         /\ Lists(w, i, j)
<1> DEFINE found == {[svc |-> s, version |-> Read(w, svcCache[s])] :
                       s \in {t \in Services : /\ InScope(i.req, t)
                                               /\ svcCache[t] # Absent
                                               /\ svcCache[t].label \in i.obj.spec.selector}}
<1>1. i \in Jobs /\ i.pc = "cleanup" /\ i.obj \in AccessObjects
  BY DEF TypeInv, JobsHeld, Holds, ListServices, Idle
<1>2. PICK L : L = found
  OBVIOUS
<1>3. PICK n : n = [i EXCEPT !.pc = "services", !.listed = L]
  OBVIOUS
<1>4. j = n
  BY <1>2, <1>3 DEF ListServices, Become, TypeInv, JobsHeld
<1>5. /\ n.pc = "services" /\ n.req = i.req /\ n.obj = i.obj /\ n.owned = i.owned
      /\ n.targets = i.targets /\ n.matched = i.matched /\ n.deployed = i.deployed
  BY <1>1, <1>3 DEF Jobs
<1>6. PICK m : Become(w, m) /\ Holds(w, m) /\ (m = NoJob \/ Works(w, i, m))
  BY WorkerProceeds DEF Proceeds, WorkerStep
<1>7. m = j
  BY <1>6 DEF Become, TypeInv, JobsHeld
<1>8. Works(w, i, j) /\ j \in Jobs
  BY <1>4, <1>5, <1>6, <1>7 DEF NoJob, Idle, Holds
<1>9. Lists(w, i, j)
  BY <1>1, <1>4, <1>5, <1>8 DEF Works, Owns, Sweeps, Enters, Handles
<1> QED
  BY <1>1, <1>4, <1>5, <1>8, <1>9 DEF GoesOn, Idle

\* A listed service is matched, and its CIDRs are next if it is a source.
LEMMA ServiceGoes ==
  ASSUME TypeInv, NEW w \in Kinds, SkipService(w) \/ BeginService(w),
         NEW i, i = job[w], NEW j, j = job'[w]
  PROVE  \E l \in i.listed :
           /\ GoesOn(i, j) /\ j.pc # "expired" /\ j.obj = i.obj /\ j.owned = i.owned
           /\ j.listed \subseteq i.listed /\ j.matched = i.matched \cup {l.svc}
           /\ j.deployed = i.deployed
           /\ \/ j.targets = i.targets
              \/ /\ IsSource(l, i.obj.spec)
                 /\ j.targets = FinalCidrs(TargetsOf(l.version, i.obj.spec),
                                           l.version.targets # NoAnnotation)
<1>1. i \in Jobs /\ i.pc = "services" /\ i.obj \in AccessObjects
  BY DEF TypeInv, JobsHeld, Holds, SkipService, BeginService, Idle
<1>2. CASE SkipService(w)
  <2>1. PICK l \in i.listed :
          Become(w, [i EXCEPT !.listed = @ \ {l}, !.matched = @ \cup {l.svc}])
    BY <1>2 DEF SkipService
  <2>2. l.svc \in Services
    BY <1>1, <2>1 DEF Jobs
  <2>3. PICK n : n = [i EXCEPT !.listed = @ \ {l}, !.matched = @ \cup {l.svc}]
    OBVIOUS
  <2>4. /\ n \in Jobs /\ n.pc = "services" /\ n.listed \subseteq i.listed
        /\ n.req = i.req /\ n.obj = i.obj /\ n.owned = i.owned /\ n.targets = i.targets
        /\ n.matched = i.matched \cup {l.svc} /\ n.deployed = i.deployed
    BY <1>1, <2>2, <2>3 DEF Jobs
  <2>5. j = n
    BY <2>1, <2>3 DEF Become, TypeInv, JobsHeld
  <2> QED
    BY <1>1, <2>1, <2>4, <2>5 DEF GoesOn, Idle
<1>3. CASE BeginService(w)
  <2> DEFINE src(l) == [svc |-> l.svc, direction |-> ToLower(DirectionOf(l.version, i.obj.spec)),
                        pods |-> svcCache[l.svc].pods, ports |-> svcCache[l.svc].ports]
             cidrs(l) == FinalCidrs(TargetsOf(l.version, i.obj.spec),
                                    l.version.targets # NoAnnotation)
  <2>1. PICK l \in i.listed :
          /\ IsSource(l, i.obj.spec)
          /\ Become(w, NextTarget([i EXCEPT !.listed = @ \ {l}, !.matched = @ \cup {l.svc},
                                            !.targets = cidrs(l), !.source = src(l)]))
    BY <1>3 DEF BeginService
  <2>2. l.svc \in Services /\ l.version \in ServiceVersions /\ i.obj.spec \in AccessSpecs
    BY <1>1, <2>1 DEF Jobs, AccessObjects
  <2>3. cidrs(l) \subseteq Targets
    <3>1. TargetsOf(l.version, i.obj.spec) \subseteq Targets
      BY <2>2 DEF TargetsOf, ServiceVersions, AccessSpecs
    <3> QED
      BY <3>1, CidrsType
  <2>4. src(l) \in Sources
    <3>1. svcCache[l.svc] \in ServiceVersions /\ svcCache[l.svc].pods # NoPods
      BY <2>1, <2>2 DEF IsSource, HasDetails, TypeInv, ClusterTypeOK, ServicesTypeOK, Maybe
    <3>2. ToLower(DirectionOf(l.version, i.obj.spec)) \in Directions
      BY <2>1 DEF IsSource, IsValidDirection
    <3> QED
      BY <2>2, <3>1, <3>2 DEF Sources, ServiceVersions
  <2>5. PICK x \in Sources, T \in SUBSET Targets : x = src(l) /\ T = cidrs(l)
    BY <2>3, <2>4
  <2>6. PICK m : m = [i EXCEPT !.listed = @ \ {l}, !.matched = @ \cup {l.svc},
                               !.targets = T, !.source = x]
    OBVIOUS
  <2>7. /\ m \in Jobs /\ m.listed \subseteq i.listed /\ m.targets = T
        /\ m.req = i.req /\ m.obj = i.obj /\ m.owned = i.owned
        /\ m.matched = i.matched \cup {l.svc} /\ m.deployed = i.deployed
    BY <1>1, <2>2, <2>6 DEF Jobs, Maybe
  <2>8. PICK n \in Jobs :
          /\ n = NextTarget(m) /\ n.pc \in {"services", "targets"}
          /\ n.req = m.req /\ n.obj = m.obj /\ n.owned = m.owned /\ n.listed = m.listed
          /\ n.targets = m.targets /\ n.matched = m.matched /\ n.deployed = m.deployed
    BY <2>7, NextTargetType
  <2>9. Become(w, n)
    BY <2>1, <2>5, <2>6, <2>8
  <2>10. j = n
    BY <2>9 DEF Become, TypeInv, JobsHeld
  <2> QED
    BY <1>1, <2>1, <2>5, <2>7, <2>8, <2>10 DEF GoesOn, Idle
<1> QED
  BY <1>2, <1>3

\* A CIDR is taken, and the policy for it listed as deployed.
LEMMA DeployGoes ==
  ASSUME TypeInv, NEW w \in Kinds, Deploy(w), NEW i, i = job[w], NEW j, j = job'[w]
  PROVE  \E c \in i.targets, status \in {"True", "False"}, k \in NetpolKeys :
           /\ k = PolicyKey(i.req, i.source.svc, i.source.direction, c)
           /\ DeployResource(k, Policy(i.obj, i.req, i.source, c), status)
           /\ GoesOn(i, j) /\ j.pc # "expired"
           /\ j.obj = WithCond(i.obj, "NetworkPolicyDeployReady", status)
           /\ j.owned = i.owned /\ j.listed = i.listed /\ j.targets \subseteq i.targets
           /\ j.matched = i.matched /\ j.deployed = i.deployed \cup {k}
<1>1. i \in Jobs /\ i.pc = "targets" /\ i.obj \in AccessObjects
      /\ i.req \in Accesses /\ i.source \in Sources
  BY DEF TypeInv, JobsHeld, Holds, Deploy, Idle
<1> DEFINE key(c) == PolicyKey(i.req, i.source.svc, i.source.direction, c)
           next(c, status) == [i EXCEPT !.targets = @ \ {c}, !.deployed = @ \cup {key(c)},
                                        !.obj = WithCond(@, "NetworkPolicyDeployReady", status)]
<1>2. PICK c \in i.targets, status \in {"True", "False"} :
        /\ DeployResource(key(c), Policy(i.obj, i.req, i.source, c), status)
        /\ Advance(w, IF BeingDeleted(i.obj)
                      THEN [next(c, status) EXCEPT !.pc = "undeploy", !.undeploy = key(c)]
                      ELSE NextTarget(next(c, status)))
  BY ZenonT(30) DEF Deploy
<1>3. PICK p \in AccessObjects :
        /\ p = WithCond(i.obj, "NetworkPolicyDeployReady", status)
        /\ p.spec = i.obj.spec /\ p.deleting = i.obj.deleting
        /\ p.netpols = i.obj.netpols /\ p.services = i.obj.services
  <2>1. status \in Statuses /\ "NetworkPolicyDeployReady" \in CondTypes
    BY <1>2, ConstantsType
  <2> QED
    BY <1>1, <2>1, CondOnly
<1>4. PICK k \in NetpolKeys : k = key(c)
  BY <1>1, <1>2, PolicyType DEF Jobs
<1>5. PICK m : m = next(c, status)
  OBVIOUS
<1>6. m = [i EXCEPT !.targets = @ \ {c}, !.deployed = @ \cup {k}, !.obj = p]
  BY <1>1, <1>3, <1>4, <1>5 DEF Jobs
<1>7. /\ m \in Jobs /\ m.targets \subseteq i.targets
      /\ m.listed = i.listed /\ m.owned = i.owned /\ m.req = i.req /\ m.obj = p
      /\ m.matched = i.matched /\ m.deployed = i.deployed \cup {k}
  BY <1>1, <1>6 DEF Jobs, Maybe
<1>8. PICK n \in Jobs :
        /\ Advance(w, n) /\ n.pc \in {"services", "targets", "undeploy"}
        /\ n.req = m.req /\ n.obj = m.obj /\ n.owned = m.owned /\ n.listed = m.listed
        /\ n.targets = m.targets /\ n.matched = m.matched /\ n.deployed = m.deployed
  <2>1. CASE ~i.obj.deleting
    <3>1. Advance(w, NextTarget(m))
      BY <1>2, <1>5, <2>1 DEF BeingDeleted
    <3> QED
      BY <1>7, <3>1, NextTargetType
  <2>2. CASE i.obj.deleting
    <3>1. PICK n : n = [m EXCEPT !.pc = "undeploy", !.undeploy = k]
      OBVIOUS
    <3>2. Advance(w, n)
      BY <1>2, <1>4, <1>5, <2>2, <3>1 DEF BeingDeleted
    <3>3. n \in Jobs /\ n.pc = "undeploy"
      BY <1>7, <3>1 DEF Jobs, PCs, Maybe
    <3>4. /\ n.req = m.req /\ n.obj = m.obj /\ n.owned = m.owned /\ n.listed = m.listed
          /\ n.targets = m.targets /\ n.matched = m.matched /\ n.deployed = m.deployed
      BY <1>7, <3>1 DEF Jobs
    <3> QED
      BY <3>2, <3>3, <3>4
  <2> QED
    BY <2>1, <2>2
<1>9. j = n
  BY <1>8 DEF Advance, Become, TypeInv, JobsHeld
<1>10. GoesOn(i, j) /\ j.pc # "expired"
  BY <1>3, <1>7, <1>8, <1>9 DEF GoesOn, Idle
<1>11. /\ k = PolicyKey(i.req, i.source.svc, i.source.direction, c)
       /\ DeployResource(k, Policy(i.obj, i.req, i.source, c), status)
  BY <1>2, <1>4
<1>12. /\ j.obj = WithCond(i.obj, "NetworkPolicyDeployReady", status)
       /\ j.owned = i.owned /\ j.listed = i.listed /\ j.targets \subseteq i.targets
       /\ j.matched = i.matched /\ j.deployed = i.deployed \cup {k}
  BY <1>3, <1>7, <1>8, <1>9
<1> HIDE DEF key, next
<1> QED
  BY <1>10, <1>11, <1>12

\* The policy is deleted again.
LEMMA UndeployGoes ==
  ASSUME TypeInv, NEW w \in Kinds, Undeploy(w), NEW i, i = job[w], NEW j, j = job'[w]
  PROVE  GoesOn(i, j) /\ j.deployed = i.deployed
<1>1. i \in Jobs /\ i.pc = "undeploy" /\ i.obj \in AccessObjects
  BY DEF TypeInv, JobsHeld, Holds, Undeploy, Idle
<1>2. PICK m : m = [i EXCEPT !.undeploy = Absent]
  OBVIOUS
<1>3. m \in Jobs /\ m.req = i.req /\ m.obj = i.obj /\ m.deployed = i.deployed
  BY <1>1, <1>2 DEF Jobs, Maybe
<1>4. PICK n \in Jobs :
        /\ n = NextTarget(m) /\ n.pc \in {"services", "targets"}
        /\ n.req = i.req /\ n.obj = i.obj /\ n.deployed = i.deployed
  BY <1>3, NextTargetType
<1>5. PICK p \in AccessObjects :
        /\ p = i.obj \/ \E status \in {"True", "False"} :
                           p = WithCond(i.obj, "NetworkPolicyDeployReady", status)
        /\ Advance(w, [n EXCEPT !.obj = p])
        /\ p.spec = i.obj.spec /\ p.deleting = i.obj.deleting
        /\ p.netpols = i.obj.netpols /\ p.services = i.obj.services
  <2>1. \/ Advance(w, n)
        \/ \E status \in {"True", "False"} :
             Advance(w, [n EXCEPT !.obj = WithCond(@, "NetworkPolicyDeployReady", status)])
    BY <1>2, <1>4 DEF Undeploy
  <2>2. n = [n EXCEPT !.obj = i.obj]
    BY <1>4 DEF Jobs
  <2>3. CASE Advance(w, n)
    BY <1>1, <2>2, <2>3
  <2>4. ASSUME NEW status \in {"True", "False"},
               Advance(w, [n EXCEPT !.obj = WithCond(@, "NetworkPolicyDeployReady", status)])
        PROVE  \E p \in AccessObjects :
                 /\ p = WithCond(i.obj, "NetworkPolicyDeployReady", status)
                 /\ Advance(w, [n EXCEPT !.obj = p])
                 /\ p.spec = i.obj.spec /\ p.deleting = i.obj.deleting
                 /\ p.netpols = i.obj.netpols /\ p.services = i.obj.services
    <3>1. status \in Statuses /\ "NetworkPolicyDeployReady" \in CondTypes
      BY <2>4, ConstantsType
    <3>2. PICK p : p = WithCond(i.obj, "NetworkPolicyDeployReady", status)
      OBVIOUS
    <3>3. /\ p \in AccessObjects /\ p.spec = i.obj.spec /\ p.deleting = i.obj.deleting
          /\ p.netpols = i.obj.netpols /\ p.services = i.obj.services
      BY <1>1, <3>1, <3>2, CondOnly
    <3>4. Advance(w, [n EXCEPT !.obj = p])
      BY <1>4, <2>4, <3>2 DEF Jobs
    <3> QED
      BY <3>2, <3>3, <3>4
  <2> QED
    BY <2>1, <2>3, <2>4
<1>6. PICK x : x = [n EXCEPT !.obj = p]
  OBVIOUS
<1>7. x \in Jobs /\ x.pc = n.pc /\ x.req = i.req /\ x.obj = p /\ x.deployed = i.deployed
  BY <1>4, <1>5, <1>6 DEF Jobs, Maybe
<1>8. j = x
  BY <1>5, <1>6 DEF Advance, Become, TypeInv, JobsHeld
<1> QED
  BY <1>4, <1>5, <1>7, <1>8 DEF GoesOn, Idle

\* The status that a reconcile arrives at: what of its lists there is, and what it has
\* matched and deployed.
LEMMA RefreshedIs ==
  ASSUME NEW i \in Jobs, i.obj \in AccessObjects, NEW r, r = Refreshed(i)
  PROVE  /\ r \in AccessObjects
         /\ r.netpols = {k \in i.obj.netpols : npCache[k] # Absent} \cup i.deployed
         /\ r.services = {s \in i.obj.services : svcCache[s] # Absent} \cup i.matched
         /\ AllConditionsReady(i.obj) => AllConditionsReady(r)
<1> DEFINE N == {k \in i.obj.netpols : npCache[k] # Absent}
           S == {s \in i.obj.services : svcCache[s] # Absent}
<1>1. PICK x : x = [i.obj EXCEPT !.netpols = N, !.services = S]
  OBVIOUS
<1>2. PICK y : y = [x EXCEPT !.netpols = @ \cup i.deployed, !.services = @ \cup i.matched]
  OBVIOUS
<1>3. i.deployed \subseteq NetpolKeys /\ i.matched \subseteq Services
  BY DEF Jobs
<1>4. x \in AccessObjects /\ x.netpols = N /\ x.services = S /\ x.conds = i.obj.conds
  BY <1>1 DEF AccessObjects
<1>5. /\ y \in AccessObjects /\ y.conds = i.obj.conds
      /\ y.netpols = N \cup i.deployed /\ y.services = S \cup i.matched
  BY <1>2, <1>3, <1>4 DEF AccessObjects
<1>6. {"NetpolsListReady", "ServicesListReady"} \subseteq CondTypes /\ "True" \in Statuses
  BY DEF CondTypes, Statuses
<1>7. PICK z : z = WithCond(y, "NetpolsListReady", "True")
  OBVIOUS
<1>8. r = WithCond(z, "ServicesListReady", "True")
  BY <1>1, <1>2, <1>7 DEF Refreshed, Existing
<1> HIDE DEF N, S
<1>9. AllConditionsReady(i.obj) => AllConditionsReady(y)
  BY <1>5 DEF AllConditionsReady
<1>10. /\ z \in AccessObjects /\ z.netpols = y.netpols /\ z.services = y.services
       /\ AllConditionsReady(y) => AllConditionsReady(z)
  BY <1>5, <1>6, <1>7, CondOnly
<1>11. /\ r \in AccessObjects /\ r.netpols = z.netpols /\ r.services = z.services
       /\ AllConditionsReady(z) => AllConditionsReady(r)
  BY <1>6, <1>8, <1>10, CondOnly
<1> QED
  BY <1>5, <1>9, <1>10, <1>11 DEF N, S

\* What updateStatus stores of it.
LEMMA ReadyIs ==
  ASSUME TypeInv, NEW a \in Accesses, accesses[a] # Absent, NEW r \in AccessObjects,
         NEW p, p = WithStatus(a, WithCond(r, "Ready", "True"))
  PROVE  /\ p.netpols = r.netpols /\ p.services = r.services
         /\ AllConditionsReady(r) => AllConditionsReady(p)
<1>1. PICK q : q = WithCond(r, "Ready", "True")
  OBVIOUS
<1>2. "Ready" \in CondTypes /\ "True" \in Statuses
  BY DEF CondTypes, Statuses
<1>3. /\ q.netpols = r.netpols /\ q.services = r.services
      /\ AllConditionsReady(r) => AllConditionsReady(q)
  BY <1>1, <1>2, CondOnly
<1>4. accesses[a] \in AccessObjects
  BY MaybeIn DEF TypeInv, ClusterTypeOK, AccessesTypeOK
<1>5. p.netpols = q.netpols /\ p.services = q.services /\ p.conds = q.conds
  BY <1>1, <1>4 DEF WithStatus, AccessObjects
<1> QED
  BY <1>3, <1>5 DEF AllConditionsReady

\* A worker stores the lists of its copy and of what it has deployed, with no condition
\* False; nobody else changes the status.
LEMMA StatusMoves ==
  ASSUME TypeInv, [Next]_vars, NEW a \in Accesses, accesses'[a] # Absent
  PROVE  \/ StatusKept(a)
         \/ \E w \in Kinds :
              /\ job[w].pc # Idle /\ job[w].req = a
              /\ accesses'[a].netpols \subseteq job[w].obj.netpols \cup job[w].deployed
              /\ AllConditionsReady(accesses'[a])
<1>1. CASE UserStep \/ PlatformStep \/ Restart
  BY <1>1, ClusterStatus DEF ClusterStep, Restart, TypeInv
<1>2. CASE UNCHANGED accVars
  BY <1>2 DEF accVars, StatusKept, SameStatus
<1>3. ASSUME NEW w \in Kinds, DeleteExpired(w)
      PROVE  UNCHANGED accVars \/ StatusKept(a)
  <2>1. UNCHANGED accVars \/ WriteAccess(job[w].req, Absent)
    BY <1>3 DEF DeleteExpired
  <2>2. job[w].req \in Accesses
    BY <1>3 DEF DeleteExpired, TypeInv, JobsHeld, Holds, Idle
  <2> QED
    BY <2>1, <2>2 DEF WriteAccess, StatusKept, SameStatus, TypeInv, ClusterTypeOK,
                      AccessesTypeOK
<1>4. ASSUME NEW w \in Kinds, FinishReconcile(w), ~UNCHANGED accVars
      PROVE  \/ StatusKept(a)
             \/ /\ job[w].pc # Idle /\ job[w].req = a
                /\ accesses'[a].netpols \subseteq job[w].obj.netpols \cup job[w].deployed
                /\ AllConditionsReady(accesses'[a])
  <2> DEFINE i == job[w]
  <2>1. i \in Jobs /\ i.pc # Idle /\ i.obj \in AccessObjects /\ i.req \in Accesses
    BY <1>4 DEF FinishReconcile, TypeInv, JobsHeld, Holds, Idle
  <2>2. PICK r : r = Refreshed(i)
    OBVIOUS
  <2>3. PICK p : p = WithStatus(i.req, WithCond(r, "Ready", "True"))
    OBVIOUS
  <2>4. AllConditionsReady(r) /\ accesses[i.req] # Absent /\ WriteAccess(i.req, p)
    BY <1>4, <2>2, <2>3 DEF FinishReconcile, UpdateStatus
  <2>5. r \in AccessObjects /\ r.netpols \subseteq i.obj.netpols \cup i.deployed
    BY <2>1, <2>2, RefreshedIs
  <2>6. p.netpols = r.netpols /\ AllConditionsReady(p)
    BY <2>1, <2>3, <2>4, <2>5, ReadyIs
  <2>7. accesses'[a] = IF a = i.req THEN p ELSE accesses[a]
    BY <2>1, <2>4 DEF WriteAccess, TypeInv, ClusterTypeOK, AccessesTypeOK
  <2> QED
    BY <2>1, <2>5, <2>6, <2>7 DEF StatusKept, SameStatus
<1>5. ASSUME NEW w \in Kinds, WorkerStep(w)
      PROVE  UNCHANGED accVars \/ DeleteExpired(w) \/ FinishReconcile(w)
  BY <1>5 DEF WorkerStep, ListOwned, CleanupOne, ListServices, ListFails, SkipService, BeginService,
              Deploy, Undeploy, clusterVars
<1>6. (\E b \in Accesses : Reconcile(b)) \/ UNCHANGED vars => UNCHANGED accesses
  BY DEF Reconcile, ReconcileGone, ReconcileStart, vars, clusterVars, accVars
<1>7. CASE UNCHANGED accesses
  BY <1>7 DEF StatusKept, SameStatus
<1> QED
  BY <1>1, <1>2, <1>3, <1>4, <1>5, <1>6, <1>7 DEF Next

\* A worker's lists stay named for its object.
LEMMA WorkerNamed ==
  ASSUME TypeInv, NEW w \in Kinds, WorkerStep(w), Aims(job[w]), HoldsNamed(job[w])
  PROVE  HoldsNamed(job'[w])
<1>1. PICK i, j : i = job[w] /\ j = job'[w]
  OBVIOUS
<1>2. ASSUME GoesOn(i, j), i.pc # Idle, j.deployed = i.deployed
      PROVE  HoldsNamed(j)
  BY <1>1, <1>2 DEF GoesOn, HoldsNamed
<1>3. CASE DeleteExpired(w) \/ ListFails(w) \/ FinishReconcile(w)
  <2>1. j = NoJob
    BY <1>1, <1>3 DEF DeleteExpired, ListFails, FinishReconcile, Become, TypeInv, JobsHeld
  <2> QED
    BY <1>1, <2>1 DEF HoldsNamed, NoJob
<1>4. CASE CleanupOne(w) \/ ListServices(w) \/ ListOwned(w)
  <2>1. i.pc # Idle
    BY <1>1, <1>4 DEF ListOwned, CleanupOne, ListServices, Idle
  <2> QED
    BY <1>1, <1>2, <1>4, <2>1, CleanupGoes, ListGoes, OwnedGoes
<1>5. CASE SkipService(w) \/ BeginService(w)
  <2>1. i.pc # Idle
    BY <1>1, <1>5 DEF SkipService, BeginService, Idle
  <2> QED
    BY <1>1, <1>2, <1>5, <2>1, ServiceGoes
<1>6. CASE Undeploy(w)
  <2>1. i.pc # Idle
    BY <1>1, <1>6 DEF Undeploy, Idle
  <2> QED
    BY <1>1, <1>2, <1>6, <2>1, UndeployGoes
<1>7. CASE Deploy(w)
  <2>1. /\ i.pc = "targets" /\ i.req \in Accesses /\ i.source \in Sources
        /\ i.targets \subseteq Targets
    BY <1>1, <1>7 DEF Deploy, TypeInv, JobsHeld, Holds, Jobs, Idle
  <2>2. PICK c \in i.targets, k \in NetpolKeys :
          /\ k = PolicyKey(i.req, i.source.svc, i.source.direction, c)
          /\ GoesOn(i, j) /\ j.deployed = i.deployed \cup {k}
    BY <1>1, <1>7, DeployGoes
  <2>3. InScope(i.req, i.source.svc) /\ ValidateTargetCIDR(c)
    BY <1>1, <2>1, <2>2 DEF Aims
  <2>4. k \in NamedOf(i.req)
    BY <2>1, <2>2, <2>3 DEF NamedOf, NamedFor, Sources
  <2> QED
    BY <1>1, <2>1, <2>2, <2>4 DEF GoesOn, HoldsNamed, Idle
<1> QED
  BY <1>3, <1>4, <1>5, <1>6, <1>7 DEF WorkerStep

\* A reconcile begins with empty lists.
LEMMA StartEmpty ==
  ASSUME TypeInv, NEW a \in Accesses, ReconcileStart(a), NEW j, j = job'[KindOf[a]]
  PROVE  /\ j.owned = {} /\ j.listed = {} /\ j.targets = {}
         /\ j.matched = {} /\ j.deployed = {}
<1>1. KindOf[a] \in Kinds
  BY ExternalAssumption
<1>2. PICK o : o = Dated(accCache[a])
  OBVIOUS
<1>3. PICK n : n = [NoJob EXCEPT !.req = a, !.obj = o]
  OBVIOUS
<1>4. n.owned = {} /\ n.listed = {} /\ n.targets = {} /\ n.matched = {} /\ n.deployed = {}
  BY <1>3 DEF NoJob
<1>5. j = [n EXCEPT !.pc = "expired"] \/ j = [n EXCEPT !.pc = "list"]
  BY <1>1, <1>2, <1>3 DEF ReconcileStart, Become, TypeInv, JobsHeld
<1> QED
  BY <1>3, <1>4, <1>5 DEF NoJob

\* The lists stay named for their objects.
LEMMA ListsNamedNext ==
  ASSUME TypeInv, \A w \in Kinds : Aims(job[w]), ListsNamed, [Next]_vars
  PROVE  ListsNamed'
<1>1. ASSUME NEW a \in Accesses, accesses'[a] # Absent
      PROVE  accesses'[a].netpols \subseteq NamedOf(a)
  BY <1>1, StatusMoves DEF StatusKept, SameStatus, ListsNamed, HoldsNamed
<1>2. ASSUME NEW a \in Accesses, accCache'[a] # Absent
      PROVE  accCache'[a].netpols \subseteq NamedOf(a)
  <2>1. accCache'[a] = accCache[a] \/ accCache'[a] = accesses[a]
    BY NextMoves DEF ClusterMoves, AccessesMove
  <2> QED
    BY <1>2, <2>1 DEF ListsNamed
<1>3. ASSUME NEW w \in Kinds
      PROVE  HoldsNamed(job'[w])
  <2>1. ASSUME NEW a \in Accesses, ReconcileStart(a), KindOf[a] = w
        PROVE  HoldsNamed(job'[w])
    <3>1. accCache[a] # Absent /\ accCache[a] \in AccessObjects
      BY <2>1, MaybeIn DEF ReconcileStart, TypeInv, ClusterTypeOK, AccessesTypeOK
    <3>2. /\ job'[w].req = a /\ job'[w].obj = Dated(accCache[a]) /\ job'[w].deployed = {}
      BY <2>1, StartHolds, StartEmpty
    <3>3. job'[w].obj.netpols = accCache[a].netpols
      BY <3>1, <3>2, DatedOnly
    <3> QED
      BY <3>1, <3>2, <3>3 DEF ListsNamed, HoldsNamed
  <2>2. CASE WorkerStep(w)
    BY <2>2, WorkerNamed DEF ListsNamed
  <2>3. CASE job'[w] = job[w] \/ job'[w] = NoJob
    BY <2>3 DEF ListsNamed, HoldsNamed, NoJob
  <2>4. \/ job'[w] = job[w] \/ job'[w] = NoJob \/ WorkerStep(w)
        \/ \E a \in Accesses : ReconcileStart(a) /\ KindOf[a] = w
    <3>1. CASE job[w].pc # Idle
      <4>1. Restart => job'[w] = NoJob
        BY DEF Restart, AllIdle
      <4> QED
        BY <3>1, <4>1, RunningNext
    <3>2. CASE job[w].pc = Idle
      BY <3>2, JobTurns DEF Works, Starts
    <3> QED
      BY <3>1, <3>2
  <2> QED
    BY <2>1, <2>2, <2>3, <2>4
<1>4. \A a : NamedOf(a)' = NamedOf(a)
  BY DEF NamedOf, NamedFor
<1> QED
  BY <1>1, <1>2, <1>3, <1>4 DEF ListsNamed, HoldsNamed

\* No condition comes to be stored that keeps the status from being written.
LEMMA ConditionsReadyNext ==
  ASSUME TypeInv, ConditionsReady, [Next]_vars
  PROVE  ConditionsReady'
<1>0. \A o : o.conds = NoConds => AllConditionsReady(o)
  BY DEF NoConds, AllConditionsReady
<1>1. ASSUME NEW a \in Accesses, accesses'[a] # Absent
      PROVE  AllConditionsReady(accesses'[a])
  <2>1. CASE StatusKept(a)
    BY <1>0, <1>1, <2>1 DEF StatusKept, SameStatus, ConditionsReady, AllConditionsReady
  <2> QED
    BY <1>1, <2>1, StatusMoves
<1>2. ASSUME NEW a \in Accesses, accCache'[a] # Absent
      PROVE  AllConditionsReady(accCache'[a])
  <2>1. accCache'[a] = accCache[a] \/ accCache'[a] = accesses[a]
    BY NextMoves DEF ClusterMoves, AccessesMove
  <2> QED
    BY <1>2, <2>1 DEF ConditionsReady
<1> QED
  BY <1>1, <1>2 DEF ConditionsReady, AllConditionsReady

\* What was faithful stays so while what matters stays.
LEMMA FaithfulStays ==
  ASSUME TypeInv, NEW a \in Accesses, Still(a), NEW j \in Jobs, Faithful(a, j)
  PROVE  Faithful(a, j)'
<1>1. \A l \in j.listed : ListedCurrent(a, l)'
  <2> SUFFICES ASSUME NEW l \in j.listed
               PROVE  ListedCurrent(a, l)'
    OBVIOUS
  <2>1. ListedCurrent(a, l) /\ l.svc \in Services
    BY DEF Faithful, Jobs
  <2>2. services'[l.svc] = services[l.svc] /\ accesses'[a] = accesses[a]
    BY <2>1 DEF Still
  <2> QED
    BY <2>1, <2>2 DEF ListedCurrent
<1>2. \A k \in NamedOf(a) : netpols[k] # Absent => netpols'[k] # Absent
  BY DEF Still
<1>3. \A s \in j.matched : services'[s] # Absent
  BY DEF Still, Faithful, Jobs
<1>4. accesses'[a] = accesses[a]
  BY DEF Still
<1>5. NamedOf(a)' = NamedOf(a)
  BY DEF NamedOf, NamedFor
<1> QED
  BY <1>1, <1>2, <1>3, <1>4, <1>5 DEF Faithful, AllConditionsReady

\* So do lists of what there is.
LEMMA AllThereStays ==
  ASSUME TypeInv, ListsNamed, NEW a \in Accesses, accesses[a] # Absent, Still(a),
         AllThere(accesses[a])
  PROVE  AllThere(accesses[a])'
<1>1. accesses[a] \in AccessObjects
  BY MaybeIn DEF TypeInv, ClusterTypeOK, AccessesTypeOK
<1>2. accesses[a].netpols \subseteq NamedOf(a) /\ accesses[a].services \subseteq Services
  BY <1>1 DEF ListsNamed, AccessObjects
<1> QED
  BY <1>2 DEF Still, AllThere

\* A service of which a makes a source gives CIDRs only, unless a is refused.
LEMMA CidrsTaken ==
  ASSUME TypeInv, NEW a \in Accesses, Still(a), ~Refused(a), NEW l, l.svc \in Services,
         ListedCurrent(a, l), IsSource(l, accesses[a].spec),
         NEW c \in FinalCidrs(TargetsOf(l.version, accesses[a].spec),
                              l.version.targets # NoAnnotation),
         TargetsOf(l.version, accesses[a].spec) \subseteq Targets
  PROVE  c.form = "cidr"
<1> DEFINE T == TargetsOf(l.version, accesses[a].spec)
<1>1. HasDetails(services[l.svc])
  BY DEF IsSource, Still
<1>2. \A x \in T : x.form # "address"
  BY <1>1 DEF Refused, ListedCurrent, IsSource
<1>3. T \subseteq WrittenTargets
  BY ExternalAssumption
<1>4. c.form \in {"cidr", "address"}
  BY DEF FinalCidrs, ValidateTargetCIDR
<1>5. \E x \in T : c = x \/ c = FromAnnotation(x)
  BY DEF FinalCidrs
<1>6. c.form = "address" => \E x \in T : x.form = "address"
  <2>1. \A x \in T : FromAnnotation(x).form = "address" => x.form = "address"
    BY <1>3 DEF FromAnnotation, WrittenTargets
  <2> QED
    BY <1>5, <2>1
<1> QED
  BY <1>2, <1>4, <1>6

\* Deploying the policy of a CIDR, where nobody comes between, leaves it stored, and no
\* condition False.
LEMMA DeployFaithful ==
  ASSUME TypeInv, PoliciesKnown, ~Fault, NEW a \in Accesses, Still(a), ~Summoned(a)',
         NEW w \in Kinds, Deploy(w), NEW i, i = job[w], i.req = a, Aims(i),
         Faithful(a, i), NEW j, j = job'[w]
  PROVE  GoesOn(i, j) /\ j.pc # "expired" /\ Faithful(a, j)
<1>1. /\ i.pc = "targets" /\ i.obj \in AccessObjects /\ i.source \in Sources
      /\ i.targets \subseteq Targets
  BY DEF Deploy, TypeInv, JobsHeld, Holds, Jobs, Idle
<1>2. PICK c \in i.targets, status \in {"True", "False"}, k \in NetpolKeys :
        /\ k = PolicyKey(i.req, i.source.svc, i.source.direction, c)
        /\ DeployResource(k, Policy(i.obj, i.req, i.source, c), status)
        /\ GoesOn(i, j) /\ j.pc # "expired"
        /\ j.obj = WithCond(i.obj, "NetworkPolicyDeployReady", status)
        /\ j.owned = i.owned /\ j.listed = i.listed /\ j.targets \subseteq i.targets
        /\ j.matched = i.matched /\ j.deployed = i.deployed \cup {k}
  BY DeployGoes
<1>3. InScope(a, i.source.svc) /\ ValidateTargetCIDR(c)
  BY <1>1, <1>2 DEF Aims
<1>4. k \in NamedOf(a)
  BY <1>1, <1>2, <1>3 DEF NamedOf, NamedFor, Sources
<1>5. npEvents[k] = {} /\ npCache[k] = netpols[k]
  BY <1>4 DEF Still
<1>6. PICK n : n = Policy(i.obj, i.req, i.source, c)
  OBVIOUS
<1>7. n \in NetpolObjects
  BY <1>1, <1>2, <1>6, PolicyType DEF Deploy
<1>8. n.owner = a
  BY <1>6 DEF Policy
<1>9. Valid(n)
  <2>1. c.form = "cidr"
    BY <1>2 DEF Faithful
  <2>2. n.spec = DefineExternalAccessNetworkPolicyCIDR(i.source.pods, c, i.source.ports,
                                                       i.source.direction)
    BY <1>6 DEF Policy
  <2> QED
    BY <2>1, <2>2 DEF DefineExternalAccessNetworkPolicyCIDR, NetpolSpec, CidrRule, Valid,
                      ServerTakes
<1>10. netpols[k] # Absent
  <2>1. netpols[k] # Absent \/ n.owner \in npEvents'[k]
    BY <1>2, <1>5, <1>6, <1>7, <1>9, Deployed
  <2> QED
    BY <1>8, <2>1 DEF Summoned
<1>11. status # "False"
  BY <1>2, <1>5, <1>6, <1>9 DEF DeployResource, CreateResource, ReconcileResource
<1>12. /\ j.obj.spec = i.obj.spec /\ j.obj.deleting = i.obj.deleting
       /\ j.obj.netpols = i.obj.netpols /\ j.obj.services = i.obj.services
  BY <1>2 DEF GoesOn
<1>13. AllConditionsReady(j.obj)
  <2>1. status \in Statuses /\ "NetworkPolicyDeployReady" \in CondTypes
    BY <1>2, ConstantsType
  <2> QED
    BY <1>1, <1>2, <1>11, <2>1, CondOnly DEF Faithful
<1> QED
  BY <1>2, <1>4, <1>10, <1>12, <1>13 DEF Faithful

\* The policies it lists are its object's, where labels tell owners, and stored, where
\* nobody comes between.
LEMMA OwnedFaithful ==
  ASSUME LabelsApart, LabelsNamed, TypeInv, NEW a \in Accesses, Still(a),
         NEW w \in Kinds, ListOwned(w), job[w].req = a, NEW o \in job'[w].owned
  PROVE  o.key \in NamedOf(a) /\ netpols[o.key] # Absent
<1>1. PICK i, j : i = job[w] /\ j = job'[w]
  OBVIOUS
<1>2. o.key \in NetpolKeys /\ Owns(i, j) /\ j.req = a
  BY <1>1, OwnedGoes DEF GoesOn
<1>3. npCache[o.key] # Absent
  BY <1>1, <1>2 DEF Owns
<1>4. PICK l \in LabelsFor(a, npCache[o.key]) : TRUE
  BY <1>1, <1>2 DEF Owns
<1>5. l \in LabelsOf(npCache[o.key]) /\ NamedFor(o.key, l.owner, l.svc)
  BY <1>2, <1>3, <1>4 DEF LabelsFor, LabelsNamed
<1>6. l.owner \in Accesses /\ l.svc \in Services
  <2>1. npCache[o.key] \in NetpolObjects
    BY <1>2, <1>3, MaybeIn DEF TypeInv, ClusterTypeOK, NetpolsTypeOK
  <2> QED
    BY <1>5, <2>1 DEF LabelsOf, NetpolObjects, OwnerLabels
<1>7. l.owner = a
  BY <1>4, <1>6 DEF LabelsFor, LabelsApart
<1>8. o.key \in NamedOf(a)
  BY <1>2, <1>5, <1>6, <1>7 DEF NamedOf
<1> QED
  BY <1>3, <1>8 DEF Still

\* A reconcile that has met no obstacle meets none, where nobody comes between.
LEMMA FaithfulGoes ==
  ASSUME LabelsApart, LabelsNamed, TypeInv, PoliciesKnown, ~Fault, NEW a \in Accesses,
         Still(a), ~Summoned(a)', ~Refused(a),
         NEW w \in Kinds, w = KindOf[a], WorkerStep(w), ~FinishReconcile(w),
         NEW i, i = job[w], i.pc \notin {Idle, "expired"}, i.req = a, Aims(i),
         Faithful(a, i), NEW j, j = job'[w]
  PROVE  GoesOn(i, j) /\ Faithful(a, j)
<1>1. i \in Jobs /\ i.obj \in AccessObjects /\ i.obj.spec = accesses[a].spec
  BY DEF TypeInv, JobsHeld, Holds, Faithful
<1>2. ~DeleteExpired(w) /\ ~Undeploy(w)
  BY DEF DeleteExpired, Undeploy, Aims, Faithful
<1>3. CASE CleanupOne(w)
  <2>1. /\ GoesOn(i, j)
        /\ j.owned \subseteq i.owned /\ j.listed = i.listed /\ j.targets = i.targets
        /\ j.matched = i.matched /\ j.deployed = i.deployed
        /\ \/ AllConditionsReady(i.obj) => AllConditionsReady(j.obj)
           \/ Fault \/ \E o \in i.owned : netpols[o.key] = Absent
    BY <1>3, CleanupGoes
  <2> QED
    BY <2>1 DEF Faithful, GoesOn
<1>4. CASE ListServices(w)
  <2>1. /\ GoesOn(i, j) /\ j.obj = i.obj
        /\ j.owned = i.owned /\ j.targets = i.targets
        /\ j.matched = i.matched /\ j.deployed = i.deployed
        /\ Lists(w, i, j)
    BY <1>4, ListGoes
  <2>2. \A l \in j.listed : l.svc \in Services
    BY <2>1 DEF GoesOn, Jobs
  <2>3. \A l \in j.listed : ListedCurrent(a, l)
    BY <1>1, <2>1, <2>2 DEF Lists, ListedCurrent, Still
  <2> QED
    BY <2>1, <2>3 DEF Faithful
<1>5. CASE SkipService(w) \/ BeginService(w)
  <2>1. PICK l \in i.listed :
          /\ GoesOn(i, j) /\ j.obj = i.obj /\ j.owned = i.owned
          /\ j.listed \subseteq i.listed /\ j.matched = i.matched \cup {l.svc}
          /\ j.deployed = i.deployed
          /\ \/ j.targets = i.targets
             \/ /\ IsSource(l, i.obj.spec)
                /\ j.targets = FinalCidrs(TargetsOf(l.version, i.obj.spec),
                                          l.version.targets # NoAnnotation)
    BY <1>5, ServiceGoes
  <2>2. ListedCurrent(a, l) /\ l.svc \in Services /\ l.version \in ServiceVersions
    BY <1>1, <2>1 DEF Faithful, Jobs
  <2>3. TargetsOf(l.version, i.obj.spec) \subseteq Targets
    BY <1>1, <2>2 DEF TargetsOf, ServiceVersions, AccessSpecs, AccessObjects
  <2>4. \A c \in j.targets : c.form = "cidr"
    BY <1>1, <2>1, <2>2, <2>3, CidrsTaken DEF Faithful
  <2>5. services[l.svc] # Absent
    BY <2>2 DEF ListedCurrent
  <2> QED
    BY <2>1, <2>4, <2>5 DEF Faithful
<1>6. CASE Deploy(w)
  BY <1>6, DeployFaithful
<1>7. ~ListFails(w)
  BY DEF ListFails, Summoned
<1>8. CASE ListOwned(w)
  <2>1. /\ GoesOn(i, j) /\ j.obj = i.obj
        /\ j.listed = i.listed /\ j.targets = i.targets
        /\ j.matched = i.matched /\ j.deployed = i.deployed
    BY <1>8, OwnedGoes
  <2>2. \A o \in j.owned : o.key \in NamedOf(a) /\ netpols[o.key] # Absent
    BY <1>8, OwnedFaithful
  <2> QED
    BY <2>1, <2>2 DEF Faithful
<1> QED
  BY <1>2, <1>3, <1>4, <1>5, <1>6, <1>7, <1>8 DEF WorkerStep

\* And when it finishes, the object's lists are of what there is.
LEMMA FinishTells ==
  ASSUME TypeInv, ListsNamed, ~Fault, NEW a \in Accesses, accesses[a] # Absent,
         Still(a), ~Summoned(a)', a \notin touched, NEW w \in Kinds, FinishReconcile(w),
         NEW i, i = job[w], i.req = a, Faithful(a, i)
  PROVE  AllThere(accesses[a])
<1>1. i \in Jobs /\ i.pc = "services" /\ i.obj \in AccessObjects
  BY DEF FinishReconcile, TypeInv, JobsHeld, Holds, Idle
<1>2. PICK r : r = Refreshed(i)
  OBVIOUS
<1>3. /\ r \in AccessObjects
      /\ r.netpols = {k \in i.obj.netpols : npCache[k] # Absent} \cup i.deployed
      /\ r.services = {s \in i.obj.services : svcCache[s] # Absent} \cup i.matched
      /\ AllConditionsReady(r)
  BY <1>1, <1>2, RefreshedIs DEF Faithful
<1>4. i.obj.netpols \subseteq NamedOf(a) /\ i.obj.services \subseteq Services
  BY <1>1 DEF ListsNamed, HoldsNamed, AccessObjects, Idle
<1>5. AllThere(r)
  BY <1>3, <1>4 DEF AllThere, Faithful, Still
<1>6. CASE ~StatusChanged(w)
  <2>1. Existing(i.obj) = i.obj
    BY <1>6 DEF StatusChanged
  <2>2. PICK e : e = Existing(i.obj)
    OBVIOUS
  <2>3. /\ e.netpols = {k \in i.obj.netpols : npCache[k] # Absent}
        /\ e.services = {s \in i.obj.services : svcCache[s] # Absent}
    BY <1>1, <2>2 DEF Existing, AccessObjects
  <2>4. AllThere(i.obj)
    BY <1>3, <1>5, <2>1, <2>2, <2>3 DEF AllThere
  <2> QED
    BY <2>4 DEF AllThere, Faithful
<1>7. CASE StatusChanged(w)
  <2>1. PICK p : p = WithStatus(a, WithCond(r, "Ready", "True"))
    OBVIOUS
  <2>2. p = accesses[a] \/ WriteAccess(a, p)
    BY <1>2, <1>3, <1>7, <2>1 DEF FinishReconcile, UpdateStatus
  <2>3. p = accesses[a]
    BY <2>2 DEF WriteAccess, Summoned
  <2>4. p.netpols = r.netpols /\ p.services = r.services
    BY <1>3, <2>1, ReadyIs
  <2> QED
    BY <1>5, <2>3, <2>4 DEF AllThere
<1> QED
  BY <1>6, <1>7

\* The copy a reconcile begins with is faithful where nothing is under way.
LEMMA StartFaithful ==
  ASSUME TypeInv, ConditionsReady, NEW a \in Accesses, Living(a), Still(a),
         ReconcileStart(a), NEW j, j = job'[KindOf[a]]
  PROVE  Faithful(a, j)
<1>1. accesses[a] \in AccessObjects /\ accCache[a] = accesses[a]
  BY MaybeIn DEF Living, Still, TypeInv, ClusterTypeOK, AccessesTypeOK
<1>2. j.obj = Dated(accesses[a]) /\ j.req = a
  BY <1>1, StartHolds
<1>3. /\ j.owned = {} /\ j.listed = {} /\ j.targets = {}
      /\ j.matched = {} /\ j.deployed = {}
  BY StartEmpty
<1>4. /\ j.obj.spec = accesses[a].spec /\ ~j.obj.deleting
      /\ j.obj.netpols = accesses[a].netpols /\ j.obj.services = accesses[a].services
      /\ AllConditionsReady(j.obj)
  BY <1>1, <1>2, DatedOnly DEF Living, ConditionsReady
<1> QED
  BY <1>3, <1>4 DEF Faithful

\* Only a request brings an object before its worker.
LEMMA ServingFrom ==
  ASSUME TypeInv, [Next]_vars, NEW a \in Accesses, ~Serving(a), a \notin queue
  PROVE  ~Serving(a)'
<1>1. PICK w \in Kinds : w = KindOf[a]
  BY ExternalAssumption
<1>2. ~ReconcileStart(a)
  BY DEF ReconcileStart
<1> QED
  BY <1>1, <1>2, JobTurns DEF Serving, Works, SameCopy, NoJob

\* The lists stay attended.
LEMMA ListsNext ==
  ASSUME KeysApart, LabelsApart, NamedBase, TypeInv', LabelsNamed', ListsNamed,
         ConditionsReady, ListsAttended, [Next]_vars
  PROVE  ListsAttended'
<1> SUFFICES ASSUME faults' = 0, NEW a \in Accesses, Living(a)', ~Refused(a)', ~Summoned(a)'
             PROVE  IF Serving(a)'
                    THEN \/ job'[KindOf[a]].pc = "expired"
                         \/ a \notin touched' /\ Faithful(a, job[KindOf[a]])'
                    ELSE AllThere(accesses[a])'
  BY DEF ListsAttended
<1>0. PICK w \in Kinds : w = KindOf[a]
  BY ExternalAssumption
<1>1. /\ TypeInv /\ CachesCurrent /\ PoliciesKnown /\ LabelsNamed /\ EventsNamed
      /\ \A v \in Kinds : Aims(job[v])
  BY DEF NamedBase, QuietBase, LedgerInv
<1>2. faults = 0 /\ ~Fault
  BY <1>1, FaultsStay
<1>3. Still(a) /\ (a \in queue => Reconcile(a)) /\ (a \notin queue => ~Summoned(a))
  BY <1>1, Calm DEF Living
<1>4. Living(a) /\ accesses[a] # Absent /\ accesses'[a] # Absent
  BY <1>3 DEF Living, Still
<1>5. ~Refused(a)
  BY <1>3 DEF Refused, Still
<1>6. a \in touched' => a \in touched /\ ~ReconcileStart(a)
  BY <1>1, TouchedNoted DEF Summoned
<1>7. PICK j : j = job'[w]
  OBVIOUS
<1>8. job'[w] \in Jobs
  BY DEF TypeInv, JobsHeld
<1>9. CASE a \in queue
  <2>1. ReconcileStart(a)
    BY <1>3, <1>4, <1>9 DEF Reconcile, ReconcileGone, Still
  <2>2. j.pc \in {"expired", "list"} /\ j.req = a /\ Faithful(a, j)
    BY <1>0, <1>1, <1>3, <1>4, <1>7, <2>1, StartHolds, StartFaithful
  <2>3. Faithful(a, j)'
    BY <1>1, <1>3, <1>7, <1>8, <2>2, FaithfulStays
  <2>4. Faithful(a, job[KindOf[a]])'
    BY <1>0, <1>7, <2>3 DEF Faithful
  <2> QED
    BY <1>0, <1>6, <1>7, <2>1, <2>2, <2>4 DEF Serving, Idle
<1>10. CASE a \notin queue /\ ~Serving(a)
  <2>1. AllThere(accesses[a])
    BY <1>2, <1>3, <1>4, <1>5, <1>10 DEF ListsAttended
  <2>2. AllThere(accesses[a])'
    BY <1>1, <1>3, <1>4, <2>1, AllThereStays
  <2> QED
    BY <1>1, <1>10, <2>2, ServingFrom
<1>11. CASE a \notin queue /\ Serving(a)
  <2> DEFINE i == job[w]
  <2>1. /\ i.pc # Idle /\ i.req = a
        /\ i.pc = "expired" \/ (a \notin touched /\ Faithful(a, i))
    BY <1>0, <1>2, <1>3, <1>4, <1>5, <1>11 DEF ListsAttended, Serving
  <2>2. ASSUME j.pc # Idle, j.req = a, a \notin touched, Faithful(a, j)
        PROVE  Serving(a)' /\ a \notin touched' /\ Faithful(a, job[KindOf[a]])'
    <3>1. Faithful(a, j)'
      BY <1>1, <1>3, <1>7, <1>8, <2>2, FaithfulStays
    <3>2. Faithful(a, job[KindOf[a]])'
      BY <1>0, <1>7, <3>1 DEF Faithful
    <3> QED
      BY <1>0, <1>6, <1>7, <2>2, <3>2 DEF Serving
  <2>3. CASE j = i
    <3>1. CASE i.pc = "expired"
      BY <1>0, <1>7, <2>1, <2>3, <3>1 DEF Serving
    <3> QED
      BY <2>1, <2>2, <2>3, <3>1
  <2>4. ~Restart
    BY <1>4, RestartQueues DEF Summoned
  <2>5. WorkerStep(w) => i.pc # "expired"
    BY <1>1, <1>2, <1>4, <2>1, ExpiredDeleted
  <2>6. CASE WorkerStep(w) /\ ~FinishReconcile(w)
    <3>1. GoesOn(i, j) /\ Faithful(a, j)
      BY <1>0, <1>1, <1>2, <1>3, <1>5, <1>7, <2>1, <2>5, <2>6, FaithfulGoes
    <3> QED
      BY <2>1, <2>2, <2>5, <2>6, <3>1 DEF GoesOn
  <2>7. CASE WorkerStep(w) /\ FinishReconcile(w)
    <3>1. AllThere(accesses[a])
      BY <1>1, <1>2, <1>3, <1>4, <2>1, <2>5, <2>7, FinishTells
    <3>2. AllThere(accesses[a])'
      BY <1>1, <1>3, <1>4, <3>1, AllThereStays
    <3>3. job'[w] = NoJob
      BY <1>1, <2>7 DEF FinishReconcile, Become, TypeInv, JobsHeld
    <3> QED
      BY <1>0, <3>2, <3>3 DEF Serving, NoJob
  <2> QED
    BY <1>1, <1>7, <2>1, <2>3, <2>4, <2>6, <2>7, RunningNext
<1> QED
  BY <1>9, <1>10, <1>11

\* Where names tell objects and services apart and labels tell owners, the status of a
\* living object that asks for nothing the API server refuses comes true: when nothing
\* is left to do and no write failed, it lists no service and no policy that has gone,
\* whatever was deleted, restarted or written in between.
THEOREM ListedExistOfEither == KeysApart /\ LabelsApart => (Spec => []ListedExist)
<1> SUFFICES ASSUME KeysApart, LabelsApart
             PROVE  Spec => []ListedExist
  OBVIOUS
<1> DEFINE Inv == NamedBase /\ ListsNamed /\ ConditionsReady /\ ListsAttended
<1>1. Init => Inv
  <2> SUFFICES ASSUME Init
               PROVE  ListsNamed /\ ConditionsReady /\ ListsAttended
    BY InitNamedBase
  <2>1. ASSUME NEW a \in Accesses, accesses[a] # Absent
        PROVE  /\ a \in queue /\ accesses[a].netpols = {}
               /\ AllConditionsReady(accesses[a])
    <3>1. PICK sp \in UNION {Specs[b] : b \in Accesses} : accesses[a] = NewAccess(sp)
      BY <2>1 DEF Init, ClusterInit, Maybe
    <3>2. a \in queue
      BY <2>1 DEF Init, ClusterInit
    <3>3. accesses[a].netpols = {} /\ accesses[a].conds = NoConds
      BY <3>1 DEF NewAccess
    <3> QED
      BY <3>2, <3>3 DEF AllConditionsReady, NoConds
  <2>2. accCache = accesses /\ \A w \in Kinds : job[w] = NoJob
    BY DEF Init, ClusterInit, AllIdle
  <2> QED
    BY <2>1, <2>2 DEF ListsNamed, HoldsNamed, NoJob, ConditionsReady, ListsAttended, Living,
                      Summoned
<1>2. Inv /\ [Next]_vars => Inv'
  <2> SUFFICES ASSUME Inv, [Next]_vars
               PROVE  Inv'
    OBVIOUS
  <2>1. NamedBase'
    BY NamedBaseNext
  <2>2. TypeInv' /\ LabelsNamed'
    BY <2>1 DEF NamedBase, QuietBase, LedgerInv
  <2>3. TypeInv /\ \A w \in Kinds : Aims(job[w])
    BY DEF NamedBase, QuietBase, LedgerInv
  <2> QED
    BY <2>1, <2>2, <2>3, ListsNamedNext, ConditionsReadyNext, ListsNext
<1>3. Inv => ListedExist
  <2> SUFFICES ASSUME Inv, Quiet, faults = 0, NEW a \in Accesses, Living(a), ~Refused(a)
               PROVE  AllThere(accesses[a])
    BY DEF ListedExist
  <2>1. KindOf[a] \in Kinds
    BY ExternalAssumption
  <2>2. ~Summoned(a) /\ ~Serving(a)
    BY <2>1 DEF Quiet, Settled, Summoned, Serving
  <2> QED
    BY <2>2 DEF ListsAttended
<1> HIDE DEF Inv
<1> QED
  BY <1>1, <1>2, <1>3, PTL DEF Spec
=============================================================================
