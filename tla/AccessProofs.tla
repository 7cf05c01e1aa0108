---------------------------- MODULE AccessProofs ----------------------------
(***************************************************************************)
(* Theorems about the Access controller, for all services, Accesses,       *)
(* names, versions, specs and bounds.                                      *)
(***************************************************************************)
EXTENDS AccessProperties, ClusterProofs

\* What CommonReconcileLogic holds at each place, which makes the typing inductive.
Holding ==
  /\ pc # Idle => req \in Accesses /\ obj \in AccessObjects
  /\ pc \in {"targets", "undeploy"} => source \in Sources
  /\ pc = "undeploy" => undeploy \in NetpolKeys

TypeInv == TypeOK /\ Holding

-----------------------------------------------------------------------------
(* Operators *)

\* The policy of a source and a target is stored under a key.
LEMMA KeyType ==
  ASSUME NEW a \in Accesses, NEW s \in Services, NEW t \in Services, NEW d
  PROVE  PolicyKey(a, s, d, t) \in NetpolKeys
<1>1. NsOf[s] \in Namespaces /\ NameOf \in [NameParts -> NetpolNames]
  BY ClusterAssumption
<1>2. [access |-> a, self |-> s, peer |-> t,
       suffix |-> DirectionSuffix(ToLower(d)), mirror |-> FALSE] \in NameParts
  BY SuffixType, AccessAssumption DEF NameParts
<1> QED
  BY <1>1, <1>2 DEF PolicyKey, NetpolKeys

\* It is a policy, and stays one when the API server defaults its types.
LEMMA PolicyType ==
  ASSUME NEW o \in AccessObjects, NEW a \in Accesses, NEW src \in Sources,
         NEW t \in Services, NEW p \in Pods
  PROVE  /\ Policy(o, a, src, t, p) \in NetpolObjects
         /\ Stored(Policy(o, a, src, t, p)) \in NetpolObjects
<1> DEFINE n == Policy(o, a, src, t, p)
<1>1. /\ src.svc \in Services /\ src.pods \in Pods /\ src.ports \in SUBSET ServicePorts
      /\ o.uid \in Nat
  BY DEF Sources, AccessObjects
<1>2. NsOf[t] \in Namespaces
  BY ClusterAssumption
<1>3. DefineAccessNetworkPolicy(src.pods, p, NsOf[t], src.ports, src.direction)
        \in NetpolSpecs
  BY <1>1, <1>2, AccessNetpolType
<1>4. n \in NetpolObjects
  BY <1>1, <1>3 DEF Policy, NetpolObjects
<1> HIDE DEF n
<1>5. \A types \in SUBSET {"Ingress", "Egress"} :
        [n EXCEPT !.spec.policyTypes = types] \in NetpolObjects
  BY <1>4 DEF NetpolObjects, NetpolSpecs
<1>6. {"Ingress"} \cup (IF n.spec.egress # {} THEN {"Egress"} ELSE {})
        \in SUBSET {"Ingress", "Egress"}
  OBVIOUS
<1>7. Stored(n) \in NetpolObjects
  BY <1>4, <1>5, <1>6 DEF Stored
<1> QED
  BY <1>4, <1>7 DEF n

\* isExpired leaves an Access.
LEMMA DatedType ==
  ASSUME NEW o \in AccessObjects
  PROVE  Dated(o) \in AccessObjects
<1>1. o.spec.duration # NoDuration => o.created + ParseDuration(o.spec.duration) \in Times
  <2>1. o.spec.duration # NoDuration => ParseDuration(o.spec.duration) \in Int
    BY DurationType DEF AccessObjects, AccessSpecs
  <2> QED
    BY <2>1 DEF AccessObjects, Times
<1> QED
  BY <1>1 DEF Dated, AccessObjects

-----------------------------------------------------------------------------
(* What the worker holds *)

\* A step of others leaves it alone.
LEMMA JobSame ==
  ASSUME JobTypeOK, Holding, UNCHANGED ctlVars
  PROVE  JobTypeOK' /\ Holding'
BY DEF JobTypeOK, Holding, ctlVars, jobVars

\* After a reconcile it holds nothing.
LEMMA RestType ==
  ASSUME ToRest
  PROVE  JobTypeOK' /\ Holding'
BY DEF ToRest, JobTypeOK, Holding, Maybe, PCs, Idle

\* A restart drops it.
LEMMA RestartType ==
  ASSUME TypeInv, Restart
  PROVE  TypeInv'
BY RestType, ClusterRestartType DEF TypeInv, TypeOK, Restart

-----------------------------------------------------------------------------
(* The worker's steps *)

\* The start of a reconcile: what is read from the cache is an Access.
LEMMA ReconcileType ==
  ASSUME TypeInv, NEW a \in Accesses, Reconcile(a)
  PROVE  TypeInv'
<1> USE DEF TypeInv, TypeOK, ClusterTypeOK
<1>1. CASE ReconcileGone(a)
  <2>1. WakeTypeOK'
    BY <1>1 DEF ReconcileGone, WakeTypeOK
  <2> QED
    BY <1>1, <2>1, ServicesSame, AccessesSame, NetpolsSame, BoundsSame, JobSame
       DEF ReconcileGone
<1>2. CASE ReconcileStart(a)
  <2>1. accCache[a] \in AccessObjects
    BY <1>2, MaybeIn DEF ReconcileStart, AccessesTypeOK
  <2>2. obj' \in AccessObjects /\ obj' \in Maybe(AccessObjects)
    BY <1>2, <2>1, DatedType, ConstantsType DEF ReconcileStart
  <2>3. pc' \in {"expired", "list"} /\ req' = a
    BY <1>2 DEF ReconcileStart
  <2>4. JobTypeOK' /\ Holding'
    BY <1>2, <2>2, <2>3, ConstantsType
       DEF ReconcileStart, JobTypeOK, Holding, PCs, Idle
  <2>5. WakeTypeOK'
    BY <1>2 DEF ReconcileStart, WakeTypeOK
  <2> QED
    BY <1>2, <2>4, <2>5, ServicesSame, AccessesSame, NetpolsSame, BoundsSame
       DEF ReconcileStart
<1> QED
  BY <1>1, <1>2 DEF Reconcile

\* The deletion of an expired Access.
LEMMA DeleteExpiredType ==
  ASSUME TypeInv, DeleteExpired
  PROVE  TypeInv'
<1> USE DEF TypeInv, TypeOK, ClusterTypeOK
<1>1. req \in Accesses
  BY DEF DeleteExpired, Holding, Idle
<1>2. AccessesTypeOK'
  BY <1>1, WriteAccessType, AccessesSame, ConstantsType DEF DeleteExpired, AccessesTypeOK
<1>3. BoundsTypeOK'
  BY FaultType DEF DeleteExpired
<1>4. WakeTypeOK'
  BY <1>1 DEF DeleteExpired, WakeTypeOK
<1>5. JobTypeOK' /\ Holding'
  BY RestType DEF DeleteExpired
<1> QED
  BY <1>2, <1>3, <1>4, <1>5, ServicesSame, NetpolsSame DEF DeleteExpired

\* The list of the owned policies: what is read is in the cache.
LEMMA ListOwnedType ==
  ASSUME TypeInv, ListOwned
  PROVE  TypeInv'
<1> USE DEF TypeInv, TypeOK, ClusterTypeOK
<1>1. \A k \in NetpolKeys : npCache[k] # Absent => npCache[k].svc \in Services
  BY DEF NetpolsTypeOK, Maybe, NetpolObjects
<1>2. owned' \subseteq [key : NetpolKeys, svc : Services]
  BY <1>1 DEF ListOwned
<1>3. JobTypeOK' /\ Holding'
  BY <1>2 DEF ListOwned, JobTypeOK, Holding, PCs, Idle
<1> QED
  BY <1>3, ClusterSame DEF ListOwned

\* One step of the cleanup.
LEMMA CleanupOneType ==
  ASSUME TypeInv, CleanupOne
  PROVE  TypeInv'
<1> USE DEF TypeInv, TypeOK, ClusterTypeOK
<1>1. PICK o \in owned :
        /\ owned' = owned \ {o}
        /\ Fault \/ NoFault
        /\ UNCHANGED npVars \/ WriteNetpol(o.key, Absent)
  BY DEF CleanupOne
<1>2. o.key \in NetpolKeys
  BY <1>1 DEF JobTypeOK
<1>3. NetpolsTypeOK' /\ BoundsTypeOK'
  BY <1>1, <1>2, WriteNetpolType, NetpolsSame, FaultType, ConstantsType
<1>4. JobTypeOK' /\ Holding'
  BY <1>1 DEF CleanupOne, JobTypeOK, Holding
<1> QED
  BY <1>3, <1>4, ServicesSame, AccessesSame, WakeSame DEF CleanupOne

\* The list of the services, or its failure.
LEMMA ListType ==
  ASSUME TypeInv, ListServices \/ ListFails
  PROVE  TypeInv'
<1> USE DEF TypeInv, TypeOK, ClusterTypeOK
<1>1. CASE ListServices
  <2>1. listed' \subseteq [svc : Services, version : ServiceVersions]
    BY <1>1 DEF ListServices, ServicesTypeOK, Maybe
  <2>2. JobTypeOK' /\ Holding'
    BY <1>1, <2>1 DEF ListServices, JobTypeOK, Holding, PCs, Idle
  <2> QED
    BY <1>1, <2>2, ClusterSame DEF ListServices
<1>2. CASE ListFails
  <2>1. WakeTypeOK'
    BY <1>2 DEF ListFails, WakeTypeOK, Holding, Idle
  <2> QED
    BY <1>2, <2>1, RestType, ServicesSame, AccessesSame, NetpolsSame, BoundsSame
       DEF ListFails
<1> QED
  BY <1>1, <1>2

\* One listed service: what passes the checks is a source.
LEMMA ServiceStepType ==
  ASSUME TypeInv, SkipService \/ BeginService
  PROVE  TypeInv'
<1> USE DEF TypeInv, TypeOK, ClusterTypeOK
<1>1. CASE SkipService
  <2>1. JobTypeOK' /\ Holding'
    BY <1>1 DEF SkipService, JobTypeOK, Holding
  <2> QED
    BY <1>1, <2>1, ClusterSame DEF SkipService
<1>2. CASE BeginService
  <2>1. PICK l \in listed :
          /\ IsSource(l)
          /\ listed' = listed \ {l}
          /\ matched' = matched \cup {l.svc}
          /\ targets' = TargetsOf(l.version, obj.spec)
          /\ source' = [svc |-> l.svc, direction |-> DirectionOf(l.version, obj.spec),
                        pods |-> svcCache[l.svc].pods, ports |-> svcCache[l.svc].ports]
    BY <1>2 DEF BeginService
  <2>2. l.svc \in Services /\ l.version \in ServiceVersions
    BY <2>1 DEF JobTypeOK
  <2>3. obj.spec \in AccessSpecs
    BY <1>2 DEF BeginService, Holding, Idle, AccessObjects
  <2>4. TargetsOf(l.version, obj.spec) \subseteq Services
    BY <2>2, <2>3, AccessAssumption DEF TargetsOf, ServiceVersions, AccessSpecs
  <2>5. DirectionOf(l.version, obj.spec) \in RawDirections
    BY <2>2, <2>3 DEF DirectionOf, ServiceVersions, AccessSpecs
  <2>6. svcCache[l.svc] \in ServiceVersions /\ svcCache[l.svc].pods # NoPods
    BY <2>1, <2>2 DEF IsSource, HasDetails, ServicesTypeOK, Maybe
  <2>7. source' \in Sources
    BY <2>1, <2>2, <2>5, <2>6 DEF Sources, ServiceVersions
  <2>8. JobTypeOK' /\ Holding'
    BY <1>2, <2>1, <2>2, <2>4, <2>7, ConstantsType
       DEF BeginService, JobTypeOK, Holding, PCs, Idle
  <2> QED
    BY <1>2, <2>8, ClusterSame DEF BeginService
<1> QED
  BY <1>1, <1>2

\* Where a target ends, the worker holds what the next place needs.
LEMMA NextTargetType ==
  ASSUME source \in Sources, NextTarget
  PROVE  /\ pc' \in {"services", "targets"} /\ source' \in Maybe(Sources)
         /\ pc' = "targets" => source' \in Sources
BY ConstantsType DEF NextTarget

\* A target without details.
LEMMA SkipTargetType ==
  ASSUME TypeInv, SkipTarget
  PROVE  TypeInv'
<1> USE DEF TypeInv, TypeOK, ClusterTypeOK
<1>1. source \in Sources
  BY DEF SkipTarget, Holding
<1>2. targets' \subseteq Services
  BY DEF SkipTarget, JobTypeOK
<1>3. JobTypeOK' /\ Holding'
  BY <1>1, <1>2, NextTargetType DEF SkipTarget, JobTypeOK, Holding, PCs, Idle
<1> QED
  BY <1>3, ClusterSame DEF SkipTarget

\* deployResource stores a policy, or nothing.
LEMMA DeployResourceType ==
  ASSUME NetpolsTypeOK, BoundsTypeOK, NEW k \in NetpolKeys, NEW n,
         Stored(n) \in NetpolObjects, DeployResource(k, n)
  PROVE  NetpolsTypeOK' /\ BoundsTypeOK'
<1>1. /\ Fault \/ NoFault
      /\ UNCHANGED npVars \/ WriteNetpol(k, Stored(n))
  BY DEF DeployResource, CreateResource, ReconcileResource, Put
<1>2. Stored(n) \in Maybe(NetpolObjects)
  BY ConstantsType
<1> QED
  BY <1>1, <1>2, WriteNetpolType, NetpolsSame, FaultType

\* The policy of a source and a target.
LEMMA DeployType ==
  ASSUME TypeInv, Deploy
  PROVE  TypeInv'
<1> USE DEF TypeInv, TypeOK, ClusterTypeOK
<1>1. source \in Sources /\ req \in Accesses /\ obj \in AccessObjects
  BY DEF Deploy, Holding, Idle
<1> DEFINE key(t) == PolicyKey(req, source.svc, source.direction, t)
           policy(t) == Policy(obj, req, source, t, svcCache[t].pods)
<1>2. PICK t \in targets :
        /\ HasDetails(svcCache[t])
        /\ targets' = targets \ {t}
        /\ DeployResource(key(t), policy(t))
        /\ deployed' = deployed \cup {key(t)}
        /\ IF obj.deleting
           THEN pc' = "undeploy" /\ undeploy' = key(t) /\ UNCHANGED source
           ELSE NextTarget /\ UNCHANGED undeploy
  BY DEF Deploy
<1>3. t \in Services /\ source.svc \in Services
  BY <1>1 DEF JobTypeOK, Sources
<1>4. svcCache[t].pods \in Pods
  BY <1>2, <1>3 DEF HasDetails, ServicesTypeOK, Maybe, ServiceVersions
<1>5. key(t) \in NetpolKeys
  BY <1>1, <1>3, KeyType
<1>6. Stored(policy(t)) \in NetpolObjects
  BY <1>1, <1>3, <1>4, PolicyType
<1> HIDE DEF key, policy
<1>7. NetpolsTypeOK' /\ BoundsTypeOK'
  BY <1>2, <1>5, <1>6, DeployResourceType
<1>8. /\ pc' \in {"services", "targets", "undeploy"} /\ source' \in Maybe(Sources)
      /\ pc' \in {"targets", "undeploy"} => source' \in Sources
      /\ undeploy' \in Maybe(NetpolKeys)
      /\ pc' = "undeploy" => undeploy' \in NetpolKeys
  BY <1>1, <1>2, <1>5, NextTargetType, ConstantsType DEF JobTypeOK
<1>9. targets' \subseteq Services /\ deployed' \subseteq NetpolKeys
  BY <1>2, <1>5 DEF JobTypeOK
<1>10. UNCHANGED <<req, obj, owned, listed, matched, wakeVars, svcVars, accVars>>
  BY DEF Deploy
<1>11. JobTypeOK' /\ Holding'
  BY <1>1, <1>8, <1>9, <1>10 DEF JobTypeOK, Holding, PCs, Idle
<1> QED
  BY <1>7, <1>10, <1>11, ServicesSame, AccessesSame, WakeSame

\* Its deletion.
LEMMA UndeployType ==
  ASSUME TypeInv, Undeploy
  PROVE  TypeInv'
<1> USE DEF TypeInv, TypeOK, ClusterTypeOK
<1>1. source \in Sources /\ undeploy \in NetpolKeys /\ req \in Accesses /\ obj \in AccessObjects
  BY DEF Undeploy, Holding, Idle
<1>2. /\ Fault \/ NoFault
      /\ UNCHANGED npVars \/ WriteNetpol(undeploy, Absent)
  BY DEF Undeploy
<1>3. NetpolsTypeOK' /\ BoundsTypeOK'
  BY <1>1, <1>2, WriteNetpolType, NetpolsSame, FaultType, ConstantsType
<1>4. JobTypeOK' /\ Holding'
  BY <1>1, NextTargetType, ConstantsType DEF Undeploy, JobTypeOK, Holding, PCs, Idle
<1> QED
  BY <1>3, <1>4, ServicesSame, AccessesSame, WakeSame DEF Undeploy

\* A requeue is for a time.
LEMMA RequeueType ==
  ASSUME WakeTypeOK, NEW o \in AccessObjects, Requeue(o), UNCHANGED <<queue, now>>
  PROVE  WakeTypeOK'
<1>1. o.expiresAt \in Times
  BY DEF AccessObjects
<1> QED
  BY <1>1 DEF Requeue, WakeTypeOK

\* The end of a reconcile, in its three forms.
LEMMA FinishType ==
  ASSUME TypeInv, FinishUnchanged \/ PrepareStatus \/ FinishStatus
  PROVE  TypeInv'
<1> USE DEF TypeInv, TypeOK, ClusterTypeOK
<1>1. req \in Accesses /\ obj \in AccessObjects
  BY DEF FinishUnchanged, PrepareStatus, FinishStatus, Holding, Idle
<1>2. CASE FinishUnchanged
  <2>1. WakeTypeOK'
    BY <1>1, <1>2, RequeueType DEF FinishUnchanged
  <2> QED
    BY <1>2, <2>1, RestType, ServicesSame, AccessesSame, NetpolsSame, BoundsSame
       DEF FinishUnchanged
<1>3. CASE PrepareStatus
  <2>1. obj' \in AccessObjects
    BY <1>1, <1>3
       DEF PrepareStatus, FinalNetpols, FinalServices, AccessObjects, JobTypeOK
  <2>2. JobTypeOK' /\ Holding'
    BY <1>1, <1>3, <2>1, ConstantsType DEF PrepareStatus, JobTypeOK, Holding, PCs, Idle
  <2> QED
    BY <1>3, <2>2, ClusterSame DEF PrepareStatus
<1>4. CASE FinishStatus
  <2>1. /\ Fault \/ NoFault
        /\ \/ UNCHANGED accVars
           \/ /\ accCache[req] # Absent
              /\ WriteAccess(req, WithStatus(accCache[req]))
              /\ UNCHANGED specHist
    BY <1>4 DEF FinishStatus
  <2>2. accCache[req] # Absent => WithStatus(accCache[req]) \in AccessObjects
    <3>1. accCache[req] # Absent => accCache[req] \in AccessObjects
      BY <1>1 DEF AccessesTypeOK, Maybe
    <3> QED
      BY <1>1, <3>1 DEF WithStatus, AccessObjects
  <2>3. AccessesTypeOK'
    BY <1>1, <2>1, <2>2, AccessesSame, WriteAccessType, ConstantsType DEF AccessesTypeOK
  <2>4. WakeTypeOK'
    BY <1>1, <1>4, RequeueType DEF FinishStatus
  <2>5. BoundsTypeOK'
    BY <2>1, FaultType
  <2> QED
    BY <1>4, <2>3, <2>4, <2>5, RestType, ServicesSame, NetpolsSame DEF FinishStatus
<1> QED
  BY <1>2, <1>3, <1>4

-----------------------------------------------------------------------------
\* The first states are typed.
LEMMA InitType == Init => TypeInv
<1> SUFFICES ASSUME Init PROVE TypeInv
  OBVIOUS
<1>1. JobTypeOK /\ Holding
  BY ConstantsType DEF Init, AtRest, JobTypeOK, Holding, PCs, Idle
<1> QED
  BY <1>1, ClusterInitType DEF Init, TypeInv, TypeOK

\* Every step keeps the typing and what the worker holds.
LEMMA NextType == TypeInv /\ [Next]_vars => TypeInv'
<1> SUFFICES ASSUME TypeInv, [Next]_vars PROVE TypeInv'
  OBVIOUS
<1>1. CASE (UserStep \/ PlatformStep) /\ UNCHANGED ctlVars
  BY <1>1, UserStepType, PlatformStepType, JobSame DEF TypeInv, TypeOK
<1>2. CASE \E a \in Accesses : Reconcile(a)
  BY <1>2, ReconcileType
<1>3. CASE WorkerStep
  BY <1>3, DeleteExpiredType, ListOwnedType, CleanupOneType, ListType, ServiceStepType, SkipTargetType,
     DeployType, UndeployType, FinishType DEF WorkerStep
<1>4. CASE Restart
  BY <1>4, RestartType
<1>5. CASE UNCHANGED vars
  BY <1>5, ClusterSame, JobSame DEF vars, TypeInv, TypeOK
<1> QED
  BY <1>1, <1>2, <1>3, <1>4, <1>5 DEF Next

\* The state always has its type, and so has what CommonReconcileLogic holds at a
\* step: it never works on an Access, a source or a policy it does not have.
THEOREM AccessTypeCorrect == Spec => []TypeOK
<1>1. Spec => []TypeInv
  BY InitType, NextType, PTL DEF Spec
<1>2. TypeInv => TypeOK
  BY DEF TypeInv
<1> QED
  BY <1>1, <1>2, PTL

-----------------------------------------------------------------------------
(* How a step changes what the worker holds *)

\* Of the copy it changes the lists only.
SameCopy ==
  /\ obj'.spec = obj.spec /\ obj'.uid = obj.uid /\ obj'.created = obj.created
  /\ obj'.deleting = obj.deleting /\ obj'.expiresAt = obj.expiresAt

\* It begins with a copy from the cache.
Starts ==
  /\ req' \in Accesses
  /\ accCache[req'] # Absent /\ obj' = Dated(accCache[req'])
  /\ pc' \in {"expired", "list"} /\ UNCHANGED owned
  /\ pc' = "expired" => IsExpired(accCache[req'])

\* It lists policies of the cache.
Owns ==
  /\ pc = "list" /\ pc' = "cleanup"
  /\ \A o \in owned' : npCache[o.key] # Absent /\ o.svc = npCache[o.key].svc

Sweeps == pc = "cleanup" /\ pc' = "cleanup"

Lists ==
  /\ pc = "cleanup" /\ pc' = "services"
  /\ obj.spec.selector # BadSelector
  /\ \A l \in listed' : /\ l.svc \in Services /\ NsOf[l.svc] = AccessNs[req]
                        /\ svcCache[l.svc] # Absent
                        /\ svcCache[l.svc].label \in obj.spec.selector
                        /\ l.version = svcCache[l.svc]

\* A listed service is passed over, or its targets are next.
Enters ==
  /\ pc = "services" /\ pc' \in {"services", "targets"}
  /\ listed' \subseteq listed
  /\ pc' = "targets" =>
       \E l \in listed :
         /\ IsSource(l)
         /\ targets' = TargetsOf(l.version, obj.spec)
         /\ source'.svc = l.svc /\ source'.direction = DirectionOf(l.version, obj.spec)
         /\ source'.pods = svcCache[l.svc].pods /\ source'.ports = svcCache[l.svc].ports

\* A target is passed over, its policy deployed, or deleted again.
Handles ==
  /\ pc \in {"targets", "undeploy"} /\ pc' \in {"services", "targets", "undeploy"}
  /\ targets' \subseteq targets /\ UNCHANGED listed
  /\ pc' \in {"targets", "undeploy"} => UNCHANGED source
  /\ pc' = "undeploy" =>
       /\ obj.deleting
       /\ \E t \in targets : undeploy' = PolicyKey(req, source.svc, source.direction, t)

Prepares == pc = "services" /\ pc' = "status" /\ UNCHANGED listed

Works ==
  /\ pc # Idle /\ UNCHANGED req /\ SameCopy
  /\ Owns \/ owned' \subseteq owned
  /\ Owns \/ Sweeps \/ Lists \/ Enters \/ Handles \/ Prepares

WorkerMoves ==
  \/ UNCHANGED ctlVars
  \/ UNCHANGED <<svcHist, specHist>> /\ (ToRest \/ Starts \/ Works)

\* Every step moves it so.
LEMMA NextWorkerMoves ==
  ASSUME TypeInv, [Next]_vars
  PROVE  WorkerMoves
<1>1. CASE UNCHANGED ctlVars
  BY <1>1 DEF WorkerMoves
<1>2. CASE DeleteExpired \/ ListFails \/ FinishUnchanged \/ FinishStatus \/ Restart
  BY <1>2 DEF DeleteExpired, ListFails, FinishUnchanged, FinishStatus, Restart,
              ClusterRestart, svcVars, accVars, WorkerMoves
<1>3. ASSUME NEW a \in Accesses, ReconcileStart(a)
      PROVE  WorkerMoves
  BY <1>3 DEF ReconcileStart, svcVars, accVars, WorkerMoves, Starts
<1>4. ASSUME ListOwned \/ CleanupOne \/ ListServices \/ SkipService \/ BeginService
             \/ SkipTarget \/ Deploy \/ Undeploy \/ PrepareStatus
      PROVE  WorkerMoves
  <2>1. UNCHANGED <<svcHist, specHist, req>>
    BY <1>4 DEF ListOwned, CleanupOne, ListServices, SkipService, BeginService, SkipTarget,
                Deploy, Undeploy, PrepareStatus, clusterVars, svcVars, accVars
  <2>2. pc # Idle /\ (ListOwned \/ owned' \subseteq owned)
    BY <1>4 DEF ListOwned, CleanupOne, ListServices, SkipService, BeginService, SkipTarget,
                Deploy, Undeploy, PrepareStatus, Idle
  <2>3. ListOwned => Owns
    BY DEF ListOwned, Owns
  <2>4. SameCopy
    <3>1. obj \in AccessObjects
      BY <2>2 DEF TypeInv, Holding
    <3> QED
      BY <1>4, <3>1
         DEF ListOwned, CleanupOne, ListServices, SkipService, BeginService, SkipTarget,
             Deploy, Undeploy, PrepareStatus, SameCopy, AccessObjects
  <2>5. Owns \/ Sweeps \/ Lists \/ Enters \/ Handles \/ Prepares
    <3>1. CASE CleanupOne
      BY <3>1 DEF CleanupOne, Sweeps
    <3>2. CASE ListServices
      BY <3>2 DEF ListServices, Lists
    <3>3. CASE SkipService
      BY <3>3 DEF SkipService, Enters
    <3>4. CASE BeginService
      BY <3>4 DEF BeginService, Enters
    <3>5. CASE SkipTarget \/ Undeploy
      BY <3>5 DEF SkipTarget, Undeploy, NextTarget, Handles
    <3>6. CASE Deploy
      BY <3>6 DEF Deploy, NextTarget, Handles
    <3>7. CASE PrepareStatus
      BY <3>7 DEF PrepareStatus, Prepares
    <3> QED
      BY <1>4, <2>3, <3>1, <3>2, <3>3, <3>4, <3>5, <3>6, <3>7
  <2> QED
    BY <2>1, <2>2, <2>3, <2>4, <2>5 DEF WorkerMoves, Works
<1> QED
  BY <1>1, <1>2, <1>3, <1>4 DEF Next, WorkerStep, Reconcile, ReconcileGone, vars

-----------------------------------------------------------------------------
(* How a step changes the cluster *)

\* The cleanup removes the policy under k.
Swept(k) ==
  /\ \E o \in owned : o.key = k /\ IsOrphan(o)
  /\ netpols[k] # Absent /\ WriteNetpol(k, Absent)

\* deployResource stores n under k: the policy of a target with details.
StoredAt(k, n) ==
  /\ pc = "targets"
  /\ \E t \in targets :
       /\ HasDetails(svcCache[t])
       /\ k = PolicyKey(req, source.svc, source.direction, t)
       /\ n = Stored(Policy(obj, req, source, t, svcCache[t].pods))
  /\ WriteNetpol(k, n)

\* deployResource removes the policy under k again.
Undone(k) ==
  /\ pc = "undeploy" /\ k = undeploy
  /\ netpols[k] # Absent /\ WriteNetpol(k, Absent)

PolicyStep(k) == Swept(k) \/ Undone(k) \/ \E n : StoredAt(k, n)

\* The worker deletes the object, or writes its status onto the latest it can read.
ObjectStep ==
  /\ pc \in {"expired", "status"} /\ pc' = Idle
  /\ UNCHANGED specHist
  /\ \/ pc = "expired" /\ accesses[req] # Absent /\ WriteAccess(req, Absent)
     \/ /\ pc = "status" /\ accCache[req] # Absent /\ req \notin accEvents
        /\ WriteAccess(req, WithStatus(accCache[req]))

\* Of policies and objects the worker's step changes one at most.
WorkerChanges ==
  /\ UNCHANGED <<svcVars, edits>>
  /\ \/ UNCHANGED <<accVars, npVars>>
     \/ UNCHANGED npVars /\ ObjectStep
     \/ UNCHANGED accVars /\ \E k \in NetpolKeys : PolicyStep(k)

\* All of its steps.
LEMMA WorkerChange ==
  ASSUME TypeInv, WorkerStep
  PROVE  WorkerChanges
<1>1. CASE DeleteExpired \/ FinishStatus
  <2>1. UNCHANGED <<svcVars, edits, npVars>>
    BY <1>1 DEF DeleteExpired, FinishStatus, Fault, NoFault, bounds
  <2>2. UNCHANGED accVars \/ ObjectStep
    BY <1>1 DEF DeleteExpired, FinishStatus, ToRest, ObjectStep
  <2> QED
    BY <2>1, <2>2 DEF WorkerChanges
<1>2. CASE \/ ListOwned \/ ListServices \/ ListFails \/ SkipService \/ BeginService
           \/ SkipTarget \/ FinishUnchanged \/ PrepareStatus
  BY <1>2 DEF ListOwned, ListServices, ListFails, SkipService, BeginService, SkipTarget,
              FinishUnchanged, PrepareStatus, clusterVars, bounds, WorkerChanges
<1>3. CASE CleanupOne
  <2>1. \A o \in owned : o.key \in NetpolKeys
    BY DEF TypeInv, TypeOK, JobTypeOK
  <2>2. UNCHANGED npVars \/ \E o \in owned : Swept(o.key)
    BY <1>3 DEF CleanupOne, Swept
  <2>3. UNCHANGED <<svcVars, accVars, edits>>
    BY <1>3 DEF CleanupOne, Fault, NoFault, bounds
  <2> QED
    BY <2>1, <2>2, <2>3 DEF WorkerChanges, PolicyStep
<1>4. CASE Undeploy
  <2>1. undeploy \in NetpolKeys
    BY <1>4 DEF Undeploy, TypeInv, Holding
  <2>2. UNCHANGED npVars \/ Undone(undeploy)
    BY <1>4 DEF Undeploy, Undone
  <2>3. UNCHANGED <<svcVars, accVars, edits>>
    BY <1>4 DEF Undeploy, Fault, NoFault, bounds
  <2> QED
    BY <2>1, <2>2, <2>3 DEF WorkerChanges, PolicyStep
<1>5. CASE Deploy
  <2>1. req \in Accesses /\ source \in Sources /\ targets \subseteq Services /\ pc = "targets"
    BY <1>5 DEF Deploy, TypeInv, TypeOK, JobTypeOK, Holding, Idle
  <2>2. PICK t \in targets :
          /\ HasDetails(svcCache[t])
          /\ DeployResource(PolicyKey(req, source.svc, source.direction, t),
                            Policy(obj, req, source, t, svcCache[t].pods))
    BY <1>5 DEF Deploy
  <2>3. PICK k \in NetpolKeys : k = PolicyKey(req, source.svc, source.direction, t)
    BY <2>1, KeyType DEF Sources
  <2>4. PICK n : n = Policy(obj, req, source, t, svcCache[t].pods)
    OBVIOUS
  <2>5. DeployResource(k, n)
    BY <2>2, <2>3, <2>4
  <2>6. /\ UNCHANGED edits
        /\ UNCHANGED npVars \/ WriteNetpol(k, Stored(n))
    BY <2>5 DEF DeployResource, CreateResource, ReconcileResource, Put, Fault, NoFault, bounds
  <2>7. UNCHANGED npVars \/ StoredAt(k, Stored(n))
    BY <2>1, <2>2, <2>3, <2>4, <2>6 DEF StoredAt
  <2>8. UNCHANGED <<svcVars, accVars>>
    BY <1>5 DEF Deploy
  <2> QED
    BY <2>6, <2>7, <2>8 DEF WorkerChanges, PolicyStep
<1> QED
  BY <1>1, <1>2, <1>3, <1>4, <1>5 DEF WorkerStep

\* Every step moves services and Accesses as the cluster's own steps do: a status
\* goes onto the incarnation that is stored, whichever was reconciled.
LEMMA NextMoves ==
  ASSUME TypeInv, CachesCurrent, [Next]_vars
  PROVE  ClusterMoves
<1>0. edits \in Nat /\ ClusterTypeOK
  BY DEF TypeInv, TypeOK, ClusterTypeOK, BoundsTypeOK
<1>1. ASSUME UNCHANGED <<svcVars, accVars, edits>>
      PROVE  ClusterMoves
  BY <1>0, <1>1, ServicesStay, AccessesStay DEF ClusterMoves, accVars
<1>2. CASE UserStep \/ PlatformStep \/ Restart
  BY <1>0, <1>2, ClusterStepMoves DEF ClusterStep, Restart
<1>3. CASE (\E a \in Accesses : Reconcile(a)) \/ UNCHANGED vars
  BY <1>1, <1>3 DEF Reconcile, ReconcileGone, ReconcileStart, bounds, vars, clusterVars
<1>4. CASE ObjectStep /\ UNCHANGED <<svcVars, edits>>
  <2>1. req \in Accesses /\ AccessesTypeOK
    BY <1>0, <1>4 DEF ObjectStep, TypeInv, Holding, ClusterTypeOK, Idle
  <2>2. PICK o : /\ WriteAccess(req, o)
                 /\ \/ o = Absent
                    \/ /\ accesses[req] # Absent
                       /\ o.uid = accesses[req].uid /\ o.created = accesses[req].created
                       /\ accesses[req].deleting => o.deleting
                       /\ o.spec \in specHist'[req] \cup {accesses[req].spec}
    <3>1. CASE WriteAccess(req, Absent)
      BY <3>1
    <3>2. CASE /\ accCache[req] # Absent /\ req \notin accEvents
               /\ WriteAccess(req, WithStatus(accCache[req]))
      <4>1. accCache[req] = accesses[req] /\ accesses[req] \in AccessObjects
        BY <2>1, <3>2, MaybeIn DEF CachesCurrent, AccessesTypeOK
      <4>2. PICK o : o = WithStatus(accesses[req])
        OBVIOUS
      <4>3. o.uid = accesses[req].uid /\ o.created = accesses[req].created
            /\ o.deleting = accesses[req].deleting /\ o.spec = accesses[req].spec
        BY <4>1, <4>2 DEF WithStatus, AccessObjects
      <4> QED
        BY <3>2, <4>1, <4>2, <4>3
    <3> QED
      BY <1>4, <3>1, <3>2 DEF ObjectStep
  <2>3. AccessesMove
    <3>1. \A b \in Accesses : /\ specHist[b] \subseteq specHist'[b]
                              /\ specHist'[b] \subseteq specHist[b] \cup Specs[b]
      BY <1>4 DEF ObjectStep
    <3> QED
      BY <2>1, <2>2, <3>1, AccessWritten
  <2> QED
    BY <1>0, <1>4, <2>3, ServicesStay DEF ClusterMoves
<1> QED
  BY <1>1, <1>2, <1>3, <1>4, WorkerChange DEF Next, WorkerChanges

\* A step leaves the policies to the cluster, or is the worker's on one of them.
LEMMA PoliciesChange ==
  ASSUME TypeInv, [Next]_vars
  PROVE  \/ PoliciesStayOrGo
         \/ UNCHANGED <<svcVars, accVars, edits>> /\ \E k \in NetpolKeys : PolicyStep(k)
<1>1. CASE UserStep \/ PlatformStep \/ Restart
  BY <1>1, ClusterStepMoves DEF ClusterStep, Restart, TypeInv, TypeOK
<1>2. CASE (\E a \in Accesses : Reconcile(a)) \/ UNCHANGED vars
  BY <1>2, PoliciesStay DEF Reconcile, ReconcileGone, ReconcileStart, vars, clusterVars
<1>3. CASE WorkerStep
  BY <1>3, WorkerChange, PoliciesStay DEF WorkerChanges
<1> QED
  BY <1>1, <1>2, <1>3 DEF Next

-----------------------------------------------------------------------------
(* What was asked for *)

\* A listed service is one of the Access's namespace that the spec selects.
Selected(l) ==
  /\ NsOf[l.svc] = AccessNs[req]
  /\ l.version \in svcHist[l.svc] /\ l.version.label \in obj.spec.selector

\* A version of the source, with the spec, asks for target t.
AskedFor(t) ==
  \E v \in svcHist[source.svc] :
    /\ v.label \in obj.spec.selector
    /\ t \in TargetsOf(v, obj.spec)
    /\ source.direction = DirectionOf(v, obj.spec)

\* What the worker holds comes from versions and specs of the histories.
Held ==
  /\ pc # Idle => obj.spec \in specHist[req]
  /\ pc \notin {Idle, "expired", "list", "cleanup"} =>
       /\ obj.spec.selector # BadSelector
       /\ \A l \in listed : Selected(l)
  /\ pc \in {"targets", "undeploy"} =>
       /\ NsOf[source.svc] = AccessNs[req]
       /\ \A t \in targets : AskedFor(t)
       /\ \E v \in svcHist[source.svc] : source.pods = v.pods /\ source.ports = v.ports

PoliciesRequested ==
  \A k \in NetpolKeys : netpols[k] # Absent => Requested(svcHist, specHist, netpols[k])

Provenance == Seen /\ CachesCurrent /\ Held /\ PoliciesRequested

\* isExpired leaves everything but the deadline.
LEMMA DatedKeeps ==
  ASSUME NEW o \in AccessObjects
  PROVE  /\ Dated(o).spec = o.spec /\ Dated(o).uid = o.uid
         /\ Dated(o).created = o.created /\ Dated(o).deleting = o.deleting
         /\ o.expiresAt # NoTime => Dated(o).expiresAt = o.expiresAt
BY DEF Dated, AccessObjects

\* What the worker holds stays asked for as the histories grow.
LEMMA HeldSame ==
  ASSUME TypeInv, Held, UNCHANGED ctlVars, Grows
  PROVE  Held'
<1>1. /\ \A l \in listed : l.svc \in Services
      /\ pc # Idle => req \in Accesses
      /\ pc \in {"targets", "undeploy"} => source.svc \in Services
  BY DEF TypeInv, TypeOK, JobTypeOK, Holding, Sources
<1>2. /\ \A s \in Services : svcHist[s] \subseteq svcHist'[s]
      /\ \A a \in Accesses : specHist[a] \subseteq specHist'[a]
  BY DEF Grows
<1>3. /\ pc' = pc /\ req' = req /\ obj' = obj /\ listed' = listed /\ source' = source
      /\ targets' = targets
  BY DEF ctlVars, jobVars
<1>4. \A l \in listed : Selected(l) => Selected(l)'
  BY <1>1, <1>2, <1>3 DEF Selected
<1>5. pc \in {"targets", "undeploy"} => \A t : AskedFor(t) => AskedFor(t)'
  BY <1>1, <1>2, <1>3 DEF AskedFor
<1> QED
  BY <1>1, <1>2, <1>3, <1>4, <1>5 DEF Held

\* The worker's moves keep it so.
LEMMA HeldWorks ==
  ASSUME TypeInv, Seen, Held, Works, UNCHANGED <<svcHist, specHist>>
  PROVE  Held'
<1>1. /\ pc # Idle /\ req' = req /\ obj'.spec = obj.spec /\ obj.spec \in specHist[req]
      /\ obj \in AccessObjects
      /\ UNCHANGED <<svcHist, specHist>>
  BY DEF Works, SameCopy, Held, TypeInv, Holding
<1>2. \A l : Selected(l) => Selected(l)'
  BY <1>1 DEF Selected
<1>3. CASE Owns \/ Sweeps
  BY <1>1, <1>3 DEF Owns, Sweeps, Held, Idle
<1>4. CASE Lists
  <2>1. \A l \in listed' : Selected(l)
    BY <1>4 DEF Lists, Seen, Selected
  <2> QED
    BY <1>1, <1>2, <1>4, <2>1 DEF Lists, Held
<1>5. CASE Prepares
  BY <1>1, <1>2, <1>5 DEF Prepares, Held, Idle
<1>6. CASE Enters
  <2>1. obj.spec.selector # BadSelector /\ \A l \in listed : Selected(l)
    BY <1>6 DEF Enters, Held, Idle
  <2>2. CASE pc' = "services"
    BY <1>1, <1>2, <1>6, <2>1, <2>2 DEF Enters, Held
  <2>3. CASE pc' = "targets"
    <3>1. PICK l \in listed :
            /\ IsSource(l)
            /\ targets' = TargetsOf(l.version, obj.spec)
            /\ source'.svc = l.svc /\ source'.direction = DirectionOf(l.version, obj.spec)
            /\ source'.pods = svcCache[l.svc].pods /\ source'.ports = svcCache[l.svc].ports
      BY <1>6, <2>3 DEF Enters
    <3>2. l.svc \in Services /\ Selected(l)
      BY <2>1, <3>1 DEF TypeInv, TypeOK, JobTypeOK
    <3>3. svcCache[l.svc] \in svcHist[l.svc]
      BY <3>1, <3>2 DEF IsSource, HasDetails, Seen
    <3>4. \A t \in targets' : AskedFor(t)'
      BY <1>1, <3>1, <3>2 DEF AskedFor, Selected, TargetsOf, DirectionOf
    <3>5. NsOf[source'.svc] = AccessNs[req]
      BY <3>1, <3>2 DEF Selected
    <3> QED
      BY <1>1, <1>2, <1>6, <2>1, <2>3, <3>1, <3>3, <3>4, <3>5 DEF Enters, Held
  <2> QED
    BY <1>6, <2>2, <2>3 DEF Enters
<1>7. CASE Handles
  <2>1. /\ pc \in {"targets", "undeploy"} /\ pc' \in {"services", "targets", "undeploy"}
        /\ targets' \subseteq targets /\ listed' = listed
        /\ pc' \in {"targets", "undeploy"} => source' = source
    BY <1>7 DEF Handles
  <2>2. /\ obj.spec.selector # BadSelector /\ \A l \in listed : Selected(l)
        /\ NsOf[source.svc] = AccessNs[req]
        /\ \A t \in targets : AskedFor(t)
        /\ \E v \in svcHist[source.svc] : source.pods = v.pods /\ source.ports = v.ports
    BY <2>1 DEF Held, Idle
  <2>3. pc' \in {"targets", "undeploy"} => \A t : AskedFor(t) => AskedFor(t)'
    BY <1>1, <2>1 DEF AskedFor, TargetsOf, DirectionOf
  <2> QED
    BY <1>1, <1>2, <2>1, <2>2, <2>3 DEF Held
<1> QED
  BY <1>3, <1>4, <1>5, <1>6, <1>7 DEF Works

\* So does every step.
LEMMA HeldNext ==
  ASSUME TypeInv, Seen, Held, Grows, WorkerMoves
  PROVE  Held'
<1>1. CASE ToRest
  BY <1>1 DEF ToRest, Held, Idle
<1>2. CASE Starts /\ UNCHANGED specHist
  <2>1. accCache[req'] \in AccessObjects /\ accCache[req'].spec \in specHist[req']
    BY <1>2, MaybeIn DEF Starts, TypeInv, TypeOK, ClusterTypeOK, AccessesTypeOK, Seen
  <2>2. obj'.spec = accCache[req'].spec
    BY <1>2, <2>1, DatedKeeps DEF Starts
  <2> QED
    BY <1>2, <2>1, <2>2 DEF Starts, Held
<1> QED
  BY <1>1, <1>2, HeldSame, HeldWorks DEF WorkerMoves

\* The rules of a policy, before and after the API server has defaulted its types.
LEMMA StoredRules ==
  ASSUME NEW o \in AccessObjects, NEW a \in Accesses, NEW src \in Sources,
         NEW t \in Services, NEW p \in Pods,
         NEW n, n = Stored(Policy(o, a, src, t, p))
  PROVE  /\ n.owner = a /\ n.uid = o.uid /\ n.svc = src.svc
         /\ n.spec.podSelector = src.pods
         /\ n.spec.ingress = IF src.direction \in {"ingress", "all"}
                             THEN {AccessRule(p, NsOf[t], src.ports)} ELSE {}
         /\ n.spec.egress = IF src.direction \in {"egress", "all"}
                            THEN {AccessRule(p, NsOf[t], src.ports)} ELSE {}
<1>1. PICK r : r = AccessRule(p, NsOf[t], src.ports)
  OBVIOUS
<1>2. PICK sp : sp = NetpolSpec(src.pods, r, src.direction)
  OBVIOUS
<1>3. /\ src.direction = "ingress" => PolicyTypes(src.direction) = {"Ingress"}
      /\ src.direction = "egress" => PolicyTypes(src.direction) = {"Egress"}
      /\ src.direction = "all" => PolicyTypes(src.direction) = {"Ingress", "Egress"}
      /\ src.direction \notin {"ingress", "egress", "all"} => PolicyTypes(src.direction) = {}
  BY DEF PolicyTypes
<1>4. /\ "Ingress" \in PolicyTypes(src.direction) <=> src.direction \in {"ingress", "all"}
      /\ "Egress" \in PolicyTypes(src.direction) <=> src.direction \in {"egress", "all"}
  BY <1>3
<1>5. /\ sp.podSelector = src.pods
      /\ sp.ingress = IF src.direction \in {"ingress", "all"} THEN {r} ELSE {}
      /\ sp.egress = IF src.direction \in {"egress", "all"} THEN {r} ELSE {}
  BY <1>2, <1>4 DEF NetpolSpec
<1>6. PICK m : m = Policy(o, a, src, t, p)
  OBVIOUS
<1>7. /\ m.owner = a /\ m.uid = o.uid /\ m.svc = src.svc /\ m.spec = sp
      /\ m \in NetpolObjects
  BY <1>1, <1>2, <1>6, PolicyType DEF Policy, DefineAccessNetworkPolicy
<1>8. n = m \/ \E T : n = [m EXCEPT !.spec.policyTypes = T]
  BY <1>6 DEF Stored
<1>9. /\ n.owner = m.owner /\ n.uid = m.uid /\ n.svc = m.svc
      /\ n.spec.podSelector = sp.podSelector
      /\ n.spec.ingress = sp.ingress /\ n.spec.egress = sp.egress
  BY <1>7, <1>8 DEF NetpolObjects, NetpolSpecs
<1> QED
  BY <1>1, <1>5, <1>7, <1>9

\* What deployResource stores, and whose it is.
LEMMA StoredRequested ==
  ASSUME TypeInv, Seen, Held, NEW k, NEW n, StoredAt(k, n)
  PROVE  /\ k \in NetpolKeys /\ n \in NetpolObjects
         /\ n.owner = req /\ n.uid = obj.uid /\ n.svc = source.svc
         /\ Requested(svcHist, specHist, n)
<1>1. /\ obj \in AccessObjects /\ req \in Accesses
      /\ source \in Sources /\ targets \subseteq Services
  BY DEF StoredAt, TypeInv, TypeOK, JobTypeOK, Holding, Idle
<1>2. PICK t \in targets :
        /\ HasDetails(svcCache[t])
        /\ k = PolicyKey(req, source.svc, source.direction, t)
        /\ n = Stored(Policy(obj, req, source, t, svcCache[t].pods))
  BY DEF StoredAt
<1>3. t \in Services /\ source.svc \in Services /\ source.direction \in RawDirections
  BY <1>1 DEF Sources
<1>4. svcCache[t].pods \in Pods /\ svcCache[t] \in svcHist[t]
  BY <1>2, <1>3 DEF HasDetails, Seen, TypeInv, TypeOK, ClusterTypeOK, ServicesTypeOK, Maybe,
                    ServiceVersions
<1>5. k \in NetpolKeys /\ n \in NetpolObjects
  BY <1>1, <1>2, <1>3, <1>4, KeyType, PolicyType
<1>6. PICK p \in Pods : p = svcCache[t].pods
  BY <1>4
<1>7. n = Stored(Policy(obj, req, source, t, p))
  BY <1>2, <1>6
<1>8. /\ n.owner = req /\ n.uid = obj.uid /\ n.svc = source.svc
      /\ n.spec.podSelector = source.pods
      /\ n.spec.ingress = IF source.direction \in {"ingress", "all"}
                          THEN {AccessRule(p, NsOf[t], source.ports)} ELSE {}
      /\ n.spec.egress = IF source.direction \in {"egress", "all"}
                         THEN {AccessRule(p, NsOf[t], source.ports)} ELSE {}
  BY <1>1, <1>3, <1>7, StoredRules
<1>9. /\ obj.spec \in specHist[req] /\ obj.spec.selector # BadSelector
      /\ NsOf[source.svc] = AccessNs[req] /\ AskedFor(t)
      /\ \E v \in svcHist[source.svc] : source.pods = v.pods /\ source.ports = v.ports
  BY <1>2 DEF StoredAt, Held, Idle
<1>10. ASSUME NEW d \in {"ingress", "egress"}, source.direction \in {d, "all"}
       PROVE  RuleRequested(svcHist, specHist, n, AccessRule(p, NsOf[t], source.ports), d)
  <2>1. PICK v \in svcHist[source.svc] : /\ v.label \in obj.spec.selector
                                         /\ t \in TargetsOf(v, obj.spec)
                                         /\ source.direction = DirectionOf(v, obj.spec)
    BY <1>9 DEF AskedFor
  <2>2. source.direction \in AnyCase(source.direction)
    BY <1>3, <1>10 DEF AnyCase, ToLower
  <2>3. Asks(v, obj.spec, source.direction, t)
    BY <1>9, <2>1, <2>2 DEF Asks, TargetsOf, DirectionOf
  <2>4. Asks(v, obj.spec, d, t) \/ Asks(v, obj.spec, "all", t)
    BY <1>10, <2>3
  <2>5. PICK u \in svcHist[source.svc] : source.pods = u.pods /\ source.ports = u.ports
    BY <1>9
  <2>6. AccessRule(p, NsOf[t], source.ports)
          = [pods |-> svcCache[t].pods, ns |-> NsOf[t],
             ports |-> ConvertServicePortsToPolicyPorts(u.ports)]
    BY <1>6, <2>5 DEF AccessRule
  <2> QED
    BY <1>3, <1>4, <1>8, <1>9, <2>1, <2>4, <2>5, <2>6 DEF RuleRequested
<1>11. Requested(svcHist, specHist, n)
  BY <1>8, <1>10 DEF Requested
<1> QED
  BY <1>5, <1>8, <1>11

\* A rule asked for at some time stays so.
LEMMA RequestedGrows ==
  ASSUME NEW n \in NetpolObjects, Grows, Requested(svcHist, specHist, n)
  PROVE  Requested(svcHist', specHist', n)
<1>1. n.owner \in Accesses /\ n.svc \in Services
  BY DEF NetpolObjects
<1>2. /\ specHist[n.owner] \subseteq specHist'[n.owner]
      /\ \A s \in Services : svcHist[s] \subseteq svcHist'[s]
  BY <1>1 DEF Grows
<1>3. \A r, d : RuleRequested(svcHist, specHist, n, r, d)
                  => RuleRequested(svcHist', specHist', n, r, d)
  BY <1>1, <1>2 DEF RuleRequested
<1> QED
  BY <1>3 DEF Requested

\* A step leaves a policy, takes it away or stores one that the worker may store.
LEMMA PolicyMoves ==
  ASSUME TypeInv, [Next]_vars, NEW k \in NetpolKeys
  PROVE  /\ npCache'[k] \in {npCache[k], netpols[k]}
         /\ netpols'[k] \in {netpols[k], Absent} \/ StoredAt(k, netpols'[k])
<1>1. CASE PoliciesStayOrGo
  BY <1>1 DEF PoliciesStayOrGo
<1>2. ASSUME NEW i \in NetpolKeys, PolicyStep(i)
      PROVE  /\ npCache'[k] = npCache[k]
             /\ netpols'[k] \in {netpols[k], Absent} \/ StoredAt(k, netpols'[k])
  <2>1. PICK n : WriteNetpol(i, n) /\ (n = Absent \/ StoredAt(i, n))
    BY <1>2 DEF PolicyStep, Swept, Undone, StoredAt
  <2>2. npCache'[k] = npCache[k] /\ netpols'[k] = IF k = i THEN n ELSE netpols[k]
    BY <2>1 DEF WriteNetpol, TypeInv, TypeOK, ClusterTypeOK, NetpolsTypeOK
  <2> QED
    BY <2>1, <2>2
<1> QED
  BY <1>1, <1>2, PoliciesChange

\* Every step keeps all of it.
LEMMA ProvenanceNext ==
  ASSUME TypeInv, Provenance, [Next]_vars
  PROVE  TypeInv' /\ Provenance'
<1>1. TypeInv' /\ ClusterMoves /\ WorkerMoves
  BY NextType, NextMoves, NextWorkerMoves DEF Provenance
<1>2. Seen' /\ CachesCurrent' /\ Grows
  BY <1>1, MovesSeen, MovesCurrent, MovesGrow DEF Provenance
<1>3. Held'
  BY <1>1, <1>2, HeldNext DEF Provenance
<1>4. PoliciesRequested'
  <2> SUFFICES ASSUME NEW k \in NetpolKeys, netpols'[k] # Absent
               PROVE  Requested(svcHist', specHist', netpols'[k])
    BY DEF PoliciesRequested
  <2>1. netpols'[k] \in NetpolObjects
    BY <1>1, MaybeIn DEF TypeInv, TypeOK, ClusterTypeOK, NetpolsTypeOK, Maybe
  <2>2. Requested(svcHist, specHist, netpols'[k])
    BY PolicyMoves, StoredRequested DEF Provenance, PoliciesRequested
  <2> QED
    BY <1>2, <2>1, <2>2, RequestedGrows
<1> QED
  BY <1>1, <1>2, <1>3, <1>4 DEF Provenance

\* The first states hold no policy, and stores and caches agree.
LEMMA InitProvenance == Init => Provenance
BY InitHistory DEF Init, AtRest, ClusterInit, Idle, Provenance, Held, PoliciesRequested

\* However the direction is written, however old the copies are that a policy is made
\* of, and wherever writes fail or the process restarts: each rule of a stored policy
\* was asked for, in its direction or in both, by a spec of its Access and a version
\* of its service, for a target with those pods.
THEOREM RulesRequestedAlways == Spec => []RulesRequested
<1>1. TypeInv /\ Provenance /\ [Next]_vars => TypeInv' /\ Provenance'
  BY ProvenanceNext
<1>2. Provenance => RulesRequested
  BY DEF Provenance, PoliciesRequested, RulesRequested
<1>3. Spec => [](TypeInv /\ Provenance)
  BY <1>1, InitType, InitProvenance, PTL DEF Spec
<1> QED
  BY <1>2, <1>3, PTL

-----------------------------------------------------------------------------
(* The ledger.  The worker decides to take a policy away on what it read     *)
(* earlier, so the invariant says how old that can be.                       *)

\* k is the key of a policy of a and source s.
NamedFor(k, a, s) ==
  /\ NsOf[s] = AccessNs[a]
  /\ \E d \in RawDirections, t \in Services : k = PolicyKey(a, s, d, t)

NetpolsNamed ==
  \A k \in NetpolKeys :
    /\ netpols[k] # Absent => NamedFor(k, netpols[k].owner, netpols[k].svc)
    /\ npCache[k] # Absent => NamedFor(k, npCache[k].owner, npCache[k].svc)

\* Each listed policy, whichever Access of the name it is of, was read with the
\* service its name is for.
OwnedNamed == \A o \in owned : \E a \in Accesses : NamedFor(o.key, a, o.svc)

\* deployResource deletes again only for an Access read as being deleted.
UndeployHeld == pc = "undeploy" => obj.deleting /\ NamedFor(undeploy, req, source.svc)

\* The copy Reconcile holds precedes what is cached and stored.
CopyInOrder == pc # Idle => CopyOf(req, obj)

\* No policy names its owner by a later incarnation than the one held.
HeldOwners ==
  pc # Idle => \A k \in NetpolKeys :
                 netpols[k] # Absent /\ netpols[k].owner = req => netpols[k].uid <= obj.uid

Succession == AccessesInOrder /\ CopyInOrder /\ OwnersInOrder /\ HeldOwners

LedgerInv == NetpolsNamed /\ OwnedNamed /\ UndeployHeld /\ Succession

SameIncarnation(o, p) ==
  o.uid = p.uid /\ o.created = p.created /\ o.deleting = p.deleting

\* The worker rests, goes on with its copy, or takes one from the cache.
CopyMoves ==
  \/ pc' = Idle
  \/ pc # Idle /\ req' = req /\ SameIncarnation(obj', obj)
  \/ accCache[req'] # Absent /\ SameIncarnation(obj', accCache[req'])

\* What the worker holds has a name and a uid, before and after a step.
LEMMA HeldType ==
  /\ TypeInv => ClusterTypeOK /\ (pc # Idle => req \in Accesses /\ obj.uid \in Nat)
  /\ TypeInv' => ClusterTypeOK' /\ (pc' # Idle => req' \in Accesses /\ obj'.uid \in Nat)
BY DEF TypeInv, TypeOK, AccessObjects, Holding

\* Every step moves the copy so.
LEMMA CopyNext ==
  ASSUME TypeInv, WorkerMoves
  PROVE  CopyMoves
<1>1. CASE UNCHANGED ctlVars
  BY <1>1 DEF ctlVars, jobVars, CopyMoves, SameIncarnation
<1>2. CASE ToRest \/ Works
  BY <1>2 DEF ToRest, Works, SameCopy, CopyMoves, SameIncarnation
<1>3. CASE Starts
  <2>1. accCache[req'] \in AccessObjects
    BY <1>3, MaybeIn DEF Starts, TypeInv, TypeOK, ClusterTypeOK, AccessesTypeOK
  <2> QED
    BY <1>3, <2>1, DatedKeeps DEF Starts, CopyMoves, SameIncarnation
<1> QED
  BY <1>1, <1>2, <1>3 DEF WorkerMoves

\* And keeps it in order.
LEMMA CopyMove ==
  ASSUME TypeInv, TypeInv', AccessesInOrder, CopyInOrder, ClusterMoves, CopyMoves
  PROVE  CopyInOrder'
<1> SUFFICES ASSUME pc' # Idle
             PROVE  /\ obj'.uid <= edits'
                    /\ Precedes(obj', accesses'[req']) /\ NoLater(obj'.uid, accCache'[req'])
  BY DEF CopyInOrder, CopyOf
<1>1. ClusterTypeOK /\ ClusterTypeOK' /\ req' \in Accesses /\ obj'.uid \in Nat
  BY HeldType
<1>2. PICK o : o = obj'
  OBVIOUS
<1>3. CopyOf(req', o)
  <2>1. CASE pc # Idle /\ req' = req /\ SameIncarnation(obj', obj)
    BY <1>2, <2>1 DEF CopyInOrder, CopyOf, Precedes, SameIncarnation
  <2>2. CASE accCache[req'] # Absent /\ SameIncarnation(obj', accCache[req'])
    <3>1. CopyOf(req', accCache[req'])
      BY <1>1, <2>2, CachedCopy
    <3> QED
      BY <1>2, <2>2, <3>1 DEF CopyOf, Precedes, SameIncarnation
  <2> QED
    BY <2>1, <2>2 DEF CopyMoves
<1>4. /\ o.uid <= edits'
      /\ Precedes(o, accesses'[req']) /\ NoLater(o.uid, accCache'[req'])
  BY <1>1, <1>2, <1>3, CopyStays
<1> QED
  BY <1>2, <1>4

\* A policy is stored with the name and the uid the worker holds, under a key for it.
OwnersMove ==
  \A k \in NetpolKeys :
    /\ npCache'[k] \in {npCache[k], netpols[k]}
    /\ \/ netpols'[k] \in {netpols[k], Absent}
       \/ /\ pc # Idle /\ netpols'[k].owner = req /\ netpols'[k].uid = obj.uid
          /\ NamedFor(k, netpols'[k].owner, netpols'[k].svc)

\* Every step stores so.
LEMMA OwnersNext ==
  ASSUME TypeInv, Provenance, [Next]_vars
  PROVE  OwnersMove
<1> SUFFICES ASSUME NEW k \in NetpolKeys, NEW n, n = netpols'[k], StoredAt(k, n)
             PROVE  /\ pc # Idle /\ n.owner = req /\ n.uid = obj.uid
                    /\ NamedFor(k, n.owner, n.svc)
  BY PolicyMoves DEF OwnersMove
<1>1. n.owner = req /\ n.uid = obj.uid /\ n.svc = source.svc
  BY StoredRequested DEF Provenance
<1>2. pc # Idle /\ source.direction \in RawDirections /\ targets \subseteq Services
  BY DEF StoredAt, Idle, TypeInv, TypeOK, JobTypeOK, Holding, Sources
<1>3. NsOf[source.svc] = AccessNs[req]
  BY DEF StoredAt, Provenance, Held
<1>4. NamedFor(k, req, source.svc)
  BY <1>2, <1>3 DEF StoredAt, NamedFor
<1> QED
  BY <1>1, <1>2, <1>4

\* And keeps the owners in order.
LEMMA OwnerMoves ==
  ASSUME TypeInv, TypeInv', Succession, ClusterMoves, CopyMoves, OwnersMove
  PROVE  OwnersInOrder' /\ HeldOwners'
<1>1. ClusterTypeOK /\ ClusterTypeOK'
  BY HeldType
<1>2. \A k \in NetpolKeys :
        \/ netpols'[k] \in {netpols[k], Absent}
        \/ \E o : CopyOf(netpols'[k].owner, o) /\ o.uid = netpols'[k].uid
  BY DEF OwnersMove, Succession, CopyInOrder
<1>3. OwnersInOrder'
  BY <1>1, <1>2, OwnersStay DEF Succession
<1>4. HeldOwners'
  <2> SUFFICES ASSUME NEW k \in NetpolKeys, pc' # Idle, netpols'[k] # Absent,
                      netpols'[k].owner = req'
               PROVE  netpols'[k].uid <= obj'.uid
    BY DEF HeldOwners
  <2>1. netpols'[k].uid \in Nat /\ netpols'[k].owner \in Accesses
    BY <1>1, UidType DEF Uids
  <2> QED
    BY <2>1 DEF OwnersMove, CopyMoves, Succession, OwnersInOrder, HeldOwners, CopyInOrder,
                CopyOf, NoLater, SameIncarnation
<1> QED
  BY <1>3, <1>4

\* Names stay right: what is stored is named for its labels, what is listed was read.
LEMMA NamesMove ==
  ASSUME TypeInv, TypeInv', NetpolsNamed, OwnedNamed, UndeployHeld, Held, WorkerMoves,
         OwnersMove
  PROVE  NetpolsNamed' /\ OwnedNamed' /\ UndeployHeld'
<1>1. NetpolsNamed'
  BY DEF NetpolsNamed, OwnersMove, NamedFor
<1>2. ASSUME owned' \subseteq owned
      PROVE  OwnedNamed'
  BY <1>2 DEF OwnedNamed, NamedFor
<1>3. CASE UNCHANGED ctlVars
  BY <1>1, <1>2, <1>3 DEF ctlVars, jobVars, UndeployHeld, NamedFor
<1>4. CASE ToRest
  BY <1>1, <1>2, <1>4 DEF ToRest, UndeployHeld, Idle
<1>5. CASE Starts
  <2>1. UndeployHeld'
    BY <1>5 DEF Starts, UndeployHeld
  <2> QED
    BY <1>1, <1>2, <1>5, <2>1 DEF Starts
<1>6. CASE Works
  <2>1. UndeployHeld'
    <3> SUFFICES ASSUME pc' = "undeploy"
                 PROVE  obj'.deleting /\ NamedFor(undeploy', req', source'.svc)
      BY DEF UndeployHeld, NamedFor
    <3>1. Handles /\ obj'.deleting = obj.deleting /\ req' = req
      BY <1>6 DEF Works, SameCopy, Owns, Sweeps, Lists, Enters, Prepares
    <3>2. PICK t \in targets : undeploy' = PolicyKey(req, source.svc, source.direction, t)
      BY <3>1 DEF Handles
    <3>3. source' = source /\ obj.deleting /\ NsOf[source.svc] = AccessNs[req]
      BY <3>1 DEF Handles, Held
    <3>4. t \in Services /\ source.direction \in RawDirections
      BY <3>1, <3>2 DEF Handles, TypeInv, TypeOK, JobTypeOK, Holding, Sources
    <3> QED
      BY <3>1, <3>2, <3>3, <3>4 DEF NamedFor
  <2>2. CASE Owns
    <3>1. \A o \in owned' : o.key \in NetpolKeys
      BY DEF TypeInv, TypeOK, JobTypeOK
    <3>2. \A k \in NetpolKeys : npCache[k] # Absent => npCache[k].owner \in Accesses
      BY DEF TypeInv, TypeOK, ClusterTypeOK, NetpolsTypeOK, Maybe, NetpolObjects
    <3>3. \A o \in owned' : npCache[o.key] # Absent /\ o.svc = npCache[o.key].svc
      BY <2>2 DEF Owns
    <3>4. OwnedNamed'
      BY <3>1, <3>2, <3>3 DEF NetpolsNamed, OwnedNamed, NamedFor
    <3> QED
      BY <1>1, <2>1, <3>4
  <2> QED
    BY <1>1, <1>2, <1>6, <2>1, <2>2 DEF Works
<1> QED
  BY <1>3, <1>4, <1>5, <1>6 DEF WorkerMoves

\* A step changes no policy, or it is a user's, the garbage collector's, or one of
\* the worker's three.
LEMMA NetpolsChange ==
  ASSUME TypeInv, [Next]_vars
  PROVE  \/ UNCHANGED netpols
         \/ \E k \in NetpolKeys : DeleteNetpol(k) \/ CollectNetpol(k)
         \/ UNCHANGED Claims /\ \E k \in NetpolKeys : PolicyStep(k)
<1>1. CASE UserStep \/ PlatformStep
  BY <1>1 DEF UserStep, PlatformStep, PutService, DeleteService, CreateAccess, EditAccess,
              DeleteAccess, DeliverService, CollectAccess, DeliverAccess, DeliverNetpol,
              TimerFires, Resync, Tick, npVars
<1>2. CASE (\E a \in Accesses : Reconcile(a)) \/ Restart \/ UNCHANGED vars
  BY <1>2 DEF Reconcile, ReconcileGone, ReconcileStart, Restart, ClusterRestart, stores,
              vars, clusterVars, npVars
<1>3. CASE WorkerStep
  <2>1. UNCHANGED <<svcVars, accVars, edits>> => UNCHANGED Claims
    BY DEF svcVars, accVars, Claims
  <2> QED
    BY <1>3, <2>1, WorkerChange DEF WorkerChanges, npVars
<1> QED
  BY <1>1, <1>2, <1>3 DEF Next

\* What the worker takes away has lost its ground.
LEMMA TakenIsForfeited ==
  ASSUME KeysApart, TypeInv, Provenance, LedgerInv, NEW k \in NetpolKeys,
         Swept(k) \/ Undone(k)
  PROVE  Forfeited(Claims, netpols[k])
<1> DEFINE n == netpols[k]
<1>1. n # Absent /\ NamedFor(k, n.owner, n.svc)
  BY DEF Swept, Undone, LedgerInv, NetpolsNamed
<1>2. n.owner \in Accesses /\ n.svc \in Services
  BY <1>1 DEF TypeInv, TypeOK, ClusterTypeOK, NetpolsTypeOK, Maybe, NetpolObjects
<1>3. \A a \in Accesses, s \in Services : NamedFor(k, a, s) => n.owner = a /\ n.svc = s
  BY <1>1, <1>2 DEF KeysApart, NamedFor
<1>4. CASE Swept(k)
  <2>1. PICK o \in owned : o.key = k /\ IsOrphan(o)
    BY <1>4 DEF Swept
  <2>2. o.svc \in Services
    BY DEF TypeInv, TypeOK, JobTypeOK
  <2>3. n.svc = o.svc
    BY <1>3, <2>1, <2>2 DEF LedgerInv, OwnedNamed
  <2>4. services[n.svc] = Absent \/ n.svc \in svcEvents
    BY <1>2, <2>1, <2>3 DEF Provenance, CachesCurrent, IsOrphan
  <2> QED
    BY <2>4 DEF Forfeited, Claims
<1>5. CASE Undone(k)
  <2>1. pc = "undeploy" /\ obj.deleting /\ NamedFor(k, req, source.svc)
    BY <1>5 DEF Undone, LedgerInv, UndeployHeld
  <2>2. pc # Idle /\ source.svc \in Services
    BY <2>1 DEF Idle, TypeInv, Holding, Sources
  <2>3. ClusterTypeOK /\ req \in Accesses /\ obj.uid \in Nat /\ n.uid \in Nat
    BY <1>1, <2>2, HeldType, UidType DEF Uids
  <2>4. n.owner = req
    BY <1>3, <2>1, <2>2, <2>3
  <2>5. CopyOf(req, obj) /\ n.uid <= obj.uid
    BY <1>1, <2>2, <2>4 DEF LedgerInv, Succession, CopyInOrder, HeldOwners
  <2>6. ~OwnedBy(n, accesses[req]) \/ accesses[req].deleting
    BY <2>1, <2>3, <2>5, OwnerGoing
  <2> QED
    BY <2>4, <2>6 DEF Forfeited, Claims
<1> QED
  BY <1>4, <1>5

\* Every step keeps the ledger.
LEMMA LedgerStep ==
  ASSUME KeysApart, TypeInv, TypeInv', Provenance, Provenance', ClusterMoves, LedgerInv,
         [Next]_vars
  PROVE  Ledger!Next
<1>1. ASSUME UNCHANGED netpols
      PROVE  Ledger!Next
  <2>1. Kept(Claims, Claims')
    BY MovesGrow DEF Grows, Kept, Claims
  <2> QED
    BY <1>1, <2>1 DEF Ledger!Next, Ledger!Claim
<1>2. ASSUME NEW k \in NetpolKeys, DeleteNetpol(k)
      PROVE  Ledger!Next
  <2>1. Claims' = [Claims EXCEPT !.acts = @ + 1]
    BY <1>2 DEF DeleteNetpol, Edit, Claims, svcVars, accVars
  <2>2. Ledger!TakeAway(k)
    BY <1>2, <2>1 DEF DeleteNetpol, WriteNetpol, Ledger!TakeAway, Ledger!Becomes
  <2> QED
    BY <2>2 DEF Ledger!Next
<1>3. ASSUME NEW k \in NetpolKeys, WriteNetpol(k, Absent), UNCHANGED Claims,
             Forfeited(Claims, netpols[k])
      PROVE  Ledger!Next
  <2>1. Ledger!Lift(k)
    BY <1>3 DEF WriteNetpol, Ledger!Lift, Ledger!Becomes
  <2> QED
    BY <2>1 DEF Ledger!Next
<1>4. ASSUME NEW k \in NetpolKeys, CollectNetpol(k)
      PROVE  Ledger!Next
  <2>1. UNCHANGED Claims
    BY <1>4 DEF CollectNetpol, Claims, svcVars, accVars, bounds
  <2>2. Forfeited(Claims, netpols[k])
    BY <1>4 DEF CollectNetpol, Forfeited, Claims
  <2> QED
    BY <1>3, <1>4, <2>1, <2>2 DEF CollectNetpol
<1>5. ASSUME NEW k \in NetpolKeys, UNCHANGED Claims, Swept(k) \/ Undone(k)
      PROVE  Ledger!Next
  BY <1>3, <1>5, TakenIsForfeited DEF Swept, Undone
<1>6. ASSUME NEW k \in NetpolKeys, NEW n, UNCHANGED Claims, StoredAt(k, n)
      PROVE  Ledger!Next
  <2>1. n # Absent
    BY <1>6, StoredRequested, MarkerAssumption DEF Provenance
  <2>2. netpols'[k] = n /\ netpols' = [netpols EXCEPT ![k] = netpols'[k]]
    BY <1>6 DEF StoredAt, WriteNetpol, TypeInv, TypeOK, ClusterTypeOK, NetpolsTypeOK
  <2>3. UNCHANGED <<svcHist, specHist>>
    BY <1>6 DEF Claims
  <2>4. Ground(Claims, k, netpols'[k])
    BY <2>1, <2>2, <2>3 DEF Provenance, PoliciesRequested, Ground, Claims
  <2>5. Ledger!Enact(k)
    BY <1>6, <2>1, <2>2, <2>4 DEF Ledger!Enact, Ledger!Becomes
  <2> QED
    BY <2>5 DEF Ledger!Next
<1> QED
  BY <1>1, <1>2, <1>4, <1>5, <1>6, NetpolsChange DEF PolicyStep

\* The first states: caches as stored, nothing held, no policy.
LEMMA InitLedgerInv == Init => LedgerInv
BY InitInOrder
   DEF Init, AtRest, Idle, ClusterInit, LedgerInv, Succession, CopyInOrder, HeldOwners,
       OwnedNamed, NetpolsNamed, UndeployHeld

\* Where the names of policies tell Accesses and sources apart, the controller
\* implements the ledger, although the Accesses of one name in two namespaces list and
\* clean up each other's policies, whatever is stale, fails or restarts: a step changes
\* at most one policy, to one whose rules were asked for, or takes one away that has
\* lost its ground on the server at that moment.
THEOREM AccessLedgerKept == KeysApart => (Spec => KeepsLedger)
<1> SUFFICES ASSUME KeysApart
             PROVE  Spec => KeepsLedger
  OBVIOUS
<1> DEFINE Inv == TypeInv /\ Provenance /\ LedgerInv
<1>1. Init => Inv /\ Ledger!Init
  BY InitType, InitProvenance, InitLedgerInv DEF Init, ClusterInit, Ledger!Init
<1>2. Inv /\ [Next]_vars => Inv' /\ [Ledger!Next]_<<Claims, netpols>>
  <2> SUFFICES ASSUME Inv, [Next]_vars
               PROVE  Inv' /\ [Ledger!Next]_<<Claims, netpols>>
    OBVIOUS
  <2>1. TypeInv' /\ Provenance'
    BY ProvenanceNext
  <2>2. ClusterMoves /\ WorkerMoves /\ OwnersMove
    BY NextMoves, NextWorkerMoves, OwnersNext DEF Provenance
  <2>3. CopyMoves
    BY <2>2, CopyNext
  <2>4. ClusterTypeOK /\ ClusterTypeOK'
    BY <2>1, HeldType
  <2>5. Succession'
    BY <2>1, <2>2, <2>3, <2>4, MovesInOrder, CopyMove, OwnerMoves DEF LedgerInv, Succession
  <2>6. NetpolsNamed' /\ OwnedNamed' /\ UndeployHeld'
    BY <2>1, <2>2, NamesMove DEF LedgerInv, Provenance
  <2>7. Ledger!Next
    BY <2>1, <2>2, LedgerStep
  <2> QED
    BY <2>1, <2>5, <2>6, <2>7 DEF LedgerInv
<1> HIDE DEF Inv
<1> QED
  BY <1>1, <1>2, PTL DEF Spec, KeepsLedger, Ledger!Spec

-----------------------------------------------------------------------------
(* Deadlines.  updateStatus writes the deadline of the copy onto the latest  *)
(* object in the cache.  Where Accesses are created again under a name, that *)
(* can be a later incarnation, so what follows is for Accesses that are not. *)

\* Nothing was created after the start.
FirstOnes ==
  /\ \A a \in Accesses : /\ accesses[a] # Absent => accesses[a].created = 0
                         /\ accCache[a] # Absent => accCache[a].created = 0
  /\ pc # Idle => obj.created = 0

\* The copy's deadline is due to a spec, and has passed where the worker found so.
HeldDue ==
  /\ pc # Idle => Due(specHist[req], obj)
  /\ pc = "expired" => obj.expiresAt # NoTime /\ now >= obj.expiresAt

DatedInv == Seen /\ Written /\ CachesCurrent /\ AccessesDue /\ FirstOnes /\ HeldDue

\* What is gone stays gone.
LEMMA StaysGone ==
  ASSUME "CreateAccess" \notin Moves, TypeInv, CachesCurrent, [Next]_vars,
         NEW a \in Accesses, accesses[a] = Absent
  PROVE  accesses'[a] = Absent
<1>1. ASSUME UNCHANGED accesses
      PROVE  accesses'[a] = Absent
  BY <1>1
<1>2. ASSUME NEW b \in Accesses, NEW o, WriteAccess(b, o), accesses[b] # Absent
      PROVE  accesses'[a] = Absent
  BY <1>2 DEF WriteAccess, TypeInv, TypeOK, ClusterTypeOK, AccessesTypeOK
<1>3. CASE UserStep \/ PlatformStep
  <2>1. \A b \in Accesses : ~CreateAccess(b)
    BY DEF CreateAccess, Edit
  <2>2. ASSUME NEW b \in Accesses, EditAccess(b) \/ DeleteAccess(b) \/ CollectAccess(b)
        PROVE  accesses[b] # Absent /\ \E o : WriteAccess(b, o)
    BY <2>2 DEF EditAccess, DeleteAccess, CollectAccess
  <2> QED
    BY <1>1, <1>2, <1>3, <2>1, <2>2
       DEF UserStep, PlatformStep, PutService, DeleteService, DeleteNetpol, CollectNetpol,
           DeliverNetpol, DeliverService, DeliverAccess, TimerFires, Resync, Tick, accVars
<1>4. CASE WorkerStep
  <2>1. CASE ObjectStep
    <3>1. req \in Accesses
      BY <2>1 DEF ObjectStep, TypeInv, Holding, Idle
    <3> QED
      BY <1>2, <2>1, <3>1 DEF ObjectStep, CachesCurrent
  <2> QED
    BY <1>1, <1>4, <2>1, WorkerChange DEF WorkerChanges, accVars
<1> QED
  BY <1>1, <1>3, <1>4
     DEF Next, Restart, ClusterRestart, stores, Reconcile, ReconcileGone, ReconcileStart,
         vars, clusterVars, accVars

\* So nothing is created later.
LEMMA FirstNext ==
  ASSUME "CreateAccess" \notin Moves, TypeInv, CachesCurrent, FirstOnes, ClusterMoves,
         WorkerMoves, [Next]_vars
  PROVE  FirstOnes'
<1>1. ASSUME NEW a \in Accesses
      PROVE  /\ accesses'[a] # Absent => accesses'[a].created = 0
             /\ accCache'[a] # Absent => accCache'[a].created = 0
  BY StaysGone DEF ClusterMoves, AccessesMove, Rewritten, Continues, Begins, FirstOnes
<1>2. pc' # Idle => obj'.created = 0
  <2>1. CASE Starts
    <3>1. accCache[req'] \in AccessObjects /\ req' \in Accesses
      BY <2>1, MaybeIn DEF Starts, TypeInv, TypeOK, ClusterTypeOK, AccessesTypeOK
    <3> QED
      BY <2>1, <3>1, DatedKeeps DEF Starts, FirstOnes
  <2> QED
    BY <2>1 DEF WorkerMoves, ctlVars, jobVars, ToRest, Works, SameCopy, FirstOnes
<1> QED
  BY <1>1, <1>2 DEF FirstOnes

\* The deadlines of the stored and cached objects stay due.
LEMMA DueNext ==
  ASSUME TypeInv, DatedInv, ClusterMoves, [Next]_vars
  PROVE  AccessesDue'
<1>1. AccessesDue
  BY DEF DatedInv
<1>2. CASE UserStep \/ PlatformStep \/ Restart
  <2>1. DatesKept
    BY <1>2, ClusterDates DEF ClusterStep, Restart, TypeInv, TypeOK
  <2> QED
    BY <1>1, <2>1, DueStays
<1>3. ASSUME UNCHANGED accesses
      PROVE  AccessesDue'
  BY <1>1, <1>3, DueStays
<1>4. CASE ObjectStep
  <2>1. req \in Accesses /\ AccessesTypeOK
    BY <1>4 DEF ObjectStep, TypeInv, TypeOK, ClusterTypeOK, Holding, Idle
  <2>2. PICK n : /\ WriteAccess(req, n)
                 /\ \/ n = Absent
                    \/ /\ pc = "status" /\ accCache[req] # Absent
                       /\ n = WithStatus(accCache[req])
    BY <1>4 DEF ObjectStep
  <2>3. \A b \in Accesses : accesses'[b] = IF b = req THEN n ELSE accesses[b]
    BY <2>1, <2>2 DEF WriteAccess, AccessesTypeOK
  <2>4. n # Absent => Due(specHist[req], n)
    <3> SUFFICES ASSUME n # Absent
                 PROVE  Due(specHist[req], n)
      OBVIOUS
    <3>1. pc = "status" /\ accCache[req] # Absent /\ n = WithStatus(accCache[req])
      BY <2>2
    <3>2. accCache[req] \in AccessObjects
      BY <2>1, <3>1, MaybeIn DEF AccessesTypeOK
    <3>3. /\ n.created = accCache[req].created
          /\ n.expiresAt = IF obj.expiresAt # NoTime THEN obj.expiresAt
                           ELSE accCache[req].expiresAt
      BY <3>1, <3>2 DEF WithStatus, AccessObjects
    <3>4. /\ accCache[req].created = 0 /\ obj.created = 0
          /\ Due(specHist[req], obj) /\ Due(specHist[req], accCache[req])
      BY <2>1, <3>1 DEF DatedInv, FirstOnes, HeldDue, AccessesDue, Idle
    <3> QED
      BY <3>3, <3>4 DEF Due
  <2> QED
    BY <1>1, <2>3, <2>4, DueStays
<1> QED
  BY <1>2, <1>3, <1>4, WorkerChange
     DEF Next, WorkerChanges, Reconcile, ReconcileGone, ReconcileStart, vars, clusterVars,
         accVars

\* And those of the copy.
LEMMA HeldDueNext ==
  ASSUME DurationsFit, TypeInv, TypeInv', DatedInv, Grows, WorkerMoves, [Next]_vars
  PROVE  HeldDue'
<1>1. now <= now' /\ now \in Nat
  <2>1. now \in Nat
    BY DEF TypeInv, TypeOK, ClusterTypeOK, WakeTypeOK
  <2>2. CASE UserStep \/ PlatformStep \/ Restart
    BY <2>1, <2>2, ClockGoes DEF ClusterStep, Restart, TypeInv, TypeOK
  <2>3. CASE WorkerStep \/ (\E a \in Accesses : Reconcile(a)) \/ UNCHANGED vars
    BY <2>1, <2>3
       DEF WorkerStep, DeleteExpired, ListOwned, CleanupOne, ListServices, ListFails,
           SkipService, BeginService, SkipTarget, Deploy, Undeploy, FinishUnchanged, PrepareStatus,
           FinishStatus, Reconcile, ReconcileGone, ReconcileStart, vars, clusterVars,
           wakeVars
  <2> QED
    BY <2>2, <2>3 DEF Next
<1>2. CASE UNCHANGED ctlVars
  <2>1. UNCHANGED <<pc, req, obj>>
    BY <1>2 DEF ctlVars, jobVars
  <2>2. pc # Idle => req \in Accesses /\ specHist[req] \subseteq specHist'[req]
    BY DEF TypeInv, Holding, Grows
  <2>3. pc = "expired" => obj.expiresAt \in Int /\ now' \in Nat
    BY DEF DatedInv, HeldDue, TypeInv, TypeOK, ClusterTypeOK, WakeTypeOK, Holding,
           AccessObjects, Times, Idle
  <2> QED
    BY <1>1, <2>1, <2>2, <2>3 DEF DatedInv, HeldDue, Due
<1>3. CASE ToRest
  BY <1>3 DEF ToRest, HeldDue, Idle
<1>4. CASE Works /\ UNCHANGED specHist
  <2>1. pc # Idle /\ pc' # "expired"
    BY <1>4 DEF Works, Owns, Sweeps, Lists, Enters, Handles, Prepares
  <2> QED
    BY <1>4, <2>1 DEF Works, SameCopy, DatedInv, HeldDue, Due
<1>5. CASE Starts /\ UNCHANGED specHist
  <2>1. PICK o \in AccessObjects : o = accCache[req']
    BY <1>5, MaybeIn DEF Starts, TypeInv, TypeOK, ClusterTypeOK, AccessesTypeOK
  <2>2. /\ req' \in Accesses /\ obj' = Dated(o)
        /\ Due(specHist[req'], o) /\ o.spec \in specHist[req']
    BY <1>5, <2>1 DEF Starts, DatedInv, AccessesDue, Seen
  <2>3. Due(specHist[req'], obj')
    <3>1. CASE o.spec.duration # NoDuration /\ o.expiresAt = NoTime
      <4>1. o.spec \in AccessSpecs /\ o.spec \in Specs[req']
        BY <2>2 DEF AccessObjects, DatedInv, Written
      <4>2. ParseDuration(o.spec.duration) = o.spec.duration
        BY <2>2, <3>1, <4>1, DurationRead
      <4>3. /\ obj'.expiresAt = o.created + o.spec.duration
            /\ obj'.created = o.created
        BY <2>2, <3>1, <4>2 DEF Dated, AccessObjects
      <4> QED
        BY <2>2, <3>1, <4>3 DEF Due
    <3>2. CASE ~(o.spec.duration # NoDuration /\ o.expiresAt = NoTime)
      BY <2>2, <3>2 DEF Dated
    <3> QED
      BY <3>1, <3>2
  <2>4. pc' = "expired" => obj'.expiresAt # NoTime /\ now' >= obj'.expiresAt
    <3> SUFFICES ASSUME pc' = "expired"
                 PROVE  obj'.expiresAt # NoTime /\ now' >= obj'.expiresAt
      OBVIOUS
    <3>1. o.expiresAt # NoTime /\ now >= o.expiresAt
      BY <1>5, <2>1 DEF Starts, IsExpired
    <3>2. obj'.expiresAt = o.expiresAt /\ o.expiresAt \in Int /\ now' \in Nat
      BY <2>2, <3>1, DatedKeeps
         DEF AccessObjects, Times, TypeInv, TypeOK, ClusterTypeOK, WakeTypeOK
    <3> QED
      BY <1>1, <3>1, <3>2
  <2> QED
    BY <1>5, <2>3, <2>4 DEF HeldDue
<1> QED
  BY <1>2, <1>3, <1>4, <1>5 DEF WorkerMoves

\* The worker deletes only what it has found over.
LEMMA DeletedAfter ==
  ASSUME TypeInv, DatedInv, [Next]_vars, NEW a \in Accesses,
         pc = "expired", pc' # pc, accesses[a] # Absent, accesses'[a] = Absent
  PROVE  \E sp \in specHist[a] : sp.duration # NoDuration
                                 /\ now >= accesses[a].created + sp.duration
<1>1. WorkerStep
  BY DEF Next, Restart, ClusterRestart, stores, Reconcile, ReconcileGone, ReconcileStart,
         vars, ctlVars, Idle
<1>2. ObjectStep
  BY <1>1, WorkerChange DEF WorkerChanges, accVars
<1>3. req = a
  BY <1>2 DEF ObjectStep, WriteAccess, TypeInv, TypeOK, ClusterTypeOK, AccessesTypeOK
<1>4. /\ obj.expiresAt # NoTime /\ now >= obj.expiresAt
      /\ Due(specHist[a], obj) /\ obj.created = 0 /\ accesses[a].created = 0
  BY <1>3 DEF DatedInv, HeldDue, FirstOnes, Idle
<1> QED
  BY <1>4 DEF Due

\* The first states: objects that were just created, without a deadline.
LEMMA InitDated == Init => DatedInv
<1> SUFFICES ASSUME Init PROVE DatedInv
  OBVIOUS
<1>1. \A a \in Accesses : accesses[a] # Absent => \E sp : accesses[a] = NewAccess(sp)
  BY DEF Init, ClusterInit, Maybe
<1>2. \A sp : NewAccess(sp).created = 0
  BY DEF Init, ClusterInit, NewAccess
<1>3. FirstOnes
  BY <1>1, <1>2 DEF Init, AtRest, ClusterInit, FirstOnes, Idle
<1> QED
  BY <1>3, InitHistory, InitDue DEF Init, AtRest, Idle, DatedInv, HeldDue

\* Where durations are as long as written and Accesses are not created again, the
\* worker deletes an Access only after its creation time and a duration it had: not
\* for a deadline that an old copy or an earlier duration would put before that.
THEOREM AccessNotBeforeItsTime ==
  DurationsFit /\ "CreateAccess" \notin Moves => (Spec => NotBeforeItsTime)
<1> SUFFICES ASSUME DurationsFit, "CreateAccess" \notin Moves
             PROVE  Spec => NotBeforeItsTime
  OBVIOUS
<1> DEFINE Inv == TypeInv /\ DatedInv
           InTime ==
             \A a \in Accesses :
               (pc = "expired" /\ pc' # pc /\ accesses[a] # Absent /\ accesses'[a] = Absent)
                 => \E sp \in specHist[a] : sp.duration # NoDuration
                                            /\ now >= accesses[a].created + sp.duration
<1>1. Init => Inv
  BY InitType, InitDated
<1>2. Inv /\ [Next]_vars => Inv'
  <2> SUFFICES ASSUME Inv, [Next]_vars
               PROVE  Inv'
    OBVIOUS
  <2>1. TypeInv' /\ ClusterMoves /\ WorkerMoves
    BY NextType, NextMoves, NextWorkerMoves DEF DatedInv
  <2>2. Seen' /\ Written' /\ CachesCurrent' /\ Grows
    BY <2>1, MovesSeen, MovesWritten, MovesCurrent, MovesGrow DEF DatedInv
  <2>3. AccessesDue' /\ FirstOnes' /\ HeldDue'
    BY <2>1, <2>2, DueNext, FirstNext, HeldDueNext DEF DatedInv
  <2> QED
    BY <2>1, <2>2, <2>3 DEF DatedInv
<1>3. Inv /\ [Next]_vars => InTime
  BY DeletedAfter
<1>4. Spec => [][Inv /\ Next]_vars
  <2> HIDE DEF Inv
  <2> QED
    BY <1>1, <1>2, PTL DEF Spec
<1>5. [Inv /\ Next]_vars => [InTime]_vars
  <2> HIDE DEF Inv, InTime
  <2> QED
    BY <1>3
<1> HIDE DEF Inv
<1> QED
  BY <1>4, <1>5, PTL DEF NotBeforeItsTime
=============================================================================
