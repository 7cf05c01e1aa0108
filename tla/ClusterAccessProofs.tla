------------------------ MODULE ClusterAccessProofs ------------------------
(***************************************************************************)
(* Theorems about the ClusterAccess controller, for all services,          *)
(* ClusterAccesses, names, versions, specs and bounds.                     *)
(*                                                                         *)
(* The typing invariant alone is not inductive: what Reconcile holds at a  *)
(* step is typed because of where it is, which Holding adds.               *)
(***************************************************************************)
EXTENDS ClusterAccessProperties, ReconcilingProofs

\* What Reconcile holds at each place.
Holding ==
  /\ pc # Idle => req \in Accesses /\ obj \in AccessObjects
  /\ pc \in {"targets", "undeploySource", "mirror", "undeployMirror"} => source \in Sources
  /\ pc \in {"undeploySource", "mirror", "undeployMirror"} => peer \in Peers

TypeInv == TypeOK /\ Holding

-----------------------------------------------------------------------------
(* Operators *)

\* The direction of a policy in the target's namespace is a direction.
LEMMA MirroredType ==
  ASSUME NEW d \in Directions
  PROVE  MirroredDirection(d) \in Directions
BY DEF MirroredDirection, Directions

\* The policies of a source and a target are stored under a key.
LEMMA KeyType ==
  ASSUME NEW a \in Accesses, NEW s \in Services, NEW t \in Services, NEW d
  PROVE  /\ SourceKey(a, s, d, t) \in NetpolKeys
         /\ MirrorKey(a, s, d, t) \in NetpolKeys
         /\ [SourceKey(a, s, d, t) EXCEPT !.ns = NsOf[t]] \in NetpolKeys
<1>1. NsOf[s] \in Namespaces /\ NsOf[t] \in Namespaces
  BY ClusterAssumption
<1>2. \A e : [access |-> a, self |-> s, peer |-> t, suffix |-> DirectionSuffix(e),
              mirror |-> FALSE] \in NameParts
  BY SuffixType, ClusterAccessAssumption DEF NameParts
<1>3. \A e : [access |-> a, self |-> t, peer |-> s, suffix |-> DirectionSuffix(e),
              mirror |-> TRUE] \in NameParts
  BY SuffixType, ClusterAccessAssumption DEF NameParts
<1>4. NameOf \in [NameParts -> NetpolNames]
  BY ClusterAssumption
<1> QED
  BY <1>1, <1>2, <1>3, <1>4 DEF SourceKey, MirrorKey, NetpolKeys

\* And they are policies.
LEMMA NetpolType ==
  ASSUME NEW o \in AccessObjects, NEW a \in Accesses,
         NEW src \in Sources, NEW p \in Peers
  PROVE  /\ SourceNetpol(o, a, src, p) \in NetpolObjects
         /\ MirrorNetpol(o, a, src, p) \in NetpolObjects
<1>1. /\ src.svc \in Services /\ src.pods \in Pods
      /\ src.direction \in Directions /\ src.ports \in SUBSET ServicePorts
      /\ p.svc \in Services /\ p.pods \in Pods /\ o.uid \in Nat
  BY DEF Sources, Peers, AccessObjects
<1>2. NsOf[src.svc] \in Namespaces /\ NsOf[p.svc] \in Namespaces
  BY <1>1, ClusterAssumption
<1>3. MirroredDirection(src.direction) \in Directions
  BY <1>1, MirroredType
<1>4. DefineAccessNetworkPolicy(src.pods, p.pods, NsOf[p.svc], src.ports, src.direction)
        \in NetpolSpecs
  BY <1>1, <1>2, AccessNetpolType
<1>5. DefineAccessNetworkPolicy(p.pods, src.pods, NsOf[src.svc], src.ports,
                                MirroredDirection(src.direction)) \in NetpolSpecs
  BY <1>1, <1>2, <1>3, AccessNetpolType
<1> QED
  BY <1>1, <1>4, <1>5 DEF SourceNetpol, MirrorNetpol, NetpolObjects

-----------------------------------------------------------------------------
(* What the worker holds *)

\* A step of others leaves it alone.
LEMMA JobSame ==
  ASSUME JobTypeOK, Holding, UNCHANGED ctlVars
  PROVE  JobTypeOK' /\ Holding'
BY DEF JobTypeOK, Holding, ctlVars, jobVars

\* setCondition on the copy Reconcile holds.
LEMMA SetConditionType ==
  ASSUME obj \in AccessObjects, statusNeedUpdate \in BOOLEAN,
         NEW t \in CondTypes, NEW st \in Statuses, SetCondition(obj, t, st)
  PROVE  obj' \in AccessObjects /\ statusNeedUpdate' \in BOOLEAN
BY WithCondType DEF SetCondition

\* A restart drops what the worker holds.
LEMMA RestartType ==
  ASSUME TypeInv, Restart
  PROVE  TypeInv'
<1>1. JobTypeOK' /\ Holding'
  BY DEF Restart, ToRest, JobTypeOK, Holding, Maybe, PCs, Idle, NoObj, NoSource, NoPeer
<1> QED
  BY <1>1, ClusterRestartType DEF TypeInv, TypeOK, Restart

-----------------------------------------------------------------------------
(* The worker's steps *)

\* After a reconcile the worker holds nothing.
LEMMA RestType ==
  ASSUME ToRest, statusNeedUpdate' \in BOOLEAN
  PROVE  JobTypeOK' /\ Holding'
BY DEF ToRest, JobTypeOK, Holding, Maybe, PCs, Idle, NoObj, NoSource, NoPeer

\* The start of a reconcile: what is read from the cache is a ClusterAccess.
LEMMA ReconcileType ==
  ASSUME TypeInv, NEW a \in Accesses, Reconcile(a)
  PROVE  TypeInv'
<1> USE DEF TypeInv, TypeOK, ClusterTypeOK
<1>1. CASE ReconcileGone(a)
  <2>1. WakeTypeOK'
    BY <1>1 DEF ReconcileGone, WakeTypeOK
  <2> QED
    BY <1>1, <2>1, ServicesSame, AccessesSame, NetpolsSame, BoundsSame, JobSame
       DEF ReconcileGone
<1>2. CASE ReconcileStart(a)
  <2>1. accCache[a] \in AccessObjects
    BY <1>2, MaybeIn DEF ReconcileStart, AccessesTypeOK
  <2>2. obj' \in AccessObjects /\ obj' \in Maybe(AccessObjects)
    BY <1>2, <2>1, DatedType, ConstantsType DEF ReconcileStart
  <2>3. pc' \in {"expired", "list"} /\ req' = a
    BY <1>2 DEF ReconcileStart
  <2>4. JobTypeOK' /\ Holding'
    BY <1>2, <2>2, <2>3, ConstantsType
       DEF ReconcileStart, JobTypeOK, Holding, PCs, Idle
  <2>5. WakeTypeOK' /\ AccessesTypeOK'
    BY <1>2 DEF ReconcileStart, WakeTypeOK, AccessesTypeOK
  <2> QED
    BY <1>2, <2>4, <2>5, ServicesSame, NetpolsSame, BoundsSame DEF ReconcileStart
<1> QED
  BY <1>1, <1>2 DEF Reconcile

\* The deletion of an expired ClusterAccess.
LEMMA DeleteExpiredType ==
  ASSUME TypeInv, DeleteExpired
  PROVE  TypeInv'
<1> USE DEF TypeInv, TypeOK, ClusterTypeOK
<1>1. req \in Accesses
  BY DEF DeleteExpired, Holding, Idle
<1>2. AccessesTypeOK'
  BY <1>1, WriteAccessType, AccessesSame, ConstantsType
     DEF DeleteExpired, AccessesTypeOK
<1>3. BoundsTypeOK'
  BY FaultType DEF DeleteExpired
<1>4. WakeTypeOK'
  BY <1>1 DEF DeleteExpired, WakeTypeOK
<1>5. JobTypeOK' /\ Holding'
  BY RestType DEF DeleteExpired, JobTypeOK
<1> QED
  BY <1>2, <1>3, <1>4, <1>5, ServicesSame, NetpolsSame DEF DeleteExpired

\* The list of the owned policies: what is read is in the cache.
LEMMA ListOwnedType ==
  ASSUME TypeInv, ListOwned
  PROVE  TypeInv'
<1> USE DEF TypeInv, TypeOK, ClusterTypeOK
<1>1. \A k \in NetpolKeys : npCache[k] # Absent => npCache[k].svc \in Services
  BY DEF NetpolsTypeOK, Maybe, NetpolObjects
<1>2. owned' \subseteq [key : NetpolKeys, svc : Services]
  BY <1>1 DEF ListOwned
<1>3. JobTypeOK' /\ Holding'
  BY <1>2 DEF ListOwned, JobTypeOK, Holding, PCs, Idle
<1> QED
  BY <1>3, ClusterSame DEF ListOwned

\* One step of the cleanup.
LEMMA CleanupOneType ==
  ASSUME TypeInv, CleanupOne
  PROVE  TypeInv'
<1> USE DEF TypeInv, TypeOK, ClusterTypeOK
<1>1. obj \in AccessObjects /\ statusNeedUpdate \in BOOLEAN
  BY DEF CleanupOne, Holding, JobTypeOK, Idle
<1>2. PICK o \in owned :
        /\ owned' = owned \ {o}
        /\ Fault \/ NoFault
        /\ UNCHANGED npVars \/ WriteNetpol(o.key, Absent)
        /\ \/ UNCHANGED <<obj, statusNeedUpdate>>
           \/ SetCondition(obj, "NetpolsGCReady", "True")
           \/ /\ obj' = WithCond(WithCond(obj, "NetpolsGCNotReady", "False"),
                                 "NetpolsGCReady", "True")
              /\ statusNeedUpdate' = (statusNeedUpdate \/ obj'.conds # obj.conds)
  BY DEF CleanupOne
<1>3. o.key \in NetpolKeys
  BY <1>2 DEF JobTypeOK
<1>4. NetpolsTypeOK'
  BY <1>2, <1>3, WriteNetpolType, NetpolsSame, ConstantsType
<1>5. BoundsTypeOK'
  BY <1>2, FaultType
<1>6. obj' \in AccessObjects /\ statusNeedUpdate' \in BOOLEAN
  BY <1>1, <1>2, SetConditionType, WithCondType, ConstantsType
<1>7. JobTypeOK' /\ Holding'
  BY <1>2, <1>6, ConstantsType DEF CleanupOne, JobTypeOK, Holding
<1> QED
  BY <1>4, <1>5, <1>7, ServicesSame, AccessesSame, WakeSame DEF CleanupOne

\* The list of the services, or its failure.
LEMMA ListType ==
  ASSUME TypeInv, ListServices \/ ListFails
  PROVE  TypeInv'
<1> USE DEF TypeInv, TypeOK, ClusterTypeOK
<1>1. CASE ListServices
  <2>1. listed' \subseteq [svc : Services, version : ServiceVersions]
    BY <1>1 DEF ListServices, ServicesTypeOK, Maybe
  <2>2. JobTypeOK' /\ Holding'
    BY <1>1, <2>1 DEF ListServices, JobTypeOK, Holding, PCs, Idle
  <2> QED
    BY <1>1, <2>2, ClusterSame DEF ListServices
<1>2. CASE ListFails
  <2>1. WakeTypeOK'
    BY <1>2 DEF ListFails, WakeTypeOK, Holding, Idle
  <2>2. JobTypeOK' /\ Holding'
    BY <1>2, RestType DEF ListFails, JobTypeOK
  <2> QED
    BY <1>2, <2>1, <2>2, ServicesSame, AccessesSame, NetpolsSame, BoundsSame DEF ListFails
<1> QED
  BY <1>1, <1>2

\* One listed service: what passes the checks is a source.
LEMMA ServiceStepType ==
  ASSUME TypeInv, SkipService \/ BeginService
  PROVE  TypeInv'
<1> USE DEF TypeInv, TypeOK, ClusterTypeOK
<1>1. CASE SkipService
  <2>1. JobTypeOK' /\ Holding'
    BY <1>1 DEF SkipService, JobTypeOK, Holding
  <2> QED
    BY <1>1, <2>1, ClusterSame DEF SkipService
<1>2. CASE BeginService
  <2>1. PICK l \in listed :
          /\ IsSource(l)
          /\ listed' = listed \ {l}
          /\ matched' = matched \cup {l.svc}
          /\ targets' = TargetsOf(l.version, obj.spec)
          /\ source' = [svc |-> l.svc,
                        direction |-> ToLower(DirectionOf(l.version, obj.spec)),
                        pods |-> svcCache[l.svc].pods, ports |-> svcCache[l.svc].ports]
    BY <1>2 DEF BeginService
  <2>2. l.svc \in Services /\ l.version \in ServiceVersions
    BY <2>1 DEF JobTypeOK
  <2>3. obj.spec \in AccessSpecs
    BY <1>2 DEF BeginService, Holding, Idle, AccessObjects
  <2>4. TargetsOf(l.version, obj.spec) \subseteq Services
    BY <2>2, <2>3, ClusterAccessAssumption DEF TargetsOf, ServiceVersions, AccessSpecs
  <2>5. ToLower(DirectionOf(l.version, obj.spec)) \in Directions
    BY <2>1 DEF IsSource, IsValidDirection
  <2>6. svcCache[l.svc] \in ServiceVersions /\ svcCache[l.svc].pods # NoPods
    BY <2>1, <2>2 DEF IsSource, HasDetails, ServicesTypeOK, Maybe
  <2>7. source' \in Sources
    BY <2>1, <2>2, <2>5, <2>6 DEF Sources, ServiceVersions
  <2>8. JobTypeOK' /\ Holding'
    BY <1>2, <2>1, <2>2, <2>4, <2>7, ConstantsType
       DEF BeginService, JobTypeOK, Holding, PCs, Idle
  <2> QED
    BY <1>2, <2>8, ClusterSame DEF BeginService
<1> QED
  BY <1>1, <1>2

\* Where a target ends, the worker holds what the next place needs.
LEMMA NextTargetType ==
  ASSUME source \in Sources, NextTarget
  PROVE  /\ pc' \in {"services", "targets"} /\ peer' = NoPeer
         /\ source' \in Maybe(Sources)
         /\ pc' = "targets" => source' \in Sources
BY ConstantsType DEF NextTarget, NoSource

\* So it does after a source's policy.
LEMMA AfterSourceType ==
  ASSUME source \in Sources, NEW p \in Peers, AfterSource(p)
  PROVE  /\ pc' \in {"services", "targets", "mirror"}
         /\ peer' \in Maybe(Peers) /\ source' \in Maybe(Sources)
         /\ pc' \in {"targets", "mirror"} => source' \in Sources
         /\ pc' = "mirror" => peer' = p
BY NextTargetType, ConstantsType DEF AfterSource, NoPeer

\* A target without details.
LEMMA SkipTargetType ==
  ASSUME TypeInv, SkipTarget
  PROVE  TypeInv'
<1> USE DEF TypeInv, TypeOK, ClusterTypeOK
<1>1. source \in Sources
  BY DEF SkipTarget, Holding
<1>2. targets' \subseteq Services
  BY DEF SkipTarget, JobTypeOK
<1>3. JobTypeOK' /\ Holding'
  BY <1>1, <1>2, NextTargetType, ConstantsType
     DEF SkipTarget, JobTypeOK, Holding, PCs, Idle, NoPeer
<1> QED
  BY <1>3, ClusterSame DEF SkipTarget

\* deployResource stores a policy, or nothing.
LEMMA DeployResourceType ==
  ASSUME TypeInv, obj \in AccessObjects, NEW k \in NetpolKeys, NEW n \in NetpolObjects,
         DeployResource(k, n)
  PROVE  /\ NetpolsTypeOK' /\ BoundsTypeOK'
         /\ obj' \in AccessObjects /\ statusNeedUpdate' \in BOOLEAN
<1> USE DEF TypeInv, TypeOK, ClusterTypeOK
<1>1. statusNeedUpdate \in BOOLEAN /\ npCache[k] \in Maybe(NetpolObjects)
  BY DEF JobTypeOK, NetpolsTypeOK
<1>2. npCache[k] # Absent => Merged(n, npCache[k]) \in NetpolObjects
  BY <1>1 DEF Merged, NetpolObjects, Maybe
<1>3. /\ Fault \/ NoFault
      /\ \/ UNCHANGED npVars
         \/ \E m \in Maybe(NetpolObjects) : WriteNetpol(k, m)
      /\ \/ SetCondition(obj, "NetworkPolicyDeployReady", "True")
         \/ SetCondition(obj, "NetworkPolicyDeployReady", "False")
  BY <1>2, ConstantsType DEF DeployResource, CreateResource, ReconcileResource
<1>4. NetpolsTypeOK'
  BY <1>3, WriteNetpolType, NetpolsSame
<1>5. BoundsTypeOK'
  BY <1>3, FaultType
<1>6. obj' \in AccessObjects /\ statusNeedUpdate' \in BOOLEAN
  BY <1>1, <1>3, SetConditionType, ConstantsType
<1> QED
  BY <1>4, <1>5, <1>6

\* deleteResource removes a policy, or nothing.
LEMMA DeleteResourceType ==
  ASSUME TypeInv, obj \in AccessObjects, NEW k \in NetpolKeys, DeleteResource(k)
  PROVE  /\ NetpolsTypeOK' /\ BoundsTypeOK'
         /\ obj' \in AccessObjects /\ statusNeedUpdate' \in BOOLEAN
<1> USE DEF TypeInv, TypeOK, ClusterTypeOK
<1>1. statusNeedUpdate \in BOOLEAN
  BY DEF JobTypeOK
<1>2. /\ Fault \/ NoFault
      /\ UNCHANGED npVars \/ WriteNetpol(k, Absent)
      /\ \/ UNCHANGED <<obj, statusNeedUpdate>>
         \/ SetCondition(obj, "NetworkPolicyDeployReady", "True")
         \/ SetCondition(obj, "NetworkPolicyDeployReady", "False")
  BY DEF DeleteResource
<1>3. NetpolsTypeOK'
  BY <1>2, WriteNetpolType, NetpolsSame, ConstantsType
<1>4. BoundsTypeOK'
  BY <1>2, FaultType
<1>5. obj' \in AccessObjects /\ statusNeedUpdate' \in BOOLEAN
  BY <1>1, <1>2, SetConditionType, ConstantsType
<1> QED
  BY <1>3, <1>4, <1>5

\* The policy of the source.
LEMMA DeploySourceType ==
  ASSUME TypeInv, DeploySource
  PROVE  TypeInv'
<1> USE DEF TypeInv, TypeOK, ClusterTypeOK
<1>1. source \in Sources /\ req \in Accesses /\ obj \in AccessObjects
  BY DEF DeploySource, Holding, Idle
<1> DEFINE key(t) == SourceKey(req, source.svc, source.direction, t)
           toward(t) == [svc |-> t, pods |-> svcCache[t].pods]
<1>2. PICK t \in targets :
        /\ HasDetails(svcCache[t])
        /\ targets' = targets \ {t}
        /\ DeployResource(key(t), SourceNetpol(obj, req, source, toward(t)))
        /\ deployed' = deployed \cup {[key(t) EXCEPT !.ns = NsOf[t]]}
        /\ IF obj.deleting
           THEN pc' = "undeploySource" /\ peer' = toward(t) /\ UNCHANGED source
           ELSE AfterSource(toward(t))
  BY DEF DeploySource
<1>3. t \in Services /\ source.svc \in Services
  BY <1>1 DEF JobTypeOK, Sources
<1>4. toward(t) \in Peers
  BY <1>2, <1>3 DEF HasDetails, ServicesTypeOK, Maybe, ServiceVersions, Peers
<1>5. key(t) \in NetpolKeys /\ [key(t) EXCEPT !.ns = NsOf[t]] \in NetpolKeys
  BY <1>1, <1>3, KeyType
<1>6. SourceNetpol(obj, req, source, toward(t)) \in NetpolObjects
  BY <1>1, <1>4, NetpolType
<1> HIDE DEF key, toward
<1>7. /\ NetpolsTypeOK' /\ BoundsTypeOK'
      /\ obj' \in AccessObjects /\ statusNeedUpdate' \in BOOLEAN
  BY <1>1, <1>2, <1>5, <1>6, DeployResourceType
<1>8. /\ pc' \in {"services", "targets", "mirror", "undeploySource"}
      /\ peer' \in Maybe(Peers) /\ source' \in Maybe(Sources)
      /\ pc' \in {"targets", "mirror", "undeploySource"} => source' \in Sources
      /\ pc' \in {"mirror", "undeploySource"} => peer' \in Peers
  BY <1>1, <1>2, <1>4, AfterSourceType, ConstantsType
<1>9. targets' \subseteq Services /\ deployed' \subseteq NetpolKeys
  BY <1>2, <1>5 DEF JobTypeOK
<1>10. UNCHANGED <<req, owned, listed, matched, wakeVars, svcVars, accVars>>
  BY DEF DeploySource
<1>11. JobTypeOK' /\ Holding'
  BY <1>1, <1>7, <1>8, <1>9, <1>10, ConstantsType DEF JobTypeOK, Holding, PCs, Idle
<1> QED
  BY <1>7, <1>10, <1>11, ServicesSame, AccessesSame, WakeSame

\* Its deletion.
LEMMA UndeploySourceType ==
  ASSUME TypeInv, UndeploySource
  PROVE  TypeInv'
<1> USE DEF TypeInv, TypeOK, ClusterTypeOK
<1>1. source \in Sources /\ peer \in Peers /\ req \in Accesses /\ obj \in AccessObjects
  BY DEF UndeploySource, Holding, Idle
<1>2. SourceKey(req, source.svc, source.direction, peer.svc) \in NetpolKeys
  BY <1>1, KeyType DEF Sources, Peers
<1>3. /\ NetpolsTypeOK' /\ BoundsTypeOK'
      /\ obj' \in AccessObjects /\ statusNeedUpdate' \in BOOLEAN
  BY <1>1, <1>2, DeleteResourceType DEF UndeploySource
<1>4. /\ pc' \in {"services", "targets", "mirror"}
      /\ peer' \in Maybe(Peers) /\ source' \in Maybe(Sources)
      /\ pc' \in {"targets", "mirror"} => source' \in Sources
      /\ pc' = "mirror" => peer' \in Peers
  BY <1>1, AfterSourceType DEF UndeploySource
<1>5. UNCHANGED <<req, owned, listed, matched, targets, deployed, wakeVars, svcVars, accVars>>
  BY DEF UndeploySource
<1>6. JobTypeOK' /\ Holding'
  BY <1>1, <1>3, <1>4, <1>5, ConstantsType DEF JobTypeOK, Holding, PCs, Idle
<1> QED
  BY <1>3, <1>5, <1>6, ServicesSame, AccessesSame, WakeSame

\* The mirrored policy and its deletion.
LEMMA MirrorStepType ==
  ASSUME TypeInv, DeployMirror \/ UndeployMirror
  PROVE  TypeInv'
<1> USE DEF TypeInv, TypeOK, ClusterTypeOK
<1>1. source \in Sources /\ peer \in Peers /\ req \in Accesses /\ obj \in AccessObjects
  BY DEF DeployMirror, UndeployMirror, Holding, Idle
<1> DEFINE k == MirrorKey(req, source.svc, source.direction, peer.svc)
<1>2. k \in NetpolKeys
  BY <1>1, KeyType DEF Sources, Peers
<1>3. MirrorNetpol(obj, req, source, peer) \in NetpolObjects
  BY <1>1, NetpolType
<1>4. /\ NetpolsTypeOK' /\ BoundsTypeOK'
      /\ obj' \in AccessObjects /\ statusNeedUpdate' \in BOOLEAN
  BY <1>1, <1>2, <1>3, DeployResourceType, DeleteResourceType
     DEF DeployMirror, UndeployMirror
<1>5. /\ pc' \in {"services", "targets", "undeployMirror"}
      /\ peer' \in Maybe(Peers) /\ source' \in Maybe(Sources)
      /\ pc' \in {"targets", "undeployMirror"} => source' \in Sources
      /\ pc' = "undeployMirror" => peer' \in Peers
  BY <1>1, NextTargetType, ConstantsType DEF DeployMirror, UndeployMirror, NoPeer
<1>6. deployed' \subseteq NetpolKeys
  BY <1>2 DEF DeployMirror, UndeployMirror, JobTypeOK
<1>7. UNCHANGED <<req, owned, listed, matched, targets, wakeVars, svcVars, accVars>>
  BY DEF DeployMirror, UndeployMirror
<1>8. JobTypeOK' /\ Holding'
  BY <1>1, <1>4, <1>5, <1>6, <1>7, ConstantsType DEF JobTypeOK, Holding, PCs, Idle
<1> QED
  BY <1>4, <1>7, <1>8, ServicesSame, AccessesSame, WakeSame

\* The end of a reconcile: the status is one of a ClusterAccess.
LEMMA FinishReconcileType ==
  ASSUME TypeInv, FinishReconcile
  PROVE  TypeInv'
<1> USE DEF TypeInv, TypeOK, ClusterTypeOK
<1>1. req \in Accesses /\ obj \in AccessObjects
  BY DEF FinishReconcile, Holding, Idle
<1> DEFINE o == Refreshed(obj)
<1>2. Existing(obj) \in AccessObjects
  BY <1>1 DEF Existing, AccessObjects
<1>3. o \in AccessObjects
  <2>1. [Existing(obj) EXCEPT !.netpols = @ \cup deployed, !.services = @ \cup matched]
          \in AccessObjects
    BY <1>2 DEF AccessObjects, JobTypeOK
  <2> QED
    BY <2>1, WithCondType, ConstantsType DEF Refreshed
<1>4. WithCond(o, "Ready", "True") \in AccessObjects
  BY <1>3, WithCondType, ConstantsType
<1> HIDE DEF o
<1>5. UpdateStatus(o)
  BY DEF FinishReconcile, o
<1>6. /\ Fault \/ NoFault
      /\ statusNeedUpdate' \in BOOLEAN
      /\ \/ UNCHANGED accVars
         \/ /\ accesses[req] # Absent
            /\ WriteAccess(req, WithStatus(req, WithCond(o, "Ready", "True")))
            /\ UNCHANGED specHist
  BY <1>5 DEF UpdateStatus, JobTypeOK
<1>7. accesses[req] # Absent =>
        WithStatus(req, WithCond(o, "Ready", "True")) \in AccessObjects
  <2>1. accesses[req] # Absent => accesses[req] \in AccessObjects
    BY <1>1 DEF AccessesTypeOK, Maybe
  <2> QED
    BY <1>4, <2>1 DEF WithStatus, AccessObjects
<1>8. AccessesTypeOK'
  BY <1>1, <1>6, <1>7, AccessesSame, WriteAccessType, ConstantsType DEF AccessesTypeOK
<1>9. BoundsTypeOK'
  BY <1>6, FaultType
<1>10. WakeTypeOK'
  <2>1. obj.expiresAt \in Times
    BY <1>1 DEF AccessObjects
  <2> QED
    BY <1>1, <2>1 DEF FinishReconcile, Requeue, WakeTypeOK
<1>11. JobTypeOK' /\ Holding'
  BY <1>6, RestType DEF FinishReconcile
<1> QED
  BY <1>8, <1>9, <1>10, <1>11, ServicesSame, NetpolsSame DEF FinishReconcile

-----------------------------------------------------------------------------
\* The first states are typed.
LEMMA InitType == Init => TypeInv
<1> SUFFICES ASSUME Init PROVE TypeInv
  OBVIOUS
<1>1. JobTypeOK /\ Holding
  BY ConstantsType DEF Init, AtRest, JobTypeOK, Holding, PCs, Idle, NoObj, NoSource, NoPeer
<1> QED
  BY <1>1, ClusterInitType DEF Init, TypeInv, TypeOK

\* Every step keeps the typing and what the worker holds.
LEMMA NextType == TypeInv /\ [Next]_vars => TypeInv'
<1> SUFFICES ASSUME TypeInv, [Next]_vars PROVE TypeInv'
  OBVIOUS
<1>1. CASE UserStep /\ UNCHANGED ctlVars
  BY <1>1, UserStepType, JobSame DEF TypeInv, TypeOK
<1>2. CASE PlatformStep /\ UNCHANGED ctlVars
  BY <1>2, PlatformStepType, JobSame DEF TypeInv, TypeOK
<1>3. CASE \E a \in Accesses : Reconcile(a)
  BY <1>3, ReconcileType
<1>4. CASE WorkerStep
  BY <1>4, DeleteExpiredType, ListOwnedType, CleanupOneType, ListType, ServiceStepType, SkipTargetType,
     DeploySourceType, UndeploySourceType, MirrorStepType, FinishReconcileType
     DEF WorkerStep
<1>5. CASE Restart
  BY <1>5, RestartType
<1>6. CASE UNCHANGED vars
  BY <1>6, ClusterSame, JobSame DEF vars, TypeInv, TypeOK
<1> QED
  BY <1>1, <1>2, <1>3, <1>4, <1>5, <1>6 DEF Next

\* The state always has its type, and so has what Reconcile holds at a step: it
\* never works on a ClusterAccess, source or target it does not have.
THEOREM TypeCorrect == Spec => []TypeOK
<1>1. Spec => []TypeInv
  BY InitType, NextType, PTL DEF Spec
<1>2. TypeInv => TypeOK
  BY DEF TypeInv
<1> QED
  BY <1>1, <1>2, PTL

-----------------------------------------------------------------------------
(* No policy is made up, and no deadline is.                                  *)
(*                                                                            *)
(* The stored policies alone are not inductive: what a policy is made of      *)
(* passes through the caches and through what Reconcile holds between its     *)
(* steps, so each of these must come from something stored at some time.      *)

\* The ClusterAccess and the services Reconcile holds.
HeldSeen ==
  /\ pc # Idle => obj.spec \in specHist[req]
  /\ pc \notin {Idle, "expired", "list", "cleanup"} => obj.spec.selector # BadSelector
  /\ pc \in {Idle, "expired", "list", "cleanup"} => listed = {}
  /\ \A l \in listed : /\ l.version \in svcHist[l.svc]
                       /\ l.version.label \in obj.spec.selector

AskedFor(t) == \E v \in svcHist[source.svc] : Asks(v, obj.spec, source.direction, t)

\* The source and the target Reconcile holds.
HeldAsked ==
  /\ pc \in {"targets", "undeploySource", "mirror", "undeployMirror"} =>
       /\ \A t \in targets : AskedFor(t)
       /\ \E v \in svcHist[source.svc] : source.pods = v.pods /\ source.ports = v.ports
  /\ pc \in {"undeploySource", "mirror", "undeployMirror"} =>
       /\ AskedFor(peer.svc)
       /\ \E w \in svcHist[peer.svc] : peer.pods = w.pods
  /\ pc \in {"mirror", "undeployMirror"} => obj.spec.mirrored

\* The policies, stored and cached.
PoliciesRequested ==
  \A k \in NetpolKeys :
    /\ netpols[k] # Absent => Requested(svcHist, specHist, k, netpols[k])
    /\ npCache[k] # Absent => Requested(svcHist, specHist, k, npCache[k])

Provenance == Seen /\ HeldSeen /\ HeldAsked /\ PoliciesRequested

\* Every step moves services and ClusterAccesses as the cluster's own steps do: the
\* worker at most writes the status of one ClusterAccess, or deletes it.
LEMMA NextMoves ==
  ASSUME TypeInv, [Next]_vars
  PROVE  ClusterMoves
<1> USE DEF TypeInv, TypeOK, ClusterTypeOK
<1>0. edits \in Nat
  BY DEF BoundsTypeOK
<1>1. ASSUME UNCHANGED <<svcVars, accesses, accCache, accEvents, specHist, edits>>
      PROVE  ClusterMoves
  BY <1>0, <1>1, ServicesStay, AccessesStay DEF ClusterMoves
<1>2. CASE UserStep \/ PlatformStep \/ Restart
  BY <1>2, ClusterStepMoves DEF ClusterStep, Restart
<1>3. CASE \E a \in Accesses : Reconcile(a)
  BY <1>1, <1>3 DEF Reconcile, ReconcileGone, ReconcileStart, accVars, bounds
<1>4. CASE DeleteExpired
  <2>1. req \in Accesses /\ UNCHANGED <<svcVars, specHist, edits>>
    BY <1>4 DEF DeleteExpired, Holding, Idle, accVars, Fault, NoFault, bounds
  <2>2. UNCHANGED accVars \/ WriteAccess(req, Absent)
    BY <1>4 DEF DeleteExpired
  <2>3. AccessesMove
    BY <2>1, <2>2, AccessWritten, AccessesStay DEF accVars
  <2> QED
    BY <1>0, <2>1, <2>3, ServicesStay DEF ClusterMoves
<1>5. CASE FinishReconcile
  <2>1. req \in Accesses /\ UNCHANGED <<svcVars, edits>>
    BY <1>5 DEF FinishReconcile, Holding, Idle, UpdateStatus, Fault, NoFault, bounds
  <2>2. \/ UNCHANGED accVars
        \/ \E o : /\ accesses[req] # Absent
                  /\ WriteAccess(req, WithStatus(req, o)) /\ UNCHANGED specHist
    BY <1>5 DEF FinishReconcile, UpdateStatus
  <2>3. AccessesMove
    <3>1. CASE UNCHANGED accVars
      BY <3>1, AccessesStay DEF accVars
    <3> QED
      BY <2>1, <2>2, <3>1, StatusWritten
  <2> QED
    BY <1>0, <2>1, <2>3, ServicesStay DEF ClusterMoves
<1>6. CASE \/ ListOwned \/ CleanupOne \/ ListServices \/ ListFails
           \/ SkipService \/ BeginService \/ SkipTarget
  BY <1>1, <1>6 DEF ListOwned, CleanupOne, ListServices, ListFails, SkipService, BeginService, SkipTarget,
                    accVars, clusterVars, Fault, NoFault, bounds
<1>7. CASE DeploySource \/ UndeploySource \/ DeployMirror \/ UndeployMirror
  <2>1. UNCHANGED <<svcVars, accVars>>
    BY <1>7 DEF DeploySource, UndeploySource, DeployMirror, UndeployMirror
  <2>2. UNCHANGED edits
    BY <1>7 DEF DeploySource, UndeploySource, DeployMirror, UndeployMirror, DeployResource,
                CreateResource, ReconcileResource, DeleteResource, Fault, NoFault, bounds
  <2> QED
    BY <1>1, <2>1, <2>2 DEF accVars
<1>8. CASE UNCHANGED vars
  BY <1>1, <1>8 DEF vars, clusterVars, accVars, bounds
<1> QED
  BY <1>2, <1>3, <1>4, <1>5, <1>6, <1>7, <1>8 DEF Next, WorkerStep

-----------------------------------------------------------------------------
(* What Reconcile holds *)

\* It stays asked for when the worker does not move.
LEMMA HeldSame ==
  ASSUME TypeInv, HeldSeen, HeldAsked, UNCHANGED ctlVars, Grows
  PROVE  HeldSeen' /\ HeldAsked'
<1>1. \A l \in listed : l.svc \in Services
  BY DEF TypeInv, TypeOK, JobTypeOK
<1>2. pc # Idle => req \in Accesses
  BY DEF TypeInv, Holding
<1>3. HeldSeen'
  BY <1>1, <1>2 DEF HeldSeen, Grows, ctlVars, jobVars
<1>4. pc \in {"targets", "undeploySource", "mirror", "undeployMirror"} => source.svc \in Services
  BY DEF TypeInv, Holding, Sources
<1>5. pc \in {"undeploySource", "mirror", "undeployMirror"} => peer.svc \in Services
  BY DEF TypeInv, Holding, Peers
<1>6. HeldAsked'
  BY <1>4, <1>5 DEF HeldAsked, AskedFor, Asks, Grows, ctlVars, jobVars
<1> QED
  BY <1>3, <1>6

\* After a reconcile nothing is held.
LEMMA HeldRest ==
  ASSUME ToRest
  PROVE  HeldSeen' /\ HeldAsked'
BY DEF ToRest, HeldSeen, HeldAsked, Idle

\* setCondition keeps the spec, the incarnation and the deletion mark of the copy.
LEMMA SetConditionKeeps ==
  ASSUME obj \in AccessObjects, NEW t, NEW st, SetCondition(obj, t, st)
  PROVE  /\ obj'.spec = obj.spec
         /\ obj'.uid = obj.uid /\ obj'.created = obj.created
         /\ obj'.deleting = obj.deleting /\ obj'.expiresAt = obj.expiresAt
BY DEF SetCondition, WithCond, AccessObjects

\* The start of a reconcile holds the spec of the cached copy.
LEMMA HeldStart ==
  ASSUME TypeInv, Seen, HeldSeen, NEW a \in Accesses, ReconcileStart(a)
  PROVE  HeldSeen' /\ HeldAsked'
<1>1. accCache[a] \in AccessObjects /\ accCache[a].spec \in specHist[a]
  BY MaybeIn DEF ReconcileStart, TypeInv, TypeOK, ClusterTypeOK, AccessesTypeOK, Seen
<1>2. Dated(accCache[a]).spec = accCache[a].spec
  BY <1>1 DEF Dated, WithCond, AccessObjects
<1>3. /\ pc' \in {"expired", "list"} /\ req' = a /\ obj'.spec \in specHist'[a]
      /\ listed' = {}
  BY <1>1, <1>2 DEF ReconcileStart, HeldSeen
<1> QED
  BY <1>3 DEF HeldSeen, HeldAsked, Idle

\* The list of the owned policies moves nothing else that is held.
LEMMA HeldOwned ==
  ASSUME HeldSeen, ListOwned
  PROVE  HeldSeen' /\ HeldAsked'
BY DEF ListOwned, HeldSeen, HeldAsked, Idle, clusterVars, svcVars, accVars

\* The cleanup changes conditions only.
LEMMA HeldCleanup ==
  ASSUME TypeInv, HeldSeen, CleanupOne
  PROVE  HeldSeen' /\ HeldAsked'
<1>1. obj \in AccessObjects
  BY DEF CleanupOne, TypeInv, Holding, Idle
<1>2. \/ UNCHANGED obj
      \/ SetCondition(obj, "NetpolsGCReady", "True")
      \/ obj' = WithCond(WithCond(obj, "NetpolsGCNotReady", "False"), "NetpolsGCReady", "True")
  BY DEF CleanupOne
<1>3. obj'.spec = obj.spec
  BY <1>1, <1>2, SetConditionKeeps DEF WithCond, AccessObjects
<1>4. UNCHANGED <<pc, req, listed, svcHist, specHist>> /\ pc = "cleanup"
  BY DEF CleanupOne, svcVars, accVars
<1> QED
  BY <1>3, <1>4 DEF HeldSeen, HeldAsked

\* The list holds versions from the cache whose labels the selector accepts.
LEMMA HeldList ==
  ASSUME TypeInv, Seen, HeldSeen, ListServices
  PROVE  HeldSeen' /\ HeldAsked'
<1>1. \A l \in listed' : l.version \in svcHist[l.svc] /\ l.version.label \in obj.spec.selector
  BY DEF ListServices, Seen
<1>2. pc' = "services" /\ pc = "cleanup" /\ obj.spec.selector # BadSelector
  BY DEF ListServices
<1>3. UNCHANGED <<req, obj, svcHist, specHist>>
  BY DEF ListServices, clusterVars, svcVars, accVars
<1> QED
  BY <1>1, <1>2, <1>3 DEF HeldSeen, HeldAsked, Idle

\* A listed service becomes a source with the targets and the direction that its
\* listed version and the spec ask for.
LEMMA HeldBegin ==
  ASSUME TypeInv, Seen, HeldSeen, BeginService
  PROVE  HeldSeen' /\ HeldAsked'
<1>1. PICK l \in listed :
        /\ IsSource(l)
        /\ listed' = listed \ {l}
        /\ targets' = TargetsOf(l.version, obj.spec)
        /\ source' = [svc |-> l.svc,
                      direction |-> ToLower(DirectionOf(l.version, obj.spec)),
                      pods |-> svcCache[l.svc].pods, ports |-> svcCache[l.svc].ports]
  BY DEF BeginService
<1>2. pc = "services" /\ pc' = "targets" /\ UNCHANGED <<req, obj, svcHist, specHist>>
  BY DEF BeginService, clusterVars, svcVars, accVars
<1>3. l.svc \in Services /\ l.version \in ServiceVersions /\ obj \in AccessObjects
  BY <1>1, <1>2 DEF TypeInv, TypeOK, JobTypeOK, Holding, Idle
<1>4. /\ l.version \in svcHist[l.svc] /\ l.version.label \in obj.spec.selector
      /\ obj.spec.selector # BadSelector
  BY <1>1, <1>2 DEF HeldSeen, Idle
<1>5. HeldSeen'
  BY <1>1, <1>2 DEF HeldSeen, Idle
<1>6. DirectionOf(l.version, obj.spec) \in RawDirections
  BY <1>3 DEF DirectionOf, ServiceVersions, AccessObjects, AccessSpecs
<1>7. ASSUME NEW t \in targets'
      PROVE  Asks(l.version, obj.spec, source'.direction, t)
  BY <1>1, <1>4, <1>6, <1>7 DEF Asks, TargetsOf, DirectionOf, AnyCase
<1>8. svcCache[l.svc] \in svcHist[l.svc]
  BY <1>1, <1>3 DEF IsSource, HasDetails, Seen
<1>9. source'.svc = l.svc /\ source'.pods = svcCache[l.svc].pods
      /\ source'.ports = svcCache[l.svc].ports
  BY <1>1
<1> QED
  BY <1>2, <1>4, <1>5, <1>7, <1>8, <1>9 DEF HeldAsked, AskedFor

\* Where a target ends, what is held is dropped or stays.
LEMMA HeldNextTarget ==
  ASSUME TypeInv, HeldSeen, HeldAsked,
         pc \in {"targets", "undeploySource", "mirror", "undeployMirror"},
         NextTarget, targets' \subseteq targets, obj'.spec = obj.spec,
         UNCHANGED <<req, listed, svcHist, specHist>>
  PROVE  HeldSeen' /\ HeldAsked'
<1>1. pc' \in {"services", "targets"} /\ (pc' = "targets" => UNCHANGED source)
  BY DEF NextTarget
<1>2. HeldSeen'
  BY <1>1 DEF HeldSeen, Idle
<1>3. HeldAsked'
  BY <1>1 DEF HeldAsked, AskedFor
<1> QED
  BY <1>2, <1>3

\* Towards the mirrored policy, or the next target, after the source's.
LEMMA HeldAfterSource ==
  ASSUME TypeInv, HeldSeen, HeldAsked, pc \in {"targets", "undeploySource"},
         NEW p \in Peers, AskedFor(p.svc), \E w \in svcHist[p.svc] : p.pods = w.pods,
         \/ AfterSource(p)
         \/ pc' = "undeploySource" /\ peer' = p /\ UNCHANGED source,
         targets' \subseteq targets, obj'.spec = obj.spec,
         UNCHANGED <<req, listed, svcHist, specHist>>
  PROVE  HeldSeen' /\ HeldAsked'
<1>1. CASE NextTarget
  BY <1>1, HeldNextTarget
<1>2. CASE /\ pc' \in {"mirror", "undeploySource"} /\ peer' = p /\ UNCHANGED source
           /\ pc' = "mirror" => obj.spec.mirrored
  <2>1. HeldSeen'
    BY <1>2 DEF HeldSeen, Idle
  <2>2. HeldAsked'
    BY <1>2 DEF HeldAsked, AskedFor
  <2> QED
    BY <2>1, <2>2
<1> QED
  BY <1>1, <1>2 DEF AfterSource

\* So do deployResource and its deletion.
LEMMA DeployKeeps ==
  ASSUME obj \in AccessObjects, NEW k, NEW n, DeployResource(k, n) \/ DeleteResource(k)
  PROVE  /\ obj'.spec = obj.spec
         /\ obj'.uid = obj.uid /\ obj'.created = obj.created
         /\ obj'.deleting = obj.deleting /\ obj'.expiresAt = obj.expiresAt
<1>1. \/ UNCHANGED obj
      \/ SetCondition(obj, "NetworkPolicyDeployReady", "True")
      \/ SetCondition(obj, "NetworkPolicyDeployReady", "False")
  BY DEF DeployResource, CreateResource, ReconcileResource, DeleteResource
<1> QED
  BY <1>1, SetConditionKeeps

\* The target of a deployed policy has the pods the cache shows.
LEMMA HeldDeploySource ==
  ASSUME TypeInv, Seen, HeldSeen, HeldAsked, DeploySource
  PROVE  HeldSeen' /\ HeldAsked'
<1> DEFINE toward(t) == [svc |-> t, pods |-> svcCache[t].pods]
<1>1. obj \in AccessObjects /\ pc = "targets"
  BY DEF DeploySource, TypeInv, Holding, Idle
<1>2. PICK t \in targets :
        /\ HasDetails(svcCache[t])
        /\ targets' = targets \ {t}
        /\ DeployResource(SourceKey(req, source.svc, source.direction, t),
                          SourceNetpol(obj, req, source, toward(t)))
        /\ \/ AfterSource(toward(t))
           \/ pc' = "undeploySource" /\ peer' = toward(t) /\ UNCHANGED source
  BY DEF DeploySource
<1>3. t \in Services /\ svcCache[t] \in svcHist[t] /\ svcCache[t] \in ServiceVersions
      /\ svcCache[t].pods # NoPods
  BY <1>2 DEF HasDetails, Seen, TypeInv, TypeOK, ClusterTypeOK, ServicesTypeOK, JobTypeOK, Maybe
<1>4. toward(t) \in Peers
  BY <1>3 DEF Peers, ServiceVersions
<1>5. AskedFor(t)
  BY <1>1, <1>2 DEF HeldAsked
<1>6. PICK p \in Peers : p = toward(t)
  BY <1>4
<1>7. p.svc = t /\ p.pods = svcCache[t].pods
  BY <1>6
<1>8. obj'.spec = obj.spec
  BY <1>1, <1>2, DeployKeeps
<1>9. UNCHANGED <<req, listed, svcHist, specHist>>
  BY DEF DeploySource, svcVars, accVars
<1>10. \/ AfterSource(p)
       \/ pc' = "undeploySource" /\ peer' = p /\ UNCHANGED source
  BY <1>2, <1>6
<1>11. AskedFor(p.svc) /\ \E w \in svcHist[p.svc] : p.pods = w.pods
  BY <1>3, <1>5, <1>7
<1> HIDE DEF toward
<1> QED
  BY <1>1, <1>2, <1>8, <1>9, <1>10, <1>11, HeldAfterSource

\* The other steps on a target.
LEMMA HeldTargetSteps ==
  ASSUME TypeInv, HeldSeen, HeldAsked,
         SkipTarget \/ UndeploySource \/ DeployMirror \/ UndeployMirror
  PROVE  HeldSeen' /\ HeldAsked'
<1>1. CASE SkipTarget
  <2>1. UNCHANGED <<req, obj, listed, svcHist, specHist>> /\ targets' \subseteq targets
        /\ pc = "targets" /\ NextTarget
    BY <1>1 DEF SkipTarget, clusterVars, svcVars, accVars
  <2> QED
    BY <2>1, HeldNextTarget
<1>2. CASE UndeploySource
  <2>1. peer \in Peers /\ obj \in AccessObjects
    BY <1>2 DEF UndeploySource, TypeInv, Holding, Idle
  <2>2. AskedFor(peer.svc) /\ \E w \in svcHist[peer.svc] : peer.pods = w.pods
    BY <1>2 DEF UndeploySource, HeldAsked
  <2>3. UNCHANGED <<req, listed, targets, svcHist, specHist>> /\ pc = "undeploySource"
        /\ AfterSource(peer)
    BY <1>2 DEF UndeploySource, svcVars, accVars
  <2>4. obj'.spec = obj.spec
    BY <1>2, <2>1, DeployKeeps DEF UndeploySource
  <2> QED
    BY <2>1, <2>2, <2>3, <2>4, HeldAfterSource
<1>3. CASE DeployMirror \/ UndeployMirror
  <2>1. obj \in AccessObjects
    BY <1>3 DEF DeployMirror, UndeployMirror, TypeInv, Holding, Idle
  <2>2. UNCHANGED <<req, listed, targets, svcHist, specHist>> /\ pc \in {"mirror", "undeployMirror"}
    BY <1>3 DEF DeployMirror, UndeployMirror, svcVars, accVars
  <2>3. obj'.spec = obj.spec
    BY <1>3, <2>1, DeployKeeps DEF DeployMirror, UndeployMirror
  <2>4. \/ NextTarget
        \/ pc = "mirror" /\ pc' = "undeployMirror" /\ UNCHANGED <<peer, source>>
    BY <1>3 DEF DeployMirror, UndeployMirror
  <2>5. CASE NextTarget
    BY <2>2, <2>3, <2>5, HeldNextTarget
  <2>6. CASE pc = "mirror" /\ pc' = "undeployMirror" /\ UNCHANGED <<peer, source>>
    <3>1. HeldSeen'
      BY <2>2, <2>3, <2>6 DEF HeldSeen, Idle
    <3>2. HeldAsked'
      BY <2>2, <2>3, <2>6 DEF HeldAsked, AskedFor
    <3> QED
      BY <3>1, <3>2
  <2> QED
    BY <2>4, <2>5, <2>6
<1> QED
  BY <1>1, <1>2, <1>3

\* Every step keeps what Reconcile holds asked for.
LEMMA HeldNext ==
  ASSUME TypeInv, Seen, HeldSeen, HeldAsked, Grows, [Next]_vars
  PROVE  HeldSeen' /\ HeldAsked'
<1>1. CASE (UserStep \/ PlatformStep) /\ UNCHANGED ctlVars
  BY <1>1, HeldSame
<1>2. CASE \E a \in Accesses : Reconcile(a)
  BY <1>2, HeldSame, HeldStart DEF Reconcile, ReconcileGone
<1>3. CASE SkipService
  <2>1. /\ listed' \subseteq listed /\ pc = "services" /\ pc' = pc
        /\ UNCHANGED <<req, obj, svcHist, specHist>>
    BY <1>3 DEF SkipService, clusterVars, svcVars, accVars
  <2> QED
    BY <2>1 DEF HeldSeen, HeldAsked, Idle
<1>4. CASE DeleteExpired \/ ListFails \/ FinishReconcile \/ Restart
  BY <1>4, HeldRest DEF DeleteExpired, ListFails, FinishReconcile, Restart
<1>5. CASE ListOwned \/ CleanupOne \/ ListServices \/ BeginService
  BY <1>5, HeldOwned, HeldCleanup, HeldList, HeldBegin
<1>6. CASE DeploySource \/ SkipTarget \/ UndeploySource \/ DeployMirror \/ UndeployMirror
  BY <1>6, HeldDeploySource, HeldTargetSteps
<1>7. CASE UNCHANGED vars
  BY <1>7, HeldSame DEF vars
<1> QED
  BY <1>1, <1>2, <1>3, <1>4, <1>5, <1>6, <1>7 DEF Next, WorkerStep

-----------------------------------------------------------------------------
(* The policies *)

\* What was asked for at some time stays so.
LEMMA RequestedGrows ==
  ASSUME NEW k, NEW n \in NetpolObjects, Grows, Requested(svcHist, specHist, k, n)
  PROVE  Requested(svcHist', specHist', k, n)
<1>1. n.owner \in Accesses /\ n.svc \in Services
  BY DEF NetpolObjects
<1> QED
  BY <1>1 DEF Requested, Grows

\* The policies after a step that stores none but requested ones.
LEMMA PoliciesKept ==
  ASSUME TypeInv, TypeInv', PoliciesRequested, Grows,
         \A k \in NetpolKeys :
           /\ npCache'[k] \in {npCache[k], netpols[k]}
           /\ \/ netpols'[k] \in {netpols[k], Absent}
              \/ Requested(svcHist, specHist, k, netpols'[k])
  PROVE  PoliciesRequested'
<1>1. \A k \in NetpolKeys :
        /\ netpols[k] # Absent => Requested(svcHist, specHist, k, netpols[k])
        /\ npCache[k] # Absent => Requested(svcHist, specHist, k, npCache[k])
  BY DEF PoliciesRequested
<1>2. \A k \in NetpolKeys :
        /\ netpols'[k] # Absent => netpols'[k] \in NetpolObjects
        /\ npCache'[k] # Absent => npCache'[k] \in NetpolObjects
  BY DEF TypeInv, TypeOK, ClusterTypeOK, NetpolsTypeOK, Maybe
<1>3. \A k \in NetpolKeys :
        /\ netpols'[k] # Absent => Requested(svcHist', specHist', k, netpols'[k])
        /\ npCache'[k] # Absent => Requested(svcHist', specHist', k, npCache'[k])
  BY <1>1, <1>2, RequestedGrows
<1> QED
  BY <1>3 DEF PoliciesRequested

\* In particular, after a write.
LEMMA PoliciesWritten ==
  ASSUME TypeInv, TypeInv', PoliciesRequested, Grows, NEW k \in NetpolKeys, NEW n,
         WriteNetpol(k, n), n # Absent => Requested(svcHist, specHist, k, n)
  PROVE  PoliciesRequested'
<1>1. \A i \in NetpolKeys :
        /\ npCache'[i] = npCache[i]
        /\ netpols'[i] = IF i = k THEN n ELSE netpols[i]
  BY DEF WriteNetpol, TypeInv, TypeOK, ClusterTypeOK, NetpolsTypeOK
<1> QED
  BY <1>1, PoliciesKept

\* The policies do not change in a step that leaves them alone.
LEMMA PoliciesSame ==
  ASSUME TypeInv, TypeInv', PoliciesRequested, Grows, UNCHANGED npVars
  PROVE  PoliciesRequested'
BY PoliciesKept DEF npVars

\* The name of a requested policy tells whether it is a mirrored one.
LEMMA NameTells ==
  ASSUME NEW k, NEW n \in NetpolObjects, Requested(svcHist, specHist, k, n)
  PROVE  \E p \in NameParts : k.name = NameOf[p] /\ p.mirror = n.mirror
<1>0. PICK t \in Services, d \in Directions : \E v, w : IsRuleFor(k, n, d, n.svc, v, t, w)
  BY DEF Requested
<1>1. PICK v, w : IsRuleFor(k, n, d, n.svc, v, t, w)
  BY <1>0
<1>2. n.owner \in Accesses /\ n.svc \in Services /\ n.mirror \in BOOLEAN
  BY DEF NetpolObjects
<1>3. CASE n.mirror
  <2> DEFINE p == [access |-> n.owner, self |-> t, peer |-> n.svc,
                   suffix |-> DirectionSuffix(MirroredDirection(d)), mirror |-> TRUE]
  <2>1. p \in NameParts
    BY <1>2, SuffixType, ClusterAccessAssumption DEF NameParts
  <2>2. k.name = NameOf[p]
    BY <1>1, <1>3 DEF IsRuleFor, MirrorKey
  <2> QED
    BY <1>2, <1>3, <2>1, <2>2
<1>4. CASE ~n.mirror
  <2> DEFINE p == [access |-> n.owner, self |-> n.svc, peer |-> t,
                   suffix |-> DirectionSuffix(d), mirror |-> FALSE]
  <2>1. p \in NameParts
    BY <1>2, SuffixType, ClusterAccessAssumption DEF NameParts
  <2>2. k.name = NameOf[p]
    BY <1>1, <1>4 DEF IsRuleFor, SourceKey
  <2> QED
    BY <1>2, <1>4, <2>1, <2>2
<1> QED
  BY <1>3, <1>4

\* So the labels that an update keeps never make a policy a mirrored one.
LEMMA MergedSame ==
  ASSUME NEW k, NEW n \in NetpolObjects, NEW old \in NetpolObjects,
         Requested(svcHist, specHist, k, n), Requested(svcHist, specHist, k, old)
  PROVE  Merged(n, old) = n
<1>1. PICK p \in NameParts : k.name = NameOf[p] /\ p.mirror = n.mirror
  BY NameTells
<1>2. PICK q \in NameParts : k.name = NameOf[q] /\ q.mirror = old.mirror
  BY NameTells
<1>3. n.mirror = old.mirror
  BY <1>1, <1>2, ClusterAssumption
<1> QED
  BY <1>3 DEF Merged, NetpolObjects

\* A deployment of a requested policy leaves requested ones.
LEMMA PoliciesDeployed ==
  ASSUME TypeInv, TypeInv', PoliciesRequested, Grows,
         NEW k \in NetpolKeys, NEW n \in NetpolObjects,
         Requested(svcHist, specHist, k, n), DeployResource(k, n)
  PROVE  PoliciesRequested'
<1>1. \/ UNCHANGED npVars
      \/ WriteNetpol(k, n)
      \/ npCache[k] # Absent /\ WriteNetpol(k, Merged(n, npCache[k]))
  BY DEF DeployResource, CreateResource, ReconcileResource
<1>2. npCache[k] # Absent => Merged(n, npCache[k]) = n
  <2>1. npCache[k] # Absent => npCache[k] \in NetpolObjects
    BY DEF TypeInv, TypeOK, ClusterTypeOK, NetpolsTypeOK, Maybe
  <2>2. npCache[k] # Absent => Requested(svcHist, specHist, k, npCache[k])
    BY DEF PoliciesRequested
  <2> QED
    BY <2>1, <2>2, MergedSame
<1> QED
  BY <1>1, <1>2, PoliciesSame, PoliciesWritten

\* What DefineAccessNetworkPolicy opens and closes, by direction.
LEMMA DefineOpens ==
  ASSUME NEW pods, NEW toward, NEW ns, NEW ports, NEW d \in Directions
  PROVE  Allows(DefineAccessNetworkPolicy(pods, toward, ns, ports, d),
                d \in {"ingress", "all"}, d \in {"egress", "all"}, pods, toward, ns, ports)
<1>1. CASE d = "ingress"
  <2>1. PolicyTypes(d) = {"Ingress"}
    BY <1>1 DEF PolicyTypes
  <2> QED
    BY <1>1, <2>1 DEF DefineAccessNetworkPolicy, NetpolSpec, AccessRule, Allows, Opens, Closed
<1>2. CASE d = "egress"
  <2>1. PolicyTypes(d) = {"Egress"}
    BY <1>2 DEF PolicyTypes
  <2> QED
    BY <1>2, <2>1 DEF DefineAccessNetworkPolicy, NetpolSpec, AccessRule, Allows, Opens, Closed
<1>3. CASE d = "all"
  <2>1. PolicyTypes(d) = {"Ingress", "Egress"}
    BY <1>3 DEF PolicyTypes
  <2> QED
    BY <1>3, <2>1 DEF DefineAccessNetworkPolicy, NetpolSpec, AccessRule, Allows, Opens, Closed
<1> QED
  BY <1>1, <1>2, <1>3 DEF Directions

\* The mirrored direction lets in what the direction lets out, and the reverse.
LEMMA MirrorSwaps ==
  ASSUME NEW d \in Directions
  PROVE  /\ (MirroredDirection(d) \in {"ingress", "all"}) = (d \in {"egress", "all"})
         /\ (MirroredDirection(d) \in {"egress", "all"}) = (d \in {"ingress", "all"})
BY DEF MirroredDirection, Directions

\* The policy of a source and a target that Reconcile holds is requested.
LEMMA SourceRequested ==
  ASSUME TypeInv, HeldSeen, HeldAsked, pc = "targets", NEW p \in Peers,
         AskedFor(p.svc), \E w \in svcHist[p.svc] : p.pods = w.pods
  PROVE  Requested(svcHist, specHist, SourceKey(req, source.svc, source.direction, p.svc),
                     SourceNetpol(obj, req, source, p))
<1> DEFINE d == source.direction
           k == SourceKey(req, source.svc, d, p.svc)
<1>1. PICK n : n = SourceNetpol(obj, req, source, p)
  OBVIOUS
<1>2. /\ n.owner = req /\ n.svc = source.svc /\ n.mirror = FALSE
      /\ n.spec = DefineAccessNetworkPolicy(source.pods, p.pods, NsOf[p.svc], source.ports, d)
  BY <1>1 DEF SourceNetpol
<1>3. p.svc \in Services /\ d \in Directions /\ obj.spec \in specHist[n.owner]
  BY <1>2 DEF Peers, TypeInv, Holding, Sources, HeldSeen, Idle
<1>4. PICK v \in svcHist[n.svc] : source.pods = v.pods /\ source.ports = v.ports
  BY <1>2 DEF HeldAsked
<1>5. PICK w \in svcHist[p.svc] : p.pods = w.pods
  OBVIOUS
<1>6. Allows(n.spec, d \in {"ingress", "all"}, d \in {"egress", "all"},
             v.pods, w.pods, NsOf[p.svc], v.ports)
  BY <1>2, <1>3, <1>4, <1>5, DefineOpens
<1>7. IsRuleFor(k, n, d, n.svc, v, p.svc, w)
  BY <1>2, <1>6 DEF IsRuleFor
<1>8. \E u \in svcHist[n.svc] : Asks(u, obj.spec, d, p.svc)
  BY <1>2 DEF AskedFor
<1> HIDE DEF d, k
<1>9. Requested(svcHist, specHist, k, n)
  BY <1>2, <1>3, <1>4, <1>5, <1>7, <1>8 DEF Requested
<1> QED
  BY <1>1, <1>9 DEF k, d

\* So is the mirrored one.
LEMMA MirrorRequested ==
  ASSUME TypeInv, HeldSeen, HeldAsked, pc = "mirror"
  PROVE  Requested(svcHist, specHist, MirrorKey(req, source.svc, source.direction, peer.svc),
                     MirrorNetpol(obj, req, source, peer))
<1> DEFINE d == source.direction
           k == MirrorKey(req, source.svc, d, peer.svc)
<1>1. PICK n : n = MirrorNetpol(obj, req, source, peer)
  OBVIOUS
<1>2. /\ n.owner = req /\ n.svc = source.svc /\ n.mirror = TRUE
      /\ n.spec = DefineAccessNetworkPolicy(peer.pods, source.pods, NsOf[source.svc],
                                            source.ports, MirroredDirection(d))
  BY <1>1 DEF MirrorNetpol
<1>3. /\ peer.svc \in Services /\ d \in Directions /\ MirroredDirection(d) \in Directions
      /\ obj.spec \in specHist[n.owner] /\ obj.spec.mirrored
  BY <1>2, MirroredType DEF Peers, TypeInv, Holding, Sources, HeldSeen, HeldAsked, Idle
<1>4. PICK v \in svcHist[n.svc] : source.pods = v.pods /\ source.ports = v.ports
  BY <1>2 DEF HeldAsked
<1>5. PICK w \in svcHist[peer.svc] : peer.pods = w.pods
  BY DEF HeldAsked
<1>6. Allows(n.spec, d \in {"egress", "all"}, d \in {"ingress", "all"},
             w.pods, v.pods, NsOf[n.svc], v.ports)
  BY <1>2, <1>3, <1>4, <1>5, DefineOpens, MirrorSwaps
<1>7. IsRuleFor(k, n, d, n.svc, v, peer.svc, w)
  BY <1>2, <1>6 DEF IsRuleFor
<1>8. \E u \in svcHist[n.svc] : Asks(u, obj.spec, d, peer.svc)
  BY <1>2 DEF AskedFor, HeldAsked
<1> HIDE DEF d, k
<1>9. Requested(svcHist, specHist, k, n)
  BY <1>2, <1>3, <1>4, <1>5, <1>7, <1>8 DEF Requested
<1> QED
  BY <1>1, <1>9 DEF k, d

\* Every step keeps the policies requested.
LEMMA PoliciesNext ==
  ASSUME TypeInv, TypeInv', Provenance, Grows, [Next]_vars
  PROVE  PoliciesRequested'
<1> USE DEF Provenance
<1>1. CASE UserStep \/ PlatformStep \/ Restart
  <2>1. PoliciesStayOrGo
    BY <1>1, ClusterStepMoves DEF ClusterStep, Restart, TypeInv, TypeOK
  <2> QED
    BY <2>1, PoliciesKept DEF PoliciesStayOrGo
<1>2. CASE CleanupOne
  <2>1. PICK o \in owned : UNCHANGED npVars \/ WriteNetpol(o.key, Absent)
    BY <1>2 DEF CleanupOne
  <2>2. o.key \in NetpolKeys
    BY <2>1 DEF TypeInv, TypeOK, JobTypeOK
  <2> QED
    BY <2>1, <2>2, PoliciesSame, PoliciesWritten
<1>3. CASE DeploySource
  <2> DEFINE toward(t) == [svc |-> t, pods |-> svcCache[t].pods]
  <2>1. PICK t \in targets :
          /\ HasDetails(svcCache[t])
          /\ DeployResource(SourceKey(req, source.svc, source.direction, t),
                            SourceNetpol(obj, req, source, toward(t)))
    BY <1>3 DEF DeploySource
  <2>2. pc = "targets" /\ source \in Sources /\ req \in Accesses /\ obj \in AccessObjects
    BY <1>3 DEF DeploySource, TypeInv, Holding, Idle
  <2>3. t \in Services /\ svcCache[t] \in svcHist[t] /\ svcCache[t] \in ServiceVersions
        /\ svcCache[t].pods # NoPods
    BY <2>1 DEF HasDetails, Seen, TypeInv, TypeOK, ClusterTypeOK, ServicesTypeOK, JobTypeOK, Maybe
  <2>4. toward(t) \in Peers
    BY <2>3 DEF Peers, ServiceVersions
  <2>5. PICK p \in Peers : p = toward(t)
    BY <2>4
  <2>6. p.svc = t /\ p.pods = svcCache[t].pods
    BY <2>5
  <2>7. AskedFor(p.svc)
    BY <2>2, <2>6 DEF HeldAsked
  <2>8. \E w \in svcHist[p.svc] : p.pods = w.pods
    BY <2>3, <2>6
  <2>9. Requested(svcHist, specHist, SourceKey(req, source.svc, source.direction, p.svc),
                    SourceNetpol(obj, req, source, p))
    BY <2>2, <2>7, <2>8, SourceRequested
  <2>10. SourceKey(req, source.svc, source.direction, p.svc) \in NetpolKeys
    BY <2>2, <2>3, <2>6, KeyType DEF Sources
  <2>11. SourceNetpol(obj, req, source, p) \in NetpolObjects
    BY <2>2, NetpolType
  <2>12. DeployResource(SourceKey(req, source.svc, source.direction, p.svc),
                        SourceNetpol(obj, req, source, p))
    BY <2>1, <2>5, <2>6
  <2> QED
    BY <2>9, <2>10, <2>11, <2>12, PoliciesDeployed
<1>4. CASE DeployMirror
  <2>1. /\ pc = "mirror" /\ source \in Sources /\ peer \in Peers
        /\ req \in Accesses /\ obj \in AccessObjects
    BY <1>4 DEF DeployMirror, TypeInv, Holding, Idle
  <2>2. MirrorKey(req, source.svc, source.direction, peer.svc) \in NetpolKeys
    BY <2>1, KeyType DEF Sources, Peers
  <2>3. MirrorNetpol(obj, req, source, peer) \in NetpolObjects
    BY <2>1, NetpolType
  <2>4. DeployResource(MirrorKey(req, source.svc, source.direction, peer.svc),
                       MirrorNetpol(obj, req, source, peer))
    BY <1>4 DEF DeployMirror
  <2> QED
    BY <2>1, <2>2, <2>3, <2>4, MirrorRequested, PoliciesDeployed
<1>5. CASE UndeploySource \/ UndeployMirror
  <2>1. /\ source \in Sources /\ peer \in Peers /\ req \in Accesses
    BY <1>5 DEF UndeploySource, UndeployMirror, TypeInv, Holding, Idle
  <2>2. PICK k \in NetpolKeys : DeleteResource(k)
    BY <1>5, <2>1, KeyType DEF UndeploySource, UndeployMirror, Sources, Peers
  <2>3. UNCHANGED npVars \/ WriteNetpol(k, Absent)
    BY <2>2 DEF DeleteResource
  <2> QED
    BY <2>3, PoliciesSame, PoliciesWritten
<1>6. CASE \/ \E a \in Accesses : Reconcile(a)
           \/ DeleteExpired \/ ListOwned \/ ListServices \/ ListFails
           \/ SkipService \/ BeginService \/ SkipTarget \/ FinishReconcile
  <2>1. UNCHANGED npVars
    BY <1>6 DEF Reconcile, ReconcileGone, ReconcileStart, DeleteExpired, ListOwned,
                ListServices, ListFails, SkipService, BeginService, SkipTarget,
                FinishReconcile, clusterVars
  <2> QED
    BY <2>1, PoliciesSame
<1>7. CASE UNCHANGED vars
  <2>1. UNCHANGED npVars
    BY <1>7 DEF vars, clusterVars
  <2> QED
    BY <2>1, PoliciesSame
<1> QED
  BY <1>1, <1>2, <1>3, <1>4, <1>5, <1>6, <1>7 DEF Next, WorkerStep

\* The first states hold no policy, and stores and caches agree.
LEMMA InitProvenance == Init => Provenance
BY InitHistory DEF Init, ClusterInit, AtRest, Provenance, HeldSeen, HeldAsked, PoliciesRequested, Idle

\* Whatever users write, however the caches lag, writes fail and the process
\* restarts, no NetworkPolicy is ever stored that was not asked for: each comes from
\* a version of its source service and a spec of its ClusterAccess that were stored
\* at some time, and opens what they ask for, towards pods the target had.
THEOREM NothingUnrequestedAlways == Spec => []NothingUnrequested
<1>1. TypeInv /\ Provenance /\ [Next]_vars => TypeInv' /\ Provenance'
  <2> SUFFICES ASSUME TypeInv, Provenance, [Next]_vars
               PROVE  TypeInv' /\ Provenance'
    OBVIOUS
  <2>1. TypeInv'
    BY NextType
  <2>2. Seen' /\ Grows
    BY NextMoves, MovesSeen, MovesGrow DEF Provenance
  <2>3. HeldSeen' /\ HeldAsked'
    BY <2>2, HeldNext DEF Provenance
  <2>4. PoliciesRequested'
    BY <2>1, <2>2, PoliciesNext
  <2> QED
    BY <2>1, <2>2, <2>3, <2>4 DEF Provenance
<1>2. Provenance => NothingUnrequested
  BY DEF Provenance, PoliciesRequested, NothingUnrequested
<1>3. Spec => [](TypeInv /\ Provenance)
  BY <1>1, InitType, InitProvenance, PTL DEF Spec
<1> QED
  BY <1>2, <1>3, PTL

-----------------------------------------------------------------------------
(* Deadlines *)

\* While nobody has written the ClusterAccess since it was read, the deadline of the
\* copy is the one that the stored object gets.
ReadDated ==
  pc # Idle /\ req \notin touched =>
    accesses[req] # Absent /\ obj.expiresAt = Deadline(accesses[req])

DatedInv == Seen /\ Written /\ CachesCurrent /\ ReadDated

\* No step of the worker but the first and the last touches ClusterAccesses or the
\* deadline of the copy.
LEMMA ExpiryKept ==
  ASSUME TypeInv, WorkerStep
  PROVE  \/ DeleteExpired
         \/ FinishReconcile
         \/ pc' = Idle /\ UNCHANGED accVars
         \/ pc # Idle /\ UNCHANGED <<req, accVars>> /\ obj'.expiresAt = obj.expiresAt
<1>1. CASE ListFails
  BY <1>1 DEF ListFails, ToRest
<1>2. CASE ListOwned \/ ListServices \/ SkipService \/ BeginService \/ SkipTarget
  BY <1>2 DEF ListOwned, ListServices, SkipService, BeginService, SkipTarget, clusterVars, Idle
<1>3. CASE CleanupOne
  <2>1. obj \in AccessObjects
    BY <1>3 DEF CleanupOne, TypeInv, Holding, Idle
  <2>2. \/ UNCHANGED obj
        \/ SetCondition(obj, "NetpolsGCReady", "True")
        \/ obj' = WithCond(WithCond(obj, "NetpolsGCNotReady", "False"), "NetpolsGCReady", "True")
    BY <1>3 DEF CleanupOne
  <2>3. obj'.expiresAt = obj.expiresAt
    BY <2>1, <2>2, SetConditionKeeps DEF WithCond, AccessObjects
  <2> QED
    BY <1>3, <2>3 DEF CleanupOne, Idle
<1>4. CASE DeploySource \/ UndeploySource \/ DeployMirror \/ UndeployMirror
  <2>1. obj \in AccessObjects /\ pc # Idle /\ UNCHANGED <<req, accVars>>
    BY <1>4 DEF DeploySource, UndeploySource, DeployMirror, UndeployMirror, TypeInv, Holding, Idle
  <2>2. \E k, n : DeployResource(k, n) \/ DeleteResource(k)
    BY <1>4 DEF DeploySource, UndeploySource, DeployMirror, UndeployMirror
  <2> QED
    BY <2>1, <2>2, DeployKeeps
<1> QED
  BY <1>1, <1>2, <1>3, <1>4 DEF WorkerStep

\* Every step keeps the copy so.
LEMMA ReadDatedNext ==
  ASSUME TypeInv, CachesCurrent, ReadDated, [Next]_vars
  PROVE  ReadDated'
<1>0. AccessesMove
  BY NextMoves DEF ClusterMoves
<1>1. CASE UNCHANGED ctlVars /\ touched \subseteq touched'
  <2> SUFFICES ASSUME pc # Idle, req \notin touched'
               PROVE  /\ accesses'[req] # Absent
                      /\ obj.expiresAt = Deadline(accesses'[req])
    BY <1>1 DEF ReadDated, Deadline, ctlVars, jobVars
  <2>1. req \notin touched /\ accesses'[req] = accesses[req]
    BY <1>0, <1>1, UntouchedStays DEF TypeInv, Holding
  <2> QED
    BY <2>1 DEF ReadDated
<1>2. ASSUME NEW a \in Accesses, ReconcileStart(a)
      PROVE  ReadDated'
  <2> SUFFICES ASSUME a \notin touched'
               PROVE  accesses[a] # Absent /\ obj'.expiresAt = Deadline(accesses[a])
    BY <1>2 DEF ReconcileStart, ReadDated, Deadline
  <2>1. a \notin accEvents /\ accCache[a] # Absent /\ obj' = Dated(accCache[a])
    BY <1>2 DEF ReconcileStart
  <2>2. accCache[a] = accesses[a] /\ accCache[a] \in AccessObjects
    BY <2>1, MaybeIn DEF CachesCurrent, TypeInv, TypeOK, ClusterTypeOK, AccessesTypeOK
  <2> QED
    BY <2>1, <2>2 DEF Dated, SetsDeadline, WithCond, AccessObjects
<1>3. CASE pc' = Idle
  BY <1>3 DEF ReadDated
<1>4. CASE pc # Idle /\ UNCHANGED <<req, accVars>> /\ obj'.expiresAt = obj.expiresAt
  BY <1>4 DEF ReadDated, Deadline, accVars
<1>5. CASE WorkerStep
  BY <1>3, <1>4, <1>5, ExpiryKept DEF DeleteExpired, FinishReconcile, ToRest
<1>6. CASE Restart
  BY <1>3, <1>6 DEF Restart, ToRest
<1>7. CASE UNCHANGED vars
  BY <1>1, <1>7 DEF vars, clusterVars, accVars
<1> QED
  BY <1>1, <1>2, <1>5, <1>6, <1>7, ClusterTouches DEF Next, Reconcile, ReconcileGone, accVars

\* The status of the last step gives an object the deadline of the copy.
LEMMA FinishDates ==
  ASSUME DurationsFit, TypeInv, DatedInv, FinishReconcile, NEW a \in Accesses,
         accesses[a] # Absent, accesses'[a] # Absent,
         accesses'[a].expiresAt # accesses[a].expiresAt
  PROVE  /\ accesses[a].expiresAt = NoTime
         /\ \E sp \in specHist[a] :
              sp.duration # NoDuration /\ accesses'[a].expiresAt = accesses'[a].created + sp.duration
<1>1. req \in Accesses /\ obj \in AccessObjects /\ pc # Idle
  BY DEF FinishReconcile, TypeInv, Holding, Idle
<1> DEFINE ready == WithCond(Refreshed(obj), "Ready", "True")
<1>2. ready.expiresAt = obj.expiresAt
  <2>1. Refreshed(obj) \in AccessObjects /\ Refreshed(obj).expiresAt = obj.expiresAt
    <3>1. Existing(obj) \in AccessObjects /\ Existing(obj).expiresAt = obj.expiresAt
      BY <1>1 DEF Existing, AccessObjects
    <3>2. PICK o : o = [Existing(obj) EXCEPT !.netpols = @ \cup deployed, !.services = @ \cup matched]
      OBVIOUS
    <3>3. o \in AccessObjects /\ o.expiresAt = obj.expiresAt
      BY <3>1, <3>2 DEF AccessObjects, TypeInv, TypeOK, JobTypeOK
    <3>4. WithCond(o, "NetpolsListReady", "True") \in AccessObjects
      BY <3>3, WithCondType, ConstantsType
    <3>5. WithCond(WithCond(o, "NetpolsListReady", "True"), "ServicesListReady", "True") \in AccessObjects
      BY <3>4, WithCondType, ConstantsType
    <3>6. ASSUME NEW q \in AccessObjects, NEW t, NEW st
          PROVE  WithCond(q, t, st).expiresAt = q.expiresAt
      BY DEF WithCond, AccessObjects
    <3>7. Refreshed(obj) = WithCond(WithCond(o, "NetpolsListReady", "True"),
                                    "ServicesListReady", "True")
      BY <3>2 DEF Refreshed
    <3>8. WithCond(o, "NetpolsListReady", "True").expiresAt = obj.expiresAt
      BY <3>3, <3>6
    <3>9. Refreshed(obj).expiresAt = obj.expiresAt
      BY <3>4, <3>6, <3>7, <3>8
    <3> QED
      BY <3>5, <3>7, <3>9
  <2> QED
    BY <2>1 DEF WithCond, AccessObjects
<1> HIDE DEF ready
<1>3. \/ UNCHANGED accVars
      \/ req \notin touched /\ WriteAccess(req, WithStatus(req, ready))
  BY DEF FinishReconcile, UpdateStatus, ready
<1>4. req \notin touched /\ a = req /\ accesses'[a] = WithStatus(a, ready)
  BY <1>1, <1>3 DEF accVars, WriteAccess, TypeInv, TypeOK, ClusterTypeOK, AccessesTypeOK
<1>5. accesses[a] \in AccessObjects
  BY MaybeIn DEF TypeInv, TypeOK, ClusterTypeOK, AccessesTypeOK
<1>6. accesses'[a].created = accesses[a].created /\ accesses'[a].expiresAt = Deadline(accesses[a])
  BY <1>1, <1>2, <1>4, <1>5 DEF WithStatus, AccessObjects, DatedInv, ReadDated
<1>7. accesses[a].expiresAt = NoTime
  BY <1>6 DEF Deadline
<1>8. Due(specHist[a], accesses[a]) /\ accesses[a].spec \in specHist[a] /\ specHist[a] \subseteq Specs[a]
  BY <1>7 DEF Due, DatedInv, Seen, Written
<1> QED
  BY <1>5, <1>6, <1>7, <1>8, DeadlineDue

\* Every step moves deadlines as DeadlineFixed says.
LEMMA DeadlineStep ==
  ASSUME DurationsFit, TypeInv, DatedInv, [Next]_vars, NEW a \in Accesses,
         accesses[a] # Absent, accesses'[a] # Absent,
         accesses'[a].expiresAt # accesses[a].expiresAt
  PROVE  /\ accesses[a].expiresAt = NoTime
         /\ \E sp \in specHist[a] :
              sp.duration # NoDuration /\ accesses'[a].expiresAt = accesses'[a].created + sp.duration
<1>1. CASE UserStep \/ PlatformStep \/ Restart
  BY <1>1, ClusterDates DEF ClusterStep, Restart, DatesKept, TypeInv, TypeOK
<1>2. CASE WorkerStep
  <2>1. UNCHANGED accesses \/ DeleteExpired \/ FinishReconcile
    BY <1>2, ExpiryKept DEF accVars
  <2>2. CASE DeleteExpired
    BY <2>2 DEF DeleteExpired, WriteAccess, accVars, TypeInv, TypeOK, ClusterTypeOK, AccessesTypeOK
  <2> QED
    BY <2>1, <2>2, FinishDates
<1>3. CASE UNCHANGED accesses
  BY <1>3
<1> QED
  BY <1>1, <1>2, <1>3
     DEF Next, Reconcile, ReconcileGone, ReconcileStart, accVars, vars, clusterVars

\* Where durations are as long as written, a deadline in the status never moves: it
\* is set once, to the creation time and a duration that the ClusterAccess had, however
\* old the copies are that are reconciled, and whatever users make of the duration.
THEOREM DeadlineFixedAlways == DurationsFit => (Spec => DeadlineFixed)
<1> SUFFICES ASSUME DurationsFit
             PROVE  Spec => DeadlineFixed
  OBVIOUS
<1> DEFINE Inv == TypeInv /\ DatedInv
           Fixed == \A a \in Accesses :
                      LET old == accesses[a]
                          new == accesses'[a]
                      IN (old # Absent /\ new # Absent /\ old.uid = new.uid
                            /\ old.expiresAt # new.expiresAt)
                         => /\ old.expiresAt = NoTime
                            /\ \E sp \in specHist[a] : sp.duration # NoDuration
                                                  /\ new.expiresAt = new.created + sp.duration
<1>1. Init => Inv
  BY InitType, InitHistory DEF Init, AtRest, DatedInv, ReadDated
<1>2. Inv /\ [Next]_vars => Inv'
  BY NextType, NextMoves, MovesSeen, MovesWritten, MovesCurrent, ReadDatedNext DEF DatedInv
<1>3. Inv /\ [Next]_vars => Fixed
  BY DeadlineStep
<1>4. Spec => [][Inv /\ Next]_vars
  <2> HIDE DEF Inv
  <2> QED
    BY <1>1, <1>2, PTL DEF Spec
<1>5. [Inv /\ Next]_vars => [Fixed]_vars
  <2> HIDE DEF Inv, Fixed
  <2> QED
    BY <1>3
<1> HIDE DEF Inv
<1> QED
  BY <1>4, <1>5, PTL DEF DeadlineFixed

-----------------------------------------------------------------------------
(* The controller implements the ledger, where names tell policies apart.     *)
(*                                                                            *)
(* A policy that the worker takes away must have lost its ground on the       *)
(* server, while the worker decides on what it read earlier: on a service     *)
(* missing from the cache, or on a ClusterAccess that was being deleted when  *)
(* the reconcile started.  So the invariant says how old what it read can be. *)

\* k is named for a policy of a and source s.
NamedFor(k, a, s) ==
  \E p \in NameParts : k.name = NameOf[p] /\ Labelled(p) = [owner |-> a, svc |-> s]

\* Each listed policy was read with the service its name is for.
OwnedNamed == \A o \in owned : \E a \in Accesses : NamedFor(o.key, a, o.svc)

\* deployResource deletes again only for a ClusterAccess read as being deleted.
UndeployDeleting == pc \in {"undeploySource", "undeployMirror"} => obj.deleting

\* The copy Reconcile holds precedes what is cached and stored.
CopyInOrder == pc # Idle => CopyOf(req, obj)

\* No policy names its owner by a later incarnation.
HeldOwners ==
  pc # Idle => \A k \in NetpolKeys :
                 netpols[k] # Absent /\ netpols[k].owner = req => netpols[k].uid <= obj.uid

Succession == AccessesInOrder /\ CopyInOrder /\ OwnersInOrder /\ HeldOwners

LedgerInv == CachesCurrent /\ OwnedNamed /\ UndeployDeleting /\ Succession

-----------------------------------------------------------------------------
(* What a step does to the copy held, and to policies *)

SameIncarnation(o, p) ==
  o.uid = p.uid /\ o.created = p.created /\ o.deleting = p.deleting

\* The worker rests, goes on with its copy, or takes one from the cache.
CopyMoves ==
  \/ pc' = Idle
  \/ pc # Idle /\ req' = req /\ SameIncarnation(obj', obj)
  \/ accCache[req'] # Absent /\ SameIncarnation(obj', accCache[req'])

\* A policy is stored with the request and the uid the worker holds.
OwnersMove ==
  \A k \in NetpolKeys :
    \/ netpols'[k] \in {netpols[k], Absent}
    \/ pc # Idle /\ netpols'[k].owner = req /\ netpols'[k].uid = obj.uid

\* What the worker holds has a name and a uid, before and after a step.
LEMMA HeldType ==
  /\ TypeInv => ClusterTypeOK /\ (pc # Idle => req \in Accesses /\ obj.uid \in Nat)
  /\ TypeInv' => ClusterTypeOK' /\ (pc' # Idle => req' \in Accesses /\ obj'.uid \in Nat)
BY DEF TypeInv, TypeOK, AccessObjects, Holding

\* Steps that move the copy so keep it in order.
LEMMA CopyMove ==
  ASSUME TypeInv, TypeInv', AccessesInOrder, CopyInOrder, ClusterMoves, CopyMoves
  PROVE  CopyInOrder'
<1> SUFFICES ASSUME pc' # Idle
             PROVE  /\ obj'.uid <= edits'
                    /\ Precedes(obj', accesses'[req']) /\ NoLater(obj'.uid, accCache'[req'])
  BY DEF CopyInOrder, CopyOf
<1>1. ClusterTypeOK /\ ClusterTypeOK' /\ req' \in Accesses /\ obj'.uid \in Nat
  BY HeldType
<1>2. PICK o : o = obj'
  OBVIOUS
<1>3. CopyOf(req', o)
  <2>1. CASE pc # Idle /\ req' = req /\ SameIncarnation(obj', obj)
    BY <1>2, <2>1 DEF CopyInOrder, CopyOf, Precedes, SameIncarnation
  <2>2. CASE accCache[req'] # Absent /\ SameIncarnation(obj', accCache[req'])
    <3>1. CopyOf(req', accCache[req'])
      BY <1>1, <2>2, CachedCopy
    <3> QED
      BY <1>2, <2>2, <3>1 DEF CopyOf, Precedes, SameIncarnation
  <2> QED
    BY <2>1, <2>2 DEF CopyMoves
<1>4. /\ o.uid <= edits'
      /\ Precedes(o, accesses'[req']) /\ NoLater(o.uid, accCache'[req'])
  BY <1>1, <1>2, <1>3, CopyStays
<1> QED
  BY <1>2, <1>4

\* And the policies' owners.
LEMMA OwnerMoves ==
  ASSUME TypeInv, TypeInv', Succession, ClusterMoves, CopyMoves, OwnersMove
  PROVE  OwnersInOrder' /\ HeldOwners'
<1>1. ClusterTypeOK /\ ClusterTypeOK'
  BY HeldType
<1>2. \A k \in NetpolKeys :
        \/ netpols'[k] \in {netpols[k], Absent}
        \/ \E o : CopyOf(netpols'[k].owner, o) /\ o.uid = netpols'[k].uid
  BY DEF OwnersMove, Succession, CopyInOrder
<1>3. OwnersInOrder'
  BY <1>1, <1>2, OwnersStay DEF Succession
<1>4. HeldOwners'
  <2> SUFFICES ASSUME NEW k \in NetpolKeys, pc' # Idle, netpols'[k] # Absent,
                      netpols'[k].owner = req'
               PROVE  netpols'[k].uid <= obj'.uid
    BY DEF HeldOwners
  <2>1. netpols'[k].uid \in Nat /\ netpols'[k].owner \in Accesses
    BY <1>1, UidType DEF Uids
  <2> QED
    BY <2>1 DEF OwnersMove, CopyMoves, Succession, OwnersInOrder, HeldOwners, CopyInOrder,
                CopyOf, NoLater, SameIncarnation
<1> QED
  BY <1>3, <1>4

-----------------------------------------------------------------------------
(* Every step is such a step *)

\* Every step moves the copy Reconcile holds so.
LEMMA CopyNext ==
  ASSUME TypeInv, [Next]_vars
  PROVE  CopyMoves
<1>1. CASE UNCHANGED ctlVars
  BY <1>1 DEF ctlVars, jobVars, CopyMoves, SameIncarnation
<1>2. ASSUME NEW a \in Accesses, ReconcileStart(a)
      PROVE  CopyMoves
  <2>1. accCache[a] \in AccessObjects /\ accCache[a] # Absent
    BY <1>2, MaybeIn DEF ReconcileStart, TypeInv, TypeOK, ClusterTypeOK, AccessesTypeOK
  <2>2. SameIncarnation(Dated(accCache[a]), accCache[a])
    BY <2>1 DEF Dated, WithCond, AccessObjects, SameIncarnation
  <2> QED
    BY <1>2, <2>1, <2>2 DEF ReconcileStart, CopyMoves
<1>3. CASE DeleteExpired \/ ListFails \/ FinishReconcile \/ Restart
  BY <1>3 DEF DeleteExpired, ListFails, FinishReconcile, Restart, ToRest, CopyMoves
<1>4. CASE ListOwned \/ ListServices \/ SkipService \/ BeginService \/ SkipTarget
  BY <1>4 DEF ListOwned, ListServices, SkipService, BeginService, SkipTarget, CopyMoves, SameIncarnation, Idle
<1>5. CASE CleanupOne
  <2>1. obj \in AccessObjects /\ pc # Idle /\ UNCHANGED req
    BY <1>5 DEF CleanupOne, TypeInv, Holding, Idle
  <2>2. \/ UNCHANGED obj
        \/ SetCondition(obj, "NetpolsGCReady", "True")
        \/ obj' = WithCond(WithCond(obj, "NetpolsGCNotReady", "False"), "NetpolsGCReady", "True")
    BY <1>5 DEF CleanupOne
  <2>3. SameIncarnation(obj', obj)
    BY <2>1, <2>2, SetConditionKeeps DEF WithCond, AccessObjects, SameIncarnation
  <2> QED
    BY <2>1, <2>3 DEF CopyMoves
<1>6. CASE DeploySource \/ UndeploySource \/ DeployMirror \/ UndeployMirror
  <2>1. obj \in AccessObjects /\ pc # Idle /\ UNCHANGED req
    BY <1>6 DEF DeploySource, UndeploySource, DeployMirror, UndeployMirror, TypeInv, Holding, Idle
  <2>2. \E k, n : DeployResource(k, n) \/ DeleteResource(k)
    BY <1>6 DEF DeploySource, UndeploySource, DeployMirror, UndeployMirror
  <2> QED
    BY <2>1, <2>2, DeployKeeps DEF CopyMoves, SameIncarnation
<1> QED
  BY <1>1, <1>2, <1>3, <1>4, <1>5, <1>6
     DEF Next, WorkerStep, Reconcile, ReconcileGone, vars

-----------------------------------------------------------------------------
(* How policies change *)

\* The cleanup removes the policy under k.
Swept(k) ==
  /\ \E o \in owned : o.key = k /\ IsOrphan(o)
  /\ netpols[k] # Absent /\ WriteNetpol(k, Absent)

\* deployResource stores policy n under k.
Stored(k, n) ==
  /\ pc # Idle /\ n # Absent /\ n.owner = req /\ n.uid = obj.uid
  /\ WriteNetpol(k, n)

\* deployResource removes the policy under k again.
Undone(k) ==
  /\ pc \in {"undeploySource", "undeployMirror"}
  /\ \E s \in Services : NamedFor(k, req, s)
  /\ netpols[k] # Absent /\ WriteNetpol(k, Absent)

WorkerChanges(k) ==
  /\ Swept(k) \/ Undone(k) \/ \E n : Stored(k, n)
  /\ UNCHANGED Claims

\* The keys of a source and a target are named for the source.
LEMMA KeysNamed ==
  ASSUME NEW a \in Accesses, NEW s \in Services, NEW t \in Services, NEW d
  PROVE  /\ NamedFor(SourceKey(a, s, d, t), a, s)
         /\ NamedFor(MirrorKey(a, s, d, t), a, s)
<1>1. NamedFor(SourceKey(a, s, d, t), a, s)
  <2> DEFINE p == [access |-> a, self |-> s, peer |-> t,
                   suffix |-> DirectionSuffix(d), mirror |-> FALSE]
  <2>1. p \in NameParts
    BY SuffixType, ClusterAccessAssumption DEF NameParts
  <2>2. SourceKey(a, s, d, t).name = NameOf[p] /\ Labelled(p) = [owner |-> a, svc |-> s]
    BY DEF SourceKey, Labelled
  <2> QED
    BY <2>1, <2>2 DEF NamedFor
<1>2. NamedFor(MirrorKey(a, s, d, t), a, s)
  <2> DEFINE p == [access |-> a, self |-> t, peer |-> s,
                   suffix |-> DirectionSuffix(MirroredDirection(d)), mirror |-> TRUE]
  <2>1. p \in NameParts
    BY SuffixType, ClusterAccessAssumption DEF NameParts
  <2>2. MirrorKey(a, s, d, t).name = NameOf[p] /\ Labelled(p) = [owner |-> a, svc |-> s]
    BY DEF MirrorKey, Labelled
  <2> QED
    BY <2>1, <2>2 DEF NamedFor
<1> QED
  BY <1>1, <1>2

\* A requested policy is stored under a key named for it.
LEMMA RequestedNamed ==
  ASSUME NEW hist, NEW specs, NEW k, NEW n \in NetpolObjects, Requested(hist, specs, k, n)
  PROVE  n.owner \in Accesses /\ n.svc \in Services /\ NamedFor(k, n.owner, n.svc)
<1>1. n.owner \in Accesses /\ n.svc \in Services
  BY DEF NetpolObjects
<1>2. PICK t \in Services, d \in Directions : \E v, w : IsRuleFor(k, n, d, n.svc, v, t, w)
  BY DEF Requested
<1>3. k = MirrorKey(n.owner, n.svc, d, t) \/ k = SourceKey(n.owner, n.svc, d, t)
  BY <1>2 DEF IsRuleFor
<1> QED
  BY <1>1, <1>3, KeysNamed

\* What deployResource stores has the owner and the uid it was given.
LEMMA DeployStores ==
  ASSUME TypeInv, NEW k \in NetpolKeys, NEW n \in NetpolObjects, pc # Idle,
         n.owner = req, n.uid = obj.uid, DeployResource(k, n)
  PROVE  UNCHANGED npVars \/ \E m : Stored(k, m)
<1>1. npCache[k] # Absent => /\ Merged(n, npCache[k]) \in NetpolObjects
                             /\ Merged(n, npCache[k]).owner = n.owner
                             /\ Merged(n, npCache[k]).uid = n.uid
  BY DEF Merged, NetpolObjects
<1>2. \A m \in NetpolObjects : m # Absent
  BY MarkerAssumption
<1>3. \/ UNCHANGED npVars
      \/ WriteNetpol(k, n)
      \/ npCache[k] # Absent /\ WriteNetpol(k, Merged(n, npCache[k]))
  BY DEF DeployResource, CreateResource, ReconcileResource
<1> QED
  BY <1>1, <1>2, <1>3 DEF Stored

\* The worker's step changes no policy, or one in one of three ways.
LEMMA WorkerChange ==
  ASSUME TypeInv, WorkerStep
  PROVE  UNCHANGED npVars \/ \E k \in NetpolKeys : WorkerChanges(k)
<1>1. CASE \/ DeleteExpired \/ ListOwned \/ ListServices \/ ListFails \/ SkipService
           \/ BeginService \/ SkipTarget \/ FinishReconcile
  BY <1>1 DEF DeleteExpired, ListOwned, ListServices, ListFails, SkipService, BeginService,
              SkipTarget, FinishReconcile, clusterVars
<1>2. CASE CleanupOne \/ DeploySource \/ UndeploySource \/ DeployMirror \/ UndeployMirror
  <2>1. UNCHANGED Claims
    <3>1. UNCHANGED <<svcVars, accVars>>
      BY <1>2 DEF CleanupOne, DeploySource, UndeploySource, DeployMirror, UndeployMirror
    <3>2. UNCHANGED edits
      BY <1>2 DEF CleanupOne, DeploySource, UndeploySource, DeployMirror, UndeployMirror,
                  DeployResource, CreateResource, ReconcileResource, DeleteResource, Fault,
                  NoFault, bounds
    <3> QED
      BY <3>1, <3>2 DEF Claims, svcVars, accVars
  <2>2. CASE CleanupOne
    <3>1. UNCHANGED npVars \/ \E o \in owned : Swept(o.key)
      BY <2>2 DEF CleanupOne, Swept
    <3>2. \A o \in owned : o.key \in NetpolKeys
      BY DEF TypeInv, TypeOK, JobTypeOK
    <3> QED
      BY <2>1, <3>1, <3>2 DEF WorkerChanges
  <2>3. CASE DeploySource
    <3> DEFINE toward(t) == [svc |-> t, pods |-> svcCache[t].pods]
    <3>1. PICK t \in targets :
            /\ HasDetails(svcCache[t])
            /\ DeployResource(SourceKey(req, source.svc, source.direction, t),
                              SourceNetpol(obj, req, source, toward(t)))
      BY <2>3 DEF DeploySource
    <3>2. pc # Idle /\ source \in Sources /\ req \in Accesses /\ obj \in AccessObjects
      BY <2>3 DEF DeploySource, TypeInv, Holding, Idle
    <3>3. t \in Services /\ svcCache[t] \in ServiceVersions /\ svcCache[t].pods # NoPods
      BY <3>1 DEF HasDetails, TypeInv, TypeOK, ClusterTypeOK, ServicesTypeOK, JobTypeOK, Maybe
    <3>4. PICK p \in Peers : p = toward(t)
      BY <3>3 DEF Peers, ServiceVersions
    <3>5. SourceKey(req, source.svc, source.direction, t) \in NetpolKeys
      BY <3>2, <3>3, KeyType DEF Sources
    <3>6. PICK n \in NetpolObjects :
            n = SourceNetpol(obj, req, source, p) /\ n.owner = req /\ n.uid = obj.uid
      BY <3>2, NetpolType DEF SourceNetpol
    <3>7. DeployResource(SourceKey(req, source.svc, source.direction, t), n)
      BY <3>1, <3>4, <3>6
    <3> QED
      BY <2>1, <3>2, <3>5, <3>6, <3>7, DeployStores DEF WorkerChanges
  <2>4. CASE DeployMirror
    <3>1. /\ pc # Idle /\ source \in Sources /\ peer \in Peers
          /\ req \in Accesses /\ obj \in AccessObjects
      BY <2>4 DEF DeployMirror, TypeInv, Holding, Idle
    <3>2. PICK k \in NetpolKeys : k = MirrorKey(req, source.svc, source.direction, peer.svc)
      BY <3>1, KeyType DEF Sources, Peers
    <3>3. PICK n \in NetpolObjects :
            n = MirrorNetpol(obj, req, source, peer) /\ n.owner = req /\ n.uid = obj.uid
      BY <3>1, NetpolType DEF MirrorNetpol
    <3>4. DeployResource(k, n)
      BY <2>4, <3>2, <3>3 DEF DeployMirror
    <3> QED
      BY <2>1, <3>1, <3>3, <3>4, DeployStores DEF WorkerChanges
  <2>5. CASE UndeploySource \/ UndeployMirror
    <3>1. /\ pc \in {"undeploySource", "undeployMirror"}
          /\ source.svc \in Services /\ peer.svc \in Services /\ req \in Accesses
      BY <2>5 DEF UndeploySource, UndeployMirror, TypeInv, Holding, Idle, Sources, Peers
    <3>2. PICK k : /\ DeleteResource(k)
                   /\ \/ k = SourceKey(req, source.svc, source.direction, peer.svc)
                      \/ k = MirrorKey(req, source.svc, source.direction, peer.svc)
      BY <2>5 DEF UndeploySource, UndeployMirror
    <3>3. k \in NetpolKeys /\ NamedFor(k, req, source.svc)
      BY <3>1, <3>2, KeyType, KeysNamed
    <3>4. UNCHANGED npVars \/ (netpols[k] # Absent /\ WriteNetpol(k, Absent))
      BY <3>2 DEF DeleteResource
    <3> QED
      BY <2>1, <3>1, <3>3, <3>4 DEF Undone, WorkerChanges
  <2> QED
    BY <1>2, <2>2, <2>3, <2>4, <2>5
<1> QED
  BY <1>1, <1>2 DEF WorkerStep

\* A step changes no policy, or it is a user's, the garbage collector's, or one of
\* the worker's three.
LEMMA PoliciesChange ==
  ASSUME TypeInv, [Next]_vars
  PROVE  \/ UNCHANGED netpols
         \/ \E k \in NetpolKeys : DeleteNetpol(k) \/ CollectNetpol(k) \/ WorkerChanges(k)
<1>1. CASE UserStep \/ PlatformStep
  BY <1>1 DEF UserStep, PlatformStep, PutService, DeleteService, CreateAccess, EditAccess,
              DeleteAccess, DeliverService, CollectAccess, DeliverAccess, DeliverNetpol,
              TimerFires, Resync, Tick, npVars
<1>2. CASE (\E a \in Accesses : Reconcile(a)) \/ Restart \/ UNCHANGED vars
  BY <1>2 DEF Reconcile, ReconcileGone, ReconcileStart, Restart, ClusterRestart, stores,
              vars, clusterVars, npVars
<1>3. CASE WorkerStep
  BY <1>3, WorkerChange DEF npVars
<1> QED
  BY <1>1, <1>2, <1>3 DEF Next

\* So owners are stored in order.
LEMMA OwnersNext ==
  ASSUME TypeInv, [Next]_vars
  PROVE  OwnersMove
<1>1. ASSUME NEW k \in NetpolKeys, NEW n, WriteNetpol(k, n),
             n = Absent \/ (pc # Idle /\ n.owner = req /\ n.uid = obj.uid)
      PROVE  OwnersMove
  BY <1>1 DEF WriteNetpol, OwnersMove, TypeInv, TypeOK, ClusterTypeOK, NetpolsTypeOK
<1>2. ASSUME UNCHANGED netpols
      PROVE  OwnersMove
  BY <1>2 DEF OwnersMove
<1> QED
  BY <1>1, <1>2, PoliciesChange
     DEF DeleteNetpol, CollectNetpol, WorkerChanges, Swept, Stored, Undone

-----------------------------------------------------------------------------
(* The rest of the invariant, and the theorem *)

\* The list of owned policies is read from policies that were asked for, and then
\* only shrinks.
LEMMA OwnedNext ==
  ASSUME TypeInv, PoliciesRequested, OwnedNamed, [Next]_vars
  PROVE  OwnedNamed'
<1>1. ASSUME owned' \subseteq owned
      PROVE  OwnedNamed'
  BY <1>1 DEF OwnedNamed, NamedFor
<1>2. CASE ListOwned
  <2>1. owned' = {[key |-> k, svc |-> npCache[k].svc] :
                    k \in {i \in NetpolKeys : npCache[i] # Absent /\ npCache[i].owner = req}}
    BY <1>2 DEF ListOwned
  <2>2. ASSUME NEW k \in NetpolKeys, npCache[k] # Absent
        PROVE  npCache[k].owner \in Accesses /\ NamedFor(k, npCache[k].owner, npCache[k].svc)
    <3>1. npCache[k] \in NetpolObjects /\ Requested(svcHist, specHist, k, npCache[k])
      BY <2>2 DEF PoliciesRequested, TypeInv, TypeOK, ClusterTypeOK, NetpolsTypeOK, Maybe
    <3> QED
      BY <3>1, RequestedNamed
  <2> QED
    BY <2>1, <2>2 DEF OwnedNamed, NamedFor
<1>3. CASE \/ \E a \in Accesses : ReconcileStart(a)
           \/ CleanupOne \/ ListServices \/ SkipService \/ BeginService \/ SkipTarget
           \/ DeploySource \/ UndeploySource \/ DeployMirror \/ UndeployMirror
  BY <1>1, <1>3 DEF ReconcileStart, CleanupOne, ListServices, SkipService, BeginService, SkipTarget,
                    DeploySource, UndeploySource, DeployMirror, UndeployMirror
<1>4. CASE DeleteExpired \/ ListFails \/ FinishReconcile \/ Restart
  BY <1>1, <1>4 DEF DeleteExpired, ListFails, FinishReconcile, Restart, ToRest
<1>5. CASE UNCHANGED ctlVars
  BY <1>1, <1>5 DEF ctlVars, jobVars
<1> QED
  BY <1>2, <1>3, <1>4, <1>5 DEF Next, WorkerStep, Reconcile, ReconcileGone, vars

\* The worker comes to delete again from a deployment for a copy being deleted.
LEMMA UndeployNext ==
  ASSUME TypeInv, UndeployDeleting, [Next]_vars
  PROVE  UndeployDeleting'
<1>1. CASE UNCHANGED ctlVars
  BY <1>1 DEF ctlVars, jobVars, UndeployDeleting
<1>2. CASE DeploySource \/ DeployMirror
  <2>1. obj \in AccessObjects /\ \E k, n : DeployResource(k, n)
    BY <1>2 DEF DeploySource, DeployMirror, TypeInv, Holding, Idle
  <2>2. obj'.deleting = obj.deleting
    BY <2>1, DeployKeeps
  <2>3. obj.deleting \/ pc' \in {"targets", "services", "mirror"}
    BY <1>2 DEF DeploySource, DeployMirror, AfterSource, NextTarget
  <2> QED
    BY <2>2, <2>3 DEF UndeployDeleting
<1>3. CASE \/ UndeploySource \/ UndeployMirror \/ SkipTarget
           \/ ListOwned \/ CleanupOne \/ ListServices \/ ListFails
           \/ SkipService \/ BeginService
           \/ DeleteExpired \/ FinishReconcile \/ Restart
           \/ \E a \in Accesses : ReconcileStart(a)
  BY <1>3 DEF UndeploySource, UndeployMirror, SkipTarget, AfterSource, NextTarget,
              ListOwned, CleanupOne, ListServices, ListFails, SkipService, BeginService,
              DeleteExpired, FinishReconcile, Restart, ReconcileStart, ToRest, Idle,
              UndeployDeleting
<1> QED
  BY <1>1, <1>2, <1>3 DEF Next, WorkerStep, Reconcile, ReconcileGone, vars

\* The first states: caches as stored, nothing held, no policy.
LEMMA InitLedgerInv == Init => LedgerInv
BY InitHistory, InitInOrder
   DEF Init, AtRest, Idle, LedgerInv, Succession, CopyInOrder, HeldOwners, OwnedNamed,
       UndeployDeleting

\* What the worker takes away has lost its ground.
LEMMA TakenIsForfeited ==
  ASSUME TellsApart(NameOf), TypeInv, PoliciesRequested, LedgerInv,
         NEW k \in NetpolKeys, Swept(k) \/ Undone(k)
  PROVE  Forfeited(Claims, netpols[k])
<1> DEFINE n == netpols[k]
<1>1. n # Absent
  BY DEF Swept, Undone
<1>2. n \in NetpolObjects /\ Requested(svcHist, specHist, k, n)
  BY <1>1 DEF PoliciesRequested, TypeInv, TypeOK, ClusterTypeOK, NetpolsTypeOK, Maybe
<1>3. n.owner \in Accesses /\ n.svc \in Services /\ NamedFor(k, n.owner, n.svc)
  BY <1>2, RequestedNamed
<1>4. \A a, s : NamedFor(k, a, s) => n.owner = a /\ n.svc = s
  <2> SUFFICES ASSUME NEW a, NEW s, NamedFor(k, a, s)
               PROVE  n.owner = a /\ n.svc = s
    OBVIOUS
  <2>1. PICK p \in NameParts : k.name = NameOf[p] /\ Labelled(p) = [owner |-> a, svc |-> s]
    BY DEF NamedFor
  <2>2. PICK q \in NameParts :
          k.name = NameOf[q] /\ Labelled(q) = [owner |-> n.owner, svc |-> n.svc]
    BY <1>3 DEF NamedFor
  <2>3. Labelled(p) = Labelled(q)
    BY <2>1, <2>2 DEF TellsApart
  <2> QED
    BY <2>1, <2>2, <2>3
<1>5. CASE Swept(k)
  <2>1. PICK o \in owned : o.key = k /\ IsOrphan(o)
    BY <1>5 DEF Swept
  <2>2. n.svc = o.svc
    BY <1>4, <2>1 DEF LedgerInv, OwnedNamed
  <2>3. services[n.svc] = Absent \/ n.svc \in svcEvents
    BY <1>3, <2>1, <2>2 DEF LedgerInv, CachesCurrent, IsOrphan
  <2> QED
    BY <2>3 DEF Forfeited, Claims
<1>6. CASE Undone(k)
  <2>1. n.owner = req /\ pc # Idle /\ obj.deleting
    BY <1>4, <1>6 DEF Undone, LedgerInv, UndeployDeleting, Idle
  <2>2. CopyOf(req, obj) /\ n.uid <= obj.uid
    BY <1>1, <2>1 DEF LedgerInv, Succession, CopyInOrder, HeldOwners
  <2>3. ClusterTypeOK /\ req \in Accesses /\ obj.uid \in Nat /\ n.uid \in Nat
    BY <1>1, <2>1, HeldType, UidType DEF Uids
  <2>4. ~OwnedBy(n, accesses[req]) \/ accesses[req].deleting
    BY <2>1, <2>2, <2>3, OwnerGoing
  <2> QED
    BY <2>1, <2>4 DEF Forfeited, Claims
<1> QED
  BY <1>5, <1>6

\* Every step keeps the ledger.
LEMMA LedgerStep ==
  ASSUME TellsApart(NameOf), TypeInv, TypeInv', Provenance, PoliciesRequested', LedgerInv,
         [Next]_vars
  PROVE  Ledger!Next
<1>1. ASSUME UNCHANGED netpols
      PROVE  Ledger!Next
  <2>1. Kept(Claims, Claims')
    BY NextMoves, MovesGrow DEF Grows, Kept, Claims
  <2> QED
    BY <1>1, <2>1 DEF Ledger!Next, Ledger!Claim
<1>2. ASSUME NEW k \in NetpolKeys, DeleteNetpol(k)
      PROVE  Ledger!Next
  <2>1. Claims' = [Claims EXCEPT !.acts = @ + 1]
    BY <1>2 DEF DeleteNetpol, Edit, Claims, svcVars, accVars
  <2>2. Ledger!TakeAway(k)
    BY <1>2, <2>1 DEF DeleteNetpol, WriteNetpol, Ledger!TakeAway, Ledger!Becomes
  <2> QED
    BY <2>2 DEF Ledger!Next
<1>3. ASSUME NEW k \in NetpolKeys, WriteNetpol(k, Absent), UNCHANGED Claims,
             Forfeited(Claims, netpols[k])
      PROVE  Ledger!Next
  <2>1. Ledger!Lift(k)
    BY <1>3 DEF WriteNetpol, Ledger!Lift, Ledger!Becomes
  <2> QED
    BY <2>1 DEF Ledger!Next
<1>4. ASSUME NEW k \in NetpolKeys, CollectNetpol(k)
      PROVE  Ledger!Next
  <2>1. UNCHANGED Claims
    BY <1>4 DEF CollectNetpol, Claims, svcVars, accVars, bounds
  <2>2. Forfeited(Claims, netpols[k])
    BY <1>4 DEF CollectNetpol, Forfeited, Claims
  <2> QED
    BY <1>3, <1>4, <2>1, <2>2 DEF CollectNetpol
<1>5. ASSUME NEW k \in NetpolKeys, UNCHANGED Claims, Swept(k) \/ Undone(k)
      PROVE  Ledger!Next
  BY <1>3, <1>5, TakenIsForfeited DEF Provenance, Swept, Undone
<1>6. ASSUME NEW k \in NetpolKeys, NEW n, UNCHANGED Claims, Stored(k, n)
      PROVE  Ledger!Next
  <2>1. netpols'[k] = n /\ n # Absent /\ netpols' = [netpols EXCEPT ![k] = netpols'[k]]
    BY <1>6 DEF Stored, WriteNetpol, TypeInv, TypeOK, ClusterTypeOK, NetpolsTypeOK
  <2>2. UNCHANGED <<svcHist, specHist>>
    BY <1>6 DEF Claims
  <2>3. Ground(Claims, k, netpols'[k])
    BY <2>1, <2>2 DEF PoliciesRequested, Ground, Claims
  <2>4. Ledger!Enact(k)
    BY <1>6, <2>1, <2>3 DEF Ledger!Enact, Ledger!Becomes
  <2> QED
    BY <2>4 DEF Ledger!Next
<1> QED
  BY <1>1, <1>2, <1>4, <1>5, <1>6, PoliciesChange DEF WorkerChanges

\* Where no two ClusterAccesses and no two sources share the name of a policy, the
\* controller implements the ledger, whatever users do, caches miss, writes fail and
\* restarts lose: each step changes at most one policy, to one that was asked for, or
\* takes one away that has lost its ground on the server at that moment.
THEOREM LedgerKept == TellsApart(NameOf) => (Spec => KeepsLedger)
<1> SUFFICES ASSUME TellsApart(NameOf)
             PROVE  Spec => KeepsLedger
  OBVIOUS
<1> DEFINE Inv == TypeInv /\ Provenance /\ LedgerInv
<1>1. Init => Inv /\ Ledger!Init
  BY InitType, InitProvenance, InitLedgerInv DEF Init, ClusterInit, Ledger!Init
<1>2. Inv /\ [Next]_vars => Inv' /\ [Ledger!Next]_<<Claims, netpols>>
  <2> SUFFICES ASSUME Inv, [Next]_vars
               PROVE  Inv' /\ [Ledger!Next]_<<Claims, netpols>>
    OBVIOUS
  <2>1. TypeInv'
    BY NextType
  <2>2. ClusterMoves /\ CopyMoves /\ OwnersMove
    BY NextMoves, CopyNext, OwnersNext
  <2>3. Seen' /\ Grows /\ HeldSeen' /\ HeldAsked'
    BY <2>2, MovesSeen, MovesGrow, HeldNext DEF Provenance
  <2>4. PoliciesRequested'
    BY <2>1, <2>3, PoliciesNext
  <2>5. ClusterTypeOK /\ ClusterTypeOK'
    BY <2>1, HeldType
  <2>6. Succession'
    BY <2>1, <2>2, <2>5, MovesInOrder, CopyMove, OwnerMoves DEF LedgerInv, Succession
  <2>7. CachesCurrent' /\ OwnedNamed' /\ UndeployDeleting'
    BY <2>2, MovesCurrent, OwnedNext, UndeployNext DEF LedgerInv, Provenance
  <2>8. Ledger!Next
    BY <2>1, <2>4, LedgerStep
  <2> QED
    BY <2>1, <2>3, <2>4, <2>6, <2>7, <2>8 DEF Provenance, LedgerInv
<1> HIDE DEF Inv
<1> QED
  BY <1>1, <1>2, PTL DEF Spec, KeepsLedger, Ledger!Spec
=============================================================================
