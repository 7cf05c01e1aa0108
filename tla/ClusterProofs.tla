---------------------------- MODULE ClusterProofs ----------------------------
(***************************************************************************)
(* What the proofs about every controller rest on.                         *)
(*                                                                         *)
(* First the typing of the cluster: its first states have it, its own      *)
(* steps and a restart keep it, and so does a write of a well-formed       *)
(* object by a controller.  And for which numbers of days the duration of  *)
(* an access is what its spec says.                                        *)
(*                                                                         *)
(* Then how a step can move the cluster from one state to the next,        *)
(* whichever controller runs in it: what becomes of a stored object, of    *)
(* its copy in the cache, of its events and of the histories.  The         *)
(* invariants that relate stores, caches, events and histories follow      *)
(* from that relation alone, so a controller only has to show that its own *)
(* steps are such moves.                                                   *)
(***************************************************************************)
EXTENDS Cluster, TLAPS

\* Removing the marker from a Maybe.
LEMMA MaybeIn ==
  ASSUME NEW S, NEW x \in Maybe(S), x # Absent
  PROVE  x \in S
BY DEF Maybe

\* A name ends in one of the suffixes.
LEMMA SuffixType ==
  ASSUME NEW d
  PROVE  DirectionSuffix(d) \in DirectionSuffixes
BY DEF DirectionSuffix, DirectionSuffixes

\* A duration's deadline is an integer.
LEMMA DurationType ==
  ASSUME NEW n \in Int
  PROVE  ParseDuration(n) \in Int
<1>1. HalfRange \in Nat \ {0}
  BY RangeAssumption
<1>2. (n + HalfRange) % (2 * HalfRange) \in Int
  BY <1>1
<1> QED
  BY <1>1, <1>2 DEF ParseDuration, WrapAround

\* What a policy's ports become.
LEMMA PortsType ==
  ASSUME NEW ports \in SUBSET ServicePorts
  PROVE  ConvertServicePortsToPolicyPorts(ports)
           \subseteq ConvertServicePortsToPolicyPorts(ServicePorts)
BY DEF ConvertServicePortsToPolicyPorts

\* A rule in some direction makes the spec of a policy.
LEMMA NetpolSpecType ==
  ASSUME NEW pods \in Pods, NEW rule \in Rules, NEW d
  PROVE  NetpolSpec(pods, rule, d) \in NetpolSpecs
<1>1. PolicyTypes(d) \subseteq {"Ingress", "Egress"}
  BY DEF PolicyTypes
<1> QED
  BY <1>1 DEF NetpolSpec, NetpolSpecs

\* DefineAccessNetworkPolicy makes the spec of a policy.
LEMMA AccessNetpolType ==
  ASSUME NEW pods \in Pods, NEW toward \in Pods, NEW ns \in Namespaces,
         NEW ports \in SUBSET ServicePorts, NEW d
  PROVE  DefineAccessNetworkPolicy(pods, toward, ns, ports, d) \in NetpolSpecs
<1>1. AccessRule(toward, ns, ports) \in Rules
  BY PortsType DEF AccessRule, AccessRules, Rules
<1> QED
  BY <1>1, NetpolSpecType DEF DefineAccessNetworkPolicy

\* DefineExternalAccessNetworkPolicyCIDR makes the spec of a policy.
LEMMA CidrNetpolType ==
  ASSUME NEW pods \in Pods, NEW cidr \in Targets,
         NEW ports \in SUBSET ServicePorts, NEW d
  PROVE  DefineExternalAccessNetworkPolicyCIDR(pods, cidr, ports, d) \in NetpolSpecs
<1>1. CidrRule(cidr, ports) \in Rules
  BY PortsType DEF CidrRule, CidrRules, Rules
<1> QED
  BY <1>1, NetpolSpecType DEF DefineExternalAccessNetworkPolicyCIDR

-----------------------------------------------------------------------------
(* Writes and steps that leave a part of the state alone *)

\* A step that leaves a part of the state alone leaves it typed: services.
LEMMA ServicesSame ==
  ASSUME ServicesTypeOK, UNCHANGED svcVars
  PROVE  ServicesTypeOK'
BY DEF ServicesTypeOK, svcVars

\* ClusterAccesses.
LEMMA AccessesSame ==
  ASSUME AccessesTypeOK, UNCHANGED accVars
  PROVE  AccessesTypeOK'
BY DEF AccessesTypeOK, accVars

\* Policies.
LEMMA NetpolsSame ==
  ASSUME NetpolsTypeOK, UNCHANGED npVars
  PROVE  NetpolsTypeOK'
BY DEF NetpolsTypeOK, npVars

\* The queue, the timers and the clock.
LEMMA WakeSame ==
  ASSUME WakeTypeOK, UNCHANGED wakeVars
  PROVE  WakeTypeOK'
BY DEF WakeTypeOK, wakeVars

\* The spent bounds.
LEMMA BoundsSame ==
  ASSUME BoundsTypeOK, UNCHANGED bounds
  PROVE  BoundsTypeOK'
BY DEF BoundsTypeOK, bounds

\* All of the cluster.
LEMMA ClusterSame ==
  ASSUME ClusterTypeOK, UNCHANGED clusterVars
  PROVE  ClusterTypeOK'
BY ServicesSame, AccessesSame, NetpolsSame, WakeSame, BoundsSame
   DEF ClusterTypeOK, clusterVars

\* A write of a policy (or of Absent) leaves the policies typed.
LEMMA WriteNetpolType ==
  ASSUME NetpolsTypeOK, NEW k \in NetpolKeys, NEW n \in Maybe(NetpolObjects),
         WriteNetpol(k, n)
  PROVE  NetpolsTypeOK'
<1>1. netpols[k] \in Maybe(NetpolObjects)
  BY DEF NetpolsTypeOK
<1>2. \A x \in Maybe(NetpolObjects) : OwnerIn(x) \subseteq Accesses
  BY DEF OwnerIn, Maybe, NetpolObjects
<1> QED
  BY <1>1, <1>2 DEF NetpolsTypeOK, WriteNetpol

\* A write of a ClusterAccess.
LEMMA WriteAccessType ==
  ASSUME AccessesTypeOK, NEW a \in Accesses, NEW o \in Maybe(AccessObjects),
         WriteAccess(a, o), specHist' \in [Accesses -> SUBSET AccessSpecs]
  PROVE  AccessesTypeOK'
BY DEF AccessesTypeOK, WriteAccess

\* A write of a service.
LEMMA WriteServiceType ==
  ASSUME ServicesTypeOK, NEW s \in Services, NEW v \in Maybe(ServiceVersions),
         WriteService(s, v), svcHist' \in [Services -> SUBSET ServiceVersions]
  PROVE  ServicesTypeOK'
BY DEF ServicesTypeOK, WriteService

\* Members of the finite sets of the typing, so that leaves need not expand them.
LEMMA ConstantsType ==
  /\ \A t \in {"ExpireReady", "NetpolsGCReady", "NetpolsGCNotReady",
                "NetworkPolicyDeployReady", "NetpolsListReady",
                "ServicesListReady", "Ready"} : t \in CondTypes
  /\ "True" \in Statuses /\ "False" \in Statuses
  /\ \A S : Absent \in Maybe(S)
  /\ \A S, x : x \in S => x \in Maybe(S)
BY DEF CondTypes, Statuses, Maybe

\* A step that counts a fault, or none.
LEMMA FaultType ==
  ASSUME BoundsTypeOK, Fault \/ NoFault
  PROVE  BoundsTypeOK'
BY DEF BoundsTypeOK, Fault, NoFault, bounds

-----------------------------------------------------------------------------
(* The cluster's own steps, a restart, the first states *)

\* A user's step counts itself.
LEMMA EditType ==
  ASSUME BoundsTypeOK, NEW m, Edit(m)
  PROVE  BoundsTypeOK'
BY DEF BoundsTypeOK, Edit

\* A new ClusterAccess is one.
LEMMA NewAccessType ==
  ASSUME ClusterTypeOK, NEW sp \in AccessSpecs
  PROVE  NewAccess(sp) \in AccessObjects
<1>1. NoConds \in [CondTypes -> Statuses]
  BY DEF NoConds, Statuses
<1> QED
  BY <1>1 DEF NewAccess, AccessObjects, ClusterTypeOK, BoundsTypeOK, WakeTypeOK, Times

\* No user's step breaks the typing.
LEMMA UserStepType ==
  ASSUME ClusterTypeOK, UserStep
  PROVE  ClusterTypeOK'
<1> USE DEF ClusterTypeOK
<1>1. ASSUME NEW s \in Services, PutService(s)
      PROVE  ClusterTypeOK'
  <2>1. PICK v \in Versions[s] : /\ WriteService(s, v)
                                 /\ svcHist' = [svcHist EXCEPT ![s] = @ \cup {v}]
    BY <1>1 DEF PutService
  <2>2. v \in ServiceVersions
    BY ClusterAssumption
  <2>3. svcHist' \in [Services -> SUBSET ServiceVersions]
    BY <2>1, <2>2 DEF ServicesTypeOK
  <2>4. ServicesTypeOK'
    BY <2>1, <2>2, <2>3, WriteServiceType, ConstantsType
  <2>5. BoundsTypeOK'
    BY <1>1, EditType DEF PutService
  <2> QED
    BY <1>1, <2>4, <2>5, AccessesSame, NetpolsSame, WakeSame DEF PutService
<1>2. ASSUME NEW s \in Services, DeleteService(s)
      PROVE  ClusterTypeOK'
  <2>1. ServicesTypeOK'
    BY <1>2, WriteServiceType, ConstantsType DEF DeleteService, ServicesTypeOK
  <2>2. BoundsTypeOK'
    BY <1>2, EditType DEF DeleteService
  <2> QED
    BY <1>2, <2>1, <2>2, AccessesSame, NetpolsSame, WakeSame DEF DeleteService
<1>3. ASSUME NEW a \in Accesses, CreateAccess(a)
      PROVE  ClusterTypeOK'
  <2>1. PICK sp \in Specs[a] : /\ WriteAccess(a, [NewAccess(sp) EXCEPT !.uid = edits + 1])
                               /\ specHist' = [specHist EXCEPT ![a] = @ \cup {sp}]
    BY <1>3 DEF CreateAccess
  <2>2. sp \in AccessSpecs
    BY ClusterAssumption
  <2>3. [NewAccess(sp) EXCEPT !.uid = edits + 1] \in AccessObjects
    BY <2>2, NewAccessType DEF AccessObjects, BoundsTypeOK
  <2>4. specHist' \in [Accesses -> SUBSET AccessSpecs]
    BY <2>1, <2>2 DEF AccessesTypeOK
  <2>5. AccessesTypeOK'
    BY <2>1, <2>3, <2>4, WriteAccessType, ConstantsType
  <2>6. BoundsTypeOK'
    BY <1>3, EditType DEF CreateAccess
  <2> QED
    BY <1>3, <2>5, <2>6, ServicesSame, NetpolsSame, WakeSame DEF CreateAccess
<1>4. ASSUME NEW a \in Accesses, EditAccess(a)
      PROVE  ClusterTypeOK'
  <2>1. PICK sp \in Specs[a] : /\ WriteAccess(a, [accesses[a] EXCEPT !.spec = sp])
                               /\ specHist' = [specHist EXCEPT ![a] = @ \cup {sp}]
    BY <1>4 DEF EditAccess
  <2>2. sp \in AccessSpecs
    BY ClusterAssumption
  <2>3. accesses[a] \in AccessObjects
    BY <1>4, MaybeIn DEF EditAccess, AccessesTypeOK
  <2>4. [accesses[a] EXCEPT !.spec = sp] \in AccessObjects
    BY <2>2, <2>3 DEF AccessObjects
  <2>5. specHist' \in [Accesses -> SUBSET AccessSpecs]
    BY <2>1, <2>2 DEF AccessesTypeOK
  <2>6. AccessesTypeOK'
    BY <2>1, <2>4, <2>5, WriteAccessType, ConstantsType
  <2>7. BoundsTypeOK'
    BY <1>4, EditType DEF EditAccess
  <2> QED
    BY <1>4, <2>6, <2>7, ServicesSame, NetpolsSame, WakeSame DEF EditAccess
<1>5. ASSUME NEW a \in Accesses, DeleteAccess(a)
      PROVE  ClusterTypeOK'
  <2>1. accesses[a] \in AccessObjects
    BY <1>5, MaybeIn DEF DeleteAccess, AccessesTypeOK
  <2>2. [accesses[a] EXCEPT !.deleting = TRUE] \in AccessObjects
    BY <2>1 DEF AccessObjects
  <2>3. \E o \in Maybe(AccessObjects) : WriteAccess(a, o)
    BY <1>5, <2>2, ConstantsType DEF DeleteAccess
  <2>4. AccessesTypeOK'
    BY <1>5, <2>3, WriteAccessType DEF DeleteAccess, AccessesTypeOK
  <2>5. BoundsTypeOK'
    BY <1>5, EditType DEF DeleteAccess
  <2> QED
    BY <1>5, <2>4, <2>5, ServicesSame, NetpolsSame, WakeSame DEF DeleteAccess
<1>6. ASSUME NEW k \in NetpolKeys, DeleteNetpol(k)
      PROVE  ClusterTypeOK'
  <2>1. NetpolsTypeOK'
    BY <1>6, WriteNetpolType, ConstantsType DEF DeleteNetpol
  <2>2. BoundsTypeOK'
    BY <1>6, EditType DEF DeleteNetpol
  <2> QED
    BY <1>6, <2>1, <2>2, ServicesSame, AccessesSame, WakeSame DEF DeleteNetpol
<1> QED
  BY <1>1, <1>2, <1>3, <1>4, <1>5, <1>6 DEF UserStep

\* Nor a step of the platform.
LEMMA PlatformStepType ==
  ASSUME ClusterTypeOK, PlatformStep
  PROVE  ClusterTypeOK'
<1> USE DEF ClusterTypeOK
<1>1. ASSUME NEW k \in NetpolKeys, CollectNetpol(k)
      PROVE  ClusterTypeOK'
  <2>1. NetpolsTypeOK'
    BY <1>1, WriteNetpolType, ConstantsType DEF CollectNetpol
  <2> QED
    BY <1>1, <2>1, ServicesSame, AccessesSame, WakeSame, BoundsSame DEF CollectNetpol
<1>2. ASSUME NEW k \in NetpolKeys, DeliverNetpol(k)
      PROVE  ClusterTypeOK'
  <2>1. NetpolsTypeOK' /\ WakeTypeOK'
    BY <1>2 DEF DeliverNetpol, OwnersFor, NetpolsTypeOK, WakeTypeOK
  <2> QED
    BY <1>2, <2>1, ServicesSame, AccessesSame, BoundsSame DEF DeliverNetpol
<1>3. ASSUME NEW s \in Services, DeliverService(s)
      PROVE  ClusterTypeOK'
  <2>1. ServicesTypeOK' /\ WakeTypeOK'
    BY <1>3 DEF DeliverService, AccessesFor, ServicesTypeOK, WakeTypeOK
  <2> QED
    BY <1>3, <2>1, AccessesSame, NetpolsSame, BoundsSame DEF DeliverService
<1>4. ASSUME NEW a \in Accesses, CollectAccess(a)
      PROVE  ClusterTypeOK'
  <2>1. AccessesTypeOK'
    BY <1>4, WriteAccessType, ConstantsType DEF CollectAccess, AccessesTypeOK
  <2> QED
    BY <1>4, <2>1, ServicesSame, NetpolsSame, WakeSame, BoundsSame DEF CollectAccess
<1>5. ASSUME NEW a \in Accesses, DeliverAccess(a)
      PROVE  ClusterTypeOK'
  <2>1. AccessesTypeOK' /\ WakeTypeOK'
    BY <1>5 DEF DeliverAccess, AccessesTypeOK, WakeTypeOK
  <2> QED
    BY <1>5, <2>1, ServicesSame, NetpolsSame, BoundsSame DEF DeliverAccess
<1>6. ASSUME NEW a \in Accesses, TimerFires(a) \/ Resync(a)
      PROVE  ClusterTypeOK'
  <2>1. WakeTypeOK'
    BY <1>6 DEF TimerFires, Resync, WakeTypeOK, Times
  <2> QED
    BY <1>6, <2>1, ServicesSame, AccessesSame, NetpolsSame, BoundsSame DEF TimerFires, Resync
<1>7. ASSUME Tick
      PROVE  ClusterTypeOK'
  <2>1. WakeTypeOK'
    BY <1>7 DEF Tick, WakeTypeOK
  <2> QED
    BY <1>7, <2>1, ServicesSame, AccessesSame, NetpolsSame, BoundsSame DEF Tick
<1> QED
  BY <1>1, <1>2, <1>3, <1>4, <1>5, <1>6, <1>7 DEF PlatformStep

\* Nor a restart: the caches are what is stored.
LEMMA ClusterRestartType ==
  ASSUME ClusterTypeOK, ClusterRestart
  PROVE  ClusterTypeOK'
<1>1. ServicesTypeOK'
  BY DEF ClusterTypeOK, ServicesTypeOK, ClusterRestart, stores
<1>2. AccessesTypeOK'
  BY DEF ClusterTypeOK, AccessesTypeOK, ClusterRestart, stores
<1>3. NetpolsTypeOK'
  BY DEF ClusterTypeOK, NetpolsTypeOK, ClusterRestart, stores
<1>4. WakeTypeOK'
  <2>1. \A k \in NetpolKeys : OwnerIn(netpols[k]) \subseteq Accesses
    BY DEF ClusterTypeOK, NetpolsTypeOK, OwnerIn, Maybe, NetpolObjects
  <2>2. UNION {OwnerIn(netpols[k]) : k \in NetpolKeys} \subseteq Accesses
    BY <2>1
  <2> QED
    BY <2>2 DEF ClusterTypeOK, WakeTypeOK, ClusterRestart, Times
<1>5. BoundsTypeOK'
  BY DEF ClusterTypeOK, BoundsTypeOK, ClusterRestart
<1> QED
  BY <1>1, <1>2, <1>3, <1>4, <1>5 DEF ClusterTypeOK

\* The cluster a manager starts on is typed.
LEMMA ClusterInitType ==
  ASSUME ClusterInit
  PROVE  ClusterTypeOK
<1>1. services \in [Services -> Maybe(ServiceVersions)]
  BY ClusterAssumption DEF ClusterInit, Maybe
<1>2. ServicesTypeOK
  BY <1>1 DEF ClusterInit, ServicesTypeOK, Maybe
<1>3. WakeTypeOK /\ BoundsTypeOK
  BY DEF ClusterInit, WakeTypeOK, BoundsTypeOK, Times
<1>4. \A a \in Accesses : \A sp \in Specs[a] : sp \in AccessSpecs
  BY ClusterAssumption
<1>5. \A sp \in AccessSpecs : NewAccess(sp) \in AccessObjects
  <2>1. NoConds \in [CondTypes -> Statuses]
    BY DEF NoConds, Statuses
  <2> QED
    BY <1>3, <2>1 DEF NewAccess, AccessObjects, BoundsTypeOK, WakeTypeOK, Times
<1>6. accesses \in [Accesses -> Maybe(AccessObjects)]
  BY <1>4, <1>5 DEF ClusterInit, Maybe
<1>7. AccessesTypeOK
  <2>1. \A a \in Accesses : accesses[a] # Absent => accesses[a].spec \in AccessSpecs
    BY <1>6 DEF Maybe, AccessObjects
  <2> QED
    BY <1>6, <2>1 DEF ClusterInit, AccessesTypeOK
<1>8. NetpolsTypeOK
  BY ConstantsType DEF ClusterInit, NetpolsTypeOK
<1> QED
  BY <1>2, <1>3, <1>7, <1>8 DEF ClusterTypeOK

-----------------------------------------------------------------------------
(* Durations *)

\* A number below the modulus is its own remainder.
LEMMA SmallRemainder ==
  ASSUME NEW n \in Nat, NEW m \in Nat, n < m
  PROVE  n % m = n
OBVIOUS

\* From the modulus to its double, the remainder is what exceeds it.
LEMMA NextRemainder ==
  ASSUME NEW n \in Nat, NEW m \in Nat \ {0}, m <= n, n < 2 * m
  PROVE  n % m = n - m
OBVIOUS

\* A remainder is below the modulus.
LEMMA RemainderBound ==
  ASSUME NEW n \in Nat, NEW m \in Nat \ {0}
  PROVE  n % m \in 0 .. (m - 1)
OBVIOUS

\* ParseDuration does not check the product of a number of days: of the numbers that are
\* not too far below zero, exactly those below half the range are kept as written, and
\* the next ones, as many again, give a negative duration, a deadline before the access
\* was created.
THEOREM DurationExact ==
  /\ \A days \in Int : -HalfRange < days => (ParseDuration(days) = days <=> days < HalfRange)
  /\ \A days \in HalfRange .. 2 * HalfRange - 1 : ParseDuration(days) < 0
<1> DEFINE size == 2 * HalfRange
<1>1. size \in Nat \ {0} /\ \A days \in Int : -HalfRange < days => days + HalfRange \in Nat
  BY RangeAssumption
<1>2. ASSUME NEW days \in Int, -HalfRange < days
      PROVE  ParseDuration(days) = days <=> days < HalfRange
  <2>1. days < HalfRange => (days + HalfRange) % size = days + HalfRange
    BY <1>1, <1>2, RangeAssumption, SmallRemainder
  <2>2. (days + HalfRange) % size \in 0 .. (size - 1)
    BY <1>1, <1>2, RemainderBound
  <2>3. ((days + HalfRange) % size) - HalfRange < HalfRange
    BY <2>2, RangeAssumption
  <2> QED
    BY <2>1, <2>3, RangeAssumption DEF ParseDuration, WrapAround
<1>3. ASSUME NEW days \in HalfRange .. 2 * HalfRange - 1
      PROVE  ParseDuration(days) < 0
  <2>1. /\ days \in Nat /\ days + HalfRange \in Nat /\ size \in Nat \ {0}
        /\ size <= days + HalfRange /\ days + HalfRange < 2 * size /\ days < size
    BY RangeAssumption
  <2> HIDE DEF size
  <2>2. PICK n \in Nat : n = days + HalfRange
    BY <2>1
  <2>3. n % size = n - size
    BY <2>1, <2>2, NextRemainder
  <2>4. ParseDuration(days) = (n % size) - HalfRange
    BY <2>2 DEF ParseDuration, WrapAround, size
  <2> QED
    BY <2>1, <2>2, <2>3, <2>4, RangeAssumption
<1> QED
  BY <1>2, <1>3

-----------------------------------------------------------------------------
(* The cluster's own steps *)

\* What the cluster does by itself, and what happens to it in a restart.
ClusterStep == UserStep \/ PlatformStep \/ ClusterRestart

-----------------------------------------------------------------------------
(* Moves *)

\* A service stays, or becomes one that users may make of it, with an event under
\* way; its copy stays, and its event, or becomes what is stored.
ServicesMove ==
  \A s \in Services :
    /\ svcHist[s] \subseteq svcHist'[s]
    /\ services'[s] = services[s] \/ (s \in svcEvents' /\ services'[s] \in Maybe(svcHist'[s]))
    /\ \/ svcCache'[s] = svcCache[s] /\ (s \in svcEvents => s \in svcEvents')
       \/ svcCache'[s] = services[s] /\ services'[s] = services[s]

\* The object under a stays the same incarnation: edited, marked for deletion, or
\* with another status.
Continues(a) ==
  /\ accesses[a] # Absent /\ accesses'[a] # Absent
  /\ accesses'[a].uid = accesses[a].uid /\ accesses'[a].created = accesses[a].created
  /\ accesses[a].deleting => accesses'[a].deleting
  /\ accesses'[a].spec \in specHist'[a] \cup {accesses[a].spec}

\* It is a new one.
Begins(a) ==
  /\ accesses[a] = Absent /\ accesses'[a] # Absent
  /\ edits < edits' /\ accesses'[a].uid = edits'
  /\ accesses'[a].spec \in specHist'[a]

Rewritten(a) ==
  /\ a \in accEvents' /\ a \in touched'
  /\ accesses'[a] = Absent \/ Continues(a) \/ Begins(a)

AccessesMove ==
  \A a \in Accesses :
    /\ specHist[a] \subseteq specHist'[a] /\ specHist'[a] \subseteq specHist[a] \cup Specs[a]
    /\ accesses'[a] = accesses[a] \/ Rewritten(a)
    /\ \/ accCache'[a] = accCache[a] /\ (a \in accEvents => a \in accEvents')
       \/ accCache'[a] = accesses[a] /\ accesses'[a] = accesses[a]

\* No step undoes a user's.
ClusterMoves == ServicesMove /\ AccessesMove /\ edits <= edits'

\* A policy stays, with its events or with the last of them delivered, or is written,
\* with an event that names the owners of the old and the new one.
PoliciesNoted ==
  \A k \in NetpolKeys :
    \/ netpols'[k] = netpols[k] /\ npCache'[k] = npCache[k] /\ npEvents'[k] = npEvents[k]
    \/ netpols'[k] = netpols[k] /\ npCache'[k] = netpols[k] /\ npEvents'[k] = {}
    \/ /\ netpols[k] # Absent \/ netpols'[k] # Absent
       /\ npCache'[k] = npCache[k]
       /\ npEvents'[k] = npEvents[k] \cup OwnerIn(netpols[k]) \cup OwnerIn(netpols'[k])

\* Of its own the cluster only takes policies away.
PoliciesStayOrGo ==
  \A k \in NetpolKeys :
    netpols'[k] \in {netpols[k], Absent} /\ npCache'[k] \in {npCache[k], netpols[k]}

\* Steps that leave the services alone.
LEMMA ServicesStay ==
  ASSUME UNCHANGED svcVars
  PROVE  ServicesMove
BY DEF svcVars, ServicesMove

\* Steps that leave the access objects alone.
LEMMA AccessesStay ==
  ASSUME UNCHANGED <<accesses, accCache, accEvents, specHist>>
  PROVE  AccessesMove
BY DEF AccessesMove

\* Steps that leave the policies alone.
LEMMA PoliciesStay ==
  ASSUME UNCHANGED npVars
  PROVE  PoliciesNoted /\ PoliciesStayOrGo
BY DEF npVars, PoliciesNoted, PoliciesStayOrGo

\* A write of one access object, if it goes, goes on or begins.
LEMMA AccessWritten ==
  ASSUME AccessesTypeOK, NEW a \in Accesses, NEW o, WriteAccess(a, o),
         \A b \in Accesses : /\ specHist[b] \subseteq specHist'[b]
                             /\ specHist'[b] \subseteq specHist[b] \cup Specs[b],
         \/ o = Absent
         \/ /\ accesses[a] # Absent
            /\ o.uid = accesses[a].uid /\ o.created = accesses[a].created
            /\ accesses[a].deleting => o.deleting
            /\ o.spec \in specHist'[a] \cup {accesses[a].spec}
         \/ /\ accesses[a] = Absent /\ edits < edits' /\ o.uid = edits'
            /\ o.spec \in specHist'[a]
  PROVE  AccessesMove
<1>1. accesses'[a] = o /\ \A b \in Accesses \ {a} : accesses'[b] = accesses[b]
  BY DEF WriteAccess, AccessesTypeOK
<1>2. UNCHANGED accCache /\ accEvents \subseteq accEvents' /\ a \in accEvents' /\ a \in touched'
  BY DEF WriteAccess
<1>3. accesses'[a] = Absent \/ Continues(a) \/ Begins(a)
  BY <1>1 DEF Continues, Begins
<1> QED
  BY <1>1, <1>2, <1>3 DEF AccessesMove, Rewritten

\* A write of one policy, over one that is there or of one.
LEMMA NetpolWritten ==
  ASSUME NetpolsTypeOK, NEW k \in NetpolKeys, NEW n, WriteNetpol(k, n),
         n # Absent \/ netpols[k] # Absent
  PROVE  PoliciesNoted /\ \A i \in NetpolKeys : npEvents[i] \subseteq npEvents'[i]
<1>1. /\ npEvents'[k] = npEvents[k] \cup OwnerIn(netpols[k]) \cup OwnerIn(n)
      /\ netpols'[k] = n /\ UNCHANGED npCache
      /\ \A i \in NetpolKeys \ {k} : netpols'[i] = netpols[i] /\ npEvents'[i] = npEvents[i]
  BY DEF WriteNetpol, NetpolsTypeOK
<1> QED
  BY <1>1 DEF PoliciesNoted

-----------------------------------------------------------------------------
(* Every step of the cluster is a move *)

\* Of services.
LEMMA ClusterServices ==
  ASSUME ClusterTypeOK, ClusterStep
  PROVE  ServicesMove
<1> USE DEF ClusterTypeOK, ServicesTypeOK
<1>1. ASSUME NEW s \in Services, PutService(s) \/ DeleteService(s)
      PROVE  ServicesMove
  BY <1>1 DEF PutService, DeleteService, WriteService, ServicesMove, Maybe
<1>2. ASSUME NEW s \in Services, DeliverService(s)
      PROVE  ServicesMove
  BY <1>2 DEF DeliverService, ServicesMove
<1>3. CASE ClusterRestart
  BY <1>3 DEF ClusterRestart, stores, ServicesMove
<1> QED
  BY <1>1, <1>2, <1>3, ServicesStay
     DEF ClusterStep, UserStep, PlatformStep, CreateAccess, EditAccess, DeleteAccess,
         DeleteNetpol, CollectNetpol, DeliverNetpol, CollectAccess, DeliverAccess,
         TimerFires, Resync, Tick

\* Of access objects.
LEMMA ClusterAccesses ==
  ASSUME ClusterTypeOK, ClusterStep
  PROVE  AccessesMove
<1> USE DEF ClusterTypeOK
<1>0. edits \in Nat /\ \A a \in Accesses : accesses[a] # Absent => accesses[a] \in AccessObjects
  BY DEF BoundsTypeOK, AccessesTypeOK, Maybe
<1>1. ASSUME NEW a \in Accesses, CreateAccess(a)
      PROVE  AccessesMove
  <2>1. PICK sp \in Specs[a] : /\ WriteAccess(a, [NewAccess(sp) EXCEPT !.uid = edits + 1])
                               /\ specHist' = [specHist EXCEPT ![a] = @ \cup {sp}]
    BY <1>1 DEF CreateAccess
  <2>2. PICK o : WriteAccess(a, o) /\ o.spec = sp /\ o.uid = edits + 1
    BY <2>1 DEF NewAccess
  <2>3. edits' = edits + 1 /\ accesses[a] = Absent
    BY <1>1 DEF CreateAccess, Edit
  <2> QED
    BY <1>0, <2>1, <2>2, <2>3, AccessWritten DEF AccessesTypeOK
<1>2. ASSUME NEW a \in Accesses, EditAccess(a)
      PROVE  AccessesMove
  <2>1. PICK sp \in Specs[a] : /\ WriteAccess(a, [accesses[a] EXCEPT !.spec = sp])
                               /\ specHist' = [specHist EXCEPT ![a] = @ \cup {sp}]
    BY <1>2 DEF EditAccess
  <2>2. accesses[a] # Absent
    BY <1>2 DEF EditAccess
  <2>3. PICK o : /\ WriteAccess(a, o) /\ o.spec = sp /\ o.uid = accesses[a].uid
                 /\ o.created = accesses[a].created /\ o.deleting = accesses[a].deleting
    BY <1>0, <2>1, <2>2 DEF AccessObjects
  <2> QED
    BY <2>1, <2>2, <2>3, AccessWritten DEF AccessesTypeOK
<1>3. ASSUME NEW a \in Accesses, DeleteAccess(a) \/ CollectAccess(a)
      PROVE  AccessesMove
  <2>1. accesses[a] # Absent
    BY <1>3 DEF DeleteAccess, CollectAccess
  <2>2. PICK o : /\ WriteAccess(a, o)
                 /\ o = Absent \/ (/\ o.spec = accesses[a].spec /\ o.uid = accesses[a].uid
                                   /\ o.created = accesses[a].created /\ o.deleting)
    BY <1>0, <1>3, <2>1 DEF DeleteAccess, CollectAccess, AccessObjects
  <2>3. UNCHANGED specHist
    BY <1>3 DEF DeleteAccess, CollectAccess
  <2> QED
    BY <2>1, <2>2, <2>3, AccessWritten
<1>4. ASSUME NEW a \in Accesses, DeliverAccess(a)
      PROVE  AccessesMove
  BY <1>4 DEF DeliverAccess, AccessesMove, AccessesTypeOK
<1>5. CASE ClusterRestart
  BY <1>5 DEF ClusterRestart, stores, AccessesMove
<1> QED
  BY <1>1, <1>2, <1>3, <1>4, <1>5, AccessesStay
     DEF ClusterStep, UserStep, PlatformStep, PutService, DeleteService, DeleteNetpol,
         CollectNetpol, DeliverNetpol, DeliverService, TimerFires, Resync, Tick, accVars

\* Of policies.
LEMMA ClusterPolicies ==
  ASSUME ClusterTypeOK, ClusterStep
  PROVE  PoliciesNoted /\ PoliciesStayOrGo
<1> USE DEF ClusterTypeOK
<1>1. ASSUME NEW k \in NetpolKeys, DeleteNetpol(k) \/ CollectNetpol(k)
      PROVE  PoliciesNoted /\ PoliciesStayOrGo
  <2>1. netpols[k] # Absent /\ WriteNetpol(k, Absent)
    BY <1>1 DEF DeleteNetpol, CollectNetpol
  <2>2. PoliciesStayOrGo
    BY <2>1 DEF WriteNetpol, PoliciesStayOrGo, NetpolsTypeOK
  <2> QED
    BY <2>1, <2>2, NetpolWritten
<1>2. ASSUME NEW k \in NetpolKeys, DeliverNetpol(k)
      PROVE  PoliciesNoted /\ PoliciesStayOrGo
  BY <1>2 DEF DeliverNetpol, PoliciesNoted, PoliciesStayOrGo, NetpolsTypeOK
<1>3. CASE ClusterRestart
  BY <1>3 DEF ClusterRestart, stores, PoliciesNoted, PoliciesStayOrGo
<1> QED
  BY <1>1, <1>2, <1>3, PoliciesStay
     DEF ClusterStep, UserStep, PlatformStep, PutService, DeleteService, CreateAccess,
         EditAccess, DeleteAccess, DeliverService, CollectAccess, DeliverAccess,
         TimerFires, Resync, Tick

\* All of it.
LEMMA ClusterStepMoves ==
  ASSUME ClusterTypeOK, ClusterStep
  PROVE  ClusterMoves /\ PoliciesNoted /\ PoliciesStayOrGo
<1>1. edits' = edits \/ \E m : Edit(m)
  BY DEF ClusterStep, UserStep, PlatformStep, PutService, DeleteService, CreateAccess,
         EditAccess, DeleteAccess, DeleteNetpol, CollectNetpol, DeliverNetpol,
         DeliverService, CollectAccess, DeliverAccess, TimerFires, Resync, Tick,
         ClusterRestart, bounds
<1>2. edits <= edits'
  BY <1>1 DEF ClusterTypeOK, BoundsTypeOK, Edit
<1> QED
  BY <1>2, ClusterServices, ClusterAccesses, ClusterPolicies DEF ClusterMoves

-----------------------------------------------------------------------------
(* What follows for stores, caches and histories *)

\* The stores and the caches hold what the histories hold.
Seen ==
  /\ \A s \in Services : /\ services[s] # Absent => services[s] \in svcHist[s]
                         /\ svcCache[s] # Absent => svcCache[s] \in svcHist[s]
  /\ \A a \in Accesses : /\ accesses[a] # Absent => accesses[a].spec \in specHist[a]
                         /\ accCache[a] # Absent => accCache[a].spec \in specHist[a]

\* The histories only grow.
Grows ==
  /\ \A s \in Services : svcHist[s] \subseteq svcHist'[s]
  /\ \A a \in Accesses : specHist[a] \subseteq specHist'[a]

\* Users only write specs they may write.
Written == \A a \in Accesses : specHist[a] \subseteq Specs[a]

\* What has no event under way is in the cache as it is stored.
CachesCurrent ==
  /\ \A s \in Services : s \notin svcEvents => svcCache[s] = services[s]
  /\ \A a \in Accesses : a \notin accEvents => accCache[a] = accesses[a]

\* They grow in every move.
LEMMA MovesGrow ==
  ASSUME ClusterMoves
  PROVE  Grows
BY DEF ClusterMoves, ServicesMove, AccessesMove, Grows

\* Every move keeps stores and caches within the histories.
LEMMA MovesSeen ==
  ASSUME Seen, ClusterMoves
  PROVE  Seen'
<1>1. ASSUME NEW s \in Services
      PROVE  /\ services'[s] # Absent => services'[s] \in svcHist'[s]
             /\ svcCache'[s] # Absent => svcCache'[s] \in svcHist'[s]
  BY DEF ClusterMoves, ServicesMove, Seen, Maybe
<1>2. ASSUME NEW a \in Accesses
      PROVE  /\ accesses'[a] # Absent => accesses'[a].spec \in specHist'[a]
             /\ accCache'[a] # Absent => accCache'[a].spec \in specHist'[a]
  BY DEF ClusterMoves, AccessesMove, Rewritten, Continues, Begins, Seen
<1> QED
  BY <1>1, <1>2 DEF Seen

\* And the histories within what users may write.
LEMMA MovesWritten ==
  ASSUME Written, ClusterMoves
  PROVE  Written'
BY DEF Written, ClusterMoves, AccessesMove

\* And the caches up to date but for events under way.
LEMMA MovesCurrent ==
  ASSUME CachesCurrent, ClusterMoves
  PROVE  CachesCurrent'
<1>1. ASSUME NEW s \in Services, s \notin svcEvents'
      PROVE  svcCache'[s] = services'[s]
  BY <1>1 DEF ClusterMoves, ServicesMove, CachesCurrent
<1>2. ASSUME NEW a \in Accesses, a \notin accEvents'
      PROVE  accCache'[a] = accesses'[a]
  BY <1>2 DEF ClusterMoves, AccessesMove, Rewritten, CachesCurrent
<1> QED
  BY <1>1, <1>2 DEF CachesCurrent

\* The first states: nothing is under way.
LEMMA InitHistory ==
  ASSUME ClusterInit
  PROVE  Seen /\ Written /\ CachesCurrent
BY DEF ClusterInit, Seen, Written, CachesCurrent

-----------------------------------------------------------------------------
(* Deadlines *)

\* Durations as they are written, see DurationExact.
DurationsFit ==
  \A a \in Accesses : \A sp \in Specs[a] :
    sp.duration # NoDuration => sp.duration \in -(HalfRange - 1) .. HalfRange - 1

\* A deadline is the creation time and a duration of a spec.
Due(specs, o) ==
  o.expiresAt # NoTime =>
    \E sp \in specs : sp.duration # NoDuration /\ o.expiresAt = o.created + sp.duration

\* A new object has no deadline, and an object that stays keeps the one it has.
DatesKept ==
  \A a \in Accesses :
    accesses'[a] # Absent =>
      /\ accesses'[a].expiresAt = IF accesses[a] = Absent THEN NoTime ELSE accesses[a].expiresAt
      /\ accesses[a] # Absent => accesses'[a].created = accesses[a].created

\* Only a worker sets a deadline.
LEMMA ClusterDates ==
  ASSUME ClusterTypeOK, ClusterStep
  PROVE  DatesKept
<1> USE DEF ClusterTypeOK
<1>1. ASSUME NEW a \in Accesses, NEW o, WriteAccess(a, o),
             o # Absent => /\ o.expiresAt = IF accesses[a] = Absent THEN NoTime
                                            ELSE accesses[a].expiresAt
                           /\ accesses[a] # Absent => o.created = accesses[a].created
      PROVE  DatesKept
  BY <1>1 DEF WriteAccess, DatesKept, AccessesTypeOK
<1>2. ASSUME UNCHANGED accesses
      PROVE  DatesKept
  BY <1>2 DEF DatesKept
<1>3. \A a \in Accesses : accesses[a] # Absent => accesses[a] \in AccessObjects
  BY DEF AccessesTypeOK, Maybe
<1>4. ASSUME NEW a \in Accesses, CreateAccess(a)
      PROVE  DatesKept
  <2>1. PICK o : WriteAccess(a, o) /\ o.expiresAt = NoTime
    BY <1>4 DEF CreateAccess, NewAccess
  <2> QED
    BY <1>1, <1>4, <2>1 DEF CreateAccess
<1>5. ASSUME NEW a \in Accesses, EditAccess(a) \/ DeleteAccess(a) \/ CollectAccess(a)
      PROVE  DatesKept
  <2>1. accesses[a] # Absent /\ accesses[a] \in AccessObjects
    BY <1>3, <1>5 DEF EditAccess, DeleteAccess, CollectAccess
  <2>2. PICK o : /\ WriteAccess(a, o)
                 /\ o # Absent => /\ o.expiresAt = accesses[a].expiresAt
                                  /\ o.created = accesses[a].created
    <3>1. CASE EditAccess(a)
      BY <2>1, <3>1 DEF EditAccess, AccessObjects
    <3>2. CASE DeleteAccess(a) \/ CollectAccess(a)
      BY <2>1, <3>2 DEF DeleteAccess, CollectAccess, AccessObjects
    <3> QED
      BY <1>5, <3>1, <3>2
  <2> QED
    BY <1>1, <2>1, <2>2
<1>6. CASE ClusterRestart
  BY <1>2, <1>6 DEF ClusterRestart, stores
<1> QED
  BY <1>2, <1>4, <1>5, <1>6
     DEF ClusterStep, UserStep, PlatformStep, PutService, DeleteService, DeleteNetpol,
         CollectNetpol, DeliverNetpol, DeliverService, DeliverAccess, TimerFires, Resync,
         Tick, accVars

\* Every deadline comes from a spec that the object had.
AccessesDue ==
  \A a \in Accesses : /\ accesses[a] # Absent => Due(specHist[a], accesses[a])
                      /\ accCache[a] # Absent => Due(specHist[a], accCache[a])

\* It does after a step that keeps deadlines, or sets such a one.
LEMMA DueStays ==
  ASSUME AccessesDue, ClusterMoves,
         DatesKept \/ \A a \in Accesses :
                        \/ accesses'[a] \in {accesses[a], Absent}
                        \/ Due(specHist[a], accesses'[a])
  PROVE  AccessesDue'
<1>1. \A a \in Accesses : accCache'[a] \in {accCache[a], accesses[a]}
                          /\ specHist[a] \subseteq specHist'[a]
  BY DEF ClusterMoves, AccessesMove
<1>2. ASSUME NEW a \in Accesses, accesses'[a] # Absent
      PROVE  Due(specHist[a], accesses'[a])
  BY <1>2 DEF AccessesDue, DatesKept, Due
<1>3. ASSUME NEW a \in Accesses, accCache'[a] # Absent
      PROVE  Due(specHist[a], accCache'[a])
  BY <1>1, <1>3 DEF AccessesDue
<1> QED
  BY <1>1, <1>2, <1>3 DEF AccessesDue, Due

\* A new object has no deadline.
LEMMA InitDue ==
  ASSUME ClusterInit
  PROVE  AccessesDue
<1>1. \A a \in Accesses : accesses[a] # Absent => \E sp : accesses[a] = NewAccess(sp)
  BY DEF ClusterInit, Maybe
<1>2. \A sp : NewAccess(sp).expiresAt = NoTime
  BY DEF NewAccess
<1> QED
  BY <1>1, <1>2 DEF ClusterInit, AccessesDue, Due

\* The clock does not go back.
LEMMA ClockGoes ==
  ASSUME ClusterTypeOK, ClusterStep
  PROVE  now <= now'
<1>1. now \in Nat
  BY DEF ClusterTypeOK, WakeTypeOK
<1>2. now' = now \/ now' = now + 1
  BY DEF ClusterStep, UserStep, PlatformStep, PutService, DeleteService, CreateAccess,
         EditAccess, DeleteAccess, DeleteNetpol, CollectNetpol, DeliverNetpol,
         DeliverService, CollectAccess, DeliverAccess, TimerFires, Resync, Tick,
         ClusterRestart, wakeVars
<1> QED
  BY <1>1, <1>2

\* What was read and has not been written since is still what is stored.
LEMMA UntouchedStays ==
  ASSUME AccessesMove, touched \subseteq touched', NEW a \in Accesses, a \notin touched'
  PROVE  a \notin touched /\ accesses'[a] = accesses[a]
BY DEF AccessesMove, Rewritten

\* A write touches what it writes, and nothing but a restart forgets it.
LEMMA ClusterTouches ==
  ASSUME UserStep \/ PlatformStep
  PROVE  touched \subseteq touched'
BY DEF UserStep, PlatformStep, PutService, DeleteService, CreateAccess, EditAccess,
       DeleteAccess, DeleteNetpol, CollectNetpol, DeliverNetpol, DeliverService,
       CollectAccess, DeliverAccess, TimerFires, Resync, Tick, WriteAccess, accVars

\* A duration is read as it is written.
LEMMA DurationRead ==
  ASSUME DurationsFit, NEW a \in Accesses, NEW sp \in AccessSpecs, sp \in Specs[a]
  PROVE  sp.duration # NoDuration => ParseDuration(sp.duration) = sp.duration
<1>1. sp.duration # NoDuration => /\ sp.duration \in Int /\ -HalfRange < sp.duration
                                   /\ sp.duration < HalfRange
  BY RangeAssumption DEF DurationsFit, AccessSpecs
<1> QED
  BY <1>1, DurationExact

-----------------------------------------------------------------------------
(* Incarnations: uids only grow *)

\* x was read before y, of one name: y is a later incarnation, or the same, created
\* then and no less deleted.
Precedes(x, y) ==
  y # Absent => /\ x.uid <= y.uid
                /\ x.uid = y.uid => x.created = y.created /\ (x.deleting => y.deleting)

NoLater(u, y) == y # Absent => u <= y.uid

\* The cached objects precede the stored ones.
AccessesInOrder ==
  \A a \in Accesses :
    /\ accesses[a] # Absent => accesses[a].uid <= edits
    /\ accCache[a] # Absent => /\ accCache[a].uid <= edits
                               /\ Precedes(accCache[a], accesses[a])

\* o, read of a, precedes what is cached and what is stored.
CopyOf(a, o) ==
  /\ o.uid <= edits
  /\ Precedes(o, accesses[a]) /\ NoLater(o.uid, accCache[a])

\* No policy names an owner later than what is stored or cached of it.
OwnersInOrder ==
  \A k \in NetpolKeys :
    LET n == netpols[k]
    IN n # Absent => /\ n.uid <= edits
                     /\ NoLater(n.uid, accesses[n.owner]) /\ NoLater(n.uid, accCache[n.owner])

\* The numbers compared are numbers.
Uids ==
  /\ edits \in Nat
  /\ \A a \in Accesses : /\ accesses[a] # Absent => accesses[a].uid \in Nat
                         /\ accCache[a] # Absent => accCache[a].uid \in Nat
  /\ \A k \in NetpolKeys :
       netpols[k] # Absent => netpols[k].uid \in Nat /\ netpols[k].owner \in Accesses

\* They are, before and after a step.
LEMMA UidType ==
  /\ ClusterTypeOK => Uids
  /\ ClusterTypeOK' => Uids'
BY DEF ClusterTypeOK, BoundsTypeOK, AccessesTypeOK, NetpolsTypeOK, Maybe, AccessObjects,
       NetpolObjects, Uids

\* A move keeps stores and caches in order.
LEMMA MovesInOrder ==
  ASSUME ClusterTypeOK, ClusterTypeOK', AccessesInOrder, ClusterMoves
  PROVE  AccessesInOrder'
<1> SUFFICES ASSUME NEW a \in Accesses
             PROVE  /\ accesses'[a] # Absent => accesses'[a].uid <= edits'
                    /\ accCache'[a] # Absent => /\ accCache'[a].uid <= edits'
                                                /\ Precedes(accCache'[a], accesses'[a])
  BY DEF AccessesInOrder
<1>1. /\ edits \in Nat /\ edits' \in Nat /\ edits <= edits'
      /\ accesses[a] # Absent => accesses[a].uid \in Nat
      /\ accCache[a] # Absent => accCache[a].uid \in Nat
      /\ accesses'[a] # Absent => accesses'[a].uid \in Nat
  BY UidType DEF Uids, ClusterMoves
<1>2. /\ accesses[a] # Absent => accesses[a].uid <= edits
      /\ accCache[a] # Absent => accCache[a].uid <= edits /\ Precedes(accCache[a], accesses[a])
  BY DEF AccessesInOrder
<1>3. /\ \/ accesses'[a] \in {accesses[a], Absent}
         \/ Continues(a) \/ Begins(a)
      /\ \/ accCache'[a] = accCache[a]
         \/ accCache'[a] = accesses[a] /\ accesses'[a] = accesses[a]
  BY DEF ClusterMoves, AccessesMove, Rewritten
<1> QED
  BY <1>1, <1>2, <1>3 DEF Continues, Begins, Precedes

\* Whatever is no later than the stored and the cached object of a stays so.
LEMMA NoLaterStays ==
  ASSUME ClusterTypeOK, ClusterTypeOK', AccessesInOrder, ClusterMoves, NEW a \in Accesses,
         NEW u \in Nat, u <= edits, NoLater(u, accesses[a]), NoLater(u, accCache[a])
  PROVE  u <= edits' /\ NoLater(u, accesses'[a]) /\ NoLater(u, accCache'[a])
<1>1. edits \in Nat /\ edits' \in Nat /\ edits <= edits'
  BY UidType DEF Uids, ClusterMoves
<1>2. /\ \/ accesses'[a] \in {accesses[a], Absent}
         \/ Continues(a) \/ Begins(a)
      /\ accCache'[a] \in {accCache[a], accesses[a]}
  BY DEF ClusterMoves, AccessesMove, Rewritten
<1> QED
  BY <1>1, <1>2 DEF Continues, Begins, NoLater

\* A copy stays one.
LEMMA CopyStays ==
  ASSUME ClusterTypeOK, ClusterTypeOK', AccessesInOrder, ClusterMoves, NEW a \in Accesses,
         NEW o, o.uid \in Nat, CopyOf(a, o)
  PROVE  /\ o.uid <= edits'
         /\ Precedes(o, accesses'[a]) /\ NoLater(o.uid, accCache'[a])
<1>1. edits \in Nat /\ edits' \in Nat /\ edits <= edits'
  BY UidType DEF Uids, ClusterMoves
<1>2. NoLater(o.uid, accesses[a])
  BY DEF CopyOf, Precedes, NoLater
<1>3. o.uid <= edits' /\ NoLater(o.uid, accesses'[a]) /\ NoLater(o.uid, accCache'[a])
  BY <1>2, NoLaterStays DEF CopyOf
<1>4. \/ accesses'[a] \in {accesses[a], Absent}
      \/ Continues(a) \/ Begins(a)
  BY DEF ClusterMoves, AccessesMove, Rewritten
<1>5. Precedes(o, accesses'[a])
  BY <1>1, <1>3, <1>4 DEF CopyOf, Continues, Begins, Precedes, NoLater
<1> QED
  BY <1>3, <1>5

\* What is read from the cache is a copy.
LEMMA CachedCopy ==
  ASSUME ClusterTypeOK, AccessesInOrder, NEW a \in Accesses, accCache[a] # Absent
  PROVE  CopyOf(a, accCache[a])
<1>1. accCache[a].uid \in Nat
  BY UidType DEF Uids
<1> QED
  BY <1>1 DEF AccessesInOrder, CopyOf, NoLater

\* Where every policy is an old one or names an owner by a copy of it, the owners
\* stay in order.
LEMMA OwnersStay ==
  ASSUME ClusterTypeOK, ClusterTypeOK', AccessesInOrder, OwnersInOrder, ClusterMoves,
         \A k \in NetpolKeys :
           \/ netpols'[k] \in {netpols[k], Absent}
           \/ \E o : /\ CopyOf(netpols'[k].owner, o) /\ o.uid = netpols'[k].uid
  PROVE  OwnersInOrder'
<1> SUFFICES ASSUME NEW k \in NetpolKeys, NEW n, n = netpols'[k], n # Absent
             PROVE  /\ n.uid <= edits'
                    /\ NoLater(n.uid, accesses'[n.owner]) /\ NoLater(n.uid, accCache'[n.owner])
  BY DEF OwnersInOrder
<1>1. n.uid \in Nat /\ n.owner \in Accesses
  BY UidType DEF Uids
<1>2. /\ n.uid <= edits
      /\ NoLater(n.uid, accesses[n.owner]) /\ NoLater(n.uid, accCache[n.owner])
  <2>1. CASE n = netpols[k]
    BY <2>1 DEF OwnersInOrder
  <2>2. ASSUME NEW o, CopyOf(n.owner, o), o.uid = n.uid
        PROVE  /\ n.uid <= edits
               /\ NoLater(n.uid, accesses[n.owner]) /\ NoLater(n.uid, accCache[n.owner])
    BY <2>2 DEF CopyOf, Precedes, NoLater
  <2> QED
    BY <2>1, <2>2
<1> QED
  BY <1>1, <1>2, NoLaterStays

\* A policy that belongs to a copy which is being deleted has lost its owner, if it
\* names an owner no later than the copy.
LEMMA OwnerGoing ==
  ASSUME ClusterTypeOK, NEW a \in Accesses, NEW o, o.uid \in Nat, o.deleting, CopyOf(a, o),
         NEW n, n.uid \in Nat, n.uid <= o.uid
  PROVE  ~OwnedBy(n, accesses[a]) \/ accesses[a].deleting
<1>1. accesses[a] # Absent => accesses[a].uid \in Nat
  BY UidType DEF Uids
<1> QED
  BY <1>1 DEF OwnedBy, CopyOf, Precedes

\* The first states: nothing was created yet.
LEMMA InitInOrder ==
  ASSUME ClusterInit
  PROVE  AccessesInOrder /\ OwnersInOrder
<1>1. \A a \in Accesses : accesses[a] # Absent => \E sp : accesses[a] = NewAccess(sp)
  BY DEF ClusterInit, Maybe
<1>2. \A sp : NewAccess(sp).uid = 0 /\ edits = 0
  BY DEF ClusterInit, NewAccess
<1>3. \A a \in Accesses : accesses[a] # Absent => accesses[a].uid = 0
  BY <1>1, <1>2
<1>4. AccessesInOrder
  BY <1>2, <1>3 DEF ClusterInit, AccessesInOrder, Precedes
<1> QED
  BY <1>4 DEF ClusterInit, OwnersInOrder

\* The lists and the conditions in the status.
SameStatus(o, p) == o.netpols = p.netpols /\ o.services = p.services /\ o.conds = p.conds

\* The status of a stays, or a is a new object with an empty one.
StatusKept(a) ==
  accesses'[a] # Absent =>
    \/ /\ accesses'[a].netpols = {} /\ accesses'[a].services = {}
       /\ accesses'[a].conds = NoConds
    \/ accesses[a] # Absent /\ SameStatus(accesses'[a], accesses[a])

\* The cluster leaves the status to the worker.
LEMMA ClusterStatus ==
  ASSUME ClusterTypeOK, ClusterStep, NEW a \in Accesses
  PROVE  StatusKept(a)
<1>0. \A b \in Accesses : accesses[b] # Absent => accesses[b] \in AccessObjects
  BY DEF ClusterTypeOK, AccessesTypeOK, Maybe
<1>1. ASSUME UNCHANGED accesses
      PROVE  StatusKept(a)
  BY <1>1 DEF StatusKept, SameStatus
<1>2. ASSUME NEW b \in Accesses, NEW o, WriteAccess(b, o),
             \/ o = Absent
             \/ o.netpols = {} /\ o.services = {} /\ o.conds = NoConds
             \/ accesses[b] # Absent /\ SameStatus(o, accesses[b])
      PROVE  StatusKept(a)
  <2>1. accesses'[b] = o /\ (a # b => accesses'[a] = accesses[a])
    BY <1>2 DEF WriteAccess, ClusterTypeOK, AccessesTypeOK
  <2> QED
    BY <1>2, <2>1 DEF StatusKept, SameStatus
<1>3. ASSUME NEW b \in Accesses, CreateAccess(b)
      PROVE  StatusKept(a)
  <2>1. PICK sp \in Specs[b] : WriteAccess(b, [NewAccess(sp) EXCEPT !.uid = edits + 1])
    BY <1>3 DEF CreateAccess
  <2>2. PICK o : WriteAccess(b, o) /\ o.netpols = {} /\ o.services = {} /\ o.conds = NoConds
    BY <2>1 DEF NewAccess
  <2> QED
    BY <1>2, <2>2
<1>4. ASSUME NEW b \in Accesses, EditAccess(b) \/ DeleteAccess(b) \/ CollectAccess(b)
      PROVE  StatusKept(a)
  <2>1. accesses[b] \in AccessObjects /\ accesses[b] # Absent
    BY <1>0, <1>4 DEF EditAccess, DeleteAccess, CollectAccess
  <2>2. PICK o : /\ WriteAccess(b, o)
                 /\ o = Absent \/ SameStatus(o, accesses[b])
    <3>1. PICK x \in AccessObjects : x = accesses[b]
      BY <2>1
    <3>2. \A sp : SameStatus([x EXCEPT !.spec = sp], x)
      BY DEF AccessObjects, SameStatus
    <3>3. \A d : SameStatus([x EXCEPT !.deleting = d], x)
      BY DEF AccessObjects, SameStatus
    <3>4. CASE EditAccess(b)
      <4>1. PICK sp : WriteAccess(b, [x EXCEPT !.spec = sp])
        BY <3>1, <3>4 DEF EditAccess
      <4> QED
        BY <3>1, <3>2, <4>1
    <3>5. CASE DeleteAccess(b) \/ CollectAccess(b)
      <4>1. WriteAccess(b, Absent) \/ WriteAccess(b, [x EXCEPT !.deleting = TRUE])
        BY <3>1, <3>5 DEF DeleteAccess, CollectAccess
      <4> QED
        BY <3>1, <3>3, <4>1
    <3> QED
      BY <1>4, <3>4, <3>5
  <2> QED
    BY <1>2, <2>1, <2>2
<1> QED
  BY <1>1, <1>3, <1>4
     DEF ClusterStep, UserStep, PlatformStep, PutService, DeleteService, DeleteNetpol,
         CollectNetpol, DeliverNetpol, DeliverService, DeliverAccess, TimerFires, Resync,
         Tick, ClusterRestart, stores, accVars

-----------------------------------------------------------------------------
(* What brings an object before its worker: every change that matters to it  *)
(* leaves an event, and an event that is delivered leaves a request.         *)

\* Whatever is under way to a's cache stays so or becomes a request for a.
Noticed(a) ==
  /\ accesses'[a] = accesses[a] \/ a \in accEvents'
  /\ a \in accEvents => a \in accEvents' \cup queue'
  /\ \A k \in NetpolKeys : a \in npEvents[k] => a \in npEvents'[k] \cup queue'
  /\ \A s \in Services : services'[s] = services[s] \/ s \in svcEvents'
  /\ \A s \in svcEvents : s \in svcEvents' \/ a \in queue' \/ accCache[a] = Absent

\* The cluster's own steps give notice of what they change, for as long as the object exists.
LEMMA ClusterNotices ==
  ASSUME ClusterTypeOK, ClusterStep, NEW a \in Accesses, accesses'[a] # Absent
  PROVE  Noticed(a) /\ (a \in queue => a \in queue')
<1> USE DEF ClusterTypeOK
<1>1. ASSUME NEW s \in Services, PutService(s) \/ DeleteService(s)
      PROVE  Noticed(a) /\ (a \in queue => a \in queue')
  BY <1>1 DEF PutService, DeleteService, WriteService, accVars, npVars, wakeVars, Noticed,
              ServicesTypeOK
<1>2. ASSUME NEW b \in Accesses,
             CreateAccess(b) \/ EditAccess(b) \/ DeleteAccess(b) \/ CollectAccess(b)
      PROVE  Noticed(a) /\ (a \in queue => a \in queue')
  <2>1. (\E o : WriteAccess(b, o)) /\ UNCHANGED <<svcVars, npVars, wakeVars>>
    BY <1>2 DEF CreateAccess, EditAccess, DeleteAccess, CollectAccess
  <2> QED
    BY <2>1 DEF WriteAccess, svcVars, npVars, wakeVars, Noticed, AccessesTypeOK
<1>3. ASSUME NEW k \in NetpolKeys, DeleteNetpol(k) \/ CollectNetpol(k)
      PROVE  Noticed(a) /\ (a \in queue => a \in queue')
  <2>1. WriteNetpol(k, Absent) /\ netpols[k] # Absent /\ UNCHANGED <<svcVars, accVars, wakeVars>>
    BY <1>3 DEF DeleteNetpol, CollectNetpol
  <2>2. \A i \in NetpolKeys : npEvents[i] \subseteq npEvents'[i]
    BY <2>1, NetpolWritten
  <2> QED
    BY <2>1, <2>2 DEF svcVars, accVars, wakeVars, Noticed
<1>4. ASSUME NEW s \in Services, DeliverService(s)
      PROVE  Noticed(a) /\ (a \in queue => a \in queue')
  BY <1>4 DEF DeliverService, AccessesFor, accVars, npVars, Noticed
<1>5. ASSUME NEW b \in Accesses, DeliverAccess(b)
      PROVE  Noticed(a) /\ (a \in queue => a \in queue')
  BY <1>5 DEF DeliverAccess, svcVars, npVars, Noticed
<1>6. ASSUME NEW k \in NetpolKeys, DeliverNetpol(k)
      PROVE  Noticed(a) /\ (a \in queue => a \in queue')
  BY <1>6 DEF DeliverNetpol, OwnersFor, svcVars, accVars, Noticed, NetpolsTypeOK
<1>7. ASSUME Tick \/ \E b \in Accesses : TimerFires(b) \/ Resync(b)
      PROVE  Noticed(a) /\ (a \in queue => a \in queue')
  BY <1>7 DEF Tick, TimerFires, Resync, svcVars, accVars, npVars, Noticed
<1>8. CASE ClusterRestart
  BY <1>8 DEF ClusterRestart, stores, Noticed
<1> QED
  BY <1>1, <1>2, <1>3, <1>4, <1>5, <1>6, <1>7, <1>8 DEF ClusterStep, UserStep, PlatformStep

\* Events are about policies there are, and the last one names the owner there is.
PoliciesKnown ==
  \A k \in NetpolKeys :
    /\ npEvents[k] = {} => npCache[k] = netpols[k]
    /\ netpols[k] # Absent => npEvents[k] = {} \/ netpols[k].owner \in npEvents[k]

\* A step that notes policies keeps it so.
LEMMA PoliciesStayKnown ==
  ASSUME PoliciesKnown, PoliciesNoted
  PROVE  PoliciesKnown'
<1> SUFFICES ASSUME NEW k \in NetpolKeys
             PROVE  /\ npEvents'[k] = {} => npCache'[k] = netpols'[k]
                    /\ netpols'[k] # Absent => npEvents'[k] = {} \/ netpols'[k].owner \in npEvents'[k]
  BY DEF PoliciesKnown
<1> QED
  BY DEF PoliciesKnown, PoliciesNoted, OwnerIn

\* a will be brought before its worker, for a change of its own, of service s or of
\* the policy under k.
Awaited(a, s, k) == a \in queue \/ a \in accEvents \/ a \in npEvents[k] \/ s \in svcEvents

\* After a step it will be, or nothing of that has changed and all that there was to
\* bring it there is a request.
LEMMA AwaitedStays ==
  ASSUME CachesCurrent, PoliciesNoted, NEW a \in Accesses, Noticed(a), accesses'[a] # Absent,
         NEW s \in Services, NEW k \in NetpolKeys
  PROVE  \/ Awaited(a, s, k)'
         \/ /\ accesses'[a] = accesses[a] /\ services'[s] = services[s]
            /\ netpols'[k] = netpols[k] \/ a \notin OwnerIn(netpols[k]) \cup OwnerIn(netpols'[k])
            /\ Awaited(a, s, k) => a \in queue
<1> SUFFICES ASSUME ~Awaited(a, s, k)'
             PROVE  /\ accesses'[a] = accesses[a] /\ services'[s] = services[s]
                    /\ \/ netpols'[k] = netpols[k]
                       \/ a \notin OwnerIn(netpols[k]) \cup OwnerIn(netpols'[k])
                    /\ Awaited(a, s, k) => a \in queue
  OBVIOUS
<1>1. a \notin queue' /\ a \notin accEvents' /\ a \notin npEvents'[k] /\ s \notin svcEvents'
  BY DEF Awaited
<1>2. accesses'[a] = accesses[a] /\ a \notin accEvents /\ services'[s] = services[s]
      /\ a \notin npEvents[k]
  BY <1>1 DEF Noticed
<1>3. accCache[a] # Absent
  BY <1>2 DEF CachesCurrent
<1>4. s \notin svcEvents
  BY <1>1, <1>3 DEF Noticed
<1> QED
  BY <1>1, <1>2, <1>4 DEF PoliciesNoted, Awaited

\* The first states: nothing is under way.
LEMMA InitKnown ==
  ASSUME ClusterInit
  PROVE  PoliciesKnown
BY DEF ClusterInit, PoliciesKnown
=============================================================================
