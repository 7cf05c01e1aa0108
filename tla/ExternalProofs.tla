---------------------------- MODULE ExternalProofs ----------------------------
(***************************************************************************)
(* Theorems about the ExternalAccess and ClusterExternalAccess             *)
(* controllers, for any number of kinds, objects, services and CIDRs and   *)
(* any names and bounds.                                                   *)
(*                                                                         *)
(* One case analysis says how a step changes what a worker holds           *)
(* (JobsMove), one which policy it changes (PoliciesChange), one what      *)
(* becomes of access objects (NextMoves).  The invariants are then proved  *)
(* worker by worker, or policy by policy, from these three.                *)
(***************************************************************************)
EXTENDS ExternalProperties, ReconcilingProofs

-----------------------------------------------------------------------------
(* Typing *)

\* What a worker of kind w holds at each place.
Holds(w, j) ==
  /\ j \in Jobs
  /\ j.pc # Idle => /\ j.req \in Accesses /\ KindOf[j.req] = w
                    /\ j.obj \in AccessObjects
  /\ j.pc \in {"targets", "undeploy"} => j.source \in Sources
  /\ j.pc = "undeploy" => j.undeploy \in NetpolKeys

JobsHeld ==
  /\ job \in [Kinds -> Jobs] /\ \A w \in Kinds : Holds(w, job[w])
  /\ statusNeedUpdate \in [Kinds -> BOOLEAN]

TypeInv == ClusterTypeOK /\ JobsHeld

\* A worker at rest holds nothing.
LEMMA RestType ==
  ASSUME NEW w
  PROVE  Holds(w, NoJob)
BY DEF Holds, NoJob, Jobs, PCs, Idle, Maybe

\* A worker takes a step of its own.
LEMMA BecomeType ==
  ASSUME JobsHeld, NEW w \in Kinds, NEW j, Holds(w, j), Become(w, j),
         statusNeedUpdate' \in [Kinds -> BOOLEAN]
  PROVE  /\ JobsHeld' /\ job'[w] = j
         /\ \A v \in Kinds \ {w} : job'[v] = job[v]
<1>1. job' \in [Kinds -> Jobs] /\ job'[w] = j /\ \A v \in Kinds \ {w} : job'[v] = job[v]
  BY DEF JobsHeld, Become, Holds
<1>2. \A v \in Kinds : Holds(v, job'[v])
  BY <1>1 DEF JobsHeld
<1>3. JobsHeld'
  BY <1>1, <1>2 DEF JobsHeld, Holds
<1> QED
  BY <1>1, <1>3

\* The marks on the status.
LEMMA MarksType ==
  ASSUME statusNeedUpdate \in [Kinds -> BOOLEAN], NEW w \in Kinds, NEW o, NEW p,
         \/ Marks(w, o, p) \/ UNCHANGED statusNeedUpdate
         \/ Marked(w, TRUE) \/ Marked(w, FALSE)
  PROVE  statusNeedUpdate' \in [Kinds -> BOOLEAN]
<1>1. (statusNeedUpdate[w] \/ o.conds # p.conds) \in BOOLEAN
  OBVIOUS
<1> QED
  BY <1>1 DEF Marks, Marked

\* The targets of a list stay targets.
LEMMA CidrsType ==
  ASSUME NEW T, T \subseteq Targets, NEW annotated
  PROVE  FinalCidrs(T, annotated) \subseteq Targets
<1>1. Targets = WrittenTargets
  BY ExternalAssumption
<1>2. \A c \in WrittenTargets : FromAnnotation(c) \in WrittenTargets
  BY DEF FromAnnotation, WrittenTargets, Forms
<1> QED
  BY <1>1, <1>2 DEF FinalCidrs

\* The policy of a source and a CIDR.
LEMMA PolicyType ==
  ASSUME NEW o \in AccessObjects, NEW a \in Accesses, NEW src \in Sources, NEW c \in Targets
  PROVE  /\ PolicyKey(a, src.svc, src.direction, c) \in NetpolKeys
         /\ Policy(o, a, src, c) \in NetpolObjects
<1>1. src.svc \in Services /\ src.pods \in Pods /\ src.ports \in SUBSET ServicePorts
      /\ src.direction \in Directions /\ o.uid \in Nat
  BY DEF Sources, AccessObjects
<1>2. PolicyKey(a, src.svc, src.direction, c) \in NetpolKeys
  <2>1. [access |-> a, self |-> src.svc, peer |-> c,
         suffix |-> DirectionSuffix(src.direction), mirror |-> FALSE] \in NameParts
    BY <1>1, SuffixType DEF NameParts
  <2>2. NsOf[src.svc] \in Namespaces /\ NameOf \in [NameParts -> NetpolNames]
    BY <1>1, ClusterAssumption
  <2> QED
    BY <2>1, <2>2 DEF PolicyKey, NetpolKeys
<1>3. DefineExternalAccessNetworkPolicyCIDR(src.pods, c, src.ports, src.direction)
        \in NetpolSpecs
  BY <1>1, CidrNetpolType
<1> QED
  BY <1>1, <1>2, <1>3 DEF Policy, NetpolObjects

-----------------------------------------------------------------------------
(* How a worker's step changes what it holds *)

\* Of the copy it changes conditions only.
SameCopy(i, j) ==
  /\ j.req = i.req /\ j.obj \in AccessObjects
  /\ j.obj.spec = i.obj.spec /\ j.obj.uid = i.obj.uid /\ j.obj.created = i.obj.created
  /\ j.obj.deleting = i.obj.deleting /\ j.obj.expiresAt = i.obj.expiresAt

\* It begins with a copy from the cache.
Starts(w, j) ==
  /\ j.req \in Accesses /\ KindOf[j.req] = w
  /\ accCache[j.req] # Absent /\ j.obj = Dated(accCache[j.req])
  /\ j.pc \in {"expired", "list"} /\ j.owned = {}
  /\ j.pc = "expired" => IsExpired(accCache[j.req])

\* It lists policies of the cache, for labels with its name.
Owns(i, j) ==
  /\ i.pc = "list" /\ j.pc = "cleanup"
  /\ \A o \in j.owned : /\ npCache[o.key] # Absent
                        /\ \E l \in LabelsFor(j.req, npCache[o.key]) : o.svc = l.svc

Sweeps(i, j) == i.pc = "cleanup" /\ j.pc = "cleanup"

Lists(w, i, j) ==
  /\ i.pc = "cleanup" /\ j.pc = "services"
  /\ i.obj.spec.selector # BadSelector
  /\ \A l \in j.listed : /\ InScope(i.req, l.svc)
                         /\ svcCache[l.svc] # Absent
                         /\ svcCache[l.svc].label \in i.obj.spec.selector
                         /\ l.version = Read(w, svcCache[l.svc])

\* A listed service is passed over, or its CIDRs are next.
Enters(i, j) ==
  /\ i.pc = "services" /\ j.pc \in {"services", "targets"}
  /\ j.listed \subseteq i.listed
  /\ j.pc = "targets" =>
       \E l \in i.listed :
         /\ IsSource(l, i.obj.spec)
         /\ j.targets = FinalCidrs(TargetsOf(l.version, i.obj.spec),
                                   l.version.targets # NoAnnotation)
         /\ j.source.svc = l.svc
         /\ j.source.direction = ToLower(DirectionOf(l.version, i.obj.spec))
         /\ j.source.pods = svcCache[l.svc].pods /\ j.source.ports = svcCache[l.svc].ports

\* A policy is deployed, or the one of the last step deleted again.
Handles(i, j) ==
  /\ i.pc \in {"targets", "undeploy"} /\ j.pc \in {"services", "targets", "undeploy"}
  /\ j.targets \subseteq i.targets /\ j.listed = i.listed
  /\ j.pc \in {"targets", "undeploy"} => j.source = i.source
  /\ j.pc = "undeploy" =>
       /\ i.obj.deleting
       /\ \E c \in i.targets :
            j.undeploy = PolicyKey(i.req, i.source.svc, i.source.direction, c)

Works(w, i, j) ==
  /\ i.pc # Idle /\ SameCopy(i, j)
  /\ Owns(i, j) \/ j.owned \subseteq i.owned
  /\ Owns(i, j) \/ Sweeps(i, j) \/ Lists(w, i, j) \/ Enters(i, j) \/ Handles(i, j)

\* A worker's next state.
JobMove(w, i, j) == j = i \/ j = NoJob \/ Starts(w, j) \/ Works(w, i, j)

\* Where a CIDR ends, the next one or the next service begins.
LEMMA NextTargetType ==
  ASSUME NEW i \in Jobs
  PROVE  \E j \in Jobs :
           /\ j = NextTarget(i)
           /\ j.pc \in {"services", "targets"}
           /\ j.req = i.req /\ j.obj = i.obj /\ j.owned = i.owned /\ j.listed = i.listed
           /\ j.targets = i.targets /\ j.matched = i.matched /\ j.deployed = i.deployed
           /\ j.pc = "targets" => j.source = i.source
<1>1. CASE i.targets = {}
  <2>1. PICK j : j = [i EXCEPT !.pc = "services", !.source = Absent]
    OBVIOUS
  <2>2. j \in Jobs /\ j.pc = "services"
    BY <2>1 DEF Jobs, PCs, Maybe
  <2>3. /\ j.req = i.req /\ j.obj = i.obj /\ j.owned = i.owned /\ j.listed = i.listed
        /\ j.targets = i.targets /\ j.matched = i.matched /\ j.deployed = i.deployed
    BY <2>1 DEF Jobs
  <2> QED
    BY <1>1, <2>1, <2>2, <2>3 DEF NextTarget
<1>2. CASE i.targets # {}
  <2>1. PICK j : j = [i EXCEPT !.pc = "targets"]
    OBVIOUS
  <2>2. j \in Jobs /\ j.pc = "targets"
    BY <2>1 DEF Jobs, PCs
  <2>3. /\ j.req = i.req /\ j.obj = i.obj /\ j.owned = i.owned /\ j.listed = i.listed
        /\ j.targets = i.targets /\ j.source = i.source
        /\ j.matched = i.matched /\ j.deployed = i.deployed
    BY <2>1 DEF Jobs
  <2> QED
    BY <1>2, <2>1, <2>2, <2>3 DEF NextTarget
<1> QED
  BY <1>1, <1>2

\* A worker's step takes it on, to something it can hold.
Proceeds(w) ==
  \E j : /\ Become(w, j) /\ Holds(w, j) /\ (j = NoJob \/ Works(w, job[w], j))
         /\ statusNeedUpdate' \in [Kinds -> BOOLEAN]

\* It begins a reconcile.
Begun(w) ==
  \E j : /\ Become(w, j) /\ Holds(w, j) /\ Starts(w, j)
         /\ statusNeedUpdate' \in [Kinds -> BOOLEAN]

\* Where it ends.
LEMMA EndProceeds ==
  ASSUME TypeInv, NEW w \in Kinds, DeleteExpired(w) \/ ListFails(w) \/ FinishReconcile(w)
  PROVE  Proceeds(w)
<1>1. statusNeedUpdate' \in [Kinds -> BOOLEAN]
  BY MarksType DEF TypeInv, JobsHeld, DeleteExpired, ListFails, FinishReconcile, UpdateStatus
<1>2. Become(w, NoJob)
  BY DEF DeleteExpired, ListFails, FinishReconcile
<1> QED
  BY <1>1, <1>2, RestType DEF Proceeds

\* The list of policies.
LEMMA OwnedProceeds ==
  ASSUME TypeInv, NEW w \in Kinds, ListOwned(w)
  PROVE  Proceeds(w)
<1> DEFINE i == job[w]
           list == UNION {{[key |-> k, svc |-> l.svc] : l \in LabelsFor(i.req, npCache[k])} :
                            k \in {x \in NetpolKeys : npCache[x] # Absent}}
<1>1. i \in Jobs /\ Holds(w, i) /\ i.pc = "list" /\ i.obj \in AccessObjects
  BY DEF TypeInv, JobsHeld, Holds, ListOwned, Idle
<1>2. list \subseteq [key : NetpolKeys, svc : Services]
  <2>1. ASSUME NEW k \in NetpolKeys, npCache[k] # Absent,
               NEW l \in LabelsFor(i.req, npCache[k])
        PROVE  l.svc \in Services
    <3>1. npCache[k] \in NetpolObjects
      BY <2>1, MaybeIn DEF TypeInv, ClusterTypeOK, NetpolsTypeOK
    <3> QED
      BY <3>1 DEF LabelsFor, LabelsOf, NetpolObjects, OwnerLabels
  <2> QED
    BY <2>1
<1>3. \A o \in list : /\ npCache[o.key] # Absent
                      /\ \E l \in LabelsFor(i.req, npCache[o.key]) : o.svc = l.svc
  OBVIOUS
<1>4. Become(w, [i EXCEPT !.pc = "cleanup", !.owned = list])
  BY DEF ListOwned
<1> HIDE DEF list
<1>5. PICK j : j = [i EXCEPT !.pc = "cleanup", !.owned = list]
  OBVIOUS
<1>6. j \in Jobs /\ j.pc = "cleanup" /\ j.owned = list /\ j.req = i.req /\ j.obj = i.obj
  BY <1>1, <1>2, <1>5 DEF Jobs, PCs
<1>7. Holds(w, j) /\ Works(w, i, j)
  BY <1>1, <1>3, <1>6 DEF Holds, Works, SameCopy, Owns, Idle
<1>8. statusNeedUpdate' \in [Kinds -> BOOLEAN]
  BY DEF ListOwned, TypeInv, JobsHeld
<1> QED
  BY <1>4, <1>5, <1>7, <1>8 DEF Proceeds

\* A policy of the cleanup: the conditions of the copy change at most.
LEMMA CleanupProceeds ==
  ASSUME TypeInv, NEW w \in Kinds, CleanupOne(w)
  PROVE  Proceeds(w)
<1> DEFINE i == job[w]
<1>1. i \in Jobs /\ Holds(w, i) /\ i.pc = "cleanup" /\ i.obj \in AccessObjects
  BY DEF TypeInv, JobsHeld, Holds, CleanupOne, Idle
<1>2. PICK o \in i.owned, p \in AccessObjects :
        /\ Advance(w, [i EXCEPT !.owned = @ \ {o}, !.obj = p])
        /\ p.spec = i.obj.spec /\ p.uid = i.obj.uid /\ p.created = i.obj.created
        /\ p.deleting = i.obj.deleting /\ p.expiresAt = i.obj.expiresAt
  <2>1. PICK o \in i.owned :
          LET j       == [i EXCEPT !.owned = @ \ {o}]
              cleaned == [j EXCEPT !.obj = WithCond(@, "NetpolsGCReady", "True")]
              failed  == [j EXCEPT !.obj = WithCond(WithCond(@, "NetpolsGCNotReady", "False"),
                                                    "NetpolsGCReady", "True")]
          IN Advance(w, j) \/ Advance(w, cleaned) \/ Advance(w, failed)
    BY DEF CleanupOne
  <2>2. PICK q \in AccessObjects : q = WithCond(i.obj, "NetpolsGCNotReady", "False")
    BY <1>1, WithCondType, ConstantsType
  <2>3. /\ WithCond(i.obj, "NetpolsGCReady", "True") \in AccessObjects
        /\ WithCond(q, "NetpolsGCReady", "True") \in AccessObjects
    BY <1>1, WithCondType, ConstantsType
  <2>4. PICK p \in {i.obj, WithCond(i.obj, "NetpolsGCReady", "True"),
                    WithCond(q, "NetpolsGCReady", "True")} :
          Advance(w, [i EXCEPT !.owned = @ \ {o}, !.obj = p])
    BY <1>1, <2>1, <2>2 DEF Jobs
  <2>5. /\ q.spec = i.obj.spec /\ q.uid = i.obj.uid /\ q.created = i.obj.created
        /\ q.deleting = i.obj.deleting /\ q.expiresAt = i.obj.expiresAt
    BY <1>1, <2>2, WithCondKeeps
  <2>6. /\ p \in AccessObjects
        /\ p.spec = i.obj.spec /\ p.uid = i.obj.uid /\ p.created = i.obj.created
        /\ p.deleting = i.obj.deleting /\ p.expiresAt = i.obj.expiresAt
    BY <1>1, <2>3, <2>4, <2>5, WithCondKeeps
  <2> QED
    BY <2>4, <2>6
<1>3. PICK j : j = [i EXCEPT !.owned = @ \ {o}, !.obj = p]
  OBVIOUS
<1>4. j \in Jobs /\ j.pc = i.pc /\ j.req = i.req /\ j.obj = p /\ j.owned \subseteq i.owned
  BY <1>1, <1>3 DEF Jobs, Maybe
<1>5. Holds(w, j) /\ Works(w, i, j)
  BY <1>1, <1>2, <1>4 DEF Holds, Works, SameCopy, Sweeps, Idle
<1>6. Become(w, j) /\ statusNeedUpdate' \in [Kinds -> BOOLEAN]
  BY <1>2, <1>3, MarksType DEF Advance, TypeInv, JobsHeld
<1> QED
  BY <1>5, <1>6 DEF Proceeds

\* The list of services.
LEMMA ListProceeds ==
  ASSUME TypeInv, NEW w \in Kinds, ListServices(w)
  PROVE  Proceeds(w)
<1> DEFINE i == job[w]
           found == {[svc |-> s, version |-> Read(w, svcCache[s])] :
                       s \in {t \in Services : /\ InScope(i.req, t)
                                               /\ svcCache[t] # Absent
                                               /\ svcCache[t].label \in i.obj.spec.selector}}
<1>1. i \in Jobs /\ Holds(w, i) /\ i.pc = "cleanup" /\ i.obj \in AccessObjects
  BY DEF TypeInv, JobsHeld, Holds, ListServices, Idle
<1>2. found \subseteq [svc : Services, version : ServiceVersions]
  <2>1. \A v \in ServiceVersions : Read(w, v) \in ServiceVersions
    BY DEF Read, ServiceVersions
  <2>2. \A s \in Services : svcCache[s] # Absent => svcCache[s] \in ServiceVersions
    BY DEF TypeInv, ClusterTypeOK, ServicesTypeOK, Maybe
  <2> QED
    BY <2>1, <2>2
<1>3. \A l \in found : /\ InScope(i.req, l.svc)
                       /\ svcCache[l.svc] # Absent
                       /\ svcCache[l.svc].label \in i.obj.spec.selector
                       /\ l.version = Read(w, svcCache[l.svc])
  OBVIOUS
<1>4. /\ Become(w, [i EXCEPT !.pc = "services", !.listed = found])
      /\ i.obj.spec.selector # BadSelector
  BY DEF ListServices
<1> HIDE DEF found
<1>5. PICK j : j = [i EXCEPT !.pc = "services", !.listed = found]
  OBVIOUS
<1>6. /\ j \in Jobs /\ j.pc = "services" /\ j.listed = found
      /\ j.req = i.req /\ j.obj = i.obj /\ j.owned = i.owned
  BY <1>1, <1>2, <1>5 DEF Jobs, PCs
<1>7. Holds(w, j) /\ Works(w, i, j)
  BY <1>1, <1>3, <1>4, <1>6 DEF Holds, Works, SameCopy, Lists, Idle
<1>8. statusNeedUpdate' \in [Kinds -> BOOLEAN]
  BY DEF ListServices, TypeInv, JobsHeld
<1> QED
  BY <1>4, <1>5, <1>7, <1>8 DEF Proceeds

\* A listed service.
LEMMA ServiceProceeds ==
  ASSUME TypeInv, NEW w \in Kinds, SkipService(w) \/ BeginService(w)
  PROVE  Proceeds(w)
<1> DEFINE i == job[w]
<1>1. i \in Jobs /\ Holds(w, i) /\ i.pc = "services" /\ i.obj \in AccessObjects
      /\ statusNeedUpdate' \in [Kinds -> BOOLEAN]
  BY DEF TypeInv, JobsHeld, Holds, SkipService, BeginService, Idle
<1>2. CASE SkipService(w)
  <2>1. PICK l \in i.listed :
          Become(w, [i EXCEPT !.listed = @ \ {l}, !.matched = @ \cup {l.svc}])
    BY <1>2 DEF SkipService
  <2>2. l.svc \in Services
    BY <1>1, <2>1 DEF Jobs
  <2>3. PICK j : j = [i EXCEPT !.listed = @ \ {l}, !.matched = @ \cup {l.svc}]
    OBVIOUS
  <2>4. /\ j \in Jobs /\ j.pc = "services" /\ j.listed \subseteq i.listed
        /\ j.req = i.req /\ j.obj = i.obj /\ j.owned = i.owned
    BY <1>1, <2>2, <2>3 DEF Jobs
  <2>5. Holds(w, j) /\ Works(w, i, j)
    BY <1>1, <2>4 DEF Holds, Works, SameCopy, Enters, Idle
  <2> QED
    BY <1>1, <2>1, <2>3, <2>5 DEF Proceeds
<1>3. CASE BeginService(w)
  <2> DEFINE src(l) == [svc |-> l.svc, direction |-> ToLower(DirectionOf(l.version, i.obj.spec)),
                        pods |-> svcCache[l.svc].pods, ports |-> svcCache[l.svc].ports]
             cidrs(l) == FinalCidrs(TargetsOf(l.version, i.obj.spec),
                                    l.version.targets # NoAnnotation)
  <2>1. PICK l \in i.listed :
          /\ IsSource(l, i.obj.spec)
          /\ Become(w, NextTarget([i EXCEPT !.listed = @ \ {l}, !.matched = @ \cup {l.svc},
                                            !.targets = cidrs(l), !.source = src(l)]))
    BY <1>3 DEF BeginService
  <2>2. l.svc \in Services /\ l.version \in ServiceVersions /\ i.obj.spec \in AccessSpecs
    BY <1>1, <2>1 DEF Jobs, AccessObjects
  <2>3. cidrs(l) \subseteq Targets
    <3>1. TargetsOf(l.version, i.obj.spec) \subseteq Targets
      BY <2>2 DEF TargetsOf, ServiceVersions, AccessSpecs
    <3> QED
      BY <3>1, CidrsType
  <2>4. src(l) \in Sources
    <3>1. svcCache[l.svc] \in ServiceVersions /\ svcCache[l.svc].pods # NoPods
      BY <2>1, <2>2 DEF IsSource, HasDetails, TypeInv, ClusterTypeOK, ServicesTypeOK, Maybe
    <3>2. ToLower(DirectionOf(l.version, i.obj.spec)) \in Directions
      BY <2>1 DEF IsSource, IsValidDirection
    <3> QED
      BY <2>2, <3>1, <3>2 DEF Sources, ServiceVersions
  <2>5. PICK x \in Sources, T \in SUBSET Targets : x = src(l) /\ T = cidrs(l)
    BY <2>3, <2>4
  <2>6. PICK m : m = [i EXCEPT !.listed = @ \ {l}, !.matched = @ \cup {l.svc},
                               !.targets = T, !.source = x]
    OBVIOUS
  <2>7. /\ m \in Jobs /\ m.listed \subseteq i.listed /\ m.targets = T /\ m.source = x
        /\ m.req = i.req /\ m.obj = i.obj /\ m.owned = i.owned
    BY <1>1, <2>2, <2>6 DEF Jobs, Maybe
  <2>8. PICK j \in Jobs :
          /\ j = NextTarget(m) /\ j.pc \in {"services", "targets"}
          /\ j.req = m.req /\ j.obj = m.obj /\ j.owned = m.owned /\ j.listed = m.listed
          /\ j.targets = m.targets /\ (j.pc = "targets" => j.source = m.source)
    BY <2>7, NextTargetType
  <2>9. /\ x.svc = l.svc /\ x.direction = ToLower(DirectionOf(l.version, i.obj.spec))
        /\ x.pods = svcCache[l.svc].pods /\ x.ports = svcCache[l.svc].ports
    BY <2>5
  <2>10. Holds(w, j)
    BY <1>1, <2>7, <2>8 DEF Holds, Idle
  <2>11. Enters(i, j)
    BY <1>1, <2>1, <2>5, <2>7, <2>8, <2>9 DEF Enters
  <2>12. Works(w, i, j)
    BY <1>1, <2>7, <2>8, <2>11 DEF Works, SameCopy, Idle
  <2>13. Become(w, j)
    BY <2>1, <2>5, <2>6, <2>8
  <2> QED
    BY <1>1, <2>10, <2>12, <2>13 DEF Proceeds
<1> QED
  BY <1>2, <1>3

\* A CIDR: the policy is deployed, and is to be deleted again if the copy is being
\* deleted.
LEMMA DeployProceeds ==
  ASSUME TypeInv, NEW w \in Kinds, Deploy(w)
  PROVE  Proceeds(w)
<1> DEFINE i == job[w]
<1>1. i \in Jobs /\ Holds(w, i) /\ i.pc = "targets" /\ i.obj \in AccessObjects
      /\ i.req \in Accesses /\ i.source \in Sources
  BY DEF TypeInv, JobsHeld, Holds, Deploy, Idle
<1> DEFINE key(c) == PolicyKey(i.req, i.source.svc, i.source.direction, c)
           next(c, status) == [i EXCEPT !.targets = @ \ {c}, !.deployed = @ \cup {key(c)},
                                        !.obj = WithCond(@, "NetworkPolicyDeployReady", status)]
<1>2. PICK c \in i.targets, status \in {"True", "False"} :
        Advance(w, IF BeingDeleted(i.obj)
                   THEN [next(c, status) EXCEPT !.pc = "undeploy", !.undeploy = key(c)]
                   ELSE NextTarget(next(c, status)))
  BY DEF Deploy
<1>3. PICK p \in AccessObjects :
        /\ p = WithCond(i.obj, "NetworkPolicyDeployReady", status)
        /\ p.spec = i.obj.spec /\ p.uid = i.obj.uid /\ p.created = i.obj.created
        /\ p.deleting = i.obj.deleting /\ p.expiresAt = i.obj.expiresAt
  <2>1. status \in Statuses /\ "NetworkPolicyDeployReady" \in CondTypes
    BY <1>2, ConstantsType
  <2> QED
    BY <1>1, <2>1, CondSet
<1>4. PICK k \in NetpolKeys : k = key(c)
  BY <1>1, <1>2, PolicyType DEF Jobs
<1>5. PICK m : m = next(c, status)
  OBVIOUS
<1>6. m = [i EXCEPT !.targets = @ \ {c}, !.deployed = @ \cup {k}, !.obj = p]
  BY <1>1, <1>3, <1>4, <1>5 DEF Jobs
<1>7. /\ m \in Jobs /\ m.targets \subseteq i.targets /\ m.source = i.source
      /\ m.listed = i.listed /\ m.owned = i.owned /\ m.req = i.req /\ m.obj = p
  BY <1>1, <1>6 DEF Jobs, Maybe
<1>8. PICK j \in Jobs :
        /\ Advance(w, j)
        /\ j.pc \in {"services", "targets", "undeploy"}
        /\ j.req = m.req /\ j.obj = m.obj /\ j.owned = m.owned /\ j.listed = m.listed
        /\ j.targets = m.targets
        /\ j.pc \in {"targets", "undeploy"} => j.source = m.source
        /\ j.pc = "undeploy" => j.undeploy = k /\ i.obj.deleting
  <2>1. CASE ~i.obj.deleting
    <3>1. Advance(w, NextTarget(m))
      BY <1>2, <1>5, <2>1 DEF BeingDeleted
    <3> QED
      BY <1>7, <3>1, NextTargetType
  <2>2. CASE i.obj.deleting
    <3>1. PICK j : j = [m EXCEPT !.pc = "undeploy", !.undeploy = k]
      OBVIOUS
    <3>2. Advance(w, j)
      BY <1>2, <1>4, <1>5, <2>2, <3>1 DEF BeingDeleted
    <3>3. j \in Jobs /\ j.pc = "undeploy" /\ j.undeploy = k
      BY <1>7, <3>1 DEF Jobs, PCs, Maybe
    <3>4. /\ j.req = m.req /\ j.obj = m.obj /\ j.owned = m.owned /\ j.listed = m.listed
          /\ j.targets = m.targets /\ j.source = m.source
      BY <1>7, <3>1 DEF Jobs
    <3> QED
      BY <2>2, <3>2, <3>3, <3>4
  <2> QED
    BY <2>1, <2>2
<1>9. Holds(w, j)
  BY <1>1, <1>3, <1>7, <1>8 DEF Holds, Idle
<1>10. Handles(i, j)
  BY <1>1, <1>2, <1>4, <1>7, <1>8 DEF Handles
<1>11. Works(w, i, j)
  BY <1>1, <1>3, <1>7, <1>8, <1>10 DEF Works, SameCopy, Idle
<1>12. Become(w, j) /\ statusNeedUpdate' \in [Kinds -> BOOLEAN]
  BY <1>8, MarksType DEF Advance, TypeInv, JobsHeld
<1> QED
  BY <1>9, <1>11, <1>12 DEF Proceeds

\* The deletion of what was just deployed.
LEMMA UndeployProceeds ==
  ASSUME TypeInv, NEW w \in Kinds, Undeploy(w)
  PROVE  Proceeds(w)
<1> DEFINE i == job[w]
<1>1. i \in Jobs /\ Holds(w, i) /\ i.pc = "undeploy" /\ i.obj \in AccessObjects
      /\ i.source \in Sources
  BY DEF TypeInv, JobsHeld, Holds, Undeploy, Idle
<1>2. PICK m : m = [i EXCEPT !.undeploy = Absent]
  OBVIOUS
<1>3. /\ m \in Jobs /\ m.targets = i.targets /\ m.source = i.source
      /\ m.listed = i.listed /\ m.owned = i.owned /\ m.req = i.req /\ m.obj = i.obj
  BY <1>1, <1>2 DEF Jobs, Maybe
<1>4. PICK n \in Jobs :
        /\ n = NextTarget(m) /\ n.pc \in {"services", "targets"}
        /\ n.req = m.req /\ n.obj = m.obj /\ n.owned = m.owned /\ n.listed = m.listed
        /\ n.targets = m.targets /\ (n.pc = "targets" => n.source = m.source)
  BY <1>3, NextTargetType
<1>5. PICK p \in AccessObjects :
        /\ Advance(w, [n EXCEPT !.obj = p])
        /\ p.spec = i.obj.spec /\ p.uid = i.obj.uid /\ p.created = i.obj.created
        /\ p.deleting = i.obj.deleting /\ p.expiresAt = i.obj.expiresAt
  <2>1. CASE Advance(w, NextTarget([i EXCEPT !.undeploy = Absent]))
    <3>1. n = [n EXCEPT !.obj = i.obj]
      BY <1>3, <1>4 DEF Jobs
    <3>2. Advance(w, n)
      BY <1>2, <1>4, <2>1
    <3>3. Advance(w, [n EXCEPT !.obj = i.obj])
      BY <3>1, <3>2
    <3> QED
      BY <1>1, <3>3
  <2>2. ASSUME NEW status \in {"True", "False"},
               Advance(w, [n EXCEPT !.obj = WithCond(@, "NetworkPolicyDeployReady", status)])
        PROVE  \E p \in AccessObjects :
                 /\ Advance(w, [n EXCEPT !.obj = p])
                 /\ p.spec = i.obj.spec /\ p.uid = i.obj.uid /\ p.created = i.obj.created
                 /\ p.deleting = i.obj.deleting /\ p.expiresAt = i.obj.expiresAt
    <3>1. PICK p \in AccessObjects :
            /\ p = WithCond(n.obj, "NetworkPolicyDeployReady", status)
            /\ p.spec = i.obj.spec /\ p.uid = i.obj.uid /\ p.created = i.obj.created
            /\ p.deleting = i.obj.deleting /\ p.expiresAt = i.obj.expiresAt
      <4>1. status \in Statuses /\ "NetworkPolicyDeployReady" \in CondTypes
        BY ConstantsType
      <4>2. n.obj = i.obj
        BY <1>3, <1>4
      <4> QED
        BY <1>1, <4>1, <4>2, CondSet
    <3>2. Advance(w, [n EXCEPT !.obj = p])
      BY <2>2, <3>1
    <3> QED
      BY <3>1, <3>2
  <2>3. \/ Advance(w, NextTarget([i EXCEPT !.undeploy = Absent]))
        \/ \E status \in {"True", "False"} :
             Advance(w, [n EXCEPT !.obj = WithCond(@, "NetworkPolicyDeployReady", status)])
    BY <1>2, <1>4 DEF Undeploy
  <2> QED
    BY <2>1, <2>2, <2>3
<1>6. PICK j : j = [n EXCEPT !.obj = p]
  OBVIOUS
<1>7. /\ j \in Jobs /\ j.pc = n.pc /\ j.targets = n.targets /\ j.source = n.source
      /\ j.listed = n.listed /\ j.owned = n.owned /\ j.req = n.req /\ j.obj = p
  BY <1>4, <1>6 DEF Jobs, Maybe
<1>8. Holds(w, j)
  BY <1>1, <1>3, <1>4, <1>7 DEF Holds, Idle
<1>9. Works(w, i, j)
  BY <1>1, <1>3, <1>4, <1>5, <1>7 DEF Works, SameCopy, Handles, Idle
<1>10. Become(w, j) /\ statusNeedUpdate' \in [Kinds -> BOOLEAN]
  BY <1>5, <1>6, MarksType DEF Advance, TypeInv, JobsHeld
<1> QED
  BY <1>8, <1>9, <1>10 DEF Proceeds

\* All of a worker's steps.
LEMMA WorkerProceeds ==
  ASSUME TypeInv, NEW w \in Kinds, WorkerStep(w)
  PROVE  Proceeds(w)
BY EndProceeds, OwnedProceeds, CleanupProceeds, ListProceeds, ServiceProceeds, DeployProceeds,
   UndeployProceeds DEF WorkerStep

\* So does the start of a reconcile.
LEMMA StartProceeds ==
  ASSUME TypeInv, NEW a \in Accesses, ReconcileStart(a)
  PROVE  KindOf[a] \in Kinds /\ Begun(KindOf[a])
<1> DEFINE w == KindOf[a]
<1>1. w \in Kinds
  BY ExternalAssumption
<1>2. PICK o \in AccessObjects : o = Dated(accCache[a])
  <2>1. accCache[a] \in AccessObjects
    BY MaybeIn DEF ReconcileStart, TypeInv, ClusterTypeOK, AccessesTypeOK
  <2> QED
    BY <2>1, DatedType
<1>3. PICK i : i = [NoJob EXCEPT !.req = a, !.obj = o]
  OBVIOUS
<1>4. i \in Jobs /\ i.req = a /\ i.obj = o /\ i.owned = {}
  <2>1. NoJob \in Jobs
    BY RestType DEF Holds
  <2> QED
    BY <1>2, <1>3, <2>1 DEF Jobs, Maybe, NoJob
<1>5. PICK p \in {"expired", "list"} :
        /\ Become(w, [i EXCEPT !.pc = p])
        /\ p = "expired" => IsExpired(accCache[a])
  BY <1>2, <1>3 DEF ReconcileStart
<1>6. PICK j : j = [i EXCEPT !.pc = p]
  OBVIOUS
<1>7. j \in Jobs /\ j.req = a /\ j.obj = o /\ j.owned = {} /\ j.pc = p
  BY <1>4, <1>5, <1>6 DEF Jobs, PCs
<1>8. Holds(w, j) /\ Starts(w, j)
  BY <1>1, <1>2, <1>5, <1>7 DEF Holds, Starts, ReconcileStart
<1>9. statusNeedUpdate' \in [Kinds -> BOOLEAN]
  BY <1>1, MarksType DEF ReconcileStart, TypeInv, JobsHeld
<1> QED
  BY <1>1, <1>5, <1>6, <1>8, <1>9 DEF Begun

\* Every step moves every worker so.
LEMMA JobsMove ==
  ASSUME TypeInv, [Next]_vars
  PROVE  JobsHeld' /\ \A w \in Kinds : JobMove(w, job[w], job'[w])
<1>1. ASSUME NEW w \in Kinds, Proceeds(w) \/ Begun(w)
      PROVE  JobsHeld' /\ \A v \in Kinds : JobMove(v, job[v], job'[v])
  BY <1>1, BecomeType DEF Proceeds, Begun, TypeInv, JobMove
<1>2. CASE UNCHANGED ctlVars
  BY <1>2 DEF ctlVars, TypeInv, JobsHeld, JobMove
<1>3. CASE Restart
  <2>1. \A w \in Kinds : job'[w] = NoJob
    BY <1>3 DEF Restart, AllIdle
  <2>2. JobsHeld'
    BY <1>3, RestType DEF Restart, AllIdle, NoMarks, JobsHeld, Holds
  <2> QED
    BY <2>1, <2>2 DEF JobMove
<1> QED
  BY <1>1, <1>2, <1>3, WorkerProceeds, StartProceeds
     DEF Next, Reconcile, ReconcileGone, vars

-----------------------------------------------------------------------------
(* How a worker's step changes the cluster *)

\* The cleanup removes the policy under k.
Swept(w, k) ==
  /\ \E o \in job[w].owned : o.key = k /\ IsOrphan(o)
  /\ netpols[k] # Absent /\ WriteNetpol(k, Absent)

\* deployResource stores n under k: the policy of a CIDR, with the labels of the other
\* kind if there is one already.
Stored(w, k, n) ==
  /\ job[w].pc = "targets"
  /\ \E c \in job[w].targets :
       LET i == job[w]
           m == Policy(i.obj, i.req, i.source, c)
       IN /\ k = PolicyKey(i.req, i.source.svc, i.source.direction, c)
          /\ Valid(m)
          /\ n = m \/ (npCache[k] # Absent /\ n = Merged(m, npCache[k]))
  /\ WriteNetpol(k, n)

\* deployResource removes the policy under k again.
Undone(w, k) ==
  /\ job[w].pc = "undeploy" /\ k = job[w].undeploy
  /\ netpols[k] # Absent /\ WriteNetpol(k, Absent)

PolicyStep(w, k) == Swept(w, k) \/ Undone(w, k) \/ \E n : Stored(w, k, n)

\* The worker deletes its object, or writes its status.
ObjectStep(w) ==
  /\ job[w].pc # Idle /\ accesses[job[w].req] # Absent
  /\ UNCHANGED specHist
  /\ \/ job[w].pc = "expired" /\ WriteAccess(job[w].req, Absent)
     \/ /\ job[w].req \notin touched
        /\ WriteAccess(job[w].req,
                       WithStatus(job[w].req, WithCond(Refreshed(job[w]), "Ready", "True")))

\* Of the cluster, a worker's step changes one policy or one object at most, and the
\* queue and the timers.
WorkerChanges(w) ==
  /\ UNCHANGED <<svcVars, now>> /\ (Fault \/ NoFault)
  /\ \/ UNCHANGED <<accVars, npVars>>
     \/ UNCHANGED npVars /\ ObjectStep(w)
     \/ UNCHANGED <<accVars, wakeVars>> /\ \E k \in NetpolKeys : PolicyStep(w, k)
  /\ \/ UNCHANGED <<queue, timers>>
     \/ job[w].pc # Idle /\ queue' = queue \cup {job[w].req} /\ UNCHANGED timers
     \/ job[w].pc # Idle /\ UNCHANGED queue /\ Requeue(job[w].req, job[w].obj)

\* The deployment of one CIDR.
LEMMA DeployChanges ==
  ASSUME TypeInv, NEW w \in Kinds, Deploy(w)
  PROVE  WorkerChanges(w)
<1> DEFINE i == job[w]
<1>1. /\ i.pc = "targets" /\ i.obj \in AccessObjects /\ i.req \in Accesses
      /\ i.source \in Sources /\ i.targets \subseteq Targets
  BY DEF TypeInv, JobsHeld, Holds, Jobs, Deploy, Idle
<1>2. PICK c \in i.targets, status \in {"True", "False"} :
        DeployResource(PolicyKey(i.req, i.source.svc, i.source.direction, c),
                       Policy(i.obj, i.req, i.source, c), status)
  BY DEF Deploy
<1>3. PICK k \in NetpolKeys : k = PolicyKey(i.req, i.source.svc, i.source.direction, c)
  BY <1>1, PolicyType
<1>4. PICK m : m = Policy(i.obj, i.req, i.source, c)
  OBVIOUS
<1>5. DeployResource(k, m, status)
  BY <1>2, <1>3, <1>4
<1>6. /\ Fault \/ NoFault
      /\ \/ UNCHANGED npVars
         \/ Valid(m) /\ WriteNetpol(k, m)
         \/ Valid(m) /\ npCache[k] # Absent /\ WriteNetpol(k, Merged(m, npCache[k]))
  BY <1>5 DEF DeployResource, CreateResource, ReconcileResource
<1>7. UNCHANGED npVars \/ \E n : Stored(w, k, n)
  BY <1>1, <1>3, <1>4, <1>6 DEF Stored
<1>8. UNCHANGED <<wakeVars, svcVars, accVars>>
  BY DEF Deploy
<1> QED
  BY <1>6, <1>7, <1>8 DEF WorkerChanges, PolicyStep, wakeVars

\* All of its steps.
LEMMA WorkerChange ==
  ASSUME TypeInv, NEW w \in Kinds, WorkerStep(w)
  PROVE  WorkerChanges(w)
<1>1. CASE DeleteExpired(w)
  <2>1. job[w].pc # Idle
    BY <1>1 DEF DeleteExpired, Idle
  <2>2. UNCHANGED accVars \/ ObjectStep(w)
    BY <1>1, <2>1 DEF DeleteExpired, ObjectStep
  <2> QED
    BY <1>1, <2>1, <2>2 DEF DeleteExpired, WorkerChanges
<1>2. CASE CleanupOne(w)
  <2>1. \A o \in job[w].owned : o.key \in NetpolKeys
    BY DEF TypeInv, JobsHeld, Jobs
  <2>2. UNCHANGED npVars \/ \E o \in job[w].owned : Swept(w, o.key)
    BY <1>2 DEF CleanupOne, Swept
  <2>3. (Fault \/ NoFault) /\ UNCHANGED <<wakeVars, svcVars, accVars>>
    BY <1>2 DEF CleanupOne
  <2> QED
    BY <2>1, <2>2, <2>3 DEF WorkerChanges, PolicyStep, wakeVars
<1>3. CASE ListFails(w)
  BY <1>3 DEF ListFails, WorkerChanges, Idle, NoFault
<1>4. CASE ListOwned(w) \/ ListServices(w) \/ SkipService(w) \/ BeginService(w)
  <2>1. UNCHANGED clusterVars
    BY <1>4 DEF ListOwned, ListServices, SkipService, BeginService
  <2> QED
    BY <2>1 DEF clusterVars, WorkerChanges, wakeVars, NoFault
<1>5. CASE Undeploy(w)
  <2>1. PICK k : k = job[w].undeploy
    OBVIOUS
  <2>2. k \in NetpolKeys /\ job[w].pc = "undeploy"
    BY <1>5, <2>1 DEF Undeploy, TypeInv, JobsHeld, Holds
  <2>3. /\ Fault \/ NoFault
        /\ UNCHANGED npVars \/ Undone(w, k)
    BY <1>5, <2>1, <2>2 DEF Undeploy, DeleteResource, Undone
  <2>4. UNCHANGED <<wakeVars, svcVars, accVars>>
    BY <1>5 DEF Undeploy
  <2> QED
    BY <2>2, <2>3, <2>4 DEF WorkerChanges, PolicyStep, wakeVars
<1>6. CASE FinishReconcile(w)
  <2>1. job[w].pc # Idle
    BY <1>6 DEF FinishReconcile, Idle
  <2>2. /\ Fault \/ NoFault
        /\ UNCHANGED accVars \/ ObjectStep(w)
    BY <1>6, <2>1 DEF FinishReconcile, UpdateStatus, ObjectStep
  <2> QED
    BY <1>6, <2>1, <2>2 DEF FinishReconcile, WorkerChanges
<1> QED
  BY <1>1, <1>2, <1>3, <1>4, <1>5, <1>6, DeployChanges DEF WorkerStep

\* What updateStatus stores is an access object.
LEMMA ReadyType ==
  ASSUME TypeInv, NEW w \in Kinds, ObjectStep(w)
  PROVE  /\ job[w].req \in Accesses /\ AccessesMove /\ AccessesTypeOK'
<1> DEFINE i == job[w]
<1>1. i \in Jobs /\ i.req \in Accesses /\ i.obj \in AccessObjects /\ AccessesTypeOK
  BY DEF TypeInv, JobsHeld, Holds, ObjectStep, ClusterTypeOK
<1>2. PICK o : o = [Existing(i.obj) EXCEPT !.netpols = @ \cup i.deployed,
                                           !.services = @ \cup i.matched]
  OBVIOUS
<1>3. o \in AccessObjects
  <2>1. Existing(i.obj) \in AccessObjects
    BY <1>1 DEF Existing, AccessObjects
  <2> QED
    BY <1>1, <1>2, <2>1 DEF AccessObjects, Jobs
<1>4. WithCond(Refreshed(i), "Ready", "True") \in AccessObjects
  <2>1. Refreshed(i) = WithCond(WithCond(o, "NetpolsListReady", "True"),
                                "ServicesListReady", "True")
    BY <1>2 DEF Refreshed
  <2> QED
    BY <1>3, <2>1, WithCondType, ConstantsType
<1>5. WithStatus(i.req, WithCond(Refreshed(i), "Ready", "True")) \in AccessObjects
  <2>1. accesses[i.req] \in AccessObjects
    BY <1>1, MaybeIn DEF ObjectStep, AccessesTypeOK
  <2> QED
    BY <1>4, <2>1 DEF WithStatus, AccessObjects
<1>6. \/ WriteAccess(i.req, Absent)
      \/ WriteAccess(i.req, WithStatus(i.req, WithCond(Refreshed(i), "Ready", "True")))
  BY DEF ObjectStep
<1>7. UNCHANGED specHist /\ accesses[i.req] # Absent
  BY DEF ObjectStep
<1>8. AccessesTypeOK'
  BY <1>1, <1>5, <1>6, <1>7, WriteAccessType, ConstantsType DEF AccessesTypeOK
<1>9. AccessesMove
  <2>1. CASE WriteAccess(i.req, Absent)
    BY <1>1, <1>7, <2>1, AccessWritten
  <2> QED
    BY <1>1, <1>6, <1>7, <2>1, StatusWritten
<1> QED
  BY <1>1, <1>8, <1>9

\* What deployResource stores is a policy of the worker's object.
LEMMA StoredType ==
  ASSUME TypeInv, NEW w \in Kinds, NEW k, NEW n, Stored(w, k, n)
  PROVE  /\ n \in NetpolObjects
         /\ n.owner = job[w].req /\ n.uid = job[w].obj.uid /\ n.svc = job[w].source.svc
<1> DEFINE i == job[w]
<1>1. /\ i.obj \in AccessObjects /\ i.req \in Accesses
      /\ i.source \in Sources /\ i.targets \subseteq Targets
  BY DEF TypeInv, JobsHeld, Holds, Jobs, Stored, Idle
<1>2. PICK m : /\ \E c \in i.targets : m = Policy(i.obj, i.req, i.source, c)
               /\ n = m \/ (npCache[k] # Absent /\ n = Merged(m, npCache[k]))
  BY DEF Stored
<1>3. k \in NetpolKeys
  BY <1>1, PolicyType DEF Stored
<1>4. m \in NetpolObjects
  BY <1>1, <1>2, PolicyType
<1>5. m.owner = i.req /\ m.uid = i.obj.uid /\ m.svc = i.source.svc
  BY <1>2 DEF Policy
<1>6. npCache[k] # Absent => npCache[k] \in NetpolObjects
  BY <1>3 DEF TypeInv, ClusterTypeOK, NetpolsTypeOK, Maybe
<1>7. ASSUME NEW old \in NetpolObjects
      PROVE  /\ Merged(m, old) \in NetpolObjects
             /\ Merged(m, old).owner = m.owner /\ Merged(m, old).uid = m.uid
             /\ Merged(m, old).svc = m.svc
  <2>1. LabelsOf(old) \subseteq OwnerLabels
    BY DEF LabelsOf, NetpolObjects, OwnerLabels
  <2> QED
    BY <1>4, <2>1 DEF Merged, NetpolObjects
<1> QED
  BY <1>2, <1>4, <1>5, <1>6, <1>7

\* The typing of the cluster, after a worker's step.
LEMMA WorkerType ==
  ASSUME TypeInv, NEW w \in Kinds, WorkerStep(w)
  PROVE  ClusterTypeOK'
<1>1. WorkerChanges(w) /\ ClusterTypeOK
  BY WorkerChange DEF TypeInv
<1>2. ServicesTypeOK' /\ BoundsTypeOK'
  BY <1>1, ServicesSame, FaultType DEF WorkerChanges, ClusterTypeOK
<1>3. AccessesTypeOK'
  BY <1>1, AccessesSame, ReadyType DEF WorkerChanges, ClusterTypeOK
<1>4. NetpolsTypeOK'
  <2>1. ASSUME NEW k \in NetpolKeys, PolicyStep(w, k)
        PROVE  NetpolsTypeOK'
    <3>1. PICK n \in Maybe(NetpolObjects) : WriteNetpol(k, n)
      BY <2>1, StoredType, ConstantsType DEF PolicyStep, Swept, Undone, Stored
    <3> QED
      BY <1>1, <2>1, <3>1, WriteNetpolType DEF ClusterTypeOK
  <2> QED
    BY <1>1, <2>1, NetpolsSame DEF WorkerChanges, ClusterTypeOK
<1>5. WakeTypeOK'
  <2>1. job[w].pc # Idle => /\ job[w].req \in Accesses
                            /\ job[w].obj.expiresAt \in Times
    BY DEF TypeInv, JobsHeld, Holds, AccessObjects
  <2>2. UNCHANGED now
    BY <1>1 DEF WorkerChanges
  <2>3. WakeTypeOK
    BY <1>1 DEF ClusterTypeOK
  <2>4. CASE UNCHANGED <<queue, timers>>
    BY <2>2, <2>3, <2>4 DEF WakeTypeOK
  <2>5. CASE job[w].pc # Idle /\ queue' = queue \cup {job[w].req} /\ UNCHANGED timers
    BY <2>1, <2>2, <2>3, <2>5 DEF WakeTypeOK
  <2>6. CASE job[w].pc # Idle /\ UNCHANGED queue /\ Requeue(job[w].req, job[w].obj)
    BY <2>1, <2>2, <2>3, <2>6 DEF WakeTypeOK, Requeue
  <2> QED
    BY <1>1, <2>4, <2>5, <2>6 DEF WorkerChanges
<1> QED
  BY <1>2, <1>3, <1>4, <1>5 DEF ClusterTypeOK

\* Every step keeps the typing.
LEMMA NextType ==
  ASSUME TypeInv, [Next]_vars
  PROVE  TypeInv'
<1>1. JobsHeld'
  BY JobsMove
<1>2. ClusterTypeOK'
  <2> USE DEF TypeInv
  <2>1. CASE UserStep \/ PlatformStep
    BY <2>1, UserStepType, PlatformStepType
  <2>2. CASE Restart
    BY <2>2, ClusterRestartType DEF Restart
  <2>3. ASSUME NEW a \in Accesses, Reconcile(a)
        PROVE  ClusterTypeOK'
    <3>1. WakeTypeOK'
      BY <2>3 DEF Reconcile, ReconcileGone, ReconcileStart, ClusterTypeOK, WakeTypeOK
    <3>2. AccessesTypeOK'
      BY <2>3 DEF Reconcile, ReconcileGone, ReconcileStart, accVars, ClusterTypeOK,
                  AccessesTypeOK
    <3> QED
      BY <2>3, <3>1, <3>2, ServicesSame, NetpolsSame, BoundsSame
         DEF Reconcile, ReconcileGone, ReconcileStart, ClusterTypeOK
  <2>4. CASE UNCHANGED vars
    BY <2>4, ClusterSame DEF vars
  <2> QED
    BY <2>1, <2>2, <2>3, <2>4, WorkerType DEF Next
<1> QED
  BY <1>1, <1>2 DEF TypeInv

\* So do the first states.
LEMMA InitType == Init => TypeInv
BY ClusterInitType, RestType DEF Init, TypeInv, JobsHeld, AllIdle, NoMarks, Holds

\* Every state is typed: whatever a worker holds, stores or waits for is what its
\* place in the code calls for.
THEOREM ExternalTyped == Spec => []TypeOK
<1>1. TypeInv => TypeOK
  BY DEF TypeInv, JobsHeld, TypeOK
<1>2. Spec => []TypeInv
  BY InitType, NextType, PTL DEF Spec
<1> QED
  BY <1>1, <1>2, PTL

\* Every step moves services and access objects as the cluster's own steps do.
LEMMA NextMoves ==
  ASSUME TypeInv, [Next]_vars
  PROVE  ClusterMoves
<1>0. edits \in Nat /\ ClusterTypeOK
  BY DEF TypeInv, ClusterTypeOK, BoundsTypeOK
<1>1. ASSUME UNCHANGED <<svcVars, accesses, accCache, accEvents, specHist, edits>>
      PROVE  ClusterMoves
  BY <1>0, <1>1, ServicesStay, AccessesStay DEF ClusterMoves
<1>2. CASE UserStep \/ PlatformStep \/ Restart
  BY <1>0, <1>2, ClusterStepMoves DEF ClusterStep, Restart
<1>3. CASE \E a \in Accesses : Reconcile(a)
  BY <1>1, <1>3 DEF Reconcile, ReconcileGone, ReconcileStart, accVars, bounds
<1>4. ASSUME NEW w \in Kinds, WorkerStep(w)
      PROVE  ClusterMoves
  <2>1. WorkerChanges(w)
    BY <1>4, WorkerChange
  <2>2. UNCHANGED <<svcVars, edits>>
    BY <2>1 DEF WorkerChanges, Fault, NoFault, bounds
  <2>3. UNCHANGED accVars \/ ObjectStep(w)
    BY <2>1 DEF WorkerChanges
  <2>4. AccessesMove
    BY <2>3, ReadyType, AccessesStay DEF accVars
  <2> QED
    BY <1>0, <2>2, <2>4, ServicesStay DEF ClusterMoves
<1>5. CASE UNCHANGED vars
  BY <1>1, <1>5 DEF vars, clusterVars, accVars, bounds
<1> QED
  BY <1>2, <1>3, <1>4, <1>5 DEF Next

\* A step leaves the policies to the cluster, or is a worker's on one of them.
LEMMA PoliciesChange ==
  ASSUME TypeInv, [Next]_vars
  PROVE  \/ PoliciesStayOrGo
         \/ \E w \in Kinds, k \in NetpolKeys : PolicyStep(w, k)
<1>1. CASE UserStep \/ PlatformStep \/ Restart
  BY <1>1, ClusterStepMoves DEF ClusterStep, Restart, TypeInv
<1>2. ASSUME NEW w \in Kinds, WorkerStep(w)
      PROVE  UNCHANGED npVars \/ \E k \in NetpolKeys : PolicyStep(w, k)
  BY <1>2, WorkerChange DEF WorkerChanges
<1>3. CASE (\E a \in Accesses : Reconcile(a)) \/ UNCHANGED vars
  BY <1>3, PoliciesStay DEF Reconcile, ReconcileGone, ReconcileStart, vars, clusterVars
<1> QED
  BY <1>1, <1>2, <1>3, PoliciesStay DEF Next

-----------------------------------------------------------------------------
(* What was asked for *)

\* A listed service is one that the spec selects, as the worker's kind reads it.
Selected(hist, j, l) ==
  /\ InScope(j.req, l.svc)
  /\ \E v \in hist[l.svc] : /\ v.label \in j.obj.spec.selector
                            /\ l.version = Read(KindOf[j.req], v)

AskedOf(hist, j, c) ==
  \E v \in hist[j.source.svc] :
    AsksFor(j.req, j.source.svc, v, j.obj.spec, j.source.direction, c)

\* What a worker holds comes from versions and specs of the histories.  A CIDR that
\* the API server would refuse may be among the targets.
Seeks(hist, specs, j) ==
  j.pc # Idle =>
    /\ j.obj.spec \in specs[j.req]
    /\ j.pc \notin {"expired", "list", "cleanup"} =>
         /\ j.obj.spec.selector # BadSelector
         /\ \A l \in j.listed : Selected(hist, j, l)
    /\ j.pc \in {"targets", "undeploy"} =>
         /\ \A c \in j.targets : c.form = "cidr" => AskedOf(hist, j, c)
         /\ \E v \in hist[j.source.svc] : j.source.pods = v.pods /\ j.source.ports = v.ports

\* It still does when the histories have grown.
LEMMA SeeksGrows ==
  ASSUME Grows, NEW w, NEW j, Holds(w, j), Seeks(svcHist, specHist, j)
  PROVE  Seeks(svcHist', specHist', j)
<1>1. /\ j.pc # Idle => j.req \in Accesses
      /\ \A l \in j.listed : l.svc \in Services
      /\ j.pc \in {"targets", "undeploy"} => j.source.svc \in Services
  BY DEF Holds, Jobs, Sources
<1>2. \A s \in Services : svcHist[s] \subseteq svcHist'[s]
  BY DEF Grows
<1>3. \A a \in Accesses : specHist[a] \subseteq specHist'[a]
  BY DEF Grows
<1>4. \A l \in j.listed : Selected(svcHist, j, l) => Selected(svcHist', j, l)
  BY <1>1, <1>2 DEF Selected
<1>5. j.pc \in {"targets", "undeploy"} =>
        \A c : AskedOf(svcHist, j, c) => AskedOf(svcHist', j, c)
  BY <1>1, <1>2 DEF AskedOf
<1> QED
  BY <1>1, <1>2, <1>3, <1>4, <1>5 DEF Seeks

\* The targets of a selected service are asked for.
LEMMA CidrsAsked ==
  ASSUME NEW a \in Accesses, NEW s \in Services, NEW v \in ServiceVersions,
         NEW sp \in AccessSpecs, NEW l, l = Read(KindOf[a], v),
         InScope(a, s), sp.selector # BadSelector, v.label \in sp.selector,
         NEW c, c \in FinalCidrs(TargetsOf(l, sp), l.targets # NoAnnotation),
         c.form = "cidr"
  PROVE  AsksFor(a, s, v, sp, ToLower(DirectionOf(l, sp)), c)
<1> DEFINE annotated == KindOf[a] \in AnnotatedKinds
<1>1. /\ l.targets = IF annotated THEN v.targets ELSE NoAnnotation
      /\ l.direction = IF annotated THEN v.direction ELSE NoAnnotation
  BY DEF Read, ServiceVersions
<1>2. IF annotated /\ v.targets # NoAnnotation
      THEN c \in v.targets \/ [c EXCEPT !.form = "hyphen"] \in v.targets
      ELSE c \in sp.targets
  <2>1. CASE annotated /\ v.targets # NoAnnotation
    <3>1. v.targets \subseteq WrittenTargets
      BY <2>1, ExternalAssumption DEF ServiceVersions
    <3>2. PICK t \in v.targets : c = FromAnnotation(t)
      BY <1>1, <2>1 DEF FinalCidrs, TargetsOf
    <3>3. t.form = "hyphen" => [c EXCEPT !.form = "hyphen"] = t
      BY <3>1, <3>2 DEF FromAnnotation, WrittenTargets, Forms
    <3> QED
      BY <2>1, <3>2, <3>3 DEF FromAnnotation
  <2>2. CASE ~(annotated /\ v.targets # NoAnnotation)
    BY <1>1, <2>2 DEF FinalCidrs, TargetsOf
  <2> QED
    BY <2>1, <2>2
<1>3. (IF annotated /\ v.direction # NoAnnotation THEN v.direction ELSE sp.direction)
        \in AnyCase(ToLower(DirectionOf(l, sp)))
  BY <1>1 DEF DirectionOf, AnyCase, ServiceVersions, AccessSpecs
<1>4. AccessNs[a] = Everywhere \/ AccessNs[a] = NsOf[s]
  BY DEF InScope
<1> QED
  BY <1>2, <1>3, <1>4 DEF AsksFor

\* What a worker comes to hold.
LEMMA SeeksMove ==
  ASSUME TypeInv, Seen, NEW w \in Kinds, NEW i, Holds(w, i), Seeks(svcHist, specHist, i),
         NEW j, Holds(w, j), JobMove(w, i, j)
  PROVE  Seeks(svcHist, specHist, j)
<1>1. CASE Starts(w, j)
  <2>1. accCache[j.req] \in AccessObjects /\ accCache[j.req].spec \in specHist[j.req]
    BY <1>1, MaybeIn DEF Starts, TypeInv, ClusterTypeOK, AccessesTypeOK, Seen
  <2>2. j.obj.spec = accCache[j.req].spec
    BY <1>1, <2>1, DatedKeeps DEF Starts
  <2> QED
    BY <1>1, <2>1, <2>2 DEF Starts, Seeks
<1>2. ASSUME Works(w, i, j), Lists(w, i, j)
      PROVE  Seeks(svcHist, specHist, j)
  <2>1. KindOf[j.req] = w /\ j.req = i.req /\ j.obj.spec = i.obj.spec /\ j.pc = "services"
    BY <1>2 DEF Works, SameCopy, Lists, Holds, Idle
  <2>2. ASSUME NEW l \in j.listed
        PROVE  Selected(svcHist, j, l)
    <3>1. l.svc \in Services
      BY DEF Holds, Jobs
    <3>2. svcCache[l.svc] \in svcHist[l.svc]
      BY <1>2, <3>1 DEF Lists, Seen
    <3> QED
      BY <1>2, <2>1, <3>2 DEF Lists, Selected
  <2> QED
    BY <1>2, <2>1, <2>2 DEF Seeks, Works, Lists
<1>3. ASSUME Works(w, i, j), j.pc \in {"services", "targets", "undeploy"},
             i.pc \in {"services", "targets", "undeploy"}, j.listed \subseteq i.listed
      PROVE  /\ j.obj.spec \in specHist[j.req] /\ j.obj.spec.selector # BadSelector
             /\ \A l \in j.listed : Selected(svcHist, j, l)
  <2>1. j.req = i.req /\ j.obj.spec = i.obj.spec
    BY <1>3 DEF Works, SameCopy
  <2> QED
    BY <1>3, <2>1 DEF Seeks, Selected, Idle
<1>4. ASSUME Works(w, i, j), Enters(i, j)
      PROVE  Seeks(svcHist, specHist, j)
  <2>1. CASE j.pc = "services"
    BY <1>3, <1>4, <2>1 DEF Enters, Seeks
  <2>2. CASE j.pc = "targets"
    <3>1. PICK l \in i.listed :
            /\ IsSource(l, i.obj.spec)
            /\ j.targets = FinalCidrs(TargetsOf(l.version, i.obj.spec),
                                      l.version.targets # NoAnnotation)
            /\ j.source.svc = l.svc
            /\ j.source.direction = ToLower(DirectionOf(l.version, i.obj.spec))
            /\ j.source.pods = svcCache[l.svc].pods /\ j.source.ports = svcCache[l.svc].ports
      BY <1>4, <2>2 DEF Enters
    <3>2. /\ i.pc = "services" /\ i.req \in Accesses /\ i.obj.spec \in AccessSpecs
          /\ l.svc \in Services /\ j.req = i.req /\ j.obj.spec = i.obj.spec
      BY <1>4, <3>1 DEF Enters, Works, SameCopy, Holds, Jobs, AccessObjects, Idle
    <3>3. Selected(svcHist, i, l) /\ i.obj.spec.selector # BadSelector
      BY <3>1, <3>2 DEF Seeks, Idle
    <3>4. PICK v \in svcHist[l.svc] : /\ v.label \in i.obj.spec.selector
                                      /\ l.version = Read(KindOf[i.req], v)
      BY <3>3 DEF Selected
    <3>5. v \in ServiceVersions
      BY <3>2, <3>4 DEF TypeInv, ClusterTypeOK, ServicesTypeOK
    <3>6. \A c \in j.targets : c.form = "cidr" => AskedOf(svcHist, j, c)
      BY <3>1, <3>2, <3>3, <3>4, <3>5, CidrsAsked DEF AskedOf, Selected
    <3>7. svcCache[l.svc] \in svcHist[l.svc]
      BY <3>1, <3>2 DEF IsSource, HasDetails, Seen
    <3> QED
      BY <1>3, <1>4, <2>2, <3>1, <3>6, <3>7 DEF Enters, Seeks
  <2> QED
    BY <1>4, <2>1, <2>2 DEF Enters
<1>5. ASSUME Works(w, i, j), Handles(i, j)
      PROVE  Seeks(svcHist, specHist, j)
  <2>1. /\ j.req = i.req /\ j.obj.spec = i.obj.spec
        /\ i.pc \in {"targets", "undeploy"} /\ j.pc \in {"services", "targets", "undeploy"}
        /\ j.targets \subseteq i.targets /\ j.listed = i.listed
        /\ j.pc \in {"targets", "undeploy"} => j.source = i.source
    BY <1>5 DEF Works, SameCopy, Handles
  <2>2. j.pc \in {"targets", "undeploy"} =>
          \A c : AskedOf(svcHist, i, c) => AskedOf(svcHist, j, c)
    BY <2>1 DEF AskedOf
  <2> QED
    BY <1>3, <1>5, <2>1, <2>2 DEF Seeks, Idle
<1>6. ASSUME Works(w, i, j), Owns(i, j) \/ Sweeps(i, j)
      PROVE  Seeks(svcHist, specHist, j)
  BY <1>6 DEF Works, SameCopy, Owns, Sweeps, Seeks, Idle
<1>7. Seeks(svcHist, specHist, NoJob)
  BY DEF Seeks, NoJob
<1> QED
  BY <1>1, <1>2, <1>4, <1>5, <1>6, <1>7 DEF JobMove, Works

AllSeek == \A w \in Kinds : Seeks(svcHist, specHist, job[w])

\* The policies, stored and cached.
PoliciesRequested ==
  \A k \in NetpolKeys :
    /\ netpols[k] # Absent => Requested(svcHist, specHist, k, netpols[k])
    /\ npCache[k] # Absent => Requested(svcHist, specHist, k, npCache[k])

Provenance == Seen /\ AllSeek /\ PoliciesRequested

\* Every step keeps what the workers hold asked for.
LEMMA SeeksNext ==
  ASSUME TypeInv, Seen, AllSeek, [Next]_vars
  PROVE  AllSeek'
<1> SUFFICES ASSUME NEW w \in Kinds
             PROVE  Seeks(svcHist', specHist', job'[w])
  BY DEF AllSeek
<1>1. PICK j : j = job'[w]
  OBVIOUS
<1>2. Holds(w, job[w]) /\ Seeks(svcHist, specHist, job[w])
  BY DEF TypeInv, JobsHeld, AllSeek
<1>3. JobsHeld' /\ JobMove(w, job[w], j)
  BY <1>1, JobsMove
<1>4. Holds(w, j)
  BY <1>1, <1>3 DEF JobsHeld
<1>5. Seeks(svcHist, specHist, j)
  BY <1>2, <1>3, <1>4, SeeksMove
<1>6. Grows
  BY NextMoves, MovesGrow
<1> QED
  BY <1>1, <1>4, <1>5, <1>6, SeeksGrows

\* What the policy of a CIDR opens and closes.
LEMMA CidrGranted ==
  ASSUME NEW v, NEW c, NEW d \in Directions,
         NEW s, s = DefineExternalAccessNetworkPolicyCIDR(v.pods, c, v.ports, d)
  PROVE  Grants(s, v, d, c) /\ \E r \in s.ingress \cup s.egress : r.cidr = c
<1>1. PICK r : /\ r = CidrRule(c, v.ports) /\ r.cidr = c
               /\ r = [cidr |-> c, ports |-> ConvertServicePortsToPolicyPorts(v.ports)]
  BY DEF CidrRule
<1>2. /\ s.podSelector = v.pods /\ s.policyTypes = PolicyTypes(d)
      /\ s.ingress = IF "Ingress" \in PolicyTypes(d) THEN {r} ELSE {}
      /\ s.egress = IF "Egress" \in PolicyTypes(d) THEN {r} ELSE {}
  BY <1>1 DEF DefineExternalAccessNetworkPolicyCIDR, NetpolSpec
<1>3. /\ d = "ingress" => PolicyTypes(d) = {"Ingress"}
      /\ d = "egress" => PolicyTypes(d) = {"Egress"}
      /\ d = "all" => PolicyTypes(d) = {"Ingress", "Egress"}
  BY DEF PolicyTypes
<1>4. /\ "Ingress" \in PolicyTypes(d) <=> d \in {"ingress", "all"}
      /\ "Egress" \in PolicyTypes(d) <=> d \in {"egress", "all"}
  BY <1>3 DEF Directions
<1>5. Grants(s, v, d, c)
  BY <1>1, <1>2, <1>4 DEF Grants, OpensTo, Closed
<1> QED
  BY <1>1, <1>2, <1>4, <1>5 DEF Directions

\* What deployResource stores is asked for.
LEMMA StoredRequested ==
  ASSUME TypeInv, AllSeek, NEW w \in Kinds, NEW k, NEW n, Stored(w, k, n)
  PROVE  Requested(svcHist, specHist, k, n)
<1> DEFINE i == job[w]
           d == i.source.direction
<1>1. /\ i.source \in Sources /\ i.targets \subseteq Targets /\ i.obj.spec \in specHist[i.req]
      /\ \A c \in i.targets : c.form = "cidr" => AskedOf(svcHist, i, c)
      /\ \E v \in svcHist[i.source.svc] : i.source.pods = v.pods /\ i.source.ports = v.ports
  BY DEF TypeInv, JobsHeld, Holds, Jobs, Stored, AllSeek, Seeks, Idle
<1>2. d \in Directions
  BY <1>1 DEF Sources
<1>3. n.owner = i.req /\ n.svc = i.source.svc
  BY StoredType
<1>4. PICK m : \E c \in i.targets :
        /\ m = Policy(i.obj, i.req, i.source, c) /\ Valid(m)
        /\ k = PolicyKey(i.req, i.source.svc, d, c)
        /\ n = m \/ (npCache[k] # Absent /\ n = Merged(m, npCache[k]))
  BY DEF Stored
<1>5. PICK c \in i.targets :
        /\ m = Policy(i.obj, i.req, i.source, c) /\ Valid(m)
        /\ k = PolicyKey(i.req, i.source.svc, d, c)
        /\ n = m \/ (npCache[k] # Absent /\ n = Merged(m, npCache[k]))
  BY <1>4
<1>6. PICK v \in svcHist[i.source.svc] : i.source.pods = v.pods /\ i.source.ports = v.ports
  BY <1>1
<1>7. m.spec = DefineExternalAccessNetworkPolicyCIDR(v.pods, c, v.ports, d)
  BY <1>5, <1>6 DEF Policy
<1>8. n.spec = m.spec
  BY <1>5 DEF Merged, Policy
<1>9. c.form = "cidr"
  BY <1>2, <1>5, <1>7, CidrGranted DEF Valid, ServerTakes
<1>10. Grants(n.spec, v, d, c)
  BY <1>2, <1>7, <1>8, CidrGranted
<1>11. \E u \in svcHist[n.svc] : AsksFor(n.owner, n.svc, u, i.obj.spec, d, c)
  BY <1>1, <1>3, <1>5, <1>9 DEF AskedOf
<1> HIDE DEF d
<1> QED
  BY <1>1, <1>2, <1>3, <1>5, <1>6, <1>10, <1>11 DEF Requested

\* What was asked for at some time stays so.
LEMMA RequestedGrows ==
  ASSUME NEW k, NEW n \in NetpolObjects, Grows, Requested(svcHist, specHist, k, n)
  PROVE  Requested(svcHist', specHist', k, n)
<1>1. n.owner \in Accesses /\ n.svc \in Services
  BY DEF NetpolObjects
<1> QED
  BY <1>1 DEF Requested, Grows

\* A worker's step on a policy writes one, requested or none.
LEMMA StepRequested ==
  ASSUME TypeInv, AllSeek, NEW w \in Kinds, NEW k \in NetpolKeys, PolicyStep(w, k)
  PROVE  \A i \in NetpolKeys :
           /\ npCache'[i] = npCache[i]
           /\ \/ netpols'[i] \in {netpols[i], Absent}
              \/ Requested(svcHist, specHist, i, netpols'[i])
<1>1. PICK n : /\ WriteNetpol(k, n)
               /\ n # Absent => Requested(svcHist, specHist, k, n)
  BY StoredRequested DEF PolicyStep, Swept, Undone, Stored
<1>2. \A i \in NetpolKeys : /\ npCache'[i] = npCache[i]
                            /\ netpols'[i] = IF i = k THEN n ELSE netpols[i]
  BY <1>1 DEF WriteNetpol, TypeInv, ClusterTypeOK, NetpolsTypeOK
<1> QED
  BY <1>1, <1>2

\* Every step keeps the policies requested.
LEMMA PoliciesNext ==
  ASSUME TypeInv, TypeInv', AllSeek, PoliciesRequested, [Next]_vars
  PROVE  PoliciesRequested'
<1>1. \A k \in NetpolKeys :
        /\ npCache'[k] \in {npCache[k], netpols[k]}
        /\ \/ netpols'[k] \in {netpols[k], Absent}
           \/ Requested(svcHist, specHist, k, netpols'[k])
  BY PoliciesChange, StepRequested DEF PoliciesStayOrGo
<1>2. \A k \in NetpolKeys :
        /\ netpols[k] # Absent => Requested(svcHist, specHist, k, netpols[k])
        /\ npCache[k] # Absent => Requested(svcHist, specHist, k, npCache[k])
  BY DEF PoliciesRequested
<1>3. \A k \in NetpolKeys :
        /\ netpols'[k] # Absent => netpols'[k] \in NetpolObjects
        /\ npCache'[k] # Absent => npCache'[k] \in NetpolObjects
  BY DEF TypeInv, ClusterTypeOK, NetpolsTypeOK, Maybe
<1>4. Grows
  BY NextMoves, MovesGrow
<1>5. \A k \in NetpolKeys :
        /\ netpols'[k] # Absent => Requested(svcHist', specHist', k, netpols'[k])
        /\ npCache'[k] # Absent => Requested(svcHist', specHist', k, npCache'[k])
  BY <1>1, <1>2, <1>3, <1>4, RequestedGrows
<1> QED
  BY <1>5 DEF PoliciesRequested

\* The first states hold no policy, and stores and caches agree.
LEMMA InitProvenance == Init => Provenance
<1> SUFFICES ASSUME Init
             PROVE  Provenance
  OBVIOUS
<1>1. ClusterInit /\ job = [w \in Kinds |-> NoJob]
  BY DEF Init, AllIdle
<1>2. AllSeek
  <2>1. Seeks(svcHist, specHist, NoJob)
    BY DEF Seeks, NoJob
  <2> QED
    BY <1>1, <2>1 DEF AllSeek
<1>3. PoliciesRequested
  <2>1. \A k \in NetpolKeys : netpols[k] = Absent /\ npCache[k] = Absent
    BY <1>1 DEF ClusterInit
  <2> QED
    BY <2>1 DEF PoliciesRequested
<1> QED
  BY <1>1, <1>2, <1>3, InitHistory DEF Provenance

\* Every step keeps all of it.
LEMMA ProvenanceNext ==
  ASSUME TypeInv, Provenance, [Next]_vars
  PROVE  TypeInv' /\ Provenance'
<1>1. TypeInv'
  BY NextType
<1>2. Seen'
  BY NextMoves, MovesSeen DEF Provenance
<1>3. AllSeek' /\ PoliciesRequested'
  BY <1>1, SeeksNext, PoliciesNext DEF Provenance
<1> QED
  BY <1>1, <1>2, <1>3 DEF Provenance

\* Whatever users write in specs and annotations, with a slash or a hyphen, however the
\* caches lag, whichever kind writes a policy that both have, and wherever writes fail
\* or the process restarts: a stored policy opens one CIDR, in the direction in which a
\* spec and a version of its service asked for it, to the pods and on the ports of a
\* version of that service, and closes the rest.
THEOREM NothingUnrequestedByEither == Spec => []NothingUnrequested
<1>1. TypeInv /\ Provenance /\ [Next]_vars => TypeInv' /\ Provenance'
  BY ProvenanceNext
<1>2. Provenance => NothingUnrequested
  BY DEF Provenance, PoliciesRequested, NothingUnrequested
<1>3. Spec => [](TypeInv /\ Provenance)
  BY <1>1, InitType, InitProvenance, PTL DEF Spec
<1> QED
  BY <1>2, <1>3, PTL

-----------------------------------------------------------------------------
(* Deadlines *)

\* A deadline held is due, and at "expired" it has passed.
Lapses(specs, time, j) ==
  j.pc # Idle => /\ Due(specs[j.req], j.obj)
                 /\ j.pc = "expired" => j.obj.expiresAt # NoTime /\ time >= j.obj.expiresAt

\* While nobody has written a worker's object since it was read, it is the incarnation
\* that was read.
ReadCurrent ==
  \A w \in Kinds :
    job[w].pc # Idle /\ job[w].req \notin touched =>
      accesses[job[w].req] # Absent /\ accesses[job[w].req].created = job[w].obj.created

CopiesInOrder == \A w \in Kinds : job[w].pc # Idle => CopyOf(job[w].req, job[w].obj)

AllLapse == \A w \in Kinds : Lapses(specHist, now, job[w])

DatedInv ==
  /\ Seen /\ Written /\ CachesCurrent /\ AccessesInOrder
  /\ AccessesDue /\ AllLapse /\ ReadCurrent /\ CopiesInOrder

\* A worker rests, or goes on, and no write since it read is forgotten; or it begins.
LEMMA JobTurns ==
  ASSUME TypeInv, [Next]_vars, NEW w \in Kinds
  PROVE  \/ job'[w] = NoJob
         \/ /\ job'[w] = job[w] \/ Works(w, job[w], job'[w])
            /\ \A a \in Accesses : KindOf[a] = w /\ a \in touched => a \in touched'
         \/ \E a \in Accesses : /\ ReconcileStart(a)
                                /\ job'[w].req = a /\ Starts(w, job'[w])
<1>1. CASE UNCHANGED ctlVars /\ touched \subseteq touched'
  BY <1>1 DEF ctlVars
<1>2. ASSUME NEW a \in Accesses, ReconcileStart(a)
      PROVE  \/ \E b \in Accesses : /\ ReconcileStart(b)
                                    /\ job'[w].req = b /\ Starts(w, job'[w])
             \/ /\ job'[w] = job[w]
                /\ \A b \in Accesses : KindOf[b] = w /\ b \in touched => b \in touched'
  <2>1. PICK j : /\ Become(KindOf[a], j) /\ Starts(KindOf[a], j) /\ KindOf[a] \in Kinds
                 /\ Holds(KindOf[a], j) /\ statusNeedUpdate' \in [Kinds -> BOOLEAN]
    BY <1>2, StartProceeds DEF Begun
  <2>2. /\ job'[KindOf[a]] = j
        /\ \A v \in Kinds \ {KindOf[a]} : job'[v] = job[v]
    BY <2>1, BecomeType DEF TypeInv
  <2>3. CASE KindOf[a] = w
    <3>1. j.req = a
      <4>1. PICK o : o = Dated(accCache[a])
        OBVIOUS
      <4>2. PICK n : n = [NoJob EXCEPT !.req = a, !.obj = o]
        OBVIOUS
      <4>3. n.req = a
        BY <4>2 DEF NoJob
      <4>4. job'[w] = [n EXCEPT !.pc = "expired"]
            \/ job'[w] = [n EXCEPT !.pc = "list"]
        BY <1>2, <2>3, <4>1, <4>2 DEF ReconcileStart, Become, TypeInv, JobsHeld
      <4> QED
        BY <2>2, <2>3, <4>2, <4>3, <4>4 DEF NoJob
    <3> QED
      BY <1>2, <2>1, <2>2, <2>3, <3>1
  <2>4. CASE KindOf[a] # w
    BY <1>2, <2>2, <2>4 DEF ReconcileStart
  <2> QED
    BY <2>3, <2>4
<1>3. ASSUME NEW v \in Kinds, WorkerStep(v)
      PROVE  \/ job'[w] = NoJob
             \/ (job'[w] = job[w] \/ Works(w, job[w], job'[w])) /\ touched \subseteq touched'
  <2>1. touched \subseteq touched'
    <3>1. UNCHANGED accVars \/ ObjectStep(v)
      BY <1>3, WorkerChange DEF WorkerChanges
    <3> QED
      BY <3>1 DEF accVars, ObjectStep, WriteAccess
  <2>2. PICK j : /\ Become(v, j) /\ Holds(v, j) /\ (j = NoJob \/ Works(v, job[v], j))
                 /\ statusNeedUpdate' \in [Kinds -> BOOLEAN]
    BY <1>3, WorkerProceeds DEF Proceeds
  <2>3. job'[v] = j /\ \A u \in Kinds \ {v} : job'[u] = job[u]
    BY <2>2, BecomeType DEF TypeInv
  <2> QED
    BY <2>1, <2>2, <2>3
<1>4. CASE Restart
  BY <1>4 DEF Restart, AllIdle
<1> QED
  BY <1>1, <1>2, <1>3, <1>4, ClusterTouches
     DEF Next, Reconcile, ReconcileGone, vars, clusterVars, accVars

\* The clock does not go back.
LEMMA NowGoes ==
  ASSUME TypeInv, [Next]_vars
  PROVE  now \in Nat /\ now <= now'
<1>1. now \in Nat /\ ClusterTypeOK
  BY DEF TypeInv, ClusterTypeOK, WakeTypeOK
<1>2. CASE UserStep \/ PlatformStep \/ Restart
  BY <1>1, <1>2, ClockGoes DEF ClusterStep, Restart
<1>3. ASSUME UNCHANGED now
      PROVE  now <= now'
  BY <1>1, <1>3
<1> QED
  BY <1>1, <1>2, <1>3, WorkerChange
     DEF Next, Reconcile, ReconcileGone, ReconcileStart, WorkerChanges, vars, clusterVars, wakeVars

\* What a worker reads of an object is as its next state needs it.
LEMMA StartDated ==
  ASSUME DurationsFit, TypeInv, DatedInv, NEW w \in Kinds, NEW j, Starts(w, j)
  PROVE  /\ Lapses(specHist, now, j)
         /\ CopyOf(j.req, j.obj)
         /\ j.obj.created = accCache[j.req].created
<1> DEFINE a == j.req
           o == accCache[a]
<1>1. a \in Accesses /\ o # Absent /\ o \in AccessObjects /\ j.obj = Dated(o)
  BY MaybeIn DEF Starts, TypeInv, ClusterTypeOK, AccessesTypeOK
<1>2. /\ o.spec \in specHist[a] /\ specHist[a] \subseteq Specs[a] /\ Due(specHist[a], o)
      /\ CopyOf(a, o)
  BY <1>1, CachedCopy DEF DatedInv, Seen, Written, AccessesDue, TypeInv
<1>3. /\ j.obj.expiresAt = Deadline(o) /\ j.obj.uid = o.uid
      /\ j.obj.created = o.created /\ j.obj.deleting = o.deleting
  BY <1>1, DatedKeeps
<1>4. Deadline(o) # NoTime =>
        \E sp \in specHist[a] : sp.duration # NoDuration /\ Deadline(o) = o.created + sp.duration
  BY <1>1, <1>2, DeadlineDue
<1>5. j.pc = "expired" => Deadline(o) # NoTime /\ now >= Deadline(o)
  BY DEF Starts, IsExpired
<1>6. CopyOf(a, j.obj)
  BY <1>2, <1>3 DEF CopyOf, Precedes
<1> QED
  BY <1>3, <1>4, <1>5, <1>6 DEF Lapses, Due

\* Deadlines held stay so.
LEMMA LapsesNext ==
  ASSUME DurationsFit, TypeInv, TypeInv', DatedInv, [Next]_vars
  PROVE  AllLapse'
<1> SUFFICES ASSUME NEW w \in Kinds, NEW j, j = job'[w], j.pc # Idle
             PROVE  /\ Due(specHist'[j.req], j.obj)
                    /\ j.pc = "expired" => j.obj.expiresAt # NoTime /\ now' >= j.obj.expiresAt
  BY DEF AllLapse, Lapses
<1>1. now \in Nat /\ now' \in Nat /\ now <= now'
  BY NowGoes DEF TypeInv, ClusterTypeOK, WakeTypeOK
<1>2. j.req \in Accesses /\ j.obj.expiresAt \in Times
  BY DEF TypeInv, JobsHeld, Holds, AccessObjects
<1>3. Lapses(specHist, now, job[w])
  BY DEF DatedInv, AllLapse
<1>4. Lapses(specHist, now, j)
  <2>1. CASE j = job[w]
    BY <1>3, <2>1
  <2>2. CASE Works(w, job[w], j)
    BY <1>3, <2>2 DEF Works, SameCopy, Owns, Sweeps, Lists, Enters, Handles, Lapses, Due
  <2>3. CASE Starts(w, j)
    BY <2>3, StartDated
  <2>4. j # NoJob
    BY DEF NoJob
  <2> QED
    BY <2>1, <2>2, <2>3, <2>4, JobsMove DEF JobMove
<1>5. specHist[j.req] \subseteq specHist'[j.req]
  BY <1>2, NextMoves, MovesGrow DEF Grows
<1>6. Due(specHist'[j.req], j.obj)
  BY <1>4, <1>5 DEF Lapses, Due
<1>7. j.pc = "expired" => j.obj.expiresAt # NoTime /\ now' >= j.obj.expiresAt
  BY <1>1, <1>2, <1>4 DEF Lapses, Times
<1> QED
  BY <1>6, <1>7

\* So do the copies.
LEMMA CopiesNext ==
  ASSUME TypeInv, TypeInv', AccessesInOrder, CopiesInOrder, [Next]_vars
  PROVE  CopiesInOrder'
<1> SUFFICES ASSUME NEW w \in Kinds, NEW j, j = job'[w], j.pc # Idle
             PROVE  /\ j.obj.uid <= edits'
                    /\ Precedes(j.obj, accesses'[j.req]) /\ NoLater(j.obj.uid, accCache'[j.req])
  BY DEF CopiesInOrder, CopyOf
<1>1. ClusterTypeOK /\ ClusterTypeOK' /\ j.req \in Accesses /\ j.obj.uid \in Nat
  BY DEF TypeInv, JobsHeld, Holds, AccessObjects
<1>2. CopyOf(j.req, j.obj)
  <2>1. CASE j = job[w]
    BY <2>1 DEF CopiesInOrder
  <2>2. CASE Works(w, job[w], j)
    BY <2>2 DEF Works, SameCopy, CopiesInOrder, CopyOf, Precedes
  <2>3. CASE Starts(w, j)
    <3>1. accCache[j.req] \in AccessObjects
      BY <1>1, <2>3, MaybeIn DEF Starts, ClusterTypeOK, AccessesTypeOK
    <3>2. CopyOf(j.req, accCache[j.req])
      BY <1>1, <2>3, CachedCopy DEF Starts
    <3> QED
      BY <2>3, <3>1, <3>2, DatedKeeps DEF Starts, CopyOf, Precedes
  <2>4. j # NoJob
    BY DEF NoJob
  <2> QED
    BY <2>1, <2>2, <2>3, <2>4, JobsMove DEF JobMove
<1>3. ClusterMoves
  BY NextMoves
<1> QED
  BY <1>1, <1>2, <1>3, CopyStays

\* And what is read and not written since.
LEMMA ReadNext ==
  ASSUME TypeInv, TypeInv', CachesCurrent, ReadCurrent, [Next]_vars
  PROVE  ReadCurrent'
<1> SUFFICES ASSUME NEW w \in Kinds, NEW j, j = job'[w], j.pc # Idle, j.req \notin touched'
             PROVE  accesses'[j.req] # Absent /\ accesses'[j.req].created = j.obj.created
  BY DEF ReadCurrent
<1>1. j.req \in Accesses /\ KindOf[j.req] = w
  BY DEF TypeInv, JobsHeld, Holds
<1>2. CASE /\ j = job[w] \/ Works(w, job[w], j)
           /\ \A a \in Accesses : KindOf[a] = w /\ a \in touched => a \in touched'
  <2>1. /\ job[w].pc # Idle /\ job[w].req = j.req /\ job[w].obj.created = j.obj.created
        /\ j.req \notin touched
    BY <1>1, <1>2 DEF Works, SameCopy
  <2>2. accesses'[j.req] = accesses[j.req]
    BY <1>1, NextMoves DEF ClusterMoves, AccessesMove, Rewritten
  <2> QED
    BY <2>1, <2>2 DEF ReadCurrent
<1>3. CASE ReconcileStart(j.req) /\ Starts(w, j)
  <2>1. j.req \notin accEvents /\ accCache[j.req] # Absent /\ accesses' = accesses
    BY <1>3 DEF ReconcileStart
  <2>2. accCache[j.req] = accesses[j.req] /\ accCache[j.req] \in AccessObjects
    BY <1>1, <2>1, MaybeIn DEF CachesCurrent, TypeInv, ClusterTypeOK, AccessesTypeOK
  <2> QED
    BY <1>3, <2>1, <2>2, DatedKeeps DEF Starts
<1>4. j # NoJob
  BY DEF NoJob
<1> QED
  BY <1>2, <1>3, <1>4, JobTurns

\* updateStatus gives an object the deadline of the copy.
LEMMA ReadyKeeps ==
  ASSUME NEW i \in Jobs, i.obj \in AccessObjects
  PROVE  WithCond(Refreshed(i), "Ready", "True").expiresAt = i.obj.expiresAt
<1>1. PICK e : e = Existing(i.obj)
  OBVIOUS
<1>2. e \in AccessObjects /\ e.expiresAt = i.obj.expiresAt
  BY <1>1 DEF Existing, AccessObjects
<1>3. PICK o : o = [e EXCEPT !.netpols = @ \cup i.deployed, !.services = @ \cup i.matched]
  OBVIOUS
<1>4. o \in AccessObjects /\ o.expiresAt = i.obj.expiresAt
  BY <1>2, <1>3 DEF AccessObjects, Jobs
<1>5. PICK p \in AccessObjects : /\ p = WithCond(o, "NetpolsListReady", "True")
                                 /\ p.expiresAt = o.expiresAt
  BY <1>4, CondSet, ConstantsType
<1>6. PICK q \in AccessObjects : /\ q = WithCond(p, "ServicesListReady", "True")
                                 /\ q.expiresAt = p.expiresAt
  BY CondSet, ConstantsType
<1>7. Refreshed(i) = q
  BY <1>1, <1>3, <1>5, <1>6 DEF Refreshed
<1> QED
  BY <1>4, <1>5, <1>6, <1>7, WithCondKeeps

\* Deadlines in the status stay such.
LEMMA DueNext ==
  ASSUME TypeInv, DatedInv, [Next]_vars
  PROVE  AccessesDue'
<1>1. ClusterMoves /\ AccessesDue
  BY NextMoves DEF DatedInv
<1>2. CASE UserStep \/ PlatformStep \/ Restart
  <2>1. DatesKept
    BY <1>2, ClusterDates DEF ClusterStep, Restart, TypeInv
  <2> QED
    BY <1>1, <2>1, DueStays
<1>3. CASE UNCHANGED accesses
  BY <1>1, <1>3, DueStays
<1>4. ASSUME NEW w \in Kinds, ObjectStep(w)
      PROVE  AccessesDue'
  <2> DEFINE i == job[w]
  <2>1. /\ i \in Jobs /\ i.req \in Accesses /\ i.obj \in AccessObjects
        /\ accesses[i.req] \in AccessObjects
    BY <1>4, MaybeIn DEF ObjectStep, TypeInv, JobsHeld, Holds, ClusterTypeOK, AccessesTypeOK
  <2>2. Due(specHist[i.req], i.obj)
    BY <1>4 DEF DatedInv, AllLapse, Lapses, ObjectStep
  <2>3. PICK n : /\ \A a \in Accesses : accesses'[a] = IF a = i.req THEN n ELSE accesses[a]
                 /\ \/ n = Absent
                    \/ /\ i.req \notin touched
                       /\ n = WithStatus(i.req, WithCond(Refreshed(i), "Ready", "True"))
    BY <1>4 DEF ObjectStep, WriteAccess, TypeInv, ClusterTypeOK, AccessesTypeOK
  <2>4. n # Absent => n.expiresAt = i.obj.expiresAt /\ n.created = i.obj.created
    <3>1. CASE n = Absent
      BY <3>1
    <3>2. CASE /\ i.req \notin touched
               /\ n = WithStatus(i.req, WithCond(Refreshed(i), "Ready", "True"))
      <4>1. /\ n.expiresAt = WithCond(Refreshed(i), "Ready", "True").expiresAt
            /\ n.created = accesses[i.req].created
        BY <2>1, <3>2 DEF WithStatus, AccessObjects
      <4>2. accesses[i.req].created = i.obj.created
        BY <1>4, <3>2 DEF DatedInv, ReadCurrent, ObjectStep
      <4> QED
        BY <2>1, <4>1, <4>2, ReadyKeeps
    <3> QED
      BY <2>3, <3>1, <3>2
  <2>5. n # Absent => Due(specHist[i.req], n)
    BY <2>2, <2>4 DEF Due
  <2> QED
    BY <1>1, <2>3, <2>5, DueStays
<1> QED
  BY <1>2, <1>3, <1>4, WorkerChange
     DEF Next, Reconcile, ReconcileGone, ReconcileStart, WorkerChanges, vars, clusterVars,
         accVars

\* A worker deletes its own object, and only when it has found the deadline passed.
LEMMA DeletedAfter ==
  ASSUME TypeInv, DatedInv, [Next]_vars, NEW a \in Accesses,
         job[KindOf[a]].pc = "expired", job'[KindOf[a]] # job[KindOf[a]],
         accesses[a] # Absent, accesses[a].uid = job[KindOf[a]].obj.uid,
         accesses'[a] = Absent
  PROVE  \E sp \in specHist[a] : sp.duration # NoDuration
                                 /\ now >= accesses[a].created + sp.duration
<1> DEFINE w == KindOf[a]
           i == job[w]
<1>1. w \in Kinds
  BY ExternalAssumption
<1>2. ASSUME UNCHANGED accesses
      PROVE  FALSE
  BY <1>2
<1>3. PICK v \in Kinds : WorkerStep(v)
  BY <1>1, <1>2
     DEF Next, Reconcile, ReconcileGone, ReconcileStart, accVars, ctlVars, Restart,
         ClusterRestart, stores, vars, clusterVars
<1>4. v = w
  <2>1. PICK j : /\ Become(v, j) /\ Holds(v, j) /\ statusNeedUpdate' \in [Kinds -> BOOLEAN]
    BY <1>3, WorkerProceeds DEF Proceeds
  <2> QED
    BY <1>1, <2>1, BecomeType DEF TypeInv
<1>5. ObjectStep(w)
  BY <1>2, <1>3, <1>4, WorkerChange DEF WorkerChanges, accVars
<1>6. i.req = a
  <2>1. \A b \in Accesses : b # i.req => accesses'[b] = accesses[b]
    BY <1>5 DEF ObjectStep, WriteAccess, TypeInv, ClusterTypeOK, AccessesTypeOK
  <2> QED
    BY <2>1
<1>7. Lapses(specHist, now, i) /\ CopyOf(i.req, i.obj) /\ i.pc # Idle
  BY <1>1 DEF DatedInv, AllLapse, CopiesInOrder, Idle
<1>8. accesses[a].created = i.obj.created
  BY <1>6, <1>7 DEF CopyOf, Precedes
<1>9. PICK sp \in specHist[a] : /\ sp.duration # NoDuration
                                /\ i.obj.expiresAt = i.obj.created + sp.duration
  BY <1>6, <1>7 DEF Lapses, Due
<1> QED
  BY <1>6, <1>7, <1>8, <1>9 DEF Lapses

\* Where durations are as long as written, no worker deletes an object before its
\* creation time and a duration it had, whichever copy it read the duration from, and
\* however often the object was changed, or deleted and created again, in between.
THEOREM NotBeforeItsTimeByEither == DurationsFit => (Spec => NotBeforeItsTime)
<1> SUFFICES ASSUME DurationsFit
             PROVE  Spec => NotBeforeItsTime
  OBVIOUS
<1> DEFINE Inv == TypeInv /\ DatedInv
           InTime == \A a \in Accesses :
                       LET j == job[KindOf[a]]
                       IN (/\ j.pc = "expired" /\ job'[KindOf[a]] # j
                           /\ accesses[a] # Absent /\ accesses[a].uid = j.obj.uid
                           /\ accesses'[a] = Absent)
                          => \E sp \in specHist[a] : sp.duration # NoDuration
                                                     /\ now >= accesses[a].created + sp.duration
<1>1. Init => Inv
  <2>1. Init => \A w \in Kinds : job[w].pc = Idle
    BY DEF Init, AllIdle, NoJob
  <2> QED
    BY <2>1, InitType, InitHistory, InitInOrder, InitDue
       DEF Init, DatedInv, AllLapse, Lapses, ReadCurrent, CopiesInOrder
<1>2. Inv /\ [Next]_vars => Inv'
  <2> SUFFICES ASSUME Inv, [Next]_vars
               PROVE  Inv'
    OBVIOUS
  <2>1. TypeInv' /\ ClusterMoves
    BY NextType, NextMoves
  <2>2. Seen' /\ Written' /\ CachesCurrent' /\ AccessesInOrder'
    BY <2>1, MovesSeen, MovesWritten, MovesCurrent, MovesInOrder DEF DatedInv, TypeInv
  <2>3. AccessesDue' /\ AllLapse' /\ ReadCurrent' /\ CopiesInOrder'
    BY <2>1, DueNext, LapsesNext, ReadNext, CopiesNext DEF DatedInv
  <2> QED
    BY <2>1, <2>2, <2>3 DEF DatedInv
<1>3. Inv /\ [Next]_vars => InTime
  BY DeletedAfter
<1>4. Spec => [][Inv /\ Next]_vars
  <2> HIDE DEF Inv
  <2> QED
    BY <1>1, <1>2, PTL DEF Spec
<1>5. [Inv /\ Next]_vars => [InTime]_vars
  <2> HIDE DEF Inv, InTime
  <2> QED
    BY <1>3
<1> HIDE DEF Inv
<1> QED
  BY <1>4, <1>5, PTL DEF NotBeforeItsTime

-----------------------------------------------------------------------------
(* The ledger: how old what a worker goes by can be *)

\* k is named for a policy of a and service s.
NamedFor(k, a, s) ==
  /\ InScope(a, s)
  /\ \E d \in Directions, c \in Targets :
       ValidateTargetCIDR(c) /\ k = PolicyKey(a, s, d, c)

\* The policies' labels are those of objects and services that they are named for.
LabelsNamed ==
  \A k \in NetpolKeys :
    /\ netpols[k] # Absent => \A l \in LabelsOf(netpols[k]) : NamedFor(k, l.owner, l.svc)
    /\ npCache[k] # Absent => \A l \in LabelsOf(npCache[k]) : NamedFor(k, l.owner, l.svc)

\* Each listed policy was read with a service that its name is for.
OwnedNamed(j) == \A o \in j.owned : \E a \in Accesses : NamedFor(o.key, a, o.svc)

\* A worker writes policies of its own object only, and deletes one again only for an
\* object read as being deleted.
Aims(j) ==
  /\ j.pc \notin {Idle, "expired", "list", "cleanup"} => \A l \in j.listed : InScope(j.req, l.svc)
  /\ j.pc \in {"targets", "undeploy"} => /\ InScope(j.req, j.source.svc)
                                         /\ \A c \in j.targets : ValidateTargetCIDR(c)
  /\ j.pc = "undeploy" => j.obj.deleting /\ NamedFor(j.undeploy, j.req, j.source.svc)

\* No policy names its owner by a later incarnation than the copy a worker holds.
HeldOwners ==
  \A w \in Kinds : job[w].pc # Idle =>
    \A k \in NetpolKeys :
      netpols[k] # Absent /\ netpols[k].owner = job[w].req
        => netpols[k].uid <= job[w].obj.uid

Succession == AccessesInOrder /\ CopiesInOrder /\ OwnersInOrder /\ HeldOwners

LedgerInv ==
  /\ CachesCurrent /\ LabelsNamed /\ Succession
  /\ \A w \in Kinds : OwnedNamed(job[w]) /\ Aims(job[w])

\* What a worker comes to aim at.
LEMMA AimsMove ==
  ASSUME NEW w \in Kinds, NEW i, Holds(w, i), Aims(i),
         NEW j, Holds(w, j), JobMove(w, i, j)
  PROVE  Aims(j)
<1>1. CASE Starts(w, j)
  BY <1>1 DEF Starts, Aims
<1>2. Aims(NoJob)
  BY DEF Aims, NoJob, Idle
<1>3. ASSUME Works(w, i, j), Owns(i, j) \/ Sweeps(i, j)
      PROVE  Aims(j)
  BY <1>3 DEF Owns, Sweeps, Aims
<1>4. ASSUME Works(w, i, j), Lists(w, i, j)
      PROVE  Aims(j)
  BY <1>4 DEF Works, SameCopy, Lists, Aims
<1>5. ASSUME Works(w, i, j), Enters(i, j)
      PROVE  Aims(j)
  <2>1. \A l \in i.listed : InScope(j.req, l.svc)
    BY <1>5 DEF Works, SameCopy, Enters, Aims, Idle
  <2>2. \A T, annotated : \A c \in FinalCidrs(T, annotated) : ValidateTargetCIDR(c)
    BY DEF FinalCidrs
  <2> QED
    BY <1>5, <2>1, <2>2 DEF Enters, Aims
<1>6. ASSUME Works(w, i, j), Handles(i, j)
      PROVE  Aims(j)
  <2>1. /\ j.req = i.req /\ j.obj.deleting = i.obj.deleting
        /\ i.pc \in {"targets", "undeploy"} /\ j.pc \in {"services", "targets", "undeploy"}
        /\ j.targets \subseteq i.targets /\ j.listed = i.listed
        /\ j.pc \in {"targets", "undeploy"} => j.source = i.source
    BY <1>6 DEF Works, SameCopy, Handles
  <2>2. /\ \A l \in i.listed : InScope(i.req, l.svc)
        /\ InScope(i.req, i.source.svc)
        /\ \A c \in i.targets : ValidateTargetCIDR(c)
    BY <2>1 DEF Aims, Idle
  <2>3. i.source.direction \in Directions /\ i.targets \subseteq Targets
    BY <2>1 DEF Holds, Jobs, Sources
  <2>4. j.pc = "undeploy" => j.obj.deleting /\ NamedFor(j.undeploy, j.req, j.source.svc)
    BY <1>6, <2>1, <2>2, <2>3 DEF Handles, NamedFor
  <2> QED
    BY <2>1, <2>2, <2>4 DEF Aims
<1> QED
  BY <1>1, <1>2, <1>3, <1>4, <1>5, <1>6 DEF JobMove, Works, Aims

\* What it comes to list of policies.
LEMMA OwnedMove ==
  ASSUME TypeInv, LabelsNamed, NEW w \in Kinds, NEW i, OwnedNamed(i),
         NEW j, Holds(w, j), JobMove(w, i, j)
  PROVE  OwnedNamed(j)
<1>1. CASE Owns(i, j)
  <2> SUFFICES ASSUME NEW o \in j.owned
               PROVE  \E a \in Accesses : NamedFor(o.key, a, o.svc)
    BY DEF OwnedNamed
  <2>1. o.key \in NetpolKeys /\ npCache[o.key] # Absent
    BY <1>1 DEF Owns, Holds, Jobs
  <2>2. PICK l \in LabelsOf(npCache[o.key]) : o.svc = l.svc
    BY <1>1 DEF Owns, LabelsFor
  <2>3. NamedFor(o.key, l.owner, o.svc)
    BY <2>1, <2>2 DEF LabelsNamed
  <2>4. l.owner \in Accesses
    <3>1. npCache[o.key] \in NetpolObjects
      BY <2>1 DEF TypeInv, ClusterTypeOK, NetpolsTypeOK, Maybe
    <3> QED
      BY <2>2, <3>1 DEF LabelsOf, NetpolObjects, OwnerLabels
  <2> QED
    BY <2>3, <2>4
<1>2. CASE j = i \/ Starts(w, j) \/ (Works(w, i, j) /\ ~Owns(i, j))
  BY <1>2 DEF Starts, Works, OwnedNamed
<1>3. OwnedNamed(NoJob)
  BY DEF OwnedNamed, NoJob
<1> QED
  BY <1>1, <1>2, <1>3 DEF JobMove

\* A requested policy is named for its owner and its service.
LEMMA RequestedNamed ==
  ASSUME NEW k, NEW n, Requested(svcHist, specHist, k, n)
  PROVE  NamedFor(k, n.owner, n.svc)
BY DEF Requested, AsksFor, NamedFor, InScope, ValidateTargetCIDR

\* What deployResource stores keeps the labels of what it found.
LEMMA StoredNamed ==
  ASSUME TypeInv, AllSeek, LabelsNamed, NEW w \in Kinds, NEW k \in NetpolKeys, NEW n,
         Stored(w, k, n)
  PROVE  \A l \in LabelsOf(n) : NamedFor(k, l.owner, l.svc)
<1>1. NamedFor(k, n.owner, n.svc)
  BY StoredRequested, RequestedNamed
<1>2. n.others = {} \/ (npCache[k] # Absent /\ n.others \subseteq LabelsOf(npCache[k]))
  <2>1. PICK m : /\ m.others = {}
                 /\ n = m \/ (npCache[k] # Absent /\ n = Merged(m, npCache[k]))
                 /\ \E o, a, src, c : m = Policy(o, a, src, c)
    BY DEF Stored, Policy
  <2>2. npCache[k] # Absent /\ n = Merged(m, npCache[k])
          => n.others \subseteq LabelsOf(npCache[k])
    BY <2>1 DEF Merged, Policy
  <2> QED
    BY <2>1, <2>2
<1> QED
  BY <1>1, <1>2 DEF LabelsNamed, LabelsOf

\* Every step keeps the labels such.
LEMMA LabelsNext ==
  ASSUME TypeInv, AllSeek, LabelsNamed, [Next]_vars
  PROVE  LabelsNamed'
<1> DEFINE Fits(k, n) == n # Absent => \A l \in LabelsOf(n) : NamedFor(k, l.owner, l.svc)
<1>1. \A k \in NetpolKeys : Fits(k, netpols[k]) /\ Fits(k, npCache[k])
  BY DEF LabelsNamed
<1>2. \A k \in NetpolKeys : Fits(k, netpols'[k]) /\ Fits(k, npCache'[k])
  <2>1. CASE PoliciesStayOrGo
    BY <1>1, <2>1 DEF PoliciesStayOrGo
  <2>2. ASSUME NEW w \in Kinds, NEW k \in NetpolKeys, PolicyStep(w, k)
        PROVE  \A i \in NetpolKeys : Fits(i, netpols'[i]) /\ Fits(i, npCache'[i])
    <3>1. PICK n : WriteNetpol(k, n) /\ Fits(k, n)
      BY <2>2, StoredNamed DEF PolicyStep, Swept, Undone, Stored
    <3>2. \A i \in NetpolKeys : /\ npCache'[i] = npCache[i]
                                /\ netpols'[i] = IF i = k THEN n ELSE netpols[i]
      BY <3>1 DEF WriteNetpol, TypeInv, ClusterTypeOK, NetpolsTypeOK
    <3> QED
      BY <1>1, <3>1, <3>2
  <2> QED
    BY <2>1, <2>2, PoliciesChange
<1> QED
  BY <1>2 DEF LabelsNamed

\* A policy is stored with the name and the uid of the object of a worker that is not
\* at rest.
LEMMA OwnersMove ==
  ASSUME TypeInv, [Next]_vars, NEW k \in NetpolKeys
  PROVE  \/ netpols'[k] \in {netpols[k], Absent}
         \/ \E w \in Kinds : /\ job[w].pc # Idle
                             /\ netpols'[k].owner = job[w].req
                             /\ netpols'[k].uid = job[w].obj.uid
<1>1. CASE PoliciesStayOrGo
  BY <1>1 DEF PoliciesStayOrGo
<1>2. ASSUME NEW w \in Kinds, NEW i \in NetpolKeys, PolicyStep(w, i)
      PROVE  \/ netpols'[k] \in {netpols[k], Absent}
             \/ /\ job[w].pc # Idle
                /\ netpols'[k].owner = job[w].req /\ netpols'[k].uid = job[w].obj.uid
  <2>1. PICK n : /\ WriteNetpol(i, n)
                 /\ n = Absent \/ Stored(w, i, n)
    BY <1>2 DEF PolicyStep, Swept, Undone, Stored
  <2>2. netpols'[k] = IF k = i THEN n ELSE netpols[k]
    BY <2>1 DEF WriteNetpol, TypeInv, ClusterTypeOK, NetpolsTypeOK
  <2>3. Stored(w, i, n) =>
          job[w].pc # Idle /\ n.owner = job[w].req /\ n.uid = job[w].obj.uid
    BY StoredType DEF Stored, Idle
  <2> QED
    BY <2>1, <2>2, <2>3
<1> QED
  BY <1>1, <1>2, PoliciesChange

\* So uids stay in order, in stores, caches, policies and what the workers hold.
LEMMA SuccessionNext ==
  ASSUME TypeInv, TypeInv', Succession, [Next]_vars
  PROVE  Succession'
<1>1. ClusterTypeOK /\ ClusterTypeOK' /\ ClusterMoves
  BY NextMoves DEF TypeInv
<1>2. AccessesInOrder' /\ CopiesInOrder'
  BY <1>1, MovesInOrder, CopiesNext DEF Succession
<1>3. \A k \in NetpolKeys :
        \/ netpols'[k] \in {netpols[k], Absent}
        \/ \E o : CopyOf(netpols'[k].owner, o) /\ o.uid = netpols'[k].uid
  BY OwnersMove DEF Succession, CopiesInOrder
<1>4. OwnersInOrder'
  BY <1>1, <1>3, OwnersStay DEF Succession
<1>5. HeldOwners'
  <2> SUFFICES ASSUME NEW w \in Kinds, NEW j, j = job'[w], j.pc # Idle,
                      NEW k \in NetpolKeys, NEW n, n = netpols'[k], n # Absent,
                      n.owner = j.req
               PROVE  n.uid <= j.obj.uid
    BY DEF HeldOwners
  <2>1. /\ j.req \in Accesses /\ KindOf[j.req] = w /\ j.obj.uid \in Nat
        /\ n.uid \in Nat
    BY <1>1, UidType DEF Uids, TypeInv, JobsHeld, Holds, AccessObjects
  <2>2. CASE j = job[w] \/ Works(w, job[w], j)
    <3>1. /\ job[w].pc # Idle /\ job[w].req = j.req /\ job[w].obj.uid = j.obj.uid
      BY <2>2 DEF Works, SameCopy
    <3>2. CASE n = netpols[k]
      BY <3>1, <3>2 DEF Succession, HeldOwners
    <3>3. ASSUME NEW v \in Kinds, job[v].pc # Idle, n.owner = job[v].req,
                 n.uid = job[v].obj.uid
          PROVE  n.uid <= j.obj.uid
      <4>1. KindOf[job[v].req] = v
        BY <3>3 DEF TypeInv, JobsHeld, Holds
      <4>2. v = w
        BY <2>1, <3>3, <4>1
      <4> QED
        BY <2>1, <3>1, <3>3, <4>2
    <3> QED
      BY <3>2, <3>3, OwnersMove
  <2>3. CASE Starts(w, j)
    <3>1. /\ accCache[j.req] # Absent /\ accCache[j.req] \in AccessObjects
          /\ j.obj = Dated(accCache[j.req])
      BY <1>1, <2>1, <2>3, MaybeIn DEF Starts, ClusterTypeOK, AccessesTypeOK
    <3>2. j.obj.uid = accCache[j.req].uid
      BY <3>1, DatedKeeps
    <3>3. NoLater(n.uid, accCache[j.req])
      <4>1. CASE n = netpols[k]
        BY <4>1 DEF Succession, OwnersInOrder
      <4>2. ASSUME NEW v \in Kinds, job[v].pc # Idle, n.owner = job[v].req,
                   n.uid = job[v].obj.uid
            PROVE  NoLater(n.uid, accCache[j.req])
        BY <4>2 DEF Succession, CopiesInOrder, CopyOf
      <4> QED
        BY <4>1, <4>2, OwnersMove
    <3> QED
      BY <3>1, <3>2, <3>3 DEF NoLater
  <2>4. j # NoJob
    BY DEF NoJob
  <2> QED
    BY <2>2, <2>3, <2>4, JobsMove DEF JobMove
<1> QED
  BY <1>2, <1>4, <1>5 DEF Succession

\* Every step keeps what the ledger needs.
LEMMA LedgerInvNext ==
  ASSUME TypeInv, Provenance, LedgerInv, [Next]_vars
  PROVE  LedgerInv'
<1>1. TypeInv' /\ ClusterMoves
  BY NextType, NextMoves
<1>2. CachesCurrent' /\ LabelsNamed' /\ Succession'
  BY <1>1, MovesCurrent, LabelsNext, SuccessionNext DEF LedgerInv, Provenance
<1>3. ASSUME NEW w \in Kinds, NEW j, j = job'[w]
      PROVE  OwnedNamed(j) /\ Aims(j)
  <2>1. Holds(w, job[w]) /\ Holds(w, j)
    BY <1>1, <1>3 DEF TypeInv, JobsHeld
  <2>2. JobMove(w, job[w], j)
    BY <1>3, JobsMove
  <2> QED
    BY <2>1, <2>2, OwnedMove, AimsMove DEF LedgerInv
<1>4. \A w \in Kinds : OwnedNamed(job'[w]) /\ Aims(job'[w])
  BY <1>3
<1> QED
  BY <1>2, <1>4 DEF LedgerInv, OwnedNamed, Aims, NamedFor

\* The first states: caches as stored, nothing held, no policy.
LEMMA InitLedgerInv == Init => LedgerInv
<1>1. Init => \A w \in Kinds : job[w] = NoJob
  BY DEF Init, AllIdle
<1>2. OwnedNamed(NoJob) /\ Aims(NoJob) /\ NoJob.pc = Idle
  BY DEF OwnedNamed, Aims, NoJob, Idle
<1> QED
  BY <1>1, <1>2, InitHistory, InitInOrder
     DEF Init, ClusterInit, LedgerInv, LabelsNamed, Succession, CopiesInOrder, HeldOwners

-----------------------------------------------------------------------------
(* The ledger: every step keeps it *)

\* A policy is named for one object and one service.
LEMMA NamedApart ==
  ASSUME KeysApart, NEW a \in Accesses, NEW b \in Accesses,
         NEW s \in Services, NEW t \in Services, NEW k, NamedFor(k, a, s), NamedFor(k, b, t)
  PROVE  a = b /\ s = t
BY DEF KeysApart, NamedFor

\* A step changes no policy, or it is a user's, the garbage collector's or a worker's.
LEMMA PolicyChanges ==
  ASSUME TypeInv, [Next]_vars
  PROVE  \/ UNCHANGED netpols
         \/ \E k \in NetpolKeys :
              \/ DeleteNetpol(k) \/ CollectNetpol(k)
              \/ UNCHANGED Claims /\ \E w \in Kinds : PolicyStep(w, k)
<1>1. CASE UserStep \/ PlatformStep
  BY <1>1 DEF UserStep, PlatformStep, PutService, DeleteService, CreateAccess, EditAccess,
              DeleteAccess, DeliverService, CollectAccess, DeliverAccess, DeliverNetpol,
              TimerFires, Resync, Tick, npVars
<1>2. ASSUME NEW w \in Kinds, WorkerStep(w)
      PROVE  \/ UNCHANGED netpols
             \/ UNCHANGED Claims /\ \E k \in NetpolKeys : PolicyStep(w, k)
  <2>1. WorkerChanges(w)
    BY <1>2, WorkerChange
  <2>2. \/ UNCHANGED npVars
        \/ UNCHANGED <<svcVars, accVars, edits>> /\ \E k \in NetpolKeys : PolicyStep(w, k)
    BY <2>1 DEF WorkerChanges, Fault, NoFault, bounds
  <2> QED
    BY <2>2 DEF npVars, svcVars, accVars, Claims
<1>3. CASE Restart \/ (\E a \in Accesses : Reconcile(a)) \/ UNCHANGED vars
  BY <1>3 DEF Restart, ClusterRestart, stores, Reconcile, ReconcileGone, ReconcileStart,
              npVars, vars, clusterVars
<1> QED
  BY <1>1, <1>2, <1>3 DEF Next

\* What a worker takes away has lost its ground.
LEMMA TakenIsForfeited ==
  ASSUME KeysApart, TypeInv, Provenance, LedgerInv,
         NEW w \in Kinds, NEW k \in NetpolKeys, Swept(w, k) \/ Undone(w, k)
  PROVE  Forfeited(Claims, netpols[k])
<1> DEFINE n == netpols[k]
           i == job[w]
<1>1. n # Absent
  BY DEF Swept, Undone
<1>2. n.owner \in Accesses /\ n.svc \in Services /\ n.uid \in Nat
  BY <1>1 DEF TypeInv, ClusterTypeOK, NetpolsTypeOK, Maybe, NetpolObjects
<1>3. NamedFor(k, n.owner, n.svc)
  BY <1>1, RequestedNamed DEF Provenance, PoliciesRequested
<1>4. CASE Swept(w, k)
  <2>1. PICK o \in i.owned : o.key = k /\ IsOrphan(o)
    BY <1>4 DEF Swept
  <2>2. o.svc \in Services
    BY <2>1 DEF TypeInv, JobsHeld, Jobs
  <2>3. PICK a \in Accesses : NamedFor(k, a, o.svc)
    BY <2>1 DEF LedgerInv, OwnedNamed
  <2>4. n.svc = o.svc
    BY <1>2, <1>3, <2>2, <2>3, NamedApart
  <2>5. services[n.svc] = Absent \/ n.svc \in svcEvents
    BY <1>2, <2>1, <2>4 DEF LedgerInv, CachesCurrent, IsOrphan
  <2> QED
    BY <2>5 DEF Forfeited, Claims
<1>5. CASE Undone(w, k)
  <2>1. /\ i.pc # Idle /\ i.req \in Accesses /\ i.obj.uid \in Nat
        /\ i.source.svc \in Services
    BY <1>5 DEF Undone, TypeInv, JobsHeld, Holds, AccessObjects, Sources, Idle
  <2>2. NamedFor(k, i.req, i.source.svc) /\ i.obj.deleting
    BY <1>5 DEF Undone, LedgerInv, Aims
  <2>3. n.owner = i.req
    BY <1>2, <1>3, <2>1, <2>2, NamedApart
  <2>4. CopyOf(i.req, i.obj) /\ n.uid <= i.obj.uid
    BY <1>1, <2>1, <2>3 DEF LedgerInv, Succession, CopiesInOrder, HeldOwners
  <2>5. ~OwnedBy(n, accesses[i.req]) \/ accesses[i.req].deleting
    BY <1>2, <2>1, <2>2, <2>4, OwnerGoing DEF TypeInv
  <2> QED
    BY <2>3, <2>5 DEF Forfeited, Claims
<1> QED
  BY <1>4, <1>5

\* Every step keeps the ledger.
LEMMA LedgerStep ==
  ASSUME KeysApart, TypeInv, TypeInv', Provenance, LedgerInv, [Next]_vars
  PROVE  Ledger!Next
<1>1. ASSUME UNCHANGED netpols
      PROVE  Ledger!Next
  <2>1. Kept(Claims, Claims')
    BY NextMoves, MovesGrow DEF Grows, Kept, Claims
  <2> QED
    BY <1>1, <2>1 DEF Ledger!Next, Ledger!Claim
<1>2. ASSUME NEW k \in NetpolKeys, DeleteNetpol(k)
      PROVE  Ledger!Next
  <2>1. Claims' = [Claims EXCEPT !.acts = @ + 1]
    BY <1>2 DEF DeleteNetpol, Edit, Claims, svcVars, accVars
  <2>2. Ledger!TakeAway(k)
    BY <1>2, <2>1 DEF DeleteNetpol, WriteNetpol, Ledger!TakeAway, Ledger!Becomes
  <2> QED
    BY <2>2 DEF Ledger!Next
<1>3. ASSUME NEW k \in NetpolKeys, WriteNetpol(k, Absent), UNCHANGED Claims,
             Forfeited(Claims, netpols[k])
      PROVE  Ledger!Next
  <2>1. Ledger!Lift(k)
    BY <1>3 DEF WriteNetpol, Ledger!Lift, Ledger!Becomes
  <2> QED
    BY <2>1 DEF Ledger!Next
<1>4. ASSUME NEW k \in NetpolKeys, CollectNetpol(k)
      PROVE  Ledger!Next
  <2>1. UNCHANGED Claims
    BY <1>4 DEF CollectNetpol, Claims, svcVars, accVars, bounds
  <2>2. Forfeited(Claims, netpols[k])
    BY <1>4 DEF CollectNetpol, Forfeited, Claims
  <2> QED
    BY <1>3, <1>4, <2>1, <2>2 DEF CollectNetpol
<1>5. ASSUME NEW w \in Kinds, NEW k \in NetpolKeys, UNCHANGED Claims, PolicyStep(w, k)
      PROVE  Ledger!Next
  <2>1. CASE Swept(w, k) \/ Undone(w, k)
    BY <1>3, <1>5, <2>1, TakenIsForfeited DEF Swept, Undone
  <2>2. ASSUME NEW n, Stored(w, k, n)
        PROVE  Ledger!Next
    <3>1. n # Absent
      BY <2>2, StoredType, MarkerAssumption
    <3>2. netpols'[k] = n /\ netpols' = [netpols EXCEPT ![k] = netpols'[k]]
      BY <2>2 DEF Stored, WriteNetpol, TypeInv, ClusterTypeOK, NetpolsTypeOK
    <3>3. Requested(svcHist, specHist, k, netpols'[k])
      BY <2>2, <3>2, StoredRequested DEF Provenance
    <3>4. Ground(Claims, k, netpols'[k])
      BY <3>3 DEF Ground, Claims
    <3>5. Ledger!Enact(k)
      BY <1>5, <3>1, <3>2, <3>4 DEF Ledger!Enact, Ledger!Becomes
    <3> QED
      BY <3>5 DEF Ledger!Next
  <2> QED
    BY <1>5, <2>1, <2>2 DEF PolicyStep
<1> QED
  BY <1>1, <1>2, <1>4, <1>5, PolicyChanges

\* Where the name of a policy tells its object and its service, the two controllers
\* together implement the ledger: each step, of either worker, the users, the cluster
\* or a restart, changes at most one policy, to one that was asked for, or takes one
\* away that has lost its ground on the server at that moment.
THEOREM LedgerKeptByEither == KeysApart => (Spec => KeepsLedger)
<1> SUFFICES ASSUME KeysApart
             PROVE  Spec => KeepsLedger
  OBVIOUS
<1> DEFINE Inv == TypeInv /\ Provenance /\ LedgerInv
<1>1. Init => Inv /\ Ledger!Init
  BY InitType, InitProvenance, InitLedgerInv DEF Init, ClusterInit, Ledger!Init
<1>2. Inv /\ [Next]_vars => Inv' /\ [Ledger!Next]_<<Claims, netpols>>
  BY ProvenanceNext, LedgerInvNext, LedgerStep
<1> HIDE DEF Inv
<1> QED
  BY <1>1, <1>2, PTL DEF Spec, KeepsLedger, Ledger!Spec
=============================================================================
