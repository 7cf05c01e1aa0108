-------------------------- MODULE ExternalProperties --------------------------
(***************************************************************************)
(* What the ExternalAccess and ClusterExternalAccess controllers must and  *)
(* do guarantee, and the fairness under which they get anything done.      *)
(***************************************************************************)
EXTENDS ExternalController, Intent

-----------------------------------------------------------------------------
(* What users ask for *)

\* Version v of service s and spec sp of object a ask for CIDR c in direction d:
\* as the spec has it or as the annotation does, with a slash or a hyphen.
AsksFor(a, s, v, sp, d, c) ==
  LET annotated == KindOf[a] \in AnnotatedKinds
  IN /\ c.form = "cidr"
     /\ AccessNs[a] = Everywhere \/ AccessNs[a] = NsOf[s]
     /\ sp.selector # BadSelector /\ v.label \in sp.selector
     /\ IF annotated /\ v.targets # NoAnnotation
        THEN c \in v.targets \/ [c EXCEPT !.form = "hyphen"] \in v.targets
        ELSE c \in sp.targets
     /\ (IF annotated /\ v.direction # NoAnnotation THEN v.direction ELSE sp.direction)
          \in AnyCase(d)

OpensTo(spec, type, c, ports) ==
  /\ type \in spec.policyTypes
  /\ (IF type = "Ingress" THEN spec.ingress ELSE spec.egress)
       = {[cidr |-> c, ports |-> ConvertServicePortsToPolicyPorts(ports)]}

\* spec gives the pods of v the CIDR c in direction d and nothing else.
Grants(spec, v, d, c) ==
  /\ spec.podSelector = v.pods
  /\ IF d \in {"ingress", "all"} THEN OpensTo(spec, "Ingress", c, v.ports)
                                 ELSE Closed(spec, "Ingress")
  /\ IF d \in {"egress", "all"}  THEN OpensTo(spec, "Egress", c, v.ports)
                                 ELSE Closed(spec, "Egress")

Living(a) == accesses[a] # Absent /\ ~accesses[a].deleting

Wanted(a, s, d, c) ==
  /\ Living(a) /\ HasDetails(services[s])
  /\ AsksFor(a, s, services[s], accesses[a].spec, d, c)

InPlace(a, s, d, c) ==
  LET k == PolicyKey(a, s, d, c)
  IN netpols[k] # Absent /\ Grants(netpols[k].spec, services[s], d, c)

Covered(a) ==
  \A s \in Services, d \in Directions, c \in Targets :
    Wanted(a, s, d, c) => InPlace(a, s, d, c)

\* Nothing is left to do: no event under way, no request, no reconcile.
Quiet == Settled /\ queue = {} /\ \A w \in Kinds : job[w].pc = Idle

-----------------------------------------------------------------------------
(* Safety *)

\* When nothing is left to do and no API write failed, every CIDR that an object
\* of either kind asks for is open, to the pods and on the ports the services
\* have now, however the caches lag and writes conflict.
CoveredWhenQuiet == (Quiet /\ faults = 0) => \A a \in Accesses : Covered(a)

\* When nothing is left to do and no API write failed, no policy of a living object
\* is for a service that does not exist.
NoOrphanWhenQuiet ==
  (Quiet /\ faults = 0) =>
    \A k \in NetpolKeys :
      netpols[k] # Absent /\ Living(netpols[k].owner) => services[netpols[k].svc] # Absent

\* A version of the service in n's label and a spec of its owner ask for the CIDR
\* and the direction that n grants, and its pods and ports are those of a version.
Requested(hist, specs, k, n) ==
  \E d \in Directions, c \in Targets, sp \in specs[n.owner] :
    /\ k = PolicyKey(n.owner, n.svc, d, c)
    /\ \E v \in hist[n.svc] : AsksFor(n.owner, n.svc, v, sp, d, c)
    /\ \E v \in hist[n.svc] : Grants(n.spec, v, d, c)

\* No stored policy grants what nobody asked for, although annotations, details and
\* policies are read at different times, two kinds may write one policy, writes fail
\* and the process restarts.
NothingUnrequested ==
  \A k \in NetpolKeys : netpols[k] # Absent => Requested(svcHist, specHist, k, netpols[k])

\* The abstract view of both controllers together, see PolicyLedger.
Claims == [services |-> services, pending |-> svcEvents, accesses |-> accesses,
           svcHist |-> svcHist, specHist |-> specHist, acts |-> edits]

Ground(c, k, n) == Requested(c.svcHist, c.specHist, k, n)

Ledger == INSTANCE PolicyLedger WITH
            Keys <- NetpolKeys, None <- Absent, claims <- Claims, inForce <- netpols,
            Grounded <- Ground, Forfeit <- Forfeited, Remembers <- Kept

\* The name of a policy tells the object and the service it is for.
KeysApart ==
  \A a, b \in Accesses, s, t \in Services, d, e \in Directions, c, x \in Targets :
    /\ InScope(a, s) /\ ValidateTargetCIDR(c)
    /\ InScope(b, t) /\ ValidateTargetCIDR(x)
    /\ PolicyKey(a, s, d, c) = PolicyKey(b, t, e, x)
    => a = b /\ s = t

\* The two controllers implement one ledger: a step of either changes one policy, to
\* one that was asked for, or takes one away whose service is gone (or its arrival
\* is still under way to the cache) or whose owner is gone or going.
KeepsLedger == Ledger!Spec

\* a asks for a policy that the API server refuses: one for an address without a mask.
Refused(a) ==
  \E s \in Services :
    /\ HasDetails(services[s]) /\ InScope(a, s)
    /\ accesses[a].spec.selector # BadSelector
    /\ services[s].label \in accesses[a].spec.selector
    /\ LET v == Read(KindOf[a], services[s])
       IN /\ IsValidDirection(DirectionOf(v, accesses[a].spec))
          /\ \E c \in TargetsOf(v, accesses[a].spec) : c.form = "address"

\* The label on a policy tells its owner.
LabelsApart ==
  \A a, b \in Accesses : KindOf[a] = KindOf[b] /\ AccessName[a] = AccessName[b] => a = b

AllThere(o) ==
  /\ \A s \in o.services : services[s] # Absent
  /\ \A k \in o.netpols : netpols[k] # Absent

\* When nothing is left to do and no API write failed, the status of an object lists
\* no service and no policy that has gone, although the lists are computed from an old
\* copy and the write is refused while a condition is False: as one is for good that
\* tells of a policy the API server refuses, such objects are excepted.
ListedExist ==
  (Quiet /\ faults = 0) =>
    \A a \in Accesses : Living(a) /\ ~Refused(a) => AllThere(accesses[a])

\* A worker deletes an object only after its creation time and a duration that it
\* had at some time, unless it is another incarnation than the one the worker read.
NotBeforeItsTime ==
  [][ \A a \in Accesses :
        LET j == job[KindOf[a]]
        IN (/\ j.pc = "expired" /\ job'[KindOf[a]] # j
            /\ accesses[a] # Absent /\ accesses[a].uid = j.obj.uid
            /\ accesses'[a] = Absent)
           => \E sp \in specHist[a] : sp.duration # NoDuration
                                      /\ now >= accesses[a].created + sp.duration ]_vars

-----------------------------------------------------------------------------
(* Liveness, under the fairness of ClusterAccess for each of the two workers  *)

Fairness ==
  /\ \A w \in Kinds : WF_vars(WorkerStep(w))
  /\ \A a \in Accesses :
       /\ SF_vars(Reconcile(a))
       /\ WF_vars((DeliverAccess(a) \/ CollectAccess(a) \/ TimerFires(a)) /\ UNCHANGED ctlVars)
       /\ WF_vars(Resync(a) /\ UNCHANGED ctlVars)
  /\ \A s \in Services : WF_vars(DeliverService(s) /\ UNCHANGED ctlVars)
  /\ \A k \in NetpolKeys :
       WF_vars((DeliverNetpol(k) \/ CollectNetpol(k)) /\ UNCHANGED ctlVars)
  /\ WF_vars(Tick /\ UNCHANGED ctlVars)

FairSpec == Spec /\ Fairness

Ownerless(k) == netpols[k] # Absent /\ ~OwnedBy(netpols[k], accesses[netpols[k].owner])

\* Once users leave the cluster alone, everything asked for comes to be in place
\* for good and the policies of deleted objects go for good: neither worker keeps
\* the other from its end.
Converges ==
  <>[](/\ \A a \in Accesses : Covered(a)
       /\ \A k \in NetpolKeys : ~Ownerless(k))

=============================================================================
