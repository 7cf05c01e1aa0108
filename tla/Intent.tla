------------------------------- MODULE Intent -------------------------------
(***************************************************************************)
(* What users ask for, and what a policy lets through, stated on their own *)
(* and not with the operators the controllers use.                         *)
(***************************************************************************)
EXTENDS Cluster

(* What a version of a source and a spec ask for: the annotations win over  *)
(* the spec, case does not matter.                                          *)

AnyCase(d) == {r \in RawDirections : ToLower(r) = d}

Asks(v, sp, d, t) ==
  /\ sp.selector # BadSelector /\ v.label \in sp.selector
  /\ IF v.targets = NoAnnotation THEN t \in sp.targets ELSE t \in v.targets
  /\ IF v.direction = NoAnnotation THEN sp.direction \in AnyCase(d)
                                   ELSE v.direction \in AnyCase(d)

Opens(spec, type, pods, toward, ns, ports) ==
  LET rules == IF type = "Ingress" THEN spec.ingress ELSE spec.egress
  IN /\ type \in spec.policyTypes
     /\ spec.podSelector = pods
     /\ rules = {[pods |-> toward, ns |-> ns,
                  ports |-> ConvertServicePortsToPolicyPorts(ports)]}

Closed(spec, type) ==
  /\ type \notin spec.policyTypes
  /\ (IF type = "Ingress" THEN spec.ingress ELSE spec.egress) = {}

\* spec lets in (`in`) and out (`out`) exactly what it should between pods and
\* the pods `toward` of ns.
Allows(spec, in, out, pods, toward, ns, ports) ==
  /\ IF in  THEN Opens(spec, "Ingress", pods, toward, ns, ports) ELSE Closed(spec, "Ingress")
  /\ IF out THEN Opens(spec, "Egress", pods, toward, ns, ports)  ELSE Closed(spec, "Egress")

-----------------------------------------------------------------------------
(* The operators of PolicyLedger, for records of claims with the fields      *)
(* services, pending (services whose events are under way), accesses,        *)
(* svcHist and specHist.                                                     *)

\* The service of policy n is gone, or not yet seen, or its owner is gone or going.
Forfeited(c, n) ==
  \/ c.services[n.svc] = Absent \/ n.svc \in c.pending
  \/ ~OwnedBy(n, c.accesses[n.owner]) \/ c.accesses[n.owner].deleting

Kept(c, d) ==
  /\ \A s \in Services : c.svcHist[s] \subseteq d.svcHist[s]
  /\ \A a \in Accesses : c.specHist[a] \subseteq d.specHist[a]
=============================================================================
