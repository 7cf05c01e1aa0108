-------------------------- MODULE AccessProperties --------------------------
(***************************************************************************)
(* What the Access controller must and does guarantee, and the fairness    *)
(* under which it gets anything done.                                      *)
(***************************************************************************)
EXTENDS AccessController, Intent

\* Nothing is left to do: no event under way, no request, no reconcile.
Quiet == Settled /\ queue = {} /\ pc = Idle

Living(a) == accesses[a] # Absent /\ ~accesses[a].deleting

\* What the stored services and Access a ask for now, with a direction written
\* in lower case.
Wanted(a, s, t, d) ==
  /\ Living(a) /\ NsOf[s] = AccessNs[a]
  /\ HasDetails(services[s]) /\ HasDetails(services[t])
  /\ Asks(services[s], accesses[a].spec, d, t)
  /\ DirectionOf(services[s], accesses[a].spec) = d

InPlace(a, s, t, d) ==
  LET k == PolicyKey(a, s, d, t)
  IN /\ netpols[k] # Absent
     /\ Allows(netpols[k].spec, d \in {"ingress", "all"}, d \in {"egress", "all"},
               services[s].pods, services[t].pods, NsOf[t], services[s].ports)

\* When nothing is left to do and no API write failed, every access asked for is
\* in place, with the pods and ports the services have now.
CoveredWhenQuiet ==
  (Quiet /\ faults = 0) =>
    \A a \in Accesses, s, t \in Services, d \in Directions :
      Wanted(a, s, t, d) => InPlace(a, s, t, d)

Generated(a) ==
  {k \in NetpolKeys : netpols[k] # Absent /\ netpols[k].owner = a
                      /\ OwnedBy(netpols[k], accesses[a])}

\* The garbage collector has collected every policy of a deleted incarnation.
Collected == \A k \in NetpolKeys : netpols[k] # Absent => OwnedBy(netpols[k], accesses[netpols[k].owner])

\* When nothing is left to do and no API write failed, the status of an Access
\* lists the policies of everything it asks for, and none that is not there,
\* although it is computed from an old copy and written onto another, which may
\* be another incarnation.
StatusTruthful ==
  (Quiet /\ Collected /\ faults = 0) =>
    \A a \in Accesses : Living(a) =>
      /\ accesses[a].netpols \subseteq Generated(a)
      /\ \A s, t \in Services, d \in Directions :
           Wanted(a, s, t, d) => PolicyKey(a, s, d, t) \in accesses[a].netpols

\* When nothing is left to do and no API write failed, no policy of a living Access
\* is labelled with a service that does not exist.
NoOrphanWhenQuiet ==
  (Quiet /\ faults = 0) =>
    \A a \in Accesses : Living(a) =>
      \A k \in Generated(a) : services[netpols[k].svc] # Absent

\* Rule r of policy n, in direction d, was asked for by versions of the source in
\* n's label, of a target and of the Access in n's ownerReference.
RuleRequested(hist, specs, n, r, d) ==
  \E t \in Services, sp \in specs[n.owner] :
    /\ NsOf[n.svc] = AccessNs[n.owner]
    /\ \E v \in hist[n.svc] : Asks(v, sp, d, t) \/ Asks(v, sp, "all", t)
    /\ \E v \in hist[n.svc], w \in hist[t] :
         /\ n.spec.podSelector = v.pods
         /\ r = [pods |-> w.pods, ns |-> NsOf[t],
                 ports |-> ConvertServicePortsToPolicyPorts(v.ports)]

Requested(hist, specs, n) ==
  /\ \A r \in n.spec.ingress : RuleRequested(hist, specs, n, r, "ingress")
  /\ \A r \in n.spec.egress  : RuleRequested(hist, specs, n, r, "egress")

\* Whatever restarts, lags or is deleted: no stored policy holds a rule that nobody
\* asked for.
RulesRequested ==
  \A k \in NetpolKeys : netpols[k] # Absent => Requested(svcHist, specHist, netpols[k])

\* The abstract view of the controller, see PolicyLedger.
Claims == [services |-> services, pending |-> svcEvents, accesses |-> accesses,
           svcHist |-> svcHist, specHist |-> specHist, acts |-> edits]

Ground(c, k, n) == Requested(c.svcHist, c.specHist, n)

Ledger == INSTANCE PolicyLedger WITH
            Keys <- NetpolKeys, None <- Absent, claims <- Claims, inForce <- netpols,
            Grounded <- Ground, Forfeit <- Forfeited, Remembers <- Kept

\* The name of a policy, in its namespace, tells the Access and the service it is for.
KeysApart ==
  \A a, b \in Accesses, s, t, x, y \in Services, d, e \in RawDirections :
    /\ NsOf[s] = AccessNs[a] /\ NsOf[t] = AccessNs[b]
    /\ PolicyKey(a, s, d, x) = PolicyKey(b, t, e, y)
    => a = b /\ s = t

\* The controller implements the ledger, although Accesses of one name clean up each
\* other's policies: a step changes one policy, to one whose rules were asked for, or
\* takes one away whose service is gone (or its arrival is still under way to the
\* cache) or whose owner is gone or going.
KeepsLedger == Ledger!Spec

\* The worker deletes an Access only after its creation time and a duration that it
\* had at some time, however often the duration is edited while copies are old.
NotBeforeItsTime ==
  [][ \A a \in Accesses :
        (pc = "expired" /\ pc' # pc /\ accesses[a] # Absent /\ accesses'[a] = Absent)
          => \E sp \in specHist[a] : sp.duration # NoDuration
                                     /\ now >= accesses[a].created + sp.duration ]_vars

-----------------------------------------------------------------------------
(* What the documentation says and the code does not do: each of these is     *)
(* violated, see the findings.                                                 *)

\* access_controller.go: the policy controls traffic leaving (egress) or entering
\* (ingress) the source: one that is named after egress controls egress.
EgressControlled ==
  \A a \in Accesses, s, t \in Services :
    LET n == netpols[PolicyKey(a, s, "egress", t)]
    IN n # Absent => "Egress" \in n.spec.policyTypes

-----------------------------------------------------------------------------
(* Liveness, under the fairness of ClusterAccess *)

Fairness ==
  /\ WF_vars(WorkerStep)
  /\ \A a \in Accesses :
       /\ SF_vars(Reconcile(a))
       /\ WF_vars((DeliverAccess(a) \/ CollectAccess(a) \/ TimerFires(a)) /\ UNCHANGED ctlVars)
       /\ WF_vars(Resync(a) /\ UNCHANGED ctlVars)
  /\ \A s \in Services : WF_vars(DeliverService(s) /\ UNCHANGED ctlVars)
  /\ \A k \in NetpolKeys :
       WF_vars((DeliverNetpol(k) \/ CollectNetpol(k)) /\ UNCHANGED ctlVars)
  /\ WF_vars(Tick /\ UNCHANGED ctlVars)

FairSpec == Spec /\ Fairness

\* An Access whose stored deadline has passed does not stay, whatever its duration
\* has become since: the write of the deadline, a timer or, if a reconcile passes
\* the deadline, the resync brings it before the worker again.
StoredDeadlineEnforced ==
  \A a \in Accesses :
    []<>~(Living(a) /\ accesses[a].expiresAt # NoTime /\ now >= accesses[a].expiresAt)

Overdue(a) ==
  Living(a) /\ accesses[a].spec.duration # NoDuration
            /\ now >= accesses[a].created + accesses[a].spec.duration

\* README: duration is how long the access is open: an Access that is over does not
\* keep its policies for ever.  (Violated, see the findings.)
ClosedWhenOver == \A a \in Accesses : []<>~(Overdue(a) /\ Generated(a) # {})

=============================================================================
