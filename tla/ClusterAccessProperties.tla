----------------------- MODULE ClusterAccessProperties -----------------------
(***************************************************************************)
(* What the ClusterAccess controller must and does guarantee, and the      *)
(* fairness under which it gets anything done.                             *)
(***************************************************************************)
EXTENDS ClusterAccessController, Intent

-----------------------------------------------------------------------------
(* Safety *)

\* The rule in policy n, stored under k, is the one that direction d asks for
\* between source s (with pods and ports of its version v) and target t (pods of
\* version w): on the source's side as asked, on the target's side reversed.
IsRuleFor(k, n, d, s, v, t, w) ==
  IF n.mirror
  THEN /\ k = MirrorKey(n.owner, s, d, t)
       /\ Allows(n.spec, d \in {"egress", "all"}, d \in {"ingress", "all"},
                 w.pods, v.pods, NsOf[s], v.ports)
  ELSE /\ k = SourceKey(n.owner, s, d, t)
       /\ Allows(n.spec, d \in {"ingress", "all"}, d \in {"egress", "all"},
                 v.pods, w.pods, NsOf[t], v.ports)

\* A version of the service in n's label and a spec of the ClusterAccess in its
\* ownerReference, both in the histories, ask for n (for a mirrored one only if that
\* spec says so), and its pods and ports are those that versions of the two services
\* in the histories had.
Requested(hist, specs, k, n) ==
  \E t \in Services, d \in Directions, sp \in specs[n.owner] :
    /\ \E v \in hist[n.svc] : Asks(v, sp, d, t)
    /\ n.mirror => sp.mirrored
    /\ \E v \in hist[n.svc], w \in hist[t] : IsRuleFor(k, n, d, n.svc, v, t, w)

\* No stored policy was made up, although Reconcile reads annotations, details,
\* policies and the ClusterAccess at different times, and writes over policies
\* that other requests made.
NothingUnrequested ==
  \A k \in NetpolKeys : netpols[k] # Absent => Requested(svcHist, specHist, k, netpols[k])

\* Nothing is left to do: no event under way, no request, no reconcile.
Quiet == Settled /\ queue = {} /\ pc = Idle

Living(a) == accesses[a] # Absent /\ ~accesses[a].deleting

\* The policies the stored services and ClusterAccess a ask for now.
Wanted(a, s, t, d) ==
  /\ Living(a)
  /\ HasDetails(services[s]) /\ HasDetails(services[t])
  /\ Asks(services[s], accesses[a].spec, d, t)

InPlace(a, s, t, d) ==
  LET k == SourceKey(a, s, d, t)
      m == MirrorKey(a, s, d, t)
  IN /\ netpols[k] # Absent
     /\ IsRuleFor(k, netpols[k], d, s, services[s], t, services[t])
     /\ accesses[a].spec.mirrored =>
          /\ netpols[m] # Absent
          /\ IsRuleFor(m, netpols[m], d, s, services[s], t, services[t])

Covered(a) ==
  \A s, t \in Services, d \in Directions : Wanted(a, s, t, d) => InPlace(a, s, t, d)

\* When nothing is left to do and no API write failed, every access asked for is
\* in place, with the pods and ports the services have now: no change of a
\* service, a ClusterAccess or a policy was lost between the caches, the queue
\* and the running reconcile.
CoveredWhenQuiet == (Quiet /\ faults = 0) => \A a \in Accesses : Covered(a)

\* When nothing is left to do and no API write failed, no policy of a living
\* ClusterAccess is labelled with a service that does not exist.
NoOrphanWhenQuiet ==
  (Quiet /\ faults = 0) =>
    \A k \in NetpolKeys :
      netpols[k] # Absent /\ Living(netpols[k].owner) => services[netpols[k].svc] # Absent

\* The abstract view of the controller, see PolicyLedger: what users and the
\* cluster have said so far, and the policies stored.
Claims == [services |-> services, pending |-> svcEvents, accesses |-> accesses,
           svcHist |-> svcHist, specHist |-> specHist, acts |-> edits]

Ground(c, k, n) == Requested(c.svcHist, c.specHist, k, n)

Ledger == INSTANCE PolicyLedger WITH
            Keys <- NetpolKeys, None <- Absent, claims <- Claims, inForce <- netpols,
            Grounded <- Ground, Forfeit <- Forfeited, Remembers <- Kept

\* The controller implements the ledger.  Whatever it reads from caches that lag,
\* whichever write fails and wherever it restarts, a step changes one policy, to one
\* that was asked for, or takes one away whose service is gone (or its arrival is
\* still under way to the cache) or whose owner is gone or going.
KeepsLedger == Ledger!Spec

\* A deadline in the status never moves, whatever becomes of the spec's duration
\* and however often the ClusterAccess is reconciled from an old copy: within one
\* incarnation it is set once, to the creation time plus a duration the
\* ClusterAccess had at some time.
DeadlineFixed ==
  [][ \A a \in Accesses :
        LET old == accesses[a]
            new == accesses'[a]
        IN (old # Absent /\ new # Absent /\ old.uid = new.uid /\ old.expiresAt # new.expiresAt)
           => /\ old.expiresAt = NoTime
              /\ \E sp \in specHist[a] : sp.duration # NoDuration
                                         /\ new.expiresAt = new.created + sp.duration ]_vars

\* The parts of a name as the policy with that name shows them in its labels.
Labelled(p) == [owner |-> p.access, svc |-> IF p.mirror THEN p.peer ELSE p.self]

\* Policies of different ClusterAccesses or different sources have different names.
TellsApart(name) ==
  \A p, q \in NameParts : name[p] = name[q] => Labelled(p) = Labelled(q)

-----------------------------------------------------------------------------
(* What the documentation says and the code does not do: each of these is     *)
(* violated, see the findings.                                                 *)

Correct(k) ==
  \E s, t \in Services, d \in Directions :
    /\ Wanted(netpols[k].owner, s, t, d)
    /\ netpols[k].mirror => accesses[netpols[k].owner].spec.mirrored
    /\ IsRuleFor(k, netpols[k], d, s, services[s], t, services[t])

\* README: a changed label or annotation cleans up or updates the policy, so that
\* no orphaned or incorrect rule stays: when nothing is left to do, every policy
\* of a living ClusterAccess is one that is asked for now.
IncorrectRulesGone ==
  (Quiet /\ faults = 0) =>
    \A k \in NetpolKeys :
      netpols[k] # Absent /\ Living(netpols[k].owner) => Correct(k)

\* The time of ClusterAccess a is over: its status says so or, before it says
\* anything, its creation time and its duration do.
Overdue(a) ==
  /\ Living(a)
  /\ LET o == accesses[a]
     IN IF o.expiresAt # NoTime THEN now >= o.expiresAt
        ELSE o.spec.duration # NoDuration /\ now >= o.created + o.spec.duration

\* README: duration is how long the access is open: the worker deletes an access
\* only after its own time.
OpenForItsDuration ==
  [][ \A a \in Accesses :
        (pc = "expired" /\ pc' # pc /\ accesses[a] # Absent /\ accesses'[a] = Absent)
          => Overdue(a) ]_vars

-----------------------------------------------------------------------------
(* Liveness: the informers deliver, the garbage collector collects, timers    *)
(* fire, the clock advances, and the worker serves its queue, which is first  *)
(* in first out: no request waits for ever.  Users owe nothing, and nothing   *)
(* has to fail or restart.                                                    *)

Fairness ==
  /\ WF_vars(WorkerStep)
  /\ \A a \in Accesses :
       /\ SF_vars(Reconcile(a))
       /\ WF_vars((DeliverAccess(a) \/ CollectAccess(a) \/ TimerFires(a)) /\ UNCHANGED ctlVars)
       /\ WF_vars(Resync(a) /\ UNCHANGED ctlVars)
  /\ \A s \in Services : WF_vars(DeliverService(s) /\ UNCHANGED ctlVars)
  /\ \A k \in NetpolKeys :
       WF_vars((DeliverNetpol(k) \/ CollectNetpol(k)) /\ UNCHANGED ctlVars)
  /\ WF_vars(Tick /\ UNCHANGED ctlVars)

FairSpec == Spec /\ Fairness

Ownerless(k) == netpols[k] # Absent /\ ~OwnedBy(netpols[k], accesses[netpols[k].owner])

\* Once users leave the cluster alone, every access asked for comes to be in
\* place for good, and the policies of deleted ClusterAccesses go for good.
Converges ==
  <>[](/\ \A a \in Accesses : Covered(a)
       /\ \A k \in NetpolKeys : ~Ownerless(k))

\* An access whose deadline has passed does not stay: whatever wake-ups were
\* missed, the periodic resync brings it before the worker again.
ExpiryEnforced == \A a \in Accesses : []<>~Overdue(a)

=============================================================================
