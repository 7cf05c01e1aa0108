----------------------------- MODULE Reconciling -----------------------------
(***************************************************************************)
(* What the reconcilers of ClusterAccess, ExternalAccess and               *)
(* ClusterExternalAccess have in common, each being a copy of the first:   *)
(* conditions, deadlines, the details of a service, the lists in the       *)
(* status.  Operators only, on the copy of an access object that a         *)
(* reconcile holds; the controller modules EXTEND this one.                *)
(***************************************************************************)
EXTENDS Cluster

Idle == "idle"

-----------------------------------------------------------------------------
(* Conditions and deadlines *)

\* setCondition, on the copy.
WithCond(o, type, status) == [o EXCEPT !.conds = [@ EXCEPT ![type] = status]]

\* No condition but Ready is False.
AllConditionsReady(o) == \A t \in CondTypes \ {"Ready"} : o.conds[t] # "False"

DeadlineOfSpec(o) == IF o.spec.duration # NoDuration
                     THEN o.created + ParseDuration(o.spec.duration)
                     ELSE o.expiresAt

\* isExpired sets the deadline of a copy that has none yet, and then compares.
Deadline(o) == IF o.spec.duration # NoDuration /\ o.expiresAt = NoTime
               THEN o.created + ParseDuration(o.spec.duration)
               ELSE o.expiresAt

SetsDeadline(o) == o.expiresAt # Deadline(o)

IsExpiredOnceSet(o) == SetsDeadline(o) /\ now >= Deadline(o)

ExpiredEarly(o) == Deadline(o) # NoTime /\ now + 1 >= Deadline(o)

IsExpired(o) == Deadline(o) # NoTime /\ now >= Deadline(o)

\* The copy isExpired leaves.
Dated(o) == IF SetsDeadline(o)
            THEN WithCond([o EXCEPT !.expiresAt = Deadline(o)], "ExpireReady", "True")
            ELSE o

\* AddAfter keeps the earlier of two times for one request.
Requeue(a, o) ==
  IF o.expiresAt # NoTime /\ now < o.expiresAt
  THEN timers' = [timers EXCEPT ![a] =
                    IF @ # NoTime /\ @ < o.expiresAt THEN @ ELSE o.expiresAt]
  ELSE UNCHANGED timers

-----------------------------------------------------------------------------
(* Services, and the lists in the status *)

\* getServiceDetails succeeds on a service with a pod selector and ports.
HasDetails(v) == v # Absent /\ v.pods # NoPods /\ v.ports # {}

TargetsOf(v, spec)   == IF v.targets = NoAnnotation THEN spec.targets ELSE v.targets
DirectionOf(v, spec) == IF v.direction = NoAnnotation THEN spec.direction ELSE v.direction

AllEntries(o) == o

\* reconcileNetpolStatus and reconcileServiceStatus: the entries of the copy
\* that still exist.
Existing(o) ==
  [o EXCEPT !.netpols = {k \in @ : npCache[k] # Absent},
            !.services = {s \in @ : svcCache[s] # Absent}]

\* The object a successful status update stores.
WithStatus(a, o) ==
  [accesses[a] EXCEPT !.netpols = o.netpols, !.services = o.services,
                      !.conds = o.conds, !.expiresAt = o.expiresAt]

\* The two lists are rebuilt from Go maps, so an update with the same entries
\* still changes the object when a list of two or more comes out reordered.
Reordered(o) == Cardinality(o.netpols) >= 2 \/ Cardinality(o.services) >= 2
=============================================================================
