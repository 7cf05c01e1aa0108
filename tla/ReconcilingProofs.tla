-------------------------- MODULE ReconcilingProofs --------------------------
(***************************************************************************)
(* Lemmas on the operators that the reconcilers share, for the proofs      *)
(* about each of them.                                                     *)
(***************************************************************************)
EXTENDS Reconciling, ClusterProofs

\* setCondition keeps an access object one.
LEMMA WithCondType ==
  ASSUME NEW o \in AccessObjects, NEW t \in CondTypes, NEW st \in Statuses
  PROVE  WithCond(o, t, st) \in AccessObjects
BY DEF WithCond, AccessObjects

\* It changes nothing but the conditions.
LEMMA WithCondKeeps ==
  ASSUME NEW o \in AccessObjects, NEW t, NEW st
  PROVE  /\ WithCond(o, t, st).spec = o.spec
         /\ WithCond(o, t, st).uid = o.uid /\ WithCond(o, t, st).created = o.created
         /\ WithCond(o, t, st).deleting = o.deleting
         /\ WithCond(o, t, st).expiresAt = o.expiresAt
BY DEF WithCond, AccessObjects

\* Both as one fact.
LEMMA CondSet ==
  ASSUME NEW o \in AccessObjects, NEW t \in CondTypes, NEW st \in Statuses
  PROVE  \E p \in AccessObjects :
           /\ p = WithCond(o, t, st)
           /\ p.spec = o.spec /\ p.uid = o.uid /\ p.created = o.created
           /\ p.deleting = o.deleting /\ p.expiresAt = o.expiresAt
<1>1. PICK p \in AccessObjects : p = WithCond(o, t, st)
  BY WithCondType
<1>2. /\ p.spec = o.spec /\ p.uid = o.uid /\ p.created = o.created
      /\ p.deleting = o.deleting /\ p.expiresAt = o.expiresAt
  BY <1>1, WithCondKeeps
<1> QED
  BY <1>1, <1>2

\* A deadline is a time, and isExpired leaves an access object.
LEMMA DatedType ==
  ASSUME NEW o \in AccessObjects
  PROVE  Deadline(o) \in Times /\ Dated(o) \in AccessObjects
<1>1. o.created \in Nat /\ o.spec.duration \in {NoDuration} \cup Int /\ o.expiresAt \in Times
  BY DEF AccessObjects, AccessSpecs
<1>2. Deadline(o) \in Times
  <2>1. o.spec.duration # NoDuration => ParseDuration(o.spec.duration) \in Int
    BY <1>1, DurationType
  <2> QED
    BY <1>1, <2>1 DEF Deadline, Times
<1>3. [o EXCEPT !.expiresAt = Deadline(o)] \in AccessObjects
  BY <1>2 DEF AccessObjects
<1>4. WithCond([o EXCEPT !.expiresAt = Deadline(o)], "ExpireReady", "True") \in AccessObjects
  BY <1>3, WithCondType DEF CondTypes, Statuses
<1> QED
  BY <1>2, <1>4 DEF Dated

\* isExpired changes the deadline and a condition.
LEMMA DatedKeeps ==
  ASSUME NEW o \in AccessObjects
  PROVE  /\ Dated(o).spec = o.spec /\ Dated(o).expiresAt = Deadline(o)
         /\ Dated(o).uid = o.uid /\ Dated(o).created = o.created
         /\ Dated(o).deleting = o.deleting
BY DEF Dated, SetsDeadline, WithCond, AccessObjects

\* A write of the status moves the object as the cluster's own steps may.
LEMMA StatusWritten ==
  ASSUME AccessesTypeOK, NEW a \in Accesses, NEW o, accesses[a] # Absent,
         WriteAccess(a, WithStatus(a, o)), UNCHANGED specHist
  PROVE  AccessesMove
<1>1. PICK p : p = WithStatus(a, o)
  OBVIOUS
<1>2. accesses[a] \in AccessObjects
  BY MaybeIn DEF AccessesTypeOK
<1>3. /\ p.uid = accesses[a].uid /\ p.created = accesses[a].created
      /\ p.deleting = accesses[a].deleting /\ p.spec = accesses[a].spec
  BY <1>1, <1>2 DEF WithStatus, AccessObjects
<1>4. WriteAccess(a, p)
  BY <1>1
<1> QED
  BY <1>3, <1>4, AccessWritten

\* The deadline isExpired gives a copy: the one it has, or the first.
LEMMA DeadlineDue ==
  ASSUME DurationsFit, NEW a \in Accesses, NEW o \in AccessObjects,
         o.spec \in specHist[a], specHist[a] \subseteq Specs[a], Due(specHist[a], o)
  PROVE  /\ o.expiresAt # NoTime => Deadline(o) = o.expiresAt
         /\ Deadline(o) # NoTime =>
              \E sp \in specHist[a] : sp.duration # NoDuration
                                       /\ Deadline(o) = o.created + sp.duration
<1>1. o.spec.duration # NoDuration => ParseDuration(o.spec.duration) = o.spec.duration
  BY DurationRead DEF AccessObjects
<1> QED
  BY <1>1 DEF Deadline, Due
=============================================================================
