------------------------------ MODULE MCExternal ------------------------------
(***************************************************************************)
(* Instances of ExternalController for TLC: a database, an ExternalAccess  *)
(* in its namespace and a ClusterExternalAccess, which both may select it. *)
(***************************************************************************)
EXTENDS ExternalProperties, Sequences

Names == INSTANCE NetpolNames

CONSTANTS
  MCSuffixes,    \* the suffixes of the directions a run uses
  MCForms        \* the forms of the targets that it gets policies for

MCNsOf     == [s \in Services |-> "data"]
MCKindOf   == [a \in Accesses |-> a]
MCAccessNs == [a \in Accesses |-> IF a = "external" THEN "data" ELSE Everywhere]
Apart      == [a \in Accesses |-> "edge"]
Alike      == [a \in Accesses |-> IF a = "external" THEN "cluster-edge" ELSE "edge"]

CidrName(c) == IF c.form = "cidr" THEN c.addr \o "-24" ELSE c.addr

NameOfPart(p) ==
  IF p.access = "external"
  THEN Names!ExternalNetpolName(AccessName[p.access], NsOf[p.self], p.self,
                                CidrName(p.peer), p.suffix)
  ELSE Names!ClusterExternalNetpolName(AccessName[p.access], NsOf[p.self], p.self,
                                       CidrName(p.peer), p.suffix)

\* The parts a run never formats are given the name of some that it does, and
\* those of mirrored policies, which these controllers have none of, another name.
MCUsed == {p \in NameParts : /\ ~p.mirror /\ p.suffix \in MCSuffixes
                             /\ p.peer.form \in MCForms
                             /\ InScope(p.access, p.self)}
Unused == "mirror"
MCNames == {NameOfPart(p) : p \in MCUsed} \cup {Unused}
MCNameOf ==
  [p \in NameParts |->
     IF p.mirror THEN Unused
     ELSE NameOfPart(IF p \in MCUsed THEN p ELSE CHOOSE q \in MCUsed : q.peer.form = "cidr")]

\* As formatted, the names of policies tell objects and services apart, and labels tell
\* owners, unless the names of the objects are chosen so that two policies share one.
ASSUME NamesAssumption == AccessName = Apart => KeysApart /\ LabelsApart

MCPorts == {[protocol |-> "TCP", port |-> 5432, targetPort |-> 0]}

Cidr(form) == [addr |-> "10-1-2-0", form |-> form]

Svc(label, targetSet, direction, pods) ==
  [label |-> label, targets |-> targetSet, direction |-> direction,
   pods |-> pods, ports |-> MCPorts]

Cr(targetSet, direction, duration) ==
  [selector |-> {"out"}, targets |-> targetSet, direction |-> direction,
   mirrored |-> FALSE, duration |-> duration]

\* The database changes its pods and its annotations; one of the targets there is an
\* address, which the API server refuses in a policy.
CoreVersions ==
  [s \in Services |-> {Svc("out", NoAnnotation, NoAnnotation, "pg1"),
                       Svc("out", {Cidr("hyphen"), Cidr("address"), Cidr("junk")}, "Egress", "pg2")}]

\* With its pods it changes the direction, and so the name of its policy.
TurnVersions ==
  [s \in Services |-> {Svc("out", NoAnnotation, NoAnnotation, "pg1"),
                       Svc("out", {Cidr("hyphen"), Cidr("junk")}, "Ingress", "pg2")}]

CoreSpecs == [a \in Accesses |-> {Cr({Cidr("cidr")}, "egress", NoDuration)}]

\* With a duration and a direction that is not valid; with a duration that is over
\* before it begins and a selector that does not convert.
LeaseSpecs ==
  [a \in Accesses |-> {Cr({Cidr("cidr")}, "egress", NoDuration),
                       Cr({Cidr("cidr")}, "both", 1),
                       [Cr({Cidr("cidr")}, "egress", -1) EXCEPT !.selector = BadSelector]}]

\* A write fails or the manager restarts, not both in one behaviour.
OneMishap == faults + restarts <= 1

\* Both objects and the service are there at first, the service not yet annotated.
OverlapInit ==
  /\ Init
  /\ \A a \in Accesses : accesses[a] # Absent
  /\ \A s \in Services : services[s] # Absent /\ services[s].pods = "pg1"

OverlapSpec == OverlapInit /\ [][Next]_vars
=============================================================================
