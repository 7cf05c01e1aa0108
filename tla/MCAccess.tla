------------------------------ MODULE MCAccess ------------------------------
(***************************************************************************)
(* Instances of AccessController for TLC: an Access in the namespace of a  *)
(* database that opens access between it and a web service elsewhere, and, *)
(* where a run needs it, one of the same name in the other namespace.      *)
(***************************************************************************)
EXTENDS AccessProperties, Sequences

Names == INSTANCE NetpolNames

CONSTANT MCSuffixes  \* the suffixes of the directions a run uses

MCNsOf == [s \in Services |-> IF s = "db" THEN "data" ELSE "front"]

\* An Access is named by its namespace here; all have one name.
MCAccessNs   == [a \in Accesses |-> a]
MCAccessName == [a \in Accesses |-> "acc"]

NameOfPart(p) ==
  Names!AccessNetpolName(AccessName[p.access], NsOf[p.self], p.self,
                         p.peer, NsOf[p.peer], p.suffix)

\* The parts a run never formats are given the name of some that it does, and
\* those of mirrored policies, which this controller has none of, another name.
MCUsed == {p \in NameParts : /\ ~p.mirror /\ p.self # p.peer
                             /\ p.suffix \in MCSuffixes
                             /\ NsOf[p.self] = AccessNs[p.access]}
Unused == "mirror"
MCNames == {NameOfPart(p) : p \in MCUsed} \cup {Unused}
MCNameOf ==
  [p \in NameParts |->
     IF p.mirror THEN Unused
     ELSE NameOfPart(IF p \in MCUsed THEN p ELSE CHOOSE q \in MCUsed : TRUE)]

\* As formatted, the names of policies tell Accesses and services apart.
ASSUME NamesAssumption == KeysApart

MCPorts == {[protocol |-> "TCP", port |-> 5432, targetPort |-> 0]}

Svc(label, targetSet, direction, pods) ==
  [label |-> label, targets |-> targetSet, direction |-> direction,
   pods |-> pods, ports |-> MCPorts]

Cr(targetSet, direction, duration) ==
  [selector |-> {"access"}, targets |-> targetSet, direction |-> direction,
   mirrored |-> FALSE, duration |-> duration]

\* The source changes its pods with its direction, loses its pods or its label;
\* the target changes its pods and its label.
CoreVersions ==
  [s \in Services |->
     IF s = "db"
     THEN {Svc("access", NoAnnotation, NoAnnotation, "pg1"),
           Svc("access", {"web"}, "egress", "pg2"),
           Svc("access", NoAnnotation, NoAnnotation, NoPods),
           Svc("none", NoAnnotation, NoAnnotation, "pg1")}
     ELSE {Svc("none", NoAnnotation, NoAnnotation, "w1"),
           Svc("access", NoAnnotation, NoAnnotation, "w2")}]

\* The direction is written with a capital.
CapitalVersions ==
  [s \in Services |->
     IF s = "db"
     THEN {Svc("access", NoAnnotation, NoAnnotation, "pg1"),
           Svc("access", NoAnnotation, "Egress", "pg2")}
     ELSE {Svc("none", NoAnnotation, NoAnnotation, "w1")}]

FixedVersions ==
  [s \in Services |->
     {IF s = "db" THEN Svc("access", NoAnnotation, NoAnnotation, "pg1")
                  ELSE Svc("none", NoAnnotation, NoAnnotation, "w1")}]

\* Each opens the service of its own namespace to the other one.
CoreSpecs ==
  [a \in Accesses |-> {Cr({IF a = "data" THEN "web" ELSE "db"}, "ingress", NoDuration)}]

\* Durations that users set, change and remove, and a selector that they break.
LeaseSpecs ==
  [a \in Accesses |-> {Cr({"web"}, "ingress", n) : n \in {NoDuration, 1, 2}} \cup
                       {[Cr({"web"}, "ingress", NoDuration) EXCEPT !.selector = BadSelector]}]
=============================================================================
