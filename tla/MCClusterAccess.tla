--------------------------- MODULE MCClusterAccess ---------------------------
(***************************************************************************)
(* Instances of ClusterAccessController for TLC: a database and a web      *)
(* service in two namespaces, and ClusterAccesses that open access between *)
(* them.  A run picks the versions of the services and the specs of the    *)
(* ClusterAccesses that its question needs.                                *)
(***************************************************************************)
EXTENDS ClusterAccessProperties, Sequences

Names == INSTANCE NetpolNames

CONSTANT MCDirections  \* the directions the versions and specs of a run use

MCNsOf == [s \in Services |-> IF s = "db" THEN "data" ELSE "front"]

NameOfPart(p) ==
  IF p.mirror
  THEN Names!MirrorNetpolName(p.access, NsOf[p.self], p.self,
                              NsOf[p.peer], p.peer, p.suffix)
  ELSE Names!SourceNetpolName(p.access, NsOf[p.self], p.self,
                              p.peer, NsOf[p.peer], p.suffix)

\* As formatted, all names of the instance differ where labels do.
ASSUME NamesAssumption == TellsApart([p \in NameParts |-> NameOfPart(p)])

\* The parts a run never formats are given the name of some that it does, to
\* keep the policies few.
MCUsed == {p \in NameParts :
             /\ p.self # p.peer
             /\ p.suffix \in {DirectionSuffix(d) : d \in MCDirections}
             /\ p.self = (IF p.mirror THEN "web" ELSE "db")}
MCNetpolNames == {NameOfPart(p) : p \in MCUsed}
MCNameOf ==
  [p \in NameParts |->
     NameOfPart(IF p \in MCUsed THEN p
                ELSE CHOOSE q \in MCUsed : q.mirror = p.mirror)]

MCPorts == {[protocol |-> "TCP", port |-> 5432, targetPort |-> 0]}

Svc(label, targetSet, direction, pods) ==
  [label |-> label, targets |-> targetSet, direction |-> direction,
   pods |-> pods, ports |-> MCPorts]

Cr(direction, mirrored, duration) ==
  [selector |-> {"access"}, targets |-> {"web"}, direction |-> direction,
   mirrored |-> mirrored, duration |-> duration]

\* The source changes its pods, its annotations (one is not valid) and its label,
\* the target its pods.
CoreVersions ==
  [s \in Services |->
     IF s = "db"
     THEN {Svc("access", NoAnnotation, NoAnnotation, "pg1"),
           Svc("access", {"web"}, "Egress", "pg2"),
           Svc("access", NoAnnotation, "both", "pg1"),
           Svc("none", NoAnnotation, NoAnnotation, "pg1")}
     ELSE {Svc("none", NoAnnotation, NoAnnotation, "w1"),
           Svc("none", NoAnnotation, NoAnnotation, "w2")}]

CoreSpecs == [a \in Accesses |-> {Cr("ingress", TRUE, NoDuration)}]

\* Two services that are there from the start, or not, and do not change.
FixedVersions ==
  [s \in Services |->
     {IF s = "db" THEN Svc("access", NoAnnotation, NoAnnotation, "pg1")
                  ELSE Svc("none", NoAnnotation, NoAnnotation, "w1")}]

BrokenSpecs ==
  [a \in Accesses |-> {Cr("ingress", TRUE, NoDuration),
                       [Cr("ingress", TRUE, NoDuration) EXCEPT !.selector = BadSelector]}]

LeaseSpecs == [a \in Accesses |-> {Cr("ingress", FALSE, 1), Cr("ingress", FALSE, 2)}]
=============================================================================
