---------------------------- MODULE NetpolRules ----------------------------
(***************************************************************************)
(* The pure part of MaxTac: how a direction is normalised, mirrored and    *)
(* abbreviated, how service ports become policy ports, and which           *)
(* NetworkPolicy spec an access between two sets of pods turns into        *)
(* (internal/k8s/networkpolicy and the direction switches of the           *)
(* reconcilers).  No state: the controller modules EXTEND this one.        *)
(*                                                                         *)
(* A pod selector is an opaque value here; a service port is a record      *)
(* [protocol, port, targetPort] and a policy port a record                 *)
(* [protocol, port].  Rule lists hold at most one rule and are sets.       *)
(***************************************************************************)
EXTENDS Integers

Directions == {"ingress", "egress", "all"}

\* What a user may write in the annotation or the spec field: the valid words
\* in any case, something else, or nothing.
RawDirections == Directions \cup {"Ingress", "Egress", "All", "both", ""}

\* strings.ToLower on the values above.
ToLower(d) == CASE d = "Ingress" -> "ingress"
                [] d = "Egress"  -> "egress"
                [] d = "All"     -> "all"
                [] OTHER         -> d

IsSomeDirection(d) == d # ""

IsValidDirection(d) == ToLower(d) \in Directions

\* The last component of a policy's name; a direction no case covers leaves
\* the Go variable at its zero value.
DirectionSuffix(d) == CASE d = "ingress" -> "ing"
                        [] d = "egress"  -> "egr"
                        [] d = "all"     -> "all"
                        [] OTHER         -> ""

DirectionSuffixes == {"ing", "egr", "all", ""}

UnmirroredDirection(d) == d

\* What the target must allow when the source allows d.
MirroredDirection(d) == CASE d = "egress"  -> "ingress"
                          [] d = "ingress" -> "egress"
                          [] d = "all"     -> "all"
                          [] OTHER         -> ""

-----------------------------------------------------------------------------
(* Policies *)

ConvertPort(p) ==
  [protocol |-> p.protocol,
   port     |-> IF p.targetPort = 0 THEN p.port ELSE p.targetPort]

ConvertServicePortsToPolicyPorts(ports) == {ConvertPort(p) : p \in ports}

PolicyTypes(direction) == CASE direction = "ingress" -> {"Ingress"}
                            [] direction = "egress"  -> {"Egress"}
                            [] direction = "all"     -> {"Ingress", "Egress"}
                            [] OTHER                 -> {}

AccessRule(peer, peerNs, ports) ==
  [pods |-> peer, ns |-> peerNs,
   ports |-> ConvertServicePortsToPolicyPorts(ports)]

\* The spec that opens `rule` in the given direction to the pods `pods`.
NetpolSpec(pods, rule, direction) ==
  LET types == PolicyTypes(direction)
      rules(type) == IF type \in types THEN {rule} ELSE {}
  IN [podSelector |-> pods,
      policyTypes |-> types,
      ingress     |-> rules("Ingress"),
      egress      |-> rules("Egress")]

\* The spec of the policy on the pods `pods`; its namespace and name belong to
\* the object that carries it.
DefineAccessNetworkPolicy(pods, peer, peerNs, ports, direction) ==
  NetpolSpec(pods, AccessRule(peer, peerNs, ports), direction)

CidrRule(cidr, ports) ==
  [cidr |-> cidr, ports |-> ConvertServicePortsToPolicyPorts(ports)]

DefineExternalAccessNetworkPolicyCIDR(pods, cidr, ports, direction) ==
  NetpolSpec(pods, CidrRule(cidr, ports), direction)
=============================================================================
