---------------------------- MODULE NetpolNames ----------------------------
(***************************************************************************)
(* How the controllers format the name of a NetworkPolicy, on strings: two *)
(* policies have the same name here exactly when they have it in the code. *)
(***************************************************************************)
EXTENDS Sequences

SourceNetpolName(access, ns, svc, target, targetNs, suffix) ==
  "cluster-" \o access \o "--" \o ns \o "-" \o svc
    \o "---" \o target \o "-" \o targetNs \o "-" \o suffix

MirrorNetpolName(access, targetNs, target, ns, svc, suffix) ==
  "cluster-" \o access \o "--" \o targetNs \o "-" \o target
    \o "---" \o ns \o "-" \o svc \o "-" \o suffix \o "-mirror"

AccessNetpolName(access, ns, svc, target, targetNs, suffix) ==
  access \o "--" \o ns \o "-" \o svc \o "---" \o target \o "-" \o targetNs \o "-" \o suffix

\* Of an ExternalAccess and of a ClusterExternalAccess: cidr is the CIDR with a
\* hyphen for each dot, colon and slash.
ExternalNetpolName(access, ns, svc, cidr, suffix) ==
  access \o "--" \o ns \o "-" \o svc \o "---" \o cidr \o "-" \o suffix

ClusterExternalNetpolName(access, ns, svc, cidr, suffix) ==
  "cluster-" \o access \o "--" \o ns \o "-" \o svc \o "---" \o cidr \o "-" \o suffix
=============================================================================
