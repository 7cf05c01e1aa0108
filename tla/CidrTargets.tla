----------------------------- MODULE CidrTargets -----------------------------
(***************************************************************************)
(* The targets of ExternalAccess and ClusterExternalAccess, as users write *)
(* them in a spec or in an annotation: an address and the form it has.     *)
(*                                                                         *)
(*   "cidr"     with a slash and a mask                                    *)
(*   "hyphen"   with a hyphen for the slash, as annotations may have it    *)
(*   "address"  without a mask (or, alike in all that matters here, a CIDR *)
(*              with an upper-case hexadecimal digit)                      *)
(*   "junk"     anything else                                              *)
(***************************************************************************)

CONSTANT Addresses

Forms == {"cidr", "hyphen", "address", "junk"}

WrittenTargets == [addr : Addresses, form : Forms]

\* In an annotation the last hyphen becomes a slash.
FromAnnotation(c) == IF c.form = "hyphen" THEN [c EXCEPT !.form = "cidr"] ELSE c

\* ValidateTargetCIDR: a CIDR or an address.
ValidateTargetCIDR(c) == c.form \in {"cidr", "address"}

UnconvertedCidrs(T, annotated) == {c \in T : ValidateTargetCIDR(c)}

\* The targets of a list that get a policy.
FinalCidrs(T, annotated) ==
  {c \in IF annotated THEN {FromAnnotation(t) : t \in T} ELSE T : ValidateTargetCIDR(c)}

\* The API server takes a CIDR only, and a policy's name in lower case only.
ServerTakes(c) == c.form = "cidr"
=============================================================================
