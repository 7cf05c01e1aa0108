----------------------------- MODULE PolicyLedger -----------------------------
(***************************************************************************)
(* What any of the controllers promises about the policies in force, in    *)
(* the abstract: no caches, no queue, no reconcile, no failure.  Policies  *)
(* change one at a time, and each change has its reason in what the users  *)
(* did: a policy is put in force only on the ground of something they      *)
(* asked for at some time, and goes only when it has lost its ground or    *)
(* when a user takes it away.  What they asked for is never forgotten.     *)
(*                                                                         *)
(* `claims` is a record.  Its field acts counts what users did; the rest   *)
(* is for the three operators to read.                                     *)
(***************************************************************************)
EXTENDS Naturals

CONSTANTS
  Keys,               \* where a policy can be
  None,               \* no policy
  Grounded(_, _, _),  \* Grounded(c, k, n): claims c are a ground for policy n at k
  Forfeit(_, _),      \* Forfeit(c, n): under claims c policy n has lost its ground
  Remembers(_, _)     \* Remembers(c, d): what c is a ground for, d is a ground for

VARIABLES claims, inForce

Init == inForce = [k \in Keys |-> None]

\* Users ask for something, or the cluster goes on.
Claim == Remembers(claims, claims') /\ UNCHANGED inForce

Becomes(k, n) == inForce' = [inForce EXCEPT ![k] = n]

Enact(k) ==
  /\ Becomes(k, inForce'[k]) /\ inForce'[k] # None
  /\ Grounded(claims, k, inForce'[k])
  /\ UNCHANGED claims

Lift(k) ==
  /\ Becomes(k, None)
  /\ Forfeit(claims, inForce[k])
  /\ UNCHANGED claims

TakeAway(k) ==
  /\ Becomes(k, None)
  /\ claims' = [claims EXCEPT !.acts = @ + 1]

Next == Claim \/ \E k \in Keys : Enact(k) \/ Lift(k) \/ TakeAway(k)

Spec == Init /\ [][Next]_<<claims, inForce>>
=============================================================================
