-------------------------- MODULE MCResourcePager --------------------------
(***************************************************************************)
(* Instances of ResourcePager for TLC.                                     *)
(***************************************************************************)
EXTENDS ResourcePagerProperties, TLC

CONSTANTS s1, s2, s3

\* A scope of three resources, an empty one, and one without the permission.
ThreeScopes == {s1, s2, s3}
Defined == {s1, s2}
Resources == [s \in ThreeScopes |-> CASE s = s1 -> 3 [] s = s2 -> 0 [] s = s3 -> 0]
PageSizes == {1, 2}
=============================================================================
