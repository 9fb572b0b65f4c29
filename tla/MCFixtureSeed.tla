--------------------------- MODULE MCFixtureSeed ---------------------------
(***************************************************************************)
(* Instances of FixtureSeed for TLC: three batches in groups of two, so    *)
(* that the last group is short.  A second stream of the same manifest,    *)
(* as a changed generator would emit it, has one more user in batch two.   *)
(***************************************************************************)
EXTENDS FixtureSeedProperties

MCObjects == [canonical |-> <<{"platform"}, {"account", "user1"}, {"server"}>>,
              changed |-> <<{"platform"}, {"account", "user1", "user2"}, {"server"}>>]
MCLinks == [canonical |-> <<{}, {"user1 owns account"}, {"account of server"}>>,
            changed |-> <<{}, {"user1 owns account", "user2 owns account"}, {"account of server"}>>]

ASSUME MCNoShortStream == NoShortStream
=============================================================================
