------------------------ MODULE MCExplorerController ------------------------
(***************************************************************************)
(* Instances of ExplorerController for TLC.  Two profiles advertise         *)
(* different consistency modes ("minimize" and "exact", and "exact" only), *)
(* so that a switch has to normalise the preferred one.                    *)
(***************************************************************************)
EXTENDS ExplorerControllerProperties

MCProfiles == {"datahike", "datomic"}
MCOneProfile == {"datomic"}
MCModes == {"minimize", "exact"}
MCModesOf == [p \in MCProfiles |-> IF p = "datahike" THEN <<"minimize", "exact">> ELSE <<"exact">>]
MCOneModeOf == [p \in MCOneProfile |-> <<"minimize">>]
=============================================================================
