------------------------- MODULE MCStagedPublication -------------------------
(* A small instance of StagedPublication: two project trees, a package and a *)
(* directly written file race for one destination.                           *)
EXTENDS StagedPublication, TLC

MCFamilyOf == "t1" :> "tree" @@ "t2" :> "tree" @@ "p1" :> "package" @@ "f1" :> "direct"
MCCalls == DOMAIN MCFamilyOf
=============================================================================
