----------------------------- MODULE MCRetention -----------------------------
(***************************************************************************)
(* An instance of Retention for TLC: two sites whose collectors' files     *)
(* disagree.                                                               *)
(***************************************************************************)
EXTENDS Retention

SitesDef == {"shop", "blog"}
CollectorDaysDef == [s \in SitesDef |-> IF s = "shop" THEN 1 ELSE 2]
BeaconPerSiteDef == [s \in SitesDef |-> IF s = "shop" THEN 1 ELSE 3]
=============================================================================
