----------------------------- MODULE MCPhySetup -----------------------------
(* One adapter for each way the setup of a link goes, and what one may ask of it. *)
EXTENDS PhyGoals

On(m, p) == [mac |-> m, phy |-> p]
MCAdapters ==
    {On("ich8", "igp_3"), On("ich8", "ife"), On("ich9", "bm"),
     On("82571", "igp_2"), On("82571", "m88"), On("82571", "bm"), On("80003", "gg82563")}

Auto ==
    [autoneg |-> TRUE, advertised |-> "all", speed |-> 10, full |-> TRUE, mdix |-> 0,
     ms_type |-> "default", smart_speed |-> "on", disable_polarity_correction |-> FALSE,
     reset_disable |-> FALSE, wait |-> FALSE]
Forced10 == [Auto EXCEPT !.autoneg = FALSE, !.full = FALSE, !.wait = TRUE, !.mdix = 2]
MdiX == [Auto EXCEPT !.mdix = 2, !.disable_polarity_correction = TRUE,
                     !.ms_type = "slave", !.smart_speed = "off", !.advertised = "10/100"]
Gigabit == [Auto EXCEPT !.mdix = 3, !.ms_type = "master", !.advertised = "1000", !.wait = TRUE,
                        !.smart_speed = "default"]
Kept == [Auto EXCEPT !.autoneg = FALSE, !.speed = 100, !.advertised = "10/100", !.mdix = 1,
                     !.reset_disable = TRUE]

MCConfigs == [a \in MCAdapters |->
    CASE a.phy = "ife" -> {MdiX, Forced10, Kept}
      [] a.phy = "igp_2" -> {Forced10, Gigabit}
      [] a.phy \in {"igp_3", "gg82563"} -> {MdiX, Forced10}
      [] a.mac = "ich9" -> {MdiX, Gigabit}
      [] OTHER -> {MdiX, Gigabit, Kept}]
MCNvmConfig == <<<<"PORT_CONFIG", {"SMART_SPEED"}>>>>
=============================================================================
