------------------------------ MODULE PhySetup ------------------------------
(***************************************************************************)
(* How the library sets up a PHY and the MAC's end of it: the link setup   *)
(* of every family, forced speed and duplex, low power link up, resets,    *)
(* power down and the Kumeran workarounds.  All of these are rows of       *)
(* register updates, which a failing access cuts short unless its result   *)
(* is not looked at; what an earlier call, cut short or not, has left in   *)
(* the registers is what the next one starts from.  A register is the set  *)
(* of its bits that are 1, of those that matter here.  A call is the       *)
(* sequence of the steps it still has to do.                               *)
(***************************************************************************)
EXTENDS Naturals, Sequences

CONSTANTS Adapters,   \* the [mac, phy] there are
          Configs,    \* adapter -> what hw->phy and hw->mac may ask for
          NvmConfig,  \* the <<register, bits>> the NVM holds for an IGP3 on an ICH8
          LockTries   \* PHY resets of the lock-loss workaround (10)

PhyBits ==
    [PHY_CONTROL |-> {"AUTO_NEG_EN", "FULL_DUPLEX", "SPEED_100", "SPEED_1000", "POWER_DOWN"},
     PHY_AUTONEG_ADV |-> {"10/100"},
     PHY_1000T_CTRL |-> {"FD_CAPS", "MS_ENABLE", "MS_VALUE"},
     PORT_CTRL |-> {"AUTO_MDIX", "FORCE_MDI_MDIX"},
     PORT_CONFIG |-> {"SMART_SPEED"},
     POWER_MGMT |-> {"D0_LPLU", "D3_LPLU"},
     SPEC_CTRL |-> {"X_MODE_0", "X_MODE_1", "CRS_ON_TX", "POLARITY_REVERSAL"},
     EXT_CTRL |-> {"TX_CLK_25", "CRS_ON_TX"},
     MDIX_CONTROL |-> {"AUTO_MDIX", "FORCE_MDIX"},
     VR_CTRL |-> {"SHUTDOWN"},
     KMRN_MODE |-> {"PASS_FALSE_CARRIER"},
     INBAND |-> {"DIS_PADDING"}]

\* Of the MAC: the first three are its own, the others on its side of the Kumeran interface.
MacBits ==
    [CTRL |-> {"SLU", "FRCSPD", "FRCDPX", "ASDE", "FD", "SPD_100", "SPD_1000"},
     PHY_CTRL |-> {"D0A_LPLU", "NOND0A_LPLU", "GBE_DISABLE"},
     TIPG |-> {"IPGT_1000"},
     KMRN_DIAG |-> {"NELPBK"},
     KMRN_HD |-> {"1000"},
     KMRN_INB |-> {"DIS_PADDING"}]

Bits(r) == IF r \in DOMAIN PhyBits THEN PhyBits[r] ELSE MacBits[r]
Registers == DOMAIN PhyBits \cup DOMAIN MacBits
AllBits == UNION {Bits(r) : r \in Registers}

\* Which PHYs the families' init routines accept, what the driver may ask of each, and that
\* the NVM configures registers of the PHY.
ASSUME AdaptersAssumption ==
    Adapters \subseteq [mac : {"ich8", "ich9"}, phy : {"igp_3", "ife", "bm"}]
                     \cup [mac : {"82571"}, phy : {"igp_2", "m88", "bm"}]
                     \cup [mac : {"80003"}, phy : {"gg82563"}]
ASSUME ConfigsAssumption ==
    \A a \in Adapters : Configs[a] \subseteq
        [autoneg : BOOLEAN, advertised : {"all", "10/100", "1000"}, speed : {10, 100},
         full : BOOLEAN, mdix : 0 .. 3, ms_type : {"default", "master", "slave", "auto"},
         smart_speed : {"default", "on", "off"}, disable_polarity_correction : BOOLEAN,
         reset_disable : BOOLEAN, wait : BOOLEAN]
ASSUME NvmAssumption ==
    /\ NvmConfig \in Seq((DOMAIN PhyBits) \X (SUBSET AllBits))
    /\ \A i \in DOMAIN NvmConfig : NvmConfig[i][2] \subseteq PhyBits[NvmConfig[i][1]]
ASSUME TriesAssumption == LockTries \in Nat

\* After a reset (external).
PhyDefault == [r \in DOMAIN PhyBits |->
    IF r = "PHY_CONTROL" THEN {"AUTO_NEG_EN", "FULL_DUPLEX", "SPEED_1000"} ELSE {}]
MacDefault == [r \in DOMAIN MacBits |-> IF r = "CTRL" THEN {"FD", "ASDE"} ELSE {}]

VARIABLES
    adapter,   \* mac and phy type
    cfg,       \* what was asked for last
    call,      \* the call under way, or the last one
    todo,      \* its steps to come; none: it has returned
    ret_val,   \* "success" so far, or "error"
    reg,       \* the registers of the PHY and the MAC
    ignored,   \* an access of this call failed and its result was not looked at (history)
    diag_failed  \* the last access to KMRN_DIAG, of this call or an earlier one, failed (history)

vars == <<adapter, cfg, call, todo, ret_val, reg, ignored, diag_failed>>
-----------------------------------------------------------------------------
(* Steps.                                                                  *)

Step(do, r, off, on) ==
    [do |-> do, reg |-> r, off |-> off, on |-> on, strict |-> TRUE, skip |-> 0]

\* A register is read, changed and written; both results are looked at.
Edit(r, off, on) == Step("edit", r, off, on)
Write(r, bits) == Edit(r, Bits(r), bits)
\* The same of PHY_CONTROL with MII_CR_RESET, which makes a software reset of the PHY.
Commit(off, on) == Step("commit", "PHY_CONTROL", off, on)
\* Registers of the MAC proper cannot fail.
Mac(r, off, on) == Step("mac", r, off, on)
\* The result of the read is not looked at; the word read then is "zero" or "junk" of the stack.
EditUnread(r, off, on, word) == Step(word, r, off, on)
Do(what) == Step(what, "none", {}, {})
\* Accesses whose data does not matter here.
Access == Do("access")
\* What is read there (a link, a configuration, a lock) decides whether the next n steps are done.
Perhaps(n) == [Access EXCEPT !.skip = n]

\* A routine whose result is not looked at: an error leaves it, and its caller goes on.
Ignoring(steps) ==
    [i \in DOMAIN steps |-> [steps[i] EXCEPT !.strict = FALSE, !.skip = Len(steps) - i]]

When(condition, steps) == IF condition THEN steps ELSE <<>>
-----------------------------------------------------------------------------
(* Routines.                                                               *)

IsIch == adapter.mac \in {"ich8", "ich9"}
Is82566 == adapter = [mac |-> "ich8", phy |-> "igp_3"]

\* Mutant of the definition below: the loopback that was set stays.
GigDownshiftSetsOnly ==
    When(Is82566, <<Edit("KMRN_DIAG", {"NELPBK"}, {}), Edit("KMRN_DIAG", {}, {"NELPBK"})>>)

\* e1000_gig_downshift_workaround_ich8lan
GigDownshift ==
    When(Is82566, <<Edit("KMRN_DIAG", {}, {"NELPBK"}), Edit("KMRN_DIAG", {"NELPBK"}, {})>>)

\* phy->ops.reset: the NVM's configuration is loaded whether or not the reset was blocked.
HwReset ==
    <<Do("reset")>> \o
    When(Is82566, <<Perhaps(Len(NvmConfig))>> \o
                  [i \in DOMAIN NvmConfig |-> Write(NvmConfig[i][1], NvmConfig[i][2])])

SmartSpeed(c) ==
    CASE c.smart_speed = "on" -> <<Edit("PORT_CONFIG", {}, {"SMART_SPEED"})>>
      [] c.smart_speed = "off" -> <<Edit("PORT_CONFIG", {"SMART_SPEED"}, {})>>
      [] OTHER -> <<>>

SmartSpeedOff == Edit("PORT_CONFIG", {"SMART_SPEED"}, {})
SmartSpeedOffUnread == EditUnread("PORT_CONFIG", {"SMART_SPEED"}, {}, "junk")

\* phy->ops.set_d0_lplu_state of the ICH and the 82571; the 80003 has none.
D0LpluOn(c) ==
    CASE IsIch -> When(adapter.phy # "ife",
            <<Mac("PHY_CTRL", {}, {"D0A_LPLU"})>> \o Ignoring(GigDownshift)
            \o <<SmartSpeedOffUnread>>)
      [] adapter.mac = "82571" -> <<Edit("POWER_MGMT", {}, {"D0_LPLU"}), SmartSpeedOffUnread>>
      [] OTHER -> <<>>

\* On an 82571 what SmartSpeed's accesses return replaces what the write of LPLU did.
D0LpluOff(c) ==
    LET off == <<Edit("POWER_MGMT", {"D0_LPLU"}, {})>>
    IN  CASE IsIch -> When(adapter.phy # "ife",
                <<Mac("PHY_CTRL", {"D0A_LPLU"}, {})>> \o SmartSpeed(c))
          [] adapter.mac = "82571" -> IF c.smart_speed = "default" THEN off
                                      ELSE <<Access>> \o Ignoring(off) \o SmartSpeed(c)
          [] OTHER -> <<>>

\* Mutant of the definition below: SmartSpeed stays as it was.
D3LpluOnOnly(c) ==
    When(c.advertised \in {"all", "10/100"},
         IF IsIch THEN <<Mac("PHY_CTRL", {}, {"NOND0A_LPLU"})>>
                  ELSE <<Edit("POWER_MGMT", {}, {"D3_LPLU"})>>)

\* phy->ops.set_d3_lplu_state of the ICH, and the generic one.
D3LpluOn(c) ==
    When(c.advertised \in {"all", "10/100"},
         (IF IsIch THEN <<Mac("PHY_CTRL", {}, {"NOND0A_LPLU"})>> \o Ignoring(GigDownshift)
                   ELSE <<Edit("POWER_MGMT", {}, {"D3_LPLU"})>>) \o <<SmartSpeedOff>>)

D3LpluOff(c) ==
    (IF IsIch THEN <<Mac("PHY_CTRL", {"NOND0A_LPLU"}, {})>>
              ELSE <<Edit("POWER_MGMT", {"D3_LPLU"}, {})>>) \o SmartSpeed(c)

\* phy->mdix: 0 automatic, 1 MDI, 2 MDI-X, 3 automatic for gigabit only, which some PHYs have.
Crossover(r, auto, force, mdix) ==
    Edit(r, {auto} \cup (IF mdix = 1 THEN {force} ELSE {}),
         CASE mdix = 1 -> {} [] mdix = 2 -> {force} [] OTHER -> {auto})

XMode(mdix) ==
    CASE mdix = 1 -> {} [] mdix = 2 -> {"X_MODE_0"}
      [] mdix = 3 /\ adapter.phy # "gg82563" -> {"X_MODE_1"} [] OTHER -> {"X_MODE_0", "X_MODE_1"}

Polarity(c) == IF c.disable_polarity_correction THEN {"POLARITY_REVERSAL"} ELSE {}

\* Mutant of the definition below: the mode of an earlier setup is or-ed to the new one.
SpecCtrlOrs(c, on) ==
    Edit("SPEC_CTRL", {"POLARITY_REVERSAL"}, on \cup XMode(c.mdix) \cup Polarity(c))

SpecCtrl(c, on) ==
    Edit("SPEC_CTRL", {"X_MODE_0", "X_MODE_1", "POLARITY_REVERSAL"},
         on \cup XMode(c.mdix) \cup Polarity(c))

\* e1000_copper_link_setup_m88 for an M88 of an early revision and for a BM, on which CRS_ON_TX
\* is the bit that enables the downshift.
SetupM88(c) ==
    When(~c.reset_disable,
         <<SpecCtrl(c, {"CRS_ON_TX"})>>
         \o When(adapter.phy = "m88", <<Edit("EXT_CTRL", {}, {"TX_CLK_25"})>>)
         \o When(adapter.phy = "bm", <<Perhaps(2), Access, Access>>)
         \o <<Commit({}, {})>>)

MasterSlave(c) ==
    CASE c.ms_type = "master" -> Edit("PHY_1000T_CTRL", {}, {"MS_ENABLE", "MS_VALUE"})
      [] c.ms_type = "slave" -> Edit("PHY_1000T_CTRL", {"MS_VALUE"}, {"MS_ENABLE"})
      [] c.ms_type = "auto" -> Edit("PHY_1000T_CTRL", {"MS_ENABLE"}, {})
      [] OTHER -> Edit("PHY_1000T_CTRL", {}, {})

\* e1000_copper_link_setup_igp
SetupIgp(c) ==
    When(~c.reset_disable,
         HwReset \o D0LpluOff(c)
         \o <<Crossover("PORT_CTRL", "AUTO_MDIX", "FORCE_MDI_MDIX", c.mdix)>>
         \o When(c.autoneg,
                 When(c.advertised = "1000",
                      <<SmartSpeedOff, Edit("PHY_1000T_CTRL", {"MS_ENABLE"}, {})>>)
                 \o <<MasterSlave(c)>>))

\* e1000_copper_link_setup_gg82563_80003es2lan.  In IAMT mode the firmware has set KMRN_MODE.
SetupGg82563(c) ==
    When(~c.reset_disable,
         <<Edit("EXT_CTRL", {}, {"CRS_ON_TX", "TX_CLK_25"}), SpecCtrl(c, {}), Commit({}, {})>>)
    \o <<Access, Access, Access>>
    \o <<Perhaps(2), Access, Edit("KMRN_MODE", {"PASS_FALSE_CARRIER"}, {})>>
    \o <<Edit("INBAND", {}, {"DIS_PADDING"})>>
-----------------------------------------------------------------------------
\* e1000_phy_force_speed_duplex_setup: its half of CTRL, and of PHY_CONTROL.
ForcedCtrl(c) ==
    LET on == (IF c.full THEN {"FD"} ELSE {}) \cup (IF c.speed = 100 THEN {"SPD_100"} ELSE {})
    IN  Mac("CTRL", {"ASDE", "FD", "SPD_100", "SPD_1000"}, {"FRCSPD", "FRCDPX"} \cup on)

ForcedOn(c) ==
    (IF c.full THEN {"FULL_DUPLEX"} ELSE {}) \cup (IF c.speed = 100 THEN {"SPEED_100"} ELSE {})
ForcedOff == {"AUTO_NEG_EN", "FULL_DUPLEX", "SPEED_100", "SPEED_1000"}

\* e1000_phy_force_speed_duplex_igp, also that of the ICH for its BM and, at its own register, IFE.
ForceIgp(c, r, bits) ==
    <<Access, ForcedCtrl(c), Edit("PHY_CONTROL", ForcedOff, ForcedOn(c)), Edit(r, bits, {})>>
    \o When(c.wait, <<Access, Access>>)

\* If the link does not come up the DSP is reset, behind its page on an M88.
WaitForced(c) ==
    LET reset_dsp == When(adapter.phy # "gg82563", <<Access>>) \o <<Access, Access>>
    IN  When(c.wait, <<Perhaps(Len(reset_dsp))>> \o reset_dsp \o <<Access>>)

\* e1000_phy_force_speed_duplex_m88
ForceM88(c) ==
    <<Edit("SPEC_CTRL", {"X_MODE_0", "X_MODE_1"}, {}),
      Access, ForcedCtrl(c), Commit(ForcedOff, ForcedOn(c))>>
    \o WaitForced(c)
    \o <<Edit("EXT_CTRL", {}, {"TX_CLK_25"}), Edit("SPEC_CTRL", {}, {"CRS_ON_TX"})>>

\* e1000_phy_force_speed_duplex_80003es2lan
ForceGg82563(c) ==
    <<Edit("SPEC_CTRL", {"X_MODE_0", "X_MODE_1"}, {}),
      Access, ForcedCtrl(c), Commit(ForcedOff, ForcedOn(c))>>
    \o WaitForced(c)
    \o <<Edit("EXT_CTRL", {"TX_CLK_25"},
              {"CRS_ON_TX"} \cup (IF c.speed = 100 THEN {"TX_CLK_25"} ELSE {}))>>

\* phy->ops.force_speed_duplex
ForceSpeedDuplex(c) ==
    CASE adapter.phy = "ife" -> ForceIgp(c, "MDIX_CONTROL", {"AUTO_MDIX", "FORCE_MDIX"})
      [] adapter.phy # "ife" /\ (IsIch \/ adapter.phy = "igp_2") ->
            ForceIgp(c, "PORT_CTRL", {"AUTO_MDIX", "FORCE_MDI_MDIX"})
      [] adapter.phy = "gg82563" -> ForceGg82563(c)
      [] OTHER -> ForceM88(c)

\* e1000_copper_link_autoneg, e1000_phy_setup_autoneg: a PHY without gigabit has no 1000T_CTRL.
Autoneg(c) ==
    <<Access, Edit("PHY_AUTONEG_ADV", {"10/100"}, IF c.advertised = "1000" THEN {} ELSE {"10/100"})>>
    \o When(adapter.phy # "ife",
            <<Edit("PHY_1000T_CTRL", {"FD_CAPS"}, IF c.advertised = "10/100" THEN {} ELSE {"FD_CAPS"})>>)
    \o <<Edit("PHY_CONTROL", {}, {"AUTO_NEG_EN"})>>
    \o When(c.wait, <<Access>>)

\* e1000_setup_copper_link_generic; flow control is configured if the link is up.
LinkUp(c) == (IF c.autoneg THEN Autoneg(c) ELSE ForceSpeedDuplex(c)) \o <<Perhaps(1), Access>>

\* Mutant of the definition below: a MAC forced by an earlier setup goes on being forced.
StillForced == Mac("CTRL", {}, {"SLU"})

\* The first step of every setup.
SetLinkUp == Mac("CTRL", {"FRCSPD", "FRCDPX"}, {"SLU"})

\* The MAC's polling of the PHY, and its side of the padding.
KumeranTimeouts ==
    When(adapter.mac # "82571", <<Access, Access>>)
    \o When(adapter.mac = "80003", <<Edit("KMRN_INB", {}, {"DIS_PADDING"})>>)

SetupPhy(c) ==
    CASE adapter.phy \in {"igp_2", "igp_3"} -> SetupIgp(c)
      [] adapter.phy = "ife" -> <<Crossover("MDIX_CONTROL", "AUTO_MDIX", "FORCE_MDIX", c.mdix)>>
      [] adapter.phy = "gg82563" -> SetupGg82563(c)
      [] OTHER -> SetupM88(c)

\* mac->ops.setup_physical_interface: e1000_setup_copper_link_ich8lan, _82571 and _80003es2lan
Setup(c) == <<SetLinkUp>> \o KumeranTimeouts \o SetupPhy(c) \o LinkUp(c)
-----------------------------------------------------------------------------
(* The other calls.                                                        *)

\* Mutant of the definition below: what only half duplex needs is never taken back.
KumeranOrs(gigabit, half) ==
    <<Write("KMRN_HD", IF gigabit THEN {"1000"} ELSE {}),
      Mac("TIPG", {"IPGT_1000"}, IF gigabit THEN {"IPGT_1000"} ELSE {}),
      Edit("KMRN_MODE", {}, IF half THEN {"PASS_FALSE_CARRIER"} ELSE {})>>

\* e1000_cfg_kmrn_1000_80003es2lan and, with the duplex, e1000_cfg_kmrn_10_100_80003es2lan
Kumeran(gigabit, half) ==
    <<Write("KMRN_HD", IF gigabit THEN {"1000"} ELSE {}),
      Mac("TIPG", {"IPGT_1000"}, IF gigabit THEN {"IPGT_1000"} ELSE {}),
      Edit("KMRN_MODE", {"PASS_FALSE_CARRIER"}, IF half THEN {"PASS_FALSE_CARRIER"} ELSE {})>>

\* Mutant of the definition below: the bit of PHY_CTRL goes to CTRL.
GigabitOffInCtrl == Mac("CTRL", {}, {"GBE_DISABLE"})

GigabitOff == Mac("PHY_CTRL", {}, {"GBE_DISABLE"})

\* n times over.
Times(n, steps) == [i \in 1 .. n * Len(steps) |-> steps[((i - 1) % Len(steps)) + 1]]

\* e1000_kmrn_lock_loss_workaround_ich8lan; both "linked" and "locked" may end it.
LockLoss ==
    <<Do("linked")>> \o Times(LockTries, <<Access, Do("locked")>> \o Ignoring(HwReset))
    \o <<GigabitOff>> \o Ignoring(GigDownshift) \o <<Do("fail")>>

\* e1000_igp3_phy_powerdown_workaround_ich8lan; "down" ends it if the PHY is.
PhyDown ==
    LET try == <<GigabitOff>> \o Ignoring(GigDownshift)
               \o Ignoring(<<EditUnread("VR_CTRL", {"SHUTDOWN"}, {"SHUTDOWN"}, "junk")>>)
    IN  When(adapter.phy = "igp_3", try \o <<Do("down"), Do("phy_rst")>> \o try)

\* e1000_power_up_phy_copper and e1000_power_down_phy_copper
Power(off, on) == Ignoring(<<EditUnread("PHY_CONTROL", off, on, "zero")>>)

\* phy->ops.power_down leaves the PHY to the firmware or to those who block its reset.
PowerDown == <<Do("allowed")>> \o Power({}, {"POWER_DOWN"})

DisableGigWol == <<Mac("PHY_CTRL", {}, {"D0A_LPLU", "GBE_DISABLE"})>>

Routine(name, c) ==
    CASE name = "setup" -> Setup(c)
      [] name = "d0_on" -> D0LpluOn(c)
      [] name = "d0_off" -> D0LpluOff(c)
      [] name = "d3_on" -> D3LpluOn(c)
      [] name = "d3_off" -> D3LpluOff(c)
      [] name = "power_up" -> Power({"POWER_DOWN"}, {})
      [] name = "power_down" -> PowerDown
      [] name = "kmrn_1000" -> Kumeran(TRUE, FALSE)
      [] name = "kmrn_full" -> Kumeran(FALSE, FALSE)
      [] name = "kmrn_half" -> Kumeran(FALSE, TRUE)
      [] name = "lock_loss" -> LockLoss
      [] name = "phy_down" -> PhyDown
      [] name = "disable_gig_wol" -> DisableGigWol
      [] name = "phy_reset" -> HwReset
      [] OTHER -> <<Do("restart")>>

\* Calls any adapter has, and those of one family only; LPLU and SmartSpeed need an IGP or an ICH.
Calls ==
    {"setup", "power_up", "power_down", "phy_reset", "reset_hw"}
    \cup (IF IsIch \/ adapter.phy = "igp_2" THEN {"d0_on", "d0_off", "d3_on", "d3_off"} ELSE {})
    \cup (IF adapter.mac = "80003" THEN {"kmrn_1000", "kmrn_full", "kmrn_half"} ELSE {})
    \cup (IF Is82566 THEN {"lock_loss", "phy_down"} ELSE {})
    \cup (IF adapter.mac = "ich9" THEN {"disable_gig_wol"} ELSE {})
-----------------------------------------------------------------------------
Init ==
    /\ adapter \in Adapters
    /\ cfg \in Configs[adapter]
    /\ call = "none"
    /\ todo = <<>>
    /\ ret_val = "success"
    /\ reg = [r \in Registers |-> IF r \in DOMAIN PhyBits THEN PhyDefault[r] ELSE MacDefault[r]]
    /\ ignored = FALSE
    /\ diag_failed = FALSE

\* A caller may want something else every time it sets the link up.
Begin(name, c) ==
    /\ todo = <<>>
    /\ name \in Calls
    /\ name # "setup" => c = cfg
    /\ cfg' = c
    /\ call' = name
    /\ todo' = Routine(name, c)
    /\ ret_val' = "success"
    /\ ignored' = FALSE
    /\ UNCHANGED <<adapter, reg, diag_failed>>

next == Head(todo)
Next_is(kinds) == todo # <<>> /\ next.do \in kinds

\* The step is done and the n after it are not; or it failed.
SkipTo(n) == todo' = SubSeq(todo, n + 2, Len(todo))
Advance == SkipTo(0) /\ UNCHANGED <<adapter, cfg, call, ret_val>>

Fail ==
    /\ IF next.strict THEN todo' = <<>> /\ ret_val' = "error" /\ UNCHANGED ignored
                      ELSE SkipTo(next.skip) /\ ignored' = TRUE /\ UNCHANGED ret_val
    /\ UNCHANGED <<adapter, cfg, call>>

\* The loopback's register remembers how it was accessed last.
Accessed(failed) == diag_failed' = IF next.reg = "KMRN_DIAG" THEN failed ELSE diag_failed

Changed(bits) == (bits \ next.off) \cup next.on
RegIs(bits) == reg' = [reg EXCEPT ![next.reg] = bits]

MacWrite ==
    /\ Next_is({"mac"})
    /\ RegIs(Changed(reg[next.reg]))
    /\ Advance
    /\ Accessed(FALSE)
    /\ UNCHANGED ignored

\* A software reset may take the clock of the PHY back to its default.
PhyWrite ==
    /\ Next_is({"edit", "commit", "zero", "junk"})
    /\ \E after \in IF next.do = "commit" THEN {{}, {"TX_CLK_25"}} ELSE {{}} :
          reg' = [reg EXCEPT ![next.reg] = Changed(@), !["EXT_CTRL"] = IF next.reg = "EXT_CTRL"
                                                                     THEN Changed(@) ELSE @ \ after]
    /\ Advance
    /\ Accessed(FALSE)
    /\ UNCHANGED ignored

\* An error of the write may come after it was done.
PhyWriteFails ==
    /\ Next_is({"edit", "commit", "zero", "junk"})
    /\ UNCHANGED reg \/ RegIs(Changed(reg[next.reg]))
    /\ Accessed(TRUE)
    /\ Fail

\* The read failed, and what the word holds is written.
ReadIgnored ==
    /\ Next_is({"zero", "junk"})
    /\ \E word \in IF next.do = "zero" THEN {{}} ELSE SUBSET Bits(next.reg) : RegIs(Changed(word))
    /\ ignored' = TRUE
    /\ Accessed(TRUE)
    /\ Advance

AccessDone ==
    /\ Next_is({"access"})
    /\ SkipTo(0) \/ SkipTo(next.skip)
    /\ UNCHANGED <<adapter, cfg, call, ret_val, reg, ignored, diag_failed>>

AccessFails == Next_is({"access"}) /\ UNCHANGED <<reg, diag_failed>> /\ Fail

\* A test that may end the call, with success.
Test ==
    /\ Next_is({"linked", "locked", "allowed", "down"})
    /\ SkipTo(0) \/ (todo' = <<>> /\ next.do # "down") \/ (todo' = <<>> /\ "SHUTDOWN" \in reg["VR_CTRL"])
    /\ UNCHANGED <<adapter, cfg, call, ret_val, reg, ignored, diag_failed>>

GiveUp == Next_is({"fail"}) /\ UNCHANGED <<reg, diag_failed>> /\ Fail
-----------------------------------------------------------------------------
(* Resets.                                                                 *)

AfterReset(regs, default) == [r \in Registers |-> IF r \in regs THEN default[r] ELSE reg[r]]
PhyReset == AfterReset(DOMAIN PhyBits, PhyDefault)

\* e1000_phy_hw_reset_generic: one that is blocked is a success.
HwResetDone ==
    /\ Next_is({"reset", "phy_rst"})
    /\ reg' = PhyReset \/ (next.do = "reset" /\ UNCHANGED reg)
    /\ Advance
    /\ UNCHANGED <<ignored, diag_failed>>

\* The PHY is not acquired, or its configuration does not come.
HwResetFails ==
    /\ Next_is({"reset"})
    /\ UNCHANGED reg \/ (adapter.phy \in {"igp_2", "gg82563"} /\ reg' = PhyReset)
    /\ UNCHANGED diag_failed
    /\ Fail

\* mac->ops.reset_hw: that of the ICH takes the PHY with it unless told not to.  The result is
\* that of reading the NVM.
Restart ==
    /\ Next_is({"restart"})
    /\ \E both \in IF IsIch /\ ~cfg.reset_disable THEN BOOLEAN ELSE {FALSE} :
          reg' = [r \in Registers |->
                    IF r \in DOMAIN MacBits THEN MacDefault[r] ELSE IF both THEN PhyDefault[r] ELSE reg[r]]
    /\ todo' = <<>>
    /\ ret_val' \in {"success", "error"}
    /\ UNCHANGED <<adapter, cfg, call, ignored, diag_failed>>

DoStep ==
    \/ MacWrite \/ PhyWrite \/ PhyWriteFails \/ ReadIgnored \/ AccessDone \/ AccessFails
    \/ Test \/ GiveUp \/ HwResetDone \/ HwResetFails \/ Restart

Next ==
    \/ \E name \in Calls : \E c \in Configs[adapter] : Begin(name, c)
    \/ DoStep

Spec == Init /\ [][Next]_vars
-----------------------------------------------------------------------------
(* Properties.                                                             *)

TypeOK ==
    /\ adapter \in Adapters
    /\ cfg \in Configs[adapter]
    /\ call \in Calls \cup {"none"}
    /\ \A i \in DOMAIN todo : todo[i].reg \in Registers \cup {"none"}
    /\ ret_val \in {"success", "error"}
    /\ \A r \in Registers : reg[r] \subseteq Bits(r)
    /\ ignored \in BOOLEAN /\ diag_failed \in BOOLEAN

Returned(names) == todo = <<>> /\ call \in names /\ ret_val = "success"

\* The crossover a setup ends with: forced speeds need MDI, as the PHYs' routines say.
Mdix == IF cfg.autoneg THEN cfg.mdix ELSE 1

\* A setup that succeeded has chosen the crossover mode asked for, MDI when speed and duplex are
\* forced, whatever modes and whichever failed setups went before; it leaves the mode alone if
\* told not to reset the PHY, and on the BM of an ICH, whose forcing writes another PHY's register.
CrossoverAsAsked ==
    LET Mode(r, auto, force) ==
            CASE Mdix = 1 -> reg[r] \cap {auto, force} = {}
              [] Mdix = 2 -> reg[r] \cap {auto, force} = {force}
              [] OTHER -> auto \in reg[r]
    IN  Returned({"setup"}) /\ (cfg.reset_disable => ~cfg.autoneg) =>
          CASE adapter.phy \in {"igp_2", "igp_3"} -> Mode("PORT_CTRL", "AUTO_MDIX", "FORCE_MDI_MDIX")
            [] adapter.phy = "ife" -> Mode("MDIX_CONTROL", "AUTO_MDIX", "FORCE_MDIX")
            [] adapter.phy \in {"m88", "bm", "gg82563"} /\ (cfg.autoneg \/ ~IsIch) ->
                 reg["SPEC_CTRL"] \cap {"X_MODE_0", "X_MODE_1"} = XMode(Mdix)
            [] OTHER -> TRUE

\* After a setup that succeeded the MAC and the PHY agree: both negotiate, what was asked for, or
\* both are forced to the one speed and duplex, with the PHY's clock and carrier sense for it; and
\* padding is off at both ends of the Kumeran interface of an 80003.
BothEndsAgree ==
    LET control == reg["PHY_CONTROL"]
        ctrl == reg["CTRL"]
        Forced(bit, phybit) == bit \in ctrl <=> phybit \in control
    IN  Returned({"setup"}) =>
          /\ "SLU" \in ctrl
          /\ \A bit \in {"FRCSPD", "FRCDPX"} : bit \in ctrl <=> ~cfg.autoneg
          /\ "AUTO_NEG_EN" \in control <=> cfg.autoneg
          /\ ~cfg.autoneg =>
               /\ Forced("FD", "FULL_DUPLEX") /\ Forced("SPD_100", "SPEED_100")
               /\ "SPD_100" \in ctrl <=> cfg.speed = 100
               /\ "FD" \in ctrl <=> cfg.full
               /\ {"ASDE", "SPD_1000"} \cap ctrl = {} /\ "SPEED_1000" \notin control
               /\ adapter.phy = "m88" =>
                    "TX_CLK_25" \in reg["EXT_CTRL"] /\ "CRS_ON_TX" \in reg["SPEC_CTRL"]
               /\ adapter.phy = "gg82563" =>
                    ("TX_CLK_25" \in reg["EXT_CTRL"] <=> cfg.speed = 100)
          /\ cfg.autoneg =>
               /\ "10/100" \in reg["PHY_AUTONEG_ADV"] <=> cfg.advertised # "1000"
               /\ adapter.phy # "ife" =>
                    ("FD_CAPS" \in reg["PHY_1000T_CTRL"] <=> cfg.advertised # "10/100")
               /\ adapter.phy \in {"igp_2", "igp_3"} /\ ~cfg.reset_disable /\ cfg.ms_type # "default" =>
                    ("MS_ENABLE" \in reg["PHY_1000T_CTRL"] <=> cfg.ms_type # "auto")
          /\ adapter.mac = "80003" =>
               "DIS_PADDING" \in reg["KMRN_INB"] /\ "DIS_PADDING" \in reg["INBAND"]

\* A call about the LPLU of one power state that succeeded and overlooked no error has turned that
\* LPLU on, and SmartSpeed off with it, or that LPLU off and SmartSpeed to what it is set to, whatever
\* the calls before it left.  It does not say that an LPLU is only on for the advertisements it is
\* meant for, nor that the other state's LPLU and SmartSpeed exclude each other: in this code they
\* need not.
LpluAsAsked ==
    LET d0 == call \in {"d0_on", "d0_off"}
        lplu == CASE IsIch /\ d0 -> "D0A_LPLU" [] IsIch /\ ~d0 -> "NOND0A_LPLU"
                  [] ~IsIch /\ d0 -> "D0_LPLU" [] OTHER -> "D3_LPLU"
        on == lplu \in reg[IF IsIch THEN "PHY_CTRL" ELSE "POWER_MGMT"]
        speed == "SMART_SPEED" \in reg["PORT_CONFIG"]
        has_d0 == adapter.mac # "80003" /\ adapter.phy # "ife"
    IN  ~ignored /\ (d0 => has_d0) =>
          /\ Returned({"d0_on", "d3_on"}) /\ cfg.advertised # "1000" => on /\ ~speed
          /\ Returned({"d0_off", "d3_off"}) =>
               ~on /\ (cfg.smart_speed # "default" => (speed <=> cfg.smart_speed = "on"))

\* The gigabit workaround sets a loopback and takes it back, in the middle of calls that may end
\* at any access: lock_loss, d0_on, d3_on and both tries of phy_down.  Whichever of them have run and
\* however they ended, whenever no call is under way the loopback is on only if the last access to
\* its own register failed; then it stays on, as the workaround has no result to look at.
LoopbackUndone ==
    todo = <<>> /\ "NELPBK" \in reg["KMRN_DIAG"] => diag_failed

\* At gigabit the Kumeran interface, the gap between packets and the PHY's false carriers are set
\* for gigabit, below for 10/100, all of them or the call has failed.
KumeranAgrees ==
    Returned({"kmrn_1000", "kmrn_full", "kmrn_half"}) =>
        /\ "1000" \in reg["KMRN_HD"] <=> call = "kmrn_1000"
        /\ "IPGT_1000" \in reg["TIPG"] <=> call = "kmrn_1000"
        /\ "PASS_FALSE_CARRIER" \in reg["KMRN_MODE"] <=> call = "kmrn_half"
=============================================================================
