------------------------------ MODULE PhyGoals ------------------------------
(***************************************************************************)
(* What each call of PhySetup is to achieve, one bit at a time, and when a *)
(* row of steps achieves it wherever it starts from.  GoalInv, that what   *)
(* a call under way has still to do reaches each of its goals or keeps it, *)
(* is the inductive invariant behind the properties of PhySetup.           *)
(***************************************************************************)
EXTENDS PhySetup

Edits == {"edit", "commit", "zero", "junk"}
Resets == {"reset", "phy_rst"}
\* what may end a call with success
Ends == {"linked", "locked", "allowed", "down", "restart"}

\* The steps of an adapter's calls.  Only the 82566 has the loopback of the gigabit workaround.
Steps(a) ==
    {s \in [do : Edits \cup Resets \cup Ends \cup {"mac", "access", "fail"},
            reg : Registers \cup {"none"}, off : SUBSET AllBits, on : SUBSET AllBits,
            strict : BOOLEAN, skip : Nat] :
        /\ s.do \in Edits \cup {"mac"} => s.reg \in Registers /\ s.on \subseteq Bits(s.reg)
        /\ s.do = "commit" => s.reg = "PHY_CONTROL"
        /\ s.reg = "KMRN_DIAG" =>
              a = [mac |-> "ich8", phy |-> "igp_3"] /\ s.do = "edit" /\ "NELPBK" \in s.off \cup s.on}

\* A goal: the bit is to end as 1 or 0 if the call succeeds; if "ign" even when errors are ignored.
GoalType == [reg : Registers, bit : AllBits, to : {0, 1}, ign : BOOLEAN]
Goal(r, b, v) == [reg |-> r, bit |-> b, to |-> IF v THEN 1 ELSE 0, ign |-> TRUE]
Watched(g) == [g EXCEPT !.ign = FALSE]
Holds(g) == g.bit \in reg[g.reg] <=> g.to = 1

\* Steps that do not move the bit away from where it is to be.
Keeping(a, g) ==
    {s \in Steps(a) :
        /\ s.do \in Edits \cup {"mac"} /\ s.reg = g.reg =>
              /\ IF g.to = 1 THEN g.bit \in s.on \/ g.bit \notin s.off ELSE g.bit \notin s.on
              /\ g.ign => s.do \notin {"zero", "junk"}
        /\ s.do = "commit" => g.reg # "EXT_CTRL" \/ g.bit # "TX_CLK_25" \/ g.to = 0
        /\ s.do \in Resets => g.reg \notin DOMAIN PhyBits
        /\ s.do = "restart" =>
              g.reg \in DOMAIN MacBits /\ (g.bit \in MacDefault[g.reg] <=> g.to = 1)}

\* Steps that move it there, or end the call with an error, or ignore one.
Setting(a, g) ==
    {s \in Steps(a) :
        /\ s.reg = g.reg
        /\ IF g.to = 1 THEN g.bit \in s.on ELSE g.bit \in s.off \ s.on
        /\ \/ s.do = "mac"
           \/ /\ s.do \in Edits
              /\ g.ign => s.do \notin {"zero", "junk"} /\ s.strict}

\* Steps after which the call goes on.
Passing(a) == {s \in Steps(a) : s.do \notin Ends}

Skipped(s, g) == IF s.do = "access" \/ g.ign THEN s.skip ELSE 0

\* From its i-th step on a row keeps the bit: a step that may move it away is directly followed by
\* one that sets it.
KeepsFrom(a, q, g, i) ==
    \A j \in i .. Len(q) :
        \/ q[j] \in Keeping(a, g)
        \/ /\ q[j] \in Passing(a) /\ Skipped(q[j], g) = 0
           /\ j < Len(q) /\ q[j + 1] \in Setting(a, g)
Keeps(a, q, g) == KeepsFrom(a, q, g, 1)

\* It comes to a step that sets the bit, and keeps it.
Reaches(a, q, g) ==
    \E i \in 1 .. Len(q) :
        /\ q[i] \in Setting(a, g)
        /\ \A j \in 1 .. i - 1 : q[j] \in Passing(a) /\ j + Skipped(q[j], g) < i
        /\ KeepsFrom(a, q, g, i + 1)

If(condition, goals) == IF condition THEN goals ELSE {}

\* What a setup is to leave: the crossover,
ModeGoals(r, auto, force, mdix) ==
    {Goal(r, auto, mdix \notin {1, 2})} \cup If(mdix \in {1, 2}, {Goal(r, force, mdix = 2)})

XModeGoals(a, mdix) ==
    {Goal("SPEC_CTRL", "X_MODE_0", mdix \in {0, 2} \/ (mdix = 3 /\ a.phy = "gg82563")),
     Goal("SPEC_CTRL", "X_MODE_1", mdix \in {0, 3})}

CrossoverGoals(a, c) ==
    LET mdix == IF c.autoneg THEN c.mdix ELSE 1
    IN  If(c.reset_disable => ~c.autoneg,
           CASE a.phy \in {"igp_2", "igp_3"} -> ModeGoals("PORT_CTRL", "AUTO_MDIX", "FORCE_MDI_MDIX", mdix)
             [] a.phy = "ife" -> ModeGoals("MDIX_CONTROL", "AUTO_MDIX", "FORCE_MDIX", mdix)
             [] a.phy \in {"m88", "bm", "gg82563"} /\ (c.autoneg \/ a.mac \notin {"ich8", "ich9"}) ->
                  XModeGoals(a, mdix)
             [] OTHER -> {})

\* the two ends,
ForcedGoals(a, c) ==
    {Goal("CTRL", "FD", c.full), Goal("CTRL", "SPD_100", c.speed = 100),
     Goal("CTRL", "ASDE", FALSE), Goal("CTRL", "SPD_1000", FALSE),
     Goal("PHY_CONTROL", "FULL_DUPLEX", c.full), Goal("PHY_CONTROL", "SPEED_100", c.speed = 100),
     Goal("PHY_CONTROL", "SPEED_1000", FALSE)}
    \cup If(a.phy = "m88", {Goal("EXT_CTRL", "TX_CLK_25", TRUE), Goal("SPEC_CTRL", "CRS_ON_TX", TRUE)})
    \cup If(a.phy = "gg82563", {Goal("EXT_CTRL", "TX_CLK_25", c.speed = 100)})

AutonegGoals(a, c) ==
    {Goal("PHY_AUTONEG_ADV", "10/100", c.advertised # "1000")}
    \cup If(a.phy # "ife", {Goal("PHY_1000T_CTRL", "FD_CAPS", c.advertised # "10/100")})
    \cup If(a.phy \in {"igp_2", "igp_3"} /\ ~c.reset_disable /\ c.ms_type # "default",
            {Goal("PHY_1000T_CTRL", "MS_ENABLE", c.ms_type # "auto")})

\* and their padding.
SetupGoals(a, c) ==
    {Goal("CTRL", "SLU", TRUE), Goal("CTRL", "FRCSPD", ~c.autoneg), Goal("CTRL", "FRCDPX", ~c.autoneg),
     Goal("PHY_CONTROL", "AUTO_NEG_EN", c.autoneg)}
    \cup (IF c.autoneg THEN AutonegGoals(a, c) ELSE ForcedGoals(a, c))
    \cup CrossoverGoals(a, c)
    \cup If(a.mac = "80003", {Goal("KMRN_INB", "DIS_PADDING", TRUE), Goal("INBAND", "DIS_PADDING", TRUE)})

\* LPLU and SmartSpeed
LpluGoals(a, c, bit_ich, bit_igp, on) ==
    {Watched(IF a.mac \in {"ich8", "ich9"} THEN Goal("PHY_CTRL", bit_ich, on)
                                           ELSE Goal("POWER_MGMT", bit_igp, on))}
    \cup If(on \/ c.smart_speed # "default",
            {Watched(Goal("PORT_CONFIG", "SMART_SPEED", ~on /\ c.smart_speed = "on"))})

KumeranGoals(name) ==
    {Goal("KMRN_HD", "1000", name = "kmrn_1000"), Goal("TIPG", "IPGT_1000", name = "kmrn_1000"),
     Goal("KMRN_MODE", "PASS_FALSE_CARRIER", name = "kmrn_half")}

Goals(a, name, c) ==
    CASE name = "setup" -> SetupGoals(a, c)
      [] name = "d0_on" -> If(a.phy # "ife", LpluGoals(a, c, "D0A_LPLU", "D0_LPLU", TRUE))
      [] name = "d0_off" -> If(a.phy # "ife", LpluGoals(a, c, "D0A_LPLU", "D0_LPLU", FALSE))
      [] name = "d3_on" -> If(c.advertised # "1000", LpluGoals(a, c, "NOND0A_LPLU", "D3_LPLU", TRUE))
      [] name = "d3_off" -> LpluGoals(a, c, "NOND0A_LPLU", "D3_LPLU", FALSE)
      [] name \in {"kmrn_1000", "kmrn_full", "kmrn_half"} -> KumeranGoals(name)
      [] OTHER -> {}

GoalInv ==
    \A g \in Goals(adapter, call, cfg) :
        ret_val = "success" /\ (ignored => g.ign) =>
            \/ Reaches(adapter, todo, g)
            \/ Keeps(adapter, todo, g) /\ Holds(g)

StepsOK ==
    /\ todo \in Seq(Steps(adapter))
    /\ reg \in [Registers -> SUBSET AllBits]
    /\ todo # <<>> => ret_val = "success"

\* The loopback is no call's goal, but every call keeps it off: a step that may set it is directly
\* followed by the one that takes it back.  So it is on only before that one, or if the last access
\* to it failed.
LoopbackOff == Watched(Goal("KMRN_DIAG", "NELPBK", FALSE))

LoopbackInv ==
    /\ Keeps(adapter, todo, LoopbackOff)
    /\ "NELPBK" \in reg["KMRN_DIAG"] =>
          diag_failed \/ (todo # <<>> /\ todo[1] \in Setting(adapter, LoopbackOff))

IInv == TypeOK /\ StepsOK /\ GoalInv /\ LoopbackInv
=============================================================================
