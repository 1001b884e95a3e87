------------------------ MODULE FlowControl_proofs ------------------------
(***************************************************************************)
(* The flow-control setting agrees with the partner's, for PHYs that fail  *)
(* and that do not.                                                        *)
(***************************************************************************)
EXTENDS FlowControl, TLAPS

\* There are four advertisements.
LEMMA FourAdvertisements ==
    ASSUME NEW a \in SUBSET PauseBits
    PROVE  a = {} \/ a = {"PAUSE"} \/ a = {"ASM_DIR"} \/ a = PauseBits
BY DEF PauseBits

\* The if-chain has a result.
LEMMA ResolvedType ==
    ASSUME NEW a, NEW b
    PROVE  Resolved(a, b) \in FcTypes
BY DEF Resolved, FcTypes

\* What e1000_force_mac_fc_generic writes are bits of CTRL; what is advertised, of the PHY.
LEMMA BitTypes ==
    ASSUME NEW t
    PROVE  CtrlBits(t) \subseteq {"TFCE", "RFCE"} /\ Advert(t) \in SUBSET PauseBits
BY DEF CtrlBits, Advert, PauseBits

\* Whatever was asked for, the if-chain's result agrees with what the partner makes of it: it
\* sends PAUSE frames only where the partner heeds them, and heeds them exactly if it may send.
LEMMA ResolutionAgrees ==
    ASSUME NEW a \in SUBSET PauseBits, NEW b \in SUBSET PauseBits
    PROVE  /\ "TFCE" \in CtrlBits(Resolved(a, b)) => IeeeResolution(b, a) \in {"rx_pause", "full"}
           /\ "RFCE" \in CtrlBits(Resolved(a, b)) <=> IeeeResolution(b, a) \in {"tx_pause", "full"}
<1>1. a = {} \/ a = {"PAUSE"} \/ a = {"ASM_DIR"} \/ a = PauseBits BY FourAdvertisements
<1>2. b = {} \/ b = {"PAUSE"} \/ b = {"ASM_DIR"} \/ b = PauseBits BY FourAdvertisements
<1>3. QED BY <1>1, <1>2 DEF IeeeResolution, CtrlBits, PauseBits, Resolved

\* Advertising what was agreed on with a partner leads to an agreement again.
LEMMA ReadvertisedAgrees ==
    ASSUME NEW a \in SUBSET PauseBits, NEW b \in SUBSET PauseBits, NEW t, t = Resolved(a, b)
    PROVE  /\ "TFCE" \in CtrlBits(t) => IeeeResolution(b, Advert(t)) \in {"rx_pause", "full"}
           /\ "RFCE" \in CtrlBits(t) <=> IeeeResolution(b, Advert(t)) \in {"tx_pause", "full"}
<1>1. a = {} \/ a = {"PAUSE"} \/ a = {"ASM_DIR"} \/ a = PauseBits BY FourAdvertisements
<1>2. b = {} \/ b = {"PAUSE"} \/ b = {"ASM_DIR"} \/ b = PauseBits BY FourAdvertisements
<1>3. QED BY <1>1, <1>2 DEF IeeeResolution, CtrlBits, PauseBits, Advert, Resolved

\* Where the same is advertised for what was agreed on as for what is asked for, the agreement
\* is the one that asking leads to.
LEMMA ReadvertisedResolves ==
    ASSUME NEW a \in SUBSET PauseBits, NEW b \in SUBSET PauseBits, original_type \in FcTypes,
           Advert(Resolved(a, b)) = Advert(original_type)
    PROVE  Resolved(a, b) = Resolved(Advert(original_type), b)
<1>1. a = {} \/ a = {"PAUSE"} \/ a = {"ASM_DIR"} \/ a = PauseBits BY FourAdvertisements
<1>2. b = {} \/ b = {"PAUSE"} \/ b = {"ASM_DIR"} \/ b = PauseBits BY FourAdvertisements
<1>3. QED BY <1>1, <1>2 DEF PauseBits, Advert, Resolved, FcTypes

\* Asking leads to all of what was asked for that the table allows, and to no sending of PAUSE
\* frames that was not asked for.
LEMMA AskedResolves ==
    ASSUME NEW b \in SUBSET PauseBits, NEW t, original_type \in FcTypes,
           t = Resolved(Advert(original_type), b)
    PROVE  /\ CtrlBits(t) = CtrlBits(original_type)
                            \cap CtrlBits(IeeeResolution(Advert(original_type), b))
           /\ "TFCE" \in CtrlBits(t) => original_type \in {"tx_pause", "full"}
<1>1. b = {} \/ b = {"PAUSE"} \/ b = {"ASM_DIR"} \/ b = PauseBits BY FourAdvertisements
<1>2. original_type = "none" \/ original_type = "rx_pause" \/ original_type = "tx_pause"
      \/ original_type = "full"
  BY DEF FcTypes
<1>3. QED BY <1>1, <1>2 DEF IeeeResolution, CtrlBits, PauseBits, Advert, Resolved

\* Before the first setup nothing is on.
LEMMA InitInv == Init => IInv
BY DEF Init, IInv, TypeOK, TypesKnown, Advertised, LinkSeen, ResolvedNow, Rested, Settled,
       FcTypes, PauseBits

\* What is asked for is never left open.
LEMMA AskedType ==
    ASSUME NEW t \in FcTypes \cup {"default"}
    PROVE  Asked(t) \in FcTypes /\ Asked(t) # "default" /\ (t # "default" => Asked(t) = t)
BY DEF Asked, FcTypes

\* A setup that runs to its end leaves the link to be negotiated from what is asked for.
LEMMA SetUpInv ==
    ASSUME IInv, NEW t \in FcTypes \cup {"default"}, SetUp(t), config' = "no",
           gate' \in {"idle", "enabling"}, enabled' \in BOOLEAN, armed' \in BOOLEAN,
           enabled' => armed', ctrl' \subseteq {"TFCE", "RFCE"}, lsc' \in BOOLEAN
    PROVE  IInv'
<1>1. original_type' \in FcTypes /\ type' = original_type' /\ original_type' # "default"
  BY AskedType DEF SetUp, Ask
<1>2. adv' = Advert(original_type') /\ adv' \in SUBSET PauseBits
  BY <1>1, BitTypes DEF SetUp, Renegotiate
<1>3. TypeOK'
  <2>1. watermarks' \in BOOLEAN
    BY DEF SetUp
  <2>2. QED
    BY <1>1, <1>2, <2>1 DEF SetUp, Renegotiate, IInv, TypeOK
<1>4. TypesKnown' /\ Advertised'
  BY <1>1, <1>2 DEF SetUp, TypesKnown, Advertised
<1>5. LinkSeen' /\ ResolvedNow' /\ Rested'
  BY DEF SetUp, Renegotiate, LinkSeen, ResolvedNow, Rested
<1>6. QED
  BY <1>3, <1>4, <1>5 DEF IInv

\* A reset, however it goes, leaves the interface to be set up anew.
LEMMA ResetInv ==
    ASSUME IInv, Reset, config' = "no", gate' = "idle", enabled' = FALSE, armed' = armed
    PROVE  IInv'
<1> USE DEF Reset, ResetMac
<1>1. original_type \in FcTypes \cup {"default"} /\ armed \in BOOLEAN
  BY DEF IInv, TypeOK
<1>2. CASE SetUp(original_type)
  BY <1>1, <1>2, SetUpInv
<1>3. ASSUME NEW d \in SUBSET PauseBits, NEW written \in BOOLEAN, NEW restarted \in BOOLEAN,
             SetUpFails(d, written, restarted)
      PROVE  IInv'
  <2>1. original_type' \in FcTypes /\ type' = original_type' /\ original_type' # "default"
    BY <1>1, <1>3, AskedType DEF SetUpFails, Ask
  <2>2. TypeOK'
    BY <1>1, <1>3, <2>1, BitTypes DEF SetUpFails, IInv, TypeOK
  <2>3. QED
    BY <1>3, <2>1, <2>2 DEF SetUpFails, IInv, TypesKnown, Advertised, LinkSeen, ResolvedNow, Rested
<1>4. CASE SetUpBlocked
  BY <1>4 DEF SetUpBlocked, phyVars, IInv, TypeOK, TypesKnown, Advertised, LinkSeen, ResolvedNow,
         Rested, FcTypes
<1>5. QED
  BY <1>2, <1>3, <1>4

\* enable, whose setup asks for the result of the last negotiation, or does not get that far.
LEMMA EnableInv ==
    ASSUME IInv, Enable
    PROVE  IInv'
<1>1. type \in FcTypes \cup {"default"} /\ ctrl \subseteq {"TFCE", "RFCE"}
  BY DEF IInv, TypeOK
<1>2. config' = "no" /\ gate' = "enabling" /\ enabled' = TRUE /\ armed' = TRUE /\ ctrl' = ctrl
  BY DEF Enable, EnableBegins, Idle
<1>3. lsc' \in BOOLEAN
  BY DEF Enable, IInv, TypeOK
<1>4. SetUp(type)
  BY DEF Enable
<1>5. QED
  BY <1>1, <1>2, <1>3, <1>4, SetUpInv

LEMMA EnableSetUpFailsInv ==
    ASSUME IInv, NEW d \in SUBSET PauseBits, NEW reset \in BOOLEAN, NEW written \in BOOLEAN,
           NEW restarted \in BOOLEAN, EnableSetUpFails(d, reset, written, restarted)
    PROVE  IInv'
<1> USE DEF EnableSetUpFails, EnableBegins, Idle
<1>1. type \in FcTypes \cup {"default"}
  BY DEF IInv, TypeOK
<1>2. original_type' \in FcTypes /\ type' = original_type' /\ original_type' # "default"
  BY <1>1, AskedType DEF Ask
<1>3. adv' \in SUBSET PauseBits /\ sent' \in SUBSET PauseBits
  BY BitTypes DEF IInv, TypeOK
<1>4. TypeOK'
  BY <1>2, <1>3 DEF IInv, TypeOK
<1>5. TypesKnown' /\ Advertised' /\ LinkSeen' /\ ResolvedNow' /\ Rested'
  BY <1>2 DEF TypesKnown, Advertised, LinkSeen, ResolvedNow, Rested
<1>6. QED
  BY <1>4, <1>5 DEF IInv

LEMMA EnableBlockedInv ==
    ASSUME IInv, EnableBlocked
    PROVE  IInv'
BY DEF EnableBlocked, EnableBegins, Idle, fcVars, phyVars, IInv, TypeOK, TypesKnown, Advertised,
       LinkSeen, ResolvedNow, Rested

\* Resetting the PHY changes its advertisement and leaves a link change to be handled.
LEMMA PhyResetInv ==
    ASSUME IInv, NEW d \in SUBSET PauseBits, PhyReset(d), config' = "no",
           UNCHANGED <<original_type, get_link_status, enabled, armed, gate, watermarks>>,
           type' \in FcTypes \cup {"default"}, type' = "default" <=> type = "default",
           ctrl' \subseteq {"TFCE", "RFCE"},
           gate # "starting",
           trouble' = trouble \cup {"advert"} \/ trouble' = trouble \cup {"advert", "config"}
    PROVE  IInv'
BY DEF IInv, PhyReset, TypeOK, TypesKnown, Advertised, LinkSeen, ResolvedNow, Rested

\* A configuration that ends well with the link it began with ends in agreement.
LEMMA FinishInv ==
    ASSUME IInv, Finish
    PROVE  IInv'
<1> USE DEF IInv, Finish, phyVars
<1>1. type \in FcTypes /\ type # "default" /\ original_type # "default"
      /\ original_type \in FcTypes
  BY DEF TypeOK, TypesKnown, FcTypes
<1>2. type' \in FcTypes /\ type' # "default" /\ TypeOK'
  BY <1>1, BitTypes DEF TypeOK, FcTypes
<1>3. TypesKnown' /\ Advertised' /\ LinkSeen' /\ ResolvedNow'
  BY <1>1, <1>2 DEF TypesKnown, Advertised, LinkSeen, ResolvedNow
<1>4. Rested'
  <2> SUFFICES ASSUME enabled', link', ~get_link_status', ~lsc', "config" \notin trouble'
               PROVE  /\ (sent = adv => Agreement)'
                      /\ \E a \in SUBSET PauseBits : type' = Half(Resolved(a, partner))
                      /\ trouble' = {} => type' = Half(Resolved(Advert(original_type), partner))
    BY <1>1 DEF Rested, Half, Resolved
  <2>1. type = Resolved(adv, partner) /\ adv \in SUBSET PauseBits /\ partner \in SUBSET PauseBits
    BY DEF ResolvedNow, TypeOK
  <2>2. type' = Half(Resolved(adv, partner))
    BY <2>1 DEF Half
  <2>3. (sent = adv => Agreement)'
    <3>1. CASE half
      BY <3>1 DEF Agreement, CtrlBits
    <3>2. CASE ~half
      <4>1. ctrl' = CtrlBits(Resolved(adv, partner))
        BY <2>1, <3>2
      <4>2. QED
        BY <2>1, <3>2, <4>1, ResolutionAgrees DEF Agreement
    <3>3. QED
      BY <3>1, <3>2 DEF TypeOK
  <2>4. trouble' = {} => adv = Advert(original_type)
    BY DEF Advertised, TypesKnown
  <2>5. QED
    BY <2>1, <2>2, <2>3, <2>4
<1>5. QED
  BY <1>2, <1>3, <1>4

\* Rewriting the advertisement without a restart keeps what was agreed.
LEMMA SelectNotRestartedInv ==
    ASSUME IInv, SelectNotRestarted
    PROVE  IInv'
<1> USE DEF IInv, SelectNotRestarted, SelectBegins, Idle, fcVars, macVars
<1>1. original_type \in FcTypes /\ original_type # "default" /\ config = "no" /\ config' = "no"
  BY DEF TypeOK, TypesKnown
<1>2. TypeOK'
  BY BitTypes DEF TypeOK, Readvertised
<1>3. TypesKnown' /\ Advertised' /\ LinkSeen' /\ ResolvedNow'
  BY <1>1 DEF TypesKnown, Advertised, LinkSeen, ResolvedNow, Readvertised
<1>4. Rested'
  <2> SUFFICES ASSUME enabled', link', ~get_link_status', ~lsc', "config" \notin trouble'
               PROVE  /\ (sent = adv => Agreement)'
                      /\ (trouble = {} =>
                            type = Half(Resolved(Advert(original_type), partner)))'
    BY <1>1 DEF Rested, Readvertised, Half, Resolved
  <2>1. enabled /\ config = "no" /\ link /\ ~get_link_status /\ ~lsc /\ "config" \notin trouble
    BY <1>1 DEF Readvertised
  <2>2. PICK a \in SUBSET PauseBits : type = Half(Resolved(a, partner))
    BY <2>1 DEF Rested
  <2>3. ctrl = CtrlBits(type) /\ partner \in SUBSET PauseBits
    BY <2>1 DEF Rested, TypeOK
  <2>4. (sent = adv => Agreement)'
    <3>1. CASE half
      BY <2>2, <2>3, <3>1 DEF Agreement, Half, CtrlBits
    <3>2. CASE ~half
      <4>1. type = Resolved(a, partner)
        BY <2>2, <3>2 DEF Half
      <4>2. QED
        BY <2>3, <3>2, <4>1, ReadvertisedAgrees DEF Agreement
    <3>3. QED
      BY <3>1, <3>2 DEF TypeOK
  <2>5. trouble' = {} => type = Half(Resolved(Advert(original_type), partner))
    <3> SUFFICES ASSUME trouble' = {}
                 PROVE  type = Half(Resolved(Advert(original_type), partner))
      OBVIOUS
    <3>1. Advert(type) = Advert(original_type)
      BY DEF Readvertised
    <3>2. CASE half
      BY <2>2, <3>2 DEF Half
    <3>3. CASE ~half
      BY <1>1, <2>2, <2>3, <3>1, <3>3, ReadvertisedResolves DEF Half
    <3>4. QED
      BY <3>2, <3>3 DEF TypeOK
  <2>6. QED
    BY <2>4, <2>5 DEF Half, Resolved
<1>5. QED
  BY <1>2, <1>3, <1>4

\* Every step keeps the invariant.
LEMMA NextInv ==
    ASSUME IInv, [Next]_vars
    PROVE  IInv'
<1> USE DEF fcVars, macVars, phyVars, ctlVars
<1>1. CASE Start
  BY <1>1, ResetInv DEF Start, IInv, TypeOK, TypesKnown
<1>2. CASE EnableFails
  BY <1>2, ResetInv DEF EnableFails, Idle, IInv, TypeOK
<1>3. CASE Disable
  BY <1>3, ResetInv DEF Disable, Idle
<1>4. CASE Enable
  BY <1>4, EnableInv
<1>5. ASSUME NEW d \in SUBSET PauseBits, NEW reset \in BOOLEAN, NEW written \in BOOLEAN,
             NEW restarted \in BOOLEAN, EnableSetUpFails(d, reset, written, restarted)
      PROVE  IInv'
  BY <1>5, EnableSetUpFailsInv
<1>6. CASE EnableBlocked
  BY <1>6, EnableBlockedInv
<1>7. CASE SelectMedium
  <2>1. Advert(type) = Advert(original_type) \/ "advert" \in trouble'
    BY <1>7 DEF SelectMedium, Readvertised
  <2>2. adv' = Advert(type) /\ sent' = Advert(type) /\ link' = FALSE /\ get_link_status' = TRUE
        /\ UNCHANGED <<partner, half, original_type, type, config, enabled, armed, ctrl,
                       watermarks>>
        /\ config = "no" /\ gate # "starting" /\ gate' = "selecting" /\ lsc' = (lsc \/ link)
        /\ trouble' = Readvertised
    BY <1>7 DEF SelectMedium, SelectBegins, Renegotiate, Idle
  <2>3. TypeOK'
    BY <2>2, BitTypes DEF Readvertised, IInv, TypeOK
  <2>4. TypesKnown' /\ Advertised'
    BY <2>1, <2>2 DEF Readvertised, IInv, TypesKnown, Advertised
  <2>5. LinkSeen' /\ ResolvedNow' /\ Rested'
    BY <2>2 DEF LinkSeen, ResolvedNow, Rested
  <2>6. QED
    BY <2>3, <2>4, <2>5 DEF IInv
<1>8. CASE SelectNotRestarted
  BY <1>8, SelectNotRestartedInv
<1>9. CASE SelectFails
  BY <1>9 DEF SelectFails, SelectBegins, Idle, IInv, TypeOK, TypesKnown, Advertised, LinkSeen,
         ResolvedNow, Resolved, Rested, Half, Agreement
<1>10. CASE SelectEnds
  BY <1>10 DEF SelectEnds, IInv, TypeOK, TypesKnown, Advertised, LinkSeen, ResolvedNow, Resolved,
         Rested, Half, Agreement
<1>11. CASE CheckLink
  <2>1. TypeOK'
    BY <1>11 DEF CheckLink, IInv, TypeOK
  <2>2. TypesKnown' /\ Advertised'
    BY <1>11 DEF CheckLink, IInv, TypesKnown, Advertised
  <2>3. LinkSeen' /\ ResolvedNow' /\ Rested'
    BY <1>11 DEF CheckLink, IInv, TypesKnown, LinkSeen, ResolvedNow, Rested
  <2>4. QED
    BY <2>1, <2>2, <2>3 DEF IInv
<1>12. CASE ForceAsked
  BY <1>12, BitTypes DEF ForceAsked, IInv, TypeOK, TypesKnown, Advertised, LinkSeen, ResolvedNow,
         Rested
<1>13. CASE ConfigFails
  <2>1. TypeOK'
    BY <1>13 DEF ConfigFails, IInv, TypeOK
  <2>2. TypesKnown' /\ Advertised'
    BY <1>13 DEF ConfigFails, IInv, TypesKnown, Advertised
  <2>3. LinkSeen' /\ ResolvedNow' /\ Rested'
    BY <1>13 DEF ConfigFails, IInv, TypesKnown, LinkSeen, ResolvedNow, Rested
  <2>4. QED
    BY <2>1, <2>2, <2>3 DEF IInv
<1>14. CASE ReadStatus
  <2>1. TypeOK'
    BY <1>14 DEF ReadStatus, IInv, TypeOK
  <2>2. TypesKnown' /\ Advertised'
    BY <1>14 DEF ReadStatus, IInv, TypesKnown, Advertised
  <2>3. LinkSeen' /\ ResolvedNow' /\ Rested'
    BY <1>14 DEF ReadStatus, IInv, TypesKnown, LinkSeen, ResolvedNow, Rested
  <2>4. QED
    BY <2>1, <2>2, <2>3 DEF IInv
<1>15. CASE Resolve
  <2>1. type' \in FcTypes /\ type' # "default" /\ original_type # "default"
    BY <1>15, ResolvedType DEF Resolve, FcTypes, IInv, TypesKnown
  <2>2. ResolvedNow'
    BY <1>15 DEF Resolve, ResolvedNow, Resolved
  <2>3. QED
    BY <1>15, <2>1, <2>2 DEF Resolve, IInv, TypeOK, TypesKnown, Advertised, LinkSeen, Rested
<1>16. CASE Finish
  BY <1>16, FinishInv
<1>17. ASSUME NEW d \in SUBSET PauseBits, FinishAfterReset(d) PROVE IInv'
  <2>1. type' \in FcTypes \cup {"default"} /\ (type' = "default" <=> type = "default")
    BY <1>17 DEF FinishAfterReset, IInv, TypeOK, TypesKnown, FcTypes
  <2>2. ctrl' \subseteq {"TFCE", "RFCE"} /\ gate # "starting"
    BY <1>17, BitTypes DEF FinishAfterReset, IInv, TypesKnown
  <2>3. QED
    BY <1>17, <2>1, <2>2, PhyResetInv DEF FinishAfterReset
<1>18. ASSUME NEW d \in SUBSET PauseBits, FinishWithoutLock(d) PROVE IInv'
  BY <1>18, PhyResetInv DEF FinishWithoutLock, IInv, TypeOK, TypesKnown
<1>19. ASSUME NEW d \in SUBSET PauseBits, GetLinkUpInfo(d) PROVE IInv'
  BY <1>19, PhyResetInv DEF GetLinkUpInfo, IInv, TypeOK
<1>20. CASE Handler
  <2>1. config' = "no" /\ get_link_status' = TRUE
    BY <1>20 DEF Handler, Idle
  <2>2. LinkSeen' /\ ResolvedNow' /\ Rested'
    BY <2>1 DEF LinkSeen, ResolvedNow, Rested
  <2>3. TypeOK'
    BY <1>20 DEF Handler, IInv, TypeOK
  <2>4. TypesKnown' /\ Advertised'
    BY <1>20 DEF Handler, IInv, TypesKnown, Advertised
  <2>5. QED
    BY <2>2, <2>3, <2>4 DEF IInv
<1>21. CASE LinkLost
  <2>1. lsc' = TRUE
    BY <1>21 DEF LinkLost
  <2>2. LinkSeen' /\ ResolvedNow' /\ Rested'
    BY <2>1 DEF LinkSeen, ResolvedNow, Rested
  <2>3. TypeOK'
    BY <1>21 DEF LinkLost, IInv, TypeOK
  <2>4. TypesKnown' /\ Advertised'
    BY <1>21 DEF LinkLost, IInv, TypesKnown, Advertised
  <2>5. QED
    BY <2>2, <2>3, <2>4 DEF IInv
<1>22. ASSUME NEW p \in SUBSET PauseBits, NEW h \in BOOLEAN, LinkUp(p, h) PROVE IInv'
  <2>1. lsc' = TRUE
    BY <1>22 DEF LinkUp
  <2>2. LinkSeen' /\ ResolvedNow' /\ Rested'
    BY <2>1 DEF LinkSeen, ResolvedNow, Rested
  <2>3. TypeOK'
    BY <1>22 DEF LinkUp, IInv, TypeOK
  <2>4. TypesKnown' /\ Advertised'
    BY <1>22 DEF LinkUp, IInv, TypesKnown, Advertised
  <2>5. QED
    BY <2>2, <2>3, <2>4 DEF IInv
<1>23. CASE SequenceError
  <2>1. lsc' = TRUE
    BY <1>23 DEF SequenceError
  <2>2. LinkSeen' /\ ResolvedNow' /\ Rested'
    BY <2>1 DEF LinkSeen, ResolvedNow, Rested
  <2>3. TypeOK'
    BY <1>23 DEF SequenceError, IInv, TypeOK
  <2>4. TypesKnown' /\ Advertised'
    BY <1>23 DEF SequenceError, IInv, TypesKnown, Advertised
  <2>5. QED
    BY <2>2, <2>3, <2>4 DEF IInv
<1>24. CASE UNCHANGED vars
  BY <1>24 DEF vars, IInv, TypeOK, TypesKnown, Advertised, LinkSeen, ResolvedNow, Resolved, Rested,
         Half, Agreement
<1>25. QED
  BY <1>1, <1>2, <1>3, <1>4, <1>5, <1>6, <1>7, <1>8, <1>9, <1>10, <1>11, <1>12, <1>13, <1>14,
     <1>15, <1>16, <1>17, <1>18, <1>19, <1>20, <1>21, <1>22, <1>23, <1>24 DEF Next

\* The invariant holds in every reachable state.
THEOREM InvCorrect == Spec => []IInv
<1>1. QED
  BY InitInv, NextInv, PTL DEF Spec

\* What the invariant says of a driver at rest is agreement with the partner; of one that has
\* not been disturbed, that original_type was asked for and resolved by the table.
LEMMA InvGivesProperties ==
    ASSUME IInv
    PROVE  EndsAgree /\ DesiredOnReplug /\ PauseHasThresholds
<1> USE DEF Settled, Idle
<1>1. EndsAgree
  BY DEF IInv, Rested, EndsAgree
<1>2. partner \in SUBSET PauseBits
  BY DEF IInv, TypeOK
<1>3. ASSUME Settled, trouble = {}
      PROVE  /\ original_type \in FcTypes
             /\ ctrl = CtrlBits(type)
             /\ type = Half(Resolved(Advert(original_type), partner))
             /\ watermarks <=> original_type \in {"tx_pause", "full"}
  BY <1>3 DEF IInv, TypeOK, TypesKnown, Advertised, Rested
<1>4. DesiredOnReplug
  BY <1>2, <1>3, AskedResolves DEF DesiredOnReplug, Half
<1>5. PauseHasThresholds
  <2> SUFFICES ASSUME Settled, trouble = {}, "TFCE" \in ctrl
               PROVE  original_type \in {"tx_pause", "full"}
    BY <1>3 DEF PauseHasThresholds
  <2>1. ~half
    BY <1>3 DEF Half, CtrlBits
  <2>2. QED
    BY <1>2, <1>3, <2>1, AskedResolves DEF Half
<1>6. QED
  BY <1>1, <1>4, <1>5

\* At rest, the MAC's setting and the partner's agree, whatever failed before.
THEOREM EndsAgreeCorrect == Spec => []EndsAgree
BY InvCorrect, InvGivesProperties, PTL

\* Every new partner is offered, and given, what original_type asks for.
THEOREM DesiredOnReplugCorrect == Spec => []DesiredOnReplug
BY InvCorrect, InvGivesProperties, PTL

\* A driver at rest after setups that ran to their end sends PAUSE frames only with the
\* thresholds that trigger them.
THEOREM PauseHasThresholdsCorrect == Spec => []PauseHasThresholds
BY InvCorrect, InvGivesProperties, PTL
=============================================================================
