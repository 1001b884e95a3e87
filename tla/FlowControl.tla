---------------------------- MODULE FlowControl ----------------------------
(***************************************************************************)
(* How the driver comes to its flow-control setting: what it asks for      *)
(* (hw->fc), what the PHY advertises, what e1000_config_fc_after_link_up_  *)
(* generic makes of the partner's answer, and what it writes to the MAC.   *)
(* The configuration runs behind the command gate in several steps, while  *)
(* the cable is moved from one partner to another under it.                *)
(***************************************************************************)
EXTENDS Naturals

CONSTANTS PhyMayFail,   \* accesses to the PHY can fail
          LockLoss      \* the Kumeran link can lose its lock: an ICH8 with an IGP3 PHY

ASSUME FaultAssumption == PhyMayFail \in BOOLEAN /\ LockLoss \in BOOLEAN

PauseBits == {"PAUSE", "ASM_DIR"}
FcTypes == {"none", "rx_pause", "tx_pause", "full"}

VARIABLES
    original_type,    \* hw->fc.original_type
    type,             \* hw->fc.type
    get_link_status,  \* mac->get_link_status
    enabled,          \* enable has run, or is running; interrupts are handled
    armed,            \* the watchdog's timer is set: by enable, and for good
    gate,             \* the command gate: "starting", "idle", or where its holder stands,
                      \* "enabling" (the poll of enable) or "selecting" (selectMedium)
    config,           \* "no", or where e1000_config_fc_after_link_up_generic stands
    ctrl,             \* the bits of CTRL that turn PAUSE frames on
    watermarks,       \* FCRTL and FCRTH are set, so that PAUSE frames are sent at all
    lsc,              \* a link status change the handler has not taken in yet
    adv,              \* PHY_AUTONEG_ADV
    sent,             \* what the partner is, or was, told: adv as of the last (re)start
    link,             \* the PHY has link, auto-negotiation complete
    partner,          \* PHY_LP_ABILITY
    half,             \* the link is half duplex
    trouble           \* ghost: "blocked", "setup" and "config": which of these did not run
                      \* to its end the last time; "advert": the PHY no longer advertises
                      \* original_type

fcVars == <<original_type, type>>
macVars == <<ctrl, watermarks>>
phyVars == <<adv, sent, link, partner, half>>
ctlVars == <<enabled, armed, gate, config>>
vars == <<fcVars, get_link_status, ctlVars, macVars, lsc, phyVars, trouble>>

Idle == gate = "idle" /\ config = "no"
-----------------------------------------------------------------------------
(* Flow-control types and PAUSE bits.                                      *)

\* e1000_phy_setup_autoneg: receiving alone cannot be advertised, so both bits are
Advert(t) ==
    (IF t \in {"none", "tx_pause"} THEN {} ELSE {"PAUSE"})
    \cup (IF t = "none" THEN {} ELSE {"ASM_DIR"})

\* e1000_force_mac_fc_generic
CtrlBits(t) ==
    (IF t \in {"rx_pause", "full"} THEN {"RFCE"} ELSE {})
    \cup (IF t \in {"tx_pause", "full"} THEN {"TFCE"} ELSE {})

\* Mutant of the operator below: it goes by the type in force instead of original_type.
ResolvedByType(local, remote) ==
    IF "PAUSE" \in local \cap remote THEN IF type = "full" THEN "full" ELSE "rx_pause"
    ELSE IF "ASM_DIR" \notin local \cap remote THEN "none"
    ELSE IF "PAUSE" \in remote THEN "tx_pause"
    ELSE IF "PAUSE" \in local THEN "rx_pause"
    ELSE "none"

\* The if-chain of e1000_config_fc_after_link_up_generic.
Resolved(local, remote) ==
    IF "PAUSE" \in local \cap remote THEN
        IF original_type = "full" THEN "full" ELSE "rx_pause"
    ELSE IF "ASM_DIR" \notin local \cap remote THEN "none"
    ELSE IF "PAUSE" \in remote THEN "tx_pause"
    ELSE IF "PAUSE" \in local THEN "rx_pause"
    ELSE "none"

\* e1000_setup_link_ich8lan: "ICH parts do not have a word in the NVM to determine the
\* default flow control setting"
Asked(t) == IF t = "default" THEN "full" ELSE t

Init ==
    /\ original_type = "default"
    /\ type = "default"
    /\ get_link_status = FALSE
    /\ enabled = FALSE
    /\ armed = FALSE
    /\ gate = "starting"
    /\ config = "no"
    /\ ctrl = {}
    /\ watermarks = FALSE
    /\ lsc = FALSE
    /\ adv \in SUBSET PauseBits
    /\ sent = adv
    /\ link \in BOOLEAN
    /\ partner \in SUBSET PauseBits
    /\ half \in BOOLEAN
    /\ trouble = {}
-----------------------------------------------------------------------------
(* setup_link: ask for t and start the negotiation over.  Its result is     *)
(* ignored wherever it is called.                                          *)

Ask(t) ==
    /\ original_type' = Asked(t)
    /\ type' = Asked(t)

\* The advertisement is written, and negotiation restarted.
Renegotiate(t) ==
    /\ adv' = Advert(t)
    /\ sent' = Advert(t)
    /\ link' = FALSE
    /\ UNCHANGED <<partner, half>>

\* Mutant of the operator below: the thresholds are left as they were.
SetUpKeepsThresholds(t) ==
    /\ Ask(t)
    /\ Renegotiate(type')
    /\ get_link_status' = TRUE
    /\ trouble' = {}
    /\ UNCHANGED watermarks

SetUp(t) ==
    /\ Ask(t)
    /\ Renegotiate(type')
    /\ watermarks' = (type' \in {"tx_pause", "full"})
    /\ get_link_status' = TRUE
    /\ trouble' = {}

\* e1000_reset: MAC and PHY are reset, fc.type is restored, and init_hw sets the link up.
ResetMac == ctrl' = {} /\ lsc' = FALSE

\* An access fails on the way: the PHY starts with the advertisement its reset gave it (d),
\* and what has been written to it since is restarted with or not.
SetUpFails(d, written, restarted) ==
    /\ PhyMayFail
    /\ Ask(original_type)
    /\ get_link_status' = (get_link_status \/ restarted)
    /\ watermarks' = FALSE
    /\ adv' = IF written THEN Advert(type') ELSE d
    /\ sent' = IF written /\ restarted THEN Advert(type') ELSE d
    /\ link' = FALSE
    /\ trouble' = {"setup"}
    /\ UNCHANGED <<partner, half>>

\* The firmware blocks resets of the PHY: it stays as it is, and setup_link does nothing.
SetUpBlocked ==
    /\ type' = original_type
    /\ watermarks' = FALSE
    /\ trouble' = trouble \cup {"blocked"}
    /\ UNCHANGED <<original_type, get_link_status, phyVars>>

Reset ==
    /\ ResetMac
    /\ \/ SetUp(original_type)
       \/ \E d \in SUBSET PauseBits, written \in BOOLEAN, restarted \in BOOLEAN :
             (restarted => written) /\ SetUpFails(d, written, restarted)
       \/ SetUpBlocked

Start ==
    /\ gate = "starting"
    /\ gate' = "idle"
    /\ Reset
    /\ UNCHANGED <<enabled, armed, config>>

EnableFails ==
    /\ Idle
    /\ ~enabled
    /\ Reset
    /\ UNCHANGED ctlVars

Disable ==
    /\ Idle
    /\ enabled
    /\ enabled' = FALSE
    /\ Reset
    /\ UNCHANGED <<armed, gate, config>>
-----------------------------------------------------------------------------
(* enable: setup_link without a reset, so that fc.type is whatever the last *)
(* resolution made of it, and the MAC keeps what it has.  Then it polls for *)
(* the link, selects a medium in any case, and only then lets the gate go. *)

EnableBegins ==
    /\ Idle
    /\ ~enabled
    /\ enabled' = TRUE
    /\ armed' = TRUE
    /\ gate' = "enabling"
    /\ get_link_status' = TRUE
    /\ UNCHANGED <<config, ctrl>>

Enable ==
    /\ EnableBegins
    /\ SetUp(type)
    /\ lsc' = (lsc \/ link)

\* An access fails on the way.  An IGP3 or a BM may have been reset before (d is what it then
\* advertises), and again what is written may be restarted with or not.
EnableSetUpFails(d, reset, written, restarted) ==
    /\ PhyMayFail
    /\ EnableBegins
    /\ Ask(type)
    /\ adv' = IF written THEN Advert(type') ELSE IF reset THEN d ELSE adv
    /\ sent' = IF restarted THEN Advert(type') ELSE IF reset THEN d ELSE sent
    /\ link' = (link /\ ~reset /\ ~restarted)
    /\ lsc' = (lsc \/ link # link')
    /\ trouble' = trouble \cup {"setup"}
    /\ UNCHANGED <<watermarks, partner, half>>

EnableBlocked ==
    /\ EnableBegins
    /\ UNCHANGED <<fcVars, watermarks, lsc, phyVars, trouble>>
-----------------------------------------------------------------------------
(* selectMedium: e1000_copper_link_autoneg advertises fc.type, whatever the *)
(* last resolution made of it, and starts over.  Then the link is looked at *)
(* once.  The family calls it, too, at any time.                           *)

Readvertised == (trouble \ {"advert"})
                \cup (IF Advert(type) # Advert(original_type) THEN {"advert"} ELSE {})

SelectBegins ==
    /\ Idle \/ (gate = "enabling" /\ config = "no")
    /\ gate' = "selecting"
    /\ UNCHANGED <<fcVars, enabled, armed, config, macVars>>

SelectMedium ==
    /\ SelectBegins
    /\ type # "default"
    /\ Renegotiate(type)
    /\ lsc' = (lsc \/ link)
    /\ get_link_status' = TRUE
    /\ trouble' = Readvertised

\* The advertisement is written, but the restart fails.
SelectNotRestarted ==
    /\ SelectBegins
    /\ PhyMayFail
    /\ type # "default"
    /\ adv' = Advert(type)
    /\ trouble' = Readvertised
    /\ UNCHANGED <<get_link_status, lsc, sent, link, partner, half>>

\* It could not be read, or fc.type is not one that can be advertised.
SelectFails ==
    /\ SelectBegins
    /\ PhyMayFail \/ type = "default"
    /\ UNCHANGED <<get_link_status, lsc, phyVars, trouble>>

SelectEnds ==
    /\ gate = "selecting"
    /\ config = "no"
    /\ gate' = "idle"
    /\ UNCHANGED <<fcVars, get_link_status, enabled, armed, config, macVars, lsc, phyVars, trouble>>
-----------------------------------------------------------------------------
(* The link comes up: e1000_check_for_copper_link_generic.                 *)

\* Called by the watchdog, by enable's polling and by selectMedium.  Without link, or
\* where it cannot be read, nothing happens.
CheckLink ==
    /\ gate \in {"enabling", "selecting"} \/ (gate = "idle" /\ armed)
    /\ config = "no"
    /\ get_link_status
    /\ link
    /\ get_link_status' = FALSE
    /\ config' = "forcing"
    /\ trouble' = trouble \ {"config"}
    /\ UNCHANGED <<fcVars, enabled, armed, gate, macVars, lsc, phyVars>>

\* e1000_config_fc_after_link_up_generic first forces what is asked for, or was last agreed.
ForceAsked ==
    /\ config = "forcing"
    /\ type # "default"
    /\ ctrl' = CtrlBits(type)
    /\ config' = "reading"
    /\ UNCHANGED <<fcVars, get_link_status, enabled, armed, gate, watermarks, lsc, phyVars, trouble>>

\* any of its error returns; nobody acts on them
ConfigFails ==
    /\ \/ config = "forcing" /\ type = "default"
       \/ config \in {"reading", "resolving", "finishing"} /\ PhyMayFail
    /\ config' = "no"
    /\ trouble' = trouble \cup {"config"}
    /\ UNCHANGED <<fcVars, get_link_status, enabled, armed, gate, macVars, lsc, phyVars>>

\* Auto-negotiation is complete, or the link is gone again.
ReadStatus ==
    /\ config = "reading"
    /\ config' = IF link THEN "resolving" ELSE "no"
    /\ UNCHANGED <<fcVars, get_link_status, enabled, armed, gate, macVars, lsc, phyVars, trouble>>

Resolve ==
    /\ config = "resolving"
    /\ type' = Resolved(adv, partner)
    /\ config' = "finishing"
    /\ UNCHANGED <<original_type, get_link_status, enabled, armed, gate, macVars, lsc, phyVars, trouble>>

\* Mutant of the step below: half duplex is not looked at.
FinishAnyDuplex ==
    /\ config = "finishing"
    /\ ctrl' = CtrlBits(type)
    /\ config' = "no"
    /\ UNCHANGED <<fcVars, get_link_status, enabled, armed, gate, watermarks, lsc, phyVars, trouble>>

\* No flow control at half duplex; force the result.
Finish ==
    /\ config = "finishing"
    /\ type' = IF half THEN "none" ELSE type
    /\ ctrl' = CtrlBits(type')
    /\ config' = "no"
    /\ UNCHANGED <<original_type, get_link_status, enabled, armed, gate, watermarks, lsc, phyVars, trouble>>

\* e1000_kmrn_lock_loss_workaround_ich8lan, inside get_link_up_info: the PHY is reset, its
\* advertisement with it, and that up to ten times.  Within the configuration it goes on
\* when the lock is found again, and fails otherwise.
PhyReset(d) ==
    /\ LockLoss
    /\ link
    /\ adv' = d
    /\ sent' = d
    /\ link' = FALSE
    /\ lsc' = TRUE
    /\ UNCHANGED <<partner, half>>

FinishAfterReset(d) ==
    /\ config = "finishing"
    /\ PhyReset(d)
    /\ type' = IF half THEN "none" ELSE type
    /\ ctrl' = CtrlBits(type')
    /\ config' = "no"
    /\ trouble' = trouble \cup {"advert"}
    /\ UNCHANGED <<original_type, get_link_status, enabled, armed, gate, watermarks>>

FinishWithoutLock(d) ==
    /\ config = "finishing"
    /\ PhyReset(d)
    /\ config' = "no"
    /\ trouble' = trouble \cup {"advert", "config"}
    /\ UNCHANGED <<fcVars, get_link_status, enabled, armed, gate, macVars>>

\* its other callers: enable and selectMedium when there is link, and the watchdog when it
\* has come up
GetLinkUpInfo(d) ==
    /\ gate \in {"enabling", "selecting"} \/ (gate = "idle" /\ armed)
    /\ config = "no"
    /\ ~get_link_status
    /\ PhyReset(d)
    /\ trouble' = trouble \cup {"advert"}
    /\ UNCHANGED <<fcVars, get_link_status, ctlVars, macVars>>
-----------------------------------------------------------------------------
(* The interrupt's share, and cable and partner (external).                *)

\* Mutant of the step below: the link change is dropped.
HandlerForgets ==
    /\ Idle
    /\ enabled
    /\ lsc
    /\ lsc' = FALSE
    /\ UNCHANGED <<fcVars, get_link_status, ctlVars, macVars, phyVars, trouble>>

Handler ==
    /\ Idle
    /\ enabled
    /\ lsc
    /\ lsc' = FALSE
    /\ get_link_status' = TRUE
    /\ UNCHANGED <<fcVars, ctlVars, macVars, phyVars, trouble>>

\* negotiation starts over, with what the register says by now
LinkLost ==
    /\ link
    /\ link' = FALSE
    /\ sent' = adv
    /\ lsc' = TRUE
    /\ UNCHANGED <<fcVars, get_link_status, ctlVars, macVars, adv, partner, half, trouble>>

LinkUp(p, h) ==
    /\ ~link
    /\ link' = TRUE
    /\ partner' = p
    /\ half' = h
    /\ lsc' = TRUE
    /\ UNCHANGED <<fcVars, get_link_status, ctlVars, macVars, adv, sent, trouble>>

SequenceError ==
    /\ lsc' = TRUE
    /\ UNCHANGED <<fcVars, get_link_status, ctlVars, macVars, phyVars, trouble>>

Next ==
    \/ Start
    \/ EnableFails
    \/ Disable
    \/ Enable
    \/ \E d \in SUBSET PauseBits, reset, written, restarted \in BOOLEAN :
          (restarted => written) /\ EnableSetUpFails(d, reset, written, restarted)
    \/ EnableBlocked
    \/ SelectMedium
    \/ SelectNotRestarted
    \/ SelectFails
    \/ SelectEnds
    \/ CheckLink
    \/ ForceAsked
    \/ ConfigFails
    \/ ReadStatus
    \/ Resolve
    \/ Finish
    \/ \E d \in SUBSET PauseBits :
          FinishAfterReset(d) \/ FinishWithoutLock(d) \/ GetLinkUpInfo(d)
    \/ Handler
    \/ LinkLost
    \/ \E p \in SUBSET PauseBits, h \in BOOLEAN : LinkUp(p, h)
    \/ SequenceError

Spec == Init /\ [][Next]_vars

\* Fairness: the handler and the watchdog get the gate in the end, however often others ask
\* for it, and what runs behind the gate comes to its end.
Configure == ForceAsked \/ ConfigFails \/ ReadStatus \/ Resolve \/ Finish

EnableSelects == gate = "enabling" /\ (SelectMedium \/ SelectNotRestarted \/ SelectFails)

FairSpec ==
    /\ Spec
    /\ SF_vars(Handler)
    /\ SF_vars(CheckLink)
    /\ WF_vars(Configure \/ EnableSelects \/ SelectEnds)
-----------------------------------------------------------------------------
(* Properties.                                                             *)

TypeOK ==
    /\ original_type \in FcTypes \cup {"default"}
    /\ type \in FcTypes \cup {"default"}
    /\ get_link_status \in BOOLEAN
    /\ enabled \in BOOLEAN
    /\ armed \in BOOLEAN
    /\ gate \in {"starting", "idle", "enabling", "selecting"}
    /\ config \in {"no", "forcing", "reading", "resolving", "finishing"}
    /\ ctrl \subseteq {"TFCE", "RFCE"}
    /\ watermarks \in BOOLEAN
    /\ lsc \in BOOLEAN
    /\ adv \subseteq PauseBits
    /\ sent \subseteq PauseBits
    /\ link \in BOOLEAN
    /\ partner \subseteq PauseBits
    /\ half \in BOOLEAN
    /\ trouble \subseteq {"blocked", "setup", "config", "advert"}

\* The table of IEEE 802.3 as the comment above the if-chain quotes it, row by row:
\* the resolution at the end that advertised a, its partner having advertised b.
IeeeResolution(a, b) ==
    CASE "PAUSE" \in a /\ "PAUSE" \in b -> "full"
      [] a = {"ASM_DIR"} /\ b = PauseBits -> "tx_pause"
      [] a = PauseBits /\ b = {"ASM_DIR"} -> "rx_pause"
      [] OTHER -> "none"

\* Both ends of the cable act on the same resolution: PAUSE frames are sent only if the
\* partner resolves to heed them, heeded exactly if it may send them, and at half duplex
\* neither.
Agreement ==
    LET theirs == IF half THEN "none" ELSE IeeeResolution(partner, sent)
    IN /\ "TFCE" \in ctrl => theirs \in {"rx_pause", "full"}
       /\ "RFCE" \in ctrl <=> theirs \in {"tx_pause", "full"}

\* nothing about the link is left to be done
Settled == enabled /\ Idle /\ link /\ ~get_link_status /\ ~lsc

\* e1000_config_fc_after_link_up_generic, "configure flow control based on our link
\* partner": once the driver rests, the MAC agrees with the partner at the cable now,
\* however often and at whatever point of the configuration it was replugged.
EndsAgree == Settled /\ "config" \notin trouble /\ sent = adv => Agreement

\* After any number of partners the next one is offered what original_type asks for, and
\* gets all of it that it agrees to: of what is advertised for it (for receiving alone more
\* than is asked for), the two ends settle on what was asked.
DesiredOnReplug ==
    Settled /\ trouble = {} /\ ~half =>
        CtrlBits(type) =
            CtrlBits(original_type) \cap CtrlBits(IeeeResolution(Advert(original_type), partner))

\* PAUSE frames are enabled only with the receive thresholds that trigger them, which are
\* written once, at setup, for whatever is negotiated later.
PauseHasThresholds ==
    Settled /\ trouble = {} /\ "TFCE" \in ctrl => watermarks

\* A link that comes up and stays is configured for its partner in the end.
PartnerServed ==
    link /\ enabled ~> (~link \/ ~enabled \/ Agreement \/ "config" \in trouble \/ sent # adv)
-----------------------------------------------------------------------------
(* The inductive invariant behind EndsAgree, DesiredOnReplug and           *)
(* PauseHasThresholds.                                                     *)

Half(t) == IF half THEN "none" ELSE t

\* fc.type is fc_default only until a setup has replaced both; the watchdog runs from the
\* first enable on
TypesKnown ==
    /\ original_type = "default" <=> type = "default"
    /\ config \in {"reading", "resolving", "finishing"} => type # "default"
    /\ gate = "starting" => ~enabled /\ ctrl = {} /\ config = "no"
    /\ enabled => armed

\* what a setup that ran to its end leaves, and what then only "advert" can take away
Advertised ==
    gate # "starting" /\ trouble \cap {"setup", "blocked"} = {} =>
        /\ original_type # "default"
        /\ watermarks <=> original_type \in {"tx_pause", "full"}
        /\ "advert" \notin trouble => adv = Advert(original_type)

\* a link lost during the configuration is still to be handled
LinkSeen == config # "no" /\ ~lsc => link

\* and so the abilities of the partner are still those the resolution was made from
ResolvedNow == config = "finishing" /\ ~lsc => type = Resolved(adv, partner)

\* what a configuration leaves that ran to its end; the advertisement may have been
\* rewritten since without a restart, but only from its result
Rested ==
    enabled /\ config = "no" /\ link /\ ~get_link_status /\ ~lsc /\ "config" \notin trouble =>
        /\ original_type # "default"
        /\ ctrl = CtrlBits(type)
        /\ sent = adv => Agreement
        /\ \E a \in SUBSET PauseBits : type = Half(Resolved(a, partner))
        /\ trouble = {} => type = Half(Resolved(Advert(original_type), partner))

\* TypesKnown to Rested hold together in every reachable state, and every step keeps them.
IInv == TypeOK /\ TypesKnown /\ Advertised /\ LinkSeen /\ ResolvedNow /\ Rested
=============================================================================
