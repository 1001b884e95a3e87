---------------------------- MODULE LinkControl ----------------------------
(***************************************************************************)
(* The control side of Intel82566MM.cpp: enable and disable, the interrupt *)
(* filter and handler, the link watchdog and selectMedium, sharing         *)
(* mac.get_link_status, interruptReason and the adapter's cause and mask   *)
(* registers.                                                              *)
(*                                                                         *)
(* enable, disable, selectMedium, the watchdog and the handler run under   *)
(* the work loop's gate.  The filter runs at interrupt level, between any  *)
(* two steps of theirs, and the cable does what it likes.  enable and      *)
(* disable are therefore cut where the filter or the cable can make a      *)
(* difference: around enable's polling and medium selection, and around    *)
(* disable's IOSleep and the unmasking of the flag before the mask.        *)
(*                                                                         *)
(* The two rings are one boolean here (RxRing and TxRing hold the rest),   *)
(* RCTL.EN, which is set and cleared beside TCTL.EN, is RxRing's, and      *)
(* speed and duplex are left out.                                          *)
(***************************************************************************)
EXTENDS Naturals

CONSTANT PhyReadMayFail  \* whether reading the PHY's status can fail in the instance

ASSUME PhyReadAssumption == PhyReadMayFail \in BOOLEAN

Causes == {"LSC", "RXSEQ", "RING"}  \* RING: RXT0, RXDMT0 and TXDW, all handled alike
LinkCauses == {"LSC", "RXSEQ"}

VARIABLES
    enabledForNetif,
    rings,             \* tx_ring.desc and rx_ring.desc are allocated
    interruptEnabled,
    ims,               \* IMS_ENABLE_MASK is set in the adapter's mask
    icr,               \* pending causes in ICR
    interruptReason,
    signalled,         \* interruptSource signalled: vector off until the handler returns
    phyLink,           \* link as the PHY's status register has it
    get_link_status,
    preLinkStatus,
    linkActive,        \* what setLinkStatus last said
    txEn,              \* TCTL.EN
    queueRunning,      \* transmitQueue
    watchdogArmed,     \* watchdogSource has a timeout set
    gate               \* who holds the gate, and where in it

hwVars == <<ims, icr, txEn>>
irqVars == <<interruptEnabled, interruptReason, signalled>>
linkVars == <<get_link_status, preLinkStatus, linkActive>>
vars == <<enabledForNetif, rings, hwVars, irqVars, phyLink, linkVars, queueRunning,
          watchdogArmed, gate>>

\* init, and start up to its end: e1000_reset has masked everything and set
\* get_link_status, unless the PHY was blocked
Init ==
    /\ enabledForNetif = FALSE
    /\ rings = FALSE
    /\ interruptEnabled = FALSE
    /\ ims = FALSE
    /\ icr = {}
    /\ interruptReason = {}
    /\ signalled = FALSE
    /\ phyLink \in BOOLEAN
    /\ get_link_status \in BOOLEAN
    /\ preLinkStatus = FALSE
    /\ linkActive = FALSE
    /\ txEn = FALSE
    /\ queueRunning = FALSE
    /\ watchdogArmed = FALSE
    /\ gate = "idle"
-----------------------------------------------------------------------------
(* Helpers.                                                                *)

\* the outcomes of reading the PHY: whether it reports link (a failed read does not)
PhyReads == {phyLink} \cup (IF PhyReadMayFail THEN {FALSE} ELSE {})

\* e1000_has_link with get_link_status at flag and the PHY reporting seen: the flag
\* unset means link without looking; link found unsets it.
HasLink(flag, seen) == ~flag \/ seen
FlagAfter(flag, seen) == flag /\ ~seen

\* e1000_reset and the reset of MAC and PHY in it: units off, everything masked, ICR read
\* and so cleared; get_link_status set again where auto-negotiation is restarted
\* (restarted), which a blocked PHY or a failed access prevents.
Reset(restarted) ==
    /\ ims' = FALSE
    /\ icr' = {}
    /\ txEn' = FALSE
    /\ get_link_status' = (get_link_status \/ restarted)
-----------------------------------------------------------------------------
(* enable.                                                                 *)

\* Mutant of the step below: unmasked, but the filter's flag is forgotten.
EnableBeginUnflagged ==
    /\ gate = "idle"
    /\ ~enabledForNetif
    /\ gate' = "probing"
    /\ rings' = TRUE
    /\ ims' = TRUE
    /\ watchdogArmed' = TRUE
    /\ queueRunning' = TRUE
    /\ get_link_status' = TRUE
    /\ UNCHANGED <<enabledForNetif, interruptEnabled, interruptReason, signalled, icr, txEn,
                   phyLink, preLinkStatus, linkActive>>

\* Up to the polling loop: rings, registers, interrupts, timer, queue, link unknown.
\* TCTL is read, changed and written back with EN as it was.
EnableBegin ==
    /\ gate = "idle"
    /\ ~enabledForNetif
    /\ gate' = "probing"
    /\ rings' = TRUE
    /\ interruptEnabled' = TRUE
    /\ ims' = TRUE
    /\ watchdogArmed' = TRUE
    /\ queueRunning' = TRUE
    /\ get_link_status' = TRUE
    /\ UNCHANGED <<enabledForNetif, interruptReason, signalled, icr, txEn, phyLink,
                   preLinkStatus, linkActive>>

\* No memory for a ring: the other one is freed and the adapter reset.
EnableFails(restarted) ==
    /\ gate = "idle"
    /\ ~enabledForNetif
    /\ Reset(restarted)
    /\ UNCHANGED <<enabledForNetif, rings, irqVars, phyLink, preLinkStatus, linkActive,
                   queueRunning, watchdogArmed, gate>>

\* The loop of up to 1001 polls ends: with link, or without when they are used up.
EnableProbe(seen) ==
    /\ gate = "probing"
    /\ gate' = "selecting"
    /\ get_link_status' = FlagAfter(get_link_status, seen)
    /\ linkActive' = (linkActive \/ HasLink(get_link_status, seen))
    /\ txEn' = (txEn \/ HasLink(get_link_status, seen))
    /\ UNCHANGED <<enabledForNetif, rings, irqVars, ims, icr, phyLink, preLinkStatus,
                   queueRunning, watchdogArmed>>

\* selectMedium: auto-negotiation starts over (unless an access fails) and the link is
\* looked at once more.
Renegotiate(restarted, seen) ==
    get_link_status' = FlagAfter(get_link_status \/ restarted, seen)

EnableFinish(restarted, seen) ==
    /\ gate = "selecting"
    /\ gate' = "idle"
    /\ Renegotiate(restarted, seen)
    /\ enabledForNetif' = TRUE
    /\ UNCHANGED <<rings, irqVars, hwVars, phyLink, preLinkStatus, linkActive, queueRunning,
                   watchdogArmed>>

\* The user picks a medium; nothing in selectMedium asks whether the interface is up.
SelectMedium(restarted, seen) ==
    /\ gate = "idle"
    /\ Renegotiate(restarted, seen)
    /\ UNCHANGED <<enabledForNetif, rings, irqVars, hwVars, phyLink, preLinkStatus,
                   linkActive, queueRunning, watchdogArmed, gate>>
-----------------------------------------------------------------------------
(* disable.                                                                *)

\* Queue and units off, then 10 ms of sleep with interrupts still on.
DisableBegin ==
    /\ gate = "idle"
    /\ enabledForNetif
    /\ gate' = "draining"
    /\ enabledForNetif' = FALSE
    /\ queueRunning' = FALSE
    /\ txEn' = FALSE
    /\ UNCHANGED <<rings, irqVars, ims, icr, phyLink, linkVars, watchdogArmed>>

\* interruptEnabled = false, one statement before the mask is written
DisableUnflag ==
    /\ gate = "draining"
    /\ gate' = "masking"
    /\ interruptEnabled' = FALSE
    /\ UNCHANGED <<enabledForNetif, rings, interruptReason, signalled, hwVars, phyLink,
                   linkVars, queueRunning, watchdogArmed>>

\* Mask, reset, rings cleaned and freed.  Neither the timer nor preLinkStatus is touched.
DisableFinish(restarted) ==
    /\ gate = "masking"
    /\ gate' = "idle"
    /\ Reset(restarted)
    /\ rings' = FALSE
    /\ UNCHANGED <<enabledForNetif, irqVars, phyLink, preLinkStatus, linkActive,
                   queueRunning, watchdogArmed>>
-----------------------------------------------------------------------------
(* The interrupt.                                                          *)

\* interruptFilter.  The vector is off from the moment it returns true until the handler
\* returns; on a shared line it also runs when another device interrupts, and then takes
\* causes the mask still holds back.
Filter ==
    /\ gate # "panic"
    /\ interruptEnabled
    /\ ~signalled
    /\ icr # {}
    /\ interruptReason' = icr
    /\ icr' = {}
    /\ signalled' = TRUE
    /\ UNCHANGED <<enabledForNetif, rings, interruptEnabled, ims, txEn, phyLink, linkVars,
                   queueRunning, watchdogArmed, gate>>

\* Mutant: the reason is looked at only for the rings.
HandlerForgetsLink ==
    /\ gate = "idle"
    /\ signalled
    /\ rings
    /\ signalled' = FALSE
    /\ UNCHANGED <<enabledForNetif, rings, interruptEnabled, interruptReason, hwVars, phyLink,
                   linkVars, queueRunning, watchdogArmed, gate>>

\* interruptOccurred: note the link change, clean both rings.
Handler ==
    /\ gate = "idle"
    /\ signalled
    /\ rings
    /\ signalled' = FALSE
    /\ get_link_status' = (get_link_status \/ interruptReason \cap LinkCauses # {})
    /\ UNCHANGED <<enabledForNetif, rings, interruptEnabled, interruptReason, hwVars, phyLink,
                   preLinkStatus, linkActive, queueRunning, watchdogArmed, gate>>

\* The same with the rings freed: e1000_clean_rx_irq reads through a NULL desc.
HandlerFaults ==
    /\ gate = "idle"
    /\ signalled
    /\ ~rings
    /\ gate' = "panic"
    /\ UNCHANGED <<enabledForNetif, rings, irqVars, hwVars, phyLink, linkVars, queueRunning,
                   watchdogArmed>>
-----------------------------------------------------------------------------
(* timeoutOccurred.  The first thing it does is to arm the timer again.    *)

WatchdogSteady(seen) ==
    /\ gate = "idle"
    /\ watchdogArmed
    /\ HasLink(get_link_status, seen)
    /\ preLinkStatus
    /\ get_link_status' = FlagAfter(get_link_status, seen)
    /\ UNCHANGED <<enabledForNetif, rings, irqVars, hwVars, phyLink, preLinkStatus, linkActive,
                   queueRunning, watchdogArmed, gate>>

\* Mutant: the queue stays as it is when the link comes up.
WatchdogUpForgetsQueue(seen) ==
    /\ gate = "idle"
    /\ watchdogArmed
    /\ HasLink(get_link_status, seen)
    /\ ~preLinkStatus
    /\ get_link_status' = FlagAfter(get_link_status, seen)
    /\ txEn' = TRUE
    /\ linkActive' = TRUE
    /\ preLinkStatus' = TRUE
    /\ UNCHANGED <<enabledForNetif, rings, irqVars, ims, icr, phyLink, queueRunning,
                   watchdogArmed, gate>>

WatchdogUp(seen) ==
    /\ gate = "idle"
    /\ watchdogArmed
    /\ HasLink(get_link_status, seen)
    /\ ~preLinkStatus
    /\ get_link_status' = FlagAfter(get_link_status, seen)
    /\ txEn' = TRUE
    /\ linkActive' = TRUE
    /\ queueRunning' = TRUE
    /\ preLinkStatus' = TRUE
    /\ UNCHANGED <<enabledForNetif, rings, irqVars, ims, icr, phyLink, watchdogArmed, gate>>

\* Mutant: one look at the link and no other; the timer is not armed again.
WatchdogDownDisarms(seen) ==
    /\ gate = "idle"
    /\ watchdogArmed
    /\ ~HasLink(get_link_status, seen)
    /\ watchdogArmed' = FALSE
    /\ queueRunning' = (queueRunning /\ ~preLinkStatus)
    /\ linkActive' = (linkActive /\ ~preLinkStatus)
    /\ preLinkStatus' = FALSE
    /\ UNCHANGED <<enabledForNetif, rings, irqVars, hwVars, phyLink, get_link_status, gate>>

\* Without link: stop and report, if there was one the last time.
WatchdogDown(seen) ==
    /\ gate = "idle"
    /\ watchdogArmed
    /\ ~HasLink(get_link_status, seen)
    /\ queueRunning' = (queueRunning /\ ~preLinkStatus)
    /\ linkActive' = (linkActive /\ ~preLinkStatus)
    /\ preLinkStatus' = FALSE
    /\ UNCHANGED <<enabledForNetif, rings, irqVars, hwVars, phyLink, get_link_status,
                   watchdogArmed, gate>>
-----------------------------------------------------------------------------
(* The adapter and the cable (external).                                   *)

PhyToggle ==
    /\ gate # "panic"
    /\ phyLink' = ~phyLink
    /\ icr' = icr \cup {"LSC"}
    /\ UNCHANGED <<enabledForNetif, rings, irqVars, ims, txEn, linkVars, queueRunning,
                   watchdogArmed, gate>>

HwCause(c) ==
    /\ gate # "panic"
    /\ c = "RING" => rings
    /\ icr' = icr \cup {c}
    /\ UNCHANGED <<enabledForNetif, rings, irqVars, ims, txEn, phyLink, linkVars, queueRunning,
                   watchdogArmed, gate>>

Next ==
    \/ EnableBegin
    \/ \E restarted \in BOOLEAN : EnableFails(restarted)
    \/ \E seen \in PhyReads : EnableProbe(seen)
    \/ \E restarted \in BOOLEAN, seen \in PhyReads : EnableFinish(restarted, seen)
    \/ \E restarted \in BOOLEAN, seen \in PhyReads : SelectMedium(restarted, seen)
    \/ DisableBegin
    \/ DisableUnflag
    \/ \E restarted \in BOOLEAN : DisableFinish(restarted)
    \/ Filter
    \/ Handler
    \/ HandlerFaults
    \/ \E seen \in PhyReads : WatchdogSteady(seen)
    \/ \E seen \in PhyReads : WatchdogUp(seen)
    \/ \E seen \in PhyReads : WatchdogDown(seen)
    \/ PhyToggle
    \/ \E c \in Causes \ {"LSC"} : HwCause(c)

\* Whoever holds the gate runs to the end of what it does; an asserted line interrupts, a
\* signalled source and an expired timer are served once the gate is free for good, and
\* the watchdog does not fail to read the PHY every time.  Nothing obliges user, cable or
\* wire.
Fairness ==
    /\ WF_vars(\E seen \in PhyReads : EnableProbe(seen))
    /\ WF_vars(\E restarted \in BOOLEAN, seen \in PhyReads : EnableFinish(restarted, seen))
    /\ WF_vars(DisableUnflag)
    /\ WF_vars(\E restarted \in BOOLEAN : DisableFinish(restarted))
    /\ WF_vars(ims /\ Filter)
    /\ WF_vars(Handler)
    /\ WF_vars(WatchdogSteady(phyLink) \/ WatchdogUp(phyLink) \/ WatchdogDown(phyLink))

Spec == Init /\ [][Next]_vars
FairSpec == Spec /\ Fairness
-----------------------------------------------------------------------------
(* Properties.                                                             *)

TypeOK ==
    /\ enabledForNetif \in BOOLEAN
    /\ rings \in BOOLEAN
    /\ interruptEnabled \in BOOLEAN
    /\ ims \in BOOLEAN
    /\ icr \subseteq Causes
    /\ interruptReason \subseteq Causes
    /\ signalled \in BOOLEAN
    /\ phyLink \in BOOLEAN
    /\ get_link_status \in BOOLEAN
    /\ preLinkStatus \in BOOLEAN
    /\ linkActive \in BOOLEAN
    /\ txEn \in BOOLEAN
    /\ queueRunning \in BOOLEAN
    /\ watchdogArmed \in BOOLEAN
    /\ gate \in {"idle", "probing", "selecting", "draining", "masking", "panic"}

\* An unmasked adapter has a filter that listens, up to the one statement of disable
\* between flag and mask, and rings for the handler: "before we allocate an interrupt,
\* we must be ready to handle it" (enable).
ReadyForInterrupts ==
    /\ ims => interruptEnabled \/ gate = "masking"
    /\ interruptEnabled => rings

\* A link that went away is never forgotten while interrupts are on: if has_link would
\* still answer yes from memory, the LSC cause waits in ICR, or in interruptReason for a
\* handler that is on its way.  interruptReason is overwritten and ICR cleared by reading,
\* so this rests on the filter never running between a filter and its handler.
LinkChangeNotLost ==
    interruptEnabled /\ ~phyLink /\ ~get_link_status =>
        "LSC" \in icr \/ (signalled /\ "LSC" \in interruptReason)

\* Once the watchdog counts the link as up it does nothing more for it, so by then the
\* stack has been told, and unless the interface is down the output queue runs.
UpIsActedOn == preLinkStatus => linkActive /\ (enabledForNetif => queueRunning)

\* An asserted interrupt line is deasserted: the filter takes the causes, or disable masks
\* them.  Otherwise the level-triggered line would interrupt without end.
LineServed == (ims /\ icr # {}) ~> (~ims \/ icr = {})

\* Link loss known to no one but the PHY reaches the stack: interrupt, filter, handler,
\* flag, watchdog.
LinkDownNoticed ==
    (enabledForNetif /\ preLinkStatus /\ ~phyLink) ~> (phyLink \/ ~enabledForNetif \/ ~linkActive)

\* With link, the stack comes to know it and output is let through.
LinkUpNoticed ==
    (enabledForNetif /\ phyLink) ~> (~phyLink \/ ~enabledForNetif \/ (linkActive /\ queueRunning))

\* The work loop never runs the handler on rings that are gone.
HandlerFindsRings == gate # "panic"

\* timeoutOccurred: "enable transmits in the hardware".  An interface that stays up and
\* has link comes to transmit.
LinkUpTransmits ==
    (enabledForNetif /\ phyLink) ~> (~phyLink \/ ~enabledForNetif \/ txEn)
-----------------------------------------------------------------------------
(* The inductive invariant behind the safety properties.                   *)

\* Where the gate's holder is decides what is on.
GateInv ==
    /\ gate = "idle" =>
          /\ interruptEnabled = enabledForNetif
          /\ ims = enabledForNetif
          /\ rings = enabledForNetif
    /\ gate \in {"probing", "selecting"} =>
          ~enabledForNetif /\ interruptEnabled /\ ims /\ rings /\ queueRunning
    /\ gate = "draining" => ~enabledForNetif /\ interruptEnabled /\ ims /\ rings
    /\ gate = "masking" => ~enabledForNetif /\ ~interruptEnabled /\ ims /\ rings
    /\ gate = "panic" => ~enabledForNetif /\ ~interruptEnabled /\ ~ims /\ ~rings

\* At every reachable state the variables have their types, interrupts are on exactly
\* where the holder of the gate is past turning them on and not past turning them off,
\* and neither a link loss nor a link report is forgotten.
IInv ==
    /\ TypeOK
    /\ GateInv
    /\ LinkChangeNotLost
    /\ UpIsActedOn
=============================================================================
