------------------------- MODULE LinkControl_proofs -------------------------
(***************************************************************************)
(* The safety properties of LinkControl, proved for every reachable state. *)
(* The invariant IInv is inductive as it stands: what is on and off is a   *)
(* function of where the holder of the gate is (GateInv), and the two      *)
(* clauses about the link each survive every step on their own.            *)
(***************************************************************************)
EXTENDS LinkControl, TLAPS

\* e1000_reset keeps the types.
LEMMA ResetTypes ==
    ASSUME TypeOK, NEW restarted \in BOOLEAN, Reset(restarted)
    PROVE  /\ ims' = FALSE
           /\ icr' = {}
           /\ txEn' = FALSE
           /\ get_link_status' \in BOOLEAN
           /\ get_link_status => get_link_status'
  BY DEF Reset, TypeOK

\* Reading the PHY gives a boolean, and link only where there is one.
LEMMA PhyReadsBoolean ==
    ASSUME TypeOK, NEW seen \in PhyReads
    PROVE  seen \in BOOLEAN /\ (seen => phyLink)
  BY DEF PhyReads, TypeOK

\* At start-up everything is off and nothing can have been missed.
LEMMA InitInv == Init => IInv
  BY DEF Init, IInv, TypeOK, GateInv, LinkChangeNotLost, UpIsActedOn, Causes

\* Every step keeps the invariant.
LEMMA NextInv ==
    ASSUME IInv, [Next]_vars
    PROVE  IInv'
  <1> USE DEF IInv
  <1>1. CASE EnableBegin
    BY <1>1 DEF EnableBegin, hwVars, irqVars, linkVars, TypeOK, GateInv, LinkChangeNotLost, UpIsActedOn
  <1>2. ASSUME NEW restarted \in BOOLEAN, EnableFails(restarted) PROVE IInv'
    BY <1>2, ResetTypes DEF EnableFails, irqVars, TypeOK, GateInv, LinkChangeNotLost, UpIsActedOn
  <1>3. ASSUME NEW seen \in PhyReads, EnableProbe(seen) PROVE IInv'
    BY <1>3, PhyReadsBoolean DEF EnableProbe, irqVars, HasLink, FlagAfter, TypeOK, GateInv, LinkChangeNotLost, UpIsActedOn
  <1>4. ASSUME NEW restarted \in BOOLEAN, NEW seen \in PhyReads, EnableFinish(restarted, seen) PROVE IInv'
    BY <1>4, PhyReadsBoolean DEF EnableFinish, Renegotiate, hwVars, irqVars, FlagAfter, TypeOK, GateInv, LinkChangeNotLost, UpIsActedOn
  <1>5. ASSUME NEW restarted \in BOOLEAN, NEW seen \in PhyReads, SelectMedium(restarted, seen) PROVE IInv'
    BY <1>5, PhyReadsBoolean DEF SelectMedium, Renegotiate, hwVars, irqVars, FlagAfter, TypeOK, GateInv, LinkChangeNotLost, UpIsActedOn
  <1>6. CASE DisableBegin
    BY <1>6 DEF DisableBegin, irqVars, linkVars, TypeOK, GateInv, LinkChangeNotLost, UpIsActedOn
  <1>7. CASE DisableUnflag
    BY <1>7 DEF DisableUnflag, hwVars, linkVars, TypeOK, GateInv, LinkChangeNotLost, UpIsActedOn
  <1>8. ASSUME NEW restarted \in BOOLEAN, DisableFinish(restarted) PROVE IInv'
    BY <1>8, ResetTypes DEF DisableFinish, irqVars, TypeOK, GateInv, LinkChangeNotLost, UpIsActedOn
  <1>9. CASE Filter
    <2>1. TypeOK'
      BY <1>9 DEF Filter, linkVars, TypeOK
    <2>2. GateInv' /\ UpIsActedOn'
      BY <1>9 DEF Filter, linkVars, GateInv, UpIsActedOn
    <2>3. LinkChangeNotLost'
      BY <1>9 DEF Filter, linkVars, LinkChangeNotLost
    <2> QED
      BY <2>1, <2>2, <2>3
  <1>10. CASE Handler
    BY <1>10 DEF Handler, hwVars, LinkCauses, TypeOK, GateInv, LinkChangeNotLost, UpIsActedOn
  <1>11. CASE HandlerFaults
    BY <1>11 DEF HandlerFaults, hwVars, irqVars, linkVars, TypeOK, GateInv, LinkChangeNotLost, UpIsActedOn
  <1>12. ASSUME NEW seen \in PhyReads, WatchdogSteady(seen) PROVE IInv'
    BY <1>12, PhyReadsBoolean DEF WatchdogSteady, hwVars, irqVars, FlagAfter, TypeOK, GateInv, LinkChangeNotLost, UpIsActedOn
  <1>13. ASSUME NEW seen \in PhyReads, WatchdogUp(seen) PROVE IInv'
    BY <1>13, PhyReadsBoolean DEF WatchdogUp, irqVars, FlagAfter, TypeOK, GateInv, LinkChangeNotLost, UpIsActedOn
  <1>14. ASSUME NEW seen \in PhyReads, WatchdogDown(seen) PROVE IInv'
    BY <1>14 DEF WatchdogDown, hwVars, irqVars, TypeOK, GateInv, LinkChangeNotLost, UpIsActedOn
  <1>15. CASE PhyToggle
    BY <1>15 DEF PhyToggle, irqVars, linkVars, Causes, TypeOK, GateInv, LinkChangeNotLost, UpIsActedOn
  <1>16. ASSUME NEW c \in Causes \ {"LSC"}, HwCause(c) PROVE IInv'
    BY <1>16 DEF HwCause, irqVars, linkVars, TypeOK, GateInv, LinkChangeNotLost, UpIsActedOn
  <1>17. CASE UNCHANGED vars
    BY <1>17 DEF vars, hwVars, irqVars, linkVars, TypeOK, GateInv, LinkChangeNotLost, UpIsActedOn
  <1> QED
    BY <1>1, <1>2, <1>3, <1>4, <1>5, <1>6, <1>7, <1>8, <1>9, <1>10, <1>11, <1>12, <1>13,
       <1>14, <1>15, <1>16, <1>17 DEF Next

\* The invariant holds in every reachable state.
THEOREM InvCorrect == Spec => []IInv
  BY InitInv, NextInv, PTL DEF Spec

\* Interrupts are on only with a filter that listens and rings for the handler.
THEOREM ReadyForInterruptsCorrect == Spec => []ReadyForInterrupts
  <1>1. IInv => ReadyForInterrupts
    BY DEF IInv, TypeOK, GateInv, ReadyForInterrupts
  <1> QED
    BY <1>1, InvCorrect, PTL

\* A link loss not yet acted on is always on its way to the handler.
THEOREM LinkChangeNotLostCorrect == Spec => []LinkChangeNotLost
  <1>1. IInv => LinkChangeNotLost
    BY DEF IInv
  <1> QED
    BY <1>1, InvCorrect, PTL

\* A link the watchdog counts as up has been reported, with the output queue running.
THEOREM UpIsActedOnCorrect == Spec => []UpIsActedOn
  <1>1. IInv => UpIsActedOn
    BY DEF IInv
  <1> QED
    BY <1>1, InvCorrect, PTL
=============================================================================
