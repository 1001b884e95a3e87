---------------------------- MODULE Phy_proofs ----------------------------
(***************************************************************************)
(* First part: the accesses of PhyAccess are those of a memory, for every  *)
(* set of registers and pages and any interleaving with the firmware.      *)
(* IInv says which cycles belong to which access and what the page, 769_17 *)
(* and the opcode's address are at each of them; each of its parts has a   *)
(* lemma with one step per group of actions.                               *)
(*                                                                         *)
(* Second part: the PHY an ICH8 accepts is the one that answers, with the  *)
(* routines of its kind, and it is not overlooked: for every number of     *)
(* addresses and of tries, whatever reads fail and whatever the firmware   *)
(* selects in between.  A step of the scan is first shown to be a step of  *)
(* PhyAccess, so that the first part holds of it too.                      *)
(***************************************************************************)
EXTENDS PhyIdentify, TLAPS

\* What an access asks for is well typed.
LEMMA OpType ==
    ASSUME NEW k \in Kinds, NEW o \in Ops(k)
    PROVE  o \in [bus : {"mdic", "kmrn"}, page : Nat, reg : Nat, read : BOOLEAN, val : Values]
<1>1. ASSUME NEW q \in Offsets[k], NEW r \in BOOLEAN, NEW v \in Values
      PROVE  [bus |-> q.bus, page |-> q.page, reg |-> q.reg, read |-> r, val |-> v] \in
                [bus : {"mdic", "kmrn"}, page : Nat, reg : Nat, read : BOOLEAN, val : Values]
  BY AccessAssumption
<1>2. Written \subseteq Values /\ NoOp.val \in Values
  BY AccessAssumption DEF NoOp
<1>3. ASSUME NEW q \in Offsets[k] \ ReadOnly, NEW v \in Written,
             o = [bus |-> q.bus, page |-> q.page, reg |-> q.reg, read |-> FALSE, val |-> v]
      PROVE  o \in [bus : {"mdic", "kmrn"}, page : Nat, reg : Nat, read : BOOLEAN, val : Values]
  BY <1>1, <1>2, <1>3
<1>4. ASSUME NEW q \in Offsets[k],
             o = [bus |-> q.bus, page |-> q.page, reg |-> q.reg, read |-> TRUE, val |-> NoOp.val]
      PROVE  o \in [bus : {"mdic", "kmrn"}, page : Nat, reg : Nat, read : BOOLEAN, val : Values]
  BY <1>1, <1>2, <1>4
<1> QED BY <1>3, <1>4 DEF Ops

\* Choosing the address of an access does not change what it is about.
LEMMA WantedAtAddr ==
    ASSUME UNCHANGED <<kind, op>>, phy_addr' \in {phy_addr, AddrFor(op)}
    PROVE  Wanted(op)' = Wanted(op) /\ (IsWakeup(op)' <=> IsWakeup(op))
BY DEF Wanted, AddrFor, BmAddr, IsWakeup, Flat

\* The types are kept.
LEMMA TypeOKStep == ASSUME IInv, Next PROVE TypeOK'
<1>1. CASE Call
  <2>1. ASSUME NEW k \in Kinds, NEW a \in Addrs, Configure(k, a) PROVE TypeOK'
    BY <2>1 DEF Configure, TypeOK, locals, phy, IInv
  <2>2. ASSUME NEW o \in Ops(kind), Begin(o) PROVE TypeOK'
    BY <2>2, AccessAssumption DEF Begin, TypeOK, phy, IInv
  <2> QED BY <1>1, <2>1, <2>2 DEF Call
<1>2. CASE Lock
  <2>1. CASE Acquire
    BY <2>1, AccessAssumption DEF Acquire, FirstCycle, TypeOK, AddrFor, BmAddr, Cycles, locals,
       phy, IInv
  <2>2. CASE AcquireTimeout
    BY <2>2 DEF AcquireTimeout, TypeOK, phy, IInv
  <2>3. CASE Release
    BY <2>3 DEF Release, TypeOK, phy, IInv
  <2> QED BY <1>2, <2>1, <2>2, <2>3 DEF Lock
<1>3. CASE PageCycle
  <2>1. CASE Select
    BY <2>1, OpType DEF Select, AfterSelect, Selected, TypeOK, Cycles, Goto, IInv
  <2>2. CASE SelectFails
    BY <2>2, OpType DEF SelectFails, Selected, TypeOK, Fail, IInv
  <2>3. CASE SelectEarly
    BY <2>3 DEF SelectEarly, TypeOK, Cycles, Goto, phy, IInv
  <2>4. CASE Verify
    BY <2>4 DEF Verify, TypeOK, Cycles, Goto, Fail, phy, IInv
  <2>5. CASE VerifyFails
    BY <2>5 DEF VerifyFails, TypeOK, Cycles, Goto, phy, IInv
  <2> QED BY <1>3, <2>1, <2>2, <2>3, <2>4, <2>5 DEF PageCycle
<1>4. CASE WakeupPages
  <2>1. CASE Page769
    <3>1. page' \in [Addrs -> Nat]
      BY <2>1, AccessAssumption DEF Page769, WakeupPage, Selected, TypeOK, BM_WUC_ENABLE_PAGE,
         BM_WUC_PAGE, IInv
    <3>2. ignored' \in BOOLEAN
      BY <2>1 DEF Page769, WakeupPage, TypeOK, IInv
    <3> QED BY <2>1, <3>1, <3>2, SMTT(30) DEF Page769, WakeupPage, TypeOK, Cycles, Goto, IInv
  <2>2. CASE Page800
    <3>1. page' \in [Addrs -> Nat]
      BY <2>2, AccessAssumption DEF Page800, WakeupPage, Selected, TypeOK, BM_WUC_ENABLE_PAGE,
         BM_WUC_PAGE, IInv
    <3>2. ignored' \in BOOLEAN
      BY <2>2 DEF Page800, WakeupPage, TypeOK, IInv
    <3> QED BY <2>2, <3>1, <3>2, SMTT(30) DEF Page800, WakeupPage, TypeOK, Cycles, Goto, IInv
  <2>3. CASE Back769
    <3>1. page' \in [Addrs -> Nat]
      BY <2>3, AccessAssumption DEF Back769, WakeupPage, Selected, TypeOK, BM_WUC_ENABLE_PAGE,
         BM_WUC_PAGE, IInv
    <3>2. ignored' \in BOOLEAN
      BY <2>3 DEF Back769, WakeupPage, TypeOK, IInv
    <3> QED BY <2>3, <3>1, <3>2, SMTT(30) DEF Back769, WakeupPage, TypeOK, Cycles, Goto, IInv
  <2> QED BY <1>4, <2>1, <2>2, <2>3 DEF WakeupPages
<1>5. CASE WakeupEnable
  <2>1. CASE WucGet
    BY <2>1 DEF WucGet, TypeOK, Cycles, Goto, phy, IInv
  <2>2. CASE WucGetFails
    BY <2>2 DEF WucGetFails, TypeOK, Fail, phy, IInv
  <2>3. CASE WucClear
    BY <2>3, AccessAssumption DEF WucClear, WriteCycle, Put, Bits, TypeOK, CycleFits, AddrFor,
       Cycles, Goto, Fail, IInv
  <2>4. CASE WucSet
    BY <2>4, AccessAssumption DEF WucSet, WriteCycle, Put, Bits, TypeOK, CycleFits, AddrFor,
       Cycles, WucBits, Goto, Fail, IInv
  <2>5. CASE WucRestore
    BY <2>5, AccessAssumption DEF WucRestore, WriteCycle, Put, Bits, TypeOK, Goto, Fail, IInv
  <2>6. CASE WucChoose
    BY <2>6, AccessAssumption, OpType DEF WucChoose, WriteCycle, Put, TypeOK, CycleFits, AddrFor,
       Cycles, Goto, Fail, IInv
  <2> QED BY <1>5, <2>1, <2>2, <2>3, <2>4, <2>5, <2>6 DEF WakeupEnable
<1>6. CASE DataCycle
  <2>1. CASE DataRead
    BY <2>1 DEF DataRead, AfterData, ReadFrom, TypeOK, Cycles, Goto, phy, IInv
  <2>2. CASE DataWrite
    BY <2>2, OpType DEF DataWrite, WriteCycle, Put, AfterData, TypeOK, Cycles, Goto, Fail, IInv
  <2>3. CASE CycleLost
    BY <2>3 DEF CycleLost, WriteLost, TypeOK, Fail, phy, IInv
  <2> QED BY <1>6, <2>1, <2>2, <2>3 DEF DataCycle
<1>7. CASE Kumeran
  <2>1. CASE KmrnPost
    BY <2>1, OpType DEF KmrnPost, TypeOK, Cycles, Goto, IInv
  <2>2. CASE KmrnTake
    BY <2>2 DEF KmrnTake, ReadFrom, TypeOK, Goto, phy, IInv
  <2>3. CASE KmrnPut
    <3>1. op \in Ops(kind) /\ kind \in Kinds
      BY <2>3 DEF KmrnPut, TypeOK, IInv
    <3>2. op.val \in Values
      BY <3>1, OpType
    <3>3. mem' \in [Locations -> Values]
      BY <2>3, <3>2 DEF KmrnPut, TypeOK, IInv
    <3>4. kmrnctrlsta' \in Nat
      BY <2>3, <3>1, OpType DEF KmrnPut
    <3> QED BY <2>3, <3>3, <3>4, SMTT(30) DEF KmrnPut, TypeOK, Goto, IInv
  <2> QED BY <1>7, <2>1, <2>2, <2>3 DEF Kumeran
<1>8. CASE Firmware
  <2>1. CASE FirmwareTakes
    BY <2>1 DEF FirmwareTakes, TypeOK, locals, phy, IInv
  <2>2. ASSUME NEW a \in Addrs, NEW p \in Pages[a], FirmwareSelects(a, p) PROVE TypeOK'
    <3>1. p \in Nat
      BY <2>2, AccessAssumption
    <3> QED BY <2>2, <3>1, SMTT(30) DEF FirmwareSelects, TypeOK, locals, IInv
  <2>3. CASE FirmwareKumeran
    BY <2>3, AccessAssumption DEF FirmwareKumeran, TypeOK, locals, IInv
  <2>4. CASE FirmwareGives
    BY <2>4 DEF FirmwareGives, TypeOK, locals, phy, IInv
  <2> QED BY <1>8, <2>1, <2>2, <2>3, <2>4 DEF Firmware
<1> QED BY <1>1, <1>2, <1>3, <1>4, <1>5, <1>6, <1>7, <1>8 DEF Next, AccessStep

\* The PHY is the driver's exactly from the first cycle to the release.
LEMMA HeldForTheAccessStep == ASSUME IInv, Next PROVE HeldForTheAccess'
<1>1. CASE Call
  <2>1. ASSUME NEW k \in Kinds, NEW a \in Addrs, Configure(k, a) PROVE HeldForTheAccess'
    BY <2>1 DEF Configure, HeldForTheAccess, IInv
  <2>2. ASSUME NEW o \in Ops(kind), Begin(o) PROVE HeldForTheAccess'
    BY <2>2 DEF Begin, HeldForTheAccess, Cycles, IInv
  <2> QED BY <1>1, <2>1, <2>2 DEF Call
<1>2. CASE Lock
  BY <1>2 DEF Lock, Acquire, AcquireTimeout, Release, FirstCycle, HeldForTheAccess, Cycles
<1>3. CASE PageCycle
  BY <1>3 DEF PageCycle, Select, SelectFails, SelectEarly, Verify, VerifyFails, AfterSelect,
     HeldForTheAccess, Cycles, Goto, Fail, IInv
<1>4. CASE WakeupPages
  BY <1>4 DEF WakeupPages, Page769, Page800, Back769, WakeupPage, HeldForTheAccess, Cycles, Goto,
     IInv
<1>5. CASE WakeupEnable
  BY <1>5 DEF WakeupEnable, WucGet, WucGetFails, WucClear, WucSet, WucRestore, WucChoose,
     WriteCycle, HeldForTheAccess, Cycles, Goto, Fail, IInv
<1>6. CASE DataCycle
  BY <1>6 DEF DataCycle, DataRead, DataWrite, CycleLost, WriteCycle, WriteLost, AfterData,
     HeldForTheAccess, Cycles, Goto, Fail, IInv
<1>7. CASE Kumeran
  BY <1>7 DEF Kumeran, KmrnPost, KmrnTake, KmrnPut, HeldForTheAccess, Cycles, Goto, IInv
<1>8. CASE Firmware
  <2>1. CASE FirmwareTakes
    BY <2>1 DEF FirmwareTakes, HeldForTheAccess, IInv
  <2>2. ASSUME NEW a \in Addrs, NEW p \in Pages[a], FirmwareSelects(a, p) PROVE HeldForTheAccess'
    BY <2>2 DEF FirmwareSelects, HeldForTheAccess, IInv
  <2>3. CASE FirmwareKumeran
    BY <2>3 DEF FirmwareKumeran, HeldForTheAccess, IInv
  <2>4. CASE FirmwareGives
    BY <2>4 DEF FirmwareGives, HeldForTheAccess, IInv
  <2> QED BY <1>8, <2>1, <2>2, <2>3, <2>4 DEF Firmware
<1> QED BY <1>1, <1>2, <1>3, <1>4, <1>5, <1>6, <1>7, <1>8 DEF Next, AccessStep

\* Every cycle is one of the access under way, at its address.
LEMMA CycleFitsStep == ASSUME IInv, Next PROVE CycleFits'
<1>1. CASE Call
  <2>1. ASSUME NEW k \in Kinds, NEW a \in Addrs, Configure(k, a) PROVE CycleFits'
    BY <2>1 DEF Configure, CycleFits, WakeupCycles
  <2>2. ASSUME NEW o \in Ops(kind), Begin(o) PROVE CycleFits'
    BY <2>2 DEF Begin, CycleFits, WakeupCycles
  <2> QED BY <1>1, <2>1, <2>2 DEF Call
<1>2. CASE Lock
  <2>1. CASE Acquire
    BY <2>1, OpType DEF Acquire, FirstCycle, CycleFits, TypeOK, AddrFor, IsWakeup, WakeupCycles,
       locals, IInv
  <2>2. CASE AcquireTimeout
    BY <2>2 DEF AcquireTimeout, CycleFits, WakeupCycles
  <2>3. CASE Release
    BY <2>3 DEF Release, CycleFits, WakeupCycles
  <2> QED BY <1>2, <2>1, <2>2, <2>3 DEF Lock
<1>3. CASE PageCycle
  BY <1>3 DEF PageCycle, Select, SelectFails, SelectEarly, Verify, VerifyFails, AfterSelect,
     CycleFits, AddrFor, IsWakeup, WakeupCycles, Goto, Fail, IInv
<1>4. CASE WakeupPages
  BY <1>4 DEF WakeupPages, Page769, Page800, Back769, WakeupPage, CycleFits, AddrFor, IsWakeup,
     WakeupCycles, Goto, IInv
<1>5. CASE WakeupEnable
  BY <1>5 DEF WakeupEnable, WucGet, WucGetFails, WucClear, WucSet, WucRestore, WucChoose,
     WriteCycle, CycleFits, AddrFor, IsWakeup, WakeupCycles, Goto, Fail, IInv
<1>6. CASE DataCycle
  BY <1>6 DEF DataCycle, DataRead, DataWrite, CycleLost, WriteCycle, WriteLost, AfterData,
     CycleFits, AddrFor, IsWakeup, WakeupCycles, Goto, Fail, IInv
<1>7. CASE Kumeran
  BY <1>7 DEF Kumeran, KmrnPost, KmrnTake, KmrnPut, CycleFits, AddrFor, WakeupCycles, Goto, IInv
<1>8. CASE Firmware
  <2>1. CASE FirmwareTakes
    BY <2>1 DEF FirmwareTakes, CycleFits, TypeOK, HeldForTheAccess, WakeupCycles, IInv
  <2>2. ASSUME NEW a \in Addrs, NEW p \in Pages[a], FirmwareSelects(a, p) PROVE CycleFits'
    BY <2>2 DEF FirmwareSelects, CycleFits, TypeOK, HeldForTheAccess, WakeupCycles, IInv
  <2>3. CASE FirmwareKumeran
    BY <2>3 DEF FirmwareKumeran, CycleFits, TypeOK, HeldForTheAccess, WakeupCycles, IInv
  <2>4. CASE FirmwareGives
    BY <2>4 DEF FirmwareGives, CycleFits, TypeOK, HeldForTheAccess, WakeupCycles, IInv
  <2> QED BY <1>8, <2>1, <2>2, <2>3, <2>4 DEF Firmware
<1> QED BY <1>1, <1>2, <1>3, <1>4, <1>5, <1>6, <1>7, <1>8 DEF Next, AccessStep

\* The page, 769_17 and the opcode's address at each cycle of a wakeup access.
LEMMA WakeupFitsStep == ASSUME IInv, Next PROVE WakeupFits'
<1>1. CASE Call
  <2>1. ASSUME NEW k \in Kinds, NEW a \in Addrs, Configure(k, a) PROVE WakeupFits'
    BY <2>1 DEF Configure, WakeupFits
  <2>2. ASSUME NEW o \in Ops(kind), Begin(o) PROVE WakeupFits'
    BY <2>2 DEF Begin, WakeupFits
  <2> QED BY <1>1, <2>1, <2>2 DEF Call
<1>2. CASE Lock
  BY <1>2 DEF Lock, Acquire, AcquireTimeout, Release, FirstCycle, WakeupFits, IsWakeup, locals
<1>3. CASE PageCycle
  BY <1>3 DEF PageCycle, Select, SelectFails, SelectEarly, Verify, VerifyFails, WakeupFits,
     CycleFits, IsWakeup, IInv
<1>4. CASE WakeupPages
  BY <1>4 DEF WakeupPages, Page769, Page800, Back769, WakeupPage, Selected, WakeupFits, CycleFits,
     TypeOK, AddrFor, IsWakeup, IsPageSelect, Goto, IInv
<1>5. CASE WakeupEnable
  BY <1>5 DEF WakeupEnable, WucGet, WucGetFails, WucClear, WucSet, WucRestore, WucChoose,
     WriteCycle, Put, Bits, WakeupFits, CycleFits, AddrFor, IsWakeup, Reached, Flat, WucEnable,
     WucAddress, MAX_PHY_MULTI_PAGE_REG, BM_WUC_PAGE, BM_WUC_ENABLE_PAGE, BM_WUC_ENABLE_REG,
     BM_WUC_ADDRESS_OPCODE, BM_WUC_DATA_OPCODE, Goto, Fail, phy, IInv
<1>6. CASE DataCycle
  <2>1. CASE DataRead
    BY <2>1 DEF DataRead, AfterData, WakeupFits, Goto
  <2>2. CASE DataWrite
    BY <2>2 DEF DataWrite, WriteCycle, AfterData, WakeupFits, Goto, Fail
  <2>3. CASE CycleLost
    BY <2>3 DEF CycleLost, WriteLost, WakeupFits, Fail
  <2> QED BY <1>6, <2>1, <2>2, <2>3 DEF DataCycle
<1>7. CASE Kumeran
  BY <1>7 DEF Kumeran, KmrnPost, KmrnTake, KmrnPut, WakeupFits, CycleFits, IsWakeup, IInv
<1>8. CASE Firmware
  <2>1. CASE FirmwareTakes
    BY <2>1 DEF FirmwareTakes, WakeupFits, HeldForTheAccess, TypeOK, IInv
  <2>2. ASSUME NEW a \in Addrs, NEW p \in Pages[a], FirmwareSelects(a, p) PROVE WakeupFits'
    BY <2>2 DEF FirmwareSelects, WakeupFits, HeldForTheAccess, TypeOK, IInv
  <2>3. CASE FirmwareKumeran
    BY <2>3 DEF FirmwareKumeran, WakeupFits, HeldForTheAccess, TypeOK, IInv
  <2>4. CASE FirmwareGives
    BY <2>4 DEF FirmwareGives, WakeupFits, HeldForTheAccess, TypeOK, IInv
  <2> QED BY <1>8, <2>1, <2>2, <2>3, <2>4 DEF Firmware
<1> QED BY <1>1, <1>2, <1>3, <1>4, <1>5, <1>6, <1>7, <1>8 DEF Next, AccessStep

\* The data cycle reaches the register asked for.
LEMMA RightRegisterStep == ASSUME IInv, Next PROVE RightRegister'
<1>1. CASE Call
  <2>1. ASSUME NEW k \in Kinds, NEW a \in Addrs, Configure(k, a) PROVE RightRegister'
    BY <2>1 DEF Configure, RightRegister
  <2>2. ASSUME NEW o \in Ops(kind), Begin(o) PROVE RightRegister'
    BY <2>2 DEF Begin, RightRegister
  <2> QED BY <1>1, <2>1, <2>2 DEF Call
<1>2. CASE Lock
  <2>1. CASE Acquire
    BY <2>1, OpType DEF Acquire, FirstCycle, RightRegister, TypeOK, AddrFor, IsWakeup, Paged,
       Reached, Wanted, Flat, DataReg, MAX_PHY_MULTI_PAGE_REG, BM_WUC_DATA_OPCODE, Kinds, locals,
       IInv
  <2>2. CASE AcquireTimeout
    BY <2>2 DEF AcquireTimeout, RightRegister
  <2>3. CASE Release
    BY <2>3 DEF Release, RightRegister
  <2> QED BY <1>2, <2>1, <2>2, <2>3 DEF Lock
<1>3. CASE PageCycle
  <2>1. CASE Select
    <3> SUFFICES ASSUME ~ignored, pc' = "data"
                 PROVE  (Reached(DataReg) = Wanted(op))'
      BY <2>1 DEF Select, RightRegister
    <3>1. /\ op.bus = "mdic" /\ ~IsWakeup(op) /\ kind \in {"igp", "bm", "bm2"}
          /\ phy_addr = AddrFor(op) /\ phy_addr \in Addrs /\ page \in [Addrs -> Nat]
      BY <2>1 DEF Select, CycleFits, TypeOK, Kinds, AfterSelect, Goto, IInv
    <3>2. IsPageSelect(page_select(op))
      BY <3>1, SMT DEF IsPageSelect, page_select, BM_PHY_PAGE_SELECT, IGP01E1000_PHY_PAGE_SELECT
    <3>3. UNCHANGED <<kind, phy_addr, op, wuc, wuc_addr>> /\ page'[phy_addr] = op.page
      BY <2>1, <3>1, <3>2 DEF Select, Selected
    <3>4. op.page # BM_WUC_PAGE \/ kind = "igp"
      BY <3>1 DEF IsWakeup
    <3>5. phy_addr' = AddrFor(op)' /\ ~IsWakeup(op)'
      BY <3>1, <3>3 DEF AddrFor, BmAddr, IsWakeup
    <3> QED BY <3>1, <3>3, <3>4, <3>5, SMT DEF Reached, Wanted, Flat, DataReg
  <2>2. CASE SelectFails
    BY <2>2 DEF SelectFails, RightRegister, Fail
  <2>3. CASE SelectEarly
    BY <2>3 DEF SelectEarly, RightRegister, Goto
  <2>4. CASE Verify
    BY <2>4 DEF Verify, RightRegister, CycleFits, AddrFor, IsWakeup, Reached, Wanted, DataReg,
       Fail, phy, IInv
  <2>5. CASE VerifyFails
    BY <2>5 DEF VerifyFails, RightRegister
  <2> QED BY <1>3, <2>1, <2>2, <2>3, <2>4, <2>5 DEF PageCycle
<1>4. CASE WakeupPages
  BY <1>4 DEF WakeupPages, Page769, Page800, Back769, WakeupPage, RightRegister, Goto
<1>5. CASE WakeupEnable
  <2>1. CASE WucGet
    BY <2>1 DEF WucGet, RightRegister, Goto
  <2>2. CASE WucGetFails
    BY <2>2 DEF WucGetFails, RightRegister, Fail
  <2>3. CASE WucClear
    BY <2>3 DEF WucClear, WriteCycle, RightRegister, Goto, Fail
  <2>4. CASE WucSet
    BY <2>4 DEF WucSet, WriteCycle, RightRegister, Goto, Fail
  <2>5. CASE WucRestore
    BY <2>5 DEF WucRestore, WriteCycle, RightRegister, Goto, Fail
  <2>6. CASE WucChoose
    <3> SUFFICES ASSUME ~ignored, pc' = "data"
                 PROVE  (Reached(DataReg) = Wanted(op))'
      BY <2>6 DEF WucChoose, WriteCycle, RightRegister
    <3>1. /\ IsWakeup(op) /\ phy_addr = 1 /\ page[1] = BM_WUC_PAGE
          /\ wuc = phy_reg \cup {"enable"}
      BY <2>6 DEF WucChoose, WriteCycle, WakeupFits, CycleFits, WakeupCycles, AddrFor, IsWakeup,
         IInv
    <3>a. ~Flat(BM_WUC_ADDRESS_OPCODE) /\ BM_WUC_ADDRESS_OPCODE # BM_WUC_DATA_OPCODE
      BY <3>1, SMT DEF Flat, IsWakeup, BM_WUC_ADDRESS_OPCODE, BM_WUC_DATA_OPCODE,
         MAX_PHY_MULTI_PAGE_REG
    <3>2. Reached(BM_WUC_ADDRESS_OPCODE) = WucAddress
      BY <3>1, <3>a, SMT DEF Reached, WucAddress
    <3>3. /\ UNCHANGED <<kind, phy_addr, op, page, wuc>>
          /\ wuc_addr' = op.reg
      BY <2>6, <3>2, SMT DEF WucChoose, WriteCycle, Put, WucEnable, WucAddress,
         BM_WUC_ENABLE_PAGE, BM_WUC_PAGE
    <3> QED BY <3>1, <3>3, SMT DEF Reached, Wanted, AddrFor, Flat, IsWakeup, DataReg,
       BM_WUC_DATA_OPCODE,
                       BM_WUC_PAGE, MAX_PHY_MULTI_PAGE_REG
  <2> QED BY <1>5, <2>1, <2>2, <2>3, <2>4, <2>5, <2>6 DEF WakeupEnable
<1>6. CASE DataCycle
  BY <1>6 DEF DataCycle, DataRead, DataWrite, CycleLost, WriteCycle, WriteLost, AfterData,
     RightRegister, Goto, Fail
<1>7. CASE Kumeran
  BY <1>7 DEF Kumeran, KmrnPost, KmrnTake, KmrnPut, RightRegister, Goto
<1>8. CASE Firmware
  <2>1. CASE FirmwareTakes
    BY <2>1 DEF FirmwareTakes, RightRegister, HeldForTheAccess, TypeOK, IInv
  <2>2. ASSUME NEW a \in Addrs, NEW p \in Pages[a], FirmwareSelects(a, p) PROVE RightRegister'
    BY <2>2 DEF FirmwareSelects, RightRegister, HeldForTheAccess, TypeOK, IInv
  <2>3. CASE FirmwareKumeran
    BY <2>3 DEF FirmwareKumeran, RightRegister, HeldForTheAccess, TypeOK, IInv
  <2>4. CASE FirmwareGives
    BY <2>4 DEF FirmwareGives, RightRegister, HeldForTheAccess, TypeOK, IInv
  <2> QED BY <1>8, <2>1, <2>2, <2>3, <2>4 DEF Firmware
<1> QED BY <1>1, <1>2, <1>3, <1>4, <1>5, <1>6, <1>7, <1>8 DEF Next, AccessStep

\* An access about to succeed has been done.
LEMMA DoneFitsStep == ASSUME IInv, Next PROVE DoneFits'
<1>1. CASE Call
  <2>1. ASSUME NEW k \in Kinds, NEW a \in Addrs, Configure(k, a) PROVE DoneFits'
    BY <2>1 DEF Configure, DoneFits
  <2>2. ASSUME NEW o \in Ops(kind), Begin(o) PROVE DoneFits'
    BY <2>2 DEF Begin, DoneFits
  <2> QED BY <1>1, <2>1, <2>2 DEF Call
<1>2. CASE Lock
  BY <1>2 DEF Lock, Acquire, AcquireTimeout, Release, FirstCycle, DoneFits
<1>3. CASE PageCycle
  BY <1>3 DEF PageCycle, Select, SelectFails, SelectEarly, Verify, VerifyFails, AfterSelect,
     DoneFits, Goto, Fail
<1>4. CASE WakeupPages
  <2>1. UNCHANGED <<kind, phy_addr, op, data, mem, ret_val>> /\ (ignored => ignored')
    BY <1>4 DEF WakeupPages, Page769, Page800, Back769, WakeupPage, Goto
  <2>2. /\ Wanted(op)' = Wanted(op)
        /\ pc' \in {"back769", "restore"} \/ (pc' = "release" /\ ret_val' = "success")
              => pc \in {"back769", "restore"} \/ (pc = "release" /\ ret_val = "success")
    BY <1>4, <2>1, WantedAtAddr DEF WakeupPages, Page769, Page800, Back769, WakeupPage, Goto
  <2> QED BY <2>1, <2>2 DEF DoneFits, IInv
<1>5. CASE WakeupEnable
  <2>1. CASE WucGet
    BY <2>1 DEF WucGet, DoneFits, Goto
  <2>2. CASE WucGetFails
    BY <2>2 DEF WucGetFails, DoneFits, Fail
  <2>3. CASE WucClear
    BY <2>3 DEF WucClear, WriteCycle, DoneFits, Goto, Fail
  <2>4. CASE WucSet
    BY <2>4 DEF WucSet, WriteCycle, DoneFits, Goto, Fail
  <2>5. CASE WucRestore
    <3>0. Wanted(op)' = Wanted(op)
      BY <2>5 DEF WucRestore, WriteCycle, Wanted, AddrFor, BmAddr, IsWakeup, Flat
    <3> SUFFICES ASSUME ~ignored, pc' = "release", ret_val' = "success", Wanted(op) \in Locations
                 PROVE  IF op.read THEN data = mem'[Wanted(op)] ELSE mem'[Wanted(op)] = op.val
      BY <2>5, <3>0 DEF WucRestore, WriteCycle, DoneFits, Goto, Fail
    <3>1. IsWakeup(op) /\ page[1] = BM_WUC_ENABLE_PAGE /\ phy_addr = 1
      BY <2>5 DEF WucRestore, WriteCycle, WakeupFits, CycleFits, WakeupCycles, AddrFor, IsWakeup,
         IInv
    <3>2. Reached(BM_WUC_ENABLE_REG) = WucEnable
      BY <3>1, SMT DEF Reached, WucEnable, Flat, IsWakeup, BM_WUC_ENABLE_REG, BM_WUC_DATA_OPCODE,
                       BM_WUC_ENABLE_PAGE, MAX_PHY_MULTI_PAGE_REG
    <3>3. Wanted(op) # WucEnable
      BY <3>1, SMT DEF Wanted, WucEnable, IsWakeup, BM_WUC_ENABLE_PAGE, BM_WUC_PAGE
    <3>4. mem'[Wanted(op)] = mem[Wanted(op)]
      BY <2>5, <3>2, <3>3, SMT DEF WucRestore, WriteCycle, Put, TypeOK, IInv
    <3>5. IF op.read THEN data = mem[Wanted(op)] ELSE mem[Wanted(op)] = op.val
      BY <2>5 DEF WucRestore, WriteCycle, DoneFits, IInv
    <3> QED BY <3>4, <3>5
  <2>6. CASE WucChoose
    BY <2>6 DEF WucChoose, WriteCycle, DoneFits, Goto, Fail
  <2> QED BY <1>5, <2>1, <2>2, <2>3, <2>4, <2>5, <2>6 DEF WakeupEnable
<1>6. CASE DataCycle
  <2>1. CASE DataRead
    BY <2>1 DEF DataRead, ReadFrom, DoneFits, RightRegister, AddrFor, IsWakeup, Wanted, Flat, phy,
       IInv
  <2>2. CASE DataWrite
    BY <2>2 DEF DataWrite, WriteCycle, Put, DoneFits, RightRegister, TypeOK, AddrFor, IsWakeup,
       Wanted, Flat, IInv
  <2>3. CASE CycleLost
    BY <2>3 DEF CycleLost, WriteLost, DoneFits, Fail
  <2> QED BY <1>6, <2>1, <2>2, <2>3 DEF DataCycle
<1>7. CASE Kumeran
  <2>1. CASE KmrnPost
    BY <2>1 DEF KmrnPost, DoneFits, Goto
  <2>2. CASE KmrnTake
    BY <2>2 DEF KmrnTake, ReadFrom, DoneFits, CycleFits, Wanted, phy, IInv
  <2>3. CASE KmrnPut
    BY <2>3 DEF KmrnPut, DoneFits, CycleFits, TypeOK, Wanted, IInv
  <2> QED BY <1>7, <2>1, <2>2, <2>3 DEF Kumeran
<1>8. CASE Firmware
  <2>1. CASE FirmwareTakes
    BY <2>1 DEF FirmwareTakes, DoneFits, HeldForTheAccess, TypeOK, IInv
  <2>2. ASSUME NEW a \in Addrs, NEW p \in Pages[a], FirmwareSelects(a, p) PROVE DoneFits'
    BY <2>2 DEF FirmwareSelects, DoneFits, HeldForTheAccess, TypeOK, IInv
  <2>3. CASE FirmwareKumeran
    BY <2>3 DEF FirmwareKumeran, DoneFits, HeldForTheAccess, TypeOK, IInv
  <2>4. CASE FirmwareGives
    BY <2>4 DEF FirmwareGives, DoneFits, HeldForTheAccess, TypeOK, IInv
  <2> QED BY <1>8, <2>1, <2>2, <2>3, <2>4 DEF Firmware
<1> QED BY <1>1, <1>2, <1>3, <1>4, <1>5, <1>6, <1>7, <1>8 DEF Next, AccessStep

-----------------------------------------------------------------------------
\* IInv holds at power-up.
LEMMA IInvInit == Init => IInv
<1> SUFFICES ASSUME Init PROVE IInv
  OBVIOUS
<1>1. TypeOK
  BY AccessAssumption DEF Init, TypeOK, WucBits
<1> QED BY <1>1 DEF Init, IInv, HeldForTheAccess, CycleFits, WakeupFits, RightRegister, DoneFits,
           Cycles, WakeupCycles

\* Every step keeps IInv.
LEMMA IInvStep == IInv /\ [Next]_vars => IInv'
<1> SUFFICES ASSUME IInv, [Next]_vars PROVE IInv'
  OBVIOUS
<1>1. CASE Next
  BY <1>1, TypeOKStep, HeldForTheAccessStep, CycleFitsStep, WakeupFitsStep, RightRegisterStep,
     DoneFitsStep DEF IInv
<1>2. CASE UNCHANGED vars
  BY <1>2 DEF vars, locals, phy, IInv, TypeOK, HeldForTheAccess, CycleFits, WakeupFits,
     RightRegister, DoneFits, AddrFor, IsWakeup, Reached, Wanted, Flat, DataReg
<1> QED BY <1>1, <1>2

\* The inductive invariant of the accesses (e1000_read_phy_reg_... and e1000_write_phy_reg_...).
THEOREM AccessInvariant == Spec => []IInv
BY IInvInit, IInvStep, PTL DEF Spec

\* No access touches a register it was not asked for, whatever page was selected before.
THEOREM RightRegisterCorrect == Spec => []RightRegister
<1>1. IInv => RightRegister
  BY DEF IInv
<1> QED BY <1>1, AccessInvariant, PTL
-----------------------------------------------------------------------------
(* The accesses implement the memory of PhyRegisters: the data cycle is    *)
(* its Read or Write, the release its Return, every other cycle invisible. *)

\* A cycle in the middle of an access that leaves the registers and the caller's word alone.
LEMMA Invisible ==
    ASSUME pc # "idle", pc' # "idle", UNCHANGED <<kind, op, mem, data, ignored>>,
           phy_addr' \in {phy_addr, AddrFor(op)}
    PROVE  UNCHANGED Memory!vars
<1>1. Wanted(op)' = Wanted(op)
  BY WantedAtAddr
<1> QED BY <1>1 DEF Memory!vars

\* The writes to 769_17 and to the wakeup opcode's address go where they are meant to.
LEMMA WakeupWritesMiss ==
    ASSUME IInv, ~ignored, WakeupEnable
    PROVE  UNCHANGED mem
<1>1. pc \in {"clear", "enable", "restore"} => Reached(BM_WUC_ENABLE_REG) = WucEnable
  BY DEF IInv, CycleFits, WakeupFits, WakeupCycles, AddrFor, IsWakeup, Reached, WucEnable, Flat,
     BM_WUC_ENABLE_REG, BM_WUC_DATA_OPCODE, MAX_PHY_MULTI_PAGE_REG
<1>2. pc = "address" => Reached(BM_WUC_ADDRESS_OPCODE) = WucAddress
  BY DEF IInv, CycleFits, WakeupFits, WakeupCycles, AddrFor, IsWakeup, Reached, WucAddress, Flat,
     BM_WUC_ADDRESS_OPCODE, BM_WUC_DATA_OPCODE, MAX_PHY_MULTI_PAGE_REG
<1>3. CASE WucGet \/ WucGetFails
  BY <1>3 DEF WucGet, WucGetFails, phy
<1>4. CASE WucClear \/ WucSet \/ WucRestore
  BY <1>1, <1>4, AccessAssumption DEF WucClear, WucSet, WucRestore, WriteCycle, Put
<1>5. CASE WucChoose
  BY <1>2, <1>5, AccessAssumption DEF WucChoose, WriteCycle, Put
<1> QED BY <1>3, <1>4, <1>5 DEF WakeupEnable

\* That an error was ignored is remembered for good.
LEMMA IgnoredStays == ASSUME IInv, Next, ignored PROVE ignored'
BY DEF Next, Call, Configure, Begin, AccessStep, Lock, Acquire, AcquireTimeout, Release,
   PageCycle, Select, SelectFails, SelectEarly, Verify, VerifyFails, WakeupPages, Page769,
   Page800, Back769, WakeupPage, WakeupEnable, WucGet, WucGetFails, WucClear, WucSet, WucRestore,
   WucChoose, DataCycle, DataRead, DataWrite, CycleLost, WriteCycle, WriteLost, Kumeran, KmrnPost,
   KmrnTake, KmrnPut, Firmware, FirmwareTakes, FirmwareSelects, FirmwareKumeran, FirmwareGives

\* Each step, as long as no error was ignored.
LEMMA MemoryStep ==
    ASSUME IInv, Next, ~ignored, ~ignored'
    PROVE  Memory!Next \/ UNCHANGED Memory!vars
<1>1. CASE Call
  <2>1. ASSUME NEW k \in Kinds, NEW a \in Addrs, Configure(k, a) PROVE UNCHANGED Memory!vars
    BY <2>1 DEF Configure, Memory!vars, locals, phy
  <2>2. ASSUME NEW o \in Ops(kind), Begin(o) PROVE Memory!Call
    <3>1. o.val \in Values
      BY OpType DEF IInv, TypeOK
    <3> QED BY <2>2, <3>1 DEF Begin, Memory!Call, phy
  <2> QED BY <1>1, <2>1, <2>2 DEF Call, Memory!Next
<1>2. CASE Lock
  <2>1. CASE Acquire
    <3>1. pc # "idle" /\ pc' # "idle" /\ UNCHANGED <<kind, op, mem, data, ignored>>
          /\ phy_addr' = AddrFor(op)
      BY <2>1 DEF Acquire, FirstCycle, locals, phy
    <3> QED BY <3>1, Invisible
  <2>2. CASE AcquireTimeout
    BY <2>2 DEF AcquireTimeout, Memory!Next, Memory!Return, phy
  <2>3. CASE Release
    <3>1. ret_val = "success" => Memory!Done
      BY <2>3 DEF Release, Memory!Done, IInv, DoneFits
    <3>2. Memory!Return(ret_val = "success")
      BY <2>3, <3>1 DEF Release, Memory!Return, phy
    <3> QED BY <3>2 DEF Memory!Next
  <2> QED BY <1>2, <2>1, <2>2, <2>3 DEF Lock
<1>3. CASE PageCycle
  <2>1. pc # "idle" /\ pc' # "idle" /\ UNCHANGED <<kind, op, mem, data, ignored, phy_addr>>
    BY <1>3 DEF PageCycle, Select, SelectFails, SelectEarly, Verify, VerifyFails, AfterSelect, Goto,
                Fail, locals, phy
  <2> QED BY <2>1, Invisible
<1>4. CASE WakeupPages
  <2>1. pc # "idle" /\ pc' # "idle" /\ UNCHANGED <<kind, op, mem, data, ignored, phy_addr>>
    BY <1>4 DEF WakeupPages, Page769, Page800, Back769, WakeupPage, Goto
  <2> QED BY <2>1, Invisible
<1>5. CASE WakeupEnable
  <2>1. pc # "idle" /\ pc' # "idle" /\ UNCHANGED <<kind, op, data, ignored, phy_addr>>
    BY <1>5 DEF WakeupEnable, WucGet, WucGetFails, WucClear, WucSet, WucRestore, WucChoose,
                WriteCycle, Goto, Fail
  <2> QED BY <1>5, <2>1, WakeupWritesMiss, Invisible
<1>6. CASE DataCycle
  <2>1. CASE DataRead
    <3>1. Wanted(op)' = Wanted(op) /\ Reached(DataReg) = Wanted(op)
      BY <2>1, WantedAtAddr DEF DataRead, IInv, RightRegister
    <3>2. Memory!Read
      BY <2>1, <3>1 DEF DataRead, ReadFrom, Memory!Read, Goto, AfterData, phy
    <3> QED BY <3>2 DEF Memory!Next
  <2>2. CASE DataWrite
    <3>1. Wanted(op)' = Wanted(op) /\ Reached(DataReg) = Wanted(op)
      BY <2>2, WantedAtAddr DEF DataWrite, WriteCycle, IInv, RightRegister
    <3>2. mem' = [mem EXCEPT ![Wanted(op)] = op.val]
      BY <2>2, <3>1 DEF DataWrite, WriteCycle, Put, IInv, TypeOK
    <3>3. Memory!Write
      BY <2>2, <3>1, <3>2 DEF DataWrite, WriteCycle, Memory!Write, Goto, Fail, AfterData
    <3> QED BY <3>3 DEF Memory!Next
  <2>3. CASE CycleLost
    <3>1. pc # "idle" /\ pc' # "idle" /\ UNCHANGED <<kind, op, mem, data, ignored, phy_addr>>
      BY <2>3 DEF CycleLost, WriteLost, Fail, phy
    <3> QED BY <3>1, Invisible
  <2> QED BY <1>6, <2>1, <2>2, <2>3 DEF DataCycle
<1>7. CASE Kumeran
  <2>1. CASE KmrnPost
    <3>1. pc # "idle" /\ pc' # "idle" /\ UNCHANGED <<kind, op, mem, data, ignored, phy_addr>>
      BY <2>1 DEF KmrnPost, Goto
    <3> QED BY <3>1, Invisible
  <2>2. CASE KmrnTake
    <3>1. Wanted(op)' = Wanted(op) /\ Wanted(op) = <<KMRN, 0, kmrnctrlsta>> /\ op.read
      BY <2>2, WantedAtAddr DEF KmrnTake, IInv, CycleFits, Wanted
    <3>2. Memory!Read
      BY <2>2, <3>1 DEF KmrnTake, ReadFrom, Memory!Read, Goto, phy
    <3> QED BY <3>2 DEF Memory!Next
  <2>3. CASE KmrnPut
    <3>1. Wanted(op)' = Wanted(op) /\ ~op.read
      BY <2>3, WantedAtAddr DEF KmrnPut, IInv, CycleFits
    <3>2. Memory!Write
      BY <2>3, <3>1 DEF KmrnPut, Memory!Write, Goto
    <3> QED BY <3>2 DEF Memory!Next
  <2> QED BY <1>7, <2>1, <2>2, <2>3 DEF Kumeran
<1>8. CASE Firmware
  <2>1. UNCHANGED <<kind, op, mem, data, ret_val, pc, ignored, phy_addr>>
    BY <1>8 DEF Firmware, FirmwareTakes, FirmwareSelects, FirmwareKumeran, FirmwareGives, locals, phy
  <2>2. Wanted(op)' = Wanted(op)
    BY <2>1, WantedAtAddr
  <2> QED BY <2>1, <2>2 DEF Memory!vars
<1> QED BY <1>1, <1>2, <1>3, <1>4, <1>5, <1>6, <1>7, <1>8 DEF Next, AccessStep

\* Every step of an access is one of the memory's or invisible.
LEMMA MemoryStepOrStutter ==
    IInv /\ [Next]_vars => [Memory!Next]_Memory!vars
<1> SUFFICES ASSUME IInv, [Next]_vars PROVE Memory!Next \/ UNCHANGED Memory!vars
  OBVIOUS
<1>1. CASE UNCHANGED vars
  <2>1. UNCHANGED <<kind, op, mem, data, ret_val, pc, ignored, phy_addr>>
    BY <1>1 DEF vars, locals, phy
  <2>2. Wanted(op)' = Wanted(op)
    BY <2>1, WantedAtAddr
  <2> QED BY <2>1, <2>2 DEF Memory!vars
<1>2. CASE Next /\ ignored
  BY <1>2, IgnoredStays DEF Memory!Next, Memory!AfterIgnored
<1>3. CASE Next /\ ~ignored /\ ignored'
  BY <1>3 DEF Memory!Next, Memory!Ignore
<1>4. CASE Next /\ ~ignored /\ ~ignored'
  BY <1>4, MemoryStep
<1> QED BY <1>1, <1>2, <1>3, <1>4 DEF IInv, TypeOK

\* At power-up the memory holds what the registers hold.
LEMMA MemoryInit == Init => Memory!Init
BY AccessAssumption DEF Init, Memory!Init

\* What the code above relies on: phy->ops.read_reg and write_reg behave like a memory.
THEOREM ImplementsMemoryCorrect == Spec => ImplementsMemory
BY MemoryInit, MemoryStepOrStutter, AccessInvariant, PTL
   DEF Spec, ImplementsMemory, Memory!Spec
-----------------------------------------------------------------------------
(* The identification.                                                     *)

\* A read of the id is an access both routines allow.
LEMMA ReadOfIsOp ==
    ASSUME NEW r \in {PHY_ID1, PHY_ID2}, kind \in {"igp", "bm"}
    PROVE  ReadOf(r) \in Ops(kind)
<1> DEFINE asked == [bus |-> "mdic", page |-> 0, reg |-> r]
           ReadAt(o) == [bus |-> o.bus, page |-> o.page, reg |-> o.reg, read |-> TRUE, val |-> NoOp.val]
           reads == {ReadAt(o) : o \in Offsets[kind]}
<1>1. asked \in Offsets[kind] /\ ReadAt(asked) = ReadOf(r)
  BY IdentifyAssumption DEF ReadOf
<1>2. reads \subseteq Ops(kind)
  <2> SUFFICES ASSUME NEW x \in reads PROVE x \in Ops(kind)
    OBVIOUS
  <2> QED BY DEF Ops
<1>3. ReadAt(asked) \in reads
  <2> HIDE DEF asked
  <2> QED BY <1>1
<1> HIDE DEF asked, ReadAt, reads
<1> QED BY <1>1, <1>2, <1>3

\* Every step of the identification is one of the accesses, or leaves them alone.
LEMMA IdStepIsAccess ==
    ASSUME TypeOK, ScanFits, [IdNext]_allvars
    PROVE  [Next]_vars
<1>1. \A a \in 0 .. E1000_MAX_PHY_ADDR - 1 : a \in Addrs
  BY IdentifyAssumption
<1>2. CASE GetPhyId \/ GotId1
  <2>1. kind \in {"igp", "bm"} /\ (Begin(ReadOf(PHY_ID1)) \/ Begin(ReadOf(PHY_ID2)))
    BY <1>2 DEF GetPhyId, GotId1, ScanFits
  <2> QED BY <2>1, ReadOfIsOp DEF Next, Call
<1>3. CASE SetAddr
  BY <1>1, <1>3 DEF SetAddr, Next, Call, TypeOK, ScanFits
<1>4. CASE ScanAsBm \/ Verified
  BY <1>4 DEF ScanAsBm, Verified, Next, Call, TypeOK, Kinds
<1>5. CASE GotId2 \/ IdFails \/ Found \/ Again \/ NextAddress \/ NotFound
  BY <1>5 DEF GotId2, IdFails, Found, Again, NextAddress, NotFound
<1>6. CASE stage = "up" /\ (\E o \in Ops(kind) : Begin(o)) /\ UNCHANGED ident
  BY <1>6 DEF Next, Call
<1>7. CASE (AccessStep \/ Firmware) /\ UNCHANGED ident
  BY <1>7 DEF Next
<1>8. CASE UNCHANGED allvars
  BY <1>8 DEF allvars
<1> QED BY <1>2, <1>3, <1>4, <1>5, <1>6, <1>7, <1>8 DEF IdNext, Identify

\* While the PHY is looked for, the registers are not written, and an access that succeeds has
\* read the half of the id it was for.
LEMMA AccessDuringScan ==
    ASSUME IInv, ScanFits, stage # "up", reading \in {"id1", "id2"} \/ pc = "idle",
           AccessStep \/ Firmware
    PROVE  /\ UNCHANGED <<mem, kind, ignored>>
           /\ At' = At /\ (kind = "igp" => phy_addr' = phy_addr)
           /\ pc' \in {"idle", "acquire", "data", "release"}
           /\ pc' # "idle" => pc # "idle" /\ op' = op
           /\ pc = "idle" => UNCHANGED <<pc, ret_val, data>>
           /\ pc # "idle" /\ pc' = "idle" /\ ret_val' = "success" =>
                 data' = mem[<<At, 0, IF reading = "id1" THEN PHY_ID1 ELSE PHY_ID2>>]
<1> DEFINE r == IF reading = "id1" THEN PHY_ID1 ELSE PHY_ID2
<1>0. kind \in {"igp", "bm"} /\ ~ignored /\ pc \in {"idle", "acquire", "data", "release"}
  BY DEF ScanFits
<1>1. pc # "idle" =>
        /\ op = ReadOf(r) /\ ~IsWakeup(op) /\ FirstCycle(op) = "data" /\ ~Paged(op)
        /\ Flat(op.reg) /\ (kind = "bm" => AddrFor(op) = 2) /\ (kind = "igp" => AddrFor(op) = phy_addr)
        /\ op.bus = "mdic"
  <2> SUFFICES ASSUME pc # "idle" PROVE
        /\ op = ReadOf(r) /\ ~IsWakeup(op) /\ FirstCycle(op) = "data" /\ ~Paged(op)
        /\ Flat(op.reg) /\ (kind = "bm" => AddrFor(op) = 2) /\ (kind = "igp" => AddrFor(op) = phy_addr)
        /\ op.bus = "mdic"
    OBVIOUS
  <2>1. op = ReadOf(r)
    BY DEF ScanFits
  <2>2. op.bus = "mdic" /\ op.page = 0 /\ op.reg \in {2, 3} /\ op.read
    BY <2>1 DEF ReadOf, PHY_ID1, PHY_ID2
  <2>3. ~IsWakeup(op) /\ ~Paged(op) /\ Flat(op.reg)
    BY <1>0, <2>2, SMT DEF IsWakeup, Paged, Flat, BM_WUC_PAGE, MAX_PHY_MULTI_PAGE_REG
  <2> QED BY <1>0, <2>1, <2>2, <2>3, SMT DEF FirstCycle, AddrFor, BmAddr
<1>2. pc # "idle" => Wanted(op) = <<At, 0, r>> /\ <<At, 0, r>> \in Locations
  <2>1. At \in Addrs
    BY AccessAssumption DEF At, IInv, TypeOK
  <2> QED BY <1>0, <1>1, <2>1, IdentifyAssumption DEF Wanted, At, ReadOf
<1>3. CASE Acquire
  BY <1>0, <1>1, <1>3 DEF Acquire, At, locals, phy
<1>4. CASE AcquireTimeout
  BY <1>4 DEF AcquireTimeout, At, phy
<1>5. CASE Release
  <2>1. ret_val = "success" => data = mem[Wanted(op)]
    BY <1>0, <1>1, <1>2, <1>5 DEF Release, IInv, DoneFits, ReadOf
  <2> QED BY <1>2, <1>5, <2>1 DEF Release, At, phy
<1>6. CASE DataRead
  BY <1>1, <1>6 DEF DataRead, AfterData, Goto, At, phy
<1>7. CASE CycleLost
  BY <1>7 DEF CycleLost, WriteLost, Fail, At, phy
<1>8. CASE Firmware
  BY <1>0, <1>8 DEF Firmware, FirmwareTakes, FirmwareSelects, FirmwareKumeran, FirmwareGives, At, locals,
                    phy
<1>9. ~DataWrite /\ ~PageCycle /\ ~WakeupPages /\ ~WakeupEnable /\ ~Kumeran
  BY <1>0, <1>1 DEF DataWrite, WriteCycle, ReadOf, PageCycle, Select, SelectFails, SelectEarly,
     Verify, VerifyFails, WakeupPages, Page769, Page800, Back769, WakeupPage, WakeupEnable,
     WucGet, WucGetFails, WucClear, WucSet, WucRestore, WucChoose, Kumeran, KmrnPost, KmrnTake,
     KmrnPut
<1> QED BY <1>3, <1>4, <1>5, <1>6, <1>7, <1>8, <1>9 DEF AccessStep, Lock, DataCycle
-----------------------------------------------------------------------------
(* Once a PHY was accepted its id is never written and its address stays.  *)

\* With the routines of an IGP, no access writes an id or moves hw->phy.addr.
LEMMA IdsStay ==
    ASSUME IInv, kind = "igp", AccessStep \/ Firmware, NEW r \in {PHY_ID1, PHY_ID2}
    PROVE  phy_addr' = phy_addr /\ mem'[<<phy_addr, 0, r>>] = mem[<<phy_addr, 0, r>>]
<1>1. ~IsWakeup(op) /\ AddrFor(op) = phy_addr
  BY DEF IsWakeup, AddrFor
<1>2. <<phy_addr, 0, r>> \in Locations /\ phy_addr # KMRN
  BY AccessAssumption, IdentifyAssumption DEF IInv, TypeOK
<1>3. CASE Lock \/ PageCycle \/ Firmware
  BY <1>1, <1>3 DEF Lock, Acquire, AcquireTimeout, Release, PageCycle, Select, SelectFails,
     SelectEarly, Verify, VerifyFails, Firmware, FirmwareTakes, FirmwareSelects, FirmwareKumeran,
     FirmwareGives, phy
<1>4. ~WakeupPages /\ ~WakeupEnable
  BY <1>1 DEF IInv, CycleFits, WakeupCycles, WakeupPages, Page769, Page800, Back769, WakeupPage,
     WakeupEnable, WucGet, WucGetFails, WucClear, WucSet, WucRestore, WucChoose, WriteCycle
<1>5. CASE DataRead \/ CycleLost
  BY <1>5 DEF DataRead, CycleLost, WriteLost, phy
<1>6. CASE DataWrite
  <2>1. op \in Ops("igp") /\ ~op.read /\ op.bus = "mdic"
    BY <1>6 DEF DataWrite, WriteCycle, IInv, TypeOK, CycleFits
  <2>2. op.reg # r
    <3>1. PICK o \in Offsets["igp"] \ ReadOnly : o.bus = op.bus /\ o.reg = op.reg
      BY <2>1 DEF Ops
    <3> QED BY <2>1, <3>1, IdentifyAssumption
  <2>3. Reached(DataReg) # <<phy_addr, 0, r>>
    BY <1>1, <2>2 DEF Reached, DataReg
  <2> QED BY <1>2, <1>6, <2>3 DEF DataWrite, WriteCycle, Put, IInv, TypeOK
<1>7. CASE Kumeran
  <2>1. Wanted(op) # <<phy_addr, 0, r>> \/ pc # "put"
    BY <1>2 DEF Wanted, IInv, CycleFits
  <2> QED BY <1>2, <1>7, <2>1 DEF Kumeran, KmrnPost, KmrnTake, KmrnPut, IInv, TypeOK, phy
<1> QED BY <1>3, <1>4, <1>5, <1>6, <1>7 DEF AccessStep, DataCycle

\* No step of the identification is left once a PHY was accepted.
LEMMA UpStep ==
    ASSUME IdInv, IdNext, stage = "up"
    PROVE  ScanFits' /\ ReadFits' /\ FoundFits' /\ RightPhy' /\ FoundUnlessMissed'
<1>1. reading = "none"
  BY DEF IdInv, ScanFits
<1>2. ~Identify
  BY <1>1 DEF Identify, GetPhyId, GotId1, GotId2, IdFails, SetAddr, Found, Again, NextAddress,
     ScanAsBm, NotFound, Verified
<1>3. UNCHANGED ident /\ UNCHANGED kind
  BY <1>2 DEF IdNext, Begin, AccessStep, Lock, Acquire, AcquireTimeout, Release, PageCycle,
     Select, SelectFails, SelectEarly, Verify, VerifyFails, WakeupPages, Page769, Page800,
     Back769, WakeupPage, WakeupEnable, WucGet, WucGetFails, WucClear, WucSet, WucRestore,
     WucChoose, DataCycle, DataRead, DataWrite, CycleLost, WriteCycle, WriteLost, Kumeran,
     KmrnPost, KmrnTake, KmrnPut, Firmware, FirmwareTakes, FirmwareSelects, FirmwareKumeran,
     FirmwareGives
<1>4. kind = "igp" => /\ phy_addr' = phy_addr
                      /\ \A r \in {PHY_ID1, PHY_ID2} : mem'[<<phy_addr, 0, r>>] = mem[<<phy_addr, 0, r>>]
  BY <1>2, IdsStay DEF IdInv, IdNext, Begin, phy
<1>5. ScanFits' /\ ReadFits' /\ FoundFits' /\ FoundUnlessMissed'
  BY <1>1, <1>3 DEF ident, IdInv, ScanFits, ReadFits, FoundFits, FoundUnlessMissed
<1>6. RightPhy'
  BY <1>3, <1>4 DEF ident, IdInv, RightPhy, HasId, phy_type, Zero
<1> QED BY <1>5, <1>6
-----------------------------------------------------------------------------
(* The cycles of an access while the PHY is looked for.                    *)

\* They keep every part of IdInv.
LEMMA ScanAccessStep ==
    ASSUME IdInv, AccessStep \/ Firmware, UNCHANGED ident, stage # "up"
    PROVE  ScanFits' /\ ReadFits' /\ FoundFits' /\ RightPhy' /\ FoundUnlessMissed'
<1>1. reading \in {"id1", "id2"} \/ pc = "idle"
  BY DEF IdInv, ScanFits
<1>2. /\ UNCHANGED <<mem, kind, ignored>>
      /\ At' = At /\ (kind = "igp" => phy_addr' = phy_addr)
      /\ pc' \in {"idle", "acquire", "data", "release"}
      /\ pc' # "idle" => pc # "idle" /\ op' = op
      /\ pc = "idle" => UNCHANGED <<pc, ret_val, data>>
      /\ pc # "idle" /\ pc' = "idle" /\ ret_val' = "success" =>
            data' = mem[<<At, 0, IF reading = "id1" THEN PHY_ID1 ELSE PHY_ID2>>]
  BY <1>1, AccessDuringScan DEF IdInv
<1>3. UNCHANGED <<stage, reading, phy_id, scan, tries, missed>>
  BY DEF ident
<1>4. ScanFits'
  BY <1>2, <1>3 DEF IdInv, ScanFits, ReadOf
<1>5. ReadFits'
  <2>1. reading = "look" => pc = "idle"
    BY DEF IdInv, ScanFits
  <2> QED BY <1>2, <1>3, <2>1 DEF IdInv, ReadFits
<1>6. FoundFits' /\ RightPhy' /\ FoundUnlessMissed'
  BY <1>2, <1>3 DEF IdInv, FoundFits, RightPhy, FoundUnlessMissed, Known, HasId
<1> QED BY <1>4, <1>5, <1>6
-----------------------------------------------------------------------------
(* The steps of the identification, one lemma for each part of IdInv.      *)

\* Only ids are read, and at the loop's address.
LEMMA ScanFitsStep == ASSUME IdInv, Identify PROVE ScanFits'
<1> USE DEF IdInv, ScanFits
<1>1. CASE GetPhyId
  BY <1>1 DEF GetPhyId, Begin, ReadOf, phy
<1>2. CASE GotId1
  BY <1>2 DEF GotId1, Begin, ReadOf, phy
<1>3. CASE GotId2
  BY <1>3 DEF GotId2, vars, locals, phy
<1>9. CASE IdFails
  <2>1. missed' \in BOOLEAN /\ reading' = "look" /\ pc' = "idle" /\ stage' = stage
    BY <1>9 DEF IdFails, vars
  <2> QED BY <1>9, <2>1 DEF IdFails, vars, locals, phy
<1>4. CASE SetAddr
  BY <1>4 DEF SetAddr, Configure, ident, locals, phy
<1>5. CASE Found \/ Again \/ NotFound
  BY <1>5 DEF Found, Again, NotFound, vars, phy
<1>6. CASE NextAddress
  BY <1>6, IdentifyAssumption DEF NextAddress, vars, phy
<1>7. CASE ScanAsBm
  BY <1>7, IdentifyAssumption DEF ScanAsBm, Configure, locals, phy
<1>8. CASE Verified
  <2>1. 0 \in 0 .. E1000_MAX_PHY_ADDR - 1
    BY IdentifyAssumption
  <2>2. CASE stage' = "up"
    BY <1>8, <2>1, <2>2 DEF Verified
  <2>3. CASE stage' = "failed" /\ kind' = kind
    BY <1>8, <2>1, <2>3 DEF Verified, Configure, locals, phy
  <2> QED BY <1>8, <2>2, <2>3 DEF Verified, Configure
<1> QED BY <1>1, <1>2, <1>3, <1>4, <1>5, <1>6, <1>7, <1>8, <1>9 DEF Identify

\* The halves of phy_id are those of one address.
LEMMA ReadFitsStep == ASSUME IdInv, Identify PROVE ReadFits'
<1>1. CASE GetPhyId
  BY <1>1 DEF GetPhyId, Begin, IdInv, ReadFits, ScanFits, At, phy
<1>2. CASE GotId1
  BY <1>2 DEF GotId1, Begin, IdInv, IInv, TypeOK, ReadFits, ScanFits, At, phy
<1>3. CASE GotId2
  BY <1>3 DEF GotId2, vars, IdInv, IInv, TypeOK, ReadFits, At, locals, phy
<1>4. CASE IdFails
  BY <1>4 DEF IdFails, vars, IdInv, ReadFits, ScanFits, At, phy
<1>5. CASE SetAddr
  BY <1>5 DEF SetAddr, Configure, ident, IdInv, ReadFits, ScanFits, At, locals, phy
<1>6. CASE Found
  BY <1>6 DEF Found, vars, Zero, IdInv, ReadFits, At, phy
<1>7. CASE Again \/ NextAddress \/ NotFound
  BY <1>7 DEF Again, NextAddress, NotFound, vars, IdInv, ReadFits, ScanFits, At, phy
<1>8. CASE ScanAsBm
  BY <1>8 DEF ScanAsBm, Configure, IdInv, ReadFits, ScanFits, At, locals, phy
<1>9. CASE Verified
  BY <1>9 DEF Verified, Configure, IdInv, ReadFits
<1> QED BY <1>1, <1>2, <1>3, <1>4, <1>5, <1>6, <1>7, <1>8, <1>9 DEF Identify

\* An id read without a failure is known exactly if a PHY answers there.
LEMMA TypeKnown ==
    ASSUME IdInv, reading = "look", ~missed
    PROVE  phy_type # "unknown" <=> Known(At)
BY DEF IdInv, ReadFits, phy_type, Known, HasId, PhyIds

\* What the scan has left behind has no PHY.
LEMMA FoundFitsStep == ASSUME IdInv, Identify PROVE FoundFits'
<1> SUFFICES ASSUME ~missed' PROVE
        /\ stage' = "igp" => \A a \in 0 .. scan' - 1 : ~Known(a)'
        /\ stage' = "bm" => \A a \in 0 .. E1000_MAX_PHY_ADDR - 1 : ~Known(a)'
        /\ stage' = "reread" => Known(At)'
  BY DEF FoundFits
<1>1. UNCHANGED mem
  BY DEF Identify, GetPhyId, GotId1, GotId2, IdFails, SetAddr, Found, Again, NextAddress,
     ScanAsBm, NotFound, Verified, Begin, Configure, vars, phy
<1>2. \A a : Known(a)' <=> Known(a)
  BY <1>1 DEF Known, HasId
<1>3. CASE GetPhyId \/ GotId1 \/ GotId2 \/ Again \/ SetAddr
  <2>1. UNCHANGED <<stage, scan, missed>>
    BY <1>3 DEF GetPhyId, GotId1, GotId2, Again, SetAddr, ident
  <2>2. stage = "reread" => At' = At
    BY <1>3 DEF GetPhyId, GotId1, GotId2, Again, SetAddr, Begin, At, vars, phy
  <2> QED BY <1>1, <1>2, <2>1, <2>2 DEF IdInv, FoundFits, Known, HasId
<1>4. CASE Found
  <2>1. Known(At)
    BY <1>4, TypeKnown DEF Found
  <2>2. At' = At /\ stage' = "reread"
    BY <1>4 DEF Found, At, vars
  <2> QED BY <1>1, <2>1, <2>2 DEF Known, HasId
<1>5. CASE NextAddress
  <2>1. ~Known(At) /\ (stage = "igp" => At = scan) /\ UNCHANGED stage /\ stage # "reread"
    BY <1>5, TypeKnown DEF NextAddress, IdInv, ScanFits, At
  <2> QED BY <1>2, <1>5, <2>1 DEF NextAddress, IdInv, FoundFits, ScanFits
<1>6. CASE ScanAsBm
  <2>1. ~Known(At) /\ At = scan
    BY <1>6, TypeKnown DEF ScanAsBm, IdInv, ScanFits, At
  <2> QED BY <1>2, <1>6, <2>1, IdentifyAssumption DEF ScanAsBm, IdInv, ScanFits, FoundFits
<1>7. CASE NotFound \/ Verified
  BY <1>7 DEF NotFound, Verified
<1>8. CASE IdFails
  BY <1>8 DEF IdFails
<1> QED BY <1>3, <1>4, <1>5, <1>6, <1>7, <1>8 DEF Identify

\* A board has one PHY: whatever is known anywhere is what was found.
LEMMA OneKind ==
    ASSUME IdInv, stage # "up", NEW a \in Addrs, NEW b \in Addrs, NEW x \in PhyIds, NEW y \in PhyIds,
           mem[<<a, 0, PHY_ID1>>] = x, mem[<<b, 0, PHY_ID1>>] = y
    PROVE  x = y /\ (a = 2 => x \in {"bm", "m88"})
BY BoardAssumption, AccessAssumption DEF IdInv, ScanFits

\* A known id was read at the address at hand.
LEMMA TypeIsRead ==
    ASSUME IdInv, stage = "reread", phy_type # "unknown"
    PROVE  phy_type \in PhyIds /\ HasId(At, phy_type)
BY DEF IdInv, ReadFits, phy_type, HasId, PhyIds

\* What is accepted has the routines of its kind.
LEMMA RightPhyStep == ASSUME IdInv, Identify PROVE RightPhy'
<1>1. CASE Verified /\ stage' = "up"
  <2>1. HasId(At, phy_type) /\ phy_type \in {"igp_3", "ife", "bm"} /\ At \in Addrs
    BY <1>1, TypeIsRead, AccessAssumption DEF Verified, At, IdInv, IInv, TypeOK
  <2>2. kind = "bm" => phy_type = "bm"
    BY <1>1, <2>1, OneKind, AccessAssumption DEF Verified, At, HasId, PhyIds
  <2>3. kind' = IF phy_type = "bm" THEN "bm" ELSE kind
    BY <1>1 DEF Verified, Configure
  <2>4. UNCHANGED <<mem, phy_addr, phy_id>>
    BY <1>1 DEF Verified, Configure, phy
  <2> QED BY <2>1, <2>2, <2>3, <2>4 DEF RightPhy, HasId, At, phy_type
<1>2. CASE ~(Verified /\ stage' = "up")
  BY <1>2 DEF Identify, GetPhyId, GotId1, GotId2, IdFails, SetAddr, Found, Again, NextAddress,
     ScanAsBm, NotFound, ident, RightPhy, IdInv, ScanFits
<1> QED BY <1>1, <1>2

\* Failing without a missed read means that there is no such PHY.
LEMMA FoundUnlessMissedStep == ASSUME IdInv, Identify PROVE FoundUnlessMissed'
<1>1. UNCHANGED mem
  BY DEF Identify, GetPhyId, GotId1, GotId2, IdFails, SetAddr, Found, Again, NextAddress,
     ScanAsBm, NotFound, Verified, Begin, Configure, vars, phy
<1>2. CASE NotFound /\ ~missed
  <2>1. ~Known(At) /\ ret_val = "success"
    BY <1>2, TypeKnown DEF NotFound, IdInv, ReadFits
  <2>2. stage = "bm"
    BY <1>2, <2>1 DEF NotFound, IdInv, FoundFits
  <2> QED BY <1>1, <1>2, <2>2 DEF IdInv, FoundFits, FoundUnlessMissed, Known, HasId, PhyIds
<1>3. CASE Verified /\ stage' = "failed"
  <2>1. HasId(At, "m88") /\ At \in Addrs
    BY <1>3, TypeIsRead, AccessAssumption DEF Verified, At, IdInv, IInv, TypeOK, PhyIds
  <2> SUFFICES ASSUME NEW a \in 0 .. E1000_MAX_PHY_ADDR - 1, NEW id \in {"igp_3", "ife", "bm"},
                      HasId(a, id)
               PROVE  FALSE
    BY <1>1 DEF FoundUnlessMissed, HasId
  <2>2. a \in Addrs /\ id \in PhyIds
    BY IdentifyAssumption DEF PhyIds
  <2>3. id = "m88"
    BY <1>3, <2>1, <2>2, OneKind DEF Verified, HasId, PhyIds
  <2> QED BY <2>3
<1>4. CASE ~(NotFound /\ ~missed) /\ ~(Verified /\ stage' = "failed")
  BY <1>1, <1>4 DEF Identify, GetPhyId, GotId1, GotId2, IdFails, SetAddr, Found, Again,
     NextAddress, ScanAsBm, NotFound, ident, FoundUnlessMissed, HasId, IdInv
<1> QED BY <1>2, <1>3, <1>4
-----------------------------------------------------------------------------
(* The theorems.                                                           *)

\* IdInv holds at power-up.
LEMMA IdInvInit == IdInit => IdInv
<1> SUFFICES ASSUME IdInit PROVE IdInv
  OBVIOUS
<1>1. IInv
  BY IInvInit DEF IdInit
<1>2. ScanFits
  <2>1. 0 \in 0 .. E1000_MAX_PHY_ADDR - 1
    BY IdentifyAssumption
  <2>2. kind = "igp" => mem \in PowerUp["igp"] /\ kind = stage
    BY DEF IdInit, Init
  <2>3. missed \in BOOLEAN /\ ~ignored
    BY DEF IdInit, Init
  <2>4. pc = "idle" /\ reading = "none" /\ scan = 0 /\ tries = 0
    BY DEF IdInit, Init
  <2>5. stage = "up" \/ (stage = "igp" /\ kind = "igp")
    BY DEF IdInit
  <2> QED BY <2>1, <2>2, <2>3, <2>4, <2>5 DEF ScanFits
<1>3. ReadFits /\ FoundFits /\ RightPhy /\ FoundUnlessMissed
  BY DEF IdInit, Zero, ReadFits, FoundFits, RightPhy, FoundUnlessMissed
<1> QED BY <1>1, <1>2, <1>3 DEF IdInv

\* Every step keeps IdInv.
LEMMA IdInvStep == IdInv /\ [IdNext]_allvars => IdInv'
<1> SUFFICES ASSUME IdInv, [IdNext]_allvars PROVE IdInv'
  OBVIOUS
<1>1. IInv'
  BY IdStepIsAccess, IInvStep DEF IdInv, IInv
<1>2. CASE stage = "up" /\ IdNext
  BY <1>1, <1>2, UpStep DEF IdInv
<1>3. CASE Identify
  BY <1>1, <1>3, ScanFitsStep, ReadFitsStep, FoundFitsStep, RightPhyStep, FoundUnlessMissedStep DEF IdInv
<1>4. CASE stage # "up" /\ (AccessStep \/ Firmware) /\ UNCHANGED ident
  BY <1>1, <1>4, ScanAccessStep DEF IdInv
<1>5. CASE UNCHANGED allvars
  BY <1>1, <1>5 DEF allvars, vars, ident, locals, phy, IdInv, ScanFits, ReadFits, FoundFits,
     RightPhy, FoundUnlessMissed, At, Known, HasId, phy_type
<1> QED BY <1>2, <1>3, <1>4, <1>5 DEF IdNext

\* The inductive invariant of the identification.
THEOREM IdInvCorrect == IdSpec => []IdInv
BY IdInvInit, IdInvStep, PTL DEF IdSpec

\* e1000_init_phy_params_ich8lan accepts a PHY only where it answers, with the routines of its kind.
THEOREM RightPhyCorrect == IdSpec => []RightPhy
<1>1. IdInv => RightPhy
  BY DEF IdInv
<1> QED BY <1>1, IdInvCorrect, PTL

\* It overlooks no PHY unless a read of an id fails.
THEOREM FoundUnlessMissedCorrect == IdSpec => []FoundUnlessMissed
<1>1. IdInv => FoundUnlessMissed
  BY DEF IdInv
<1> QED BY <1>1, IdInvCorrect, PTL

\* Every access of the identification and after it is one of PhyAccess, so that it reaches the
\* register asked for and behaves like a memory's.
THEOREM IdSpecIsAccess == IdSpec => Spec
<1>1. IdInit => Init
  BY DEF IdInit
<1>2. IdInv /\ [IdNext]_allvars => [Next]_vars
  BY IdStepIsAccess DEF IdInv, IInv
<1> QED BY <1>1, <1>2, IdInvCorrect, PTL DEF IdSpec, Spec

\* The identification, too, sees a memory.
THEOREM IdImplementsMemory == IdSpec => ImplementsMemory
BY IdSpecIsAccess, ImplementsMemoryCorrect, PTL
=============================================================================
