----------------------------- MODULE PhyAccess -----------------------------
(***************************************************************************)
(* One access to a PHY or Kumeran register, as the five families of PHYs   *)
(* do it.  The management bus (MDIC) reaches 32 registers of one address   *)
(* at a time; what is behind them is chosen by a page register in the PHY  *)
(* itself, which the firmware moves too.  An access is a row of bus cycles *)
(* between the acquire and the release of the PHY, and every cycle can     *)
(* fail; some failures end the access, others are ignored.                 *)
(***************************************************************************)
EXTENDS Naturals

CONSTANTS Addrs,      \* MDIO addresses
          Offsets,    \* kind of PHY -> the [bus, page, reg] its users ask for
          Locations,  \* the registers behind them: <<address, page, register>>
          Values,     \* their contents
          Written,    \* the values that are written
          PowerUp,    \* kind of PHY -> what they may contain at first
          ReadOnly,   \* offsets nobody writes
          Pages       \* address -> pages the firmware selects there

Kinds == {"m88", "igp", "bm", "bm2", "gg82563"}

MAX_PHY_MULTI_PAGE_REG == 15
GG82563_MIN_ALT_REG == 30
GG82563_PHY_PAGE_SELECT == 22
GG82563_PHY_PAGE_SELECT_ALT == 29
IGP01E1000_PHY_PAGE_SELECT == 31
BM_PHY_PAGE_SELECT == 22
BM_WUC_PAGE == 800
BM_WUC_ENABLE_PAGE == 769
BM_WUC_ENABLE_REG == 17
BM_WUC_ADDRESS_OPCODE == 17
BM_WUC_DATA_OPCODE == 18

\* Where the model keeps the Kumeran registers: no MDIO address, which has five bits.
KMRN == 32

\* The two registers of a BM that are modelled by their meaning, wuc and wuc_addr.
WucEnable == <<1, BM_WUC_ENABLE_PAGE, BM_WUC_ENABLE_REG>>
WucAddress == <<1, BM_WUC_PAGE, BM_WUC_ADDRESS_OPCODE>>

ASSUME AccessAssumption ==
    /\ {1, 2} \subseteq Addrs /\ Addrs \subseteq Nat /\ KMRN \notin Addrs
    /\ Offsets \in [Kinds -> SUBSET [bus : {"mdic", "kmrn"}, page : Nat, reg : Nat]]
    /\ Locations \subseteq Nat \X Nat \X Nat
    /\ WucEnable \notin Locations /\ WucAddress \notin Locations
    /\ Written \subseteq Values /\ "none" \in Values
    /\ PowerUp \in [Kinds -> SUBSET [Locations -> Values]]
    /\ Pages \in [Addrs -> SUBSET Nat]

VARIABLES
    kind,         \* hw->phy.ops.read_reg and write_reg
    phy_addr,     \* hw->phy.addr
    pc,           \* "idle", "acquire", the next bus cycle, "release"
    op,           \* the access: [bus, page, reg, read, val]
    ret_val,      \* "success" so far, or "error"
    data,         \* the caller's word, "none" as long as it is not read
    phy_reg,      \* the copy of 769_17 a wakeup access makes
    flag,         \* who has the PHY: "free", "driver", "firmware"
    page,         \* the page each address of the PHY has selected (external)
    mem,          \* contents of the registers (external)
    wuc,          \* bits of 769_17 that are set (external)
    wuc_addr,     \* the wakeup register opcode 0x11 has chosen (external)
    kmrnctrlsta,  \* the Kumeran register KMRNCTRLSTA names
    ignored       \* a cycle failed and the code went on (history)

locals == <<op, ret_val, data, phy_reg>>
phy == <<page, mem, wuc, wuc_addr, kmrnctrlsta>>
vars == <<kind, phy_addr, pc, locals, flag, phy, ignored>>

WucBits == {"enable", "host_wu"}
NoOp == [bus |-> "none", page |-> 0, reg |-> 0, read |-> TRUE, val |-> "none"]
-----------------------------------------------------------------------------
(* Which cycles an access is made of.                                      *)

\* e1000_get_phy_addr_for_bm_page
BmAddr(o) == IF o.page >= 768 \/ (o.page = 0 /\ o.reg \in {25, 31}) THEN 1 ELSE 2

\* offset > MAX_PHY_MULTI_PAGE_REG
Paged(o) == o.page > 0 \/ o.reg > MAX_PHY_MULTI_PAGE_REG

IsWakeup(o) == kind \in {"bm", "bm2"} /\ o.bus = "mdic" /\ o.page = BM_WUC_PAGE

\* The register the page is selected with.
page_select(o) ==
    CASE kind = "gg82563" -> IF o.reg < GG82563_MIN_ALT_REG THEN GG82563_PHY_PAGE_SELECT
                                                            ELSE GG82563_PHY_PAGE_SELECT_ALT
      [] kind = "bm2" \/ (kind = "bm" /\ phy_addr # 1) -> BM_PHY_PAGE_SELECT
      [] OTHER -> IGP01E1000_PHY_PAGE_SELECT

\* Mutant of the definition below: registers above 15 are taken for unpaged ones.
FirstCyclePagedOnly(o) ==
    CASE o.bus = "kmrn" -> IF o.read THEN "post" ELSE "put"
      [] IsWakeup(o) -> "page769"
      [] o.bus = "mdic" /\ kind = "gg82563" -> "select"
      [] o.bus = "mdic" /\ kind \in {"igp", "bm", "bm2"} /\ ~IsWakeup(o) ->
            IF o.page > 0 THEN "select" ELSE "data"
      [] OTHER -> "data"

\* The first cycle after the acquire.
FirstCycle(o) ==
    CASE o.bus = "kmrn" -> IF o.read THEN "post" ELSE "put"
      [] IsWakeup(o) -> "page769"
      [] o.bus = "mdic" /\ kind = "gg82563" -> "select"
      [] o.bus = "mdic" /\ kind \in {"igp", "bm", "bm2"} /\ ~IsWakeup(o) ->
            IF Paged(o) THEN "select" ELSE "data"
      [] OTHER -> "data"

\* What the access makes of hw->phy.addr.
AddrFor(o) ==
    CASE o.bus = "mdic" /\ IsWakeup(o) -> 1
      [] o.bus = "mdic" /\ kind = "bm2" /\ ~IsWakeup(o) -> 1
      [] o.bus = "mdic" /\ kind = "bm" /\ ~IsWakeup(o) -> BmAddr(o)
      [] OTHER -> phy_addr
-----------------------------------------------------------------------------
(* The PHY (external).                                                     *)

\* Registers that are the same whatever the page.
Flat(r) == kind = "m88" \/ (kind # "gg82563" /\ r <= MAX_PHY_MULTI_PAGE_REG)

\* Those that select a page: 31 at address 1 of a BM and 22 at its others; the two of a
\* GG82563, each for its own registers, are taken for one.
IsPageSelect(r) ==
    CASE kind = "gg82563" -> r \in {GG82563_PHY_PAGE_SELECT, GG82563_PHY_PAGE_SELECT_ALT}
      [] kind = "bm2" -> r \in {BM_PHY_PAGE_SELECT, IGP01E1000_PHY_PAGE_SELECT}
      [] kind = "bm" /\ phy_addr # 1 -> r = BM_PHY_PAGE_SELECT
      [] OTHER -> r = IGP01E1000_PHY_PAGE_SELECT

\* What a cycle on register r at the present address reaches.
Reached(r) ==
    CASE Flat(r) -> <<phy_addr, 0, r>>
      [] /\ kind \in {"bm", "bm2"} /\ page[phy_addr] = BM_WUC_PAGE
         /\ r = BM_WUC_DATA_OPCODE /\ "enable" \in wuc -> <<phy_addr, BM_WUC_PAGE, wuc_addr>>
      [] OTHER -> <<phy_addr, page[phy_addr], r>>

\* A word is written there: bits, r and v are what it means to the three kinds of register.
Put(place, bits, r, v) ==
    /\ wuc' = IF place = WucEnable THEN bits ELSE wuc
    /\ wuc_addr' = IF place = WucAddress THEN r ELSE wuc_addr
    /\ mem' = IF place \in Locations THEN [mem EXCEPT ![place] = v] ELSE mem
    /\ UNCHANGED <<page, kmrnctrlsta>>

\* What a read of the place returns.
ReadFrom(place) == IF place \in Locations THEN {mem[place]} ELSE Values

\* The register an access is about.
Wanted(o) ==
    CASE o.bus = "kmrn" -> <<KMRN, 0, o.reg>>
      [] o.bus # "kmrn" /\ Flat(o.reg) /\ ~IsWakeup(o) -> <<AddrFor(o), 0, o.reg>>
      [] OTHER -> <<AddrFor(o), o.page, o.reg>>
-----------------------------------------------------------------------------
Init ==
    /\ kind \in Kinds
    /\ phy_addr = 1
    /\ pc = "idle"
    /\ op = NoOp
    /\ ret_val = "error"
    /\ data = "none"
    /\ phy_reg = {}
    /\ flag = "free"
    /\ page = [a \in Addrs |-> 0]
    /\ mem \in PowerUp[kind]
    /\ wuc \in SUBSET {"host_wu"}
    /\ wuc_addr = 0
    /\ kmrnctrlsta = 0
    /\ ignored = FALSE

\* e1000_init_phy_params assigns hw->phy.ops and hw->phy.addr.
Configure(k, a) ==
    /\ pc = "idle"
    /\ kind' = k
    /\ phy_addr' = a
    /\ UNCHANGED <<pc, locals, flag, phy, ignored>>

\* phy->ops.read_reg, phy->ops.write_reg, e1000_read_kmrn_reg, e1000_write_kmrn_reg
Begin(o) ==
    /\ pc = "idle"
    /\ op' = o
    /\ ret_val' = "success"
    /\ data' = "none"
    /\ pc' = "acquire"
    /\ UNCHANGED <<kind, phy_addr, phy_reg, flag, phy, ignored>>

\* hw->phy.ops.acquire.  Its timeout writes the flag back as it does not have it.
Acquire ==
    /\ pc = "acquire"
    /\ flag = "free"
    /\ flag' = "driver"
    /\ phy_addr' = AddrFor(op)
    /\ pc' = FirstCycle(op)
    /\ UNCHANGED <<kind, locals, phy, ignored>>

AcquireTimeout ==
    /\ pc = "acquire"
    /\ flag = "firmware"
    /\ pc' = "idle"
    /\ op' = NoOp
    /\ ret_val' = "error"
    /\ UNCHANGED <<kind, phy_addr, data, phy_reg, flag, phy, ignored>>

\* Every cycle that fails goes here, unless its result is not looked at.
Release ==
    /\ pc = "release"
    /\ flag' = "free"
    /\ pc' = "idle"
    /\ op' = NoOp
    /\ phy_reg' = {}
    /\ UNCHANGED <<kind, phy_addr, ret_val, data, phy, ignored>>

\* The cycle at hand is done, or failed.
Goto(next) == pc' = next /\ UNCHANGED ret_val
Fail == pc' = "release" /\ ret_val' = "error"
-----------------------------------------------------------------------------
(* Page selects.  A failed one may still have reached the PHY.             *)

AfterSelect == IF kind = "gg82563" THEN "verify" ELSE "data"

Selected(r, p) == page' = IF IsPageSelect(r) THEN [page EXCEPT ![phy_addr] = p] ELSE page

Select ==
    /\ pc = "select"
    /\ Selected(page_select(op), op.page)
    /\ Goto(AfterSelect)
    /\ UNCHANGED <<kind, phy_addr, op, data, phy_reg, flag, mem, wuc, wuc_addr, kmrnctrlsta, ignored>>

\* Mutant of the step below: the return in between forgets the release.
SelectFailsKeeps ==
    /\ pc = "select"
    /\ ret_val' = "error"
    /\ pc' = "idle"
    /\ op' = NoOp
    /\ UNCHANGED <<kind, phy_addr, data, phy_reg, flag, phy, ignored>>

SelectFails ==
    /\ pc = "select"
    /\ Selected(page_select(op), op.page) \/ UNCHANGED page
    /\ Fail
    /\ UNCHANGED <<kind, phy_addr, op, data, phy_reg, flag, mem, wuc, wuc_addr, kmrnctrlsta, ignored>>

\* GG82563: "the ready bit may be incorrectly set" before the select has happened.
SelectEarly ==
    /\ pc = "select"
    /\ kind = "gg82563"
    /\ Goto("verify")
    /\ UNCHANGED <<kind, phy_addr, op, data, phy_reg, flag, phy, ignored>>

\* Mutant of Verify, below: the page that was read back is not compared.
VerifyNothing ==
    /\ pc = "verify"
    /\ Goto("data")
    /\ UNCHANGED <<kind, phy_addr, op, data, phy_reg, flag, phy, ignored>>

\* The page register is read back; temp is the page itself if the read fails.
Verify ==
    /\ pc = "verify"
    /\ IF page[phy_addr] = op.page THEN Goto("data") ELSE Fail
    /\ UNCHANGED <<kind, phy_addr, op, data, phy_reg, flag, phy, ignored>>

VerifyFails ==
    /\ pc = "verify"
    /\ Goto("data")
    /\ ignored' = TRUE
    /\ UNCHANGED <<kind, phy_addr, op, data, phy_reg, flag, phy>>

\* The page selects of a wakeup access; nobody looks at their results.
WakeupPage(here, p, next) ==
    /\ pc = here
    /\ \/ Selected(IGP01E1000_PHY_PAGE_SELECT, p) /\ UNCHANGED ignored
       \/ (Selected(IGP01E1000_PHY_PAGE_SELECT, p) \/ UNCHANGED page) /\ ignored' = TRUE
    /\ Goto(next)
    /\ UNCHANGED <<kind, phy_addr, op, data, phy_reg, flag, mem, wuc, wuc_addr, kmrnctrlsta>>

Page769 == WakeupPage("page769", BM_WUC_ENABLE_PAGE, "get")
Page800 == WakeupPage("page800", BM_WUC_PAGE, "address")
Back769 == WakeupPage("back769", BM_WUC_ENABLE_PAGE, "restore")
-----------------------------------------------------------------------------
(* The other cycles.                                                       *)

\* 769_17 is read, and bit 4 cleared in the copy.
WucGet ==
    /\ pc = "get"
    /\ \E bits \in SUBSET WucBits :
          /\ Reached(BM_WUC_ENABLE_REG) = WucEnable => bits = wuc
          /\ phy_reg' = bits \ {"host_wu"}
    /\ Goto("clear")
    /\ UNCHANGED <<kind, phy_addr, op, data, flag, phy, ignored>>

WucGetFails ==
    /\ pc = "get"
    /\ Fail
    /\ UNCHANGED <<kind, phy_addr, op, data, phy_reg, flag, phy, ignored>>

\* A write, done or failed; a failed one may have been done.
WriteCycle(here, r, words, next) ==
    /\ pc = here
    /\ \E w \in words :
          \/ Put(Reached(r), w.bits, w.reg, w.val) /\ Goto(next)
          \/ Put(Reached(r), w.bits, w.reg, w.val) /\ Fail
    /\ UNCHANGED <<kind, phy_addr, op, data, phy_reg, flag, ignored>>

WriteLost(here) ==
    /\ pc = here
    /\ Fail
    /\ UNCHANGED <<kind, phy_addr, op, data, phy_reg, flag, phy, ignored>>

Bits(b) == [bits : {b}, reg : {0}, val : Written]

WucClear == WriteCycle("clear", BM_WUC_ENABLE_REG, Bits(phy_reg), "enable")
WucSet == WriteCycle("enable", BM_WUC_ENABLE_REG, Bits(phy_reg \cup {"enable"}), "page800")
WucRestore == WriteCycle("restore", BM_WUC_ENABLE_REG, Bits(phy_reg), "release")

\* The word is the whole offset, of which the PHY takes the register.
WucChoose ==
    WriteCycle("address", BM_WUC_ADDRESS_OPCODE,
               [bits : SUBSET WucBits, reg : {op.reg}, val : Written], "data")

DataReg == IF IsWakeup(op) THEN BM_WUC_DATA_OPCODE ELSE op.reg
AfterData == IF IsWakeup(op) THEN "back769" ELSE "release"

DataWrite ==
    /\ ~op.read
    /\ WriteCycle("data", DataReg, [bits : SUBSET WucBits, reg : {0}, val : {op.val}], AfterData)

DataRead ==
    /\ pc = "data"
    /\ op.read
    /\ data' \in ReadFrom(Reached(DataReg))
    /\ Goto(AfterData)
    /\ UNCHANGED <<kind, phy_addr, op, phy_reg, flag, phy, ignored>>

CycleLost == \E here \in {"clear", "enable", "restore", "address", "data"} : WriteLost(here)

\* Kumeran: reading names the register first, a write carries its data along.
KmrnPost ==
    /\ pc = "post"
    /\ kmrnctrlsta' = op.reg
    /\ Goto("take")
    /\ UNCHANGED <<kind, phy_addr, op, data, phy_reg, flag, page, mem, wuc, wuc_addr, ignored>>

KmrnTake ==
    /\ pc = "take"
    /\ data' \in ReadFrom(<<KMRN, 0, kmrnctrlsta>>)
    /\ Goto("release")
    /\ UNCHANGED <<kind, phy_addr, op, phy_reg, flag, phy, ignored>>

KmrnPut ==
    /\ pc = "put"
    /\ kmrnctrlsta' = op.reg
    /\ mem' = [mem EXCEPT ![Wanted(op)] = op.val]
    /\ Goto("release")
    /\ UNCHANGED <<kind, phy_addr, op, data, phy_reg, flag, page, wuc, wuc_addr, ignored>>
-----------------------------------------------------------------------------
(* The firmware (external) selects pages for accesses of its own.          *)

FirmwareTakes ==
    /\ flag = "free"
    /\ flag' = "firmware"
    /\ UNCHANGED <<kind, phy_addr, pc, locals, phy, ignored>>

FirmwareSelects(a, p) ==
    /\ flag = "firmware"
    /\ page' = [page EXCEPT ![a] = p]
    /\ UNCHANGED <<kind, phy_addr, pc, locals, flag, mem, wuc, wuc_addr, kmrnctrlsta, ignored>>

FirmwareKumeran ==
    /\ flag = "firmware"
    /\ \E l \in {m \in Locations : m[1] = KMRN} : kmrnctrlsta' = l[3]
    /\ UNCHANGED <<kind, phy_addr, pc, locals, flag, page, mem, wuc, wuc_addr, ignored>>

FirmwareGives ==
    /\ flag = "firmware"
    /\ flag' = "free"
    /\ UNCHANGED <<kind, phy_addr, pc, locals, phy, ignored>>

Firmware ==
    \/ FirmwareTakes
    \/ \E a \in Addrs : \E p \in Pages[a] : FirmwareSelects(a, p)
    \/ FirmwareKumeran
    \/ FirmwareGives
-----------------------------------------------------------------------------
Ops(k) ==
    {[bus |-> o.bus, page |-> o.page, reg |-> o.reg, read |-> FALSE, val |-> v] :
        o \in Offsets[k] \ ReadOnly, v \in Written}
    \cup {[bus |-> o.bus, page |-> o.page, reg |-> o.reg, read |-> TRUE, val |-> NoOp.val] :
        o \in Offsets[k]}

Call ==
    \/ \E k \in Kinds, a \in Addrs : Configure(k, a)
    \/ \E o \in Ops(kind) : Begin(o)

Lock == Acquire \/ AcquireTimeout \/ Release
PageCycle == Select \/ SelectFails \/ SelectEarly \/ Verify \/ VerifyFails
WakeupPages == Page769 \/ Page800 \/ Back769
WakeupEnable == WucGet \/ WucGetFails \/ WucClear \/ WucSet \/ WucRestore \/ WucChoose
DataCycle == DataRead \/ DataWrite \/ CycleLost
Kumeran == KmrnPost \/ KmrnTake \/ KmrnPut

AccessStep == Lock \/ PageCycle \/ WakeupPages \/ WakeupEnable \/ DataCycle \/ Kumeran

Next == Call \/ AccessStep \/ Firmware

Spec == Init /\ [][Next]_vars
-----------------------------------------------------------------------------
(* Properties.                                                             *)

Cycles == {"select", "verify", "data", "page769", "get", "clear", "enable", "page800",
           "address", "back769", "restore", "post", "take", "put"}
WakeupCycles == {"page769", "get", "clear", "enable", "page800", "address", "back769", "restore"}

TypeOK ==
    /\ kind \in Kinds
    /\ phy_addr \in Addrs
    /\ pc \in {"idle", "acquire", "release"} \cup Cycles
    /\ IF pc = "idle" THEN op = NoOp ELSE op \in Ops(kind)
    /\ ret_val \in {"success", "error"}
    /\ data \in Values
    /\ phy_reg \in SUBSET WucBits
    /\ flag \in {"free", "driver", "firmware"}
    /\ page \in [Addrs -> Nat]
    /\ mem \in [Locations -> Values]
    /\ wuc \in SUBSET WucBits
    /\ wuc_addr \in Nat
    /\ kmrnctrlsta \in Nat
    /\ ignored \in BOOLEAN

\* The PHY is the driver's from the first cycle of an access to its release, and never between
\* accesses: no exit of the read and write routines keeps it, none gives it back twice.
HeldForTheAccess == flag = "driver" <=> pc \in Cycles \cup {"release"}

\* The data cycle of an access reaches the register the caller asked for, at the address, on the
\* page and behind the wakeup opcode it lives at, whatever page the firmware or an access that
\* failed halfway left behind, as long as no failed cycle was ignored.
RightRegister ==
    pc = "data" /\ ~ignored => Reached(DataReg) = Wanted(op)

\* Which cycles are for which access, at the address chosen for it.
CycleFits ==
    /\ pc \notin {"idle", "acquire"} => phy_addr = AddrFor(op)
    /\ pc \in WakeupCycles => IsWakeup(op)
    /\ pc \in {"select", "verify", "data"} => op.bus = "mdic"
    /\ pc \in {"select", "verify"} => ~IsWakeup(op) /\ kind # "m88"
    /\ pc = "verify" => kind = "gg82563"
    /\ pc \in {"post", "take", "put"} => op.bus = "kmrn" /\ (op.read <=> pc # "put")
    /\ pc = "take" => kmrnctrlsta = op.reg

\* What a wakeup access has made of the page, of 769_17 and of the opcode's address.
WakeupFits ==
    ~ignored /\ IsWakeup(op) =>
        /\ pc \in {"get", "clear", "enable", "page800", "restore"} => page[1] = BM_WUC_ENABLE_PAGE
        /\ pc \in {"address", "data"} => page[1] = BM_WUC_PAGE
        /\ pc = "data" => wuc_addr = op.reg
        /\ pc = "enable" => wuc = phy_reg
        /\ pc \in {"page800", "address", "data"} => wuc = phy_reg \cup {"enable"}

\* An access that will return success has been done.
DoneFits ==
    ~ignored /\ Wanted(op) \in Locations
    /\ (pc \in {"back769", "restore"} \/ (pc = "release" /\ ret_val = "success")) =>
        IF op.read THEN data = mem[Wanted(op)] ELSE mem[Wanted(op)] = op.val

\* The inductive invariant.
IInv ==
    TypeOK /\ HeldForTheAccess /\ CycleFits /\ WakeupFits /\ RightRegister /\ DoneFits

\* The accesses are those of a memory, for as long as no error is ignored.
Memory == INSTANCE PhyRegisters WITH
    file <- mem,
    busy <- pc # "idle",
    call <- IF pc = "idle" THEN NoOp ELSE [read |-> op.read, at |-> Wanted(op), val |-> op.val],
    ok <- pc = "idle" /\ ret_val = "success",
    reliable <- ~ignored

ImplementsMemory == Memory!Spec
=============================================================================
