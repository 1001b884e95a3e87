# Verification of the Intel 82566MM driver for Mac OS X

TLA+ models, TLC runs and TLAPS proofs of the driver in `src/`: an IOKit
ethernet driver (`Intel82566MM.cpp`) on top of Intel's e1000e hardware library
(`e1000_*.c`).  All line numbers are those of `src/`.  `PROJECT.json` maps
every definition to the lines it stands for.

## 1. The system

### Parts

| part | state | operations |
| --- | --- | --- |
| transmit ring (`Intel82566MM.cpp`) | `tx_ring`: 256 descriptors, `buffer_info` (`skb`, `next_to_watch`), `next_to_use`, `next_to_clean`; TDH, TDT, TCTL.EN | `outputPacket`, `e1000_clean_tx_irq`, `e1000_configure_tx`, `e1000_clean_tx_ring` |
| receive ring (`Intel82566MM.cpp`) | `rx_ring`, the same fields; RDH, RDT, RCTL.EN | `e1000_alloc_rx_buffers`, `e1000_clean_rx_irq`, `e1000_configure_rx`, `e1000_clean_rx_ring` |
| interrupts, watchdog, enable, disable (`Intel82566MM.cpp`) | `enabledForNetif`, `interruptEnabled`, `interruptReason`, `preLinkStatus`, `get_link_status`, ICR, IMS | `enable`, `disable`, `interruptFilter`, `interruptOccurred`, `timeoutOccurred`, `selectMedium` |
| driver object (`Intel82566MM.cpp`) | work loop, event sources, PCI mapping, cursors | `init`, `start`, `stop`, `free` |
| address filter (`Intel82566MM.cpp`, `e1000_mac.c`) | receive address registers, multicast table, `mc_addr_list` | `setMulticastList`, `set_multi`, `update_mc_addr_list`, `init_rx_addrs` |
| flow control (`e1000_mac.c`, `e1000_phy.c`, `e1000_ich8lan.c`) | `fc.type`, `fc.original_type`, the PHY's advertisement, CTRL.TFCE/RFCE, FCRTL/FCRTH | `setup_link`, `phy_setup_autoneg`, `check_for_copper_link`, `config_fc_after_link_up`, `force_mac_fc` |
| ICH8 NVM (`e1000_ich8lan.c`, `e1000_nvm.c`) | two flash banks, the shadow RAM, SEC1VAL, SWFLAG | read, write, update (erase, copy, validate, invalidate), bank detection |
| ICH8 MAC and PHY (`e1000_ich8lan.c`) | PHY_CTRL, KMRNCTRLSTA, `dev_spec` flags, `hw->phy` | reset, PHY identification, link setup, LPLU, Kumeran, gigabit and power-down workarounds |
| PHY layer (`e1000_phy.c`, `e1000_82571.c`, `e1000_80003es2lan.c`) | MDIC, the PHY's page register and 769_17, its control registers | register access of five families, identification, setup, forcing, auto-negotiation, reset, power, link polling |
| software/firmware semaphore (`e1000_80003es2lan.c`, `e1000_mac.c`) | SWSM.SMBI, SWSM.SWESMBI, SW_FW_SYNC | acquire and release of EEPROM, PHYs and Kumeran registers |
| generic MAC, EEPROM, management (`e1000_mac.c`, `e1000_nvm.c`, `e1000_manage.c`) | registers | library routines, in part for other adapters |

### How they interact

*Calls.*  The network family calls `outputPacket` through an
IOGatedOutputQueue, and `enable`, `disable`, `selectMedium` and
`setMulticastList` through the command gate.  The interrupt source and the
watchdog's timer are event sources of the same work loop.  All of these exclude
one another: a module calls whoever is running the holder of the **gate**.
`IOSleep` inside `disable` keeps the gate.

*Interrupts.*  `interruptFilter` runs at interrupt level, beside whoever holds
the gate.  It reads ICR, which clears the causes, into `interruptReason`; the
handler (`interruptOccurred`) runs later, behind the gate.  Between the two the
vector is off: IOKit disables a level-triggered vector until the handler has
returned, so filter and handler alternate.

*Hardware.*  The DMA engines move the rings' heads, set DD bits and raise causes
at any time between enabling and disabling; the PHY gains and loses link at any
time; power fails at any time.

### What is hard

Head and tail move under the driver's feet; `outputPacket` writes the tail
before it attaches the mbuf; `disable` sleeps with interrupts on; link state is
remembered in four places (PHY, `get_link_status`, `preLinkStatus`, the stack);
an NVM update must survive a power failure between any two flash cycles; flow
control is negotiated in steps with a partner who may be unplugged in between;
two ports and a firmware share one register; a PHY register is reached through a
page that somebody else may have selected, and every bus cycle can fail, some of
them unnoticed; a setup that was cut short is the state the next one starts from.
`PROJECT.json` lists 40 such hazards with the properties that would catch each.

### What makes each part correct

- rings: the adapter touches only memory the driver owns; every packet comes
  back exactly once and in order; the three indices never pass each other.
- control: interrupts are on only where they can be handled; no link change is
  lost; the stack learns of each; the line is deasserted.
- flow control: both ends act on the same resolution.
- NVM: there is always a whole valid bank, commits are durable, reads return
  what was written, whatever fails in an update.
- semaphore: a resource has one owner, and nothing stays taken.
- PHY access: the registers behave like a memory, whatever page is selected.
- PHY identification: what is accepted answers there, with the routines of its
  kind, and nothing supported is overlooked.
- PHY setup: a call that reports success has done all of it, on both ends.

## 2. The modules

| module | what it is |
| --- | --- |
| `RingIndex` | index arithmetic of the rings, wrap-around as in the code |
| `TxRing` / `TxQueue` / `TxRingRefinement` | the transmit ring; what it promises (a queue); the mapping between the two |
| `RxRing` / `RxQueue` / `RxRingRefinement` | the same for the receive ring |
| `LinkControl` | enable, disable, filter, handler, watchdog, selectMedium |
| `FlowControl` | setup, advertisement, resolution and forcing of PAUSE frames |
| `NvmIch8` | reads, writes and updates of the two-bank flash |
| `SwFwSync` / `ResourceLocks` | the semaphore protocol; what it promises (atomic locks) |
| `PhyAccess` / `PhyRegisters` | one register access, bus cycle by bus cycle; what it promises (a memory) |
| `PhyIdentify` | how an ICH8 finds its PHY, by accesses of `PhyAccess` |
| `PhySetup` | link setup, forcing, LPLU, resets, power and Kumeran of seven adapters |
| `PhyGoals` | what each call of `PhySetup` is to achieve, and its inductive invariant |
| `MC...` | TLC instances: symmetry sets, values of constants |
| `..._proofs` | theorems, one module per component; `Phy_proofs` is about `PhyAccess` and `PhyIdentify`, and the facts about the arithmetic of `RingIndex` are with the two rings |

In every module a handler is one action where nothing can come in between, and
several where the hardware, the filter, the cable or another agent can; the
comment at the head of the module says where it is cut and why.  A definition
called a *mutant* is a plausible bug in the definition after it; no
specification uses it, and `PROJECT.json` says which property it breaks.

**TxRing.**  `OutputDescriptors` is `outputPacket` up to the write of TDT,
`OutputAttach` the rest of it (the mbuf and `next_to_watch`), so that the
adapter can finish the packet in between.  `CleanBegin`, `CleanPacket` and
`CleanEnd` are `e1000_clean_tx_irq`, one turn of its loop each.  `HwTransmit`
(external) sends the descriptor at the head and sets DD if RS asks for it.
`outputPacket` never asks whether there is room, so the ghost `overrun` records
that a packet took more than `e1000_desc_unused` grants, and the model goes on
from there; the ring's properties are about loads that do not do that, the run
`TxRingSpace` about one that does.  `disable` zeroes `buffer_info` without
freeing anything: the ghost `abandoned` keeps the mbufs lost this way.

**RxRing.**  One turn of the loop of `e1000_clean_rx_irq` is one step, for a
damaged frame (`CleanBad`), a good one replaced by a fresh mbuf (`CleanGood`),
a good one whose replacement cannot be allocated or has no physical segment
(`CleanUnmapped`) and a slot without buffer (`CleanNull`); each but the last ends in
`Recycle`, which gives a slot back and writes RDT.  The code looks at neither failure
(`:1451`, `:1453`): the address then is whatever a vector on the stack holds
(`Garbage`).  `Enable(got,
fresh)` is `e1000_alloc_rx_buffers`, which stops at the first of these failures.  Of
the ghosts, `unmapped` has the slots whose own buffer or address failed, which
`DmaIntoOwned` leaves out, and `bufferFailed` records that there ever was one: from
then on `RxQueue` promises nothing of what is delivered.

**LinkControl.**  `EnableBegin` / `EnableProbe` / `EnableFinish` and
`DisableBegin` / `DisableUnflag` / `DisableFinish` are the two calls, cut where
the filter or the cable can make a difference.  The rings are one boolean here.

**FlowControl.**  `SetUp(t)` is `setup_link` where flow control `t` is asked for:
`original_type` becomes `t`, the PHY advertises it, negotiation starts over and the
thresholds are written.  `SetUpFails` is one that ends at a failing access,
`SetUpBlocked` one the firmware does not let begin; no caller looks.  `Reset` is
`e1000_reset`: the MAC is reset, `type` restored and `setup_link` called.  `Enable`,
`EnableSetUpFails` and `EnableBlocked` are `enable`, which calls `setup_link`
without restoring `type` (`Intel82566MM.cpp:615`), so that the last resolution is what
the next partner is asked for; it keeps the gate (`gate = "enabling"`) while it polls
for the link, and ends with a `selectMedium`, whose four actions the family can also
cause at any time.  `CheckLink`, `ForceAsked`, `ReadStatus`,
`Resolve`, `Finish` are `e1000_check_for_copper_link_generic` and
`e1000_config_fc_after_link_up_generic`, one step per access to the PHY;
`ConfigFails` is any of their error returns, which the callers ignore.
`PhyReset` is the Kumeran lock-loss workaround, which resets the PHY inside
`get_link_up_info`.  `LinkLost` and `LinkUp` (external) move the cable.

**NvmIch8.**  A word is the set of its bits that are 1; erasing sets them,
programming clears some.  Of each word one low bit is kept, of the signature word
bits 15 and 14 too; the content of a bank is the set of words whose low bit is 1.
The shadow RAM is `modified` and, of these, `value`.  `UpdateBegin` .. `Invalidate` follow
`e1000_update_nvm_checksum_ich8lan` one flash cycle at a time, each of which can
fail; `PowerCycle` can come between any two.  The sum is read word by word before that,
on ICH10 perhaps from different banks (`NewSums`); `NotAcquired` and
`UpdateNotAcquired` are calls that do not get the software flag.  Both kinds of adapters are
modelled: ICH8 (the bank is in EECD.SEC1VAL) and ICH10 (found by signature).  `UpdateNoBank` is an ICH10 that finds its bank while it sums and not
when it is to copy.  The ghost `ignored` records a failed cycle whose result the code does not look
at; the ghosts `intended` and `written` what a bank and a read should hold.

**SwFwSync.**  Every access to SWSM and SW_FW_SYNC that another agent can write
is a step: `GetSmbi`, `GetSwesmbi`, `ReadSync`, `WriteSync`, `Put...`, and the
ways to give up.  The firmware (external) keeps to the same rules.  The
retry counters are abstracted: a try may be the last one at any time.

**PhyAccess.**  `Begin(o)` is a call of `read_reg`, `write_reg` or their Kumeran
siblings; `FirstCycle`, `page_select` and `AddrFor` are what the five families
(`m88`, `igp`, `bm`, `bm2`, `gg82563`) make of the offset.  Then every access to
the bus is a step: `Select` and its failures, the read-back of a GG82563
(`Verify`), the seven cycles of a wakeup access (`Page769`, `WucGet`, `WucClear`,
`WucSet`, `Page800`, `WucChoose`, then the data cycle, `Back769`, `WucRestore`),
`DataRead`, `DataWrite`, the Kumeran cycles.  A cycle that fails may have been
done or not.  The ghost `ignored` records one whose result the code does not
look at.  `Reached` (external) is the PHY: what a cycle hits on the page that is
selected.  The firmware takes the same flag and leaves the page anywhere.

**PhyIdentify.**  Extends PhyAccess: `GetPhyId`, `GotId1`, `GotId2`, `IdFails` are
`e1000_get_phy_id`, cut where it calls `read_reg`; `SetAddr`, `Found`, `Again`,
`NextAddress` the loop of `e1000_determine_phy_address`; `ScanAsBm`, `NotFound`
and `Verified` their caller.  The ghost `missed` records a failed read of an id.

**PhySetup.**  A register is the set of its bits that are 1, of those that matter.
A call (`setup`, `d0_on`, `kmrn_half`, `phy_down`, ...) is the row of steps its
routine makes, computed by `Routine` from the adapter and from what is asked for:
`Edit` reads, changes and writes a register, `Commit` resets the PHY with it,
`Mac` writes a register of the MAC, `Perhaps(n)` reads something that decides
about the next `n` steps, `Ignoring` marks a routine whose result is not looked
at.  `DoStep` does one step or fails in it; a strict failure ends the call with an
error and leaves what was done.  The history variable `diag_failed` says whether the
last access to the register of the gigabit workaround's loopback failed.  Register accesses are atomic here: that they may
be taken so is what `ImplementsMemory` says.

## 3. The runs

| run | what it shows | instance |
| --- | --- | --- |
| `TxRing` | the ring is a first-in first-out queue (`ImplementsQueue`), the adapter reads only mbufs not freed yet (`HwReadsHeld`), none is lost (`NothingLost`), all that was sent is freed (`EverySentReclaimed`); `IInv` has in it that DD bits of earlier laps do no harm | 4 slots, 3 packets of 1 or 2 segments; 127,872 states |
| `RxRing` | whatever buffers cannot be had or mapped, DMA goes into the mbuf of its slot, which is the driver's (`DmaIntoOwned`), indices, tail and DD bits stay in step (`IInv`), every frame is taken (`EveryFrameTaken`) and the adapter is not starved (`NotStarved`); before the first such failure frames reach the stack unchanged, once and in order (`ImplementsQueue`) | 4 slots, 5 mbufs, 1 kind of frame and damaged ones, 1 slot at a time without buffer or address; 516,972 states |
| `LinkControl` | interrupts are on only where they can be handled (`IInv`), link loss is not forgotten, the stack learns of link changes, the line is served | all; 10,976 states |
| `FlowControl` | driver and partner agree whenever the driver is at rest (`EndsAgree`), on all they can of what `original_type` has become (`DesiredOnReplug`), with thresholds to match (`IInv`), and come to rest (`PartnerServed`) | all partners and duplexes; 777,940 states |
| `NvmIch8` | an update survives power failures and failing cycles | 3 words per bank, 1 sector, 2 erase tries, both adapters; 3.1 million states |
| `SwFwSync` | the protocol implements atomic locks, and a release ends | 2 ports, firmware, 4 resources; 2,454 states |
| `PhyIdentify` | every access reaches the register asked for (`RightRegister`) and is one to a memory (`ImplementsMemory`); the PHY is found where it is (`FoundUnlessMissed`) and gets its routines (`RightPhy`) | 5 families, 5 boards, 3 addresses, 2 tries; 442,848 states |
| `PhySetup` | a setup, LPLU, workaround or Kumeran call that reports success has left PHY and MAC as asked (`CrossoverAsAsked`, `LpluAsAsked`) and in agreement (`BothEndsAgree`, `KumeranAgrees`), whatever was cut short before; no call leaves the loopback on unless the last access to it failed (`LoopbackUndone`) | 7 adapters, 2 or 3 configurations each; 1.3 million states |

Runs whose property the code violates, each against a sentence of the source:

| run | sentence | what happens |
| --- | --- | --- |
| `TxRingSpace` | "Make sure there is space in the ring for the next send." (`Intel82566MM.cpp:848`) | the check is commented out: enough packets between two interrupts overrun the ring |
| `LinkControlHandler` | "before we allocate an interrupt, we must be ready to handle it" (`Intel82566MM.cpp:623`) | an interrupt accepted while `disable` sleeps is handled after the rings are freed |
| `LinkControlTransmit` | "enable transmits in the hardware" (`Intel82566MM.cpp:1795`) | `preLinkStatus` survives disable and enable: TCTL.EN can stay clear while there is link |
| `NvmIch8Sectors` | "Erases the bank specified." (`e1000_ich8lan.c:1774`) | `j * sector_size` is added to an address that has the sectors before in it: with several sectors per bank, as with those of 256 bytes, a sector of the other, valid bank is erased |

### Bounds, and why they are enough

- Rings: four slots and packets of up to two segments wrap the ring in every
  alignment, fill it, and keep two packets on it at once; three packets are one
  more than fits.  For the receive ring two slots always stay with the driver,
  so four is the smallest ring on which head and tail move apart by two; five
  mbufs leave one for the stack.  One slot at a time may be without buffer or address
  (`MaxUnmapped`), but any, one after the other; the address it then has is that of
  one mbuf, which may be anybody's.  The proofs cover every size and any number.
- NVM: one sector per bank of three words (signature, checksum, data); the proofs
  cover banks of any size with one sector, or two where no erase fails.  With more the
  erase loop is wrong: the run `NvmIch8Sectors` has three of two words, no failures.  Two tries of an erase stand for
  ten: a try differs from the next only in the counter.
- PhyIdentify: address 0, which nothing answers, 1 and 2 (the two addresses of a
  BM); the registers are one of each sort a family tells apart (plain, paged,
  above 15, wakeup, the GG82563's alternate page select).  Two tries and two
  re-readings stand for 10 and 100.  Three kinds of boards have one PHY at one
  address, one has a BM at both, one has none.  `CONSTRAINT Explored`: nothing is
  explored after an access that ignored an error, as nothing is promised then.
- PhySetup: an adapter for each way the setup branches; the two or
  three configurations of each differ in the choices its routines make, so that
  one is made after another; a choice that one adapter's leave out is among those
  of another adapter that shares the routine, except SmartSpeed off
  on the 82571.  Two turns of the lock-loss workaround stand for ten.
- LinkControl, FlowControl and SwFwSync are finite as they stand; TLC visits all
  of their states.  Ports and masks of SwFwSync are those of the adapter.
- `CHECK_DEADLOCK FALSE` only where a panic (a NULL ring, an mbuf that is not
  there) ends the machine: `RxRing`, `LinkControl` and its violation runs.

### Fairness

Weak fairness of whoever holds the gate (code that runs goes on running), of the
filter while the line is asserted, of the handler once the source is signalled, of
the watchdog while it is armed, of the DMA engine while it is enabled.  In
`LinkControl` the watchdog's fairness is that of runs which do read the PHY.
In `FlowControl` handler and watchdog get the gate in the end although the family
and the user may ask for it again and again (strong fairness of `Handler` and
`CheckLink`): a work loop serves its event sources in turn.
In `SwFwSync` a release, which tries for ever, is assumed to find SMBI free in one
of its tries (strong fairness of `GetSmbi` for releases) and not to lose SWESMBI
to the firmware through all tries of every attempt; both are stated in `FairSpec`.
Nothing is assumed of users, cables, partners, power, or of failures.

## 4. The proofs

TLAPS proves, for every value of the constants:

| module | theorems |
| --- | --- |
| `TxRing_proofs` | `InvCorrect`, `TypeCorrect`, `HwReadsHeldCorrect`, `OutsideIsFreeCorrect`, `NothingLostCorrect`, `DoneIsAttachedCorrect`, `ImplementsQueueCorrect`; of the arithmetic, `UnusedKeepsOneFree` |
| `RxRing_proofs` | `InvCorrect`, `OwnedIsOnRingCorrect`, `TailTwoBehindCorrect`, `DoneIsBacklogCorrect`, `DmaIntoOwnedCorrect`, `ImplementsQueueCorrect` |
| `LinkControl_proofs` | `InvCorrect`, `ReadyForInterruptsCorrect`, `LinkChangeNotLostCorrect`, `UpIsActedOnCorrect` |
| `FlowControl_proofs` | `InvCorrect`, `EndsAgreeCorrect`, `DesiredOnReplugCorrect`, `PauseHasThresholdsCorrect` |
| `SwFwSync_proofs` | `InvCorrect`, `ExclusiveCorrect`, `SyncIsExactCorrect`, `SemaphoreHasOwnerCorrect`, `ImplementsLocksCorrect` |
| `Phy_proofs` | of the accesses: `AccessInvariant`, `RightRegisterCorrect`, `ImplementsMemoryCorrect`; of the identification: `IdInvCorrect`, `RightPhyCorrect`, `FoundUnlessMissedCorrect`, `IdSpecIsAccess`, `IdImplementsMemory` |
| `PhySetup_proofs` | `InvCorrect`, `TypeCorrect`, `CrossoverAsAskedCorrect`, `BothEndsAgreeCorrect`, `LpluAsAskedCorrect`, `LoopbackUndoneCorrect`, `KumeranAgreesCorrect` |
| `NvmIch8_proofs` | for one sector per bank, or two and no failing erase: `InvCorrect`, `SomeBankValidCorrect`, `ValidBankIsWholeCorrect`, `ReadsWrittenCorrect`, `CommitIsDurableCorrect` |

With them every safety property of a passing run, refinements included, is a
theorem.  Each rests on an inductive invariant that TLC has checked first: `IInv`
of the module, or `IdInv` for the identification.  The runs name it, except that
of `PhySetup`: on the instance of that run TLC finds no violation of `IInv` either
(`INVARIANTS IInv` in its cfg), but needs twice as long.

- *TxRing.*  That the adapter reads only held mbufs does not follow from itself.
  It needs: mbufs sit only on attached slots and on the last slot of their packet
  (`SkbOnAttached`, `MbufFollows`, `NoneAfterMbuf`), DD only on last slots behind
  the head (`ReportOnLast`, `DoneBehindHead`), the head between the oldest slot and
  `next_to_use` (`HeadInLive`), and what `outputPacket` has done half-way
  (`BeingPut`).  All of it under `~overrun`; `TypeOK` without.
  `ImplementsQueue`: a packet is represented by its last slot, so that the order
  of the packets is that of some slots.  `TxQueue` therefore speaks of a set and
  of which of two packets is before the other, where a sequence would have to be
  counted out of the slots by induction; every step is then a step of one packet
  or invisible.  That the clean-up frees the oldest packet, and that it has been
  sent, needs that the slot it watches is the next one with an mbuf
  (`FirstWatchesLast`).
- *RxRing.*  `DoneIsBacklog` and `TailTwoBehind` fix all indices by `Oldest` and
  RDH; `OwnedIsOnRing` and `OneSlotEach` give each slot its mbuf, and `UpInv` every
  slot but the `unmapped` ones the address of it.  All of this holds whatever buffers
  fail; only the refinement stops at the first that does (`bufferFailed`).
  `ImplementsQueue`: the backlog is what the slots between `Oldest` and RDH hold,
  a function of their distance; DMA appends to it because it stays two slots
  behind the tail, and a clean-up takes the head because only the oldest slot's
  mbuf changes.
- *LinkControl.*  `GateInv` says what is on at each place of enable and disable.
- *FlowControl.*  `ResolvedNow`: unless a link change is pending, what was
  resolved is of this partner; `Rested`: what was written is what was resolved.
  That the two ends' tables are dual is a lemma over the four advertisements.
  `Advertised`: a setup that ran to its end leaves PHY and thresholds as
  `original_type` says, whatever that has become through an enable.  Nothing is
  assumed of it.
- *SwFwSync.*  `CopiesCurrent`: the copy of the register is still current when it
  is written back, because only the owner of the semaphore gets that far and the
  firmware keeps out (`SemaphoreHasOwner`).  With it `WriteSync` is
  `ResourceLocks!Take` or `Drop`, and every other step of a port is invisible.
- *PhyAccess.*  That a data cycle reaches the register asked for is a statement
  about one place; to get there one needs which cycle can be next in which kind of
  access and at which address (`CycleFits`), what the earlier cycles of a wakeup
  access have left in the page register and in 769_17 (`WakeupFits`), and that
  the firmware keeps out meanwhile (`HeldForTheAccess`).  `DoneFits`, that an access
  about to report success has done its data cycle, gives the refinement: the data
  cycle is `PhyRegisters!Read` or `Write`, the release of the flag is its `Return`,
  and every other step, of the firmware too, is invisible because it touches no
  register that anybody asks for (`WakeupWritesMiss`).
- *PhyIdentify.*  A step of the identification is a step of an access or one that
  leaves the bus alone (`IdStepIsAccess`), so the invariant of the access carries
  over (`IdSpecIsAccess`).  On top of it: the two halves of an id were read at one
  address (`ReadFits`), the addresses the scan has left behind have no PHY it
  would accept (`ScanFits`), and so has every address where nothing was found
  (`FoundFits`), unless a read of an id failed.
- *PhySetup.*  A property speaks of a call that has returned; what makes it true is
  the row of steps the call still has before it.  So each call has *goals* (`Goals`),
  one bit of one register each, and `GoalInv` says of a call under way: the row
  left comes to a step that sets the bit and keeps it from there (`Reaches`), or
  the bit is as it should be and the row keeps it (`Holds`, `Keeps`).  An empty row
  reaches nothing, so a call that has returned has met its goals.  What was left
  behind by earlier calls does not matter, because a fresh row `Reaches` all goals.
  A goal may hold even where errors are ignored (`ign`; it must then not depend on
  a value that was not read, nor be skipped).  The loopback is no call's goal but
  kept off by all of them (`LoopbackInv`): in the rows of every call a step that may
  set it is directly followed by the one that takes it back, so that it is on only
  just before that one or if the last access to it failed; wherever a call is cut
  short, that access was the last.  The
  proof is in three parts: how rows compose (two rows pass, reach or keep a goal if
  their parts do), what one step does to a goal, and, routine by routine, which
  goals the rows of `Routine` reach, pass or keep.  The number of turns of the
  lock-loss workaround and the script from the NVM are arbitrary.
- *NvmIch8.*  None of the properties carries itself over an update.  `OldBankKept`: the
  old bank stays valid and, through the shadow RAM, shows what is to be committed;
  `ErasedSoFar` and `CopiedSoFar`: the new one is blank ahead of the loops and right
  behind them, and not valid; `Committed`: it is complete before the old one goes;
  `Intends` ties this to what the update meant.  So at each step at least one bank is
  valid and every valid one is whole, wherever the update is left (`SoundEnd`) or
  power goes (`SoundPowerCycle`).  That the sum comes out right is a lemma about the
  parity of a set.  All of it until an error is ignored, and under `EraseFits`, one
  sector per bank, or two and no failing erase cycle: otherwise the erase loop leaves
  the bank, which is the finding of `NvmIch8Sectors`.

Assumptions: those on the constants, stated in the modules (ring of at least two
slots, segments fewer than slots, `NoPacket` no packet, masks not empty, the
firmware not a port, the ids readable at every address and written by nobody, one
PHY on a board, except that a BM answers at both of its addresses; for `PhySetup`,
which PHYs the families' init routines accept, the values the driver's
configuration can have, and that the NVM configures registers of the PHY with
bits they have), and that the gate, filter and hardware behave as in section 1.

Only model-checked: liveness, because fairness is beyond the prover
(`EverySentReclaimed`, `EveryFrameTaken`, `NotStarved`, `LineServed`,
`LinkDownNoticed`, `LinkUpNoticed`, `PartnerServed`, `ReleaseEnds`).  The four
violation runs are counterexamples and need no proof.

## 5. What the code does, besides the runs

Seen while modelling; the models do the same, and the properties except it where
they say so.

*The driver object* (`Intel82566MM.cpp`)

- `disable` does not cancel the watchdog's timer (`//stop watchdog timer`, `:737`,
  only clears speed and duplex), so the watchdog may turn on transmitter and
  receiver of a disabled interface.
- A link that is lost before the first run of the watchdog is never reported as
  down: `preLinkStatus` is what the watchdog saw last (`:1811`).
- `e1000_clean_tx_ring` frees no mbuf: those not reclaimed at `disable` leak
  (`abandoned`).
- `e1000_alloc_rx_buffers` gives its slots to the adapter whether or not a buffer
  could be allocated.
- `e1000_clean_rx_irq` recycles a slot whose replacement is NULL (`:1451`), or has no
  physical segment (`:1453`: the count is not looked at, although
  `e1000_alloc_rx_buffers` takes 0 for a failure, `:1331`).  The slot's address is
  then what the vector happened to hold, and the adapter may store a frame in
  memory the driver does not own; such slots are `unmapped`, and `DmaIntoOwned` says
  that they harm no other slot.
- `start` tests `rxMbufCursor` where it means `txMbufCursor` (`:573`), registers the
  interface before its event sources exist (`:539`), and gives back little of what
  it took when it fails.
- `set_multi` copies the multicast list, however long, into one page (`:1871`).

*NVM* (`e1000_ich8lan.c`)

- The update ignores the results of the erase (`:1480`) and of the word read
  (`:1500`); on ICH8 an invalidation reported as failed that took effect leaves
  SEC1VAL pointing at the invalid bank (`ignored`).
- The erase loop adds the offset of sector `j` to an address it has already moved
  (`:1861`), so of the 16 sectors of 256 bytes the ones at offsets 0, 1, 3, 6, 10, 15,
  21, ... are erased, from the seventh on outside the bank (`NvmIch8Sectors`); a try
  that is repeated adds the offset once more, so that two sectors and one failing
  erase are enough.
  With 64K sectors the number of turns is 0 for a bank that is smaller (`:1834`).
- Where no valid bank is found the read and the update return with SWFLAG taken
  (`:1107`, `:1474`).
- `reset_hw` does not look at whether it got the software flag (`:1978`).

*PHY accesses*

- A wakeup access does not look at the result of three of its page selections
  (`e1000_phy.c:2382`, `:2408`, `:2438`), and does not restore 769_17 when it fails on
  the way (`ignored`, `PhyAccess`).
- The read-back of a GG82563 stores its own result over that of the page
  selection before it (`e1000_80003es2lan.c:512`).
- `e1000_init_phy_params_ich8lan` keeps the routines of a BM for an IGP3 or IFE that
  only the scan for a BM has found, at address 2 (`BoardAssumption` leaves such a
  board out).

*PHY setup*

- LPLU is activated in D0 whatever is advertised, although both comments say only for
  10, 10/100 or 10/100/1000 at all duplexes (`e1000_ich8lan.c:834`,
  `e1000_82571.c:769`); for D3 it is checked.  "LPLU and SmartSpeed are mutually
  exclusive" (`e1000_82571.c:809`), yet turning one state's LPLU off turns SmartSpeed on
  while the other's is on.  `LpluAsAsked` speaks of the call's own LPLU bit only, and
  of advertisements for which the two kinds of calls do the same.
- `e1000_set_d0_lplu_state_82571` stores the result of later accesses over that of
  the write that matters when LPLU goes off (`e1000_82571.c:807`); when it goes on,
  it and its ICH8 sibling write a word that a failed read has not filled.
- Power up and power down write the control register from a zero word after a
  failed read, although the comment says that the settings are retained
  (`e1000_phy.c:2462`).
- The gigabit-downshift workaround leaves the near-end loopback on if one of its writes
  fails (`e1000_ich8lan.c:2500`, `:2506`): it returns nothing, and no caller can know.
  `LoopbackUndone` says that nothing else leaves it on.  The gigabit disable that comes
  with it in the lock-loss workaround is never cleared.
- Forcing speed and duplex of a BM on an ICH goes through the IGP routine, whose
  port control register a BM does not have (`CrossoverAsAsked` excepts it).
- A GG82563's setup writes back settled data it may not have read; ASDE is not set
  again after forcing.

*Flow control*

- `enable` calls `setup_link` with what the last partner settled for in `fc.type`
  (`Intel82566MM.cpp:615`), which makes it the `original_type` (`e1000_ich8lan.c:2167`);
  `selectMedium`, also at the end of every `enable`, advertises it
  (`e1000_phy.c:918`).  "We want to save off the original Flow Control configuration
  just in case we get disconnected and then reconnected" (`e1000_mac.c:732`), but after
  an interface was down and up, less may be asked for than before, for good or until
  the next reset.  `DesiredOnReplug` is about what `original_type` has become.
- Where the firmware blocks PHY resets at start, `fc.type` stays
  `e1000_fc_default`, which `e1000_force_mac_fc_generic` takes for impossible:
  flow control is then never configured (`trouble`).

## 6. Not modelled

- `init`, `start`, `stop`, `free` beyond what the rings and the link need: each
  is one straight line of allocations without another actor.
- Multicast and receive addresses (`set_multi`, `e1000_update_mc_addr_list_generic`,
  `e1000_rar_set_generic`): loops that copy a list into registers, and a hash.
- `get_phy_info`, cable length and polarity: they read registers and compute
  a number for a log line.  LEDs and statistics: counters and lamps.
- The initialisation script of an IGP3: a list of constants.
- NVM of the other adapters (SPI, Microwire, EERD and EEWR), and the
  manageability host interface: sequential, with one actor, and not used by an
  82566.
- Fiber and serdes of the 82571, its NVM, M88 PHYs of revision 4 and later.
- The device table, register definitions, the bundle, the layout of frames and
  descriptors beyond the fields named above, speeds beyond what a property tells
  apart.

What the models leave out of the parts they do cover:

- `LinkControl` has one boolean for the two rings; that the rings are in order
  while the gate is taken is the business of their own modules.  The product of
  the three has more states than a run can visit.
- `RxRing` bounds the slots without buffer or address at a time (`MaxUnmapped`), and
  does not follow which frame is stored where once a buffer has failed.
- `PhyIdentify` has no second revision of the BM: `e1000_get_phy_id` masks the revision
  out of the id (`e1000_phy.c:100`), so that it is read as the first.
- `PhySetup` takes an access as one step (`ImplementsMemory`), a settle loop as one
  `Edit`, and the advertisement as masked by what the adapter can do.
