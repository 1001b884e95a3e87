------------------------------ MODULE SwFwSync ------------------------------
(***************************************************************************)
(* The two ports of an 80003ES2LAN and its firmware share the PHYs, the    *)
(* EEPROM and the Kumeran registers.  Who has which is written in          *)
(* SW_FW_SYNC, a plain register that every agent reads, changes and writes *)
(* back, guarded by two bits of SWSM: SMBI among the ports, SWESMBI        *)
(* against the firmware.  Every access to a register that another agent    *)
(* can write is a step of its own.                                         *)
(***************************************************************************)
EXTENDS Naturals

CONSTANTS Ports,      \* hw->bus.func of the ports
          Resources,  \* E1000_SWFW_EEP_SM, _PHY0_SM, _PHY1_SM, _CSR_SM
          Masks,      \* port -> the masks its driver acquires
          FwMasks,    \* those of the firmware
          Firmware

ASSUME MaskAssumption ==
    /\ Masks \in [Ports -> SUBSET SUBSET Resources]
    /\ FwMasks \subseteq SUBSET Resources
    /\ \A p \in Ports : {} \notin Masks[p]
    /\ Firmware \notin Ports

Agents == Ports \cup {Firmware}

VARIABLES
    smbi,     \* SWSM.SMBI; reading SWSM sets it
    swesmbi,  \* SWSM.SWESMBI
    fwsem,    \* the firmware's side of the semaphore (external)
    sync,     \* SW_FW_SYNC: agents' bits, the ports' as one: "sw" and "fw"
    pc,       \* where each port's driver is
    goal,     \* what it wants of the semaphore: "acquire" or "release"
    mask,     \* its mask
    swfw_sync,  \* its copy of the register
    fwcopy,     \* the firmware's
    fwpc

swsm == <<smbi, swesmbi>>
port == <<pc, goal, mask, swfw_sync>>
fw == <<fwsem, fwcopy, fwpc>>
vars == <<swsm, sync, port, fw>>

Registers == [sw : SUBSET Resources, fw : SUBSET Resources]
Free == [sw |-> {}, fw |-> {}]

Init ==
    /\ smbi = FALSE
    /\ swesmbi = FALSE
    /\ fwsem = FALSE
    /\ sync = Free
    /\ pc = [p \in Ports |-> "idle"]
    /\ goal = [p \in Ports |-> "acquire"]
    /\ mask = [p \in Ports |-> {}]
    /\ swfw_sync = [p \in Ports |-> Free]
    /\ fwcopy = Free
    /\ fwpc = "idle"

Goto(p, where) == pc' = [pc EXCEPT ![p] = where]

\* Leaving with an error, or done: goal, mask and copy are locals.
Return(p, where) ==
    /\ Goto(p, where)
    /\ goal' = IF where = "idle" THEN [goal EXCEPT ![p] = "acquire"] ELSE goal
    /\ swfw_sync' = [swfw_sync EXCEPT ![p] = Free]
    /\ mask' = IF where = "idle" THEN [mask EXCEPT ![p] = {}] ELSE mask
-----------------------------------------------------------------------------
(* The calls: e1000_acquire_phy_80003es2lan, e1000_acquire_nvm_80003es2lan, *)
(* and the releases, which a failed grant of the EEPROM calls as well.     *)

Acquire(p, m) ==
    /\ pc[p] = "idle"
    /\ goal' = [goal EXCEPT ![p] = "acquire"]
    /\ mask' = [mask EXCEPT ![p] = m]
    /\ Goto(p, "smbi")
    /\ UNCHANGED <<swsm, sync, swfw_sync, fw>>

\* Mutant of the step below: everything is released, whoever has it.
ReleaseAll(p) ==
    /\ pc[p] = "using"
    /\ goal' = [goal EXCEPT ![p] = "release"]
    /\ mask' = [mask EXCEPT ![p] = Resources]
    /\ Goto(p, "smbi")
    /\ UNCHANGED <<swsm, sync, swfw_sync, fw>>

Release(p) ==
    /\ pc[p] = "using"
    /\ goal' = [goal EXCEPT ![p] = "release"]
    /\ Goto(p, "smbi")
    /\ UNCHANGED <<swsm, sync, mask, swfw_sync, fw>>
-----------------------------------------------------------------------------
(* e1000_get_hw_semaphore_generic.                                         *)

\* SMBI was clear, and reading it has set it.
GetSmbi(p) ==
    /\ pc[p] = "smbi"
    /\ ~smbi
    /\ smbi' = TRUE
    /\ Goto(p, "swesmbi")
    /\ UNCHANGED <<swesmbi, sync, goal, mask, swfw_sync, fw>>

\* It was set in every try: an error without a put, as nothing is held.  A release begins
\* again, so that for it this step changes nothing.
SmbiTimeout(p) ==
    /\ pc[p] = "smbi"
    /\ goal[p] = "acquire"
    /\ smbi
    /\ Return(p, "idle")
    /\ UNCHANGED <<swsm, sync, fw>>

\* SWESMBI is written, and latches unless the firmware has the semaphore.
GetSwesmbi(p) ==
    /\ pc[p] = "swesmbi"
    /\ ~fwsem
    /\ swesmbi' = TRUE
    /\ Goto(p, "sync")
    /\ UNCHANGED <<smbi, sync, goal, mask, swfw_sync, fw>>

SwesmbiTimeout(p) ==
    /\ pc[p] = "swesmbi"
    /\ fwsem
    /\ Goto(p, "failed")
    /\ UNCHANGED <<swsm, sync, goal, mask, swfw_sync, fw>>
-----------------------------------------------------------------------------
(* e1000_acquire_swfw_sync_80003es2lan, e1000_release_swfw_sync_80003es2lan *)

\* Mutant of the step below: the firmware's half of the register is not asked.
ReadSyncSoftwareOnly(p) ==
    /\ pc[p] = "sync"
    /\ swfw_sync' = [swfw_sync EXCEPT ![p] = sync]
    /\ Goto(p, IF goal[p] = "acquire" /\ mask[p] \cap sync.sw # {} THEN "busy" ELSE "write")
    /\ UNCHANGED <<swsm, sync, goal, mask, fw>>

\* Mutant: the semaphore guards the reading only.
ReadSyncPuts(p) ==
    /\ pc[p] = "sync"
    /\ swfw_sync' = [swfw_sync EXCEPT ![p] = sync]
    /\ Goto(p, IF goal[p] = "acquire" /\ mask[p] \cap (sync.sw \cup sync.fw) # {}
               THEN "busy" ELSE "write")
    /\ smbi' = FALSE
    /\ swesmbi' = FALSE
    /\ UNCHANGED <<sync, goal, mask, fw>>

ReadSync(p) ==
    /\ pc[p] = "sync"
    /\ swfw_sync' = [swfw_sync EXCEPT ![p] = sync]
    /\ Goto(p, IF goal[p] = "acquire" /\ mask[p] \cap (sync.sw \cup sync.fw) # {}
               THEN "busy" ELSE "write")
    /\ UNCHANGED <<swsm, sync, goal, mask, fw>>

\* Both halves are written back as they were read.
WriteSync(p) ==
    /\ pc[p] = "write"
    /\ sync' = [swfw_sync[p] EXCEPT !.sw = IF goal[p] = "acquire" THEN @ \cup mask[p]
                                           ELSE @ \ mask[p]]
    /\ Goto(p, "put")
    /\ UNCHANGED <<swsm, goal, mask, swfw_sync, fw>>

\* e1000_put_hw_semaphore_generic
Put(p) ==
    /\ smbi' = FALSE
    /\ swesmbi' = FALSE
    /\ UNCHANGED <<sync, fw>>

PutDone(p) ==
    /\ pc[p] = "put"
    /\ Put(p)
    /\ Return(p, IF goal[p] = "acquire" THEN "using" ELSE "idle")

\* The resource is taken: sleep and try again, up to 200 times.
PutRetry(p) ==
    /\ pc[p] = "busy"
    /\ Put(p)
    /\ Return(p, "smbi")

PutTimeout(p) ==
    /\ pc[p] = "busy"
    /\ Put(p)
    /\ Return(p, "idle")

\* Mutant of the step below: SMBI stays set when SWESMBI could not be had.
PutFailedNot(p) ==
    /\ pc[p] = "failed"
    /\ Return(p, IF goal[p] = "acquire" THEN "idle" ELSE "smbi")
    /\ UNCHANGED <<swsm, sync, fw>>

\* The firmware kept SWESMBI from latching: acquire fails, release begins again.
PutFailed(p) ==
    /\ pc[p] = "failed"
    /\ Put(p)
    /\ Return(p, IF goal[p] = "acquire" THEN "idle" ELSE "smbi")
-----------------------------------------------------------------------------
(* The firmware (external), which plays by the same rules.                 *)

FwGet ==
    /\ fwpc = "idle"
    /\ ~swesmbi
    /\ fwsem' = TRUE
    /\ fwcopy' = sync
    /\ fwpc' = "write"
    /\ UNCHANGED <<swsm, sync, port>>

FwWrite ==
    /\ fwpc = "write"
    /\ \/ \E m \in FwMasks :
             /\ m \cap fwcopy.sw = {}
             /\ sync' = [fwcopy EXCEPT !.fw = @ \cup m]
       \/ sync' = [fwcopy EXCEPT !.fw = {}]
    /\ fwpc' = "put"
    /\ fwcopy' = Free
    /\ UNCHANGED <<swsm, port, fwsem>>

FwPut ==
    /\ fwpc = "put"
    /\ fwsem' = FALSE
    /\ fwpc' = "idle"
    /\ UNCHANGED <<swsm, sync, port, fwcopy>>

PortStep(p) ==
    \/ GetSmbi(p)
    \/ SmbiTimeout(p)
    \/ GetSwesmbi(p)
    \/ SwesmbiTimeout(p)
    \/ ReadSync(p)
    \/ WriteSync(p)
    \/ PutDone(p)
    \/ PutRetry(p)
    \/ PutTimeout(p)
    \/ PutFailed(p)

Next ==
    \/ \E p \in Ports : \E m \in Masks[p] : Acquire(p, m)
    \/ \E p \in Ports : Release(p) \/ PortStep(p)
    \/ FwGet
    \/ FwWrite
    \/ FwPut

Spec == Init /\ [][Next]_vars

\* Fairness: the CPUs run the drivers, and the firmware does not sleep on the semaphore.  A
\* release, which begins again for ever, finds SMBI free in one of its tries, and the
\* firmware does not keep SWESMBI from it through all tries every time.  When to release is
\* up to the caller.
FairSpec ==
    /\ Spec
    /\ \A p \in Ports :
          /\ WF_vars(PortStep(p))
          /\ SF_vars(goal[p] = "release" /\ GetSmbi(p))
          /\ <>[][~(goal[p] = "release" /\ SwesmbiTimeout(p))]_vars
    /\ WF_vars(FwWrite)
    /\ WF_vars(FwPut)
-----------------------------------------------------------------------------
(* Properties.                                                             *)

Places == {"idle", "smbi", "swesmbi", "sync", "write", "put", "busy", "failed", "using"}

TypeOK ==
    /\ smbi \in BOOLEAN
    /\ swesmbi \in BOOLEAN
    /\ fwsem \in BOOLEAN
    /\ sync \in Registers
    /\ pc \in [Ports -> Places]
    /\ goal \in [Ports -> {"acquire", "release"}]
    /\ \A p \in Ports : mask[p] \in Masks[p] \cup {{}}
    /\ mask \in [Ports -> SUBSET Resources]
    /\ swfw_sync \in [Ports -> Registers]
    /\ fwcopy \in Registers
    /\ fwpc \in {"idle", "write", "put"}

\* a port has its mask from the write that sets the bits to the one that clears them
Has(p) ==
    \/ pc[p] = "using"
    \/ goal[p] = "acquire" /\ pc[p] = "put"
    \/ goal[p] = "release" /\ pc[p] \in {"smbi", "swesmbi", "failed", "sync", "write"}

Held(p) == IF Has(p) THEN mask[p] ELSE {}

\* "Firmware currently using resource (fwmask) or other software thread using resource
\* (swmask)": no two of them ever have the same resource, whatever gave up on the way.
Exclusive ==
    \A p \in Ports :
        /\ Held(p) \cap sync.fw = {}
        /\ \A q \in Ports \ {p} : Held(p) \cap Held(q) = {}

\* No update of SW_FW_SYNC is lost: its software half is at all times exactly what the
\* ports have, also after timeouts, so nothing stays taken for ever.
SyncIsExact == sync.sw = UNION {Held(p) : p \in Ports}

\* The two bits of SWSM are set exactly while one port is between get and put, so an error
\* path neither leaves them set nor clears them under another port.
InSection(p) == pc[p] \in {"swesmbi", "sync", "write", "put", "busy", "failed"}
InInner(p) == pc[p] \in {"sync", "write", "put", "busy"}

SemaphoreHasOwner ==
    /\ smbi <=> \E p \in Ports : InSection(p)
    /\ swesmbi <=> \E p \in Ports : InInner(p)
    /\ \A p, q \in Ports : InSection(p) /\ InSection(q) => p = q

\* Taking and dropping resources is atomic for everyone else.
holds == [a \in Agents |-> IF a = Firmware THEN sync.fw ELSE Held(a)]
Locks == INSTANCE ResourceLocks
ImplementsLocks == Locks!Spec

\* A release ends, although it has to win the semaphore again.
ReleaseEnds ==
    \A p \in Ports : goal[p] = "release" /\ pc[p] # "idle" ~> pc[p] = "idle"
-----------------------------------------------------------------------------
(* The inductive invariant.                                                *)

\* a copy of the register is current when it is written back, and the test still true
CopiesCurrent ==
    /\ swesmbi => ~fwsem
    /\ fwsem <=> fwpc # "idle"
    /\ fwpc = "write" => fwcopy = sync
    /\ \A p \in Ports :
          /\ pc[p] = "busy" => goal[p] = "acquire"
          /\ pc[p] = "using" => goal[p] = "acquire"
          /\ pc[p] = "write" =>
                /\ swfw_sync[p] = sync
                /\ goal[p] = "acquire" => mask[p] \cap (sync.sw \cup sync.fw) = {}

\* Every step keeps these together.
IInv == TypeOK /\ SemaphoreHasOwner /\ CopiesCurrent /\ SyncIsExact /\ Exclusive
=============================================================================
