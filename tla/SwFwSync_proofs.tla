------------------------- MODULE SwFwSync_proofs -------------------------
(***************************************************************************)
(* The software/firmware semaphore, for any number of ports, any resources *)
(* and any masks.                                                          *)
(***************************************************************************)
EXTENDS SwFwSync, TLAPS

\* Whatever a port has is marked in the software half of the register.
LEMMA HeldIsMarked ==
    ASSUME SyncIsExact, NEW p \in Ports
    PROVE  Held(p) \subseteq sync.sw
BY DEF SyncIsExact

\* A step that changes neither the register nor what any port has keeps both in agreement.
LEMMA HoldingKept ==
    ASSUME Exclusive, SyncIsExact, sync' = sync, \A p \in Ports : Held(p)' = Held(p)
    PROVE  Exclusive' /\ SyncIsExact'
<1>1. {Held(p)' : p \in Ports} = {Held(p) : p \in Ports} OBVIOUS
<1>2. SyncIsExact' BY <1>1 DEF SyncIsExact
<1>3. Exclusive' BY DEF Exclusive
<1>4. QED BY <1>2, <1>3

\* The locals stay in their types where a call returns or tries again.
LEMMA ReturnTypes ==
    ASSUME TypeOK, NEW p \in Ports, NEW where \in Places, Return(p, where)
    PROVE  /\ pc' \in [Ports -> Places]
           /\ goal' \in [Ports -> {"acquire", "release"}]
           /\ \A q \in Ports : mask'[q] \in Masks[q] \cup {{}}
           /\ mask' \in [Ports -> SUBSET Resources]
           /\ swfw_sync' \in [Ports -> Registers]
<1>1. pc' \in [Ports -> Places] BY DEF Return, Goto, TypeOK
<1>2. goal' \in [Ports -> {"acquire", "release"}] BY DEF Return, TypeOK
<1>3. mask' \in [Ports -> SUBSET Resources] BY DEF Return, TypeOK
<1>4. \A q \in Ports : mask'[q] \in Masks[q] \cup {{}} BY DEF Return, TypeOK
<1>5. Free \in Registers BY DEF Free, Registers
<1>6. swfw_sync' \in [Ports -> Registers] BY <1>5 DEF Return, TypeOK
<1>7. QED BY <1>1, <1>2, <1>3, <1>4, <1>6

\* At first everything is free.
LEMMA InitInv == Init => IInv
<1> SUFFICES ASSUME Init PROVE IInv OBVIOUS
<1>1. TypeOK BY DEF Init, TypeOK, Registers, Free, Places
<1>2. SemaphoreHasOwner BY DEF Init, SemaphoreHasOwner, InSection, InInner
<1>3. CopiesCurrent BY DEF Init, CopiesCurrent
<1>4. \A p \in Ports : Held(p) = {} BY DEF Init, Held, Has
<1>5. SyncIsExact BY <1>4 DEF Init, SyncIsExact, Free
<1>6. Exclusive BY <1>4 DEF Exclusive
<1>7. QED BY <1>1, <1>2, <1>3, <1>5, <1>6 DEF IInv

\* No step but the writing of the register changes what a port has.
LEMMA CallHolds ==
    ASSUME IInv, NEW p \in Ports, Release(p) \/ \E m \in Masks[p] : Acquire(p, m)
    PROVE  sync' = sync /\ \A q \in Ports : Held(q)' = Held(q)
<1> USE DEF IInv
<1>1. /\ pc[p] \in {"idle", "using"} /\ pc'[p] = "smbi" /\ sync' = sync
      /\ \A q \in Ports \ {p} : pc'[q] = pc[q] /\ goal'[q] = goal[q] /\ mask'[q] = mask[q]
  BY DEF Acquire, Release, Goto, TypeOK
<1>2. Held(p)' = Held(p)
  BY <1>1 DEF Held, Has, Acquire, Release, TypeOK, CopiesCurrent
<1>3. QED BY <1>1, <1>2 DEF Held, Has

LEMMA GetHolds ==
    ASSUME IInv, NEW p \in Ports,
           GetSmbi(p) \/ SmbiTimeout(p) \/ GetSwesmbi(p) \/ SwesmbiTimeout(p)
    PROVE  sync' = sync /\ \A q \in Ports : Held(q)' = Held(q)
<1> USE DEF IInv
<1>1. /\ sync' = sync
      /\ \A q \in Ports \ {p} : pc'[q] = pc[q] /\ goal'[q] = goal[q] /\ mask'[q] = mask[q]
  BY DEF GetSmbi, SmbiTimeout, GetSwesmbi, SwesmbiTimeout, Goto, Return, TypeOK
<1>2. Held(p)' = Held(p)
  BY DEF Held, Has, GetSmbi, SmbiTimeout, GetSwesmbi, SwesmbiTimeout, Goto, Return, TypeOK
<1>3. QED BY <1>1, <1>2 DEF Held, Has

LEMMA ReadSyncHolds ==
    ASSUME IInv, NEW p \in Ports, ReadSync(p)
    PROVE  sync' = sync /\ \A q \in Ports : Held(q)' = Held(q)
<1> USE DEF IInv
<1>1. sync' = sync /\ \A q \in Ports \ {p} : pc'[q] = pc[q]
  BY DEF ReadSync, Goto, TypeOK
<1>2. Held(p)' = Held(p)
  BY DEF Held, Has, ReadSync, Goto, TypeOK
<1>3. QED BY <1>1, <1>2 DEF Held, Has, ReadSync

LEMMA PutHolds ==
    ASSUME IInv, NEW p \in Ports, PutDone(p) \/ PutRetry(p) \/ PutTimeout(p) \/ PutFailed(p)
    PROVE  sync' = sync /\ \A q \in Ports : Held(q)' = Held(q)
<1> USE DEF IInv
<1>1. /\ sync' = sync
      /\ \A q \in Ports \ {p} : pc'[q] = pc[q] /\ goal'[q] = goal[q] /\ mask'[q] = mask[q]
  BY DEF PutDone, PutRetry, PutTimeout, PutFailed, Put, Return, Goto, TypeOK
<1>2. CASE PutDone(p) \/ PutFailed(p)
  <2>1. Held(p)' = Held(p)
    BY <1>2 DEF Held, Has, PutDone, PutFailed, Return, Goto, TypeOK
  <2>2. QED BY <1>1, <2>1 DEF Held, Has
<1>3. CASE PutRetry(p) \/ PutTimeout(p)
  <2>1. Held(p)' = Held(p)
    BY <1>3 DEF Held, Has, PutRetry, PutTimeout, Return, Goto, TypeOK, CopiesCurrent
  <2>2. QED BY <1>1, <2>1 DEF Held, Has
<1>4. QED BY <1>2, <1>3

\* The writing gives or takes the mask.
LEMMA WriteSyncHolds ==
    ASSUME IInv, NEW p \in Ports, WriteSync(p)
    PROVE  /\ sync' \in Registers
           /\ sync'.fw = sync.fw
           /\ \A q \in Ports \ {p} : Held(q)' = Held(q)
           /\ \/ /\ goal[p] = "acquire"
                 /\ Held(p) = {} /\ Held(p)' = mask[p]
                 /\ mask[p] \cap (sync.sw \cup sync.fw) = {}
                 /\ sync'.sw = sync.sw \cup mask[p]
              \/ /\ goal[p] = "release"
                 /\ Held(p) = mask[p] /\ Held(p)' = {}
                 /\ sync'.sw = sync.sw \ mask[p]
<1> USE DEF IInv
<1> DEFINE sw == IF goal[p] = "acquire" THEN sync.sw \cup mask[p] ELSE sync.sw \ mask[p]
<1>1. sync' = [sync EXCEPT !.sw = sw]
  BY DEF WriteSync, CopiesCurrent, TypeOK, Registers
<1>2. sync' \in Registers /\ sync'.sw = sw /\ sync'.fw = sync.fw
  BY <1>1 DEF TypeOK, Registers
<1>3. /\ pc[p] = "write" /\ pc'[p] = "put"
      /\ \A q \in Ports \ {p} : pc'[q] = pc[q]
  BY DEF WriteSync, Goto, TypeOK
<1>4. \A q \in Ports \ {p} : Held(q)' = Held(q)
  BY <1>3 DEF Held, Has, WriteSync
<1>5. CASE goal[p] = "acquire"
  BY <1>2, <1>3, <1>4, <1>5 DEF Held, Has, WriteSync, CopiesCurrent
<1>6. CASE goal[p] = "release"
  BY <1>2, <1>3, <1>4, <1>6 DEF Held, Has, WriteSync
<1>7. QED BY <1>5, <1>6 DEF TypeOK

\* A caller's acquire or release starts at SMBI.
LEMMA CallInv ==
    ASSUME IInv, NEW p \in Ports, Release(p) \/ \E m \in Masks[p] : Acquire(p, m)
    PROVE  IInv'
<1> USE DEF IInv
<1>1. TypeOK'
  BY MaskAssumption DEF Acquire, Release, Goto, TypeOK, Places, swsm, port, fw
<1>2. pc[p] \in {"idle", "using"} /\ pc' = [pc EXCEPT ![p] = "smbi"]
  BY DEF Acquire, Release, Goto
<1>3. \A q \in Ports : pc'[q] = IF q = p THEN "smbi" ELSE pc[q]
  BY <1>2 DEF TypeOK
<1>4. SemaphoreHasOwner'
  BY <1>2, <1>3 DEF SemaphoreHasOwner, InSection, InInner, Acquire, Release, swsm
<1>5. \A q \in Ports \ {p} : goal'[q] = goal[q] /\ mask'[q] = mask[q]
  BY DEF Acquire, Release, TypeOK
<1>6. CopiesCurrent'
  BY <1>3, <1>5 DEF CopiesCurrent, Acquire, Release, swsm, fw
<1>7. Exclusive' /\ SyncIsExact' BY CallHolds, HoldingKept
<1>8. QED BY <1>1, <1>4, <1>6, <1>7

\* Getting the semaphore, and failing to.
LEMMA GetInv ==
    ASSUME IInv, NEW p \in Ports,
           GetSmbi(p) \/ SmbiTimeout(p) \/ GetSwesmbi(p) \/ SwesmbiTimeout(p)
    PROVE  IInv'
<1> USE DEF IInv
<1>1. TypeOK'
  <2>1. CASE SmbiTimeout(p)
    <3>1. "idle" \in Places BY DEF Places
    <3>2. QED BY <2>1, <3>1, ReturnTypes DEF SmbiTimeout, TypeOK, swsm, fw
  <2>2. CASE ~SmbiTimeout(p)
    BY <2>2 DEF GetSmbi, GetSwesmbi, SwesmbiTimeout, Goto, TypeOK, Places, swsm, fw
  <2>3. QED BY <2>1, <2>2
<1>2. /\ pc[p] \in {"smbi", "swesmbi"}
      /\ pc'[p] \in {"swesmbi", "idle", "sync", "failed"}
      /\ \A q \in Ports \ {p} : /\ pc'[q] = pc[q]
                                /\ goal'[q] = goal[q]
                                /\ mask'[q] = mask[q]
                                /\ swfw_sync'[q] = swfw_sync[q]
  BY DEF GetSmbi, SmbiTimeout, GetSwesmbi, SwesmbiTimeout, Goto, Return, TypeOK
<1>3. SemaphoreHasOwner'
  <2>1. CASE GetSmbi(p)
    BY <2>1, <1>2 DEF GetSmbi, Goto, TypeOK, SemaphoreHasOwner, InSection, InInner
  <2>2. CASE SmbiTimeout(p)
    BY <2>2, <1>2 DEF SmbiTimeout, Return, Goto, TypeOK, SemaphoreHasOwner, InSection, InInner,
                      swsm
  <2>3. CASE GetSwesmbi(p)
    BY <2>3, <1>2 DEF GetSwesmbi, Goto, TypeOK, SemaphoreHasOwner, InSection, InInner
  <2>4. CASE SwesmbiTimeout(p)
    BY <2>4, <1>2 DEF SwesmbiTimeout, Goto, TypeOK, SemaphoreHasOwner, InSection, InInner, swsm
  <2>5. QED BY <2>1, <2>2, <2>3, <2>4
<1>4. CopiesCurrent'
  BY <1>2 DEF CopiesCurrent, GetSmbi, SmbiTimeout, GetSwesmbi, SwesmbiTimeout, Goto, Return,
              TypeOK, swsm, fw
<1>5. Exclusive' /\ SyncIsExact' BY GetHolds, HoldingKept
<1>6. QED BY <1>1, <1>3, <1>4, <1>5

\* Reading the register: the copy is current, and what the test found is true.
LEMMA ReadSyncInv ==
    ASSUME IInv, NEW p \in Ports, ReadSync(p)
    PROVE  IInv'
<1> USE DEF IInv
<1>1. TypeOK'
  BY DEF ReadSync, Goto, TypeOK, Places, swsm, fw
<1>2. /\ pc[p] = "sync"
      /\ pc'[p] \in {"busy", "write"}
      /\ \A q \in Ports \ {p} : pc'[q] = pc[q] /\ swfw_sync'[q] = swfw_sync[q]
  BY DEF ReadSync, Goto, TypeOK
<1>3. SemaphoreHasOwner'
  BY <1>2 DEF ReadSync, SemaphoreHasOwner, InSection, InInner, swsm
<1>4. CopiesCurrent'
  BY <1>2 DEF ReadSync, Goto, CopiesCurrent, TypeOK, swsm, fw
<1>5. Exclusive' /\ SyncIsExact' BY ReadSyncHolds, HoldingKept
<1>6. QED BY <1>1, <1>3, <1>4, <1>5

\* Writing it: the bits change by exactly what the port gets or gives back.
LEMMA WriteSyncInv ==
    ASSUME IInv, NEW p \in Ports, WriteSync(p)
    PROVE  IInv'
<1> USE DEF IInv
<1>1. /\ pc[p] = "write" /\ pc'[p] = "put"
      /\ \A q \in Ports \ {p} : pc'[q] = pc[q]
  BY DEF WriteSync, Goto, TypeOK
<1>2. TypeOK'
  BY WriteSyncHolds DEF WriteSync, Goto, TypeOK, Places, swsm, fw
<1>3. SemaphoreHasOwner'
  BY <1>1 DEF WriteSync, SemaphoreHasOwner, InSection, InInner, swsm
<1>4. ~fwsem /\ \A q \in Ports \ {p} : pc[q] # "write"
  BY <1>1 DEF SemaphoreHasOwner, CopiesCurrent, InSection, InInner
<1>5. CopiesCurrent'
  BY <1>1, <1>4 DEF WriteSync, CopiesCurrent, swsm, fw
<1>6. CASE goal[p] = "acquire"
  <2>1. Exclusive'
    BY <1>6, WriteSyncHolds, HeldIsMarked DEF Exclusive
  <2>2. SyncIsExact'
    BY <1>6, WriteSyncHolds DEF SyncIsExact
  <2>3. QED BY <1>2, <1>3, <1>5, <2>1, <2>2
<1>7. CASE goal[p] = "release"
  <2>1. Exclusive'
    BY <1>7, WriteSyncHolds DEF Exclusive
  <2>2. \A q \in Ports \ {p} : Held(q) \cap mask[p] = {}
    BY <1>7, WriteSyncHolds DEF Exclusive
  <2>3. SyncIsExact'
    BY <1>7, <2>2, WriteSyncHolds DEF SyncIsExact
  <2>4. QED BY <1>2, <1>3, <1>5, <2>1, <2>3
<1>8. QED BY <1>6, <1>7 DEF TypeOK

\* Putting the semaphore, after each way to the put.
LEMMA PutInv ==
    ASSUME IInv, NEW p \in Ports, PutDone(p) \/ PutRetry(p) \/ PutTimeout(p) \/ PutFailed(p)
    PROVE  IInv'
<1> USE DEF IInv
<1>1. TypeOK'
  <2>1. PICK where \in Places : Return(p, where)
    BY DEF PutDone, PutRetry, PutTimeout, PutFailed, Places
  <2>2. Put(p)
    BY DEF PutDone, PutRetry, PutTimeout, PutFailed
  <2>3. QED
    BY <2>1, <2>2, ReturnTypes DEF Put, TypeOK, fw
<1>2. /\ pc[p] \in {"put", "busy", "failed"}
      /\ pc'[p] \in {"using", "idle", "smbi"}
      /\ \A q \in Ports \ {p} : /\ pc'[q] = pc[q]
                                /\ goal'[q] = goal[q]
                                /\ mask'[q] = mask[q]
                                /\ swfw_sync'[q] = swfw_sync[q]
  BY DEF PutDone, PutRetry, PutTimeout, PutFailed, Return, Goto, TypeOK
<1>3. \A q \in Ports : ~InSection(q)'
  BY <1>2 DEF SemaphoreHasOwner, InSection
<1>4. \A q \in Ports : ~InInner(q)'
  BY <1>3 DEF InSection, InInner
<1>5. SemaphoreHasOwner'
  BY <1>3, <1>4 DEF SemaphoreHasOwner, PutDone, PutRetry, PutTimeout, PutFailed, Put
<1>6. CopiesCurrent'
  <2>1. pc'[p] = "using" => goal'[p] = "acquire"
    BY DEF PutDone, PutRetry, PutTimeout, PutFailed, Return, Goto, TypeOK
  <2>2. QED
    BY <1>2, <2>1 DEF CopiesCurrent, PutDone, PutRetry, PutTimeout, PutFailed, Put, fw
<1>7. Exclusive' /\ SyncIsExact' BY PutHolds, HoldingKept
<1>8. QED BY <1>1, <1>5, <1>6, <1>7

\* The firmware changes its own half only, to what no port has.
LEMMA FwWriteSync ==
    ASSUME IInv, FwWrite
    PROVE  /\ sync' \in Registers
           /\ sync'.sw = sync.sw
           /\ \/ sync'.fw = {}
              \/ \E m \in SUBSET Resources : m \cap sync.sw = {} /\ sync'.fw = sync.fw \cup m
<1>1. fwcopy = sync
  BY DEF IInv, FwWrite, CopiesCurrent
<1>2. /\ sync = [sw |-> sync.sw, fw |-> sync.fw]
      /\ sync.sw \subseteq Resources /\ sync.fw \subseteq Resources
  BY DEF IInv, TypeOK, Registers
<1>3. ASSUME NEW m \in FwMasks, m \cap sync.sw = {}, sync' = [sync EXCEPT !.fw = sync.fw \cup m]
      PROVE  /\ sync' \in Registers /\ sync'.sw = sync.sw
             /\ \E n \in SUBSET Resources : n \cap sync.sw = {} /\ sync'.fw = sync.fw \cup n
  <2>1. sync' = [sw |-> sync.sw, fw |-> sync.fw \cup m] BY <1>2, <1>3
  <2>2. m \in SUBSET Resources BY MaskAssumption
  <2>3. sync' \in Registers BY <1>2, <2>1, <2>2 DEF Registers
  <2>4. sync'.sw = sync.sw /\ sync'.fw = sync.fw \cup m BY <2>1
  <2>5. QED BY <1>3, <2>2, <2>3, <2>4
<1>4. CASE sync' = [sync EXCEPT !.fw = {}]
  <2>1. sync' = [sw |-> sync.sw, fw |-> {}] BY <1>2, <1>4
  <2>2. sync'.sw = sync.sw /\ sync'.fw = {} BY <2>1
  <2>3. sync' \in Registers BY <1>2, <2>1 DEF Registers
  <2>4. QED BY <2>2, <2>3
<1>5. QED
  BY <1>1, <1>3, <1>4 DEF FwWrite

\* It does so only while no port is in the inner section.
LEMMA FirmwareInv ==
    ASSUME IInv, FwGet \/ FwWrite \/ FwPut
    PROVE  IInv'
<1> USE DEF IInv
<1>1. UNCHANGED <<swsm, port>>
  BY DEF FwGet, FwWrite, FwPut
<1>2. SemaphoreHasOwner'
  BY <1>1 DEF SemaphoreHasOwner, InSection, InInner, swsm, port
<1>3. \A p \in Ports : Held(p)' = Held(p)
  BY <1>1 DEF Held, Has, port
<1>4. CASE FwGet \/ FwPut
  <2>1. TypeOK'
    BY <1>1, <1>4 DEF FwGet, FwPut, TypeOK, swsm, port
  <2>2. CopiesCurrent'
    BY <1>1, <1>4 DEF FwGet, FwPut, CopiesCurrent, swsm, port
  <2>3. Exclusive' /\ SyncIsExact'
    BY <1>3, <1>4, HoldingKept DEF FwGet, FwPut
  <2>4. QED BY <1>2, <2>1, <2>2, <2>3
<1>5. CASE FwWrite
  <2>1. ~swesmbi /\ \A p \in Ports : pc[p] # "write"
    BY <1>5 DEF FwWrite, CopiesCurrent, SemaphoreHasOwner, InInner
  <2>2. TypeOK'
    BY <1>1, <1>5, FwWriteSync DEF FwWrite, TypeOK, Registers, Free, swsm, port
  <2>3. CopiesCurrent'
    BY <1>1, <1>5, <2>1 DEF FwWrite, CopiesCurrent, swsm, port
  <2>4. Exclusive'
    BY <1>3, <1>5, FwWriteSync, HeldIsMarked DEF Exclusive
  <2>5. {Held(p)' : p \in Ports} = {Held(p) : p \in Ports}
    BY <1>3
  <2>6. SyncIsExact'
    BY <1>5, <2>5, FwWriteSync DEF SyncIsExact
  <2>7. QED BY <1>2, <2>2, <2>3, <2>4, <2>6
<1>6. QED BY <1>4, <1>5

\* Every step keeps the invariant.
LEMMA NextInv == IInv /\ [Next]_vars => IInv'
<1> SUFFICES ASSUME IInv, [Next]_vars PROVE IInv'
  OBVIOUS
<1>1. ASSUME NEW p \in Ports, NEW m \in Masks[p], Acquire(p, m) PROVE IInv'
  BY <1>1, CallInv
<1>2. ASSUME NEW p \in Ports, Release(p) PROVE IInv'
  BY <1>2, CallInv
<1>3. ASSUME NEW p \in Ports, PortStep(p) PROVE IInv'
  BY <1>3, GetInv, ReadSyncInv, WriteSyncInv, PutInv DEF PortStep
<1>4. CASE FwGet \/ FwWrite \/ FwPut
  BY <1>4, FirmwareInv
<1>5. CASE UNCHANGED vars
  <2>1. \A p \in Ports : Held(p)' = Held(p)
    BY <1>5 DEF vars, port, Held, Has
  <2>2. Exclusive' /\ SyncIsExact'
    BY <1>5, <2>1, HoldingKept DEF IInv, vars
  <2>3. QED
    BY <1>5, <2>2 DEF IInv, TypeOK, SemaphoreHasOwner, CopiesCurrent, InSection, InInner, vars,
                      swsm, port, fw
<1>6. QED
  BY <1>1, <1>2, <1>3, <1>4, <1>5 DEF Next
-----------------------------------------------------------------------------
\* The invariant holds for any number of ports and any masks.
THEOREM InvCorrect == Spec => []IInv
BY InitInv, NextInv, PTL DEF Spec

\* A resource is never with two ports, or with a port and the firmware.
THEOREM ExclusiveCorrect == Spec => []Exclusive
BY InvCorrect, PTL DEF IInv

\* The software half of SW_FW_SYNC is always exactly what the ports have.
THEOREM SyncIsExactCorrect == Spec => []SyncIsExact
BY InvCorrect, PTL DEF IInv

\* The two bits of SWSM are set exactly while a port is between get and put.
THEOREM SemaphoreHasOwnerCorrect == Spec => []SemaphoreHasOwner
BY InvCorrect, PTL DEF IInv
-----------------------------------------------------------------------------
(* The refinement.                                                         *)

\* At first nobody has anything.
LEMMA LocksInit == Init => Locks!Init
<1> SUFFICES ASSUME Init PROVE Locks!Init OBVIOUS
<1>1. \A p \in Ports : Held(p) = {} BY DEF Init, Held, Has
<1>2. QED BY <1>1 DEF Init, Locks!Init, holds, Free, Agents

\* Where neither the ports' resources nor the firmware's change, nothing does.
LEMMA HoldsKept ==
    ASSUME sync' = sync, \A p \in Ports : Held(p)' = Held(p)
    PROVE  holds' = holds
BY MaskAssumption DEF holds, Agents

\* Writing the register is the taking or the dropping; every other step is invisible.
LEMMA LocksNext == IInv /\ [Next]_vars => [Locks!Next]_holds
<1> SUFFICES ASSUME IInv, [Next]_vars PROVE [Locks!Next]_holds
  OBVIOUS
<1>1. ASSUME NEW p \in Ports, Release(p) \/ \E m \in Masks[p] : Acquire(p, m)
      PROVE  holds' = holds
  BY <1>1, CallHolds, HoldsKept
<1>2. ASSUME NEW p \in Ports, PortStep(p), ~WriteSync(p) PROVE holds' = holds
  BY <1>2, GetHolds, ReadSyncHolds, PutHolds, HoldsKept DEF PortStep
<1>3. ASSUME NEW p \in Ports, WriteSync(p) PROVE Locks!Next
  <2>1. p \in Agents /\ Firmware \in Agents /\ p # Firmware
    BY MaskAssumption DEF Agents
  <2>2. mask[p] \in SUBSET Resources
    BY DEF IInv, TypeOK
  <2>3. holds' = [holds EXCEPT ![p] = Held(p)']
    BY <1>3, <2>1, WriteSyncHolds DEF holds, Agents
  <2>4. CASE goal[p] = "acquire"
    <3>1. \A q \in Ports : Held(q) \cap mask[p] = {}
      BY <1>3, <2>4, WriteSyncHolds, HeldIsMarked DEF IInv
    <3>2. \A a \in Agents : holds[a] \cap mask[p] = {}
      BY <1>3, <2>4, <3>1, WriteSyncHolds DEF holds, Agents
    <3>3. Held(p) = {} /\ Held(p)' = mask[p]
      BY <1>3, <2>4, WriteSyncHolds
    <3>4. holds[p] \cup mask[p] = mask[p]
      BY <2>1, <3>3 DEF holds
    <3>5. holds' = [holds EXCEPT ![p] = @ \cup mask[p]]
      BY <2>3, <3>3, <3>4
    <3>6. QED BY <2>1, <2>2, <3>2, <3>5 DEF Locks!Next, Locks!Take
  <2>5. CASE goal[p] = "release"
    <3>1. holds' = [holds EXCEPT ![p] = @ \ mask[p]]
      BY <1>3, <2>1, <2>3, <2>5, WriteSyncHolds DEF holds
    <3>2. QED BY <2>1, <2>2, <3>1 DEF Locks!Next, Locks!Drop
  <2>6. QED BY <2>4, <2>5 DEF IInv, TypeOK
<1>4. CASE FwGet \/ FwPut
  <2>1. \A p \in Ports : Held(p)' = Held(p)
    BY <1>4 DEF FwGet, FwPut, port, Held, Has
  <2>2. sync' = sync BY <1>4 DEF FwGet, FwPut
  <2>3. QED BY <2>1, <2>2, HoldsKept
<1>5. CASE FwWrite
  <2>1. \A p \in Ports : Held(p)' = Held(p) /\ p # Firmware
    BY <1>5, MaskAssumption DEF FwWrite, port, Held, Has
  <2>2. holds' = [holds EXCEPT ![Firmware] = sync'.fw]
    BY <2>1 DEF holds, Agents
  <2>3. Firmware \in Agents /\ holds[Firmware] = sync.fw
    BY DEF holds, Agents
  <2>4. CASE sync'.fw = {}
    <3>1. sync.fw \in SUBSET Resources BY DEF IInv, TypeOK, Registers
    <3>2. holds' = [holds EXCEPT ![Firmware] = @ \ sync.fw] BY <2>2, <2>3, <2>4
    <3>3. QED BY <2>3, <3>1, <3>2 DEF Locks!Next, Locks!Drop
  <2>5. ASSUME NEW m \in SUBSET Resources, m \cap sync.sw = {}, sync'.fw = sync.fw \cup m
        PROVE  Locks!Next
    <3> DEFINE new == m \ sync.fw
    <3>1. \A a \in Agents : holds[a] \cap new = {}
      BY <2>1, <2>5, HeldIsMarked DEF holds, Agents, IInv
    <3>2. holds' = [holds EXCEPT ![Firmware] = @ \cup new]
      BY <2>2, <2>3, <2>5
    <3>3. QED BY <2>3, <3>1, <3>2 DEF Locks!Next, Locks!Take
  <2>6. QED BY <1>5, <2>4, <2>5, FwWriteSync
<1>6. CASE UNCHANGED vars
  BY <1>6, HoldsKept DEF vars, port, Held, Has
<1>7. QED
  BY <1>1, <1>2, <1>3, <1>4, <1>5, <1>6 DEF Next

\* The protocol implements atomic locks, for any number of ports.
THEOREM ImplementsLocksCorrect == Spec => ImplementsLocks
BY InvCorrect, LocksInit, LocksNext, PTL DEF Spec, ImplementsLocks, Locks!Spec
=============================================================================
