------------------------------- MODULE TxRing -------------------------------
(***************************************************************************)
(* The transmit ring of Intel82566MM.cpp: outputPacket, e1000_clean_tx_irq *)
(* and the adapter's DMA engine, with the parts of enable, disable and the *)
(* watchdog that touch the ring.                                           *)
(*                                                                         *)
(* outputPacket (through IOGatedOutputQueue), the interrupt handler, the   *)
(* watchdog, enable and disable all run under the work loop's gate, so     *)
(* they exclude one another; the hardware runs beside each of their steps. *)
(* A handler that reads or writes state the hardware shares is therefore   *)
(* split where the hardware can come in between, and "gate" says which one *)
(* is running.  disable is one step: it clears TCTL.EN before it touches   *)
(* the ring, so the hardware has nothing to do in between.                 *)
(*                                                                         *)
(* outputPacket never asks whether the ring has room.  The ghost "overrun" *)
(* remembers that a packet took more descriptors than e1000_desc_unused    *)
(* would have granted; the model goes on from there, and the properties    *)
(* below say what holds as long as the load never did that.                *)
(***************************************************************************)
EXTENDS RingIndex

CONSTANTS TBDS_PER_TCB,     \* segments getPhysicalSegmentsWithCoalesce may return
          Packets,          \* mbuf identities
          NoPacket          \* a NULL skb

ASSUME SegmentsAssumption ==
    TBDS_PER_TCB \in Nat /\ 1 <= TBDS_PER_TCB /\ TBDS_PER_TCB < NUM_RING_FRAME
ASSUME PacketsAssumption == NoPacket \notin Packets

VARIABLES
    enabledForNetif,   \* the flag outputPacket tests
    next_to_use,       \* tx_ring.next_to_use
    next_to_clean,     \* tx_ring.next_to_clean
    next_to_watch,     \* buffer_info[i].next_to_watch
    skb,               \* buffer_info[i].skb
    addr,              \* tx_ring.desc[i].buffer_addr: the packet whose segment it points to
    RS,                \* slots whose lower.data has E1000_TXD_CMD_RS
    DD,                \* slots whose upper.data has E1000_TXD_STAT_DD
    TDH, TDT,          \* head and tail registers
    txEn,              \* TCTL.EN
    gate,              \* what runs under the work loop gate
    cur,               \* outputPacket's "first", e1000_clean_tx_irq's "i"
    pkt,               \* outputPacket's argument while it runs
    held,              \* mbufs the driver owns: accepted and not yet given to freePacket
    abandoned,         \* ghost: held mbufs whose last reference disable has zeroed
    overrun            \* ghost: see above

swVars == <<next_to_use, next_to_clean, next_to_watch, skb>>
desc   == <<addr, RS, DD>>
ghosts == <<abandoned, overrun>>
vars   == <<enabledForNetif, swVars, desc, TDH, TDT, txEn, gate, cur, pkt, held, ghosts>>

\* the ring as e1000_setup_ring_resources, e1000_configure_tx and
\* e1000_clean_tx_ring leave it
RingZeroed ==
    /\ next_to_use' = 0
    /\ next_to_clean' = 0
    /\ next_to_watch' = [i \in Idx |-> 0]
    /\ skb' = [i \in Idx |-> NoPacket]
    /\ addr' = [i \in Idx |-> NoPacket]
    /\ RS' = {}
    /\ DD' = {}
    /\ TDH' = 0
    /\ TDT' = 0

Init ==
    /\ enabledForNetif = FALSE
    /\ next_to_use = 0
    /\ next_to_clean = 0
    /\ next_to_watch = [i \in Idx |-> 0]
    /\ skb = [i \in Idx |-> NoPacket]
    /\ addr = [i \in Idx |-> NoPacket]
    /\ RS = {}
    /\ DD = {}
    /\ TDH = 0
    /\ TDT = 0
    /\ txEn = FALSE
    /\ gate = "idle"
    /\ cur = 0
    /\ pkt = NoPacket
    /\ held = {}
    /\ abandoned = {}
    /\ overrun = FALSE
-----------------------------------------------------------------------------
(* Bringing the interface up and down.                                     *)

\* enable: fresh ring; TCTL.EN is set at once if e1000_has_link finds a link
\* within its polling loop, and is otherwise left as it is.
Enable ==
    /\ gate = "idle"
    /\ ~enabledForNetif
    /\ enabledForNetif' = TRUE
    /\ RingZeroed
    /\ txEn' \in {txEn, TRUE}
    /\ UNCHANGED <<gate, cur, pkt, held, ghosts>>

\* enable when a ring cannot be allocated: err_setup_rx / err_setup_tx reset the chip.
EnableFails ==
    /\ gate = "idle"
    /\ ~enabledForNetif
    /\ txEn' = FALSE
    /\ UNCHANGED <<enabledForNetif, swVars, desc, TDH, TDT, gate, cur, pkt, held, ghosts>>

\* timeoutOccurred when the link is up and was not at its last run.  The timer is
\* never cancelled, so this happens while the interface is disabled, too.
WatchdogEnablesTransmit ==
    /\ gate = "idle"
    /\ txEn' = TRUE
    /\ UNCHANGED <<enabledForNetif, swVars, desc, TDH, TDT, gate, cur, pkt, held, ghosts>>

\* Mutant: TCTL.EN is left on and the ring's registers keep their values.
DisableKeepsRegisters ==
    /\ gate = "idle"
    /\ enabledForNetif
    /\ enabledForNetif' = FALSE
    /\ next_to_use' = 0
    /\ next_to_clean' = 0
    /\ next_to_watch' = [i \in Idx |-> 0]
    /\ skb' = [i \in Idx |-> NoPacket]
    /\ abandoned' = held
    /\ UNCHANGED <<desc, TDH, TDT, txEn, gate, cur, pkt, held, overrun>>

\* disable: TCTL.EN off, then e1000_reset, e1000_clean_tx_ring and
\* e1000_free_tx_resources.  buffer_info is zeroed and no skb is freed.  (The network
\* family disables only an interface it has enabled.)
Disable ==
    /\ gate = "idle"
    /\ enabledForNetif
    /\ enabledForNetif' = FALSE
    /\ txEn' = FALSE
    /\ RingZeroed
    /\ abandoned' = held
    /\ UNCHANGED <<gate, cur, pkt, held, overrun>>
-----------------------------------------------------------------------------
(* outputPacket.                                                           *)

\* The packets it drops at once (interface not enabled, empty mbuf, no segments)
\* are freed without touching the ring: no step.  An accepted packet of n
\* segments fills n descriptors, the last one with txd_cmd (EOP, IFCS, RS), and
\* the tail register is written.
FilledSlots(n) == {k \in Idx : Off(next_to_use, k) < n}

OutputDescriptors(p, n) ==
    /\ gate = "idle"
    /\ enabledForNetif
    /\ p \notin held
    /\ gate' = "output"
    /\ cur' = next_to_use
    /\ pkt' = p
    /\ held' = held \cup {p}
    /\ next_to_watch' = [k \in Idx |-> IF k \in FilledSlots(n) THEN k ELSE next_to_watch[k]]
    /\ skb' = [k \in Idx |-> IF k \in FilledSlots(n) THEN NoPacket ELSE skb[k]]
    /\ addr' = [k \in Idx |-> IF k \in FilledSlots(n) THEN p ELSE addr[k]]
    /\ RS' = (RS \ FilledSlots(n)) \cup {Ahead(next_to_use, n - 1)}
    /\ DD' = DD \ FilledSlots(n)
    /\ next_to_use' = Ahead(next_to_use, n)
    /\ TDT' = Ahead(next_to_use, n)
    /\ overrun' = (overrun \/ n > Unused(next_to_clean, next_to_use))
    /\ UNCHANGED <<enabledForNetif, next_to_clean, TDH, txEn, abandoned>>

\* Mutant: the first slot keeps watching itself.
OutputAttachUnwatched ==
    /\ gate = "output"
    /\ skb' = [skb EXCEPT ![Pred(next_to_use)] = pkt]
    /\ gate' = "idle"
    /\ pkt' = NoPacket
    /\ UNCHANGED <<enabledForNetif, next_to_use, next_to_clean, next_to_watch, desc, TDH, TDT,
                   txEn, cur, held, ghosts>>

\* After the tail write: the mbuf is attached to the packet's last slot, and the
\* first slot watches the last one.
OutputAttach ==
    /\ gate = "output"
    /\ skb' = [skb EXCEPT ![Pred(next_to_use)] = pkt]
    /\ next_to_watch' = [next_to_watch EXCEPT ![cur] = Pred(next_to_use)]
    /\ gate' = "idle"
    /\ pkt' = NoPacket
    /\ UNCHANGED <<enabledForNetif, next_to_use, next_to_clean, desc, TDH, TDT, txEn,
                   cur, held, ghosts>>
-----------------------------------------------------------------------------
(* e1000_clean_tx_irq, called by interruptOccurred.                        *)

CleanBegin ==
    /\ gate = "idle"
    /\ enabledForNetif
    /\ gate' = "clean"
    /\ cur' = next_to_clean
    /\ UNCHANGED <<enabledForNetif, swVars, desc, TDH, TDT, txEn, pkt, held, ghosts>>

\* Mutants of the turn below: DD is not tested; the skb is forgotten without freePacket.
CleanPacketUntested ==
    /\ gate = "clean"
    /\ cur # next_to_use
    /\ LET slots == Through(cur, next_to_watch[cur])
       IN /\ held' = held \ {skb[k] : k \in slots}
          /\ skb' = [k \in Idx |-> IF k \in slots THEN NoPacket ELSE skb[k]]
          /\ DD' = DD \ slots
          /\ cur' = Succ(next_to_watch[cur])
    /\ UNCHANGED <<enabledForNetif, next_to_use, next_to_clean, next_to_watch, addr, RS,
                   TDH, TDT, txEn, gate, pkt, ghosts>>
CleanPacketForgets ==
    /\ gate = "clean"
    /\ next_to_watch[cur] \in DD
    /\ LET slots == Through(cur, next_to_watch[cur])
       IN /\ skb' = [k \in Idx |-> IF k \in slots THEN NoPacket ELSE skb[k]]
          /\ DD' = DD \ slots
          /\ cur' = Succ(next_to_watch[cur])
    /\ UNCHANGED <<enabledForNetif, next_to_use, next_to_clean, next_to_watch, addr, RS,
                   TDH, TDT, txEn, gate, pkt, held, ghosts>>

\* One turn of the while loop: DD of the watched descriptor is set, so every slot
\* from cur through that one is released.
CleanPacket ==
    /\ gate = "clean"
    /\ LET eop   == next_to_watch[cur]
           slots == Through(cur, eop)
       IN /\ eop \in DD
          /\ held' = held \ {skb[k] : k \in slots}
          /\ skb' = [k \in Idx |-> IF k \in slots THEN NoPacket ELSE skb[k]]
          /\ DD' = DD \ slots
          /\ cur' = Succ(eop)
    /\ UNCHANGED <<enabledForNetif, next_to_use, next_to_clean, next_to_watch, addr, RS,
                   TDH, TDT, txEn, gate, pkt, ghosts>>

\* Mutant of the end of the loop: next_to_clean is one too far.
CleanEndSkips ==
    /\ gate = "clean"
    /\ next_to_watch[cur] \notin DD
    /\ next_to_clean' = Succ(cur)
    /\ gate' = "idle"
    /\ UNCHANGED <<enabledForNetif, next_to_use, next_to_watch, skb, desc, TDH, TDT, txEn,
                   cur, pkt, held, ghosts>>

CleanEnd ==
    /\ gate = "clean"
    /\ next_to_watch[cur] \notin DD
    /\ next_to_clean' = cur
    /\ gate' = "idle"
    /\ UNCHANGED <<enabledForNetif, next_to_use, next_to_watch, skb, desc, TDH, TDT, txEn,
                   cur, pkt, held, ghosts>>
-----------------------------------------------------------------------------
(* The adapter (external): fetch the descriptor at the head, send its      *)
(* segment, report DD if RS asks for it, advance the head.                 *)

HwTransmit ==
    /\ txEn
    /\ TDH # TDT
    /\ DD' = IF TDH \in RS THEN DD \cup {TDH} ELSE DD
    /\ TDH' = Succ(TDH)
    /\ UNCHANGED <<enabledForNetif, swVars, addr, RS, TDT, txEn, gate, cur, pkt, held, ghosts>>

Next ==
    \/ Enable
    \/ EnableFails
    \/ WatchdogEnablesTransmit
    \/ Disable
    \/ \E p \in Packets, n \in 1 .. TBDS_PER_TCB : OutputDescriptors(p, n)
    \/ OutputAttach
    \/ CleanBegin
    \/ CleanPacket
    \/ CleanEnd
    \/ HwTransmit

\* The adapter sends what it is given while TCTL.EN is set; a handler that holds the
\* gate runs to its end; a reported descriptor raises an interrupt whose handler
\* calls e1000_clean_tx_irq.
Fairness ==
    /\ WF_vars(HwTransmit)
    /\ WF_vars(OutputAttach)
    /\ WF_vars(CleanBegin)
    /\ WF_vars(CleanPacket)
    /\ WF_vars(CleanEnd)

Spec == Init /\ [][Next]_vars
FairSpec == Spec /\ Fairness
-----------------------------------------------------------------------------
(* Properties.                                                             *)

\* Types of every variable, at any load.
TypeOK ==
    /\ enabledForNetif \in BOOLEAN
    /\ next_to_use \in Idx
    /\ next_to_clean \in Idx
    /\ next_to_watch \in [Idx -> Idx]
    /\ skb \in [Idx -> Packets \cup {NoPacket}]
    /\ addr \in [Idx -> Packets \cup {NoPacket}]
    /\ RS \subseteq Idx
    /\ DD \subseteq Idx
    /\ TDH \in Idx
    /\ TDT \in Idx
    /\ txEn \in BOOLEAN
    /\ gate \in {"idle", "output", "clean"}
    /\ cur \in Idx
    /\ pkt \in Packets \cup {NoPacket}
    /\ (gate = "output") <=> (pkt # NoPacket)
    /\ held \subseteq Packets
    /\ abandoned \subseteq Packets
    /\ overrun \in BOOLEAN

\* The oldest slot not yet reclaimed, also while e1000_clean_tx_irq runs, and the
\* slot after the last packet attached, also while outputPacket runs.
Oldest  == IF gate = "clean" THEN cur ELSE next_to_clean
Commit == IF gate = "output" THEN cur ELSE next_to_use

\* The adapter reads only mbufs the driver still owns: no descriptor between head
\* and tail names a packet already given to freePacket.  e1000_clean_tx_irq frees a
\* whole packet on the DD of one descriptor, so this is what DD, next_to_watch and
\* the order of outputPacket's writes have to guarantee together.
HwReadsHeld ==
    ~overrun => \A k \in Between(TDH, TDT) : addr[k] \in held

\* Every mbuf the driver owns can still be found, on the ring or as the packet
\* outputPacket is working on (but for those disable dropped): nothing leaks while
\* the interface runs, and nothing is on the ring that was freed.
NothingLost ==
    ~overrun => held \ abandoned = ({skb[k] : k \in Idx} \cup {pkt}) \ {NoPacket}

\* A descriptor reported done is the last one of a packet still on the ring, so the
\* DD that e1000_clean_tx_irq finds through a next_to_watch left over from an earlier
\* lap never makes it release slots again.
DoneIsAttached ==
    ~overrun => \A k \in DD :
        \/ skb[k] # NoPacket
        \/ gate = "output" /\ k = Pred(next_to_use)

\* Whatever lies outside next_to_clean .. next_to_use is free: no packet is attached
\* there and the adapter has nothing left to send there.  e1000_desc_unused counts on it.
OutsideIsFree ==
    ~overrun => /\ \A k \in Idx : skb[k] # NoPacket => k \in Between(Oldest, next_to_use)
                /\ Between(TDH, TDT) \subseteq Between(Oldest, next_to_use)

\* outputPacket, as its last comment says, makes "sure there is space in the ring for
\* the next send": no packet ever takes more descriptors than e1000_desc_unused grants.
SpaceForSend == ~overrun

\* Every packet put on the ring is given back, unless the interface goes down or
\* the ring is overrun, as long as the transmitter is on: DD, next_to_watch and
\* next_to_clean never leave the reclaiming stuck behind a packet already sent.
EverySentReclaimed ==
    \A p \in Packets :
        (p \in held \ abandoned /\ txEn) ~> (p \notin held \/ p \in abandoned \/ overrun)
-----------------------------------------------------------------------------
(* The inductive invariant behind the safety properties: what the ring     *)
(* looks like as long as it was never overrun.                             *)

Attached == Between(Oldest, Commit)     \* slots of packets whose mbuf is attached
Live     == Between(Oldest, next_to_use)  \* and those of the packet being put

\* mbufs sit on attached slots only, and the slot's descriptor is of the same packet
SkbOnAttached ==
    \A k \in Idx : skb[k] # NoPacket => k \in Attached /\ addr[k] = skb[k]

\* every attached descriptor belongs to a packet whose mbuf is on that slot or later
MbufFollows ==
    \A k \in Attached : \E e \in Attached :
        Off(Oldest, k) <= Off(Oldest, e) /\ skb[e] = addr[k] /\ skb[e] # NoPacket

\* no descriptor of a packet comes after the slot of its mbuf
NoneAfterMbuf ==
    \A k, e \in Attached :
        skb[e] # NoPacket /\ addr[k] = skb[e] => Off(Oldest, k) <= Off(Oldest, e)

\* the packet being put: all its descriptors name it and no slot carries it yet
BeingPut ==
    gate = "output" =>
        /\ pkt \in held \ abandoned
        /\ cur \in Live
        /\ \A k \in Idx : skb[k] # pkt
        /\ \A k \in Live \ Attached : addr[k] = pkt

\* the first slot of a packet watches its last one, the first from there with an mbuf
FirstWatchesLast ==
    \A k \in Attached :
        k = Oldest \/ skb[Pred(k)] # NoPacket =>
            /\ skb[next_to_watch[k]] # NoPacket
            /\ Off(Oldest, k) <= Off(Oldest, next_to_watch[k])
            /\ \A e \in Idx :
                  skb[e] # NoPacket /\ Off(Oldest, k) <= Off(Oldest, e)
                    => Off(Oldest, next_to_watch[k]) <= Off(Oldest, e)

\* only a packet's last live descriptor asks for a report
ReportOnLast ==
    \A k \in Live \cap RS :
        skb[k] # NoPacket \/ (gate = "output" /\ k = Pred(next_to_use))

\* a report is of a last descriptor the adapter has passed
DoneBehindHead ==
    \A k \in DD :
        /\ k \in Between(Oldest, TDH)
        /\ skb[k] # NoPacket \/ (gate = "output" /\ k = Pred(next_to_use))

\* the adapter is between the oldest slot and next_to_use
HeadInLive ==
    /\ TDT = next_to_use
    /\ Off(Oldest, TDH) <= Off(Oldest, next_to_use)

\* a disabled interface has an empty ring
DownIsEmpty ==
    ~enabledForNetif => gate = "idle" /\ next_to_use = next_to_clean

RingInv ==
    /\ SkbOnAttached
    /\ MbufFollows
    /\ NoneAfterMbuf
    /\ BeingPut
    /\ FirstWatchesLast
    /\ ReportOnLast
    /\ DoneBehindHead
    /\ HeadInLive
    /\ DownIsEmpty
    /\ abandoned \subseteq held
    /\ held \ abandoned = ({skb[k] : k \in Idx} \cup {pkt}) \ {NoPacket}

\* At every reachable state the variables have their types and, unless the ring was
\* overrun, the ring is a sequence of whole packets: the invariant the proofs rest on.
IInv == TypeOK /\ (~overrun => RingInv)
=============================================================================
