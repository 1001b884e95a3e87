------------------------------- MODULE RxRing -------------------------------
(***************************************************************************)
(* The receive ring of Intel82566MM.cpp: e1000_alloc_rx_buffers,           *)
(* e1000_clean_rx_irq and the adapter's DMA engine, with the parts of      *)
(* enable and disable that touch the ring.                                 *)
(*                                                                         *)
(* All but the DMA engine runs under the work loop's gate.  One turn of    *)
(* e1000_clean_rx_irq's loop is one step: until it writes the tail         *)
(* register, the slot it works on is the driver's alone.                   *)
(*                                                                         *)
(* A replacement buffer can fail in two ways, neither of which is looked   *)
(* at: allocatePacket returns NULL, or getPhysicalSegmentsWithCoalesce     *)
(* finds no segment for the mbuf it returned.  The model goes on with what *)
(* the code then does.  Two ghosts tell the properties what happened:      *)
(* unmapped, the slots whose descriptor was filled in from such a failure  *)
(* (or never), and bufferFailed, whether there ever was one.               *)
(***************************************************************************)
EXTENDS RingIndex, FiniteSets

CONSTANTS Buffers,      \* mbuf identities
          NoBuffer,     \* a NULL skb, or a buffer_addr that is no mbuf's
          Frames,       \* contents of a received frame
          Damaged,      \* a frame reported with errors, without EOP or too short
          Blank,        \* memory no frame was stored in since its mbuf was the stack's
          Garbage,      \* what a vector that was never written may hold
          MaxUnmapped   \* bound: slots that may be without a buffer or its address at once

ASSUME BuffersAssumption == NoBuffer \notin Buffers
ASSUME FramesAssumption == Damaged \notin Frames /\ Blank \notin Frames \cup {Damaged}
ASSUME FailureAssumption == MaxUnmapped \in Nat /\ Garbage \subseteq Buffers \cup {NoBuffer}

VARIABLES
    enabledForNetif,
    next_to_use,      \* rx_ring.next_to_use
    next_to_clean,    \* rx_ring.next_to_clean
    skb,              \* buffer_info[i].skb
    addr,             \* rx_ring.desc[i].buffer_addr: the mbuf it points into
    DD,               \* slots whose status has E1000_RXD_STAT_DD
    bad,              \* slots whose errors, EOP or length make the driver drop the frame
    RDH, RDT,         \* head and tail registers
    rxEn,             \* RCTL.EN
    content,          \* what the memory of each mbuf holds
    owned,            \* mbufs that are the driver's; all others are the network stack's
    gate, cur,        \* e1000_clean_rx_irq running, and its i
    delivered,        \* last frame given to netif->inputPacket
    unmapped,         \* ghost: slots without a buffer, or without its address
    bufferFailed      \* ghost: a buffer or its address could not be had

ring == <<next_to_use, next_to_clean, skb, addr, DD, bad, RDH, RDT>>
ghosts == <<unmapped, bufferFailed>>
vars == <<enabledForNetif, ring, rxEn, content, owned, gate, cur, delivered, ghosts>>

Init ==
    /\ enabledForNetif = FALSE
    /\ next_to_use = 0
    /\ next_to_clean = 0
    /\ skb = [i \in Idx |-> NoBuffer]
    /\ addr = [i \in Idx |-> NoBuffer]
    /\ DD = {}
    /\ bad = {}
    /\ RDH = 0
    /\ RDT = 0
    /\ rxEn = FALSE
    /\ content = [b \in Buffers |-> Blank]
    /\ owned = {}
    /\ gate = "idle"
    /\ cur = 0
    /\ delivered = Blank
    /\ unmapped = {}
    /\ bufferFailed = FALSE
-----------------------------------------------------------------------------
(* Bringing the interface up and down.                                     *)

\* e1000_setup_ring_resources, e1000_configure_rx and e1000_alloc_rx_buffers.  The
\* allocation loop breaks at the first slot (got) it finds no buffer for, or whose buffer
\* has no segment and is freed; next_to_use and the tail are the same however far it came.  RCTL.EN is set by
\* e1000_setup_rctl.
Enable(got, fresh) ==
    /\ gate = "idle"
    /\ ~enabledForNetif
    /\ NUM_RING_FRAME - got <= MaxUnmapped
    /\ \A i, j \in 0 .. got - 1 : fresh[i] \notin owned /\ (fresh[i] = fresh[j] => i = j)
    /\ enabledForNetif' = TRUE
    /\ skb' = [i \in Idx |-> IF i < got THEN fresh[i] ELSE NoBuffer]
    /\ addr' = [i \in Idx |-> IF i < got THEN fresh[i] ELSE NoBuffer]
    /\ owned' = owned \cup {fresh[i] : i \in 0 .. got - 1}
    /\ unmapped' = {i \in Idx : i >= got}
    /\ bufferFailed' = (bufferFailed \/ got < NUM_RING_FRAME)
    /\ next_to_use' = NUM_RING_FRAME - 1
    /\ next_to_clean' = 0
    /\ DD' = {}
    /\ bad' = {}
    /\ RDH' = 0
    /\ RDT' = NUM_RING_FRAME - 2
    /\ rxEn' = TRUE
    /\ UNCHANGED <<content, gate, cur, delivered>>

\* What the memory holds once the stack has taken these mbufs.
Taken(mbufs) == [b \in Buffers |-> IF b \in mbufs THEN Blank ELSE content[b]]

\* disable: RCTL.EN off, e1000_reset, e1000_clean_rx_ring, e1000_free_rx_resources.
Disable ==
    /\ gate = "idle"
    /\ enabledForNetif
    /\ enabledForNetif' = FALSE
    /\ rxEn' = FALSE
    /\ owned' = owned \ {skb[i] : i \in Idx}
    /\ skb' = [i \in Idx |-> NoBuffer]
    /\ addr' = [i \in Idx |-> NoBuffer]
    /\ DD' = {}
    /\ bad' = {}
    /\ next_to_use' = 0
    /\ next_to_clean' = 0
    /\ RDH' = 0
    /\ RDT' = 0
    /\ unmapped' = {}
    /\ content' = Taken({skb[i] : i \in Idx})
    /\ cur' = 0
    /\ UNCHANGED <<gate, delivered, bufferFailed>>

\* timeoutOccurred calls e1000e_enable_receives when the link comes up; its timer is
\* never cancelled, so this happens while the interface is disabled, too.
WatchdogEnablesReceive ==
    /\ gate = "idle"
    /\ rxEn' = TRUE
    /\ UNCHANGED <<enabledForNetif, ring, content, owned, gate, cur, delivered, ghosts>>
-----------------------------------------------------------------------------
(* e1000_clean_rx_irq, called by interruptOccurred.                        *)

CleanBegin ==
    /\ gate = "idle"
    /\ enabledForNetif
    /\ gate' = "clean"
    /\ cur' = next_to_clean
    /\ UNCHANGED <<enabledForNetif, ring, rxEn, content, owned, delivered, ghosts>>

\* Mutant of the step below: the tail register is not written.
RecycleKeepsTail ==
    /\ DD' = DD \ {cur}
    /\ bad' = bad \ {cur}
    /\ next_to_use' = Succ(next_to_use)
    /\ RDT' = RDT
    /\ cur' = Succ(cur)

\* next_desc: the slot goes back to the adapter.
Recycle ==
    /\ DD' = DD \ {cur}
    /\ bad' = bad \ {cur}
    /\ next_to_use' = Succ(next_to_use)
    /\ RDT' = Pred(Succ(next_to_use))
    /\ cur' = Succ(cur)

\* A frame with errors, without EOP or of four bytes or less: same buffer again.
CleanBad ==
    /\ gate = "clean"
    /\ cur \in DD \cap bad
    /\ Recycle
    /\ UNCHANGED <<enabledForNetif, next_to_clean, skb, addr, RDH, rxEn, content, owned,
                   gate, delivered, ghosts>>

\* A good frame: its mbuf goes to the stack and b, just allocated (NoBuffer if that
\* failed), takes its place.
Replace(b) ==
    /\ gate = "clean"
    /\ cur \in DD \ bad
    /\ skb[cur] # NoBuffer
    /\ delivered' = content[skb[cur]]
    /\ b \notin owned \ {skb[cur]}
    /\ owned' = (owned \ {skb[cur]}) \cup ({b} \ {NoBuffer})
    /\ skb' = [skb EXCEPT ![cur] = b]
    /\ Recycle
    /\ content' = Taken({skb[cur]})
    /\ UNCHANGED <<enabledForNetif, next_to_clean, RDH, rxEn, gate>>

\* Mutant: the descriptor keeps pointing into the mbuf the stack now has.
CleanGoodKeepsAddress(b) ==
    /\ Replace(b)
    /\ unmapped' = unmapped \ {cur}
    /\ UNCHANGED <<addr, bufferFailed>>

\* The new mbuf and its address are there.
CleanGood(b) ==
    /\ Replace(b)
    /\ addr' = [addr EXCEPT ![cur] = b]
    /\ unmapped' = unmapped \ {cur}
    /\ UNCHANGED bufferFailed

\* There is no new mbuf (b is NoBuffer) or no segment of it was found.  The count is not
\* looked at: the slot is handed over all the same, and buffer_addr comes from a vector
\* that was never written (any value it may hold).
CleanUnmapped(b, garbage) ==
    /\ Cardinality(unmapped \cup {cur}) <= MaxUnmapped
    /\ Replace(b)
    /\ addr' = [addr EXCEPT ![cur] = garbage]
    /\ unmapped' = unmapped \cup {cur}
    /\ bufferFailed' = TRUE

\* A good frame in a slot without an mbuf: the NULL skb is passed to the stack, which
\* is the end of the kernel.
CleanNull ==
    /\ gate = "clean"
    /\ cur \in DD \ bad
    /\ skb[cur] = NoBuffer
    /\ gate' = "panic"
    /\ UNCHANGED <<enabledForNetif, ring, rxEn, content, owned, cur, delivered, ghosts>>

\* Mutants of the end of the loop: next_to_clean is one too far, or not updated.
CleanEndSkips ==
    /\ gate = "clean"
    /\ cur \notin DD
    /\ next_to_clean' = Succ(cur)
    /\ gate' = "idle"
    /\ UNCHANGED <<enabledForNetif, next_to_use, skb, addr, DD, bad, RDH, RDT, rxEn, content,
                   owned, cur, delivered, ghosts>>
CleanEndForgets ==
    /\ gate = "clean"
    /\ cur \notin DD
    /\ gate' = "idle"
    /\ UNCHANGED <<enabledForNetif, ring, rxEn, content, owned, cur, delivered, ghosts>>

CleanEnd ==
    /\ gate = "clean"
    /\ cur \notin DD
    /\ next_to_clean' = cur
    /\ gate' = "idle"
    /\ UNCHANGED <<enabledForNetif, next_to_use, skb, addr, DD, bad, RDH, RDT, rxEn, content,
                   owned, cur, delivered, ghosts>>
-----------------------------------------------------------------------------
(* The adapter (external): store a frame where the descriptor at the head  *)
(* points to, report it done, advance the head.  At head = tail frames are *)
(* dropped on the wire.  What is stored where is followed until a buffer   *)
(* failed: from then on a frame may land anywhere and nothing is promised  *)
(* of what the stack gets.                                                 *)

HwReceive(f) ==
    /\ rxEn
    /\ gate # "panic"
    /\ RDH # RDT
    /\ content' = [b \in Buffers |->
           IF b = addr[RDH] /\ f # Damaged /\ ~bufferFailed THEN f ELSE content[b]]
    /\ DD' = DD \cup {RDH}
    /\ bad' = IF f = Damaged THEN bad \cup {RDH} ELSE bad \ {RDH}
    /\ RDH' = Succ(RDH)
    /\ UNCHANGED <<enabledForNetif, next_to_use, next_to_clean, skb, addr, RDT, rxEn, owned,
                   gate, cur, delivered, ghosts>>

Next ==
    \/ \E got \in 0 .. NUM_RING_FRAME : \E fresh \in [0 .. got - 1 -> Buffers] : Enable(got, fresh)
    \/ Disable
    \/ WatchdogEnablesReceive
    \/ CleanBegin
    \/ CleanBad
    \/ \E b \in Buffers : CleanGood(b)
    \/ \E b \in Buffers \cup {NoBuffer}, garbage \in Garbage : CleanUnmapped(b, garbage)
    \/ CleanNull
    \/ CleanEnd
    \/ \E f \in Frames \cup {Damaged} : HwReceive(f)

\* A stored frame raises an interrupt, whose handler calls e1000_clean_rx_irq and, like
\* every holder of the gate, runs to its end.  Nothing obliges the wire to bring frames.
Fairness ==
    /\ WF_vars(CleanBegin)
    /\ WF_vars(CleanBad)
    /\ WF_vars(\E b \in Buffers : CleanGood(b))
    /\ WF_vars(CleanNull)
    /\ WF_vars(CleanEnd)

Spec == Init /\ [][Next]_vars
FairSpec == Spec /\ Fairness
-----------------------------------------------------------------------------
(* Properties.                                                             *)

\* Types of every variable, failing buffers included.
TypeOK ==
    /\ enabledForNetif \in BOOLEAN
    /\ next_to_use \in Idx
    /\ next_to_clean \in Idx
    /\ skb \in [Idx -> Buffers \cup {NoBuffer}]
    /\ addr \in [Idx -> Buffers \cup {NoBuffer}]
    /\ DD \subseteq Idx
    /\ bad \subseteq DD
    /\ RDH \in Idx
    /\ RDT \in Idx
    /\ rxEn \in BOOLEAN
    /\ content \in [Buffers -> Frames \cup {Blank}]
    /\ owned \subseteq Buffers
    /\ gate \in {"idle", "clean", "panic"}
    /\ cur \in Idx
    /\ delivered \in Frames \cup {Blank}
    /\ unmapped \subseteq Idx
    /\ bufferFailed \in BOOLEAN

\* the oldest slot not yet looked at, also while e1000_clean_rx_irq runs
Oldest == IF gate = "idle" THEN next_to_clean ELSE cur

\* The adapter stores frames only into mbufs that are the driver's, each of them the
\* mbuf of the slot and of no other slot: no frame lands in memory the stack already
\* has, and no two frames in the same memory.  What failed for one slot harms no other.
DmaIntoOwned ==
    \A k \in Between(RDH, RDT) \ unmapped :
        /\ addr[k] = skb[k]
        /\ skb[k] \in owned
        /\ \A j \in Idx \ {k} : skb[j] # skb[k]

\* The driver owns what is on the ring and nothing else, so that a frame given to the
\* stack is given once, and disable frees every mbuf the driver took.
OwnedIsOnRing == owned = {skb[k] : k \in Idx} \ {NoBuffer}

\* While the interface is up next_to_use stays one slot behind the oldest slot not
\* looked at and the tail register two: three indices kept by separate wraps never
\* drift, the adapter's share of the ring does not shrink and never reaches a slot
\* whose frame has not been taken.
TailTwoBehind ==
    enabledForNetif =>
        /\ next_to_use = Pred(Oldest)
        /\ RDT = Pred(next_to_use)

\* The slots reported done are exactly those the adapter has passed since the oldest
\* one: the loop that stops at the first slot without DD misses none.
DoneIsBacklog == DD = Between(Oldest, RDH)

\* Every stored frame is taken off the ring: no slot is left with one for good, so that
\* the next_to_clean from which an interrupt starts never ends up beside the slots the
\* adapter filled.  A frame in a slot without an mbuf is the end of the kernel.
EveryFrameTaken == \A k \in Idx : []<>(k \notin DD \/ gate = "panic")

\* The adapter is never left without slots for good while the interface is up, whatever
\* buffers could not be had.
NotStarved == []<>(RDH # RDT \/ ~enabledForNetif \/ gate = "panic")
-----------------------------------------------------------------------------
(* The inductive invariant behind the safety properties.                   *)

\* no mbuf is on two slots
OneSlotEach == \A i, j \in Idx : skb[i] = skb[j] /\ skb[i] # NoBuffer => i = j

\* an interface that is up: every slot whose last buffer did not fail has that buffer
\* and its address, and the adapter is between the oldest slot and the tail
UpInv ==
    /\ TailTwoBehind
    /\ Off(Oldest, RDH) <= NUM_RING_FRAME - 2
    /\ \A k \in Idx \ unmapped : skb[k] # NoBuffer /\ addr[k] = skb[k]

\* an interface that is down: an empty ring
DownInv ==
    /\ gate = "idle"
    /\ RDH = next_to_clean
    /\ RDT = next_to_clean
    /\ \A k \in Idx : skb[k] = NoBuffer

\* At every reachable state the variables have their types, the slots done are the
\* backlog, and the mbufs the driver owns are those on the ring, one slot each: the
\* invariant the proofs rest on.
IInv ==
    /\ TypeOK
    /\ DoneIsBacklog
    /\ OwnedIsOnRing
    /\ OneSlotEach
    /\ ~bufferFailed => unmapped = {}
    /\ IF enabledForNetif THEN UpInv ELSE DownInv
=============================================================================
