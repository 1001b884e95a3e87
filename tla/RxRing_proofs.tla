--------------------------- MODULE RxRing_proofs ---------------------------
(***************************************************************************)
(* What holds of the receive ring for every ring size and every set of     *)
(* mbufs and frames.                                                       *)
(***************************************************************************)
EXTENDS RxRingRefinement, TLAPS

USE RingSizeAssumption, BuffersAssumption, FramesAssumption, FailureAssumption

(* Facts about the index arithmetic of RingIndex, for every ring size.     *)

\* Stepping forward, back or by n stays on the ring ("if (j == NUM_RING_FRAME) j = 0").
LEMMA StepsStayOnRing ==
    ASSUME NEW i \in Idx
    PROVE  /\ Succ(i) \in Idx
           /\ Pred(i) \in Idx
           /\ \A n \in 0 .. NUM_RING_FRAME : Ahead(i, n) \in Idx
  BY RingSizeAssumption DEF Idx, Succ, Pred, Ahead

\* Off is a distance of fewer than NUM_RING_FRAME steps, and tells slots apart.
LEMMA OffIsDistance ==
    ASSUME NEW a \in Idx, NEW k \in Idx
    PROVE  /\ Off(a, k) \in Idx
           /\ Off(a, k) = 0 <=> k = a
           /\ \A m \in Idx : Off(a, k) = Off(a, m) => k = m
  BY RingSizeAssumption DEF Idx, Off

\* From a slot to itself there is nothing in between.
LEMMA BetweenSelf == \A a \in Idx : Between(a, a) = {}
  BY RingSizeAssumption DEF Between, Off, Idx

\* A step forward and a step back undo each other.
LEMMA PredSucc ==
    ASSUME NEW i \in Idx
    PROVE  Pred(Succ(i)) = i /\ Succ(Pred(i)) = i
  BY RingSizeAssumption DEF Idx, Succ, Pred

\* Two steps back from the origin are all but two steps forward.
LEMMA OffTwoBehind ==
    ASSUME NEW a \in Idx
    PROVE  Pred(Pred(a)) \in Idx /\ Off(a, Pred(Pred(a))) = NUM_RING_FRAME - 2
  BY RingSizeAssumption DEF Idx, Off, Pred

\* Taking the first slot off an interval.
LEMMA BetweenTail ==
    ASSUME NEW a \in Idx, NEW b \in Idx, a # b
    PROVE  /\ a \in Between(a, b)
           /\ Between(Succ(a), b) = Between(a, b) \ {a}
           /\ Off(Succ(a), b) = Off(a, b) - 1
  BY RingSizeAssumption DEF Idx, Off, Succ, Between

\* Adding a slot at the far end of an interval.
LEMMA BetweenGrow ==
    ASSUME NEW a \in Idx, NEW b \in Idx, Off(a, b) + 1 < NUM_RING_FRAME
    PROVE  /\ Between(a, Succ(b)) = Between(a, b) \cup {b}
           /\ Off(a, Succ(b)) = Off(a, b) + 1
  BY RingSizeAssumption DEF Idx, Off, Succ, Between
-----------------------------------------------------------------------------
\* Every step keeps the types.
LEMMA TypeStep == TypeOK /\ [Next]_vars => TypeOK'
<1> SUFFICES ASSUME TypeOK, [Next]_vars PROVE TypeOK'
  OBVIOUS
<1> USE DEF TypeOK
<1>0. 0 \in Idx /\ NUM_RING_FRAME - 1 \in Idx /\ NUM_RING_FRAME - 2 \in Idx
  BY DEF Idx
<1>1. ASSUME NEW got \in 0 .. NUM_RING_FRAME, NEW fresh \in [0 .. got - 1 -> Buffers],
             Enable(got, fresh)
      PROVE  TypeOK'
  <2>1. \A i \in Idx : i < got => fresh[i] \in Buffers
    BY DEF Idx
  <2>2. skb' \in [Idx -> Buffers \cup {NoBuffer}] /\ addr' \in [Idx -> Buffers \cup {NoBuffer}]
    BY <1>1, <2>1 DEF Enable
  <2>3. owned' \subseteq Buffers
    BY <1>1 DEF Enable
  <2>4. bufferFailed' \in BOOLEAN
    BY <1>1, Zenon DEF Enable
  <2>5. unmapped' \subseteq Idx
    BY <1>1 DEF Enable
  <2> QED
    BY <1>0, <1>1, <2>2, <2>3, <2>4, <2>5 DEF Enable
<1>2. CASE Disable
  BY <1>0, <1>2 DEF Disable, Taken
<1>3. CASE WatchdogEnablesReceive
  BY <1>3 DEF WatchdogEnablesReceive, ring, ghosts
<1>4. CASE CleanBegin
  BY <1>4 DEF CleanBegin, ring, ghosts
<1>5. CASE CleanBad
  BY <1>5, StepsStayOnRing DEF CleanBad, Recycle, ghosts
<1>6. ASSUME NEW b \in Buffers, CleanGood(b) PROVE TypeOK'
  BY <1>6, StepsStayOnRing DEF CleanGood, Replace, Taken, Recycle
<1>7. ASSUME NEW b \in Buffers \cup {NoBuffer}, NEW garbage \in Garbage, CleanUnmapped(b, garbage)
      PROVE  TypeOK'
  BY <1>7, StepsStayOnRing DEF CleanUnmapped, Replace, Taken, Recycle
<1>8. CASE CleanNull
  BY <1>8 DEF CleanNull, ring, ghosts
<1>9. CASE CleanEnd
  BY <1>9 DEF CleanEnd, ghosts
<1>10. ASSUME NEW f \in Frames \cup {Damaged}, HwReceive(f) PROVE TypeOK'
  <2>1. content' \in [Buffers -> Frames \cup {Blank}]
    BY <1>10 DEF HwReceive
  <2> QED
    BY <1>10, <2>1, StepsStayOnRing DEF HwReceive, ghosts
<1>11. CASE UNCHANGED vars
  BY <1>11 DEF vars, ring, ghosts
<1> QED
  BY <1>1, <1>2, <1>3, <1>4, <1>5, <1>6, <1>7, <1>8, <1>9, <1>10, <1>11 DEF Next
-----------------------------------------------------------------------------
(* The ring part of IInv, action by action.                                *)

RingPart ==
    /\ DoneIsBacklog
    /\ OwnedIsOnRing
    /\ OneSlotEach
    /\ ~bufferFailed => unmapped = {}
    /\ IF enabledForNetif THEN UpInv ELSE DownInv

\* Steps that leave the ring, the mbufs and the oldest slot alone.
LEMMA Untouched ==
    ASSUME RingPart, Oldest' = Oldest, enabledForNetif \/ gate' = gate,
           enabledForNetif \/ next_to_clean' = next_to_clean,
           UNCHANGED <<enabledForNetif, next_to_use, skb, addr, DD, RDH, RDT, owned, unmapped, bufferFailed>>
    PROVE  RingPart'
  BY DEF RingPart, DoneIsBacklog, OwnedIsOnRing, OneSlotEach, UpInv, DownInv, TailTwoBehind, Between

\* A fresh ring.
LEMMA RingEnable ==
    ASSUME TypeOK, RingPart, NEW got \in 0 .. NUM_RING_FRAME,
           NEW fresh \in [0 .. got - 1 -> Buffers], Enable(got, fresh)
    PROVE  RingPart'
<1>1. gate = "idle" /\ ~enabledForNetif /\ owned = {}
  BY DEF Enable, RingPart, DownInv, OwnedIsOnRing
<1>2. /\ 0 \in Idx /\ Off(0, 0) = 0 /\ Between(0, 0) = {}
      /\ Pred(0) = NUM_RING_FRAME - 1 /\ Pred(NUM_RING_FRAME - 1) = NUM_RING_FRAME - 2
  BY DEF Idx, Off, Pred, Between
<1>3. Oldest' = 0 /\ enabledForNetif' /\ RDH' = 0 /\ DD' = {}
  BY <1>1 DEF Oldest, Enable
<1>4. DoneIsBacklog' /\ TailTwoBehind'
  BY <1>2, <1>3 DEF DoneIsBacklog, TailTwoBehind, Between, Enable
<1>5. \A i \in Idx : skb'[i] = (IF i < got THEN fresh[i] ELSE NoBuffer) /\ addr'[i] = skb'[i]
  BY DEF Enable
<1>6. /\ \A i \in 0 .. got - 1 : i \in Idx /\ i < got /\ fresh[i] \in Buffers
      /\ \A i \in Idx : i < got => i \in 0 .. got - 1
  BY DEF Idx
<1>7. OwnedIsOnRing'
  BY <1>1, <1>5, <1>6 DEF Enable, OwnedIsOnRing
<1>8. OneSlotEach'
  BY <1>5, <1>6 DEF Enable, OneSlotEach
<1>9. \A k \in Idx \ unmapped' : skb'[k] # NoBuffer /\ addr'[k] = skb'[k]
  <2>1. \A k \in Idx \ unmapped' : k < got
    BY DEF Idx, Enable
  <2> QED
    BY <1>5, <1>6, <2>1
<1>10. ~bufferFailed' => unmapped' = {}
  <2>1. ~bufferFailed' => ~(got < NUM_RING_FRAME)
    BY Zenon DEF Enable
  <2>2. ~(got < NUM_RING_FRAME) => \A k \in Idx : ~(k >= got)
    BY DEF Idx
  <2> QED
    BY <2>1, <2>2 DEF Enable
<1> QED
  BY <1>2, <1>3, <1>4, <1>7, <1>8, <1>9, <1>10 DEF RingPart, UpInv

LEMMA RingDisable == TypeOK /\ RingPart /\ Disable => RingPart'
<1> SUFFICES ASSUME TypeOK, RingPart, Disable PROVE RingPart'
  OBVIOUS
<1>1. 0 \in Idx /\ Between(0, 0) = {} /\ Oldest' = 0
  BY BetweenSelf DEF Idx, Disable, Oldest
<1>2. \A i \in Idx : skb'[i] = NoBuffer
  BY DEF Disable
<1>3. owned' = {}
  BY DEF Disable, RingPart, OwnedIsOnRing, TypeOK
<1> QED
  BY <1>1, <1>2, <1>3 DEF Disable, RingPart, DoneIsBacklog, Between, OwnedIsOnRing, OneSlotEach, DownInv

\* What every turn of the clean loop does to the indices.
LEMMA RingRecycle ==
    ASSUME TypeOK, RingPart, gate = "clean", gate' = "clean", cur \in DD, Recycle,
           RDH' = RDH, enabledForNetif' = enabledForNetif
    PROVE  /\ enabledForNetif /\ DoneIsBacklog' /\ TailTwoBehind'
           /\ (Off(Oldest, RDH) <= NUM_RING_FRAME - 2)'
<1>1. /\ enabledForNetif /\ Oldest = cur /\ Oldest' = Succ(cur) /\ cur \in Idx /\ RDH \in Idx
      /\ Succ(cur) \in Idx
  BY StepsStayOnRing DEF RingPart, DownInv, Oldest, Recycle, TypeOK
<1>2. cur # RDH
  BY <1>1, BetweenSelf DEF RingPart, DoneIsBacklog
<1>3. /\ Between(Succ(cur), RDH) = Between(cur, RDH) \ {cur}
      /\ Off(Succ(cur), RDH) = Off(cur, RDH) - 1
  BY <1>1, <1>2, BetweenTail
<1>4. DoneIsBacklog'
  BY <1>1, <1>3 DEF RingPart, DoneIsBacklog, Recycle, Between
<1>5. next_to_use = Pred(cur) /\ Succ(next_to_use) = cur /\ Pred(Succ(cur)) = cur
  BY <1>1, PredSucc DEF RingPart, UpInv, TailTwoBehind
<1>6. TailTwoBehind'
  BY <1>1, <1>5 DEF TailTwoBehind, Recycle
<1>7. Off(Succ(cur), RDH) <= NUM_RING_FRAME - 2
  <2>1. Off(cur, RDH) <= NUM_RING_FRAME - 2 /\ Off(cur, RDH) \in Int
    BY <1>1, OffIsDistance DEF RingPart, UpInv, Idx
  <2> QED
    BY <1>3, <2>1
<1> QED
  BY <1>1, <1>4, <1>6, <1>7

LEMMA RingCleanBad == TypeOK /\ RingPart /\ CleanBad => RingPart'
<1> SUFFICES ASSUME TypeOK, RingPart, CleanBad PROVE RingPart'
  OBVIOUS
<1>1. /\ enabledForNetif /\ DoneIsBacklog' /\ TailTwoBehind'
      /\ (Off(Oldest, RDH) <= NUM_RING_FRAME - 2)'
  BY RingRecycle DEF CleanBad
<1>2. UNCHANGED <<enabledForNetif, skb, addr, owned, unmapped, bufferFailed>>
  BY DEF CleanBad, ghosts
<1> QED
  BY <1>1, <1>2 DEF RingPart, OwnedIsOnRing, OneSlotEach, UpInv

\* A frame given to the stack, and what took its mbuf's place.
LEMMA RingReplace ==
    ASSUME TypeOK, RingPart, NEW b \in Buffers \cup {NoBuffer}, Replace(b)
    PROVE  /\ enabledForNetif /\ enabledForNetif' /\ DoneIsBacklog' /\ TailTwoBehind'
           /\ (Off(Oldest, RDH) <= NUM_RING_FRAME - 2)'
           /\ OwnedIsOnRing' /\ OneSlotEach'
           /\ cur \in Idx /\ \A k \in Idx : skb'[k] = IF k = cur THEN b ELSE skb[k]
<1>1. /\ enabledForNetif /\ enabledForNetif' /\ DoneIsBacklog' /\ TailTwoBehind'
      /\ (Off(Oldest, RDH) <= NUM_RING_FRAME - 2)'
  BY RingRecycle DEF Replace
<1>2. /\ cur \in Idx /\ skb[cur] # NoBuffer
      /\ \A k \in Idx : skb'[k] = IF k = cur THEN b ELSE skb[k]
  BY DEF Replace, TypeOK
<1>3. \A k \in Idx \ {cur} : (skb[k] # b \/ b = NoBuffer) /\ skb[k] # skb[cur]
  <2>1. \A k \in Idx : skb[k] # NoBuffer => skb[k] \in owned
    BY DEF RingPart, OwnedIsOnRing
  <2>2. \A k \in Idx \ {cur} : skb[k] # skb[cur]
    BY <1>2 DEF RingPart, OneSlotEach
  <2> QED
    BY <1>2, <2>1, <2>2 DEF Replace
<1>4. OneSlotEach'
  BY <1>2, <1>3 DEF RingPart, OneSlotEach
<1>5. OwnedIsOnRing'
  <2>1. owned = {skb[k] : k \in Idx} \ {NoBuffer}
    BY DEF RingPart, OwnedIsOnRing
  <2>2. owned' = (owned \ {skb[cur]}) \cup ({b} \ {NoBuffer})
    BY DEF Replace
  <2>3. {skb'[k] : k \in Idx} \ {NoBuffer}
            = (({skb[k] : k \in Idx} \ {NoBuffer}) \ {skb[cur]}) \cup ({b} \ {NoBuffer})
    BY <1>2, <1>3
  <2> QED
    BY <2>1, <2>2, <2>3 DEF OwnedIsOnRing
<1> QED
  BY <1>1, <1>2, <1>4, <1>5

LEMMA RingCleanGood ==
    ASSUME TypeOK, RingPart, NEW b \in Buffers, CleanGood(b)
    PROVE  RingPart'
<1>1. Replace(b) /\ b # NoBuffer
  BY DEF CleanGood
<1>2. /\ enabledForNetif /\ enabledForNetif' /\ DoneIsBacklog' /\ TailTwoBehind'
      /\ (Off(Oldest, RDH) <= NUM_RING_FRAME - 2)'
      /\ OwnedIsOnRing' /\ OneSlotEach'
      /\ cur \in Idx /\ \A k \in Idx : skb'[k] = IF k = cur THEN b ELSE skb[k]
  BY <1>1, RingReplace
<1>3. \A k \in Idx \ unmapped' : skb'[k] # NoBuffer /\ addr'[k] = skb'[k]
  BY <1>1, <1>2 DEF CleanGood, RingPart, UpInv, TypeOK
<1>4. ~bufferFailed' => unmapped' = {}
  BY DEF CleanGood, RingPart
<1> QED
  BY <1>2, <1>3, <1>4 DEF RingPart, UpInv

\* The slot whose buffer failed is in unmapped; the others are as they were.
LEMMA RingCleanUnmapped ==
    ASSUME TypeOK, RingPart, NEW b \in Buffers \cup {NoBuffer}, NEW garbage,
           CleanUnmapped(b, garbage)
    PROVE  RingPart'
<1>1. /\ enabledForNetif /\ enabledForNetif' /\ DoneIsBacklog' /\ TailTwoBehind'
      /\ (Off(Oldest, RDH) <= NUM_RING_FRAME - 2)'
      /\ OwnedIsOnRing' /\ OneSlotEach'
      /\ cur \in Idx /\ \A k \in Idx : skb'[k] = IF k = cur THEN b ELSE skb[k]
  BY RingReplace DEF CleanUnmapped
<1>2. \A k \in Idx \ unmapped' : skb'[k] # NoBuffer /\ addr'[k] = skb'[k]
  BY <1>1 DEF CleanUnmapped, RingPart, UpInv, TypeOK
<1>3. bufferFailed'
  BY DEF CleanUnmapped
<1> QED
  BY <1>1, <1>2, <1>3 DEF RingPart, UpInv

\* The adapter has a slot before the tail: two more stay free behind it.
LEMMA RingHwRoom ==
    ASSUME TypeOK, RingPart, enabledForNetif, RDH # RDT
    PROVE  Off(Oldest, RDH) < NUM_RING_FRAME - 2 /\ Off(Oldest, RDH) \in Nat
<1>1. Oldest \in Idx /\ RDH \in Idx
  BY DEF TypeOK, Oldest
<1>2. RDT \in Idx /\ Off(Oldest, RDT) = NUM_RING_FRAME - 2
  BY <1>1, OffTwoBehind DEF RingPart, UpInv, TailTwoBehind, TypeOK
<1>3. Off(Oldest, RDH) # Off(Oldest, RDT)
  BY <1>1, <1>2, OffIsDistance
<1>4. Off(Oldest, RDH) <= NUM_RING_FRAME - 2 /\ Off(Oldest, RDH) \in Nat
  BY <1>1, OffIsDistance DEF RingPart, UpInv, Idx
<1> QED
  BY <1>2, <1>3, <1>4

\* The adapter fills the slot at the head, which is neither done nor past the tail.
LEMMA RingHwReceive ==
    ASSUME TypeOK, RingPart, NEW f, HwReceive(f)
    PROVE  RingPart'
<1>1. Oldest \in Idx /\ Oldest' = Oldest /\ RDH \in Idx /\ RDH # RDT /\ RDH' = Succ(RDH)
  BY DEF HwReceive, TypeOK, Oldest
<1>2. enabledForNetif
  BY <1>1 DEF RingPart, DownInv
<1>3. Off(Oldest, RDH) < NUM_RING_FRAME - 2
  BY <1>1, <1>2, RingHwRoom
<1>4. /\ Between(Oldest, Succ(RDH)) = Between(Oldest, RDH) \cup {RDH}
      /\ Off(Oldest, Succ(RDH)) = Off(Oldest, RDH) + 1
      /\ Off(Oldest, RDH) \in Int
  <2>1. Off(Oldest, RDH) \in Idx
    BY <1>1, OffIsDistance
  <2>2. Off(Oldest, RDH) \in Int /\ Off(Oldest, RDH) + 1 < NUM_RING_FRAME
    BY <1>3, <2>1, RingSizeAssumption DEF Idx
  <2> QED
    BY <1>1, <2>2, BetweenGrow
<1>5. DoneIsBacklog'
  BY <1>1, <1>4 DEF HwReceive, RingPart, DoneIsBacklog, Between
<1>6. UpInv'
  BY <1>1, <1>2, <1>3, <1>4 DEF HwReceive, RingPart, UpInv, TailTwoBehind, ghosts
<1> QED
  BY <1>2, <1>5, <1>6 DEF HwReceive, RingPart, OwnedIsOnRing, OneSlotEach, ghosts
-----------------------------------------------------------------------------
(* The invariant and what follows from it.                                 *)

LEMMA InvInit == Init => IInv
<1> SUFFICES ASSUME Init PROVE IInv
  OBVIOUS
<1>1. 0 \in Idx /\ Between(0, 0) = {}
  BY BetweenSelf DEF Idx
<1>2. TypeOK
  BY <1>1 DEF Init, TypeOK
<1> QED
  BY <1>1, <1>2 DEF Init, IInv, DoneIsBacklog, Oldest, OwnedIsOnRing, OneSlotEach, DownInv

LEMMA InvStep == IInv /\ [Next]_vars => IInv'
<1> SUFFICES ASSUME IInv, [Next]_vars PROVE IInv'
  OBVIOUS
<1>1. TypeOK /\ RingPart
  BY DEF IInv, RingPart
<1>2. SUFFICES RingPart'
  BY <1>1, TypeStep DEF IInv, RingPart
<1>3. ASSUME NEW got \in 0 .. NUM_RING_FRAME, NEW fresh \in [0 .. got - 1 -> Buffers],
             Enable(got, fresh)
      PROVE  RingPart'
  BY <1>1, <1>3, RingEnable
<1>4. CASE Disable
  BY <1>1, <1>4, RingDisable
<1>5. CASE WatchdogEnablesReceive
  BY <1>1, <1>5, Untouched DEF WatchdogEnablesReceive, ring, Oldest, ghosts
<1>6. CASE CleanBegin
  BY <1>1, <1>6, Untouched DEF CleanBegin, ring, Oldest, ghosts
<1>7. CASE CleanBad
  BY <1>1, <1>7, RingCleanBad
<1>8. ASSUME NEW b \in Buffers, CleanGood(b) PROVE RingPart'
  BY <1>1, <1>8, RingCleanGood
<1>9. ASSUME NEW b \in Buffers \cup {NoBuffer}, NEW garbage \in Garbage, CleanUnmapped(b, garbage)
      PROVE  RingPart'
  BY <1>1, <1>9, RingCleanUnmapped
<1>10. ASSUME CleanNull \/ CleanEnd PROVE RingPart'
  <2>1. enabledForNetif /\ Oldest' = Oldest
    BY <1>1, <1>10 DEF CleanNull, CleanEnd, RingPart, DownInv, Oldest
  <2> QED
    BY <1>1, <1>10, <2>1, Untouched DEF CleanNull, CleanEnd, ring, ghosts
<1>11. ASSUME NEW f \in Frames \cup {Damaged}, HwReceive(f) PROVE RingPart'
  BY <1>1, <1>11, RingHwReceive
<1>12. CASE UNCHANGED vars
  BY <1>1, <1>12, Untouched DEF vars, ring, Oldest, ghosts
<1> QED
  BY <1>3, <1>4, <1>5, <1>6, <1>7, <1>8, <1>9, <1>10, <1>11, <1>12 DEF Next

\* The inductive invariant holds of every behaviour, failing buffers included.
THEOREM InvCorrect == Spec => []IInv
  BY InvInit, InvStep, PTL DEF Spec

\* The driver owns exactly the mbufs on its ring: none given to the stack is kept, none
\* taken is lost.
THEOREM OwnedIsOnRingCorrect == Spec => []OwnedIsOnRing
<1>1. IInv => OwnedIsOnRing
  BY DEF IInv
<1> QED
  BY <1>1, InvCorrect, PTL

\* The indices of e1000_alloc_rx_buffers and e1000_clean_rx_irq never drift apart.
THEOREM TailTwoBehindCorrect == Spec => []TailTwoBehind
<1>1. IInv => TailTwoBehind
  BY DEF IInv, UpInv, TailTwoBehind
<1> QED
  BY <1>1, InvCorrect, PTL

\* The clean loop, which stops at the first slot without DD, misses no frame.
THEOREM DoneIsBacklogCorrect == Spec => []DoneIsBacklog
<1>1. IInv => DoneIsBacklog
  BY DEF IInv
<1> QED
  BY <1>1, InvCorrect, PTL

\* No frame is stored outside the driver's own mbufs, whatever the ring size and the
\* interleaving of DMA and cleaning, by a slot whose own buffer did not fail.
THEOREM DmaIntoOwnedCorrect == Spec => []DmaIntoOwned
<1>1. IInv => DmaIntoOwned
  <2> SUFFICES ASSUME IInv, NEW k \in Between(RDH, RDT) \ unmapped
               PROVE  /\ addr[k] = skb[k]
                      /\ skb[k] \in owned
                      /\ \A j \in Idx \ {k} : skb[j] # skb[k]
    BY DEF DmaIntoOwned
  <2>1. enabledForNetif /\ k \in Idx
    BY BetweenSelf DEF IInv, DownInv, TypeOK, Between
  <2>2. skb[k] # NoBuffer /\ addr[k] = skb[k]
    BY <2>1 DEF IInv, UpInv
  <2> QED
    BY <2>1, <2>2 DEF IInv, OwnedIsOnRing, OneSlotEach
<1> QED
  BY <1>1, InvCorrect, PTL
-----------------------------------------------------------------------------
(* The ring implements the queue, step by step.                            *)

\* Walking from a: where it starts, where it gets to, and how it goes on from the next slot.
LEMMA AheadWalks ==
    ASSUME NEW a \in Idx, NEW b \in Idx
    PROVE  /\ Ahead(a, 0) = a
           /\ Ahead(a, Off(a, b)) = b
           /\ \A n \in Nat : n < Off(a, b) => Ahead(a, n) \in Between(a, b)
           /\ \A n \in Nat : n + 1 < NUM_RING_FRAME => Ahead(Succ(a), n) = Ahead(a, n + 1)
  BY DEF Idx, Off, Ahead, Between, Succ

\* What a slot the adapter has filled may hold.
Reports == Frames \cup {Damaged, Blank}

\* What f holds of the slots from a up to b.
Walk(a, b, f) == [i \in 1 .. Off(a, b) |-> f[Ahead(a, i - 1)]]

LEMMA WalkType ==
    ASSUME NEW f \in [Idx -> Reports], NEW a \in Idx, NEW b \in Idx
    PROVE  /\ Walk(a, b, f) \in Seq(Reports)
           /\ Len(Walk(a, b, f)) = Off(a, b)
           /\ Off(a, b) \in Nat
           /\ a = b => Walk(a, b, f) = <<>>
<1>1. Off(a, b) \in Nat /\ (a = b => Off(a, b) = 0)
  BY OffIsDistance DEF Idx
<1>2. \A i \in 1 .. Off(a, b) : f[Ahead(a, i - 1)] \in Reports
  BY <1>1, AheadWalks DEF Between
<1> QED
  BY <1>1, <1>2 DEF Walk

\* It depends on the slots walked only.
LEMMA WalkSame ==
    ASSUME NEW f \in [Idx -> Reports], NEW g \in [Idx -> Reports], NEW a \in Idx, NEW b \in Idx,
           \A k \in Between(a, b) : g[k] = f[k]
    PROVE  Walk(a, b, g) = Walk(a, b, f)
<1>1. Off(a, b) \in Nat
  BY WalkType
<1>2. \A i \in 1 .. Off(a, b) : Ahead(a, i - 1) \in Between(a, b)
  BY <1>1, AheadWalks
<1> QED
  BY <1>2 DEF Walk

\* Starting one slot later takes the first element off.
LEMMA WalkTail ==
    ASSUME NEW f \in [Idx -> Reports], NEW g \in [Idx -> Reports], NEW a \in Idx, NEW b \in Idx,
           a # b, \A k \in Idx \ {a} : g[k] = f[k]
    PROVE  /\ Walk(a, b, f) # <<>>
           /\ Head(Walk(a, b, f)) = f[a]
           /\ Walk(Succ(a), b, g) = Tail(Walk(a, b, f))
<1>1. /\ Off(a, b) \in Nat /\ Off(a, b) # 0 /\ Off(a, b) < NUM_RING_FRAME
      /\ Succ(a) \in Idx /\ Off(Succ(a), b) = Off(a, b) - 1
      /\ Between(Succ(a), b) = Between(a, b) \ {a}
  <2>1. Off(a, b) \in Nat /\ Off(a, b) # 0 /\ Off(a, b) < NUM_RING_FRAME
    BY OffIsDistance DEF Idx
  <2> QED
    BY <2>1, BetweenTail, StepsStayOnRing
<1>2. Walk(a, b, f) \in Seq(Reports) /\ Len(Walk(a, b, f)) = Off(a, b)
  BY WalkType
<1>3. Walk(a, b, f) # <<>> /\ Head(Walk(a, b, f)) = f[a]
  BY <1>1, <1>2, AheadWalks DEF Walk
<1>4. \A i \in 1 .. Off(a, b) - 1 : g[Ahead(Succ(a), i - 1)] = f[Ahead(a, i)]
  <2> SUFFICES ASSUME NEW i \in 1 .. Off(a, b) - 1
               PROVE  g[Ahead(Succ(a), i - 1)] = f[Ahead(a, i)]
    OBVIOUS
  <2>1. Ahead(Succ(a), i - 1) = Ahead(a, i)
    BY <1>1, AheadWalks
  <2>2. Ahead(Succ(a), i - 1) \in Between(Succ(a), b)
    BY <1>1, AheadWalks
  <2> QED
    BY <1>1, <2>1, <2>2 DEF Between
<1>5. Walk(Succ(a), b, g) = [i \in 1 .. Off(a, b) - 1 |-> f[Ahead(a, i)]]
  BY <1>1, <1>4 DEF Walk
<1>6. Tail(Walk(a, b, f)) = [i \in 1 .. Off(a, b) - 1 |-> f[Ahead(a, i)]]
  BY <1>1, <1>2, <1>3 DEF Walk
<1> QED
  BY <1>3, <1>5, <1>6

\* Ending one slot later adds an element at the end.
LEMMA WalkAppend ==
    ASSUME NEW f \in [Idx -> Reports], NEW g \in [Idx -> Reports], NEW a \in Idx, NEW b \in Idx,
           Off(a, b) + 1 < NUM_RING_FRAME, \A k \in Between(a, b) : g[k] = f[k]
    PROVE  Walk(a, Succ(b), g) = Append(Walk(a, b, f), g[b])
<1>1. Off(a, b) \in Nat /\ Off(a, Succ(b)) = Off(a, b) + 1 /\ Succ(b) \in Idx
  BY WalkType, BetweenGrow, StepsStayOnRing
<1>2. Walk(a, b, f) \in Seq(Reports) /\ Len(Walk(a, b, f)) = Off(a, b)
  BY WalkType
<1>3. Walk(a, Succ(b), g) \in Seq(Reports) /\ Len(Walk(a, Succ(b), g)) = Off(a, b) + 1
  BY <1>1, WalkType
<1>4. \A i \in 1 .. Off(a, b) + 1 : Walk(a, Succ(b), g)[i] = Append(Walk(a, b, f), g[b])[i]
  <2> SUFFICES ASSUME NEW i \in 1 .. Off(a, b) + 1
               PROVE  Walk(a, Succ(b), g)[i] = Append(Walk(a, b, f), g[b])[i]
    OBVIOUS
  <2>1. Walk(a, Succ(b), g)[i] = g[Ahead(a, i - 1)]
    BY <1>1 DEF Walk
  <2>2. CASE i = Off(a, b) + 1
    BY <1>1, <1>2, <2>1, <2>2, AheadWalks
  <2>3. CASE i # Off(a, b) + 1
    <3>1. Append(Walk(a, b, f), g[b])[i] = f[Ahead(a, i - 1)]
      BY <1>1, <1>2, <2>3 DEF Walk
    <3>2. Ahead(a, i - 1) \in Between(a, b)
      BY <1>1, <2>3, AheadWalks
    <3> QED
      BY <2>1, <3>1, <3>2
  <2> QED
    BY <2>2, <2>3
<1> QED
  BY <1>1, <1>2, <1>3, <1>4
-----------------------------------------------------------------------------
\* What every slot holds; the frames the driver owes are those from the oldest slot to the head.
Holds == [k \in Idx |-> Stored(k)]

LEMMA OldestIsSlot == TypeOK => Oldest \in Idx /\ RDH \in Idx
  BY DEF TypeOK, Oldest

LEMMA BacklogIs ==
    TypeOK /\ ~bufferFailed => backlogBar = Walk(Oldest, RDH, Holds)
<1> SUFFICES ASSUME TypeOK, ~bufferFailed PROVE backlogBar = Walk(Oldest, RDH, Holds)
  OBVIOUS
<1>1. \A i \in 1 .. Off(Oldest, RDH) : Ahead(Oldest, i - 1) \in Idx
  BY OldestIsSlot, AheadWalks, OffIsDistance DEF Between, Idx
<1>2. \A i \in 1 .. Off(Oldest, RDH) : Stored(Ahead(Oldest, i - 1)) = Holds[Ahead(Oldest, i - 1)]
  BY <1>1 DEF Holds
<1> QED
  BY <1>2, Zenon DEF backlogBar, Walk

LEMMA HoldsFrames ==
    TypeOK /\ RingPart /\ ~bufferFailed /\ enabledForNetif => Holds \in [Idx -> Reports]
<1> SUFFICES ASSUME TypeOK, RingPart, ~bufferFailed, enabledForNetif
             PROVE  Holds \in [Idx -> Reports]
  OBVIOUS
<1>1. \A k \in Idx : skb[k] \in Buffers
  BY DEF TypeOK, RingPart, UpInv
<1> QED
  BY <1>1 DEF Holds, Stored, TypeOK, Reports

LEMMA QueueInit == Init => Queue!Init
<1> SUFFICES ASSUME Init PROVE Queue!Init
  OBVIOUS
<1>1. TypeOK /\ Oldest = 0 /\ RDH = 0
  BY InvInit DEF Init, IInv, Oldest
<1>2. Off(0, 0) = 0
  BY DEF Off
<1>3. backlogBar = <<>>
  BY <1>1, <1>2 DEF backlogBar
<1> QED
  BY <1>3 DEF Init, Queue!Init

\* Both after a step, too.
LEMMA BacklogNext ==
    (TypeOK /\ ~bufferFailed => backlogBar = Walk(Oldest, RDH, Holds))'
  BY BacklogIs, PTL

LEMMA HoldsNext ==
    (TypeOK /\ RingPart /\ ~bufferFailed /\ enabledForNetif => Holds \in [Idx -> Reports])'
  BY HoldsFrames, PTL

\* A step of the ring is one of the queue, or none.
QueueStep == [Queue!Next]_Queue!vars

\* An interface that is down owes nothing.
LEMMA DownOwesNothing ==
    ASSUME TypeOK, RingPart, ~enabledForNetif
    PROVE  backlogBar = <<>>
<1>1. Oldest = RDH
  BY DEF RingPart, DownInv, Oldest
<1>2. Off(RDH, RDH) = 0
  BY OldestIsSlot DEF Off, Idx
<1> QED
  BY <1>1, <1>2 DEF backlogBar

\* Nor does a driver that failed to get a buffer.
LEMMA BrokenOwesNothing == bufferFailed => backlogBar = <<>>
  BY DEF backlogBar

\* Steps that neither move the oldest slot or the head, nor change what a slot holds.
LEMMA QueueUntouched ==
    ASSUME Oldest' = Oldest, UNCHANGED <<skb, bad, RDH, content, delivered, bufferFailed>>
    PROVE  QueueStep
  BY DEF QueueStep, Queue!vars, backlogBar, Stored

\* A driver whose allocation fails, now or before, owes nothing more.
LEMMA QueueBreaks ==
    ASSUME TypeOK, TypeOK', bufferFailed'
    PROVE  QueueStep
  BY BrokenOwesNothing DEF QueueStep, Queue!Next, Queue!Break, TypeOK, backlogBar

\* A turn of the clean loop takes the oldest frame, and the other slots keep theirs.
LEMMA QueueTurn ==
    ASSUME TypeOK, RingPart, TypeOK', RingPart', ~bufferFailed, ~bufferFailed',
           gate = "clean", gate' = "clean", cur \in DD, Recycle, RDH' = RDH,
           \A k \in Idx \ {cur} : Holds'[k] = Holds[k]
    PROVE  /\ backlogBar # <<>>
           /\ Head(backlogBar) = Holds[cur]
           /\ backlogBar' = Tail(backlogBar)
<1>1. /\ Oldest = cur /\ Oldest' = Succ(cur) /\ cur \in Idx /\ RDH \in Idx /\ enabledForNetif
      /\ enabledForNetif'
  BY DEF Oldest, Recycle, TypeOK, RingPart, DownInv
<1>2. Holds \in [Idx -> Reports] /\ Holds' \in [Idx -> Reports]
  BY <1>1, HoldsFrames, HoldsNext
<1>3. cur # RDH
  BY <1>1, BetweenSelf DEF RingPart, DoneIsBacklog
<1>4. backlogBar = Walk(cur, RDH, Holds) /\ backlogBar' = Walk(Succ(cur), RDH, Holds')
  BY <1>1, BacklogIs, BacklogNext DEF Walk
<1> QED
  BY <1>1, <1>2, <1>3, <1>4, WalkTail

LEMMA QueueCleanBad ==
    ASSUME TypeOK, RingPart, TypeOK', RingPart', ~bufferFailed, CleanBad
    PROVE  Queue!Drop
<1>1. \A k \in Idx \ {cur} : Holds'[k] = Holds[k]
  BY DEF Holds, Stored, CleanBad, Recycle
<1>2. Holds[cur] = Damaged
  BY DEF Holds, Stored, CleanBad, TypeOK
<1>3. backlogBar # <<>> /\ Head(backlogBar) = Holds[cur] /\ backlogBar' = Tail(backlogBar)
  BY <1>1, QueueTurn DEF CleanBad, ghosts
<1> QED
  BY <1>2, <1>3 DEF Queue!Drop, CleanBad, ghosts

LEMMA QueueCleanGood ==
    ASSUME TypeOK, RingPart, TypeOK', RingPart', ~bufferFailed, NEW b \in Buffers, CleanGood(b)
    PROVE  Queue!Deliver
<1>1. cur \in Idx /\ enabledForNetif /\ \A k \in Idx : skb[k] \in Buffers
  BY DEF CleanGood, Replace, TypeOK, RingPart, UpInv, DownInv
<1>2. \A k \in Idx \ {cur} : skb[k] # skb[cur] /\ skb'[k] = skb[k] /\ (k \in bad' <=> k \in bad)
  BY <1>1 DEF CleanGood, Replace, Recycle, RingPart, OneSlotEach, TypeOK
<1>3. \A k \in Idx \ {cur} : content'[skb[k]] = content[skb[k]]
  BY <1>1, <1>2 DEF CleanGood, Replace, Taken
<1>4. \A k \in Idx \ {cur} : Holds'[k] = Holds[k]
  BY <1>2, <1>3 DEF Holds, Stored
<1>5. Holds[cur] = content[skb[cur]] /\ Holds[cur] # Damaged
  BY <1>1 DEF Holds, Stored, CleanGood, Replace, TypeOK
<1>6. backlogBar # <<>> /\ Head(backlogBar) = Holds[cur] /\ backlogBar' = Tail(backlogBar)
  BY <1>4, QueueTurn DEF CleanGood, Replace
<1> QED
  BY <1>5, <1>6 DEF Queue!Deliver, CleanGood, Replace

\* The adapter stores into the mbuf of the slot at the head, which no waiting slot shares.
LEMMA QueueHwReceive ==
    ASSUME TypeOK, RingPart, TypeOK', RingPart', ~bufferFailed,
           NEW f \in Frames \cup {Damaged}, HwReceive(f)
    PROVE  Queue!Store(f)
<1>1. /\ Oldest' = Oldest /\ RDH' = Succ(RDH) /\ Oldest \in Idx /\ RDH \in Idx
      /\ ~bufferFailed' /\ RDH # RDT
  BY OldestIsSlot DEF Oldest, HwReceive, ghosts
<1>2. enabledForNetif /\ enabledForNetif'
  BY <1>1 DEF RingPart, DownInv, HwReceive
<1>3. Holds \in [Idx -> Reports] /\ Holds' \in [Idx -> Reports]
  BY <1>1, <1>2, HoldsFrames, HoldsNext
<1>4. Off(Oldest, RDH) < NUM_RING_FRAME - 2 /\ Off(Oldest, RDH) \in Nat
  BY <1>1, <1>2, RingHwRoom
<1>5. /\ addr[RDH] = skb[RDH] /\ skb[RDH] \in Buffers
      /\ \A k \in Idx \ {RDH} : skb[k] # skb[RDH] /\ skb[k] \in Buffers
  BY <1>1, <1>2 DEF RingPart, UpInv, OneSlotEach, TypeOK
<1>6. Holds'[RDH] = f
  BY <1>1, <1>5 DEF Holds, Stored, HwReceive
<1>7. \A k \in Idx \ {RDH} : Holds'[k] = Holds[k]
  BY <1>1, <1>5 DEF Holds, Stored, HwReceive
<1>8. RDH \notin Between(Oldest, RDH) /\ Between(Oldest, RDH) \subseteq Idx
  BY <1>4 DEF Between
<1>9. backlogBar = Walk(Oldest, RDH, Holds) /\ backlogBar' = Walk(Oldest, Succ(RDH), Holds')
  BY <1>1, BacklogIs, BacklogNext DEF Walk
<1>10. backlogBar' = Append(backlogBar, f)
  BY <1>1, <1>3, <1>4, <1>6, <1>7, <1>8, <1>9, WalkAppend
<1>11. Len(backlogBar) < NUM_RING_FRAME - 2
  BY <1>1, <1>3, <1>4, <1>9, WalkType
<1> QED
  BY <1>1, <1>10, <1>11 DEF Queue!Store, HwReceive, ghosts

\* Every step of the driver and the adapter is a step of the queue, or changes nothing of it.
LEMMA QueueNext == IInv /\ IInv' /\ [Next]_vars => QueueStep
<1> SUFFICES ASSUME IInv, IInv', [Next]_vars PROVE QueueStep
  OBVIOUS
<1>1. TypeOK /\ RingPart /\ TypeOK' /\ RingPart'
  BY DEF IInv, RingPart
<1>2. CASE bufferFailed'
  BY <1>1, <1>2, QueueBreaks
<1>3. SUFFICES ASSUME ~bufferFailed' PROVE QueueStep
  BY <1>2
<1>4. ASSUME NEW got \in 0 .. NUM_RING_FRAME, NEW fresh \in [0 .. got - 1 -> Buffers],
             Enable(got, fresh)
      PROVE  QueueStep
  <2>1. backlogBar = <<>>
    BY <1>1, <1>4, DownOwesNothing DEF Enable
  <2>2. Oldest' = 0 /\ RDH' = 0
    BY <1>4 DEF Enable, Oldest
  <2>3. Off(0, 0) = 0
    BY DEF Off
  <2>4. backlogBar' = <<>>
    BY <2>2, <2>3 DEF backlogBar
  <2>5. ~bufferFailed /\ delivered' = delivered
    BY <1>3, <1>4, Zenon DEF Enable
  <2> QED
    BY <1>1, <1>3, <2>1, <2>4, <2>5, Zenon DEF QueueStep, Queue!vars, TypeOK
<1>5. CASE Disable
  <2>1. Oldest' = 0 /\ RDH' = 0
    BY <1>5 DEF Disable, Oldest
  <2>2. Off(0, 0) = 0
    BY DEF Off
  <2>3. backlogBar' = <<>>
    BY <2>1, <2>2 DEF backlogBar
  <2> QED
    BY <1>5, <2>3 DEF Disable, QueueStep, Queue!Next, Queue!Forget
<1>6. CASE WatchdogEnablesReceive \/ CleanBegin \/ CleanEnd \/ CleanNull \/ UNCHANGED vars
  BY <1>6, QueueUntouched
     DEF WatchdogEnablesReceive, CleanBegin, CleanEnd, CleanNull, vars, ring, ghosts, Oldest
<1>7. CASE CleanBad
  BY <1>1, <1>3, <1>7, QueueCleanBad DEF QueueStep, Queue!Next, CleanBad, ghosts
<1>8. ASSUME NEW b \in Buffers, CleanGood(b) PROVE QueueStep
  BY <1>1, <1>3, <1>8, QueueCleanGood DEF QueueStep, Queue!Next, CleanGood
<1>9. ASSUME NEW b \in Buffers \cup {NoBuffer}, NEW garbage \in Garbage, CleanUnmapped(b, garbage)
      PROVE  QueueStep
  BY <1>3, <1>9 DEF CleanUnmapped
<1>10. ASSUME NEW f \in Frames \cup {Damaged}, HwReceive(f) PROVE QueueStep
  BY <1>1, <1>3, <1>10, QueueHwReceive DEF QueueStep, Queue!Next, HwReceive, ghosts
<1> QED
  BY <1>4, <1>5, <1>6, <1>7, <1>8, <1>9, <1>10 DEF Next

\* Frames reach the stack unchanged, in order and once, whatever the size of the ring: what the
\* adapter's DMA, the DD bits, the replacement of buffers and the three indices do is a queue.
THEOREM ImplementsQueueCorrect == Spec => ImplementsQueue
<1>1. Init => Queue!Init
  BY QueueInit
<1>2. IInv /\ IInv' /\ [Next]_vars => [Queue!Next]_Queue!vars
  BY QueueNext DEF QueueStep
<1> QED
  BY <1>1, <1>2, InvCorrect, PTL DEF Spec, ImplementsQueue, Queue!Spec
=============================================================================
