--------------------------- MODULE TxRing_proofs ---------------------------
(***************************************************************************)
(* What holds of the transmit ring for every ring size, every segment      *)
(* limit and every set of packets.                                         *)
(***************************************************************************)
EXTENDS TxRingRefinement, TLAPS

USE RingSizeAssumption, SegmentsAssumption, PacketsAssumption

(* Facts about the index arithmetic of RingIndex, for every ring size.     *)

\* Stepping forward, back or by n stays on the ring ("if (j == NUM_RING_FRAME) j = 0").
LEMMA StepsStayOnRing ==
    ASSUME NEW i \in Idx
    PROVE  /\ Succ(i) \in Idx
           /\ Pred(i) \in Idx
           /\ \A n \in 0 .. NUM_RING_FRAME : Ahead(i, n) \in Idx
  BY RingSizeAssumption DEF Idx, Succ, Pred, Ahead

\* Off is a distance of fewer than NUM_RING_FRAME steps, and tells slots apart.
LEMMA OffIsDistance ==
    ASSUME NEW a \in Idx, NEW k \in Idx
    PROVE  /\ Off(a, k) \in Idx
           /\ Off(a, k) = 0 <=> k = a
           /\ \A m \in Idx : Off(a, k) = Off(a, m) => k = m
  BY RingSizeAssumption DEF Idx, Off

\* From a slot to itself there is nothing in between.
LEMMA BetweenSelf == \A a \in Idx : Between(a, a) = {}
  BY RingSizeAssumption DEF Between, Off, Idx

\* Moving the origin forward to b shortens the distances of the slots from b on by
\* Off(a, b), and puts the slots before b behind all of them.
LEMMA OffRebase ==
    ASSUME NEW a \in Idx, NEW b \in Idx, NEW k \in Idx
    PROVE  Off(b, k) = IF Off(a, k) >= Off(a, b)
                       THEN Off(a, k) - Off(a, b)
                       ELSE Off(a, k) - Off(a, b) + NUM_RING_FRAME
  BY RingSizeAssumption DEF Idx, Off

\* One step forward adds one to the distance, unless it closes the circle.
LEMMA OffSucc ==
    ASSUME NEW a \in Idx, NEW k \in Idx, Off(a, k) + 1 # NUM_RING_FRAME
    PROVE  Off(a, Succ(k)) = Off(a, k) + 1
  BY RingSizeAssumption DEF Idx, Off, Succ

\* One step back takes one off the distance, unless it starts at the origin.
LEMMA OffPred ==
    ASSUME NEW a \in Idx, NEW k \in Idx, k # a
    PROVE  Off(a, Pred(k)) = Off(a, k) - 1
  BY RingSizeAssumption DEF Idx, Off, Pred

\* n steps forward add n to the distance as long as they do not close the circle.
LEMMA OffAhead ==
    ASSUME NEW a \in Idx, NEW k \in Idx, NEW n \in Nat,
           Off(a, k) + n < NUM_RING_FRAME
    PROVE  Off(a, Ahead(k, n)) = Off(a, k) + n
  BY RingSizeAssumption DEF Idx, Off, Ahead

\* A step forward and a step back undo each other.
LEMMA PredSucc ==
    ASSUME NEW i \in Idx
    PROVE  Pred(Succ(i)) = i /\ Succ(Pred(i)) = i
  BY RingSizeAssumption DEF Idx, Succ, Pred

\* e1000_desc_unused keeps one slot free: what it grants never closes the circle.
LEMMA UnusedKeepsOneFree ==
    ASSUME NEW c \in Idx, NEW u \in Idx
    PROVE  /\ Unused(c, u) \in Idx
           /\ Off(c, u) + Unused(c, u) = NUM_RING_FRAME - 1
  BY RingSizeAssumption DEF Idx, Off, Unused
-----------------------------------------------------------------------------
\* Every step keeps the types, however hard the ring is overrun.
LEMMA TypeStep == TypeOK /\ [Next]_vars => TypeOK'
<1> SUFFICES ASSUME TypeOK, [Next]_vars PROVE TypeOK'
  OBVIOUS
<1> USE DEF TypeOK
<1>0. 0 \in Idx
  BY DEF Idx
<1>1. CASE Enable
  BY <1>0, <1>1 DEF Enable, RingZeroed, ghosts
<1>2. CASE EnableFails
  BY <1>2 DEF EnableFails, swVars, desc, ghosts
<1>3. CASE WatchdogEnablesTransmit
  BY <1>3 DEF WatchdogEnablesTransmit, swVars, desc, ghosts
<1>4. CASE Disable
  BY <1>0, <1>4 DEF Disable, RingZeroed
<1>5. ASSUME NEW p \in Packets, NEW n \in 1 .. TBDS_PER_TCB, OutputDescriptors(p, n)
      PROVE  TypeOK'
  <2>0. n \in 0 .. NUM_RING_FRAME /\ n - 1 \in 0 .. NUM_RING_FRAME
    OBVIOUS
  <2>1. Ahead(next_to_use, n) \in Idx /\ Ahead(next_to_use, n - 1) \in Idx
    BY <2>0, StepsStayOnRing
  <2>2. /\ skb' \in [Idx -> Packets \cup {NoPacket}]
        /\ addr' \in [Idx -> Packets \cup {NoPacket}]
        /\ next_to_watch' \in [Idx -> Idx]
    BY <1>5 DEF OutputDescriptors
  <2>3. RS' \subseteq Idx /\ DD' \subseteq Idx
    BY <1>5, <2>1 DEF OutputDescriptors
  <2>4. gate' = "output" /\ pkt' = p /\ p # NoPacket /\ held' \subseteq Packets /\ overrun' \in BOOLEAN
    BY <1>5 DEF OutputDescriptors
  <2> QED
    BY <1>5, <2>1, <2>2, <2>3, <2>4 DEF OutputDescriptors
<1>6. CASE OutputAttach
  BY <1>6, StepsStayOnRing DEF OutputAttach, desc, ghosts
<1>7. CASE CleanBegin
  BY <1>7 DEF CleanBegin, swVars, desc, ghosts
<1>8. CASE CleanPacket
  BY <1>8, StepsStayOnRing DEF CleanPacket, ghosts
<1>9. CASE CleanEnd
  BY <1>9 DEF CleanEnd, desc, ghosts
<1>10. CASE HwTransmit
  BY <1>10, StepsStayOnRing DEF HwTransmit, swVars, ghosts
<1>11. CASE UNCHANGED vars
  BY <1>11 DEF vars, swVars, desc, ghosts
<1> QED
  BY <1>1, <1>2, <1>3, <1>4, <1>5, <1>6, <1>7, <1>8, <1>9, <1>10, <1>11 DEF Next
-----------------------------------------------------------------------------
(* RingInv, action by action.                                              *)

\* Distances from a slot, as numbers.
LEMMA Distances ==
    ASSUME NEW a \in Idx
    PROVE  \A k \in Idx : Off(a, k) \in Nat /\ Off(a, k) < NUM_RING_FRAME
  BY OffIsDistance DEF Idx

\* A down interface has nothing on its ring.
LEMMA DownHoldsNothing ==
    ASSUME TypeOK, RingInv, ~enabledForNetif
    PROVE  gate = "idle" /\ pkt = NoPacket /\ held = abandoned
<1>1. gate = "idle" /\ pkt = NoPacket /\ Attached = {}
  BY BetweenSelf DEF TypeOK, RingInv, DownIsEmpty, Attached, Oldest, Commit
<1>2. \A k \in Idx : skb[k] = NoPacket
  BY <1>1 DEF RingInv, SkbOnAttached
<1> QED
  BY <1>1, <1>2 DEF RingInv

\* A zeroed ring satisfies the invariant when every held mbuf is written off.
LEMMA ZeroedRing ==
    ASSUME TypeOK, RingZeroed, gate' = "idle", pkt' = NoPacket, held' = abandoned'
    PROVE  RingInv'
<1>1. 0 \in Idx /\ Off(0, 0) = 0
  BY DEF Idx, Off
<1>2. Oldest' = 0 /\ Commit' = 0 /\ Attached' = {} /\ Live' = {}
  BY <1>1, BetweenSelf DEF RingZeroed, Oldest, Commit, Attached, Live
<1>3. \A k \in Idx : skb'[k] = NoPacket
  BY DEF RingZeroed
<1> QED
  BY <1>1, <1>2, <1>3 DEF RingZeroed, RingInv, SkbOnAttached, MbufFollows, NoneAfterMbuf,
     FirstWatchesLast, BeingPut, ReportOnLast, DoneBehindHead, HeadInLive, DownIsEmpty

\* Steps that leave the ring, the held mbufs and the limits of the live slots alone.
LEMMA RingUntouched ==
    ASSUME RingInv,
           Oldest' = Oldest, Commit' = Commit, (gate' = "output") <=> (gate = "output"),
           UNCHANGED <<enabledForNetif, next_to_use, next_to_watch, skb, desc, TDH, TDT, pkt, held,
                       abandoned>>,
           gate = "output" => cur' = cur,
           enabledForNetif \/ UNCHANGED <<gate, next_to_clean>>
    PROVE  RingInv'
<1>1. Attached' = Attached /\ Live' = Live
  BY DEF Attached, Live, Between
<1> QED
  BY <1>1 DEF RingInv, SkbOnAttached, MbufFollows, NoneAfterMbuf, BeingPut, FirstWatchesLast,
     ReportOnLast, DoneBehindHead, HeadInLive, DownIsEmpty, Between, desc

LEMMA RingEnable == TypeOK /\ RingInv /\ Enable => RingInv'
  BY DownHoldsNothing, ZeroedRing DEF Enable, ghosts

LEMMA RingDisable == TypeOK /\ RingInv /\ Disable => RingInv'
<1> SUFFICES ASSUME TypeOK, RingInv, Disable PROVE RingInv'
  OBVIOUS
<1>1. gate' = "idle" /\ pkt' = NoPacket /\ held' = abandoned'
  BY DEF Disable, TypeOK
<1> QED
  BY <1>1, ZeroedRing DEF Disable

LEMMA RingCleanBegin == TypeOK /\ RingInv /\ CleanBegin => RingInv'
<1> SUFFICES ASSUME TypeOK, RingInv, CleanBegin PROVE RingInv'
  OBVIOUS
<1>1. Oldest' = Oldest /\ Commit' = Commit
  BY DEF CleanBegin, Oldest, Commit, swVars
<1> QED
  BY <1>1, RingUntouched DEF CleanBegin, swVars, ghosts

LEMMA RingCleanEnd == TypeOK /\ RingInv /\ CleanEnd => RingInv'
<1> SUFFICES ASSUME TypeOK, RingInv, CleanEnd PROVE RingInv'
  OBVIOUS
<1>1. Oldest' = Oldest /\ Commit' = Commit
  BY DEF CleanEnd, Oldest, Commit
<1>2. enabledForNetif
  BY DEF CleanEnd, RingInv, DownIsEmpty
<1> QED
  BY <1>1, <1>2, RingUntouched DEF CleanEnd, ghosts
\* The adapter steps over the head: at most a live slot becomes done.
LEMMA RingHwTransmit == TypeOK /\ RingInv /\ HwTransmit => RingInv'
<1> SUFFICES ASSUME TypeOK, RingInv, HwTransmit PROVE RingInv'
  OBVIOUS
<1>1. Oldest \in Idx /\ Oldest' = Oldest /\ Commit' = Commit /\ Attached' = Attached /\ Live' = Live
  BY DEF HwTransmit, swVars, Oldest, Commit, Attached, Live, Between, TypeOK
<1>2. TDT = next_to_use /\ TDH \in Idx /\ TDH # next_to_use /\ TDH' = Succ(TDH) /\ TDH' \in Idx
  BY StepsStayOnRing DEF HwTransmit, TypeOK, RingInv, HeadInLive
<1>3. Off(Oldest, TDH) < Off(Oldest, next_to_use) /\ Off(Oldest, next_to_use) < NUM_RING_FRAME
  <2>1. next_to_use \in Idx
    BY DEF TypeOK
  <2>2. Off(Oldest, TDH) \in Idx /\ Off(Oldest, next_to_use) \in Idx
    BY <1>1, <1>2, <2>1, OffIsDistance
  <2>3. Off(Oldest, TDH) # Off(Oldest, next_to_use)
    BY <1>1, <1>2, <2>1, OffIsDistance
  <2>4. Off(Oldest, TDH) <= Off(Oldest, next_to_use)
    BY DEF RingInv, HeadInLive
  <2> QED
    BY <2>2, <2>3, <2>4, RingSizeAssumption DEF Idx
<1>4. Off(Oldest, TDH') = Off(Oldest, TDH) + 1
  <2>1. Off(Oldest, TDH) + 1 # NUM_RING_FRAME
    BY <1>1, <1>2, <1>3, Distances DEF TypeOK
  <2> QED
    BY <1>1, <1>2, <2>1, OffSucc
<1>5. TDH \in Live /\ Between(Oldest, TDH) \cup {TDH} \subseteq Between(Oldest, TDH')
  BY <1>1, <1>2, <1>3, <1>4 DEF Live, Between, Off, Idx
<1>6. /\ SkbOnAttached' /\ MbufFollows' /\ NoneAfterMbuf' /\ BeingPut' /\ FirstWatchesLast'
      /\ ReportOnLast' /\ DownIsEmpty'
  BY <1>1 DEF HwTransmit, swVars, ghosts, RingInv, SkbOnAttached, MbufFollows, NoneAfterMbuf,
     BeingPut, FirstWatchesLast, ReportOnLast, DownIsEmpty
<1>7. DoneBehindHead'
  <2>1. \A k \in DD : k \in Between(Oldest, TDH')
    BY <1>5 DEF RingInv, DoneBehindHead
  <2>2. \A k \in DD' : k \in DD \/ (k = TDH /\ TDH \in Live \cap RS)
    BY <1>5 DEF HwTransmit
  <2>3. Between(Oldest, TDH)' = Between(Oldest, TDH')
    BY <1>1 DEF Between
  <2> QED
    BY <1>5, <2>1, <2>2, <2>3 DEF HwTransmit, swVars, RingInv, DoneBehindHead, ReportOnLast
<1>8. HeadInLive'
  <2>1. next_to_use' = next_to_use /\ TDT' = TDT /\ next_to_use \in Idx
    BY DEF HwTransmit, swVars, TypeOK
  <2>2. Off(Oldest, TDH)' = Off(Oldest, TDH') /\ Off(Oldest, next_to_use)' = Off(Oldest, next_to_use)
    BY <1>1, <2>1 DEF Off
  <2>3. Off(Oldest, TDH) \in Idx /\ Off(Oldest, next_to_use) \in Idx
    BY <1>1, <1>2, <2>1, OffIsDistance
  <2>4. Off(Oldest, TDH') <= Off(Oldest, next_to_use)
    BY <1>3, <1>4, <2>3, RingSizeAssumption DEF Idx
  <2> QED
    BY <1>2, <2>1, <2>2, <2>4 DEF HeadInLive
<1> QED
  BY <1>6, <1>7, <1>8 DEF HwTransmit, swVars, ghosts, RingInv

\* The packet being put ends the live slots, behind the attached ones.
LEMMA PutIsLive ==
    ASSUME TypeOK, RingInv, gate = "output"
    PROVE  /\ Attached \subseteq Live /\ Off(Oldest, cur) < Off(Oldest, next_to_use)
           /\ Pred(next_to_use) \in Live \ Attached
           /\ \A k \in Live : Off(Oldest, k) <= Off(Oldest, Pred(next_to_use))
           /\ Off(Oldest, Pred(next_to_use)) = Off(Oldest, next_to_use) - 1
<1>1. Oldest \in Idx /\ Commit = cur /\ cur \in Idx /\ next_to_use \in Idx
  BY DEF Oldest, Commit, TypeOK
<1>2. Off(Oldest, cur) < Off(Oldest, next_to_use)
  BY DEF RingInv, BeingPut, Live, Between
<1>3. Attached \subseteq Live
  BY <1>1, <1>2, Distances DEF Live, Attached, Between
<1>4. next_to_use # Oldest
  <2>1. Off(Oldest, Oldest) = 0 /\ Off(Oldest, cur) \in Nat
    BY <1>1, OffIsDistance, Distances
  <2> QED
    BY <1>2, <2>1
<1>5. Pred(next_to_use) \in Idx /\ Off(Oldest, Pred(next_to_use)) = Off(Oldest, next_to_use) - 1
  BY <1>1, <1>4, OffPred, StepsStayOnRing
<1> QED
  BY <1>1, <1>2, <1>3, <1>5, Distances DEF Live, Attached, Between

\* The packet whose descriptors were written gets its mbuf: it joins the attached ones.
LEMMA RingOutputAttach == TypeOK /\ RingInv /\ OutputAttach => RingInv'
<1> SUFFICES ASSUME TypeOK, RingInv, OutputAttach PROVE RingInv'
  OBVIOUS
<1> DEFINE last == Pred(next_to_use)
<1>1. /\ gate = "output" /\ gate' = "idle"
      /\ Oldest \in Idx /\ Oldest' = Oldest
      /\ Commit = cur /\ Commit' = next_to_use /\ next_to_use' = next_to_use
  BY DEF OutputAttach, Oldest, Commit, TypeOK
<1>2. Attached' = Live /\ Live' = Live
  BY <1>1 DEF Attached, Live, Between
<1>3. Attached \subseteq Live /\ Off(Oldest, cur) < Off(Oldest, next_to_use)
  BY <1>1, PutIsLive
<1>4. /\ last \in Live \ Attached /\ \A k \in Live : Off(Oldest, k) <= Off(Oldest, last)
      /\ Off(Oldest, last) = Off(Oldest, next_to_use) - 1
  BY <1>1, PutIsLive
<1>5. /\ \A k \in Idx : skb'[k] = IF k = last THEN pkt ELSE skb[k]
      /\ pkt # NoPacket /\ addr' = addr /\ RS' = RS /\ DD' = DD
  BY <1>1 DEF OutputAttach, desc, TypeOK
<1>6. /\ \A k \in Idx : skb[k] # pkt
      /\ \A k \in Live \ Attached : addr[k] = pkt /\ skb[k] = NoPacket
      /\ \A k \in Attached : addr[k] # pkt
  BY <1>1 DEF RingInv, BeingPut, SkbOnAttached, MbufFollows, Live, Attached, Between
<1>7. Live \subseteq Idx
  BY DEF Live, Between
<1>8. SkbOnAttached'
  BY <1>2, <1>3, <1>4, <1>5, <1>6, <1>7 DEF RingInv, SkbOnAttached
<1>9. MbufFollows'
  <2>1. ASSUME NEW k \in Attached
        PROVE  \E e \in Live : Off(Oldest, k) <= Off(Oldest, e) /\ skb'[e] = addr[k] /\ skb'[e] # NoPacket
    BY <1>3, <1>4, <1>5, <1>7, <2>1 DEF RingInv, MbufFollows
  <2>2. ASSUME NEW k \in Live \ Attached
        PROVE  Off(Oldest, k) <= Off(Oldest, last) /\ skb'[last] = addr[k] /\ skb'[last] # NoPacket
    BY <1>4, <1>5, <1>6, <1>7
  <2> QED
    BY <1>1, <1>2, <1>4, <1>5, <2>1, <2>2 DEF MbufFollows
<1>10. NoneAfterMbuf'
  <2>1. ASSUME NEW k \in Live, NEW e \in Live, skb'[e] # NoPacket, addr[k] = skb'[e]
        PROVE  Off(Oldest, k) <= Off(Oldest, e)
    <3>1. CASE e = last
      BY <1>4, <3>1
    <3>2. CASE e # last
      <4>1. skb[e] = skb'[e] /\ e \in Attached
        BY <1>5, <1>6, <1>7, <2>1, <3>2
      <4>2. k \in Attached
        BY <1>6, <1>7, <2>1, <4>1
      <4> QED
        BY <2>1, <4>1, <4>2 DEF RingInv, NoneAfterMbuf
    <3> QED
      BY <3>1, <3>2
  <2> QED
    BY <1>1, <1>2, <1>5, <2>1 DEF NoneAfterMbuf
<1>11. ReportOnLast' /\ DoneBehindHead'
  <2>1. Between(Oldest, TDH)' = Between(Oldest, TDH)
    BY <1>1 DEF Between, OutputAttach
  <2>2. DD \subseteq Idx
    BY DEF TypeOK
  <2> QED
    BY <1>1, <1>2, <1>4, <1>5, <1>7, <2>1, <2>2 DEF RingInv, ReportOnLast, DoneBehindHead
<1>12. BeingPut' /\ HeadInLive' /\ DownIsEmpty'
  BY <1>1 DEF OutputAttach, RingInv, BeingPut, HeadInLive, DownIsEmpty
<1>13. ({skb[k] : k \in Idx} \cup {pkt}) \ {NoPacket} = ({skb'[k] : k \in Idx} \cup {pkt'}) \ {NoPacket}
  <2>1. pkt' = NoPacket /\ skb[last] = NoPacket /\ last \in Idx
    BY <1>4, <1>6, <1>7 DEF OutputAttach
  <2> QED
    BY <1>5, <2>1
<1>14. FirstWatchesLast'
  <2>1. /\ \A k \in Idx : next_to_watch'[k] = IF k = cur THEN last ELSE next_to_watch[k]
        /\ cur \in Live \ Attached
    <3>1. \A k \in Idx : next_to_watch'[k] = IF k = cur THEN last ELSE next_to_watch[k]
      BY DEF OutputAttach, TypeOK
    <3>2. cur \in Live
      BY <1>1 DEF RingInv, BeingPut
    <3>3. cur \notin Attached
      BY <1>1, Distances DEF Attached, Between, TypeOK
    <3> QED
      BY <3>1, <3>2, <3>3
  <2>2. \A k \in Idx : /\ k \in Attached <=> Off(Oldest, k) < Off(Oldest, cur)
                       /\ k \in Live <=> Off(Oldest, k) < Off(Oldest, next_to_use)
    BY <1>1 DEF Attached, Live, Between
  <2>3. \A k \in Idx : skb[k] # NoPacket => k \in Attached
    BY DEF RingInv, SkbOnAttached
  <2>4. ASSUME NEW k \in Live, k = Oldest \/ skb'[Pred(k)] # NoPacket
        PROVE  /\ skb'[next_to_watch'[k]] # NoPacket
               /\ Off(Oldest, k) <= Off(Oldest, next_to_watch'[k])
               /\ \A e \in Idx :
                     skb'[e] # NoPacket /\ Off(Oldest, k) <= Off(Oldest, e)
                       => Off(Oldest, next_to_watch'[k]) <= Off(Oldest, e)
    <3>1. k \in Idx /\ (k # Oldest => Pred(k) \in Idx /\ Off(Oldest, Pred(k)) = Off(Oldest, k) - 1)
      BY <1>1, <1>7, StepsStayOnRing, OffPred
    <3>2. CASE k \in Attached
      <4>1. k = Oldest \/ skb[Pred(k)] # NoPacket
        BY <1>1, <1>3, <1>4, <1>5, <1>7, <2>2, <2>4, <3>1, <3>2, Distances DEF TypeOK
      <4>2. /\ skb[next_to_watch[k]] # NoPacket
            /\ Off(Oldest, k) <= Off(Oldest, next_to_watch[k])
            /\ \A e \in Idx :
                  skb[e] # NoPacket /\ Off(Oldest, k) <= Off(Oldest, e)
                    => Off(Oldest, next_to_watch[k]) <= Off(Oldest, e)
        BY <1>1, <3>2, <4>1 DEF RingInv, FirstWatchesLast
      <4>3. next_to_watch'[k] = next_to_watch[k] /\ next_to_watch[k] \in Live
        BY <1>3, <2>1, <2>3, <3>1, <3>2, <4>2 DEF TypeOK
      <4> QED
        BY <1>4, <1>5, <1>6, <1>7, <4>2, <4>3
    <3>3. CASE k = cur
      <4>1. next_to_watch'[k] = last /\ skb'[last] # NoPacket /\ Off(Oldest, k) <= Off(Oldest, last)
        BY <1>4, <1>5, <1>7, <2>1, <3>1, <3>3
      <4>2. \A e \in Idx : skb'[e] # NoPacket /\ Off(Oldest, k) <= Off(Oldest, e) => e = last
        BY <1>1, <1>5, <2>2, <2>3, <3>1, <3>3, Distances
      <4>3. Off(Oldest, last) \in Nat
        BY <1>1, <1>4, <1>7, Distances
      <4> QED
        BY <4>1, <4>2, <4>3
    <3>4. CASE k \notin Attached /\ k # cur
      <4>1. Off(Oldest, cur) < Off(Oldest, k) /\ k # Oldest
        <5>1. cur \in Idx /\ Off(Oldest, k) # Off(Oldest, cur) /\ Off(Oldest, Oldest) = 0
          BY <1>1, <1>7, <2>1, <3>1, <3>4, OffIsDistance
        <5> QED
          BY <1>1, <2>2, <3>1, <3>4, <5>1, Distances
      <4>2. Pred(k) \notin Attached /\ Pred(k) # last
        BY <1>1, <1>4, <1>7, <2>1, <2>2, <3>1, <4>1, Distances
      <4> QED
        BY <1>5, <2>3, <2>4, <3>1, <4>1, <4>2
    <3> QED
      BY <3>2, <3>3, <3>4
  <2> QED
    BY <1>1, <1>2, <2>4 DEF FirstWatchesLast
<1> QED
  BY <1>8, <1>9, <1>10, <1>11, <1>12, <1>13, <1>14 DEF RingInv, OutputAttach, ghosts
\* A packet that did not overrun the ring does not reach the oldest slot.
LEMMA PutFits ==
    ASSUME TypeOK, NEW p \in Packets, NEW n \in 1 .. TBDS_PER_TCB,
           OutputDescriptors(p, n), ~overrun'
    PROVE  /\ Off(next_to_clean, next_to_use) + n < NUM_RING_FRAME
           /\ Off(next_to_clean, Ahead(next_to_use, n)) = Off(next_to_clean, next_to_use) + n
<1>1. next_to_clean \in Idx /\ next_to_use \in Idx /\ n \in Nat
  BY DEF TypeOK
<1>2. ~(n > Unused(next_to_clean, next_to_use))
  BY Zenon DEF OutputDescriptors
<1>3. /\ Unused(next_to_clean, next_to_use) \in Nat
      /\ Off(next_to_clean, next_to_use) + Unused(next_to_clean, next_to_use) = NUM_RING_FRAME - 1
  BY <1>1, UnusedKeepsOneFree DEF Idx
<1>4. Off(next_to_clean, next_to_use) + n < NUM_RING_FRAME
  BY <1>1, <1>2, <1>3, Distances
<1> QED
  BY <1>1, <1>4, OffAhead

\* New descriptors go to slots that are not live; they are the packet being put.
LEMMA RingOutputDescriptors ==
    ASSUME TypeOK, RingInv, NEW p \in Packets, NEW n \in 1 .. TBDS_PER_TCB,
           OutputDescriptors(p, n), ~overrun'
    PROVE  RingInv'
<1> DEFINE new == FilledSlots(n)
           use == Ahead(next_to_use, n)
<1>1. /\ Oldest = next_to_clean /\ Oldest' = next_to_clean /\ next_to_clean \in Idx
      /\ Commit = next_to_use /\ Commit' = next_to_use /\ next_to_use \in Idx
      /\ next_to_use' = use /\ use \in Idx /\ n \in Nat /\ n >= 1
  BY StepsStayOnRing DEF OutputDescriptors, Oldest, Commit, TypeOK
<1>2. Off(next_to_clean, next_to_use) + n < NUM_RING_FRAME
  BY PutFits
<1>3. Off(next_to_clean, use) = Off(next_to_clean, next_to_use) + n
  BY PutFits
<1>4. Attached' = Attached /\ Live = Attached
  BY <1>1 DEF Attached, Live, Between
<1>5. Live' = Attached \cup new /\ Attached \cap new = {} /\ new \subseteq Idx /\ Attached \subseteq Idx
  <2>1. \A k \in Idx : k \in Attached <=> Off(next_to_clean, k) < Off(next_to_clean, next_to_use)
    BY <1>1 DEF Attached, Between
  <2>2. \A k \in Idx : k \in new <=> Off(next_to_use, k) < n
    BY DEF FilledSlots
  <2>3. \A k \in Idx : k \in Live' <=> Off(next_to_clean, k) < Off(next_to_clean, use)
    BY <1>1 DEF Live, Between
  <2>4. new \subseteq Idx /\ Attached \subseteq Idx /\ Live' \subseteq Idx
    BY DEF FilledSlots, Attached, Live, Between
  <2>5. ASSUME NEW k \in Idx
        PROVE  k \in new <=> /\ Off(next_to_clean, k) >= Off(next_to_clean, next_to_use)
                           /\ Off(next_to_clean, k) < Off(next_to_clean, use)
    <3>1. Off(next_to_use, k) = IF Off(next_to_clean, k) >= Off(next_to_clean, next_to_use)
                                THEN Off(next_to_clean, k) - Off(next_to_clean, next_to_use)
                                ELSE Off(next_to_clean, k) - Off(next_to_clean, next_to_use)
                                        + NUM_RING_FRAME
      BY <1>1, OffRebase
    <3> QED
      BY <1>1, <1>2, <1>3, <2>2, <3>1, Distances
  <2>6. ASSUME NEW k \in Idx
        PROVE  /\ k \in Live' <=> k \in Attached \/ k \in new
               /\ ~(k \in Attached /\ k \in new)
    BY <1>1, <1>3, <2>1, <2>3, <2>5, Distances
  <2> QED
    BY <2>4, <2>6
<1>6. Ahead(next_to_use, n - 1) = Pred(use) /\ Pred(use) \in Idx
  BY <1>1 DEF Ahead, Pred, Idx
<1>7. /\ \A k \in Idx : skb[k] # NoPacket => k \in Attached
      /\ \A k \in Idx : skb'[k] = skb[k]
      /\ \A k \in Idx : addr'[k] = IF k \in new THEN p ELSE addr[k]
  BY <1>5 DEF RingInv, SkbOnAttached, OutputDescriptors, TypeOK
<1>8. \A k \in Attached : addr'[k] = addr[k] /\ skb'[k] = skb[k]
  BY <1>5, <1>7
<1>9. Off(Oldest, TDH) <= Off(Oldest, next_to_use) /\ TDH \in Idx /\ TDH' = TDH
  BY DEF RingInv, HeadInLive, OutputDescriptors, TypeOK
<1>10. DD' = DD /\ \A k \in DD : k \in Attached /\ skb[k] # NoPacket
  <2>1. \A k \in DD : k \in Idx /\ skb[k] # NoPacket
    BY DEF RingInv, DoneBehindHead, TypeOK, OutputDescriptors
  <2> QED
    BY <1>5, <1>7, <2>1 DEF OutputDescriptors
<1>11. SkbOnAttached'
  BY <1>4, <1>5, <1>7, <1>8 DEF RingInv, SkbOnAttached
<1>12. MbufFollows' /\ NoneAfterMbuf'
  BY <1>1, <1>4, <1>8 DEF RingInv, MbufFollows, NoneAfterMbuf
<1>13. BeingPut'
  <2>1. \A k \in Idx : skb'[k] # p
    BY <1>7 DEF OutputDescriptors, RingInv, TypeOK
  <2>2. next_to_use \in new
    BY <1>1, OffIsDistance DEF FilledSlots
  <2> QED
    BY <1>4, <1>5, <1>7, <2>1, <2>2 DEF OutputDescriptors, BeingPut, RingInv
<1>14. ReportOnLast'
  <2>1. RS' = (RS \ new) \cup {Pred(use)}
    BY <1>6 DEF OutputDescriptors
  <2>2. \A k \in Attached : k \in RS => skb[k] # NoPacket
    BY <1>4 DEF RingInv, ReportOnLast, OutputDescriptors
  <2> QED
    BY <1>1, <1>5, <1>7, <2>1, <2>2 DEF ReportOnLast, OutputDescriptors
<1>15. DoneBehindHead'
  <2>1. Between(Oldest, TDH)' = Between(Oldest, TDH)
    BY <1>1, <1>9 DEF Between
  <2>2. \A k \in DD : k \in Between(Oldest, TDH)
    BY DEF RingInv, DoneBehindHead
  <2> QED
    BY <1>5, <1>7, <1>10, <2>1, <2>2 DEF DoneBehindHead
<1>16. HeadInLive' /\ DownIsEmpty'
  BY <1>1, <1>3, <1>9, Distances DEF HeadInLive, DownIsEmpty, OutputDescriptors
<1>17. pkt = NoPacket /\ p \notin held /\ pkt' = p /\ held' = held \cup {p} /\ abandoned' = abandoned
  BY DEF OutputDescriptors, TypeOK
<1>18. {skb[k] : k \in Idx} = {skb'[k] : k \in Idx}
  BY <1>7
<1>19. FirstWatchesLast'
  <2>1. \A k \in Attached : next_to_watch'[k] = next_to_watch[k] /\ next_to_watch[k] \in Idx
    BY <1>5 DEF OutputDescriptors, TypeOK
  <2>2. \A k \in Attached : Pred(k) \in Idx
    BY <1>5, StepsStayOnRing
  <2> QED
    BY <1>1, <1>4, <1>7, <2>1, <2>2 DEF RingInv, FirstWatchesLast
<1> QED
  BY <1>11, <1>12, <1>13, <1>14, <1>15, <1>16, <1>17, <1>18, <1>19 DEF RingInv

\* A turn of the clean loop moves the oldest slot on by the slots through the watched one, which
\* the adapter has passed.
LEMMA CleanShift ==
    ASSUME TypeOK, RingInv, CleanPacket
    PROVE  LET eop == next_to_watch[cur]
               d   == Off(cur, eop) + 1
           IN  /\ Off(cur, eop) < Off(cur, TDH) /\ Off(cur, TDH) <= Off(cur, next_to_use)
               /\ d \in Nat /\ d < NUM_RING_FRAME /\ Off(cur, Succ(eop)) = d
               /\ \A k \in Idx : Off(Succ(eop), k) = IF Off(cur, k) >= d THEN Off(cur, k) - d
                                                      ELSE Off(cur, k) - d + NUM_RING_FRAME
               /\ \A k \in Idx : k \in Through(cur, eop) <=> Off(cur, k) < d
<1> DEFINE eop == next_to_watch[cur]
           slots == Through(cur, eop)
           d == Off(cur, eop) + 1
<1>1. /\ Oldest = cur /\ cur \in Idx /\ Commit = next_to_use /\ next_to_use \in Idx
      /\ eop \in Idx /\ eop \in DD /\ Succ(eop) \in Idx
      /\ Oldest' = Succ(eop) /\ Commit' = next_to_use /\ next_to_use' = next_to_use
      /\ TDH' = TDH /\ TDT' = TDT /\ TDH \in Idx
  BY StepsStayOnRing DEF CleanPacket, Oldest, Commit, TypeOK
<1>2. Off(cur, eop) < Off(cur, TDH) /\ Off(cur, TDH) <= Off(cur, next_to_use)
  <2>1. eop \in Between(cur, TDH)
    BY <1>1 DEF RingInv, DoneBehindHead
  <2> QED
    BY <1>1, <2>1 DEF RingInv, HeadInLive, Between
<1>3. d \in Nat /\ d < NUM_RING_FRAME /\ Off(cur, Succ(eop)) = d
  <2>1. Off(cur, eop) + 1 # NUM_RING_FRAME
    BY <1>1, <1>2, Distances
  <2> QED
    BY <1>1, <1>2, <2>1, OffSucc, Distances
<1>4. \A k \in Idx : Off(Succ(eop), k) = IF Off(cur, k) >= d THEN Off(cur, k) - d
                                         ELSE Off(cur, k) - d + NUM_RING_FRAME
  BY <1>1, <1>3, OffRebase
<1>5. \A k \in Idx : k \in slots <=> Off(cur, k) < d
  BY <1>1, <1>3, Distances DEF Through
<1> QED
  BY <1>2, <1>3, <1>4, <1>5

\* A reported packet's slots leave at the old end; what remains is shifted.
LEMMA RingCleanPacket == TypeOK /\ RingInv /\ CleanPacket => RingInv'
<1> SUFFICES ASSUME TypeOK, RingInv, CleanPacket PROVE RingInv'
  OBVIOUS
<1> DEFINE eop == next_to_watch[cur]
           slots == Through(cur, eop)
           d == Off(cur, eop) + 1
<1>1. /\ Oldest = cur /\ cur \in Idx /\ Commit = next_to_use /\ next_to_use \in Idx
      /\ eop \in Idx /\ eop \in DD /\ Succ(eop) \in Idx
      /\ Oldest' = Succ(eop) /\ Commit' = next_to_use /\ next_to_use' = next_to_use
      /\ TDH' = TDH /\ TDT' = TDT /\ TDH \in Idx
  BY StepsStayOnRing DEF CleanPacket, Oldest, Commit, TypeOK
<1>2. Off(cur, eop) < Off(cur, TDH) /\ Off(cur, TDH) <= Off(cur, next_to_use)
  BY CleanShift
<1>3. d \in Nat /\ d < NUM_RING_FRAME /\ Off(cur, Succ(eop)) = d
  BY CleanShift
<1>4. \A k \in Idx : Off(Succ(eop), k) = IF Off(cur, k) >= d THEN Off(cur, k) - d
                                         ELSE Off(cur, k) - d + NUM_RING_FRAME
  BY CleanShift
<1>5. \A k \in Idx : k \in slots <=> Off(cur, k) < d
  BY CleanShift
<1>6. /\ Attached \subseteq Idx /\ Live = Attached /\ Live' = Attached'
      /\ Attached' = Attached \ slots
  <2>1. Live = Attached /\ Live' = Attached' /\ Attached \subseteq Idx /\ Attached' \subseteq Idx
    BY <1>1 DEF Live, Attached, Between
  <2>2. \A k \in Idx : k \in Attached <=> Off(cur, k) < Off(cur, next_to_use)
    BY <1>1 DEF Attached, Between
  <2>3. \A k \in Idx : k \in Attached' <=> Off(Succ(eop), k) < Off(Succ(eop), next_to_use)
    BY <1>1 DEF Attached, Between
  <2>4. ASSUME NEW k \in Idx PROVE k \in Attached' <=> k \in Attached /\ k \notin slots
    BY <1>1, <1>2, <1>3, <1>4, <1>5, <2>2, <2>3, Distances
  <2> QED
    BY <2>1, <2>4
<1>7. /\ \A k \in Idx : skb'[k] = IF k \in slots THEN NoPacket ELSE skb[k]
      /\ addr' = addr /\ RS' = RS /\ DD' = DD \ slots
      /\ held' = held \ {skb[k] : k \in slots}
  BY DEF CleanPacket
<1>8. /\ gate = "clean" /\ gate' = "clean" /\ pkt = NoPacket /\ pkt' = NoPacket
      /\ abandoned' = abandoned
      /\ enabledForNetif' = enabledForNetif
  BY DEF CleanPacket, TypeOK, ghosts
<1>9. SkbOnAttached'
  BY <1>6, <1>7 DEF RingInv, SkbOnAttached
<1>10. MbufFollows'
  <2>1. ASSUME NEW k \in Attached \ slots
        PROVE  \E e \in Attached \ slots :
                  Off(Succ(eop), k) <= Off(Succ(eop), e) /\ skb'[e] = addr[k] /\ skb'[e] # NoPacket
    <3>1. PICK e \in Attached : Off(cur, k) <= Off(cur, e) /\ skb[e] = addr[k] /\ skb[e] # NoPacket
      BY <1>1 DEF RingInv, MbufFollows
    <3>2. e \notin slots
      BY <1>1, <1>3, <1>5, <1>6, <3>1, Distances
    <3>3. Off(Succ(eop), k) <= Off(Succ(eop), e)
      BY <1>1, <1>3, <1>4, <1>5, <1>6, <3>1, <3>2, Distances
    <3> QED
      BY <1>6, <1>7, <3>1, <3>2, <3>3
  <2> QED
    BY <1>1, <1>6, <1>7, <2>1 DEF MbufFollows
<1>11. NoneAfterMbuf'
  <2>1. ASSUME NEW k \in Attached \ slots, NEW e \in Attached \ slots,
               skb'[e] # NoPacket, addr[k] = skb'[e]
        PROVE  Off(Succ(eop), k) <= Off(Succ(eop), e)
    <3>1. Off(cur, k) <= Off(cur, e)
      BY <1>1, <1>6, <1>7, <2>1 DEF RingInv, NoneAfterMbuf
    <3> QED
      BY <1>1, <1>3, <1>4, <1>5, <1>6, <3>1, Distances
  <2> QED
    BY <1>1, <1>6, <1>7, <2>1 DEF NoneAfterMbuf
<1>12. BeingPut'
  BY <1>8 DEF BeingPut
<1>13. ReportOnLast'
  BY <1>6, <1>7, <1>8 DEF RingInv, ReportOnLast
<1>14. Between(Oldest, TDH)' = Between(cur, TDH) \ slots
  <2>1. \A k \in Idx : k \in Between(Oldest, TDH)' <=> Off(Succ(eop), k) < Off(Succ(eop), TDH)
    BY <1>1 DEF Between
  <2>2. \A k \in Idx : k \in Between(cur, TDH) <=> Off(cur, k) < Off(cur, TDH)
    BY DEF Between
  <2>3. ASSUME NEW k \in Idx
        PROVE  k \in Between(Oldest, TDH)' <=> k \in Between(cur, TDH) /\ k \notin slots
    BY <1>1, <1>2, <1>3, <1>4, <1>5, <2>1, <2>2, Distances
  <2>4. Between(Oldest, TDH)' \subseteq Idx /\ Between(cur, TDH) \subseteq Idx
    BY DEF Between
  <2> QED
    BY <2>3, <2>4
<1>15. DoneBehindHead'
  <2>1. DD \subseteq Idx
    BY DEF TypeOK
  <2> QED
    BY <1>1, <1>7, <1>8, <1>14, <2>1 DEF RingInv, DoneBehindHead
<1>16. HeadInLive' /\ DownIsEmpty'
  <2>1. Off(Succ(eop), TDH) <= Off(Succ(eop), next_to_use)
    BY <1>1, <1>2, <1>3, <1>4, Distances
  <2> QED
    BY <1>1, <1>8, <2>1 DEF RingInv, HeadInLive, DownIsEmpty
<1>17. abandoned \subseteq held' /\ held' \ abandoned = {skb'[k] : k \in Idx} \ {NoPacket}
  <2>1. \A k \in Idx : skb[k] \in Packets => skb[k] \in held \ abandoned
    BY DEF RingInv
  <2>2. ASSUME NEW x \in Idx, NEW y \in Idx, skb[x] = skb[y], skb[x] # NoPacket
        PROVE  x = y
    <3>1. /\ x \in Attached /\ addr[x] = skb[x] /\ y \in Attached /\ addr[y] = skb[y]
      BY <2>2 DEF RingInv, SkbOnAttached
    <3>2. Off(cur, x) <= Off(cur, y) /\ Off(cur, y) <= Off(cur, x)
      BY <1>1, <2>2, <3>1 DEF RingInv, NoneAfterMbuf
    <3>3. Off(cur, x) = Off(cur, y)
      BY <1>1, <3>2, Distances
    <3> QED
      BY <1>1, <3>3, OffIsDistance
  <2>3. held \ abandoned = {skb[k] : k \in Idx} \ {NoPacket} /\ abandoned \subseteq held
    BY <1>8 DEF RingInv
  <2>4. NoPacket \notin held /\ \A k \in Idx : skb[k] \in Packets \cup {NoPacket}
    BY DEF TypeOK
  <2>5. slots \subseteq Idx
    BY DEF Through
  <2> HIDE DEF slots
  <2>6. abandoned \subseteq held'
    BY <1>7, <2>1, <2>3, <2>4, <2>5
  <2>7. held' \ abandoned \subseteq {skb'[k] : k \in Idx} \ {NoPacket}
    BY <1>7, <2>3, <2>4, <2>5
  <2>8. {skb'[k] : k \in Idx} \ {NoPacket} \subseteq held' \ abandoned
    BY <1>7, <2>2, <2>3, <2>5
  <2> QED
    BY <2>6, <2>7, <2>8
<1>18. FirstWatchesLast'
  <2>1. skb[eop] # NoPacket /\ Pred(Succ(eop)) = eop
    BY <1>1, <1>8, PredSucc DEF RingInv, DoneBehindHead
  <2>2. ASSUME NEW k \in Attached \ slots, k = Succ(eop) \/ skb'[Pred(k)] # NoPacket
        PROVE  /\ skb'[next_to_watch[k]] # NoPacket
               /\ Off(Succ(eop), k) <= Off(Succ(eop), next_to_watch[k])
               /\ \A e \in Idx :
                     skb'[e] # NoPacket /\ Off(Succ(eop), k) <= Off(Succ(eop), e)
                       => Off(Succ(eop), next_to_watch[k]) <= Off(Succ(eop), e)
    <3>1. k \in Idx /\ Pred(k) \in Idx /\ next_to_watch[k] \in Idx /\ Off(cur, k) >= d
      <4>1. k \in Idx /\ k \notin slots
        BY <1>6
      <4>2. Pred(k) \in Idx /\ next_to_watch[k] \in Idx
        BY <4>1, StepsStayOnRing DEF TypeOK
      <4>3. Off(cur, k) \in Nat
        BY <1>1, <4>1, Distances
      <4> QED
        BY <1>3, <1>5, <4>1, <4>2, <4>3
    <3>2. skb[Pred(k)] # NoPacket
      BY <1>7, <2>1, <2>2, <3>1
    <3>3. /\ skb[next_to_watch[k]] # NoPacket
          /\ Off(cur, k) <= Off(cur, next_to_watch[k])
          /\ \A e \in Idx :
                skb[e] # NoPacket /\ Off(cur, k) <= Off(cur, e)
                  => Off(cur, next_to_watch[k]) <= Off(cur, e)
      BY <1>1, <3>2 DEF RingInv, FirstWatchesLast
    <3>4. Off(cur, next_to_watch[k]) >= d
      BY <1>1, <1>3, <3>1, <3>3, Distances
    <3>5. skb'[next_to_watch[k]] # NoPacket
      BY <1>1, <1>3, <1>5, <1>7, <3>1, <3>3, <3>4, Distances
    <3>6. Off(Succ(eop), k) <= Off(Succ(eop), next_to_watch[k])
      BY <1>1, <1>3, <1>4, <3>1, <3>3, <3>4, Distances
    <3>7. ASSUME NEW e \in Idx, skb'[e] # NoPacket, Off(Succ(eop), k) <= Off(Succ(eop), e)
          PROVE  Off(Succ(eop), next_to_watch[k]) <= Off(Succ(eop), e)
      <4>1. skb[e] # NoPacket /\ Off(cur, e) >= d
        BY <1>1, <1>3, <1>5, <1>7, <3>7, Distances
      <4>2. Off(cur, k) <= Off(cur, e)
        BY <1>1, <1>3, <1>4, <3>1, <3>7, <4>1, Distances
      <4> QED
        BY <1>1, <1>3, <1>4, <3>1, <3>3, <3>4, <4>1, <4>2, Distances
    <3> QED
      BY <3>5, <3>6, <3>7
  <2>3. next_to_watch' = next_to_watch
    BY DEF CleanPacket
  <2> QED
    BY <1>1, <1>6, <2>2, <2>3 DEF FirstWatchesLast
<1> QED
  BY <1>7, <1>8, <1>9, <1>10, <1>11, <1>12, <1>13, <1>15, <1>16, <1>17, <1>18 DEF RingInv
-----------------------------------------------------------------------------
(* The invariant and what follows from it.                                 *)

LEMMA InvInit == Init => IInv
<1> SUFFICES ASSUME Init PROVE IInv
  OBVIOUS
<1>1. 0 \in Idx /\ Off(0, 0) = 0
  BY DEF Idx, Off
<1>2. TypeOK
  BY <1>1 DEF Init, TypeOK
<1>3. Oldest = 0 /\ Commit = 0 /\ Attached = {} /\ Live = {}
  BY <1>1, BetweenSelf DEF Init, Oldest, Commit, Attached, Live
<1>4. RingInv
  BY <1>1, <1>3 DEF Init, RingInv, SkbOnAttached, MbufFollows, NoneAfterMbuf, BeingPut,
     FirstWatchesLast, ReportOnLast, DoneBehindHead, HeadInLive, DownIsEmpty
<1> QED
  BY <1>2, <1>4 DEF IInv

\* A ring once overrun counts as overrun for ever.
LEMMA OverrunStays ==
    ASSUME [Next]_vars, ~overrun'
    PROVE  ~overrun
<1>1. ASSUME NEW p \in Packets, NEW n \in 1 .. TBDS_PER_TCB, OutputDescriptors(p, n)
      PROVE  ~overrun
  BY <1>1, Zenon DEF OutputDescriptors
<1>2. ASSUME UNCHANGED overrun PROVE ~overrun
  BY <1>2
<1> QED
  BY <1>1, <1>2 DEF Next, Enable, EnableFails, WatchdogEnablesTransmit, Disable, OutputAttach,
     CleanBegin, CleanPacket, CleanEnd, HwTransmit, vars, ghosts

LEMMA InvStep == IInv /\ [Next]_vars => IInv'
<1> SUFFICES ASSUME IInv, [Next]_vars PROVE IInv'
  OBVIOUS
<1>1. TypeOK'
  BY TypeStep DEF IInv
<1>2. SUFFICES ASSUME ~overrun' PROVE RingInv'
  BY <1>1 DEF IInv
<1>3. ~overrun
  BY <1>2, OverrunStays
<1>4. TypeOK /\ RingInv
  BY <1>3 DEF IInv
<1>5. CASE Enable
  BY <1>4, <1>5, RingEnable
<1>6. ASSUME EnableFails \/ WatchdogEnablesTransmit \/ UNCHANGED vars PROVE RingInv'
  <2>1. Oldest' = Oldest /\ Commit' = Commit
    BY <1>6 DEF EnableFails, WatchdogEnablesTransmit, vars, swVars, Oldest, Commit
  <2> QED
    BY <1>4, <1>6, <2>1, RingUntouched DEF EnableFails, WatchdogEnablesTransmit, vars, swVars, ghosts
<1>7. CASE Disable
  BY <1>4, <1>7, RingDisable
<1>8. ASSUME NEW p \in Packets, NEW n \in 1 .. TBDS_PER_TCB, OutputDescriptors(p, n)
      PROVE  RingInv'
  BY <1>2, <1>4, <1>8, RingOutputDescriptors
<1>9. CASE OutputAttach
  BY <1>4, <1>9, RingOutputAttach
<1>10. CASE CleanBegin
  BY <1>4, <1>10, RingCleanBegin
<1>11. CASE CleanPacket
  BY <1>4, <1>11, RingCleanPacket
<1>12. CASE CleanEnd
  BY <1>4, <1>12, RingCleanEnd
<1>13. CASE HwTransmit
  BY <1>4, <1>13, RingHwTransmit
<1> QED
  BY <1>5, <1>6, <1>7, <1>8, <1>9, <1>10, <1>11, <1>12, <1>13 DEF Next

\* The inductive invariant holds of every behaviour: at any load the variables are
\* typed, and a ring that was never overrun is a sequence of whole packets.
THEOREM InvCorrect == Spec => []IInv
  BY InvInit, InvStep, PTL DEF Spec

\* Every reachable state is well typed.
THEOREM TypeCorrect == Spec => []TypeOK
<1>1. IInv => TypeOK
  BY DEF IInv
<1> QED
  BY <1>1, InvCorrect, PTL

\* What the adapter has left to send is live.
LEMMA HwOwnedIsLive == TypeOK /\ RingInv => Between(TDH, TDT) \subseteq Live
<1> SUFFICES ASSUME TypeOK, RingInv, NEW k \in Between(TDH, TDT) PROVE k \in Live
  OBVIOUS
<1>1. /\ Oldest \in Idx /\ TDH \in Idx /\ TDT = next_to_use /\ next_to_use \in Idx
      /\ Off(Oldest, TDH) <= Off(Oldest, next_to_use)
  BY DEF RingInv, HeadInLive, TypeOK, Oldest
<1>2. k \in Idx /\ Off(TDH, k) < Off(TDH, next_to_use)
  BY <1>1 DEF Between
<1>3. Off(TDH, k) = IF Off(Oldest, k) >= Off(Oldest, TDH)
                    THEN Off(Oldest, k) - Off(Oldest, TDH)
                    ELSE Off(Oldest, k) - Off(Oldest, TDH) + NUM_RING_FRAME
  BY <1>1, <1>2, OffRebase
<1>4. Off(TDH, next_to_use) = Off(Oldest, next_to_use) - Off(Oldest, TDH)
  BY <1>1, OffRebase
<1>5. Off(Oldest, k) < Off(Oldest, next_to_use)
  BY <1>1, <1>2, <1>3, <1>4, Distances
<1> QED
  BY <1>2, <1>5 DEF Live, Between

\* Attached slots are live.
LEMMA AttachedIsLive == TypeOK /\ RingInv => Attached \subseteq Live
<1> SUFFICES ASSUME TypeOK, RingInv PROVE Attached \subseteq Live
  OBVIOUS
<1>1. CASE gate = "output"
  <2>1. Off(Oldest, cur) < Off(Oldest, next_to_use) /\ Oldest \in Idx
    BY <1>1 DEF RingInv, BeingPut, Live, Between, TypeOK, Oldest
  <2> QED
    BY <1>1, <2>1, Distances DEF Live, Attached, Commit, Between, TypeOK
<1>2. CASE gate # "output"
  BY <1>2 DEF Live, Attached, Commit
<1> QED
  BY <1>1, <1>2

\* The adapter never reads an mbuf the driver has freed, whatever the ring size, the
\* number of segments and the interleaving of outputPacket, cleaning and DMA.
THEOREM HwReadsHeldCorrect == Spec => []HwReadsHeld
<1>1. IInv => HwReadsHeld
  <2> SUFFICES ASSUME TypeOK, RingInv, NEW k \in Between(TDH, TDT) PROVE addr[k] \in held
    BY DEF IInv, HwReadsHeld
  <2>1. k \in Live
    BY HwOwnedIsLive
  <2>2. CASE k \in Attached
    <3>1. PICK e \in Attached : skb[e] = addr[k] /\ skb[e] # NoPacket
      BY <2>2 DEF RingInv, MbufFollows
    <3>2. e \in Idx
      BY DEF Attached, Between
    <3> QED
      BY <3>1, <3>2 DEF RingInv
  <2>3. CASE k \notin Attached
    <3>1. gate = "output"
      BY <2>1, <2>3 DEF Live, Attached, Commit
    <3> QED
      BY <2>1, <2>3, <3>1 DEF RingInv, BeingPut
  <2> QED
    BY <2>2, <2>3
<1> QED
  BY <1>1, InvCorrect, PTL

\* Outside next_to_clean .. next_to_use nothing is attached and nothing is left to send.
THEOREM OutsideIsFreeCorrect == Spec => []OutsideIsFree
<1>1. IInv => OutsideIsFree
  <2> SUFFICES ASSUME TypeOK, RingInv
               PROVE  /\ \A k \in Idx : skb[k] # NoPacket => k \in Live
                      /\ Between(TDH, TDT) \subseteq Live
    BY DEF IInv, OutsideIsFree, Live
  <2> QED
    BY HwOwnedIsLive, AttachedIsLive DEF RingInv, SkbOnAttached
<1> QED
  BY <1>1, InvCorrect, PTL

\* Nothing leaks while the interface runs and nothing on the ring was freed.
THEOREM NothingLostCorrect == Spec => []NothingLost
<1>1. IInv => NothingLost
  BY DEF IInv, RingInv, NothingLost
<1> QED
  BY <1>1, InvCorrect, PTL

\* No stale DD bit survives to be found through an old next_to_watch.
THEOREM DoneIsAttachedCorrect == Spec => []DoneIsAttached
<1>1. IInv => DoneIsAttached
  BY DEF IInv, RingInv, DoneBehindHead, DoneIsAttached
<1> QED
  BY <1>1, InvCorrect, PTL
-----------------------------------------------------------------------------
(* The ring implements the queue, step by step.                            *)

\* A step of the ring is one of the queue, or none.
QueueStep == [Queue!Next]_Queue!vars

\* The last slots of the packets, and those packets: each has one, and it is one of theirs.
LEMMA LastSlotsOfOwed ==
    ASSUME TypeOK, RingInv
    PROVE  /\ LastSlots \subseteq Live /\ Live \subseteq Idx
           /\ held \ abandoned = {addr[k] : k \in LastSlots}
           /\ \A i, k \in LastSlots : addr[i] = addr[k] => i = k
<1>1. Oldest \in Idx /\ Attached \subseteq Idx /\ Live \subseteq Idx /\ Attached \subseteq Live
  BY AttachedIsLive DEF TypeOK, Oldest, Attached, Live, Between
<1>2. \A k \in Idx : skb[k] # NoPacket => k \in Attached /\ addr[k] = skb[k]
  BY DEF RingInv, SkbOnAttached
<1>3. ASSUME gate = "output"
      PROVE  /\ Pred(next_to_use) \in Live /\ addr[Pred(next_to_use)] = pkt /\ pkt # NoPacket
             /\ \A k \in Idx : skb[k] # pkt
  BY <1>3, PutIsLive DEF RingInv, BeingPut, TypeOK
<1>4. LastSlots \subseteq Live
  BY <1>1, <1>2, <1>3 DEF LastSlots
<1>5. ASSUME NEW i \in LastSlots, NEW k \in LastSlots, addr[i] = addr[k]
      PROVE  i = k
  <2>1. CASE skb[i] # NoPacket /\ skb[k] # NoPacket
    <3>1. i \in Attached /\ k \in Attached /\ skb[i] = addr[k] /\ skb[k] = addr[i]
      BY <1>2, <1>5, <2>1 DEF LastSlots
    <3>2. Off(Oldest, i) <= Off(Oldest, k) /\ Off(Oldest, k) <= Off(Oldest, i)
      BY <1>5, <2>1, <3>1 DEF RingInv, NoneAfterMbuf
    <3>3. Off(Oldest, i) = Off(Oldest, k)
      BY <1>1, <3>1, <3>2, Distances
    <3> QED
      BY <1>1, <3>1, <3>3, OffIsDistance
  <2>2. CASE ~(skb[i] # NoPacket /\ skb[k] # NoPacket)
    BY <1>2, <1>3, <1>5, <2>2 DEF LastSlots
  <2> QED
    BY <2>1, <2>2
<1>6. held \ abandoned = {addr[k] : k \in LastSlots}
  <2>1. held \ abandoned = ({skb[k] : k \in Idx} \cup {pkt}) \ {NoPacket}
    BY DEF RingInv
  <2>2. gate # "output" => pkt = NoPacket
    BY DEF TypeOK
  <2>3. ASSUME NEW p \in held \ abandoned PROVE \E k \in LastSlots : addr[k] = p
    <3>1. CASE p = pkt
      BY <1>1, <1>3, <2>1, <2>2, <3>1 DEF LastSlots
    <3>2. CASE p # pkt
      BY <1>2, <2>1, <2>3, <3>2 DEF LastSlots
    <3> QED
      BY <3>1, <3>2
  <2>4. ASSUME NEW k \in LastSlots PROVE addr[k] \in held \ abandoned
    BY <1>2, <1>3, <2>1 DEF LastSlots
  <2> QED
    BY <2>3, <2>4
<1> QED
  BY <1>1, <1>4, <1>5, <1>6

LEMMA QueueInit == Init => Queue!Init
<1> SUFFICES ASSUME Init PROVE Queue!Init
  OBVIOUS
<1> QED
  BY DEF Init, Queue!Init, owedBar, beforeBar, sentBar

\* Nothing is owed, nothing before or after anything else, nothing sent.
LEMMA NothingOwed ==
    ASSUME owedBar = {}
    PROVE  beforeBar = {} /\ sentBar = {}
  BY DEF beforeBar, sentBar

LEMMA NothingOwedNext ==
    ASSUME owedBar' = {}
    PROVE  beforeBar' = {} /\ sentBar' = {}
  BY DEF beforeBar, sentBar

\* Steps that leave the packets' last slots and their order alone.
LEMMA QueueUntouched ==
    ASSUME LastSlots' = LastSlots, \A k \in LastSlots : addr'[k] = addr[k],
           Oldest' = Oldest, UNCHANGED <<TDH, held, abandoned, overrun>>
    PROVE  QueueStep
<1>1. owedBar' = owedBar
  BY DEF owedBar
<1>2. beforeBar' = beforeBar
  BY <1>1 DEF beforeBar, Older
<1>3. sentBar' = sentBar
  BY <1>1 DEF sentBar, Older
<1> QED
  BY <1>1, <1>2, <1>3 DEF QueueStep, Queue!vars

\* An overrun ring owes nothing more.
LEMMA QueueBreaks ==
    ASSUME overrun'
    PROVE  QueueStep
<1>1. owedBar' = {}
  BY DEF owedBar
<1>2. beforeBar' = {} /\ sentBar' = {}
  BY <1>1, NothingOwedNext
<1> QED
  BY <1>1, <1>2 DEF QueueStep, Queue!Next, Queue!Break

\* The packet put is the youngest, and nothing of it is sent yet.
LEMMA QueueAccept ==
    ASSUME TypeOK, RingInv, NEW p \in Packets, NEW n \in 1 .. TBDS_PER_TCB,
           OutputDescriptors(p, n), ~overrun'
    PROVE  Queue!Accept(p)
<1> DEFINE use  == Ahead(next_to_use, n)
           last == Pred(use)
<1>1. /\ Oldest = next_to_clean /\ Oldest' = Oldest /\ Oldest \in Idx
      /\ next_to_use \in Idx /\ use \in Idx /\ next_to_use' = use
      /\ n \in Nat /\ n >= 1 /\ ~overrun /\ TDH' = TDH /\ TDH \in Idx
      /\ gate # "output" /\ gate' = "output"
  <2>1. ~overrun
    BY Zenon DEF OutputDescriptors
  <2>2. gate = "idle" /\ gate' = "output" /\ TDH' = TDH /\ next_to_use' = use /\ next_to_clean' = next_to_clean
    BY DEF OutputDescriptors
  <2>3. next_to_clean \in Idx /\ next_to_use \in Idx /\ TDH \in Idx /\ n \in 0 .. NUM_RING_FRAME /\ n >= 1
    BY DEF TypeOK
  <2>4. use \in Idx
    BY <2>3, StepsStayOnRing
  <2> QED
    BY <2>1, <2>2, <2>3, <2>4 DEF Oldest
<1>2. /\ last \in Idx /\ Off(Oldest, next_to_use) <= Off(Oldest, last)
      /\ Off(Oldest, TDH) <= Off(Oldest, last)
      /\ last \in FilledSlots(n)
  <2>1. /\ Off(Oldest, next_to_use) + n < NUM_RING_FRAME
        /\ Off(Oldest, use) = Off(Oldest, next_to_use) + n
    BY <1>1, PutFits
  <2>2. use # Oldest
    <3>1. Off(Oldest, Oldest) = 0 /\ Off(Oldest, next_to_use) \in Nat
      BY <1>1, OffIsDistance, Distances
    <3> QED
      BY <1>1, <2>1, <3>1
  <2>3. last \in Idx /\ Off(Oldest, last) = Off(Oldest, use) - 1
    BY <1>1, <2>2, OffPred, StepsStayOnRing
  <2>4. Off(Oldest, next_to_use) <= Off(Oldest, last)
    BY <1>1, <2>1, <2>3, Distances
  <2>5. Off(next_to_use, last) = Off(Oldest, last) - Off(Oldest, next_to_use)
    BY <1>1, <2>3, <2>4, OffRebase
  <2>6. last \in FilledSlots(n)
    BY <1>1, <2>1, <2>3, <2>5, Distances DEF FilledSlots
  <2>7. Off(Oldest, TDH) <= Off(Oldest, next_to_use)
    BY DEF RingInv, HeadInLive
  <2> QED
    BY <1>1, <2>3, <2>4, <2>6, <2>7, Distances
<1>3. /\ \A k \in LastSlots : /\ k \in Idx /\ k # last /\ addr'[k] = addr[k]
                              /\ k \notin FilledSlots(n)
                              /\ Off(Oldest, k) < Off(Oldest, last)
      /\ addr'[last] = p
  <2>1. \A k \in LastSlots : k \in Idx /\ Off(Oldest, k) < Off(Oldest, next_to_use)
    BY LastSlotsOfOwed DEF Live, Between
  <2>2. \A k \in LastSlots : Off(Oldest, k) < Off(Oldest, last) /\ k # last
    BY <1>1, <1>2, <2>1, Distances
  <2>3. \A k \in LastSlots : k \notin FilledSlots(n)
    <3> SUFFICES ASSUME NEW k \in LastSlots PROVE ~(Off(next_to_use, k) < n)
      BY DEF FilledSlots
    <3>1. Off(next_to_use, k) = Off(Oldest, k) - Off(Oldest, next_to_use) + NUM_RING_FRAME
      BY <1>1, <2>1, OffRebase, Distances
    <3>2. Off(Oldest, next_to_use) + n < NUM_RING_FRAME
      BY <1>1, PutFits
    <3> QED
      BY <1>1, <2>1, <3>1, <3>2, Distances
  <2>4. \A k \in Idx : addr'[k] = IF k \in FilledSlots(n) THEN p ELSE addr[k]
    BY DEF OutputDescriptors
  <2> QED
    BY <1>2, <2>1, <2>2, <2>3, <2>4
<1>4. LastSlots' = LastSlots \cup {last}
  <2>1. \A k \in Idx : skb[k] # NoPacket => k \notin FilledSlots(n)
    <3> SUFFICES ASSUME NEW k \in Idx, skb[k] # NoPacket PROVE k \notin FilledSlots(n)
      OBVIOUS
    <3>1. k \in LastSlots
      BY DEF LastSlots
    <3> QED
      BY <1>3, <3>1
  <2> QED
    BY <1>1, <1>2, <2>1 DEF LastSlots, OutputDescriptors
<1>5. p \notin owedBar /\ owedBar' = owedBar \cup {p}
  BY <1>1 DEF owedBar, OutputDescriptors, RingInv
<1>6. \A k \in LastSlots : addr[k] \in owedBar
  BY <1>1, LastSlotsOfOwed DEF owedBar
<1>7. beforeBar' = beforeBar \cup (owedBar \X {p})
  <2>1. \A i, k \in LastSlots' :
           Off(Oldest', i) < Off(Oldest', k)
             <=> i \in LastSlots /\ ((k \in LastSlots /\ Older(i, k)) \/ k = last)
    <3> HIDE DEF last
    <3>1. \A k \in LastSlots : Off(Oldest, k) \in Nat
      BY <1>1, <1>3, Distances
    <3>2. Off(Oldest, last) \in Nat
      BY <1>1, <1>2, Distances
    <3> QED
      BY <1>1, <1>3, <1>4, <3>1, <3>2 DEF Older
  <2>2. ASSUME NEW q \in owedBar PROVE \E i \in LastSlots : addr[i] = q
    BY <1>1, LastSlotsOfOwed DEF owedBar
  <2> HIDE DEF last
  <2>3. ASSUME NEW q, NEW r
        PROVE  (\E i, k \in LastSlots' : addr'[i] = q /\ addr'[k] = r /\ Off(Oldest', i) < Off(Oldest', k))
               <=> \/ \E i, k \in LastSlots : addr[i] = q /\ addr[k] = r /\ Older(i, k)
                   \/ q \in owedBar /\ r = p
    BY <1>3, <1>4, <1>6, <2>1, <2>2
  <2>4. ASSUME NEW e
        PROVE  e \in beforeBar' <=> e \in beforeBar \/ e \in owedBar \X {p}
    BY <1>5, <1>6, <2>3 DEF beforeBar, Older
  <2> QED
    BY <2>4
<1>8. sentBar' = sentBar
  <2>1. \A k \in LastSlots : Off(Oldest', k) < Off(Oldest', TDH') <=> Older(k, TDH)
    BY <1>1 DEF Older
  <2>2. ~(Off(Oldest', last) < Off(Oldest', TDH'))
    <3> HIDE DEF last
    <3> QED
      BY <1>1, <1>2, Distances
  <2> HIDE DEF last
  <2>3. ASSUME NEW q
        PROVE  q \in sentBar' <=> q \in sentBar
    BY <1>3, <1>4, <1>5, <1>6, <2>1, <2>2 DEF sentBar, Older
  <2> QED
    BY <2>3
<1>9. overrun' = overrun
  <2>1. overrun' \in BOOLEAN /\ overrun \in BOOLEAN
    BY DEF OutputDescriptors, TypeOK
  <2> QED
    BY <1>1, <2>1
<1> QED
  BY <1>1, <1>5, <1>7, <1>8, <1>9 DEF Queue!Accept

\* The adapter passes the last slot of a packet all older ones of which are behind it.
LEMMA QueueHwTransmit ==
    ASSUME TypeOK, RingInv, ~overrun, HwTransmit
    PROVE  QueueStep
<1>1. /\ Oldest \in Idx /\ Oldest' = Oldest /\ TDH \in Idx /\ TDH' = Succ(TDH)
      /\ LastSlots' = LastSlots /\ LastSlots \subseteq Idx /\ addr' = addr
      /\ UNCHANGED <<held, abandoned, overrun>>
  BY DEF HwTransmit, swVars, ghosts, Oldest, LastSlots, TypeOK
<1>2. Off(Oldest', TDH') = Off(Oldest, TDH) + 1
  <2>1. TDT = next_to_use /\ next_to_use \in Idx /\ TDH # next_to_use
        /\ Off(Oldest, TDH) <= Off(Oldest, next_to_use)
    BY DEF HwTransmit, TypeOK, RingInv, HeadInLive
  <2>2. Off(Oldest, TDH) # Off(Oldest, next_to_use)
    BY <1>1, <2>1, OffIsDistance
  <2>3. Off(Oldest, TDH) + 1 # NUM_RING_FRAME
    BY <1>1, <2>1, <2>2, Distances
  <2> QED
    BY <1>1, <2>3, OffSucc
<1>3. \A k \in LastSlots : Off(Oldest', k) < Off(Oldest', TDH') <=> Older(k, TDH) \/ k = TDH
  <2> SUFFICES ASSUME NEW k \in LastSlots
               PROVE  Off(Oldest, k) < Off(Oldest, TDH) + 1 <=> Off(Oldest, k) < Off(Oldest, TDH) \/ k = TDH
    BY <1>1, <1>2 DEF Older
  <2>1. Off(Oldest, k) = Off(Oldest, TDH) => k = TDH
    BY <1>1, OffIsDistance
  <2> QED
    BY <1>1, <2>1, Distances
<1>4. owedBar' = owedBar /\ beforeBar' = beforeBar
  BY <1>1 DEF owedBar, beforeBar, Older
<1>5. \A q : q \in sentBar' <=> q \in owedBar /\ \E k \in LastSlots : addr[k] = q /\ (Older(k, TDH) \/ k = TDH)
  BY <1>1, <1>3, <1>4 DEF sentBar, Older
<1>6. CASE TDH \notin LastSlots
  <2>1. sentBar' = sentBar
    BY <1>5, <1>6 DEF sentBar
  <2> QED
    BY <1>1, <1>4, <2>1 DEF QueueStep, Queue!vars
<1>7. CASE TDH \in LastSlots
  <2> DEFINE p == addr[TDH]
  <2>1. p \in owedBar /\ p \in Packets
    BY <1>7, LastSlotsOfOwed DEF owedBar, TypeOK
  <2>2. p \notin sentBar
    <3> SUFFICES ASSUME NEW k \in LastSlots, addr[k] = addr[TDH], Older(k, TDH) PROVE FALSE
      BY DEF sentBar
    <3>1. k = TDH
      BY <1>7, LastSlotsOfOwed
    <3> QED
      BY <1>1, <3>1, Distances DEF Older
  <2>3. ASSUME NEW q \in owedBar, <<q, p>> \in beforeBar PROVE q \in sentBar
    <3>1. PICK i, k \in LastSlots : addr[i] = q /\ addr[k] = p /\ Older(i, k)
      BY <2>3 DEF beforeBar
    <3>2. k = TDH
      BY <1>7, <3>1, LastSlotsOfOwed
    <3> QED
      BY <3>1, <3>2 DEF sentBar
  <2>4. \A q : q \in sentBar' <=> q \in sentBar \cup {p}
    BY <1>5, <1>7, <2>1 DEF sentBar
  <2>5. Queue!Send(p)
    BY <1>1, <1>4, <2>1, <2>2, <2>3, <2>4 DEF Queue!Send
  <2> QED
    BY <2>1, <2>5 DEF QueueStep, Queue!Next
<1> QED
  BY <1>6, <1>7

\* A turn of the clean loop gives back the oldest packet, which was sent.
LEMMA QueueCleanPacket ==
    ASSUME TypeOK, RingInv, ~overrun, CleanPacket
    PROVE  addr[next_to_watch[cur]] \in Packets /\ Queue!GiveBack(addr[next_to_watch[cur]])
<1> DEFINE eop == next_to_watch[cur]
           p == addr[eop]
           d == Off(cur, eop) + 1
<1>1. /\ Oldest = cur /\ cur \in Idx /\ eop \in Idx /\ eop \in DD /\ Oldest' = Succ(eop)
      /\ gate = "clean" /\ gate' = "clean" /\ TDH' = TDH /\ TDH \in Idx /\ addr' = addr
      /\ \A k \in Idx : skb'[k] = IF k \in Through(cur, eop) THEN NoPacket ELSE skb[k]
      /\ held' = held \ {skb[k] : k \in Through(cur, eop)}
      /\ next_to_use' = next_to_use /\ next_to_use \in Idx
      /\ UNCHANGED <<abandoned, overrun>>
  BY DEF CleanPacket, ghosts, Oldest, TypeOK
<1>2. /\ LastSlots = {k \in Idx : skb[k] # NoPacket} /\ eop \in LastSlots
      /\ \A k \in LastSlots : addr[k] = skb[k]
  BY <1>1 DEF LastSlots, RingInv, DoneBehindHead, SkbOnAttached
<1>3. \A k \in LastSlots : Off(cur, eop) <= Off(cur, k)
  <2>1. Off(cur, cur) = 0 /\ Off(cur, eop) \in Nat /\ Off(cur, next_to_use) \in Nat
        /\ Off(cur, eop) < Off(cur, next_to_use)
    <3>1. eop \in Between(Oldest, TDH) /\ Off(Oldest, TDH) <= Off(Oldest, next_to_use)
      BY <1>1 DEF RingInv, DoneBehindHead, HeadInLive
    <3>2. Off(cur, eop) < Off(cur, TDH) /\ Off(cur, TDH) <= Off(cur, next_to_use)
      BY <1>1, <3>1 DEF Between
    <3>3. Off(cur, cur) = 0
      BY <1>1, OffIsDistance
    <3> QED
      BY <1>1, <3>2, <3>3, Distances
  <2>2. cur \in Attached
    BY <1>1, <2>1 DEF Attached, Commit, Between
  <2>3. \A e \in Idx : skb[e] # NoPacket /\ Off(cur, cur) <= Off(cur, e) => Off(cur, eop) <= Off(cur, e)
    BY <1>1, <2>2 DEF RingInv, FirstWatchesLast
  <2> QED
    BY <1>1, <1>2, <2>1, <2>3, Distances
<1>4. \A k \in LastSlots : k \in Through(cur, eop) <=> k = eop
  <2> SUFFICES ASSUME NEW k \in LastSlots PROVE Off(cur, k) <= Off(cur, eop) <=> k = eop
    BY <1>1, <1>2 DEF Through
  <2>1. k \in Idx /\ Off(cur, k) \in Nat /\ Off(cur, eop) \in Nat /\ Off(cur, eop) <= Off(cur, k)
    BY <1>1, <1>2, <1>3, Distances
  <2> QED
    BY <1>1, <2>1, OffIsDistance
<1>5. LastSlots' = LastSlots \ {eop}
  <2>1. LastSlots' = {k \in Idx : skb'[k] # NoPacket}
    BY <1>1 DEF LastSlots
  <2> QED
    BY <1>1, <1>2, <1>4, <2>1
<1>6. p \in owedBar /\ p \in Packets /\ owedBar' = owedBar \ {p}
  <2>1. p \in owedBar /\ p = skb[eop] /\ p \in Packets
    BY <1>1, <1>2, LastSlotsOfOwed DEF owedBar, TypeOK
  <2>2. \A k \in Through(cur, eop) : k \in Idx /\ (skb[k] = NoPacket \/ k = eop)
    BY <1>1, <1>2, <1>4 DEF Through
  <2>3. eop \in Through(cur, eop)
    BY <1>2, <1>4
  <2>4. \A q \in Packets : q \in held' <=> q \in held /\ q # p
    BY <1>1, <2>1, <2>2, <2>3
  <2>5. held \subseteq Packets /\ held' \subseteq held
    BY <1>1 DEF TypeOK
  <2> QED
    BY <1>1, <2>1, <2>4, <2>5 DEF owedBar
<1>7. /\ \A i, k \in LastSlots \ {eop} : Off(Oldest', i) < Off(Oldest', k) <=> Older(i, k)
      /\ \A k \in LastSlots \ {eop} : Off(Oldest', k) < Off(Oldest', TDH') <=> Older(k, TDH)
  <2>1. /\ d \in Nat /\ d <= Off(cur, TDH)
        /\ \A k \in Idx : Off(Succ(eop), k) = IF Off(cur, k) >= d THEN Off(cur, k) - d
                                               ELSE Off(cur, k) - d + NUM_RING_FRAME
    BY <1>1, CleanShift, Distances
  <2>2. \A k \in LastSlots \ {eop} : k \in Idx /\ d <= Off(cur, k)
    <3> SUFFICES ASSUME NEW k \in LastSlots, k # eop PROVE k \in Idx /\ d <= Off(cur, k)
      OBVIOUS
    <3>1. k \in Idx /\ Off(cur, k) \in Nat /\ Off(cur, eop) \in Nat /\ Off(cur, eop) <= Off(cur, k)
      BY <1>1, <1>2, <1>3, Distances
    <3>2. Off(cur, k) # Off(cur, eop)
      BY <1>1, <3>1, OffIsDistance
    <3> QED
      BY <3>1, <3>2
  <2>3. \A k \in Idx : Off(cur, k) \in Nat
    BY <1>1, Distances
  <2> HIDE DEF d, eop
  <2>4. \A k \in (LastSlots \ {eop}) \cup {TDH} : Off(Succ(eop), k) = Off(cur, k) - d
    BY <1>1, <2>1, <2>2, <2>3
  <2> QED
    BY <1>1, <2>1, <2>2, <2>3, <2>4 DEF Older
<1>8. /\ \A k \in LastSlots : addr[k] \in owedBar /\ (addr[k] = p <=> k = eop)
      /\ \A q \in owedBar : \E k \in LastSlots : addr[k] = q
  BY <1>2, LastSlotsOfOwed DEF owedBar
<1>9. beforeBar' = beforeBar \ ({p} \X owedBar)
  <2>1. \A k \in LastSlots : ~Older(k, eop)
    BY <1>1, <1>2, <1>3, Distances DEF Older
  <2> HIDE DEF eop, p
  <2>2. ASSUME NEW e PROVE e \in beforeBar' <=> e \in beforeBar /\ e \notin {p} \X owedBar
    <3>1. e \in beforeBar' <=>
             /\ e \in (owedBar \ {p}) \X (owedBar \ {p})
             /\ \E i, k \in LastSlots \ {eop} : addr[i] = e[1] /\ addr[k] = e[2] /\ Older(i, k)
      BY <1>1, <1>5, <1>6, <1>7 DEF beforeBar, Older
    <3> QED
      BY <1>8, <2>1, <3>1 DEF beforeBar
  <2> QED
    BY <2>2
<1>10. sentBar' = sentBar \ {p} /\ p \in sentBar
  <2>1. Older(eop, TDH)
    BY <1>1 DEF RingInv, DoneBehindHead, Between, Older
  <2>2. p \in sentBar
    BY <1>2, <1>6, <2>1 DEF sentBar
  <2> HIDE DEF eop, p
  <2>3. ASSUME NEW q PROVE q \in sentBar' <=> q \in sentBar /\ q # p
    <3>1. q \in sentBar' <=> q \in owedBar \ {p} /\ \E k \in LastSlots \ {eop} : addr[k] = q /\ Older(k, TDH)
      BY <1>1, <1>5, <1>6, <1>7 DEF sentBar, Older
    <3> QED
      BY <1>8, <3>1 DEF sentBar
  <2> QED
    BY <2>2, <2>3
<1>11. \A q \in owedBar : <<q, p>> \notin beforeBar
  <2> SUFFICES ASSUME NEW i \in LastSlots, NEW k \in LastSlots, addr[k] = p, Older(i, k) PROVE FALSE
    BY DEF beforeBar
  <2>1. k = eop /\ i \in Idx
    BY <1>2, <1>8
  <2> QED
    BY <1>1, <1>3, <2>1, Distances DEF Older
<1> QED
  BY <1>1, <1>6, <1>9, <1>10, <1>11 DEF Queue!GiveBack

\* Every step of the driver and the adapter is a step of the queue, or changes nothing of it.
LEMMA QueueNext == IInv /\ IInv' /\ [Next]_vars => QueueStep
<1> SUFFICES ASSUME IInv, IInv', [Next]_vars, ~overrun' PROVE QueueStep
  BY QueueBreaks
<1>1. ~overrun
  BY OverrunStays
<1>2. TypeOK /\ RingInv
  BY <1>1 DEF IInv
<1>3. ASSUME NEW p \in Packets, NEW n \in 1 .. TBDS_PER_TCB, OutputDescriptors(p, n)
      PROVE  QueueStep
  BY <1>2, <1>3, QueueAccept DEF QueueStep, Queue!Next
<1>4. CASE HwTransmit
  BY <1>1, <1>2, <1>4, QueueHwTransmit
<1>5. CASE CleanPacket
  BY <1>1, <1>2, <1>5, QueueCleanPacket DEF QueueStep, Queue!Next
<1>6. CASE Enable \/ Disable
  <2>1. owedBar' = {}
    <3>1. CASE Enable
      BY <1>2, <3>1, DownHoldsNothing DEF Enable, ghosts, owedBar
    <3>2. CASE Disable
      BY <3>2 DEF Disable, owedBar
    <3> QED
      BY <1>6, <3>1, <3>2
  <2>2. beforeBar' = {} /\ sentBar' = {} /\ overrun' = overrun
    BY <1>6, <2>1, NothingOwedNext DEF Enable, Disable, ghosts
  <2> QED
    BY <2>1, <2>2 DEF QueueStep, Queue!Next, Queue!Forget
<1>7. CASE OutputAttach
  <2>1. /\ pkt # NoPacket /\ Pred(next_to_use) \in Idx /\ gate = "output" /\ gate' = "idle"
        /\ skb' = [skb EXCEPT ![Pred(next_to_use)] = pkt] /\ skb \in [Idx -> Packets \cup {NoPacket}]
        /\ next_to_use' = next_to_use
    BY <1>2, <1>7, StepsStayOnRing DEF OutputAttach, TypeOK
  <2>2. \A k \in Idx : skb'[k] # NoPacket <=> skb[k] # NoPacket \/ k = Pred(next_to_use)
    BY <2>1
  <2>3. LastSlots' = LastSlots
    BY <2>1, <2>2 DEF LastSlots
  <2> QED
    BY <1>7, <2>1, <2>3, QueueUntouched DEF OutputAttach, desc, ghosts, Oldest
<1>8. CASE EnableFails \/ WatchdogEnablesTransmit \/ CleanBegin \/ CleanEnd \/ UNCHANGED vars
  <2>1. LastSlots' = LastSlots /\ Oldest' = Oldest
    BY <1>8 DEF EnableFails, WatchdogEnablesTransmit, CleanBegin, CleanEnd, vars, swVars, LastSlots,
       Oldest
  <2> QED
    BY <1>8, <2>1, QueueUntouched DEF EnableFails, WatchdogEnablesTransmit, CleanBegin, CleanEnd,
       vars, desc, ghosts
<1> QED
  BY <1>3, <1>4, <1>5, <1>6, <1>7, <1>8 DEF Next

\* Packets are sent in the order they were accepted and given back only after that, oldest
\* first, whatever the ring size and the number of segments: the ring is a queue.
THEOREM ImplementsQueueCorrect == Spec => ImplementsQueue
<1>1. Init => Queue!Init
  BY QueueInit
<1>2. IInv /\ IInv' /\ [Next]_vars => [Queue!Next]_Queue!vars
  BY QueueNext DEF QueueStep
<1> QED
  BY <1>1, <1>2, InvCorrect, PTL DEF Spec, ImplementsQueue, Queue!Spec
=============================================================================
