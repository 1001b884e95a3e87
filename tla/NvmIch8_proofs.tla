--------------------------- MODULE NvmIch8_proofs ---------------------------
(* Proofs about the ICH8 NVM, for banks of any size.                       *)
EXTENDS NvmIch8, FiniteSetTheorems, TLAPS

\* e1000_erase_flash_bank_ich8lan adds the offset of sector j to an address it has already
\* moved, in every try: it reaches sector j for j = 0, and for j = 1 in its first try.
EraseFits == Sectors = 1 \/ (Sectors = 2 /\ "erase" \notin Faults)
-----------------------------------------------------------------------------
(* Addresses.                                                              *)

LEMMA BankSize ==
    ASSUME EraseFits
    PROVE  /\ BankWords \in Nat \ {0}
           /\ Sectors = 1 => BankWords = SectorWords
           /\ Sectors = 2 => BankWords = SectorWords + SectorWords
           /\ Sectors \in {1, 2}
           /\ SectorWords \in Nat \ {0}
           /\ SigWord \in Words /\ SumWord \in Words /\ SigWord # SumWord
           /\ SigWord < SectorWords
<1>1. SectorWords \in Nat \ {0} /\ Sectors \in {1, 2}
  BY SectorAssumption DEF EraseFits
<1>2. CASE Sectors = 1
  <2>1. BankWords = SectorWords
    BY <1>1, <1>2 DEF BankWords
  <2> QED
    BY <1>1, <1>2, <2>1, LayoutAssumption DEF Words
<1>3. CASE Sectors = 2
  <2>1. BankWords = SectorWords + SectorWords
    BY <1>1, <1>3 DEF BankWords
  <2> QED
    BY <1>1, <1>3, <2>1, LayoutAssumption DEF Words
<1> QED
  BY <1>1, <1>2, <1>3

LEMMA AtFacts ==
    ASSUME EraseFits, NEW b \in Banks, NEW w \in Words
    PROVE  /\ At(b, w) \in Addresses
           /\ WordOf(At(b, w)) = w
           /\ \A c \in Banks, v \in Words : At(b, w) = At(c, v) => b = c /\ w = v
BY BankSize DEF At, WordOf, Banks, Words, Addresses

LEMMA OtherBank ==
    ASSUME NEW b \in Banks
    PROVE  1 - b \in Banks /\ 1 - b # b /\ \A c \in Banks : c = b \/ c = 1 - b
BY DEF Banks

LEMMA AddressIsAt ==
    ASSUME EraseFits, NEW a \in Addresses
    PROVE  WordOf(a) \in Words /\ \E b \in Banks : a = At(b, WordOf(a))
BY BankSize DEF At, WordOf, Banks, Words, Addresses

LEMMA SigIsWord ==
    ASSUME EraseFits
    PROVE  SigWord \in Words /\ SumWord \in Words /\ SigWord # SumWord
BY BankSize
-----------------------------------------------------------------------------
(* What the sum of a content is made to be.                                *)

LEMMA WordsFinite == EraseFits => \A S \in SUBSET Words : IsFiniteSet(S)
<1> SUFFICES ASSUME EraseFits, NEW S \in SUBSET Words PROVE IsFiniteSet(S)
  OBVIOUS
<1>1. IsFiniteSet(Words)
  BY FS_Interval, BankSize DEF Words
<1> QED
  BY <1>1, FS_Subset

\* A content sums up once its sum is set by the rest of it.
LEMMA SumMadeRight ==
    ASSUME EraseFits, NEW S \in SUBSET Words,
           NEW bit, bit = IF SumsUp(S \ {SumWord}) THEN {} ELSE {SumWord}
    PROVE  SumsUp(Put(S, SumWord, bit))
<1> DEFINE rest == S \ {SumWord}
<1>1. IsFiniteSet(rest) /\ Cardinality(rest) \in Nat
  BY WordsFinite, FS_CardinalityType
<1>2. CASE SumsUp(rest)
  <2>1. Put(S, SumWord, bit) = rest
    BY <1>2 DEF Put
  <2> QED
    BY <1>2, <2>1
<1>3. CASE ~SumsUp(rest)
  <2>1. Put(S, SumWord, bit) = rest \cup {SumWord}
    BY <1>3 DEF Put
  <2>2. Cardinality(rest \cup {SumWord}) = Cardinality(rest) + 1
    BY <1>1, FS_AddElement
  <2>3. Cardinality(rest) % 2 # 1
    BY <1>3 DEF SumsUp
  <2>4. (Cardinality(rest) + 1) % 2 = 1
    BY <1>1, <2>3
  <2> QED
    BY <2>1, <2>2, <2>4 DEF SumsUp
<1> QED
  BY <1>2, <1>3
-----------------------------------------------------------------------------
(* What a flash cycle does to the banks.                                   *)

LEMMA Untouched ==
    ASSUME EraseFits, NEW b \in Banks, \A w \in Words : flash'[At(b, w)] = flash[At(b, w)]
    PROVE  Lo(b)' = Lo(b) /\ SigValid(b)' = SigValid(b) /\ SumsUp(Lo(b))' = SumsUp(Lo(b))
<1>1. Lo(b)' = Lo(b)
  BY DEF Lo
<1>2. SigValid(b)' = SigValid(b)
  BY SigIsWord DEF SigValid
<1> QED
  BY <1>1, <1>2 DEF SumsUp

LEMMA ProgramStep ==
    ASSUME EraseFits, TypeOK, NEW b \in Banks, NEW w \in Words, NEW cleared,
           flash' = Program(At(b, w), cleared)
    PROVE  /\ flash' \in [Addresses -> SUBSET AllOnes]
           /\ \A a \in Addresses : flash'[a] \subseteq Bits(WordOf(a))
           /\ flash'[At(b, w)] = flash[At(b, w)] \ cleared
           /\ \A v \in Words : v # w => flash'[At(b, v)] = flash[At(b, v)]
           /\ \A c \in Banks, v \in Words : c # b => flash'[At(c, v)] = flash[At(c, v)]
<1>1. flash' = [flash EXCEPT ![At(b, w)] = @ \ cleared]
  BY DEF Program
<1>2. flash \in [Addresses -> SUBSET AllOnes] /\ \A a \in Addresses : flash[a] \subseteq Bits(WordOf(a))
  BY DEF TypeOK
<1>3. At(b, w) \in Addresses
  BY AtFacts
<1>4. \A a \in Addresses : flash'[a] = IF a = At(b, w) THEN flash[a] \ cleared ELSE flash[a]
  BY <1>1, <1>2, <1>3
<1>5. \A c \in Banks, v \in Words : At(c, v) \in Addresses
  BY AtFacts
<1>6. \A c \in Banks, v \in Words : At(c, v) = At(b, w) => c = b /\ v = w
  BY AtFacts
<1>7. flash' \in [Addresses -> SUBSET AllOnes]
  BY <1>1, <1>2, <1>3
<1> QED
  BY <1>2, <1>3, <1>4, <1>5, <1>6, <1>7

LEMMA EraseStep ==
    ASSUME EraseFits, TypeOK, EraseCycle, sector \in {0, 1}, eraseAddr = At(1 - old, 0)
    PROVE  /\ \A w \in Words : flash'[At(old, w)] = flash[At(old, w)]
           /\ \A w \in Words :
                 IF sector * SectorWords <= w /\ w < (sector + 1) * SectorWords
                 THEN flash'[At(1 - old, w)] = Bits(w)
                 ELSE flash'[At(1 - old, w)] = flash[At(1 - old, w)]
<1> DEFINE addr == eraseAddr + sector * SectorWords
<1>1. flash' = [a \in Addresses |-> IF a \in Erased(addr) THEN Bits(WordOf(a)) ELSE flash[a]]
  BY DEF EraseCycle
<1>2. old \in Banks /\ sector < Sectors
  BY DEF TypeOK, EraseCycle
<1>3. SectorWords \in Nat \ {0} /\ BankWords \in Nat
  BY BankSize
<1>4. (sector + 1) * SectorWords <= BankWords
  <2>1. CASE sector = 0
    BY <2>1, <1>2, <1>3, BankSize
  <2>2. CASE sector = 1
    BY <2>2, <1>2, <1>3, BankSize
  <2> QED
    BY <2>1, <2>2
<1>5. /\ sector * SectorWords \in Nat
      /\ (sector + 1) * SectorWords = sector * SectorWords + SectorWords
  BY <1>3
<1> HIDE DEF addr
<1>6. \A w \in Words : At(old, w) \notin Erased(addr)
  BY <1>2, <1>3, <1>4, <1>5 DEF addr, At, Erased, Words, Banks
<1>7. \A w \in Words : At(1 - old, w) \in Erased(addr)
        <=> sector * SectorWords <= w /\ w < (sector + 1) * SectorWords
  BY <1>2, <1>3, <1>4, <1>5, AtFacts DEF addr, At, Erased, Words, Banks
<1>8. \A w \in Words : /\ At(old, w) \in Addresses
                       /\ At(1 - old, w) \in Addresses /\ WordOf(At(1 - old, w)) = w
  BY <1>2, AtFacts, OtherBank
<1> QED
  BY <1>1, <1>6, <1>7, <1>8
-----------------------------------------------------------------------------
(* Types.                                                                  *)

LEMMA TypeInit == EraseFits /\ Init => TypeOK
<1> SUFFICES ASSUME EraseFits, Init PROVE TypeOK
  OBVIOUS
<1>1. flash \in [Addresses -> SUBSET AllOnes] /\ \A a \in Addresses : flash[a] \subseteq Bits(WordOf(a))
  BY DEF Init, AllOnes, Bits
<1>2. sec1val \in Banks /\ written \subseteq Words /\ part \in Parts
  BY DEF Init, Banks
<1>3. intended \in [Banks -> SUBSET Words]
  BY DEF Init
<1>4. /\ modified \subseteq Words /\ value \subseteq modified /\ swflag \in BOOLEAN
      /\ gate = "idle" /\ ignored \in BOOLEAN
  BY DEF Init
<1>5. /\ old \in Banks /\ sector \in 0 .. Sectors /\ eraseAddr \in Nat
      /\ count \in 0 .. EraseRetries /\ word \in 0 .. BankWords
  BY BankSize, FaultAssumption DEF Init, Banks
<1> QED
  BY <1>1, <1>2, <1>3, <1>4, <1>5 DEF TypeOK

LEMMA LoIsWords == \A b \in Banks : Lo(b) \subseteq Words
BY DEF Lo

LEMMA TypeWrite ==
    ASSUME TypeOK, NEW w \in Words, NEW bit \in {{}, {w}}, Write(w, bit)
    PROVE  TypeOK'
BY DEF TypeOK, Write, Put, loop

LEMMA TypeSum ==
    ASSUME TypeOK, EraseFits, NEW sum \in SUBSET {SumWord}, WriteSum(sum)
    PROVE  /\ modified' \subseteq Words /\ value' \subseteq modified'
           /\ written' \subseteq Words
BY SigIsWord DEF WriteSum, TypeOK, Put

\* the ways out of an update
LEMMA TypeLeave ==
    ASSUME TypeOK, EraseFits, Leave
    PROVE  /\ gate' = "idle" /\ old' \in Banks /\ sector' \in 0 .. Sectors /\ eraseAddr' \in Nat
           /\ count' \in 0 .. EraseRetries /\ word' \in 0 .. BankWords
BY BankSize, FaultAssumption DEF Leave, Banks

LEMMA TypeGivesUp ==
    ASSUME TypeOK, EraseFits, NEW b \in Banks, NEW w \in Words, NEW cleared,
           GivesUp(At(b, w), cleared)
    PROVE  TypeOK'
<1>1. flash' \in [Addresses -> SUBSET AllOnes] /\ \A a \in Addresses : flash'[a] \subseteq Bits(WordOf(a))
  BY ProgramStep DEF GivesUp, TypeOK
<1>2. ignored' \in BOOLEAN
  BY DEF GivesUp
<1> QED
  BY <1>1, <1>2, TypeLeave DEF GivesUp, TypeOK, shadow

LEMMA TypeErase ==
    ASSUME TypeOK, EraseFits, EraseCycle \/ EraseError
    PROVE  TypeOK'
<1>1. eraseAddr + sector * SectorWords \in Nat
  <2>1. sector \in Nat /\ SectorWords \in Nat /\ eraseAddr \in Nat
    BY BankSize DEF TypeOK
  <2> QED
    BY <2>1
<1>2. CASE EraseCycle
  <2>1. flash' \in [Addresses -> SUBSET AllOnes]
    BY <1>2 DEF EraseCycle, TypeOK, Bits, AllOnes
  <2>2. \A a \in Addresses : flash'[a] \subseteq Bits(WordOf(a))
    BY <1>2 DEF EraseCycle, TypeOK
  <2>3. intended' \in [Banks -> SUBSET Words]
    BY <1>2, LoIsWords DEF EraseCycle, TypeOK, View
  <2>4. sector' \in 0 .. Sectors
    BY <1>2, BankSize DEF EraseCycle, TypeOK
  <2> QED
    BY <1>1, <1>2, <2>1, <2>2, <2>3, <2>4 DEF EraseCycle, TypeOK, shadow
<1>3. CASE EraseError
  <2>1. sector' \in 0 .. Sectors /\ count' \in 0 .. EraseRetries
    BY <1>3, BankSize, FaultAssumption DEF EraseError, TypeOK
  <2>2. ignored' \in BOOLEAN
    BY <1>3 DEF EraseError
  <2> QED
    BY <1>1, <1>3, <2>1, <2>2 DEF EraseError, TypeOK, shadow
<1> QED
  BY <1>2, <1>3

LEMMA TypeStep ==
    ASSUME TypeOK, EraseFits, [Next]_vars
    PROVE  TypeOK'
<1>1. ASSUME NEW w \in Words, NEW bit \in {{}, {w}}, Write(w, bit) PROVE TypeOK'
  BY <1>1, TypeWrite
<1>2. CASE ReadNoBank \/ NotAcquired
  BY <1>2 DEF ReadNoBank, NotAcquired, TypeOK, shadow, loop
<1>3. ASSUME NEW sum \in SUBSET {SumWord}, UpdateNoBank(sum) \/ UpdateNotAcquired(sum)
      PROVE  TypeOK'
  <2>1. ignored' \in BOOLEAN /\ WriteSum(sum)
    BY <1>3 DEF UpdateNoBank, UpdateNotAcquired
  <2> QED
    BY <1>3, <2>1, TypeSum DEF UpdateNoBank, UpdateNotAcquired, TypeOK, loop
<1>4. ASSUME NEW bank \in Banks, NEW sum \in SUBSET {SumWord}, UpdateBegin(bank, sum)
      PROVE  TypeOK'
  <2>1. At(1 - bank, 0) \in Nat /\ 0 \in 0 .. BankWords
    BY BankSize DEF At
  <2>2. 0 \in 0 .. Sectors /\ 0 \in 0 .. EraseRetries
    BY BankSize, FaultAssumption
  <2>3. ignored' \in BOOLEAN /\ WriteSum(sum)
    BY <1>4 DEF UpdateBegin
  <2> QED
    BY <1>4, <2>1, <2>2, <2>3, TypeSum DEF UpdateBegin, TypeOK
<1>5. CASE EraseCycle \/ EraseError
  BY <1>5, TypeErase
<1>6. CASE EraseEnd
  <2>1. ignored' \in BOOLEAN
    BY <1>6 DEF EraseEnd
  <2>2. 0 \in 0 .. Sectors /\ 0 \in 0 .. EraseRetries
    BY BankSize, FaultAssumption
  <2> QED
    BY <1>6, <2>1, <2>2 DEF EraseEnd, TypeOK, shadow
<1>7. CASE CopyWord
  <2>1. PICK bit \in Copied(word) : /\ flash' = Program(At(1 - old, word), Cleared(bit))
                                    /\ ignored' = (ignored \/ bit # View(old) \cap {word})
    BY <1>7 DEF CopyWord
  <2>2. 1 - old \in Banks /\ word \in Words
    BY <1>7, OtherBank DEF CopyWord, TypeOK
  <2>3. flash' \in [Addresses -> SUBSET AllOnes] /\ \A a \in Addresses : flash'[a] \subseteq Bits(WordOf(a))
    BY <2>1, <2>2, ProgramStep
  <2>4. ignored' \in BOOLEAN
    BY <2>1
  <2>5. word' \in 0 .. BankWords
    BY <1>7, <2>2, BankSize DEF CopyWord, Words
  <2> QED
    BY <1>7, <2>3, <2>4, <2>5 DEF CopyWord, TypeOK, shadow
<1>8. CASE CopyEnd
  BY <1>8 DEF CopyEnd, TypeOK, shadow, loop
<1>9. CASE Validate
  <2>1. \E cleared : flash' = Program(At(1 - old, SigWord), cleared)
    BY <1>9 DEF Validate
  <2>2. flash' \in [Addresses -> SUBSET AllOnes] /\ \A a \in Addresses : flash'[a] \subseteq Bits(WordOf(a))
    BY <2>1, ProgramStep, OtherBank, SigIsWord DEF TypeOK
  <2>3. ignored' \in BOOLEAN
    BY <1>9 DEF Validate, TypeOK
  <2> QED
    BY <1>9, <2>2, <2>3 DEF Validate, TypeOK, shadow, loop
<1>10. ASSUME NEW bank \in Banks, Invalidate(bank) PROVE TypeOK'
  <2>1. flash' \in [Addresses -> SUBSET AllOnes] /\ \A a \in Addresses : flash'[a] \subseteq Bits(WordOf(a))
    BY <1>10, ProgramStep, SigIsWord DEF Invalidate, TypeOK
  <2> QED
    BY <1>10, <2>1, TypeLeave DEF Invalidate, TypeOK, Clean
<1>11. CASE CopyFails
  BY <1>11, TypeGivesUp, OtherBank DEF CopyFails, TypeOK
<1>12. CASE ValidateFails
  BY <1>12, TypeGivesUp, OtherBank, SigIsWord DEF ValidateFails, TypeOK
<1>13. CASE InvalidateFails
  BY <1>13, TypeGivesUp, SigIsWord DEF InvalidateFails, TypeOK
<1>14. ASSUME NEW bank \in Banks, PowerCycle(bank) PROVE TypeOK'
  <2>1. written' \subseteq Words
    BY <1>14, LoIsWords DEF PowerCycle, Banks
  <2> QED
    BY <1>14, <2>1, TypeLeave DEF PowerCycle, TypeOK, Clean
<1>15. CASE UNCHANGED vars
  BY <1>15 DEF vars, TypeOK, shadow, loop
<1> QED
  BY <1>1, <1>2, <1>3, <1>4, <1>5, <1>6, <1>7, <1>8, <1>9, <1>10, <1>11, <1>12, <1>13,
     <1>14, <1>15 DEF Next
-----------------------------------------------------------------------------
(* Between updates.                                                        *)

LEMMA FlashKept ==
    ASSUME UNCHANGED flash
    PROVE  \A b \in Banks : /\ Lo(b)' = Lo(b) /\ SigValid(b)' = SigValid(b)
                            /\ SumsUp(Lo(b))' = SumsUp(Lo(b))
BY DEF Lo, SigValid, SumsUp

\* as long as nothing changes in flash, the same bank is read
LEMMA CurrentKept ==
    ASSUME UNCHANGED <<part, sec1val>>, \A b \in Banks : SigValid(b)' = SigValid(b)
    PROVE  Current' = Current
BY DEF Current, Ich10, Banks

LEMMA SoundInit == EraseFits /\ Init => Sound
<1> SUFFICES ASSUME EraseFits, Init PROVE Sound
  OBVIOUS
<1>1. PICK content \in SUBSET Words, valid \in Banks :
        /\ SumsUp(content)
        /\ flash = [a \in Addresses |->
                      IF a # At(valid, WordOf(a)) THEN {}
                      ELSE {bit \in {"lo"} : WordOf(a) \in content}
                           \cup {bit \in {"s15"} : WordOf(a) = SigWord}]
        /\ sec1val = IF Ich10 THEN 0 ELSE valid
        /\ intended = [b \in Banks |-> IF b = valid THEN content ELSE {}]
        /\ written = content
  BY DEF Init
<1>2. \A w \in Words : "lo" \in flash[At(valid, w)] <=> w \in content
  <2> SUFFICES ASSUME NEW w \in Words PROVE "lo" \in flash[At(valid, w)] <=> w \in content
    OBVIOUS
  <2>1. At(valid, w) \in Addresses /\ WordOf(At(valid, w)) = w
    BY AtFacts
  <2> QED
    BY <1>1, <2>1
<1>3. Lo(valid) = content
  BY <1>2 DEF Lo
<1>4. \A b \in Banks : SigValid(b) <=> b = valid
  <2> SUFFICES ASSUME NEW b \in Banks PROVE SigValid(b) <=> b = valid
    OBVIOUS
  <2>1. At(b, SigWord) \in Addresses /\ WordOf(At(b, SigWord)) = SigWord
    BY AtFacts, SigIsWord
  <2>2. At(b, SigWord) = At(valid, SigWord) <=> b = valid
    BY AtFacts, SigIsWord
  <2>3. flash[At(b, SigWord)] \cap SigBits = IF b = valid THEN {"s15"} ELSE {}
    BY <1>1, <2>1, <2>2 DEF SigBits
  <2> QED
    BY <2>3 DEF SigValid
<1>5. Current = valid
  BY <1>1, <1>4 DEF Current, Banks
<1>6. View(valid) = content
  BY <1>3 DEF Init, View
<1>7. \A b \in Banks : SigValid(b) => Whole(b)
  BY <1>1, <1>3, <1>4 DEF Whole
<1>8. gate = "idle"
  BY DEF Init
<1> QED
  BY <1>1, <1>4, <1>5, <1>6, <1>7, <1>8 DEF Sound, RestsOnValid, OldBankKept, ErasedSoFar,
     CopiedSoFar, Committed, Intends

\* At rest it is enough that whole valid banks are there and the one read shows what was
\* written.
LEMMA SoundAtRest ==
    ASSUME gate' = "idle", (\A bank \in Banks : SigValid(bank) => Whole(bank))',
           (Current \in Banks /\ SigValid(Current))', (View(Current) = written)'
    PROVE  Sound'
BY DEF Sound, RestsOnValid, OldBankKept, ErasedSoFar, CopiedSoFar, Committed, Intends

LEMMA WholeKept ==
    ASSUME Sound, UNCHANGED <<flash, intended>>
    PROVE  (\A bank \in Banks : SigValid(bank) => Whole(bank))'
BY FlashKept DEF Sound, Whole

LEMMA SoundWrite ==
    ASSUME TypeOK, Sound, NEW w \in Words, NEW bit \in {{}, {w}}, Write(w, bit)
    PROVE  Sound'
<1>1. gate = "idle" /\ UNCHANGED <<part, flash, sec1val, gate, intended>>
  BY DEF Write
<1>2. Current' = Current /\ Current \in Banks /\ SigValid(Current) /\ View(Current) = written
  BY <1>1, FlashKept, CurrentKept DEF Sound, RestsOnValid
<1>3. SigValid(Current)' /\ Lo(Current)' = Lo(Current)
  BY <1>1, <1>2 DEF SigValid, Lo
<1>4. View(Current)' = written'
  BY <1>2, <1>3 DEF Write, View, Put, TypeOK
<1> QED
  BY <1>1, <1>2, <1>3, <1>4, WholeKept, SoundAtRest

\* the sum is written to the shadow RAM and the content is in order then
LEMMA SumWritten ==
    ASSUME TypeOK, EraseFits, Sound, NEW sum, WriteSum(sum), sum = NewSum(Current),
           UNCHANGED <<part, flash, sec1val, intended>>
    PROVE  /\ Current' = Current /\ Current \in Banks
           /\ SigValid(Current)' /\ Lo(Current)' = Lo(Current)
           /\ View(Current)' = written'
           /\ SumsUp(written')
<1>1. gate = "idle"
  BY DEF WriteSum
<1>2. Current' = Current /\ Current \in Banks /\ SigValid(Current) /\ View(Current) = written
  BY <1>1, FlashKept, CurrentKept DEF Sound, RestsOnValid
<1>3. SigValid(Current)' /\ Lo(Current)' = Lo(Current)
  BY <1>2, FlashKept DEF SigValid, Lo
<1>4. NewSum(Current) \in {{}, {SumWord}}
  BY DEF NewSum
<1>5. View(Current)' = written'
  BY <1>2, <1>3, <1>4 DEF WriteSum, View, Put, TypeOK
<1>6. SumsUp(written')
  <2>1. NewSum(Current) = IF SumsUp(written \ {SumWord}) THEN {} ELSE {SumWord}
    BY <1>2 DEF NewSum
  <2>2. written' = Put(written, SumWord, NewSum(Current))
    BY DEF WriteSum
  <2> QED
    BY <2>1, <2>2, SumMadeRight DEF TypeOK
<1> QED
  BY <1>2, <1>3, <1>5, <1>6

LEMMA SoundUpdateReturns ==
    ASSUME TypeOK, EraseFits, Sound, NEW sum, UpdateNoBank(sum) \/ UpdateNotAcquired(sum),
           ~ignored'
    PROVE  Sound'
<1>1. WriteSum(sum) /\ sum = NewSum(Current) /\ UNCHANGED <<part, flash, sec1val, gate, intended>>
  BY DEF UpdateNoBank, UpdateNotAcquired
<1>2. gate' = "idle"
  BY <1>1 DEF WriteSum
<1>3. Current' = Current /\ Current \in Banks /\ SigValid(Current)' /\ View(Current)' = written'
  BY <1>1, SumWritten
<1> QED
  BY <1>1, <1>2, <1>3, WholeKept, SoundAtRest

LEMMA SoundUpdateBegin ==
    ASSUME TypeOK, EraseFits, Sound, NEW bank \in Banks, NEW sum, UpdateBegin(bank, sum), ~ignored'
    PROVE  Sound'
<1>1. /\ WriteSum(sum) /\ UNCHANGED <<part, flash, sec1val, intended>>
      /\ bank = Current /\ sum = NewSum(Current)
      /\ gate' = "erasing" /\ old' = bank /\ sector' = 0 /\ eraseAddr' = At(1 - bank, 0)
  BY DEF UpdateBegin
<1>2. /\ Current' = Current /\ SigValid(bank)'
      /\ View(bank)' = written' /\ SumsUp(written')
  BY <1>1, SumWritten DEF SigValid, View, Lo
<1>3. (\A b \in Banks : SigValid(b) => Whole(b))'
  BY <1>1, WholeKept
<1>4. OldBankKept'
  <2>1. SumsUp(written)'
    BY <1>2 DEF SumsUp
  <2>2. ~Ich10' => sec1val' = bank
    BY <1>1, <1>2 DEF Current, Ich10
  <2> QED
    BY <1>1, <1>2, <2>1, <2>2 DEF OldBankKept, View, Lo, SigValid
<1>5. ErasedSoFar'
  <2>1. \A w \in Words : ~(w < 0 * SectorWords)
    BY BankSize DEF Words
  <2> QED
    BY <1>1, <2>1 DEF ErasedSoFar, At, UpdateBegin
<1> QED
  BY <1>1, <1>3, <1>4, <1>5 DEF Sound, RestsOnValid, CopiedSoFar, Committed, Intends
-----------------------------------------------------------------------------
(* The update.                                                             *)

\* Blank signature bits are 11b: not valid.
LEMMA BlankNotValid ==
    ASSUME NEW b, SigBits \subseteq flash[At(b, SigWord)]
    PROVE  ~SigValid(b)
BY DEF SigBits, SigValid

LEMMA SoundEraseCycle ==
    ASSUME TypeOK, EraseFits, Sound, EraseCycle
    PROVE  Sound'
<1> DEFINE new == 1 - old
<1>1. /\ gate = "erasing" /\ gate' = "erasing" /\ sector < Sectors /\ sector' = sector + 1
      /\ eraseAddr' = eraseAddr + sector * SectorWords
      /\ intended' = [intended EXCEPT ![1 - old] = View(old)]
      /\ UNCHANGED <<part, sec1val, modified, value, old, word, written>>
  BY DEF EraseCycle, shadow
<1>2. sector \in {0, 1} /\ old \in Banks /\ new \in Banks /\ new # old
  BY <1>1, BankSize, OtherBank DEF TypeOK
<1>3. /\ eraseAddr = At(new, 0) /\ word = 0
      /\ \A w \in Words : w < sector * SectorWords => flash[At(new, w)] = Bits(w)
  BY <1>1, <1>2 DEF Sound, ErasedSoFar, Blank
<1>4. SigValid(old) /\ View(old) = written /\ SumsUp(written) /\ (~Ich10 => sec1val = old)
  BY <1>1 DEF Sound, OldBankKept
<1>5. /\ \A w \in Words : flash'[At(old, w)] = flash[At(old, w)]
      /\ \A w \in Words :
            IF sector * SectorWords <= w /\ w < (sector + 1) * SectorWords
            THEN flash'[At(new, w)] = Bits(w)
            ELSE flash'[At(new, w)] = flash[At(new, w)]
  BY <1>2, <1>3, EraseStep
<1>6. Lo(old)' = Lo(old) /\ SigValid(old)' /\ SumsUp(Lo(old))' = SumsUp(Lo(old))
  BY <1>2, <1>4, <1>5, Untouched, <1>1 DEF Lo, SigValid
<1>7. \A w \in Words : w < (sector + 1) * SectorWords => flash'[At(new, w)] = Bits(w)
  BY <1>2, <1>3, <1>5, BankSize DEF Words
<1>8. flash'[At(new, SigWord)] = Bits(SigWord)
  <2>1. SigWord < (sector + 1) * SectorWords
    <3>1. SigWord \in Nat /\ SectorWords \in Nat /\ SigWord < SectorWords
      BY BankSize DEF Words
    <3>2. CASE sector = 0
      BY <3>1, <3>2
    <3>3. CASE sector = 1
      BY <3>1, <3>3
    <3> QED
      BY <1>2, <3>2, <3>3
  <2> QED
    BY <1>7, <2>1, SigIsWord
<1>9. ~SigValid(new)'
  <2>1. flash'[At(new, SigWord)] \cap SigBits = SigBits
    BY <1>8 DEF Bits, SigBits
  <2>2. "s14" \in SigBits /\ "s14" \notin {"s15"}
    BY DEF SigBits
  <2>3. flash'[At(new, SigWord)] \cap SigBits # {"s15"}
    BY <2>1, <2>2
  <2> QED
    BY <1>1, <2>3 DEF SigValid
<1>10. intended'[old] = intended[old] /\ intended'[new] = written
  BY <1>1, <1>2, <1>4 DEF TypeOK
<1>11. (\A bank \in Banks : SigValid(bank) => Whole(bank))'
  <2>1. Whole(old)
    BY <1>2, <1>4 DEF Sound
  <2>2. \A bank \in Banks : bank = old \/ bank = new
    BY <1>2, OtherBank
  <2>3. Lo(old)' = intended'[old] /\ SumsUp(Lo(old))'
    BY <1>6, <1>10, <2>1 DEF Whole
  <2> QED
    BY <1>1, <1>9, <2>2, <2>3 DEF Whole, SigValid, Lo, SumsUp
<1>12. OldBankKept'
  BY <1>1, <1>4, <1>6 DEF OldBankKept, View, Ich10, SumsUp
<1>13. ErasedSoFar'
  <2>1. sector' \in {0, 1} => eraseAddr' = At(new, 0)
    <3>1. sector' \in {0, 1} => sector = 0
      BY <1>1, <1>2
    <3>2. sector = 0 => eraseAddr' = At(new, 0)
      BY <1>1, <1>3, BankSize DEF At
    <3> QED
      BY <3>1, <3>2
  <2> QED
    BY <1>1, <1>3, <1>7, <1>10, <2>1 DEF ErasedSoFar, Blank
<1> QED
  BY <1>1, <1>11, <1>12, <1>13 DEF Sound, RestsOnValid, CopiedSoFar, Committed, Intends

LEMMA SoundEraseEnd ==
    ASSUME TypeOK, EraseFits, Sound, EraseEnd, ~ignored'
    PROVE  Sound'
<1>1. /\ gate = "erasing" /\ gate' = "copying" /\ ~(sector < Sectors)
      /\ UNCHANGED <<part, flash, sec1val, modified, value, old, word, intended, written>>
  BY DEF EraseEnd, shadow
<1>2. sector = Sectors /\ sector > 0
  BY <1>1, BankSize DEF TypeOK
<1>3. word = 0 /\ intended[1 - old] = written
  BY <1>1, <1>2 DEF Sound, ErasedSoFar
<1>4. \A w \in Words : Blank(w)
  <2>1. \A w \in Words : w < sector * SectorWords
    BY <1>2, BankSize DEF Words
  <2> QED
    BY <1>1, <2>1 DEF Sound, ErasedSoFar
<1>5. CopiedSoFar'
  <2>1. SigBits \subseteq flash[At(1 - old, SigWord)]
    BY <1>4, SigIsWord DEF Blank, Bits, SigBits
  <2>2. \A w \in Words : ~(w < 0)
    BY DEF Words
  <2> QED
    BY <1>1, <1>3, <1>4, <2>1, <2>2 DEF CopiedSoFar, Blank
<1>6. OldBankKept'
  BY <1>1 DEF Sound, OldBankKept, SigValid, View, Lo, Ich10, SumsUp
<1> QED
  BY <1>1, <1>3, <1>5, <1>6, WholeKept DEF Sound, RestsOnValid, ErasedSoFar, Committed, Intends

\* What the invariant does not mention may change: the flag, and how often a cycle failed.
LEMMA SoundUnchanged ==
    ASSUME Sound,
           UNCHANGED <<part, flash, sec1val, modified, value, gate, old, sector, eraseAddr, word,
                       intended, written>>
    PROVE  Sound'
<1>1. (\A bank \in Banks : SigValid(bank) => Whole(bank))'
  BY WholeKept
<1>2. RestsOnValid' /\ (gate = "idle" => View(Current) = written)'
  BY DEF Sound, RestsOnValid, Current, Ich10, SigValid, View, Lo
<1>3. OldBankKept'
  BY DEF Sound, OldBankKept, SigValid, View, Lo, Ich10, SumsUp
<1>4. ErasedSoFar' /\ CopiedSoFar'
  BY DEF Sound, ErasedSoFar, CopiedSoFar, Blank, Lo
<1>5. Committed' /\ Intends'
  BY DEF Sound, Committed, Intends, SigValid, Lo
<1> QED
  BY <1>1, <1>2, <1>3, <1>4, <1>5 DEF Sound

\* a cycle that is repeated: with one sector the address stays
LEMMA SoundEraseError ==
    ASSUME TypeOK, EraseFits, Sound, EraseError, ~ignored'
    PROVE  Sound'
<1>1. sector' = sector /\ sector < Sectors /\ "erase" \in Faults
  BY DEF EraseError
<1>2. sector = 0 /\ SectorWords \in Nat
  BY <1>1, BankSize DEF EraseFits, TypeOK
<1>3. eraseAddr' = eraseAddr
  BY <1>2 DEF EraseError, TypeOK
<1> QED
  BY <1>1, <1>3, SoundUnchanged DEF EraseError, shadow

\* a step on the way that leaves the old bank, the shadow RAM and the content alone
LEMMA OldBankStays ==
    ASSUME TypeOK, EraseFits, Sound, gate # "idle",
           \A w \in Words : flash'[At(old, w)] = flash[At(old, w)],
           UNCHANGED <<part, sec1val, modified, value, old, intended, written>>
    PROVE  OldBankKept' /\ Whole(old)' /\ SigValid(old)' /\ Lo(old)' = Lo(old)
<1>1. old \in Banks
  BY DEF TypeOK
<1>2. Lo(old)' = Lo(old) /\ SigValid(old)' = SigValid(old) /\ SumsUp(Lo(old))' = SumsUp(Lo(old))
  <2>1. Lo(old)' = Lo(old)
    BY DEF Lo
  <2>2. SigValid(old)' = SigValid(old)
    BY SigIsWord DEF SigValid
  <2> QED
    BY <2>1, <2>2 DEF SumsUp
<1>3. SigValid(old) /\ View(old) = written /\ SumsUp(written) /\ (~Ich10 => sec1val = old)
  BY DEF Sound, OldBankKept
<1>4. Whole(old)
  BY <1>1, <1>3 DEF Sound
<1>5. OldBankKept'
  BY <1>2, <1>3 DEF OldBankKept, View, Ich10, SumsUp
<1>6. Whole(old)'
  BY <1>2, <1>4 DEF Whole
<1> QED
  BY <1>2, <1>3, <1>5, <1>6

LEMMA SoundCopyWord ==
    ASSUME TypeOK, EraseFits, Sound, CopyWord, ~ignored'
    PROVE  Sound'
<1> DEFINE new == 1 - old
<1>1. /\ gate = "copying" /\ gate' = "copying" /\ word \in Words /\ word' = word + 1
      /\ UNCHANGED <<part, sec1val, modified, value, old, intended, written>>
  BY DEF CopyWord, shadow
<1>2. old \in Banks /\ new \in Banks /\ new # old
  BY OtherBank DEF TypeOK
<1>3. PICK bit \in Copied(word) :
        flash' = Program(At(new, word), Cleared(bit)) /\ bit = View(old) \cap {word}
  BY DEF CopyWord
<1>4. View(old) = written
  BY <1>1 DEF Sound, OldBankKept
<1>5. /\ flash'[At(new, word)] = flash[At(new, word)] \ Cleared(bit)
      /\ \A v \in Words : v # word => flash'[At(new, v)] = flash[At(new, v)]
      /\ \A v \in Words : flash'[At(old, v)] = flash[At(old, v)]
  <2>1. new \in Banks /\ word \in Words /\ flash' = Program(At(new, word), Cleared(bit))
    BY <1>1, <1>2, <1>3
  <2> HIDE DEF new
  <2>2. /\ flash'[At(new, word)] = flash[At(new, word)] \ Cleared(bit)
        /\ \A v \in Words : v # word => flash'[At(new, v)] = flash[At(new, v)]
        /\ \A c \in Banks, v \in Words : c # new => flash'[At(c, v)] = flash[At(c, v)]
    BY <2>1, ProgramStep
  <2> QED
    BY <1>2, <2>2
<1>6. OldBankKept' /\ Whole(old)' /\ SigValid(old)'
  BY <1>1, <1>5, OldBankStays
<1>7. /\ \A w \in Words : IF w < word THEN w \in Lo(new) <=> w \in written ELSE Blank(w)
      /\ SigBits \subseteq flash[At(new, SigWord)]
  BY <1>1 DEF Sound, CopiedSoFar
<1>8. SigBits \subseteq flash'[At(new, SigWord)]
  BY <1>1, <1>5, <1>7, SigIsWord DEF Cleared, SigBits
<1>9. "lo" \in flash'[At(new, word)] <=> word \in written
  <2>1. word \in Words /\ ~(word < word)
    BY <1>1 DEF Words
  <2>2. "lo" \in flash[At(new, word)]
    BY <1>7, <2>1 DEF Blank, Bits
  <2>3. bit = {} <=> word \notin written
    BY <1>3, <1>4
  <2> QED
    BY <1>5, <2>2, <2>3 DEF Cleared
<1>10. \A w \in Words : IF w < word' THEN w \in Lo(new)' <=> w \in written
                        ELSE flash'[At(new, w)] = Bits(w)
  <2> SUFFICES ASSUME NEW w \in Words
               PROVE IF w < word' THEN w \in Lo(new)' <=> w \in written
                     ELSE flash'[At(new, w)] = Bits(w)
    OBVIOUS
  <2>1. w \in Lo(new)' <=> "lo" \in flash'[At(new, w)]
    BY <1>1 DEF Lo
  <2>2. w \in Lo(new) <=> "lo" \in flash[At(new, w)]
    BY DEF Lo
  <2>3. CASE w = word
    BY <1>1, <1>9, <2>1, <2>3 DEF Words
  <2>4. CASE w < word
    BY <1>1, <1>5, <1>7, <2>1, <2>2, <2>4 DEF Words
  <2>5. CASE w > word
    BY <1>1, <1>5, <1>7, <2>5 DEF Words, Blank
  <2> QED
    BY <1>1, <2>3, <2>4, <2>5 DEF Words
<1>11. CopiedSoFar'
  BY <1>1, <1>8, <1>10 DEF CopiedSoFar, Blank, Lo
<1>12. ~SigValid(new)'
  BY <1>1, <1>8 DEF SigValid, SigBits
<1>13. (\A bank \in Banks : SigValid(bank) => Whole(bank))'
  <2>1. \A bank \in Banks : bank = old \/ bank = new
    BY <1>2, OtherBank
  <2> QED
    BY <1>1, <1>6, <1>12, <2>1 DEF Whole, SigValid, Lo, SumsUp
<1>14. intended[1 - old] = written
  BY <1>1 DEF Sound, Intends
<1> QED
  BY <1>1, <1>6, <1>11, <1>13, <1>14 DEF Sound, RestsOnValid, ErasedSoFar, Committed, Intends

LEMMA SoundCopyEnd ==
    ASSUME TypeOK, Sound, CopyEnd
    PROVE  Sound'
<1>1. /\ gate = "copying" /\ gate' = "validating" /\ word = BankWords
      /\ UNCHANGED <<part, flash, sec1val, modified, value, old, word, intended, written>>
  BY DEF CopyEnd, shadow, loop
<1>2. OldBankKept'
  BY <1>1 DEF Sound, OldBankKept, SigValid, View, Lo, Ich10, SumsUp
<1>3. CopiedSoFar'
  BY <1>1 DEF Sound, CopiedSoFar, Blank, Lo
<1> QED
  BY <1>1, <1>2, <1>3, WholeKept DEF Sound, RestsOnValid, ErasedSoFar, Committed, Intends

\* when the copy is done the new bank holds what was written
LEMMA CopyDone ==
    ASSUME TypeOK, EraseFits, Sound, gate = "validating"
    PROVE  Lo(1 - old) = written /\ intended[1 - old] = written /\ SumsUp(written)
<1>1. \A w \in Words : w \in Lo(1 - old) <=> w \in written
  <2>1. word = BankWords
    BY DEF Sound, CopiedSoFar
  <2>2. \A w \in Words : w < word
    BY <2>1, BankSize DEF Words
  <2> QED
    BY <2>2 DEF Sound, CopiedSoFar
<1>2. Lo(1 - old) = written
  BY <1>1, LoIsWords, OtherBank DEF TypeOK
<1> QED
  BY <1>2 DEF Sound, OldBankKept, Intends

\* programming a word's signature bits leaves the content of its bank
LEMMA SignatureOnly ==
    ASSUME TypeOK, EraseFits, NEW b \in Banks, NEW cleared \in SUBSET SigBits,
           flash' = Program(At(b, SigWord), cleared)
    PROVE  /\ \A c \in Banks : {w \in Words : "lo" \in flash'[At(c, w)]} = Lo(c)
           /\ flash'[At(b, SigWord)] = flash[At(b, SigWord)] \ cleared
           /\ \A c \in Banks, w \in Words : c # b => flash'[At(c, w)] = flash[At(c, w)]
<1>1. /\ flash'[At(b, SigWord)] = flash[At(b, SigWord)] \ cleared
      /\ \A v \in Words : v # SigWord => flash'[At(b, v)] = flash[At(b, v)]
      /\ \A c \in Banks, v \in Words : c # b => flash'[At(c, v)] = flash[At(c, v)]
  BY ProgramStep, SigIsWord
<1>2. "lo" \notin cleared
  BY DEF SigBits
<1>3. \A c \in Banks, w \in Words : "lo" \in flash'[At(c, w)] <=> "lo" \in flash[At(c, w)]
  BY <1>1, <1>2
<1> QED
  BY <1>1, <1>3 DEF Lo

LEMMA SoundValidate ==
    ASSUME TypeOK, EraseFits, Sound, Validate, ~ignored, ~ignored'
    PROVE  Sound'
<1> DEFINE new == 1 - old
<1>1. /\ gate = "validating" /\ gate' = "invalidating"
      /\ flash' = Program(At(new, SigWord), {"s14"})
      /\ UNCHANGED <<part, sec1val, modified, value, old, word, intended, written>>
  BY DEF Validate, shadow, loop
<1>2. old \in Banks /\ new \in Banks /\ new # old
  BY OtherBank DEF TypeOK
<1>3. Lo(new) = written /\ intended[new] = written /\ SumsUp(written)
  BY <1>1, CopyDone
<1>4. /\ {w \in Words : "lo" \in flash'[At(new, w)]} = Lo(new)
      /\ flash'[At(new, SigWord)] = flash[At(new, SigWord)] \ {"s14"}
      /\ \A w \in Words : flash'[At(old, w)] = flash[At(old, w)]
  BY <1>1, <1>2, SignatureOnly DEF SigBits
<1>5. OldBankKept' /\ Whole(old)'
  BY <1>1, <1>4, OldBankStays
<1>6. SigBits \subseteq flash[At(new, SigWord)]
  BY <1>1 DEF Sound, CopiedSoFar
<1>7. SigValid(new)' /\ Lo(new)' = written
  BY <1>1, <1>3, <1>4, <1>6 DEF SigValid, SigBits, Lo
<1>8. (\A bank \in Banks : Whole(bank))'
  <2>1. \A bank \in Banks : bank = old \/ bank = new
    BY <1>2, OtherBank
  <2>2. Lo(new)' = intended'[new] /\ SumsUp(Lo(new)')
    BY <1>1, <1>3, <1>7
  <2> QED
    BY <1>1, <1>5, <2>1, <2>2 DEF Whole, Lo, SumsUp
<1> QED
  BY <1>1, <1>3, <1>5, <1>7, <1>8 DEF Sound, RestsOnValid, ErasedSoFar, CopiedSoFar, Committed,
     Intends

\* However an update ends: what counts is that each bank that is valid then holds what was
\* written, and that there is one.
LEMMA SoundEnd ==
    ASSUME gate' = "idle", Sound, part' = part, sec1val' \in Banks,
           ~Ich10 => SigValid(sec1val)',
           (\E bank \in Banks : SigValid(bank))',
           (\A bank \in Banks : SigValid(bank) => Whole(bank) /\ View(bank) = written)'
    PROVE  Sound'
<1>1. (Current \in Banks /\ SigValid(Current))'
  <2>1. CASE ~Ich10
    BY <2>1 DEF Current, Ich10
  <2>2. CASE Ich10
    BY <2>2 DEF Current, Ich10, Banks
  <2> QED
    BY <2>1, <2>2
<1>2. (View(Current) = written)'
  BY <1>1
<1> QED
  BY <1>1, <1>2, SoundAtRest

LEMMA SoundInvalidate ==
    ASSUME TypeOK, EraseFits, Sound, NEW bank \in Banks, Invalidate(bank)
    PROVE  Sound' /\ \A b \in Banks : SigValid(b)' => Lo(b)' = written
<1> DEFINE new == 1 - old
<1>1. /\ gate = "invalidating" /\ gate' = "idle"
      /\ flash' = Program(At(old, SigWord), SigBits)
      /\ bank \in Loadable(flash') /\ sec1val' = IF Ich10 THEN sec1val ELSE bank
      /\ modified' = {} /\ value' = {}
      /\ UNCHANGED <<part, intended, written>>
  BY DEF Invalidate, Leave, Clean
<1>2. old \in Banks /\ new \in Banks /\ new # old /\ \A b \in Banks : b = old \/ b = new
  BY OtherBank DEF TypeOK
<1>3. /\ SigValid(new) /\ Lo(new) = written /\ intended[new] = written /\ SumsUp(written)
  BY <1>1 DEF Sound, Committed, Intends, OldBankKept
<1>4. /\ \A b \in Banks : Lo(b)' = Lo(b)
      /\ flash'[At(old, SigWord)] = flash[At(old, SigWord)] \ SigBits
      /\ \A b \in Banks, w \in Words : b # old => flash'[At(b, w)] = flash[At(b, w)]
  BY <1>1, <1>2, SignatureOnly DEF Lo
<1>5. \A b \in Banks : SigValid(b)' <=> b = new
  <2>1. ~(flash'[At(old, SigWord)] \cap SigBits = {"s15"})
    BY <1>4
  <2>2. flash'[At(new, SigWord)] = flash[At(new, SigWord)]
    BY <1>2, <1>4, SigIsWord
  <2> HIDE DEF new
  <2> QED
    BY <1>2, <1>3, <2>1, <2>2 DEF SigValid
<1>6. Loadable(flash') = {new}
  <2>1. \A b \in Banks : flash'[At(b, SigWord)] \cap SigBits = {"s15"} <=> b = new
    BY <1>5 DEF SigValid
  <2>2. {b \in Banks : flash'[At(b, SigWord)] \cap SigBits = {"s15"}} = {new}
    BY <1>2, <2>1
  <2> QED
    BY <2>2 DEF Loadable
<1>7. \A b \in Banks : SigValid(b)' => Whole(b)' /\ View(b)' = written' /\ Lo(b)' = written
  <2> SUFFICES ASSUME NEW b \in Banks, b = new
               PROVE  Whole(b)' /\ View(b)' = written' /\ Lo(b)' = written
    BY <1>5
  <2>1. Lo(b)' = written /\ intended'[b] = written /\ SumsUp(Lo(b)')
    BY <1>1, <1>3, <1>4
  <2>2. View(b)' = written'
    BY <1>1, <2>1 DEF View
  <2> QED
    BY <2>1, <2>2 DEF Whole, SumsUp
<1>8. sec1val' \in Banks /\ (~Ich10 => SigValid(sec1val)')
  <2>1. sec1val' \in Banks
    BY <1>1, <1>2, <1>6 DEF TypeOK
  <2>2. ~Ich10 => sec1val' = new
    BY <1>1, <1>6
  <2>3. flash'[At(new, SigWord)] \cap SigBits = {"s15"}
    BY <1>2, <1>5 DEF SigValid
  <2> QED
    BY <2>1, <2>2, <2>3 DEF SigValid
<1>9. \E b \in Banks : SigValid(b)'
  BY <1>2, <1>5
<1> QED
  BY <1>1, <1>7, <1>8, <1>9, SoundEnd

LEMMA SoundCopyFails ==
    ASSUME TypeOK, EraseFits, Sound, CopyFails
    PROVE  Sound'
<1> DEFINE new == 1 - old
<1>1. PICK bit \in Copied(word) : GivesUp(At(new, word), Cleared(bit))
  BY DEF CopyFails
<1>2. /\ gate = "copying" /\ word \in Words /\ gate' = "idle"
      /\ UNCHANGED <<part, sec1val, modified, value, intended, written>>
  BY <1>1 DEF CopyFails, GivesUp, Leave, shadow
<1>3. old \in Banks /\ new \in Banks /\ new # old /\ \A b \in Banks : b = old \/ b = new
  BY OtherBank DEF TypeOK
<1>4. SigBits \subseteq flash[At(new, SigWord)]
  BY <1>2 DEF Sound, CopiedSoFar
<1>5. /\ \A w \in Words : flash'[At(old, w)] = flash[At(old, w)]
      /\ SigBits \subseteq flash'[At(new, SigWord)]
  <2>1. CASE flash' = flash
    BY <1>4, <2>1
  <2>2. CASE flash' = Program(At(new, word), Cleared(bit))
    <3> HIDE DEF new
    <3>1. /\ flash'[At(new, word)] = flash[At(new, word)] \ Cleared(bit)
          /\ \A v \in Words : v # word => flash'[At(new, v)] = flash[At(new, v)]
          /\ \A c \in Banks, v \in Words : c # new => flash'[At(c, v)] = flash[At(c, v)]
      BY <1>2, <1>3, <2>2, ProgramStep
    <3> QED
      BY <1>3, <1>4, <3>1, SigIsWord DEF Cleared, SigBits
  <2> QED
    BY <1>1, <2>1, <2>2 DEF GivesUp
<1>6. /\ SigValid(old) /\ View(old) = written /\ (~Ich10 => sec1val = old) /\ Whole(old)
  BY <1>2, <1>3 DEF Sound, OldBankKept
<1>7. \A b \in Banks : SigValid(b)' <=> b = old
  <2>1. ~(flash'[At(new, SigWord)] \cap SigBits = {"s15"})
    BY <1>5 DEF SigBits
  <2>2. flash'[At(old, SigWord)] = flash[At(old, SigWord)]
    BY <1>5, SigIsWord
  <2> HIDE DEF new
  <2> QED
    BY <1>3, <1>6, <2>1, <2>2 DEF SigValid
<1>8. \A b \in Banks : SigValid(b)' => Whole(b)' /\ View(b)' = written'
  <2>1. {w \in Words : "lo" \in flash'[At(old, w)]} = Lo(old)
    BY <1>5 DEF Lo
  <2> QED
    BY <1>2, <1>6, <1>7, <2>1 DEF Whole, View, SumsUp, Lo
<1>9. sec1val' \in Banks /\ (~Ich10 => SigValid(sec1val)')
  BY <1>2, <1>3, <1>6, <1>7 DEF TypeOK, SigValid
<1> QED
  BY <1>2, <1>3, <1>7, <1>8, <1>9, SoundEnd

\* A signature was, or was not, programmed and the update given up: each bank may be left
\* valid that holds what was written.
LEMMA SignatureFails ==
    ASSUME TypeOK, EraseFits, Sound, NEW b \in Banks, NEW cleared \in SUBSET SigBits,
           GivesUp(At(b, SigWord), cleared),
           \A c \in Banks : SigValid(c)' => Whole(c) /\ View(c) = written,
           ~Ich10 => SigValid(sec1val)',
           \E c \in Banks : SigValid(c)'
    PROVE  Sound'
<1>1. gate' = "idle" /\ UNCHANGED <<part, sec1val, modified, value, intended, written>>
  BY DEF GivesUp, Leave, shadow
<1>2. \A c \in Banks : Lo(c)' = Lo(c)
  <2>1. CASE flash' = flash
    BY <2>1, FlashKept
  <2>2. CASE flash' = Program(At(b, SigWord), cleared)
    BY <2>2, SignatureOnly DEF Lo
  <2> QED
    BY <2>1, <2>2 DEF GivesUp
<1>3. \A c \in Banks : SigValid(c)' => Whole(c)' /\ View(c)' = written'
  BY <1>1, <1>2 DEF Whole, View, SumsUp
<1>4. sec1val' \in Banks
  BY <1>1 DEF TypeOK
<1> QED
  BY <1>1, <1>3, <1>4, SoundEnd

\* a bank that holds what was written shows it: the shadow RAM agrees with it
LEMMA ShowsWritten ==
    ASSUME TypeOK, NEW b \in Banks, NEW c \in Banks, View(b) = written, Lo(c) = written
    PROVE  View(c) = written
BY DEF View, TypeOK

LEMMA SoundValidateFails ==
    ASSUME TypeOK, EraseFits, Sound, ValidateFails
    PROVE  Sound'
<1> DEFINE new == 1 - old
<1>1. gate = "validating" /\ GivesUp(At(new, SigWord), {"s14"})
  BY DEF ValidateFails
<1>2. old \in Banks /\ new \in Banks /\ new # old /\ \A b \in Banks : b = old \/ b = new
  BY OtherBank DEF TypeOK
<1>3. Lo(new) = written /\ intended[new] = written /\ SumsUp(written)
  BY <1>1, CopyDone
<1>4. SigValid(old) /\ View(old) = written /\ (~Ich10 => sec1val = old) /\ Whole(old)
  BY <1>1, <1>2 DEF Sound, OldBankKept
<1>5. \A c \in Banks : Whole(c) /\ View(c) = written
  <2>1. Whole(new)
    BY <1>3 DEF Whole
  <2>2. View(new) = written
    BY <1>2, <1>3, <1>4, ShowsWritten
  <2> QED
    BY <1>2, <1>4, <2>1, <2>2
<1>6. \A c \in Banks : c = old => SigValid(c)'
  <2>1. flash'[At(old, SigWord)] = flash[At(old, SigWord)]
    <3>1. CASE flash' = flash
      BY <3>1
    <3>2. CASE flash' = Program(At(new, SigWord), {"s14"})
      BY <1>2, <3>2, SignatureOnly, SigIsWord DEF SigBits
    <3> QED
      BY <1>1, <3>1, <3>2 DEF GivesUp
  <2> QED
    BY <1>4, <2>1 DEF SigValid
<1>7. ~Ich10 => SigValid(sec1val)'
  <2>1. sec1val' = sec1val
    BY <1>1 DEF GivesUp
  <2> QED
    BY <1>2, <1>4, <1>6, <2>1 DEF SigValid
<1>8. \E c \in Banks : SigValid(c)'
  BY <1>2, <1>6
<1>9. {"s14"} \in SUBSET SigBits
  BY DEF SigBits
<1> HIDE DEF new
<1> QED
  BY <1>1, <1>2, <1>5, <1>7, <1>8, <1>9, SignatureFails

LEMMA SoundInvalidateFails ==
    ASSUME TypeOK, EraseFits, Sound, InvalidateFails, ~ignored'
    PROVE  Sound'
<1> DEFINE new == 1 - old
<1>1. gate = "invalidating" /\ GivesUp(At(old, SigWord), SigBits)
  BY DEF InvalidateFails
<1>2. old \in Banks /\ new \in Banks /\ new # old /\ \A b \in Banks : b = old \/ b = new
  BY OtherBank DEF TypeOK
<1>3. SigValid(new) /\ Lo(new) = written
  BY <1>1 DEF Sound, Committed
<1>4. SigValid(old) /\ View(old) = written /\ (~Ich10 => sec1val = old)
  BY <1>1 DEF Sound, OldBankKept
<1>5. \A c \in Banks : Whole(c) /\ View(c) = written
  <2>1. Whole(new) /\ Whole(old)
    BY <1>2, <1>3, <1>4 DEF Sound
  <2>2. View(new) = written
    BY <1>2, <1>3, <1>4, ShowsWritten
  <2> QED
    BY <1>2, <1>4, <2>1, <2>2
<1>6. \A c \in Banks : c = new => SigValid(c)'
  <2>1. flash'[At(new, SigWord)] = flash[At(new, SigWord)]
    <3>1. CASE flash' = flash
      BY <3>1
    <3>2. CASE flash' = Program(At(old, SigWord), SigBits)
      BY <1>2, <3>2, SignatureOnly, SigIsWord
    <3> QED
      BY <1>1, <3>1, <3>2 DEF GivesUp
  <2> QED
    BY <1>3, <2>1 DEF SigValid
<1>7. ~Ich10 => SigValid(sec1val)'
  <2> SUFFICES ASSUME ~Ich10 PROVE SigValid(sec1val)'
    OBVIOUS
  <2>1. flash' = flash /\ sec1val' = sec1val
    BY <1>1 DEF GivesUp
  <2> QED
    BY <1>4, <2>1 DEF SigValid
<1>8. \E c \in Banks : SigValid(c)'
  BY <1>2, <1>6
<1> QED
  BY <1>1, <1>2, <1>5, <1>7, <1>8, SignatureFails

\* Whenever power fails there is a bank to load.
LEMMA ValidBank ==
    ASSUME TypeOK, Sound
    PROVE  \E b \in Banks : SigValid(b)
<1>1. CASE gate = "idle"
  BY <1>1 DEF Sound, RestsOnValid
<1>2. CASE gate # "idle"
  BY <1>2 DEF Sound, OldBankKept, TypeOK
<1> QED
  BY <1>1, <1>2

LEMMA SoundPowerCycle ==
    ASSUME TypeOK, Sound, NEW bank \in Banks, PowerCycle(bank)
    PROVE  Sound'
<1>1. /\ gate' = "idle" /\ bank \in Loadable(flash)
      /\ sec1val' = IF Ich10 THEN sec1val ELSE bank
      /\ written' = Lo(IF ~Ich10 THEN bank ELSE IF SigValid(0) THEN 0 ELSE 1)
      /\ modified' = {} /\ value' = {} /\ UNCHANGED <<part, flash, intended>>
  BY DEF PowerCycle, Leave, Clean
<1>2. SigValid(bank)
  <2>1. PICK b \in Banks : SigValid(b)
    BY ValidBank
  <2>2. b \in {c \in Banks : flash[At(c, SigWord)] \cap SigBits = {"s15"}}
    BY <2>1 DEF SigValid
  <2>3. bank \in {c \in Banks : flash[At(c, SigWord)] \cap SigBits = {"s15"}}
    BY <1>1, <2>2 DEF Loadable
  <2> QED
    BY <2>3 DEF SigValid
<1>3. SigValid(0)' = SigValid(0) /\ SigValid(1)' = SigValid(1) /\ Ich10' = Ich10
  BY <1>1, FlashKept DEF Banks, Ich10
<1>4. Current' = IF ~Ich10 THEN bank ELSE IF SigValid(0) THEN 0 ELSE 1
  <2>1. SigValid(0) \/ SigValid(1)
    BY <1>2 DEF Banks
  <2> QED
    BY <1>1, <1>3, <2>1 DEF Current
<1>5. Current' \in Banks /\ SigValid(Current')
  BY <1>2, <1>4 DEF Banks
<1>6. (Current \in Banks /\ SigValid(Current))'
  BY <1>1, <1>5 DEF SigValid
<1>7. (View(Current) = written)'
  BY <1>1, <1>4 DEF View, Lo
<1> QED
  BY <1>1, <1>6, <1>7, WholeKept, SoundAtRest

LEMMA SoundStep ==
    ASSUME TypeOK, EraseFits, Sound, ~ignored, ~ignored', [Next]_vars
    PROVE  Sound'
<1>1. ASSUME NEW w \in Words, NEW bit \in {{}, {w}}, Write(w, bit) PROVE Sound'
  BY <1>1, SoundWrite
<1>2. CASE ReadNoBank \/ NotAcquired
  BY <1>2, SoundUnchanged DEF ReadNoBank, NotAcquired, shadow, loop
<1>3. ASSUME NEW sum \in SUBSET {SumWord}, UpdateNoBank(sum) \/ UpdateNotAcquired(sum)
      PROVE  Sound'
  BY <1>3, SoundUpdateReturns
<1>4. ASSUME NEW bank \in Banks, NEW sum \in SUBSET {SumWord}, UpdateBegin(bank, sum)
      PROVE  Sound'
  BY <1>4, SoundUpdateBegin
<1>5. CASE EraseCycle
  BY <1>5, SoundEraseCycle
<1>6. CASE EraseError
  BY <1>6, SoundEraseError
<1>7. CASE EraseEnd
  BY <1>7, SoundEraseEnd
<1>8. CASE CopyWord
  BY <1>8, SoundCopyWord
<1>9. CASE CopyEnd
  BY <1>9, SoundCopyEnd
<1>10. CASE Validate
  BY <1>10, SoundValidate
<1>11. ASSUME NEW bank \in Banks, Invalidate(bank) PROVE Sound'
  BY <1>11, SoundInvalidate
<1>12. CASE CopyFails
  BY <1>12, SoundCopyFails
<1>13. CASE ValidateFails
  BY <1>13, SoundValidateFails
<1>14. CASE InvalidateFails
  BY <1>14, SoundInvalidateFails
<1>15. ASSUME NEW bank \in Banks, PowerCycle(bank) PROVE Sound'
  BY <1>15, SoundPowerCycle
<1>16. CASE UNCHANGED vars
  BY <1>16, SoundUnchanged DEF vars, shadow, loop
<1> QED
  BY <1>1, <1>2, <1>3, <1>4, <1>5, <1>6, <1>7, <1>8, <1>9, <1>10, <1>11, <1>12, <1>13,
     <1>14, <1>15, <1>16 DEF Next

\* a step that ignores no error comes after none that did
LEMMA IgnoredStays ==
    ASSUME TypeOK, [Next]_vars, ignored
    PROVE  ignored'
<1>1. ASSUME NEW w \in Words, NEW bit \in {{}, {w}}, Write(w, bit) PROVE ignored'
  BY <1>1 DEF Write
<1>2. ASSUME NEW bank \in Banks, Invalidate(bank) \/ PowerCycle(bank)
      PROVE ignored'
  BY <1>2 DEF Invalidate, PowerCycle
<1>3. ASSUME NEW sum,
             UpdateNotAcquired(sum) \/ UpdateNoBank(sum) \/ \E bank \in Banks : UpdateBegin(bank, sum)
      PROVE ignored'
  BY <1>3 DEF UpdateNotAcquired, UpdateNoBank, UpdateBegin
<1>4. CASE NotAcquired \/ ReadNoBank \/ EraseCycle \/ EraseError \/ EraseEnd \/ CopyWord \/ CopyEnd \/ Validate
  BY <1>4 DEF NotAcquired, ReadNoBank, EraseCycle, EraseError, EraseEnd, CopyWord, CopyEnd, Validate
<1>5. CASE CopyFails \/ ValidateFails \/ InvalidateFails
  BY <1>5 DEF CopyFails, ValidateFails, InvalidateFails, GivesUp
<1>6. CASE UNCHANGED vars
  BY <1>6 DEF vars
<1> QED
  BY <1>1, <1>2, <1>3, <1>4, <1>5, <1>6 DEF Next

LEMMA InvStep ==
    ASSUME EraseFits, IInv, [Next]_vars
    PROVE  IInv'
<1>1. TypeOK'
  BY TypeStep DEF IInv
<1>2. ~ignored' => Sound'
  BY IgnoredStays, SoundStep DEF IInv
<1> QED
  BY <1>1, <1>2 DEF IInv
-----------------------------------------------------------------------------
(* The theorems.                                                           *)

\* Until an error is ignored, whatever fails and whenever power goes, the two banks are
\* in order: this is the invariant behind the rest.
THEOREM InvCorrect ==
    ASSUME EraseFits
    PROVE  Spec => []IInv
<1>1. Init => IInv
  BY TypeInit, SoundInit DEF IInv
<1>2. IInv /\ [Next]_vars => IInv'
  BY InvStep
<1> QED
  BY <1>1, <1>2, PTL DEF Spec

\* There is a bank to load at any moment power may fail.
THEOREM SomeBankValidCorrect ==
    ASSUME EraseFits
    PROVE  Spec => []SomeBankValid
<1>1. IInv => SomeBankValid
  BY ValidBank DEF IInv, SomeBankValid
<1> QED
  BY <1>1, InvCorrect, PTL

\* A bank with a valid signature was written completely, and its sum is right.
THEOREM ValidBankIsWholeCorrect ==
    ASSUME EraseFits
    PROVE  Spec => []ValidBankIsWhole
<1>1. IInv => ValidBankIsWhole
  BY DEF IInv, Sound, ValidBankIsWhole
<1> QED
  BY <1>1, InvCorrect, PTL

\* Reads return what was last written, before, between and after updates that fail.
THEOREM ReadsWrittenCorrect ==
    ASSUME EraseFits
    PROVE  Spec => []ReadsWritten
<1>1. IInv => ReadsWritten
  BY DEF IInv, Sound, ReadsWritten
<1> QED
  BY <1>1, InvCorrect, PTL

\* An update that reports success has made what was written durable.
THEOREM CommitIsDurableCorrect ==
    ASSUME EraseFits
    PROVE  Spec => CommitIsDurable
<1> DEFINE Durable ==
      ~ignored /\ gate = "invalidating" /\ gate' = "idle" /\ flash' # flash /\ modified' = {}
        /\ modified # {}
      => \A bank \in Banks : SigValid(bank)' => Lo(bank)' = written
<1>1. IInv /\ [Next]_vars => [Durable]_vars
  <2> SUFFICES ASSUME IInv, [Next]_vars, ~ignored, gate = "invalidating", gate' = "idle",
                      flash' # flash, modified' = {}, modified # {}
               PROVE  \A bank \in Banks : SigValid(bank)' => Lo(bank)' = written
    OBVIOUS
  <2>1. ASSUME NEW bank \in Banks, Invalidate(bank)
        PROVE  \A b \in Banks : SigValid(b)' => Lo(b)' = written
    BY <2>1, SoundInvalidate DEF IInv
  <2>2. ~InvalidateFails
    BY DEF InvalidateFails, GivesUp, shadow
  <2>3. ~ValidateFails /\ ~CopyFails /\ ~CopyWord /\ ~EraseCycle /\ ~Validate
    BY DEF ValidateFails, CopyFails, CopyWord, EraseCycle, Validate
  <2>4. \A bank \in Banks : ~PowerCycle(bank)
    BY DEF PowerCycle
  <2> QED
    BY <2>1, <2>2, <2>3, <2>4 DEF Next, vars, Write, NotAcquired, ReadNoBank, UpdateNotAcquired,
       UpdateNoBank, UpdateBegin, EraseError, EraseEnd, CopyEnd
<1> QED
  BY <1>1, InvCorrect, PTL DEF Spec, CommitIsDurable
=============================================================================
