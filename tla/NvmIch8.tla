------------------------------ MODULE NvmIch8 ------------------------------
(***************************************************************************)
(* The NVM of the ICH8 family (e1000_ich8lan.c): two banks of flash, a     *)
(* shadow RAM that collects writes, and e1000_update_nvm_checksum_ich8lan, *)
(* which commits them by copying the valid bank into the other one and     *)
(* then moving the signature.  Every flash cycle is a step of its own, and *)
(* power may fail before each of them.                                     *)
(*                                                                         *)
(* Flash is bits: an erase sets them and programming can only clear them,  *)
(* so a word is the set of its bits that are 1.  Of a word's bits the      *)
(* model keeps "lo", one bit of its low byte, and of the signature word's  *)
(* high byte the bits 15 and 14, which are 10b in a valid bank.  The       *)
(* content of a bank is the set of words whose "lo" is 1, and its sum is   *)
(* their parity.                                                           *)
(***************************************************************************)
EXTENDS Integers, FiniteSets

CONSTANTS SectorWords,   \* words per erase sector (hsf_status.berasesz)
          Sectors,       \* sectors per bank: "iteration" in e1000_erase_flash_bank_ich8lan
          SigWord,       \* E1000_ICH_NVM_SIG_WORD
          SumWord,       \* NVM_CHECKSUM_REG
          EraseRetries,  \* ICH_FLASH_CYCLE_REPEAT_COUNT
          Parts,         \* e1000_ich8lan, e1000_ich10lan: the latter has no SEC1VAL
          Faults         \* how flash cycles can fail: "read", "erase", "program" and,
                         \* programmed but reported as an error in every try, "late"

BankWords == SectorWords * Sectors   \* flash_bank_size, as large as the shadow RAM
Words == 0 .. BankWords - 1
Banks == {0, 1}
Addresses == 0 .. 2 * BankWords - 1
At(bank, w) == IF bank = 0 THEN w ELSE BankWords + w
WordOf(a) == IF a < BankWords THEN a ELSE a - BankWords

ASSUME SectorAssumption == SectorWords \in Nat \ {0} /\ Sectors \in Nat \ {0}
ASSUME LayoutAssumption ==
    SigWord \in 0 .. SectorWords - 1 /\ SumWord \in Words \ {SigWord}
ASSUME FaultAssumption ==
    /\ EraseRetries \in Nat \ {0}
    /\ Parts \subseteq {"e1000_ich8lan", "e1000_ich10lan"}
    /\ Faults \subseteq {"read", "erase", "program", "late"}

Bits(w) == IF w = SigWord THEN {"lo", "s15", "s14"} ELSE {"lo"}
SigBits == {"s15", "s14"}
AllOnes == {"lo", "s15", "s14"}

VARIABLES
    part,       \* the adapter; never changes
    flash,      \* address -> set of bits
    sec1val,    \* EECD.SEC1VAL as the bank it stands for
    modified,   \* the words whose shadow_ram entry is modified
    value,      \* those of them whose value has the bit set
    swflag,     \* EXTCNF_CTRL.SWFLAG is set
    gate,       \* how far e1000_update_nvm_checksum_ich8lan has come
    old,        \* its old bank
    sector,     \* j of the erase loop
    eraseAddr,  \* flash_linear_addr of the erase loop
    count,      \* its failed tries
    word,       \* i of the copy loop
    intended,   \* ghost: bank -> content the last update was writing there
    written,    \* ghost: the content last written, or loaded at power-up
    ignored     \* ghost: a flash cycle failed and its result was not looked at

shadow == <<modified, value>>
loop == <<old, sector, eraseAddr, count, word>>   \* the locals; 0 outside the update
vars == <<part, flash, sec1val, shadow, swflag, gate, loop, intended, written, ignored>>

\* the update returns, or its RAM is gone
Leave ==
    /\ gate' = "idle"
    /\ old' = 0 /\ sector' = 0 /\ eraseAddr' = 0 /\ count' = 0 /\ word' = 0

Clean == modified' = {} /\ value' = {}
Lo(bank) == {w \in Words : "lo" \in flash[At(bank, w)]}
SigValid(bank) == flash[At(bank, SigWord)] \cap SigBits = {"s15"}
SumsUp(content) == Cardinality(content) % 2 = 1

\* what EECD.SEC1VAL may say after power-up or EE_RST, of flash contents f (external):
\* a bank with a valid signature, if there is one
Loadable(f) ==
    LET valid == {b \in Banks : f[At(b, SigWord)] \cap SigBits = {"s15"}}
    IN IF valid = {} THEN Banks ELSE valid

\* e1000_valid_nvm_bank_detect_ich8lan: the bank it finds (2: none), and those it may find
\* on ICH10, where a signature byte that cannot be read counts as invalid.
Misread == "read" \in Faults
Ich10 == part = "e1000_ich10lan"
Current == IF ~Ich10 THEN sec1val ELSE IF SigValid(0) THEN 0 ELSE IF SigValid(1) THEN 1 ELSE 2
Detected ==
    {Current} \cup (IF ~(Ich10 /\ Misread) THEN {}
                   ELSE {2} \cup (IF SigValid(1) THEN {1} ELSE {}))

\* e1000_read_nvm_ich8lan with that bank: the shadow RAM first
View(bank) == (Lo(bank) \ modified) \cup value

Init ==
    /\ part \in Parts
    /\ ignored = FALSE
    /\ \E content \in SUBSET Words, valid \in Banks :
          /\ SumsUp(content)
          /\ flash = [a \in Addresses |->
                        IF a # At(valid, WordOf(a)) THEN {}
                        ELSE {bit \in {"lo"} : WordOf(a) \in content}
                             \cup {bit \in {"s15"} : WordOf(a) = SigWord}]
          /\ sec1val = IF Ich10 THEN 0 ELSE valid
          /\ intended = [b \in Banks |-> IF b = valid THEN content ELSE {}]
          /\ written = content
    /\ modified = {} /\ value = {}
    /\ swflag = FALSE
    /\ gate = "idle"
    /\ old = 0 /\ sector = 0 /\ eraseAddr = 0 /\ count = 0 /\ word = 0
-----------------------------------------------------------------------------
(* Reads and writes.                                                       *)

\* a content with word w replaced: bit is {w} or {}
Put(content, w, bit) == (content \ {w}) \cup bit

\* e1000_write_nvm_ich8lan; no caller writes the signature word, and the checksum is
\* written by the update only
Write(w, bit) ==
    /\ gate = "idle"
    /\ modified' = modified \cup {w}
    /\ value' = Put(value, w, bit)
    /\ written' = Put(written, w, bit)
    /\ swflag' = FALSE
    /\ UNCHANGED <<part, flash, sec1val, gate, loop, intended, ignored>>

\* e1000_acquire_swflag_ich8lan gives up, and a read or write with it: the firmware keeps
\* the flag, and the driver's share of it is cleared.
NotAcquired ==
    /\ gate = "idle"
    /\ swflag' = FALSE
    /\ UNCHANGED <<part, flash, sec1val, shadow, gate, loop, intended, written, ignored>>

\* e1000_read_nvm_ich8lan where no bank is found: it returns without releasing.  (A read
\* that finds one leaves the state as it is.)
ReadNoBank ==
    /\ gate = "idle"
    /\ 2 \in Detected
    /\ swflag' = TRUE
    /\ UNCHANGED <<part, flash, sec1val, shadow, gate, loop, intended, written, ignored>>
-----------------------------------------------------------------------------
(* e1000_update_nvm_checksum_ich8lan.                                      *)

\* e1000_update_nvm_checksum_generic reads every word but the sum and writes the sum to
\* the shadow RAM; then the flag is taken and the erase of the other bank begins.
NewSum(bank) == IF SumsUp(View(bank) \ {SumWord}) THEN {} ELSE {SumWord}

\* Each of its reads finds the bank anew.  Where they need not all find the same one, and
\* the banks differ, any sum may result.  (A read that finds none is ReadNoBank, one that
\* does not get the flag NotAcquired: the update returns.)
NewSums ==
    LET found == Detected \cap Banks
    IN IF \E b, c \in found : View(b) \ {SumWord} # View(c) \ {SumWord}
       THEN {{}, {SumWord}}
       ELSE {NewSum(b) : b \in found}

WriteSum(sum) ==
    /\ gate = "idle"
    /\ sum \in NewSums
    /\ modified' = modified \cup {SumWord}
    /\ value' = Put(value, SumWord, sum)
    /\ written' = Put(written, SumWord, sum)

\* The flag is not to be had for the commit.
UpdateNotAcquired(sum) ==
    /\ WriteSum(sum)
    /\ swflag' = FALSE
    /\ ignored' = (ignored \/ sum # NewSum(Current))
    /\ UNCHANGED <<part, flash, sec1val, gate, loop, intended>>

\* The bank is not found again: the update returns without releasing.
UpdateNoBank(sum) ==
    /\ WriteSum(sum)
    /\ 2 \in Detected
    /\ swflag' = TRUE
    /\ ignored' = (ignored \/ sum # NewSum(Current))
    /\ UNCHANGED <<part, flash, sec1val, gate, loop, intended>>

UpdateBegin(bank, sum) ==
    /\ WriteSum(sum)
    /\ bank \in Detected
    /\ swflag' = TRUE
    /\ gate' = "erasing"
    /\ old' = bank
    /\ sector' = 0
    /\ eraseAddr' = At(1 - bank, 0)
    /\ count' = 0
    /\ word' = 0
    /\ ignored' = (ignored \/ sum # NewSum(Current) \/ bank # Current)
    /\ UNCHANGED <<part, flash, sec1val, intended>>

\* Mutant of the step below: the valid bank is erased instead of the other one.
EraseCycleOldBank ==
    /\ gate = "erasing"
    /\ sector < Sectors
    /\ flash' = [a \in Addresses |-> IF a = At(old, WordOf(a)) THEN Bits(WordOf(a)) ELSE flash[a]]
    /\ sector' = Sectors
    /\ UNCHANGED <<part, sec1val, shadow, swflag, gate, old, eraseAddr, count, word, intended, written, ignored>>

\* One erase cycle: "flash_linear_addr += (j * sector_size)", then that sector.
Erased(addr) == {a \in Addresses : addr <= a /\ a < addr + SectorWords}

\* Mutant of the step below: j <= iteration.
EraseCycleOnePast ==
    /\ gate = "erasing"
    /\ sector <= Sectors
    /\ LET addr == eraseAddr + sector * SectorWords
       IN /\ flash' = [a \in Addresses |->
                         IF a \in Erased(addr) THEN Bits(WordOf(a)) ELSE flash[a]]
          /\ eraseAddr' = addr
    /\ sector' = sector + 1
    /\ intended' = [intended EXCEPT ![1 - old] = View(old)]
    /\ UNCHANGED <<part, sec1val, shadow, swflag, gate, old, count, word, written, ignored>>

EraseCycle ==
    /\ gate = "erasing"
    /\ sector < Sectors
    /\ LET addr == eraseAddr + sector * SectorWords
       IN /\ flash' = [a \in Addresses |->
                         IF a \in Erased(addr) THEN Bits(WordOf(a)) ELSE flash[a]]
          /\ eraseAddr' = addr
    /\ sector' = sector + 1
    /\ intended' = [intended EXCEPT ![1 - old] = View(old)]
    /\ UNCHANGED <<part, sec1val, shadow, swflag, gate, old, count, word, written, ignored>>

\* The cycle ends with FCERR and is repeated: the address moves on all the same.  When the
\* tries are used up the sector is passed over.
EraseError ==
    /\ "erase" \in Faults
    /\ gate = "erasing"
    /\ sector < Sectors
    /\ eraseAddr' = eraseAddr + sector * SectorWords
    /\ count' = IF count < EraseRetries THEN count + 1 ELSE count
    /\ sector' = IF count + 1 < EraseRetries THEN sector ELSE sector + 1
    /\ ignored' = (ignored \/ sector' # sector)
    /\ UNCHANGED <<part, flash, sec1val, shadow, swflag, gate, old, word, intended, written>>

\* The loop is done, or left because a cycle did not complete; nobody looks at what
\* e1000_erase_flash_bank_ich8lan returns.
EraseEnd ==
    /\ gate = "erasing"
    /\ sector = Sectors \/ "erase" \in Faults
    /\ gate' = "copying"
    /\ ignored' = (ignored \/ sector < Sectors)
    /\ sector' = 0
    /\ eraseAddr' = 0
    /\ count' = 0
    /\ UNCHANGED <<part, flash, sec1val, shadow, swflag, old, word, intended, written>>

\* Programming clears the bits of a byte that are not set in the value.
Program(addr, cleared) == [flash EXCEPT ![addr] = @ \ cleared]

\* The word to copy: modified, or read from the old bank.  A failed read leaves data as it
\* was: uninitialized, or the word before; any value.
Copied(w) ==
    IF w \in modified THEN {value \cap {w}}
    ELSE {Lo(old) \cap {w}} \cup (IF Misread THEN {{}, {w}} ELSE {})

Cleared(bit) == IF bit = {} THEN {"lo"} ELSE {}

\* Mutant: the old bank's words are taken even where the shadow RAM has newer ones.
CopyWordStale ==
    /\ gate = "copying"
    /\ word \in Words
    /\ flash' = Program(At(1 - old, word), Cleared(Lo(old) \cap {word}))
    /\ word' = word + 1
    /\ UNCHANGED <<part, sec1val, shadow, swflag, gate, old, sector, eraseAddr, count, intended, written, ignored>>

\* Mutant: the signature is copied along with the rest of its word.
CopyWordSigned ==
    /\ gate = "copying"
    /\ word \in Words
    /\ \E bit \in Copied(word) :
          flash' = Program(At(1 - old, word), Cleared(bit) \cup {"s14"})
    /\ word' = word + 1
    /\ UNCHANGED <<part, sec1val, shadow, swflag, gate, old, sector, eraseAddr, count, intended, written, ignored>>

\* Two bytes of the new bank.  The signature bits are written as 11b, which leaves them.
CopyWord ==
    /\ gate = "copying"
    /\ word \in Words
    /\ \E bit \in Copied(word) :
          /\ flash' = Program(At(1 - old, word), Cleared(bit))
          /\ ignored' = (ignored \/ bit # View(old) \cap {word})
    /\ word' = word + 1
    /\ UNCHANGED <<part, sec1val, shadow, swflag, gate, old, sector, eraseAddr, count, intended, written>>

CopyEnd ==
    /\ gate = "copying"
    /\ word = BankWords
    /\ gate' = "validating"
    /\ UNCHANGED <<part, flash, sec1val, shadow, swflag, loop, intended, written, ignored>>

\* The signature of the new bank goes from 11b to 10b: its word is read, bit 14 cleared
\* and the high byte written.  If the read fails, data is the last word's, whose bit 15
\* may be anything.
Validate ==
    /\ gate = "validating"
    /\ \/ /\ flash' = Program(At(1 - old, SigWord), {"s14"})
          /\ UNCHANGED ignored
       \/ /\ Misread
          /\ flash' = Program(At(1 - old, SigWord), SigBits)
          /\ ignored' = TRUE
    /\ gate' = "invalidating"
    /\ UNCHANGED <<part, sec1val, shadow, swflag, loop, intended, written>>

\* The signature of the old bank goes to 00b, the shadow RAM is cleared, the flag
\* released and the NVM reloaded, which may set SEC1VAL to any valid bank.
Invalidate(bank) ==
    /\ gate = "invalidating"
    /\ flash' = Program(At(old, SigWord), SigBits)
    /\ bank \in Loadable(flash')
    /\ sec1val' = IF Ich10 THEN sec1val ELSE bank
    /\ Clean
    /\ swflag' = FALSE
    /\ Leave
    /\ UNCHANGED <<part, intended, written, ignored>>

\* A byte was not programmed in 101 tries, or was without reporting it: the update gives
\* up with the shadow RAM as it is.  On ICH8 nobody looks whether SEC1VAL still names a
\* valid bank then.
GivesUp(addr, cleared) ==
    /\ \/ "program" \in Faults /\ flash' = flash
       \/ "late" \in Faults /\ flash' = Program(addr, cleared)
    /\ Leave
    /\ swflag' = FALSE
    /\ ignored' = (ignored \/ (~Ich10 /\ addr = At(old, SigWord) /\ flash' # flash))
    /\ UNCHANGED <<part, sec1val, shadow, intended, written>>

CopyFails ==
    /\ gate = "copying"
    /\ word \in Words
    /\ \E bit \in Copied(word) : GivesUp(At(1 - old, word), Cleared(bit))

ValidateFails == gate = "validating" /\ GivesUp(At(1 - old, SigWord), {"s14"})

InvalidateFails == gate = "invalidating" /\ GivesUp(At(old, SigWord), SigBits)
-----------------------------------------------------------------------------
(* Power fails and comes back, or the driver is loaded anew: RAM and flag  *)
(* are gone, SEC1VAL is set from the flash, and what a read then returns   *)
(* is what has been written as far as anyone can tell.                     *)

PowerCycle(bank) ==
    /\ bank \in Loadable(flash)
    /\ sec1val' = IF Ich10 THEN sec1val ELSE bank
    /\ written' = Lo(IF ~Ich10 THEN bank ELSE IF SigValid(0) THEN 0 ELSE 1)
    /\ Clean
    /\ swflag' = FALSE
    /\ Leave
    /\ UNCHANGED <<part, flash, intended, ignored>>

Next ==
    \/ \E w \in Words \ {SigWord, SumWord} : \E bit \in {{}, {w}} : Write(w, bit)
    \/ NotAcquired
    \/ ReadNoBank
    \/ \E sum \in SUBSET {SumWord} : UpdateNotAcquired(sum)
    \/ \E sum \in SUBSET {SumWord} : UpdateNoBank(sum)
    \/ \E bank \in Banks, sum \in SUBSET {SumWord} : UpdateBegin(bank, sum)
    \/ EraseCycle
    \/ EraseError
    \/ EraseEnd
    \/ CopyWord
    \/ CopyEnd
    \/ Validate
    \/ \E bank \in Banks : Invalidate(bank)
    \/ CopyFails
    \/ ValidateFails
    \/ InvalidateFails
    \/ \E bank \in Banks : PowerCycle(bank)

Spec == Init /\ [][Next]_vars
-----------------------------------------------------------------------------
(* Properties.                                                             *)

TypeOK ==
    /\ flash \in [Addresses -> SUBSET AllOnes]
    /\ \A a \in Addresses : flash[a] \subseteq Bits(WordOf(a))
    /\ sec1val \in Banks
    /\ modified \subseteq Words
    /\ value \subseteq modified
    /\ swflag \in BOOLEAN
    /\ gate \in {"idle", "erasing", "copying", "validating", "invalidating"}
    /\ old \in Banks
    /\ sector \in 0 .. Sectors
    /\ eraseAddr \in Nat
    /\ count \in 0 .. EraseRetries
    /\ word \in 0 .. BankWords
    /\ intended \in [Banks -> SUBSET Words]
    /\ written \subseteq Words
    /\ part \in Parts
    /\ ignored \in BOOLEAN

\* Whenever power fails, there is a bank to load, unless an error has been ignored.
SomeBankValid == ~ignored => \E bank \in Banks : SigValid(bank)

\* A valid signature is never on a bank that is only partly written: whatever bank is
\* loaded holds the complete content some update (or the factory) meant it to have, and
\* its checksum is right.
Whole(bank) == Lo(bank) = intended[bank] /\ SumsUp(Lo(bank))
ValidBankIsWhole == ~ignored => \A bank \in Banks : SigValid(bank) => Whole(bank)

\* Reads return what was last written, from the shadow RAM or from flash, whether updates
\* in between succeeded or gave up, and at whatever point.
ReadsWritten == ~ignored /\ gate = "idle" => View(Current) = written

-----------------------------------------------------------------------------
(* The inductive invariant.                                                *)

\* between two calls, the bank that is read is a valid one
RestsOnValid == gate = "idle" => Current \in Banks /\ SigValid(Current)

\* through an update the old bank stays valid and shows what is to be committed
OldBankKept ==
    gate # "idle" =>
        /\ SigValid(old)
        /\ View(old) = written
        /\ SumsUp(written)
        /\ ~Ich10 => sec1val = old

\* a word of the new bank as the erase leaves it
Blank(w) == flash[At(1 - old, w)] = Bits(w)

\* the sectors before this one are blank, and the first erase has begun a new content
ErasedSoFar ==
    gate = "erasing" =>
        /\ sector \in {0, 1} => eraseAddr = At(1 - old, 0)
        /\ \A w \in Words : w < sector * SectorWords => Blank(w)
        /\ sector > 0 => intended[1 - old] = written
        /\ word = 0

\* the words before this one are copied, the others blank, the signature not yet valid
CopiedSoFar ==
    gate \in {"copying", "validating"} =>
        /\ \A w \in Words : IF w < word THEN w \in Lo(1 - old) <=> w \in written ELSE Blank(w)
        /\ SigBits \subseteq flash[At(1 - old, SigWord)]
        /\ gate = "validating" => word = BankWords

\* the new bank is complete when its signature has been written
Committed == gate = "invalidating" => SigValid(1 - old) /\ Lo(1 - old) = written

\* what the new bank is meant to hold, from the end of the erase on
Intends == gate \notin {"idle", "erasing"} => intended[1 - old] = written

Sound ==
    /\ \A bank \in Banks : SigValid(bank) => Whole(bank)
    /\ RestsOnValid
    /\ gate = "idle" => View(Current) = written
    /\ OldBankKept
    /\ ErasedSoFar
    /\ CopiedSoFar
    /\ Committed
    /\ Intends

IInv == TypeOK /\ (~ignored => Sound)

\* An update that reports success has made what was written durable: no later loss of
\* power brings an older content back.
CommitIsDurable ==
    [][~ignored /\ gate = "invalidating" /\ gate' = "idle" /\ flash' # flash /\ modified' = {}
           /\ modified # {}
        => \A bank \in Banks : SigValid(bank)' => Lo(bank)' = written]_vars

\* e1000_erase_flash_bank_ich8lan, "Erases the bank specified. Each bank is a 4k block.
\* Banks are 0 based": no word of the valid bank changes while the other one is erased.  The
\* code adds the offset of each sector to an address that it has already moved, so this holds
\* with one sector per bank, or with two and no cycle repeated, and fails with the 16 sectors
\* its comment names.
EraseStaysInBank ==
    [][gate = "erasing" => \A w \in Words : flash'[At(old, w)] = flash[At(old, w)]]_vars
=============================================================================
