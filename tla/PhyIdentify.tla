---------------------------- MODULE PhyIdentify ----------------------------
(***************************************************************************)
(* How an ICH8 driver finds its PHY: e1000_init_phy_params_ich8lan scans   *)
(* the addresses with the IGP routines, and if none answers with an id it  *)
(* knows, again with the BM routines, which choose the address themselves; *)
(* then reads the id once more at the address found and takes the routines *)
(* of that PHY.  Each read is an access of PhyAccess, which can fail.      *)
(***************************************************************************)
EXTENDS PhyAccess

CONSTANTS E1000_MAX_PHY_ADDR,  \* addresses 0 .. E1000_MAX_PHY_ADDR - 1 are scanned
          Tries,               \* reads of the id per address (10)
          Rereads              \* reads of the id at the address found (100)

PHY_ID1 == 2
PHY_ID2 == 3
\* The kinds of id e1000_get_phy_type_from_id knows: "m88" stands for those the driver of an ICH8 does
\* not support.  A BM of the second revision is a "bm": e1000_get_phy_id masks the revision out of the
\* id (e1000_phy.c:100), so that hw->phy.id is never BME1000_E_PHY_ID_R2.
PhyIds == {"igp_3", "ife", "bm", "m88"}

\* Both routines reach the id at every address that is scanned, and nobody writes it.
ASSUME IdentifyAssumption ==
    /\ E1000_MAX_PHY_ADDR \in Nat \ {0}
    /\ 0 .. E1000_MAX_PHY_ADDR - 1 \subseteq Addrs
    /\ \A r \in {PHY_ID1, PHY_ID2} :
          /\ \A k \in {"igp", "bm"} : [bus |-> "mdic", page |-> 0, reg |-> r] \in Offsets[k]
          /\ \A a \in Addrs : <<a, 0, r>> \in Locations
          /\ \A o \in Offsets["igp"] \ ReadOnly : o.bus = "mdic" => o.reg # r

\* A board has one PHY, and only a BM or an M88 may answer at address 2: an IGP3 or an IFE that
\* answered there alone would be left with the routines of the BM.
ASSUME BoardAssumption ==
    \A board \in PowerUp["igp"] : \E id \in PhyIds :
        /\ \A a \in Addrs : \A r \in {PHY_ID1, PHY_ID2} :
              board[<<a, 0, r>>] \in PhyIds => board[<<a, 0, r>>] = id
        /\ board[<<2, 0, PHY_ID1>>] \in PhyIds => id \in {"bm", "m88"}

VARIABLES
    stage,    \* "igp", "bm": the routines that scan; "reread", "up", "failed"
    reading,  \* where e1000_get_phy_id is: "none", "id1", "id2", "look"
    phy_id,   \* hw->phy.id: its halves
    scan,     \* the scan's own phy_addr
    tries,    \* i
    missed    \* a read of the id has failed (history)

ident == <<stage, reading, phy_id, scan, tries, missed>>
allvars == <<vars, ident>>

\* e1000_get_phy_type_from_id: a known id has both halves of one PHY.
phy_type == IF phy_id.id1 = phy_id.id2 /\ phy_id.id1 \in PhyIds THEN phy_id.id1 ELSE "unknown"

ReadOf(r) == [bus |-> "mdic", page |-> 0, reg |-> r, read |-> TRUE, val |-> NoOp.val]

Zero == [id1 |-> "zero", id2 |-> "zero"]

\* The other families know their PHY's address and routines.
IdInit ==
    /\ Init
    /\ stage = IF kind = "igp" THEN "igp" ELSE "up"
    /\ kind # "bm"
    /\ reading = "none"
    /\ phy_id = Zero
    /\ scan = 0
    /\ tries = 0
    /\ missed = FALSE
-----------------------------------------------------------------------------
(* e1000_get_phy_id.                                                       *)

GetPhyId ==
    /\ stage \in {"igp", "bm", "reread"}
    /\ reading = "none"
    /\ stage # "reread" => phy_addr = scan \/ tries > 0
    /\ Begin(ReadOf(PHY_ID1))
    /\ reading' = "id1"
    /\ UNCHANGED <<stage, phy_id, scan, tries, missed>>

\* The first half replaces the id, the second is or-ed to it.
GotId1 ==
    /\ reading = "id1"
    /\ ret_val = "success"
    /\ Begin(ReadOf(PHY_ID2))
    /\ phy_id' = [id1 |-> data, id2 |-> "zero"]
    /\ reading' = "id2"
    /\ UNCHANGED <<stage, scan, tries, missed>>

\* Mutant of the step below: the second half is assigned, not or-ed.
GotId2Assigns ==
    /\ reading = "id2"
    /\ pc = "idle"
    /\ ret_val = "success"
    /\ phy_id' = [id1 |-> "zero", id2 |-> data]
    /\ reading' = "look"
    /\ UNCHANGED <<vars, stage, scan, tries, missed>>

GotId2 ==
    /\ reading = "id2"
    /\ pc = "idle"
    /\ ret_val = "success"
    /\ phy_id' = [phy_id EXCEPT !.id2 = data]
    /\ reading' = "look"
    /\ UNCHANGED <<vars, stage, scan, tries, missed>>

\* A read that fails ends it; the id keeps what it has.
IdFails ==
    /\ reading \in {"id1", "id2"}
    /\ pc = "idle"
    /\ ret_val = "error"
    /\ missed' = TRUE
    /\ reading' = "look"
    /\ UNCHANGED <<vars, stage, phy_id, scan, tries>>
-----------------------------------------------------------------------------
(* e1000_determine_phy_address; its caller's second attempt and re-reading. *)

\* The loop sets hw->phy.addr once for each address; the BM routines set it again.
SetAddr ==
    /\ stage \in {"igp", "bm"}
    /\ reading = "none"
    /\ tries = 0
    /\ phy_addr # scan
    /\ Configure(kind, scan)
    /\ UNCHANGED ident

\* An id that is known ends the scan, whatever the last read returned.
Found ==
    /\ reading = "look"
    /\ stage \in {"igp", "bm"}
    /\ phy_type # "unknown"
    /\ stage' = "reread"
    /\ phy_id' = Zero
    /\ tries' = 0
    /\ reading' = "none"
    /\ UNCHANGED <<vars, scan, missed>>

Again ==
    /\ reading = "look"
    /\ phy_type = "unknown"
    /\ stage = "reread" => ret_val = "success"
    /\ tries + 1 < IF stage = "reread" THEN Rereads ELSE Tries
    /\ tries' = tries + 1
    /\ reading' = "none"
    /\ UNCHANGED <<vars, stage, phy_id, scan, missed>>

NextAddress ==
    /\ reading = "look"
    /\ stage \in {"igp", "bm"}
    /\ phy_type = "unknown"
    /\ tries + 1 = Tries
    /\ scan + 1 < E1000_MAX_PHY_ADDR
    /\ scan' = scan + 1
    /\ tries' = 0
    /\ reading' = "none"
    /\ UNCHANGED <<vars, stage, phy_id, missed>>

\* No address answered the IGP routines: all over again with those of the BM.
ScanAsBm ==
    /\ reading = "look"
    /\ stage = "igp"
    /\ phy_type = "unknown"
    /\ tries + 1 = Tries
    /\ scan + 1 = E1000_MAX_PHY_ADDR
    /\ Configure("bm", phy_addr)
    /\ stage' = "bm"
    /\ scan' = 0
    /\ tries' = 0
    /\ reading' = "none"
    /\ UNCHANGED <<phy_id, missed>>

\* Neither routines, or an error or nothing known at the address that was found.
NotFound ==
    /\ reading = "look"
    /\ phy_type = "unknown"
    /\ \/ stage = "bm" /\ tries + 1 = Tries /\ scan + 1 = E1000_MAX_PHY_ADDR
       \/ stage = "reread" /\ (ret_val = "error" \/ tries + 1 = Rereads)
    /\ stage' = "failed"
    /\ reading' = "none"
    /\ UNCHANGED <<vars, phy_id, scan, tries, missed>>

\* Mutant of the step below: the routines the scan ended with are kept.
VerifiedKeeps ==
    /\ reading = "look"
    /\ stage = "reread"
    /\ phy_type # "unknown"
    /\ IF phy_type \in {"igp_3", "ife", "bm"} THEN stage' = "up" ELSE stage' = "failed"
    /\ reading' = "none"
    /\ UNCHANGED <<vars, phy_id, scan, tries, missed>>

\* The switch: only these PHYs are supported, and only the BM has routines of its own.
Verified ==
    /\ reading = "look"
    /\ stage = "reread"
    /\ phy_type # "unknown"
    /\ IF phy_type \in {"igp_3", "ife", "bm"} THEN stage' = "up" ELSE stage' = "failed"
    /\ Configure(IF phy_type = "bm" THEN "bm" ELSE kind, phy_addr)
    /\ reading' = "none"
    /\ scan' = 0
    /\ tries' = 0
    /\ missed' = FALSE
    /\ UNCHANGED phy_id

Identify ==
    \/ GetPhyId \/ GotId1 \/ GotId2 \/ IdFails
    \/ SetAddr \/ Found \/ Again \/ NextAddress \/ ScanAsBm \/ NotFound \/ Verified

IdNext ==
    \/ Identify
    \/ stage = "up" /\ (\E o \in Ops(kind) : Begin(o)) /\ UNCHANGED ident
    \/ (AccessStep \/ Firmware) /\ UNCHANGED ident

IdSpec == IdInit /\ [][IdNext]_allvars
-----------------------------------------------------------------------------
(* Properties.                                                             *)

HasId(a, id) == mem[<<a, 0, PHY_ID1>>] = id /\ mem[<<a, 0, PHY_ID2>>] = id

\* A PHY that was accepted answers at hw->phy.addr, and has the routines of its kind: halves of
\* ids read at different addresses or left from a failed read are never put together.
RightPhy ==
    stage = "up" /\ phy_id # Zero =>
        /\ kind = "igp" => HasId(phy_addr, phy_type)
        /\ kind = "bm" <=> phy_type = "bm"

\* If no read of an id failed, a PHY the driver supports is found wherever it is.
FoundUnlessMissed ==
    stage = "failed" /\ ~missed =>
        \A a \in 0 .. E1000_MAX_PHY_ADDR - 1 : \A id \in {"igp_3", "ife", "bm"} : ~HasId(a, id)

\* Where the routines find the id: those of a BM choose the address themselves.
At == IF kind = "bm" THEN 2 ELSE phy_addr

Known(a) == \E id \in PhyIds : HasId(a, id)

\* During the scan only ids are read, and the loop's address is the one that is read.
ScanFits ==
    /\ stage \in {"igp", "bm", "reread", "up", "failed"}
    /\ reading \in {"none", "id1", "id2", "look"}
    /\ scan \in 0 .. E1000_MAX_PHY_ADDR - 1
    /\ tries \in Nat
    /\ missed \in BOOLEAN
    /\ reading # "none" => stage \in {"igp", "bm", "reread"}
    /\ stage # "up" =>
          /\ kind \in {"igp", "bm"} /\ (stage \in {"igp", "bm"} => kind = stage)
          /\ ~ignored
          /\ mem \in PowerUp["igp"]
          /\ pc \in {"idle", "acquire", "data", "release"}
          /\ reading \in {"none", "look"} => pc = "idle"
          /\ reading = "id1" /\ pc # "idle" => op = ReadOf(PHY_ID1)
          /\ reading = "id2" /\ pc # "idle" => op = ReadOf(PHY_ID2)
          /\ stage = "igp" /\ (reading # "none" \/ tries > 0) => phy_addr = scan

\* The halves of phy_id are those of one address, or zero.
ReadFits ==
    /\ phy_id \in [id1 : Values \cup {"zero"}, id2 : Values \cup {"zero"}]
    /\ reading = "id1" /\ pc = "idle" /\ ret_val = "success" => data = mem[<<At, 0, PHY_ID1>>]
    /\ reading = "id2" => phy_id = [id1 |-> mem[<<At, 0, PHY_ID1>>], id2 |-> "zero"]
    /\ reading = "id2" /\ pc = "idle" /\ ret_val = "success" => data = mem[<<At, 0, PHY_ID2>>]
    /\ reading = "look" /\ ~missed =>
          /\ phy_id = [id1 |-> mem[<<At, 0, PHY_ID1>>], id2 |-> mem[<<At, 0, PHY_ID2>>]]
          /\ ret_val = "success"
    /\ stage = "reread" =>
          /\ phy_id.id1 \in {"zero", mem[<<At, 0, PHY_ID1>>]}
          /\ phy_id.id2 \in {"zero", mem[<<At, 0, PHY_ID2>>]}

\* What the scan has seen so far, if no read failed.
FoundFits ==
    ~missed =>
        /\ stage = "igp" => \A a \in 0 .. scan - 1 : ~Known(a)
        /\ stage = "bm" => \A a \in 0 .. E1000_MAX_PHY_ADDR - 1 : ~Known(a)
        /\ stage = "reread" => Known(At)

\* The inductive invariant.
IdInv ==
    IInv /\ ScanFits /\ ReadFits /\ FoundFits /\ RightPhy /\ FoundUnlessMissed
=============================================================================
