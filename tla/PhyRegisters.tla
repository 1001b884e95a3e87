---------------------------- MODULE PhyRegisters ----------------------------
(***************************************************************************)
(* What the register accesses of a PHY promise to the code above them: a   *)
(* memory with one access at a time.  A write that succeeded is in the     *)
(* register asked for, no other register has changed, and a read that      *)
(* succeeded returns what is there; an access that returns an error may    *)
(* have been done or not.  Once an error of the management bus has been    *)
(* ignored nothing is promised any more.                                   *)
(***************************************************************************)
CONSTANTS Locations, Values

VARIABLES file,      \* the registers
          busy,      \* is there an access under way
          call,      \* which: [read, at, val]
          data,      \* the caller's word
          ok,        \* has an access returned with success
          reliable   \* no error has been ignored so far

vars == <<file, busy, call, data, ok, reliable>>

Init ==
    /\ file \in [Locations -> Values]
    /\ busy = FALSE
    /\ ok = FALSE
    /\ reliable = TRUE

Call ==
    /\ ~busy
    /\ busy' = TRUE
    /\ call'.val \in Values
    /\ ok' = FALSE
    /\ UNCHANGED <<file, reliable>>

Write ==
    /\ busy
    /\ ~call.read
    /\ file' = [file EXCEPT ![call.at] = call.val]
    /\ UNCHANGED <<busy, call, data, ok, reliable>>

Read ==
    /\ busy
    /\ call.read
    /\ call.at \in Locations => data' = file[call.at]
    /\ UNCHANGED <<file, busy, call, ok, reliable>>

Done ==
    call.at \in Locations =>
        IF call.read THEN data = file[call.at] ELSE file[call.at] = call.val

Return(success) ==
    /\ busy
    /\ success => Done
    /\ busy' = FALSE
    /\ ok' = success
    /\ UNCHANGED <<file, data, reliable>>

Ignore == reliable /\ ~reliable'

AfterIgnored == ~reliable /\ ~reliable'

Next ==
    \/ Call
    \/ Write
    \/ Read
    \/ \E success \in BOOLEAN : Return(success)
    \/ Ignore
    \/ AfterIgnored

Spec == Init /\ [][Next]_vars
=============================================================================
