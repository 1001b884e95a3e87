------------------------------ MODULE TxQueue ------------------------------
(***************************************************************************)
(* What the transmit side of the driver promises the network stack: the    *)
(* packets it accepts are sent in the order they were accepted, and a      *)
(* packet is given back (freed) only after it was sent, oldest first.      *)
(* Taking the interface down forgets everything.  A driver whose ring was  *)
(* overrun has broken the promise and owes nothing more.                   *)
(***************************************************************************)
CONSTANT Packets

VARIABLES owed,     \* packets accepted and not given back
          before,   \* the pairs of them of which the first was accepted first
          sent,     \* those on the wire
          broken    \* the ring has been overrun

vars == <<owed, before, sent, broken>>

Init == owed = {} /\ before = {} /\ sent = {} /\ broken = FALSE

Accept(p) ==
    /\ ~broken
    /\ p \notin owed
    /\ owed' = owed \cup {p}
    /\ before' = before \cup (owed \X {p})
    /\ UNCHANGED <<sent, broken>>

\* The oldest that is not on the wire yet.
Send(p) ==
    /\ p \in owed \ sent
    /\ \A q \in owed : <<q, p>> \in before => q \in sent
    /\ sent' = sent \cup {p}
    /\ UNCHANGED <<owed, before, broken>>

\* The oldest, which must have been sent.
GiveBack(p) ==
    /\ p \in sent
    /\ \A q \in owed : <<q, p>> \notin before
    /\ owed' = owed \ {p}
    /\ before' = before \ ({p} \X owed)
    /\ sent' = sent \ {p}
    /\ UNCHANGED broken

Forget ==
    /\ owed' = {}
    /\ before' = {}
    /\ sent' = {}
    /\ UNCHANGED broken

Break == owed' = {} /\ before' = {} /\ sent' = {} /\ broken' = TRUE

Next == (\E p \in Packets : Accept(p) \/ Send(p) \/ GiveBack(p)) \/ Forget \/ Break

Spec == Init /\ [][Next]_vars
=============================================================================
