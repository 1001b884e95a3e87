------------------------------ MODULE RxQueue ------------------------------
(***************************************************************************)
(* What the receive side promises: the frames the adapter has stored are   *)
(* handed to the network stack unchanged, in order, each at most once;     *)
(* damaged ones are dropped in their turn.  No more than Capacity frames   *)
(* wait.  A driver that failed to get a buffer, or its address, owes       *)
(* nothing more.                                                           *)
(***************************************************************************)
EXTENDS Naturals, Sequences

CONSTANTS Frames, Damaged, Capacity,
          Blank        \* nothing handed over yet; what a broken driver may hand over

VARIABLES backlog,     \* stored and not yet handed over, oldest first
          delivered,   \* the last frame handed to the stack
          broken       \* a buffer or its address could not be had

vars == <<backlog, delivered, broken>>

Init == backlog = <<>> /\ delivered = Blank /\ broken = FALSE

Store(f) ==
    /\ ~broken
    /\ Len(backlog) < Capacity
    /\ backlog' = Append(backlog, f)
    /\ UNCHANGED <<delivered, broken>>

Deliver ==
    /\ backlog # <<>>
    /\ Head(backlog) # Damaged
    /\ delivered' = Head(backlog)
    /\ backlog' = Tail(backlog)
    /\ UNCHANGED broken

Drop ==
    /\ backlog # <<>>
    /\ Head(backlog) = Damaged
    /\ backlog' = Tail(backlog)
    /\ UNCHANGED <<delivered, broken>>

Forget == backlog' = <<>> /\ UNCHANGED <<delivered, broken>>

Break == backlog' = <<>> /\ broken' = TRUE /\ delivered' \in Frames \cup {Blank}

Next == (\E f \in Frames \cup {Damaged} : Store(f)) \/ Deliver \/ Drop \/ Forget \/ Break

Spec == Init /\ [][Next]_vars
=============================================================================
