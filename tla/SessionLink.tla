----------------------------- MODULE SessionLink -----------------------------
(***************************************************************************)
(* What a MediatorSession promises the callers that wait on it, whatever   *)
(* becomes of its sockets, timers and events: the session is live or it is *)
(* not, and no call that waits while it ends is left waiting.              *)
(*                                                                         *)
(* MediatorSession and VtaClient keep a socket as one flag that a single   *)
(* step lowers while it fails every waiter: MediatorConnection, which      *)
(* implements this module event by event, is why they may.  They follow it *)
(* too, MediatorSession but for the restart of its host, which takes the   *)
(* callers along.                                                          *)
(***************************************************************************)
EXTENDS FiniteSets

CONSTANT Calls

VARIABLES
    live,       \* an open socket is there to send on
    pending     \* the calls that wait for a reply

vars == <<live, pending>>

Init == live = FALSE /\ pending = {}

Open == ~live /\ live' = TRUE /\ UNCHANGED pending

(* However it ends: the mediator drops it, an error, close(). *)
End == live /\ live' = FALSE /\ pending' = {}

(* The waiters may also be failed while it goes on, or after it has ended. *)
Fail == pending # {} /\ pending' = {} /\ UNCHANGED live

Wait(c) == c \notin pending /\ pending' = pending \cup {c} /\ UNCHANGED live

Settle(c) == c \in pending /\ pending' = pending \ {c} /\ UNCHANGED live

Next == Open \/ End \/ Fail \/ \E c \in Calls : Wait(c) \/ Settle(c)

Spec == Init /\ [][Next]_vars
=============================================================================
