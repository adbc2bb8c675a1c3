----------------------------- MODULE AtLeastOnce -----------------------------
(***************************************************************************)
(* What a mediator session promises about a stored message: it is handed   *)
(* off at least once, and the mediator lets go of it only after a hand-off *)
(* has ended, unless the message is one the client refuses for good.       *)
(***************************************************************************)
CONSTANTS Messages, Refusable

VARIABLES
    sent,    \* messages the mediator has accepted for the client
    held,    \* those it still holds
    done     \* those whose hand-off has come to an end, once or more often

vars == <<sent, held, done>>

Init == sent = {} /\ held = {} /\ done = {}

Send(m) ==
    /\ m \notin sent
    /\ sent' = sent \cup {m} /\ held' = held \cup {m}
    /\ UNCHANGED done

\* Only what was sent is handed off; a second hand-off is allowed, and stutters.
HandOff(m) ==
    /\ m \in sent
    /\ done' = done \cup {m}
    /\ UNCHANGED <<sent, held>>

Release(m) ==
    /\ m \in held /\ (m \in done \/ m \in Refusable)
    /\ held' = held \ {m}
    /\ UNCHANGED <<sent, done>>

Next == \E m \in Messages : Send(m) \/ HandOff(m) \/ Release(m)

Spec == Init /\ [][Next]_vars
=============================================================================
