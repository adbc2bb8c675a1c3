------------------------- MODULE MediatorConnection -------------------------
(***************************************************************************)
(* The socket's life in a MediatorSession (src/src/mediator-transport.js):   *)
(* connect() and its settle-once promise, the connect timer, the four        *)
(* WebSocket events, close(), the waiters they fail and the onClose          *)
(* callback.  Each connect() call has a socket of its own; the session keeps *)
(* the last one in this.ws, and the handlers of every one share the waiters. *)
(***************************************************************************)
EXTENDS Naturals, FiniteSets

CONSTANTS
    Connects,     \* bound: connect() calls on one session
    Calls,        \* bound: waitFor() calls
    HasTimer,     \* connectTimeoutMs > 0
    None

ASSUME ConnectionAssumption == HasTimer \in BOOLEAN /\ None \notin Connects

VARIABLES
    ws,           \* this.ws: the connect() call whose socket it holds, or None
    socket,       \* each socket's readyState, or "none"
    settled,      \* _openSocket's flag, per socket
    conn,         \* where each connect() promise stands
    userClosed,   \* _userClosed
    waiter,       \* where each waitFor() promise stands
    opened,       \* history: sockets that have opened
    notified      \* history: sockets whose close called onClose

vars == <<ws, socket, settled, conn, userClosed, waiter, opened, notified>>
history == <<opened, notified>>

Init ==
    /\ ws = None
    /\ socket = [n \in Connects |-> "none"]
    /\ settled = [n \in Connects |-> FALSE]
    /\ conn = [n \in Connects |-> "idle"]
    /\ userClosed = FALSE
    /\ waiter = [c \in Calls |-> "idle"]
    /\ opened = {} /\ notified = {}

-----------------------------------------------------------------------------
(* Callers use a session serially: they connect again only after the last    *)
(* connect() has settled and its socket is going or gone.                    *)
isAlive(n) == socket[n] \in {"connecting", "open"}
isLive == ws # None /\ socket[ws] = "open"
isPending(n) == conn[n] \in {"opening", "packing"}
mayConnect(n) == conn[n] = "idle" /\ \A m \in Connects : ~isPending(m) /\ ~isAlive(m)

\* connect(): the endpoint is unsafe, or no socket can be made.
ConnectRefused(n) ==
    /\ mayConnect(n)
    /\ conn' = [conn EXCEPT ![n] = "rejected"]
    /\ UNCHANGED <<ws, socket, settled, userClosed, waiter, history>>

\* connect(), up to the events of its new socket.
Connect(n) ==
    /\ mayConnect(n)
    /\ ws' = n
    /\ socket' = [socket EXCEPT ![n] = "connecting"]
    /\ conn' = [conn EXCEPT ![n] = "opening"]
    /\ UNCHANGED <<settled, userClosed, waiter, history>>

\* settleConnect(fn): the promise moves on the first time only.
settleConnect(n, state) ==
    /\ settled' = [settled EXCEPT ![n] = TRUE]
    /\ conn' = IF settled[n] THEN conn ELSE [conn EXCEPT ![n] = state]

rejectAll == [c \in Calls |-> IF waiter[c] = "waiting" THEN "rejected" ELSE waiter[c]]

\* ws.onopen: connect() goes on to pack its live-delivery change.
OnOpen(n) ==
    /\ socket[n] = "connecting"
    /\ socket' = [socket EXCEPT ![n] = "open"]
    /\ settleConnect(n, "packing")
    /\ opened' = opened \cup {n}
    /\ UNCHANGED <<ws, userClosed, waiter, notified>>

\* connect(), after pack: this.ws.send.  A TypeError once close() has let the
\* socket go; a socket that has closed by itself discards what it is given.
LiveDeliverySent(n) ==
    /\ conn[n] = "packing"
    /\ conn' = [conn EXCEPT ![n] = IF ws = None THEN "rejected" ELSE "resolved"]
    /\ UNCHANGED <<ws, socket, settled, userClosed, waiter, history>>

\* The connect timer, which settling clears: reject, then ws.close().
ConnectTimeout(n) ==
    /\ HasTimer /\ conn[n] = "opening" /\ ~settled[n]
    /\ settleConnect(n, "rejected")
    /\ socket' = [socket EXCEPT ![n] = IF isAlive(n) THEN "closing" ELSE @]
    /\ UNCHANGED <<ws, userClosed, waiter, history>>

\* Mutant: an error before the open settles the flag and nothing else.
OnErrorSettles(n) ==
    /\ socket[n] \in {"connecting", "open", "closing"}
    /\ settled' = [settled EXCEPT ![n] = TRUE]
    /\ waiter' = IF settled[n] THEN rejectAll ELSE waiter
    /\ UNCHANGED <<ws, socket, conn, userClosed, history>>

\* ws.onerror: before the promise has settled, the close event is awaited.
OnError(n) ==
    /\ socket[n] \in {"connecting", "open", "closing"}
    /\ settled[n] /\ waiter' = rejectAll
    /\ UNCHANGED <<ws, socket, settled, conn, userClosed, history>>

\* Mutant: the close of an open socket leaves the waiters to their timers.
OnCloseKeepsWaiters(n) ==
    /\ socket[n] \in {"connecting", "open", "closing"}
    /\ socket' = [socket EXCEPT ![n] = "closed"]
    /\ settleConnect(n, "rejected")
    /\ notified' = IF settled[n] /\ ~userClosed THEN notified \cup {n} ELSE notified
    /\ UNCHANGED <<ws, userClosed, waiter, opened>>

\* Mutant: nobody waiting, nothing to tell.
OnCloseQuietWhenIdle(n) ==
    /\ socket[n] \in {"connecting", "open", "closing"}
    /\ socket' = [socket EXCEPT ![n] = "closed"]
    /\ settleConnect(n, "rejected")
    /\ IF settled[n] /\ \E c \in Calls : waiter[c] = "waiting"
       THEN /\ waiter' = rejectAll
            /\ notified' = IF userClosed THEN notified ELSE notified \cup {n}
       ELSE UNCHANGED <<waiter, notified>>
    /\ UNCHANGED <<ws, userClosed, opened>>

\* ws.onclose: the connect() it settles, or else the waiters and onClose.
OnClose(n) ==
    /\ socket[n] \in {"connecting", "open", "closing"}
    /\ socket' = [socket EXCEPT ![n] = "closed"]
    /\ settleConnect(n, "rejected")
    /\ IF settled[n]
       THEN /\ waiter' = rejectAll
            /\ notified' = IF userClosed THEN notified ELSE notified \cup {n}
       ELSE UNCHANGED <<waiter, notified>>
    /\ UNCHANGED <<ws, userClosed, opened>>

\* Mutant: close() forgets the socket without closing it.
CloseForgets ==
    /\ userClosed' = TRUE /\ ws' = None
    /\ waiter' = rejectAll
    /\ UNCHANGED <<socket, settled, conn, opened, notified>>

\* close()
Close ==
    /\ ws # None \/ ~userClosed \/ \E c \in Calls : waiter[c] = "waiting"
    /\ userClosed' = TRUE /\ ws' = None
    /\ waiter' = rejectAll
    /\ socket' = [n \in Connects |-> IF n = ws /\ isAlive(n) THEN "closing" ELSE socket[n]]
    /\ UNCHANGED <<settled, conn, opened, notified>>

\* waitFor() that finds nothing buffered: it waits, whatever the socket's state.
WaitFor(c) ==
    /\ waiter[c] = "idle"
    /\ waiter' = [waiter EXCEPT ![c] = "waiting"]
    /\ UNCHANGED <<ws, socket, settled, conn, userClosed, history>>

\* A reply comes in, or the waiter's timer fires.
WaiterDone(c) ==
    /\ waiter[c] = "waiting"
    /\ \/ isLive /\ waiter' = [waiter EXCEPT ![c] = "resolved"]
       \/ waiter' = [waiter EXCEPT ![c] = "rejected"]
    /\ UNCHANGED <<ws, socket, settled, conn, userClosed, history>>

Next ==
    \/ \E n \in Connects :
          \/ ConnectRefused(n) \/ Connect(n) \/ OnOpen(n) \/ LiveDeliverySent(n)
          \/ ConnectTimeout(n) \/ OnError(n) \/ OnClose(n)
    \/ Close
    \/ \E c \in Calls : WaitFor(c) \/ WaiterDone(c)

Spec == Init /\ [][Next]_vars

(* Fairness: the session's own timers fire and its own awaits resume.  None   *)
(* is assumed of the socket: an upgrade may hang without any event.           *)
FairSpec ==
    Spec /\ \A n \in Connects : WF_vars(ConnectTimeout(n)) /\ WF_vars(LiveDeliverySent(n))

-----------------------------------------------------------------------------
(* Properties.                                                               *)

(* Types; and _openSocket's settled flag says exactly that its promise has    *)
(* moved on, so that a later event fails the waiters and not connect() again. *)
TypeOK ==
    /\ ws \in Connects \cup {None}
    /\ socket \in [Connects -> {"none", "connecting", "open", "closing", "closed"}]
    /\ settled \in [Connects -> BOOLEAN]
    /\ conn \in [Connects -> {"idle", "opening", "packing", "resolved", "rejected"}]
    /\ userClosed \in BOOLEAN
    /\ waiter \in [Calls -> {"idle", "waiting", "resolved", "rejected"}]
    /\ opened \subseteq Connects /\ notified \subseteq Connects
    /\ \A n \in Connects : socket[n] # "none" => (settled[n] <=> conn[n] # "opening")

(* Once close() has run, and until connect() is called again, no socket of    *)
(* the session is left open or opening, whatever connect() was doing then.    *)
CloseLeavesNothingAlive ==
    ws = None => \A n \in Connects : ~isAlive(n)

(* As long as close() has never been called, every socket that opened and     *)
(* dropped has been reported through onClose, whoever waits and whatever the  *)
(* sockets of other connect() calls have done or are doing.  (Afterwards none  *)
(* is: nothing resets _userClosed, on a session connected again either.)      *)
DropsReportedUntilClose ==
    ~userClosed => \A n \in opened : socket[n] = "closed" => n \in notified

(* onClose is not fired for a socket that never opened.  (mediator-transport  *)
(* lines 411-413: "after a successful open, not via close()".)                *)
OnCloseOnlyAfterOpen == notified \subseteq opened

(* connect() always settles, also when the upgrade hangs without an event:    *)
(* the timer sees to it, and no error or close() can disarm it.               *)
ConnectSettles == HasTimer => \A n \in Connects : isPending(n) ~> ~isPending(n)

(* The session its callers see (SessionLink): whichever event ends it, and    *)
(* however the events of a former socket or of an unfinished connect() fall   *)
(* beside it, the step that ends it fails every caller that waits, at once    *)
(* and not at its timeout; and opening it again fails nobody.                 *)
Link == INSTANCE SessionLink
            WITH live <- isLive, pending <- {c \in Calls : waiter[c] = "waiting"}

LinkSpec == Link!Spec
=============================================================================
