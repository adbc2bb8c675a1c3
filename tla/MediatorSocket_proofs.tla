------------------------ MODULE MediatorSocket_proofs ------------------------
(* Theorems about a session's socket.  Its connection (MediatorConnection), for  *)
(* any number of connect() and waitFor() calls, with and without the connect     *)
(* timer.  And the TSP messages it carries (TspFrame), of any size: whatever the *)
(* count code and the body of one, the text it arrives in is recognised, and     *)
(* decoding it gives back the bytes that were sent.                              *)
EXTENDS MediatorConnection, TspFrame, TLAPS

-----------------------------------------------------------------------------
(* MediatorConnection: the inductive invariant.                                *)

\* A connect() that was not made has no socket and nothing settled; a socket that
\* is opening has not opened; and one that is open has settled its promise.
SocketStages ==
    \A n \in Connects :
        /\ conn[n] = "idle" => socket[n] = "none" /\ n \notin opened /\ ~settled[n]
        /\ socket[n] = "connecting" => n \notin opened
        /\ socket[n] = "open" => settled[n]

\* Only the session's own socket is ever alive.
OneSocket == \A n \in Connects : isAlive(n) => ws = n

\* Before any close(), a socket that has opened is open, or its drop is reported.
DropsAccounted ==
    ~userClosed => \A n \in opened : socket[n] # "open" => n \in notified

ConnectionInv == TypeOK /\ SocketStages /\ OneSocket /\ DropsAccounted

LEMMA ConnectionInit == Init => ConnectionInv
BY ConnectionAssumption
   DEF Init, ConnectionInv, TypeOK, SocketStages, OneSocket, DropsAccounted, isAlive

LEMMA ConnectionStep == ConnectionInv /\ [Next]_vars => ConnectionInv'
<1> SUFFICES ASSUME ConnectionInv, [Next]_vars PROVE ConnectionInv'
  OBVIOUS
<1> USE ConnectionAssumption DEF ConnectionInv, history
<1>1. ASSUME NEW n \in Connects, ConnectRefused(n) PROVE ConnectionInv'
  <2>1. TypeOK'
    BY <1>1 DEF ConnectRefused, mayConnect, TypeOK, SocketStages
  <2>2. SocketStages' /\ OneSocket' /\ DropsAccounted'
    BY <1>1 DEF ConnectRefused, mayConnect, TypeOK, SocketStages, OneSocket, DropsAccounted, isAlive
  <2> QED BY <2>1, <2>2
<1>2. ASSUME NEW n \in Connects, Connect(n) PROVE ConnectionInv'
  <2>1. TypeOK'
    BY <1>2 DEF Connect, mayConnect, TypeOK, SocketStages
  <2>2. SocketStages' /\ OneSocket'
    BY <1>2 DEF Connect, mayConnect, TypeOK, SocketStages, OneSocket, isAlive
  <2>3. DropsAccounted'
    BY <1>2 DEF Connect, mayConnect, TypeOK, SocketStages, DropsAccounted, isAlive
  <2> QED BY <2>1, <2>2, <2>3
<1>3. ASSUME NEW n \in Connects, OnOpen(n) PROVE ConnectionInv'
  <2>1. TypeOK'
    BY <1>3 DEF OnOpen, settleConnect, TypeOK, SocketStages
  <2>2. SocketStages' /\ OneSocket'
    BY <1>3 DEF OnOpen, settleConnect, TypeOK, SocketStages, OneSocket, isAlive
  <2>3. DropsAccounted'
    BY <1>3 DEF OnOpen, settleConnect, TypeOK, SocketStages, DropsAccounted, isAlive
  <2> QED BY <2>1, <2>2, <2>3
<1>4. ASSUME NEW n \in Connects, LiveDeliverySent(n) PROVE ConnectionInv'
  <2>1. TypeOK'
    BY <1>4 DEF LiveDeliverySent, TypeOK, SocketStages
  <2>2. SocketStages' /\ OneSocket' /\ DropsAccounted'
    BY <1>4 DEF LiveDeliverySent, TypeOK, SocketStages, OneSocket, DropsAccounted, isAlive
  <2> QED BY <2>1, <2>2
<1>5. ASSUME NEW n \in Connects, ConnectTimeout(n) PROVE ConnectionInv'
  <2>1. TypeOK'
    BY <1>5 DEF ConnectTimeout, settleConnect, TypeOK, SocketStages
  <2>2. SocketStages' /\ OneSocket'
    BY <1>5 DEF ConnectTimeout, settleConnect, TypeOK, SocketStages, OneSocket, isAlive
  <2>3. DropsAccounted'
    BY <1>5 DEF ConnectTimeout, settleConnect, TypeOK, SocketStages, DropsAccounted, isAlive
  <2> QED BY <2>1, <2>2, <2>3
<1>6. ASSUME NEW n \in Connects, OnError(n) PROVE ConnectionInv'
  BY <1>6 DEF OnError, rejectAll, TypeOK, SocketStages, OneSocket, DropsAccounted, isAlive
<1>7. ASSUME NEW n \in Connects, OnClose(n) PROVE ConnectionInv'
  <2>1. TypeOK'
    BY <1>7 DEF OnClose, settleConnect, rejectAll, TypeOK, SocketStages
  <2>2. SocketStages' /\ OneSocket'
    BY <1>7 DEF OnClose, settleConnect, TypeOK, SocketStages, OneSocket, isAlive
  <2>3. DropsAccounted'
    BY <1>7 DEF OnClose, settleConnect, TypeOK, SocketStages, DropsAccounted, isAlive
  <2> QED BY <2>1, <2>2, <2>3
<1>8. ASSUME Close PROVE ConnectionInv'
  <2>1. TypeOK'
    BY <1>8 DEF Close, rejectAll, isAlive, TypeOK
  <2>2. SocketStages' /\ OneSocket'
    BY <1>8 DEF Close, TypeOK, SocketStages, OneSocket, isAlive
  <2>3. DropsAccounted'
    BY <1>8 DEF Close, TypeOK, OneSocket, DropsAccounted, isAlive
  <2> QED BY <2>1, <2>2, <2>3
<1>9. ASSUME NEW c \in Calls, WaitFor(c) \/ WaiterDone(c) PROVE ConnectionInv'
  BY <1>9 DEF WaitFor, WaiterDone, TypeOK, SocketStages, OneSocket, DropsAccounted, isAlive
<1>10. CASE UNCHANGED vars
  BY <1>10 DEF vars, TypeOK, SocketStages, OneSocket, DropsAccounted, isAlive
<1> QED
  BY <1>1, <1>2, <1>3, <1>4, <1>5, <1>6, <1>7, <1>8, <1>9, <1>10 DEF Next

LEMMA ConnectionInvariant == Spec => []ConnectionInv
BY ConnectionInit, ConnectionStep, PTL DEF Spec

-----------------------------------------------------------------------------
(* What follows from it.                                                       *)

(* The variables keep their types, and _openSocket's settled flag says exactly *)
(* that its promise has moved on.                                              *)
THEOREM ConnectionTypes == Spec => []TypeOK
<1>1. ConnectionInv => TypeOK
  BY DEF ConnectionInv
<1> QED BY <1>1, ConnectionInvariant, PTL

(* After close() no socket is left open or opening, whenever it comes: not one *)
(* whose upgrade is still on its way, nor one that a timer has given up.       *)
THEOREM CloseClosesAll == Spec => []CloseLeavesNothingAlive
<1>1. ConnectionInv => CloseLeavesNothingAlive
  BY ConnectionAssumption DEF ConnectionInv, OneSocket, CloseLeavesNothingAlive
<1> QED BY <1>1, ConnectionInvariant, PTL

(* On a session whose close() has never been called, the drop of every socket  *)
(* that had opened reaches onClose.  (After a close() none does: _userClosed is *)
(* never reset.)                                                               *)
THEOREM DropsAreReported == Spec => []DropsReportedUntilClose
<1>1. ConnectionInv => DropsReportedUntilClose
  BY DEF ConnectionInv, DropsAccounted, DropsReportedUntilClose
<1> QED BY <1>1, ConnectionInvariant, PTL

-----------------------------------------------------------------------------
(* The refinement of SessionLink.                                              *)

Waiting == {c \in Calls : waiter[c] = "waiting"}

LEMMA LinkInit == Init => Link!Init
BY DEF Init, Link!Init, isLive

\* A step that touches neither this.ws, nor an open socket, nor a waiter.
LEMMA LinkStutter ==
    ASSUME isLive' = isLive, waiter' = waiter
    PROVE  [Link!Next]_(Link!vars)
BY DEF Link!vars

\* A step that fails all the waiters, and does not open the session.
LEMMA LinkFails ==
    ASSUME isLive' => isLive, Waiting' = {}
    PROVE  [Link!Next]_(Link!vars)
<1>1. CASE isLive /\ ~isLive'
  <2>1. Link!End
    BY <1>1 DEF Link!End, Waiting
  <2> QED BY <2>1 DEF Link!Next
<1>2. CASE isLive' = isLive
  <2>1. CASE Waiting = {}
    BY <1>2, <2>1 DEF Link!vars, Waiting
  <2>2. CASE Waiting # {}
    <3>1. Link!Fail
      BY <1>2, <2>2 DEF Link!Fail, Waiting
    <3> QED BY <3>1 DEF Link!Next
  <2> QED BY <2>1, <2>2
<1> QED BY <1>1, <1>2 DEF isLive

LEMMA LinkStep == ConnectionInv /\ [Next]_vars => [Link!Next]_(Link!vars)
<1> SUFFICES ASSUME ConnectionInv, [Next]_vars PROVE [Link!Next]_(Link!vars)
  OBVIOUS
<1>a. TypeOK /\ SocketStages /\ OneSocket
  BY DEF ConnectionInv
<1>1. ASSUME NEW n \in Connects, ConnectRefused(n) \/ LiveDeliverySent(n)
      PROVE  [Link!Next]_(Link!vars)
  BY <1>1, LinkStutter DEF ConnectRefused, LiveDeliverySent, isLive
<1>2. ASSUME NEW n \in Connects, Connect(n) PROVE [Link!Next]_(Link!vars)
  <2>1. ~isLive /\ ~isLive' /\ waiter' = waiter
    BY <1>2, <1>a DEF Connect, mayConnect, isAlive, isLive, TypeOK
  <2> QED BY <2>1, LinkStutter DEF isLive
<1>3. ASSUME NEW n \in Connects, OnOpen(n) PROVE [Link!Next]_(Link!vars)
  <2>1. ws = n /\ ws # None
    BY <1>3, <1>a, ConnectionAssumption DEF OnOpen, OneSocket, isAlive
  <2>2. ~isLive /\ isLive' /\ waiter' = waiter
    BY <1>3, <1>a, <2>1 DEF OnOpen, isLive, TypeOK
  <2>3. Link!Open
    BY <2>2 DEF Link!Open
  <2> QED BY <2>3 DEF Link!Next
<1>4. ASSUME NEW n \in Connects, ConnectTimeout(n) PROVE [Link!Next]_(Link!vars)
  <2>1. socket[n] # "open"
    BY <1>4, <1>a DEF ConnectTimeout, SocketStages
  <2>2. isLive' = isLive /\ waiter' = waiter
    BY <1>4, <1>a, <2>1 DEF ConnectTimeout, isLive, TypeOK
  <2> QED BY <2>2, LinkStutter
<1>5. ASSUME NEW n \in Connects, OnError(n) PROVE [Link!Next]_(Link!vars)
  <2>1. isLive' = isLive /\ Waiting' = {}
    BY <1>5, <1>a DEF OnError, rejectAll, isLive, Waiting, TypeOK
  <2> QED BY <2>1, LinkFails
<1>6. ASSUME NEW n \in Connects, OnClose(n) PROVE [Link!Next]_(Link!vars)
  <2>1. isLive' => isLive
    BY <1>6, <1>a DEF OnClose, isLive, TypeOK
  <2>2. CASE settled[n]
    <3>1. Waiting' = {}
      BY <1>6, <1>a, <2>2 DEF OnClose, rejectAll, Waiting, TypeOK
    <3> QED BY <2>1, <3>1, LinkFails
  <2>3. CASE ~settled[n]
    <3>1. socket[n] # "open" /\ waiter' = waiter
      BY <1>6, <1>a, <2>3 DEF OnClose, SocketStages
    <3>2. isLive' = isLive
      BY <1>6, <1>a, <3>1 DEF OnClose, isLive, TypeOK
    <3> QED BY <3>1, <3>2, LinkStutter
  <2> QED BY <2>2, <2>3
<1>7. ASSUME Close PROVE [Link!Next]_(Link!vars)
  <2>1. ~isLive' /\ Waiting' = {}
    BY <1>7, <1>a DEF Close, rejectAll, isLive, Waiting, TypeOK
  <2> QED BY <2>1, LinkFails
<1>8. ASSUME NEW c \in Calls, WaitFor(c) PROVE [Link!Next]_(Link!vars)
  <2>1. /\ isLive' = isLive
        /\ c \notin Waiting /\ Waiting' = Waiting \cup {c}
    BY <1>8, <1>a DEF WaitFor, isLive, Waiting, TypeOK
  <2>2. Link!Wait(c)
    BY <2>1 DEF Link!Wait, Waiting
  <2> QED BY <2>2 DEF Link!Next
<1>9. ASSUME NEW c \in Calls, WaiterDone(c) PROVE [Link!Next]_(Link!vars)
  <2>1. /\ isLive' = isLive
        /\ c \in Waiting /\ Waiting' = Waiting \ {c}
    BY <1>9, <1>a DEF WaiterDone, isLive, Waiting, TypeOK
  <2>2. Link!Settle(c)
    BY <2>1 DEF Link!Settle, Waiting
  <2> QED BY <2>2 DEF Link!Next
<1>10. CASE UNCHANGED vars
  BY <1>10, LinkStutter DEF vars, isLive
<1> QED
  BY <1>1, <1>2, <1>3, <1>4, <1>5, <1>6, <1>7, <1>8, <1>9, <1>10 DEF Next

(* The session that callers see ends in one step, and with everyone who waits  *)
(* on it: however connect(), its timer, close() and the events of this socket  *)
(* and of former ones interleave.                                              *)
THEOREM ConnectionImplementsLink == Spec => LinkSpec
<1>1. Init => Link!Init
  BY LinkInit
<1>2. ConnectionInv /\ [Next]_vars => [Link!Next]_(Link!vars)
  BY LinkStep
<1> QED BY <1>1, <1>2, ConnectionInvariant, PTL DEF Spec, LinkSpec, Link!Spec

-----------------------------------------------------------------------------
(* TspFrame: base64url, character by character.                                *)

(* The number of characters of n bytes, and of bytes of those characters.  *)
LEMMA CharsFacts ==
    ASSUME NEW n \in Nat
    PROVE  /\ Chars(n) \in Nat /\ Chars(n) % 4 # 1 /\ (3 * Chars(n)) \div 4 = n
BY SMTT(60) DEF Chars

(* A byte survives its two characters, wherever in its group it stands.    *)
LEMMA ByteFacts ==
    ASSUME NEW a \in Byte, NEW b \in Byte, NEW c \in Byte
    PROVE  /\ a \div 4 \in Sextet
           /\ 16 * (a % 4) + b \div 16 \in Sextet
           /\ 4 * (b % 16) + c \div 64 \in Sextet
           /\ c % 64 \in Sextet
           /\ 4 * (a \div 4) + (16 * (a % 4) + b \div 16) \div 16 = a
           /\ 16 * ((16 * (a % 4) + b \div 16) % 16) + (4 * (b % 16) + c \div 64) \div 4 = b
           /\ 64 * ((4 * (b % 16) + c \div 64) % 4) + (c % 64) = c
BY SMTT(60) DEF Byte, Sextet

LEMMA AtIsByte ==
    ASSUME NEW bytes \in Seq(Byte), NEW i \in Int
    PROVE  at(bytes, i) \in Byte
<1>1. 0 \in Byte
  BY DEF Byte
<1>2. \A k \in DOMAIN bytes : bytes[k] \in Byte
  OBVIOUS
<1> QED
  BY <1>1, <1>2 DEF at

(* The characters of an encoding are all of the alphabet. *)
LEMMA EncodeFacts ==
    ASSUME NEW bytes \in Seq(Byte)
    PROVE  /\ encode(bytes) \in Seq(Sextet)
           /\ Len(encode(bytes)) = Chars(Len(bytes))
<1> DEFINE n == Chars(Len(bytes))
<1>1. n \in Nat
  BY CharsFacts
<1>2. ASSUME NEW k \in 1..n
      PROVE  encode(bytes)[k] \in Sextet
  <2> DEFINE first == 3 * ((k - 1) \div 4) + 1
  <2>1. /\ first \in Int /\ at(bytes, first) \in Byte
        /\ at(bytes, first + 1) \in Byte /\ at(bytes, first + 2) \in Byte
    BY <1>1, AtIsByte
  <2>2. encode(bytes)[k] \in {at(bytes, first) \div 4,
                              16 * (at(bytes, first) % 4) + at(bytes, first + 1) \div 16,
                              4 * (at(bytes, first + 1) % 16) + at(bytes, first + 2) \div 64,
                              at(bytes, first + 2) % 64}
    BY DEF encode
  <2> QED
    BY <2>1, <2>2, ByteFacts
<1>3. encode(bytes) = [k \in 1..n |-> encode(bytes)[k]]
  BY DEF encode
<1> QED
  BY <1>1, <1>2, <1>3

LEMMA ValueOfSextet ==
    ASSUME NEW v \in Sextet
    PROVE  value(v) = v
BY DEF Sextet, value, plus, slash

(* The positions of group g: its bytes, and the characters they make.      *)
LEMMA GroupFacts ==
    ASSUME NEW n \in Nat, NEW g \in Nat
    PROVE  /\ 3 * g + 1 <= n => 4 * g + 2 <= Chars(n)
           /\ 3 * g + 2 <= n => 4 * g + 3 <= Chars(n)
           /\ 3 * g + 3 <= n => 4 * g + 4 <= Chars(n)
           /\ (4 * g + 1) % 4 = 1 /\ (4 * g + 2) % 4 = 2
           /\ (4 * g + 3) % 4 = 3 /\ (4 * g + 4) % 4 = 0
           /\ (4 * g) \div 4 = g /\ (4 * g + 1) \div 4 = g
           /\ (4 * g + 2) \div 4 = g /\ (4 * g + 3) \div 4 = g
           /\ (3 * g + 1) % 3 = 1 /\ (3 * g + 2) % 3 = 2 /\ (3 * g + 3) % 3 = 0
           /\ (3 * g) \div 3 = g /\ (3 * g + 1) \div 3 = g /\ (3 * g + 2) \div 3 = g
BY SMTT(60) DEF Chars

LEMMA EncodeAt ==
    ASSUME NEW bytes \in Seq(Byte), NEW k \in 1..Chars(Len(bytes)), NEW first,
           first = 3 * ((k - 1) \div 4) + 1
    PROVE  /\ k % 4 = 1 => encode(bytes)[k] = at(bytes, first) \div 4
           /\ k % 4 = 2 => encode(bytes)[k] =
                              16 * (at(bytes, first) % 4) + at(bytes, first + 1) \div 16
           /\ k % 4 = 3 => encode(bytes)[k] =
                              4 * (at(bytes, first + 1) % 16) + at(bytes, first + 2) \div 64
           /\ k % 4 = 0 => encode(bytes)[k] = at(bytes, first + 2) % 64
BY DEF encode

LEMMA EncodedGroup ==
    ASSUME NEW bytes \in Seq(Byte), NEW g \in Nat
    PROVE  LET n == Len(bytes)
               text == encode(bytes)
               b(r) == at(bytes, 3 * g + r)
           IN /\ 3 * g + 1 <= n => /\ text[4 * g + 1] = b(1) \div 4
                                   /\ text[4 * g + 2] = 16 * (b(1) % 4) + b(2) \div 16
              /\ 3 * g + 2 <= n => text[4 * g + 3] = 4 * (b(2) % 16) + b(3) \div 64
              /\ 3 * g + 3 <= n => text[4 * g + 4] = b(3) % 64
<1> DEFINE n == Len(bytes)
           first == 3 * g + 1
<1>1. n \in Nat /\ Chars(n) \in Nat /\ first + 1 = 3 * g + 2 /\ first + 2 = 3 * g + 3
  BY CharsFacts
<1>2. /\ first = 3 * ((4 * g + 1 - 1) \div 4) + 1 /\ first = 3 * ((4 * g + 2 - 1) \div 4) + 1
      /\ first = 3 * ((4 * g + 3 - 1) \div 4) + 1 /\ first = 3 * ((4 * g + 4 - 1) \div 4) + 1
  OBVIOUS
<1>3. /\ (4 * g + 1) % 4 = 1 /\ (4 * g + 2) % 4 = 2 /\ (4 * g + 3) % 4 = 3 /\ (4 * g + 4) % 4 = 0
  BY GroupFacts
<1>4. /\ 3 * g + 1 <= n => 4 * g + 1 \in 1..Chars(n) /\ 4 * g + 2 \in 1..Chars(n)
      /\ 3 * g + 2 <= n => 4 * g + 3 \in 1..Chars(n)
      /\ 3 * g + 3 <= n => 4 * g + 4 \in 1..Chars(n)
  BY <1>1, GroupFacts
<1> HIDE DEF first
<1>5. ASSUME 3 * g + 1 <= n
      PROVE  /\ encode(bytes)[4 * g + 1] = at(bytes, first) \div 4
             /\ encode(bytes)[4 * g + 2]
                  = 16 * (at(bytes, first) % 4) + at(bytes, first + 1) \div 16
  <2>1. 4 * g + 1 \in 1..Chars(n) /\ (4 * g + 1) % 4 = 1
        /\ first = 3 * ((4 * g + 1 - 1) \div 4) + 1
    BY <1>2, <1>3, <1>4, <1>5
  <2>2. 4 * g + 2 \in 1..Chars(n) /\ (4 * g + 2) % 4 = 2
        /\ first = 3 * ((4 * g + 2 - 1) \div 4) + 1
    BY <1>2, <1>3, <1>4, <1>5
  <2>3. encode(bytes)[4 * g + 1] = at(bytes, first) \div 4
    BY <2>1, EncodeAt
  <2>4. encode(bytes)[4 * g + 2] = 16 * (at(bytes, first) % 4) + at(bytes, first + 1) \div 16
    BY <2>2, EncodeAt
  <2> QED
    BY <2>3, <2>4
<1>6. ASSUME 3 * g + 2 <= n
      PROVE  encode(bytes)[4 * g + 3]
                = 4 * (at(bytes, first + 1) % 16) + at(bytes, first + 2) \div 64
  <2>1. 4 * g + 3 \in 1..Chars(n) /\ (4 * g + 3) % 4 = 3
        /\ first = 3 * ((4 * g + 3 - 1) \div 4) + 1
    BY <1>2, <1>3, <1>4, <1>6
  <2> QED
    BY <2>1, EncodeAt
<1>7. ASSUME 3 * g + 3 <= n
      PROVE  encode(bytes)[4 * g + 4] = at(bytes, first + 2) % 64
  <2>1. 4 * g + 4 \in 1..Chars(n) /\ (4 * g + 4) % 4 = 0
        /\ first = 3 * ((4 * g + 4 - 1) \div 4) + 1
    BY <1>2, <1>3, <1>4, <1>7
  <2> QED
    BY <2>1, EncodeAt
<1> QED
  BY <1>1, <1>5, <1>6, <1>7 DEF first

LEMMA DecodeAt ==
    ASSUME NEW text \in Seq(Sextet), NEW j \in 1..((3 * Len(text)) \div 4), NEW first,
           first = 4 * ((j - 1) \div 3) + 1
    PROVE  /\ j % 3 = 1 => decode(text)[j] = 4 * value(text[first]) + value(text[first + 1]) \div 16
           /\ j % 3 = 2 => decode(text)[j] =
                              16 * (value(text[first + 1]) % 16) + value(text[first + 2]) \div 4
           /\ j % 3 = 0 => decode(text)[j] =
                              64 * (value(text[first + 2]) % 4) + value(text[first + 3])
<1> DEFINE v(i) == value(text[i])
<1>1. decode(text)[j] = CASE j % 3 = 1 -> 4 * v(first) + v(first + 1) \div 16
                          [] j % 3 = 2 -> 16 * (v(first + 1) % 16) + v(first + 2) \div 4
                          [] OTHER     -> 64 * (v(first + 2) % 4) + v(first + 3)
  BY Zenon DEF decode
<1>2. ~(1 = 2) /\ ~(1 = 0) /\ ~(2 = 0) /\ ~(2 = 1)
  OBVIOUS
<1>3. CASE j % 3 = 1
  BY <1>1, <1>2, <1>3
<1>4. CASE j % 3 = 2
  BY <1>1, <1>2, <1>4
<1>5. CASE j % 3 = 0
  BY <1>1, <1>2, <1>5
<1> QED
  BY <1>3, <1>4, <1>5

LEMMA DecodedGroup ==
    ASSUME NEW text \in Seq(Sextet), NEW n \in Nat, (3 * Len(text)) \div 4 = n,
           NEW g \in Nat, NEW j \in 1..n
    PROVE  LET c(r) == text[4 * g + r]
           IN /\ j = 3 * g + 1 => decode(text)[j] = 4 * value(c(1)) + value(c(2)) \div 16
              /\ j = 3 * g + 2 => decode(text)[j] = 16 * (value(c(2)) % 16) + value(c(3)) \div 4
              /\ j = 3 * g + 3 => decode(text)[j] = 64 * (value(c(3)) % 4) + value(c(4))
<1> DEFINE first == 4 * g + 1
<1>1. first + 1 = 4 * g + 2 /\ first + 2 = 4 * g + 3 /\ first + 3 = 4 * g + 4
  OBVIOUS
<1>2. j \in {3 * g + 1, 3 * g + 2, 3 * g + 3} => first = 4 * ((j - 1) \div 3) + 1
  OBVIOUS
<1>3. /\ j = 3 * g + 1 => j % 3 = 1
      /\ j = 3 * g + 2 => j % 3 = 2
      /\ j = 3 * g + 3 => j % 3 = 0
  BY GroupFacts
<1> HIDE DEF first
<1>4. /\ j = 3 * g + 1 =>
            decode(text)[j] = 4 * value(text[first]) + value(text[first + 1]) \div 16
      /\ j = 3 * g + 2 =>
            decode(text)[j] = 16 * (value(text[first + 1]) % 16) + value(text[first + 2]) \div 4
      /\ j = 3 * g + 3 =>
            decode(text)[j] = 64 * (value(text[first + 2]) % 4) + value(text[first + 3])
  BY <1>2, <1>3, DecodeAt
<1> QED
  BY <1>1, <1>4 DEF first

(* decode gives back what encode was given, for byte strings of every      *)
(* length (base64url.js): no group, whole or not, loses or gains a bit.    *)
THEOREM RoundTrip ==
    ASSUME NEW bytes \in Seq(Byte)
    PROVE  decodes(encode(bytes)) /\ decode(encode(bytes)) = bytes
<1> DEFINE text == encode(bytes)
           n == Len(bytes)
<1>1. n \in Nat
  OBVIOUS
<1>2. text \in Seq(Sextet) /\ Len(text) = Chars(n)
  BY EncodeFacts
<1>3. Chars(n) \in Nat /\ Chars(n) % 4 # 1 /\ (3 * Chars(n)) \div 4 = n
  BY <1>1, CharsFacts
<1>4. ASSUME NEW i \in 1..Chars(n)
      PROVE  text[i] \in Sextet /\ value(text[i]) = text[i]
  <2>1. text[i] \in Sextet
    BY <1>2
  <2> QED
    BY <2>1, ValueOfSextet
<1>5. decodes(text)
  BY <1>2, <1>3, <1>4 DEF decodes
<1>6. (3 * Len(text)) \div 4 = n
  BY <1>2, <1>3
<1>7. ASSUME NEW j \in 1..n
      PROVE  decode(text)[j] = bytes[j]
  <2>1. PICK g \in Nat : j \in {3 * g + 1, 3 * g + 2, 3 * g + 3}
    <3>1. /\ (j - 1) \div 3 \in Nat
          /\ j \in {3 * ((j - 1) \div 3) + 1, 3 * ((j - 1) \div 3) + 2, 3 * ((j - 1) \div 3) + 3}
      BY <1>1
    <3> QED
      BY <3>1
  <2> DEFINE a == at(bytes, 3 * g + 1)
             b == at(bytes, 3 * g + 2)
             c == at(bytes, 3 * g + 3)
  <2>2. a \in Byte /\ b \in Byte /\ c \in Byte
    BY AtIsByte
  <2> HIDE DEF a, b, c
  <2>3. bytes[j] = at(bytes, j)
    BY <1>1 DEF at
  <2>4. CASE j = 3 * g + 1
    <3>1. text[4 * g + 1] = a \div 4 /\ text[4 * g + 2] = 16 * (a % 4) + b \div 16
      BY <2>4, <1>1, EncodedGroup DEF a, b
    <3>2. decode(text)[j] = 4 * value(text[4 * g + 1]) + value(text[4 * g + 2]) \div 16
      BY <2>4, <1>1, <1>2, <1>6, DecodedGroup
    <3>3. value(text[4 * g + 1]) = a \div 4 /\ value(text[4 * g + 2]) = 16 * (a % 4) + b \div 16
      BY <3>1, <2>2, ByteFacts, ValueOfSextet
    <3> QED
      BY <3>2, <3>3, <2>2, <2>3, <2>4, ByteFacts DEF a
  <2>5. CASE j = 3 * g + 2
    <3>1. text[4 * g + 2] = 16 * (a % 4) + b \div 16 /\ text[4 * g + 3] = 4 * (b % 16) + c \div 64
      BY <2>5, <1>1, EncodedGroup DEF a, b, c
    <3>2. decode(text)[j] = 16 * (value(text[4 * g + 2]) % 16) + value(text[4 * g + 3]) \div 4
      BY <2>5, <1>1, <1>2, <1>6, DecodedGroup
    <3>3. /\ value(text[4 * g + 2]) = 16 * (a % 4) + b \div 16
          /\ value(text[4 * g + 3]) = 4 * (b % 16) + c \div 64
      BY <3>1, <2>2, ByteFacts, ValueOfSextet
    <3> QED
      BY <3>2, <3>3, <2>2, <2>3, <2>5, ByteFacts DEF b
  <2>6. CASE j = 3 * g + 3
    <3>1. text[4 * g + 3] = 4 * (b % 16) + c \div 64 /\ text[4 * g + 4] = c % 64
      BY <2>6, <1>1, EncodedGroup DEF b, c
    <3>2. decode(text)[j] = 64 * (value(text[4 * g + 3]) % 4) + value(text[4 * g + 4])
      BY <2>6, <1>1, <1>2, <1>6, DecodedGroup
    <3>3. value(text[4 * g + 3]) = 4 * (b % 16) + c \div 64 /\ value(text[4 * g + 4]) = c % 64
      BY <3>1, <2>2, ByteFacts, ValueOfSextet
    <3> QED
      BY <3>2, <3>3, <2>2, <2>3, <2>6, ByteFacts DEF c
  <2> QED
    BY <2>1, <2>4, <2>5, <2>6
<1>8. decode(text) = [j \in 1..n |-> decode(text)[j]]
  BY <1>6 DEF decode
<1> QED
  BY <1>5, <1>7, <1>8

-----------------------------------------------------------------------------
(* Frames. *)

(* The first three characters of an encoding. *)
LEMMA FirstChars ==
    ASSUME NEW bytes \in Seq(Byte), Len(bytes) >= 3
    PROVE  LET text == encode(bytes)
           IN /\ Len(text) >= 4
              /\ text[1] = bytes[1] \div 4
              /\ text[2] = 16 * (bytes[1] % 4) + bytes[2] \div 16
              /\ text[3] = 4 * (bytes[2] % 16) + bytes[3] \div 64
<1> DEFINE n == Len(bytes)
<1>1. n \in Nat /\ 4 * 0 + 1 = 1 /\ 4 * 0 + 2 = 2 /\ 4 * 0 + 3 = 3 /\ 4 * 0 + 4 = 4
      /\ 3 * 0 + 1 = 1 /\ 3 * 0 + 2 = 2 /\ 3 * 0 + 3 = 3
  OBVIOUS
<1>2. 4 <= Chars(n)
  BY <1>1, GroupFacts
<1>3. at(bytes, 1) = bytes[1] /\ at(bytes, 2) = bytes[2] /\ at(bytes, 3) = bytes[3]
  BY DEF at
<1>4. /\ encode(bytes)[4 * 0 + 1] = at(bytes, 3 * 0 + 1) \div 4
      /\ encode(bytes)[4 * 0 + 2] = 16 * (at(bytes, 3 * 0 + 1) % 4) + at(bytes, 3 * 0 + 2) \div 16
      /\ encode(bytes)[4 * 0 + 3] = 4 * (at(bytes, 3 * 0 + 2) % 16) + at(bytes, 3 * 0 + 3) \div 64
  BY <1>1, EncodedGroup
<1> QED
  BY <1>1, <1>2, <1>3, <1>4, EncodeFacts

(* A TSP message with a short count code, whatever it counts, is routed to *)
(* the TSP consumer as the bytes its sender framed (_onFrame's demux and   *)
(* decode, tsp-frame.js).                                                  *)
THEOREM ShortFramesReachTsp ==
    ASSUME NEW count \in 0..4095, NEW body \in Seq(Byte)
    PROVE  LET bytes == shortFrame(count, body)
           IN /\ isTspFrameText(encode(bytes)) /\ isTspFrameBytes(bytes)
              /\ decodes(encode(bytes)) /\ decode(encode(bytes)) = bytes
<1> DEFINE bytes == shortFrame(count, body)
<1>0. count \div 256 \in 0..15
  OBVIOUS
<1>1. /\ 248 \in Byte /\ 64 + count \div 256 \in Byte /\ count % 256 \in Byte
      /\ 248 \div 4 = 62 /\ 16 * (248 % 4) + (64 + count \div 256) \div 16 = 4
  BY <1>0 DEF Byte
<1>2. /\ bytes \in Seq(Byte) /\ Len(bytes) >= 3
      /\ bytes[1] = 248 /\ bytes[2] = 64 + count \div 256
  BY <1>1 DEF shortFrame
<1>3. /\ Len(encode(bytes)) >= 4
      /\ encode(bytes)[1] = 62 /\ encode(bytes)[2] = 4
  BY <1>1, <1>2, FirstChars
<1>4. Len(encode(bytes)) \in Nat
  BY <1>2, EncodeFacts
<1>5. isTspFrameText(encode(bytes))
  BY <1>3, <1>4 DEF isTspFrameText, dash, E
<1>6. isTspFrameBytes(bytes)
  BY <1>2 DEF isTspFrameBytes, TSP_MAGIC_BYTE
<1> QED
  BY <1>2, <1>5, <1>6, RoundTrip

(* And one with a long count code, of a message of any size (a count over *)
(* thirty bits would lose its upper ones, and no reader): the case in      *)
(* which the text does not begin "-E".                                     *)
THEOREM LongFramesReachTsp ==
    ASSUME NEW count \in Nat, NEW body \in Seq(Byte)
    PROVE  LET bytes == longFrame(count, body)
           IN /\ isTspFrameText(encode(bytes)) /\ isTspFrameBytes(bytes)
              /\ decodes(encode(bytes)) /\ decode(encode(bytes)) = bytes
<1> DEFINE bytes == longFrame(count, body)
           h == (count \div 2^24) % 64
<1>1. /\ 251 \in Byte /\ 225 \in Byte /\ h \in Byte
      /\ (count \div 2^16) % 256 \in Byte /\ (count \div 2^8) % 256 \in Byte
      /\ count % 256 \in Byte
      /\ 251 \div 4 = 62 /\ 16 * (251 % 4) + 225 \div 16 = 62 /\ 4 * (225 % 16) + h \div 64 = 4
  BY DEF Byte
<1> HIDE DEF h
<1>2. /\ bytes \in Seq(Byte) /\ Len(bytes) >= 3
      /\ bytes[1] = 251 /\ bytes[2] = 225 /\ bytes[3] = h
  BY <1>1 DEF longFrame, h
<1> HIDE DEF bytes
<1>3. /\ Len(encode(bytes)) >= 4
      /\ encode(bytes)[1] = 62 /\ encode(bytes)[2] = 62 /\ encode(bytes)[3] = 4
  <2>1. /\ Len(encode(bytes)) >= 4
        /\ encode(bytes)[1] = bytes[1] \div 4
        /\ encode(bytes)[2] = 16 * (bytes[1] % 4) + bytes[2] \div 16
        /\ encode(bytes)[3] = 4 * (bytes[2] % 16) + bytes[3] \div 64
    BY <1>2, FirstChars
  <2> QED
    BY <1>1, <1>2, <2>1
<1>4. Len(encode(bytes)) \in Nat
  BY <1>2, EncodeFacts
<1>5. isTspFrameText(encode(bytes))
  BY <1>3, <1>4 DEF isTspFrameText, dash, E
<1>6. isTspFrameBytes(bytes)
  BY <1>2 DEF isTspFrameBytes, TSP_MAGIC_BYTE_LONG
<1> QED
  BY <1>2, <1>5, <1>6, RoundTrip DEF bytes

(* What the demux takes for TSP by its text, and can decode, a consumer    *)
(* that looks at the bytes takes for TSP as well: the two predicates of    *)
(* tsp-frame.js never disagree on a routed frame, padded or not.           *)
THEOREM RoutedTextIsTspBytes ==
    ASSUME NEW text \in Seq(Nat), NEW norm \in Seq(Nat),
           isUnpadded(norm, text), decodes(norm), isTspFrameText(text)
    PROVE  isTspFrameBytes(decode(norm))
<1>1. Len(text) \in Nat /\ Len(norm) \in Nat /\ Len(text) >= 2 /\ text[1] = 62
  BY DEF isTspFrameText, dash
<1>2. \/ text[2] = 4
      \/ Len(text) >= 3 /\ text[2] = 62 /\ text[3] = 4
  BY DEF isTspFrameText, dash, E
<1>3. Len(norm) >= 2
  BY <1>1, <1>2 DEF isUnpadded, pad
<1>4. norm[1] = text[1] /\ norm[2] = text[2]
  BY <1>1, <1>3 DEF isUnpadded
<1>5. 1 \in 1..((3 * Len(norm)) \div 4) /\ 1 % 3 = 1 /\ 4 * ((1 - 1) \div 3) + 1 = 1
  BY <1>1, <1>3
<1>6. decode(norm)[1] = 4 * value(norm[1]) + value(norm[2]) \div 16
  BY <1>5 DEF decode
<1>7. value(norm[1]) = 62 /\ value(norm[2]) \in {4, 62}
  BY <1>1, <1>2, <1>4 DEF value, plus, slash
<1>8. 4 * 62 + 4 \div 16 = 248 /\ 4 * 62 + 62 \div 16 = 251
  OBVIOUS
<1>9. decode(norm)[1] \in {248, 251}
  BY <1>6, <1>7, <1>8
<1>10. Len(decode(norm)) >= 1
  BY <1>1, <1>5 DEF decode
<1> QED
  BY <1>9, <1>10 DEF isTspFrameBytes, TSP_MAGIC_BYTE, TSP_MAGIC_BYTE_LONG
=============================================================================
