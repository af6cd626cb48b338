---------------------------- MODULE DeliveryProofs ----------------------------
(***************************************************************************)
(* What the message task manager, the network processor and the tell       *)
(* protocol keep for any number of tasks, messages, connections, bootstrap *)
(* nodes and failures.  Messages has the contents of all the queues a      *)
(* message passes, so that what arrives is what was sent.                  *)
(***************************************************************************)
EXTENDS Delivery, TLAPS

\* Every queue holds messages of tasks that were made, or those sent once.
Messages ==
  /\ tasks \in Nat
  /\ pendings \in Seq(0 .. tasks)
  /\ outbonds \subseteq 0 .. tasks
  /\ handlers \subseteq [conn : Conns, msg : 0 .. tasks]
  /\ conn \in [Peers -> Conns \cup {None}]

IndInv == TypeOK /\ Messages /\ ConnectionIsOpen

-----------------------------------------------------------------------------
(* KeepPending drops the oldest message of a full queue before it adds one: *)
(* the queue never has more than Cap.                                       *)
LEMMA KeepPendingBounded ==
  ASSUME Messages, TypeOK, NEW m \in 0 .. tasks, KeepPending(m)
  PROVE  pendings' \in Seq(0 .. tasks) /\ Len(pendings') <= Cap
<1> DEFINE rest == IF Len(pendings) >= Cap THEN Tail(pendings) ELSE pendings
<1>1. pendings \in Seq(0 .. tasks) /\ Len(pendings) <= Cap /\ Cap \in Nat /\ Cap > 0
  BY DeliveryAssumption DEF Messages, TypeOK
<1>2. rest \in Seq(0 .. tasks) /\ Len(rest) + 1 <= Cap
  <2>1. CASE Len(pendings) >= Cap
    <3>1. pendings # <<>>
      BY <1>1, <2>1
    <3>2. Tail(pendings) \in Seq(0 .. tasks) /\ Len(Tail(pendings)) = Len(pendings) - 1
      BY <1>1, <3>1
    <3>3. QED
      BY <1>1, <2>1, <3>2
  <2>2. CASE ~(Len(pendings) >= Cap)
    BY <1>1, <2>2
  <2>3. QED
    BY <2>1, <2>2
<1>3. pendings' = Append(rest, m)
  BY DEF KeepPending
<1> HIDE DEF rest
<1>4. QED
  BY <1>2, <1>3

(* send_message of the tell protocol keeps the contents of its queues, and  *)
(* hands messages to a connection that is open.                             *)
LEMMA TellSendKeeps ==
  ASSUME IndInv, NEW ms \in SUBSET (0 .. tasks), TellSend(ms)
  PROVE  /\ outbonds' \subseteq 0 .. tasks
         /\ handlers' \subseteq [conn : Conns, msg : 0 .. tasks]
         /\ dialing' \cup retries \subseteq Peers
         /\ conn' = conn /\ open' = open
         /\ \A h \in handlers' : [peer |-> Peer, id |-> h.conn] \in open
<1> USE DEF IndInv, Messages, ConnectionIsOpen, TypeOK
<1>1. Peer \in Peers /\ conn[Peer] \in Conns \cup {None}
  BY DEF Peers
<1>2. CASE conn[Peer] # None
  <2>1. handlers' = handlers \cup {[conn |-> conn[Peer], msg |-> m] : m \in ms}
    BY <1>2 DEF TellSend
  <2>2. [peer |-> Peer, id |-> conn[Peer]] \in open
    BY <1>1, <1>2
  <2>3. \A h \in handlers' : h \in handlers \/ \E m \in ms : h = [conn |-> conn[Peer], msg |-> m]
    BY <2>1
  <2>4. /\ handlers' \subseteq [conn : Conns, msg : 0 .. tasks]
        /\ \A h \in handlers' : [peer |-> Peer, id |-> h.conn] \in open
    BY <1>1, <1>2, <2>2, <2>3
  <2>5. QED
    BY <1>2, <2>4 DEF TellSend
<1>3. CASE conn[Peer] = None
  BY <1>1, <1>3 DEF TellSend
<1>4. QED
  BY <1>2, <1>3

(* handle_command with SendMessage, for the message of a task or one sent   *)
(* once.                                                                    *)
LEMMA SendMessageKeeps ==
  ASSUME IndInv, NEW m \in 0 .. tasks, SendMessage(m), UNCHANGED <<task, tasks>>
  PROVE  IndInv'
<1> USE DEF IndInv, SendMessage, bootstrap
<1>1. CASE route \/ table
  <2>1. TellSend({m}) /\ {m} \in SUBSET (0 .. tasks)
    BY <1>1
  <2>2. QED
    BY <1>1, <2>1, TellSendKeeps DEF Messages, TypeOK, ConnectionIsOpen
<1>2. CASE ~(route \/ table)
  <2>1. pendings' \in Seq(0 .. tasks) /\ Len(pendings') <= Cap
    BY <1>2, KeepPendingBounded
  <2>2. /\ UNCHANGED <<dialing, open, conn, outbonds, handlers, received, retries, task, tasks>>
        /\ pendings' \in Seq(0 .. tasks')
    BY <1>2, <2>1 DEF tell
  <2>3. Messages'
    BY <2>2 DEF Messages
  <2>4. TypeOK' /\ ConnectionIsOpen'
    BY <2>1, <2>2 DEF TypeOK, ConnectionIsOpen
  <2>5. QED
    BY <2>3, <2>4
<1>3. QED
  BY <1>1, <1>2

(* inject_connection_established: the connection that messages are sent on  *)
(* is the first one, which is still open, or the new one.                   *)
LEMMA EstablishedKeeps ==
  ASSUME IndInv, NEW p \in Peers, NEW c \in Conns, Established(p, c),
         dialing' \subseteq dialing
  PROVE  IndInv'
<1> USE DEF IndInv, Established, sender, bootstrap
<1>1. TypeOK'
  BY DEF TypeOK
<1>2. /\ conn' \in [Peers -> Conns \cup {None}]
      /\ conn'[p] \in Conns /\ \A q \in Peers : q # p => conn'[q] = conn[q]
      /\ [peer |-> p, id |-> conn'[p]] \in open' /\ open \subseteq open'
  BY DeliveryAssumption DEF Messages, ConnectionIsOpen
<1>3. \A h \in handlers' :
        h \in handlers \/ (p = Peer /\ \E m \in outbonds : h = [conn |-> conn'[p], msg |-> m])
  OBVIOUS
<1>4. Messages'
  <2>1. tasks' = tasks /\ pendings' = pendings /\ outbonds' \subseteq outbonds
    OBVIOUS
  <2>2. handlers' \subseteq [conn : Conns, msg : 0 .. tasks]
    BY <1>2, <1>3 DEF Messages
  <2>3. QED
    BY <1>2, <2>1, <2>2 DEF Messages
<1>5. ConnectionIsOpen'
  BY <1>2, <1>3 DEF ConnectionIsOpen
<1>6. QED
  BY <1>1, <1>4, <1>5

-----------------------------------------------------------------------------
(* The invariant holds when the network starts.                             *)
LEMMA InitIndInv == Init => IndInv
  BY DeliveryAssumption DEF Init, IndInv, TypeOK, Messages, ConnectionIsOpen, Peers

(* Every step of the tasks, the network processor and the tell protocol     *)
(* keeps it.                                                                *)
LEMMA NextIndInv == IndInv /\ [Next]_vars => IndInv'
<1> SUFFICES ASSUME IndInv, [Next]_vars PROVE IndInv'
  OBVIOUS
<1> USE DEF IndInv
<1>1. CASE UNCHANGED vars
  BY <1>1 DEF vars, sender, lookup, tell, bootstrap, TypeOK, Messages, ConnectionIsOpen
<1>2. CASE CreateIndefiniteMessageTask
  <2>1. tasks' = tasks + 1 /\ 0 .. tasks \subseteq 0 .. tasks' /\ task' \in 1 .. tasks'
    BY <1>2 DEF CreateIndefiniteMessageTask, Messages
  <2>2. pendings' = pendings /\ pendings \in Seq(0 .. tasks')
    BY <1>2, <2>1 DEF CreateIndefiniteMessageTask, Messages, lookup
  <2>3. Messages'
    BY <1>2, <2>1, <2>2 DEF CreateIndefiniteMessageTask, Messages, tell
  <2>4. TypeOK' /\ ConnectionIsOpen'
    BY <1>2, <2>1 DEF CreateIndefiniteMessageTask, TypeOK, ConnectionIsOpen,
                      lookup, tell, bootstrap
  <2>5. QED
    BY <2>3, <2>4
<1>3. CASE CancelTask
  BY <1>3 DEF CancelTask, TypeOK, Messages, ConnectionIsOpen, lookup, tell, bootstrap
<1>4. CASE CreateMessageTask
  <2>1. Once \in 0 .. tasks
    BY DEF Messages, Once
  <2>2. QED
    BY <1>4, <2>1, SendMessageKeeps DEF CreateMessageTask
<1>5. CASE Tick
  <2>1. task \in 0 .. tasks
    BY <1>5 DEF Tick, TypeOK, Messages
  <2>2. QED
    BY <1>5, <2>1, SendMessageKeeps DEF Tick, sender
<1>6. CASE QueryEnds
  BY <1>6 DEF QueryEnds, LookupEnds, TypeOK, Messages, ConnectionIsOpen, sender, tell,
              bootstrap
<1>7. CASE RoutablePeer
  <2> DEFINE ms == {pendings[i] : i \in DOMAIN pendings}
  <2>1. ms \in SUBSET (0 .. tasks) /\ TellSend(ms)
    BY <1>7 DEF RoutablePeer, Messages
  <2> HIDE DEF ms
  <2>2. pendings' \in Seq(0 .. tasks) /\ Len(pendings') <= Cap
    BY <1>7, DeliveryAssumption DEF RoutablePeer
  <2>3. QED
    BY <1>7, <2>1, <2>2, TellSendKeeps
       DEF RoutablePeer, TypeOK, Messages, ConnectionIsOpen, sender, bootstrap
<1>8. CASE ConnectToPendingBootstraps
  BY <1>8 DEF ConnectToPendingBootstraps, TypeOK, Messages, ConnectionIsOpen, sender, lookup
<1>9. ASSUME NEW p \in Peers, OutgoingConnectionError(p) PROVE IndInv'
  BY <1>9 DEF OutgoingConnectionError, Retry, TypeOK, Messages, ConnectionIsOpen, sender,
              bootstrap, Peers
<1>10. ASSUME NEW p \in Peers, NEW c \in Conns, DialSucceeds(p, c) PROVE IndInv'
  BY <1>10, EstablishedKeeps DEF DialSucceeds
<1>11. ASSUME NEW c \in Conns, PeerDials(c) PROVE IndInv'
  BY <1>11, EstablishedKeeps DEF PeerDials, Peers
<1>12. ASSUME NEW p \in Peers, NEW c \in Conns, ConnectionClosed(p, c) PROVE IndInv'
  <2>1. /\ \A q \in Peers : conn'[q] # None => q # p /\ conn'[q] = conn[q]
        /\ conn' \in [Peers -> Conns \cup {None}]
    BY <1>12 DEF ConnectionClosed, Closed, Messages
  <2>2. handlers' \subseteq handlers /\ \A h \in handlers' : p = Peer => h.conn # c
    BY <1>12 DEF ConnectionClosed, Closed
  <2>3. ConnectionIsOpen'
    BY <1>12, <2>1, <2>2 DEF ConnectionClosed, Closed, ConnectionIsOpen
  <2>4. TypeOK' /\ Messages'
    BY <1>12, <2>1, <2>2 DEF ConnectionClosed, TypeOK, Messages, sender, lookup, bootstrap
  <2>5. QED
    BY <2>3, <2>4
<1>13. ASSUME NEW h \in handlers, Written(h) PROVE IndInv'
  BY <1>13 DEF Written, TypeOK, Messages, ConnectionIsOpen, sender, lookup, bootstrap
<1>14. ASSUME NEW h \in handlers, OutboundTimeout(h) PROVE IndInv'
  BY <1>14 DEF OutboundTimeout, TypeOK, Messages, ConnectionIsOpen, sender, bootstrap
<1>15. CASE InboundTimeout
  BY <1>15 DEF InboundTimeout, TypeOK, Messages, ConnectionIsOpen, sender, tell, bootstrap
<1>16. QED
  BY <1>1, <1>2, <1>3, <1>4, <1>5, <1>6, <1>7, <1>8, <1>9, <1>10, <1>11, <1>12, <1>13,
     <1>14, <1>15 DEF Next, TaskStep, NetworkStep, TellStep

(* The queue of messages without an address never has more than Cap of them *)
(* (the cap of the network processor), and what the peer got are messages    *)
(* of tasks that were made.                                                  *)
THEOREM TypeCorrect == Spec => []TypeOK
<1>1. IndInv => TypeOK
  BY DEF IndInv
<1>2. QED
  BY <1>1, InitIndInv, NextIndInv, PTL DEF Spec

(* The tell protocol never writes on a connection that was closed, for any   *)
(* number of connections of any peers opening and closing in any order.      *)
THEOREM HandedToOpenConnection == Spec => []ConnectionIsOpen
<1>1. IndInv => ConnectionIsOpen
  BY DEF IndInv
<1>2. QED
  BY <1>1, InitIndInv, NextIndInv, PTL DEF Spec
=============================================================================
