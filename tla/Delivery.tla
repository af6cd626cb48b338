------------------------------- MODULE Delivery -------------------------------
(* How the messages of a node reach a peer: the message task manager, the   *)
(* network processor and the tell protocol.  A task sends its message again  *)
(* and again until it is cancelled or replaced; everything else is sent      *)
(* once.  Below, an address is looked up in the DHT, the peer is dialled,    *)
(* and the message waits in one queue after the other for each of these.     *)
(*                                                                           *)
(* The messages go to one peer; the bootstrap nodes are other peers, dialled *)
(* from the start and again after a while when that fails.  The queues of    *)
(* the tell protocol are sets: the same message in one twice arrives twice,  *)
(* and their order is not kept apart.  What libp2p does is its environment,  *)
(* which fails MaxFailures times.                                            *)
EXTENDS Integers, Sequences, FiniteSets

CONSTANTS
  Peer,         \* the target of the messages
  Bootstraps,   \* bootstrap nodes
  Conns,        \* identifiers of connections to one peer, numbers
  Cap,          \* messages kept for a peer without address
  MaxTasks,     \* bound: tasks one after the other
  MaxOnce,      \* bound: messages that are sent once
  MaxFailures,  \* bound: failures of libp2p
  None

Peers == {Peer} \cup Bootstraps
Once == 0   \* a message that is sent once; the others are the numbers of tasks

ASSUME DeliveryAssumption ==
  /\ Peer \notin Bootstraps /\ Conns \subseteq Nat /\ None \notin Conns
  /\ Cap \in Nat \ {0} /\ {MaxTasks, MaxOnce, MaxFailures} \subseteq Nat

VARIABLES
  task,       \* number of the task in the list, or None
  tasks,      \* tasks made
  once,       \* messages sent once
  route,      \* whether the tell protocol has an address of the peer
  table,      \* whether the routing table has one
  query,      \* whether active_get_querys has the peer
  lookups,    \* lookups of the peer that run in the DHT
  pendings,   \* messages that wait for an address
  dialing,    \* peers that are being dialled
  open,       \* open connections
  conn,       \* the connection of each peer that messages are sent on
  outbonds,   \* messages that wait for a connection
  handlers,   \* messages that a connection has to write
  received,   \* messages that the peer got
  retries,    \* bootstrap nodes to dial again
  timer,      \* whether the timer for them runs
  failures

sender == <<task, tasks, once>>
lookup == <<route, table, query, lookups, pendings>>
tell == <<dialing, open, conn, outbonds, handlers>>
bootstrap == <<retries, timer>>
vars == <<sender, lookup, tell, received, bootstrap, failures>>

Fail == failures < MaxFailures /\ failures' = failures + 1

-----------------------------------------------------------------------------
(* The tell protocol.                                                        *)

\* send_message for the messages ms: on the connection, or after a dial.
TellSend(ms) ==
  /\ IF conn[Peer] # None
     THEN /\ handlers' = handlers \cup {[conn |-> conn[Peer], msg |-> m] : m \in ms}
          /\ UNCHANGED <<dialing, outbonds>>
     ELSE /\ outbonds' = outbonds \cup ms
          /\ dialing' = IF ms = {} THEN dialing ELSE dialing \cup {Peer}
          /\ UNCHANGED handlers
  /\ UNCHANGED <<open, conn>>

\* libp2p numbers connections; which number is free does not matter.
FreeConn(p) ==
  LET free == {c \in Conns : [peer |-> p, id |-> c] \notin open}
  IN  IF free = {} THEN None ELSE CHOOSE c \in free : \A d \in free : c <= d

\* inject_connection_established: the first connection is kept, and what waited
\* for one is handed over.  Identify adds the addresses to the routing table.
Established(p, c) ==
  /\ c = FreeConn(p)
  /\ open' = open \cup {[peer |-> p, id |-> c]}
  /\ conn' = [conn EXCEPT ![p] = IF @ = None THEN c ELSE @]
  /\ IF p = Peer
     THEN /\ handlers' = handlers \cup {[conn |-> conn'[p], msg |-> m] : m \in outbonds}
          /\ outbonds' = {}
          /\ table' = TRUE
     ELSE UNCHANGED <<handlers, outbonds, table>>
  /\ UNCHANGED <<sender, route, query, lookups, pendings, received, bootstrap, failures>>

DialSucceeds(p, c) == p \in dialing /\ dialing' = dialing \ {p} /\ Established(p, c)
PeerDials(c) == Established(Peer, c) /\ UNCHANGED dialing

ClosedLast(p, c) ==  \* a mutant: the entry goes with the last connection only
  /\ [peer |-> p, id |-> c] \in open
  /\ open' = open \ {[peer |-> p, id |-> c]}
  /\ conn' = [conn EXCEPT ![p] = IF \E d \in Conns : [peer |-> p, id |-> d] \in open' THEN @
                                 ELSE None]
  /\ handlers' = IF p = Peer THEN {h \in handlers : h.conn # c} ELSE handlers

\* inject_connection_closed forgets the connection of the peer, whichever was
\* closed; what it had to write is lost.
Closed(p, c) ==
  /\ [peer |-> p, id |-> c] \in open
  /\ open' = open \ {[peer |-> p, id |-> c]}
  /\ conn' = [conn EXCEPT ![p] = None]
  /\ handlers' = IF p = Peer THEN {h \in handlers : h.conn # c} ELSE handlers

Idle(p, c) == p = Peer => \A h \in handlers : h.conn # c

ConnectionClosed(p, c) ==
  /\ Closed(p, c)
  /\ IF Idle(p, c) THEN UNCHANGED failures ELSE Fail
  /\ UNCHANGED <<sender, lookup, dialing, outbonds, received, bootstrap>>

\* The substream of a message is written; the receiver there passes it on.
Written(h) ==
  /\ h \in handlers
  /\ handlers' = handlers \ {h}
  /\ received' = received \cup {h.msg}
  /\ UNCHANGED <<sender, lookup, dialing, open, conn, outbonds, bootstrap, failures>>

\* inject_dial_upgrade_error with a timeout: the message and the route are gone.
OutboundTimeout(h) ==
  /\ h \in handlers
  /\ Fail
  /\ handlers' = handlers \ {h}
  /\ route' = FALSE
  /\ UNCHANGED <<sender, table, query, lookups, pendings, dialing, open, conn, outbonds,
                 received, bootstrap>>

\* inject_listen_upgrade_error: a message of the peer does not arrive in time.
InboundTimeout ==
  /\ route
  /\ \E c \in Conns : [peer |-> Peer, id |-> c] \in open
  /\ Fail
  /\ route' = FALSE
  /\ UNCHANGED <<sender, table, query, lookups, pendings, tell, received, bootstrap>>

TellStep ==
  \/ \E p \in Peers, c \in Conns : DialSucceeds(p, c) \/ ConnectionClosed(p, c)
  \/ \E c \in Conns : PeerDials(c)
  \/ \E h \in handlers : Written(h) \/ OutboundTimeout(h)
  \/ InboundTimeout

-----------------------------------------------------------------------------
(* The network processor.                                                    *)

KeepPendingOver(m) ==  \* a mutant: one too many is kept
  pendings' = Append(IF Len(pendings) > Cap THEN Tail(pendings) ELSE pendings, m)

\* The oldest message goes when there are too many.
KeepPending(m) ==
  pendings' = Append(IF Len(pendings) >= Cap THEN Tail(pendings) ELSE pendings, m)

\* handle_command with SendMessage: one lookup at a time.
SendMessage(m) ==
  /\ IF route \/ table
     THEN TellSend({m}) /\ UNCHANGED <<query, lookups, pendings>>
     ELSE /\ query' = TRUE
          /\ lookups' = IF query THEN lookups ELSE lookups + 1
          /\ KeepPending(m)
          /\ UNCHANGED tell
  /\ UNCHANGED <<route, table, received, bootstrap, failures>>

LookupEnds ==
  /\ lookups > 0
  /\ lookups' = lookups - 1
  /\ IF query THEN Fail ELSE UNCHANGED failures
  /\ UNCHANGED <<sender, route, table, pendings, tell, received, bootstrap>>

QueryGoesOn == LookupEnds /\ UNCHANGED query  \* a mutant: the peer stays in active_get_querys

\* GetClosestPeers ends.  A lookup that has found the peer runs on until it ends,
\* and takes the mark of a later one with it.  What is pending stays.
QueryEnds == LookupEnds /\ query' = FALSE

\* RoutablePeer: it is only of interest to a query, whose messages are sent.
RoutablePeer ==
  /\ query /\ lookups > 0
  /\ query' = FALSE
  /\ route' = TRUE
  /\ pendings' = <<>>
  /\ TellSend({pendings[i] : i \in DOMAIN pendings})
  /\ UNCHANGED <<sender, table, lookups, received, bootstrap, failures>>

Retry(p, armed) ==
  IF p \in Bootstraps
  THEN retries' = retries \cup {p} /\ timer' = armed
  ELSE UNCHANGED bootstrap

OutgoingConnectionErrorUnarmed(p) ==  \* a mutant: no timer is started
  /\ p \in dialing
  /\ Fail
  /\ dialing' = dialing \ {p}
  /\ route' = (route /\ p # Peer)
  /\ table' \in {table, table /\ p # Peer}
  /\ Retry(p, timer)
  /\ UNCHANGED <<sender, query, lookups, pendings, open, conn, outbonds, handlers, received>>

\* The messages that wait for the connection stay.  The routing table may drop
\* the address as well.
OutgoingConnectionError(p) ==
  /\ p \in dialing
  /\ Fail
  /\ dialing' = dialing \ {p}
  /\ route' = (route /\ p # Peer)
  /\ table' \in {table, table /\ p # Peer}
  /\ Retry(p, TRUE)
  /\ UNCHANGED <<sender, query, lookups, pendings, open, conn, outbonds, handlers, received>>

ConnectToPendingBootstraps ==
  /\ timer
  /\ timer' = FALSE
  /\ retries' = {}
  /\ dialing' = dialing \cup retries
  /\ UNCHANGED <<sender, lookup, open, conn, outbonds, handlers, received, failures>>

NetworkStep ==
  \/ QueryEnds \/ RoutablePeer \/ ConnectToPendingBootstraps
  \/ \E p \in Peers : OutgoingConnectionError(p)

-----------------------------------------------------------------------------
(* The message task manager.                                                 *)

\* create_indefinite_message_task cancels the task with the same identifier.
CreateIndefiniteMessageTask ==
  /\ tasks < MaxTasks
  /\ tasks' = tasks + 1
  /\ task' = tasks'
  /\ UNCHANGED <<once, lookup, tell, received, bootstrap, failures>>

CancelTask ==
  /\ task # None
  /\ task' = None
  /\ UNCHANGED <<tasks, once, lookup, tell, received, bootstrap, failures>>

CreateMessageTask ==
  /\ once < MaxOnce
  /\ once' = once + 1
  /\ SendMessage(Once)
  /\ UNCHANGED <<task, tasks>>

\* make_indefinite_future.
Tick ==
  /\ task # None
  /\ SendMessage(task)
  /\ UNCHANGED sender

TaskStep == CreateIndefiniteMessageTask \/ CancelTask \/ CreateMessageTask \/ Tick

-----------------------------------------------------------------------------
\* run dials the bootstrap nodes.
Init ==
  /\ task = None /\ tasks = 0 /\ once = 0
  /\ route = FALSE /\ table = FALSE /\ query = FALSE /\ lookups = 0 /\ pendings = <<>>
  /\ dialing = Bootstraps
  /\ open = {} /\ conn = [p \in Peers |-> None]
  /\ outbonds = {} /\ handlers = {} /\ received = {}
  /\ retries = {} /\ timer = FALSE /\ failures = 0

Next == TaskStep \/ NetworkStep \/ TellStep

\* The timers of the tasks and of the bootstrap nodes run; queries, dials and
\* substreams end.
Spec ==
  /\ Init /\ [][Next]_vars
  /\ WF_vars(Tick) /\ WF_vars(RoutablePeer) /\ WF_vars(ConnectToPendingBootstraps)
  /\ \A p \in Peers : WF_vars(\E c \in Conns : DialSucceeds(p, c))
  /\ \A c \in Conns, m \in 0 .. MaxTasks : WF_vars(Written([conn |-> c, msg |-> m]))

-----------------------------------------------------------------------------
(* Properties.                                                               *)

TypeOK ==
  /\ task \in {None} \cup 1 .. tasks
  /\ Len(pendings) <= Cap
  /\ received \subseteq 0 .. tasks
  /\ dialing \cup retries \subseteq Peers

\* A message is only handed to a connection that is open, although peers have
\* several connections that open and close in any order and the tell protocol
\* knows one of them.
ConnectionIsOpen ==
  /\ \A p \in Peers : conn[p] # None => [peer |-> p, id |-> conn[p]] \in open
  /\ \A h \in handlers : [peer |-> Peer, id |-> h.conn] \in open

\* Every bootstrap node is connected once: one that could not be dialled waits for
\* the timer of connect_to_pending_bootstraps and is dialled again, however many
\* dials fail and whenever they do.
BootstrapsReached == \A p \in Bootstraps : <>(\E c \in Conns : [peer |-> p, id |-> c] \in open)

\* The message of a task that is not cancelled comes to the peer, whatever lookups,
\* dials, connections and substreams failed on its way.
TaskArrives == <>[](task # None => task \in received)
=============================================================================
