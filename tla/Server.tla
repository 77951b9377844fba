------------------------------- MODULE Server -------------------------------
(***************************************************************************)
(* The connection server of MiniDB (server/server.c): the accept loop, the *)
(* table of connections under g_conn_lock, a detached thread for every     *)
(* connection, and the shutdown that SIGINT starts: wake the connections,  *)
(* wait for the last one, destroy the lock table, close the file.          *)
(*                                                                         *)
(* A socket is its descriptor; the kernel gives out the lowest free one.   *)
(* A statement is the one step Execute, whatever db_execute does.  The     *)
(* statistics counters are left out, and so is what is sent.               *)
(***************************************************************************)
EXTENDS Integers, FiniteSets

CONSTANTS
  MaxConnections,   \* MAX_CONNECTIONS
  MaxBacklog        \* bound on the clients that wait to be accepted

ASSUME ServerAssumption ==
  MaxConnections \in Nat \ {0} /\ MaxBacklog \in Nat \ {0}

Slots == 1..MaxConnections
Fds == 1..(MaxConnections + 1)   \* those of the threads and that of the loop

VARIABLES
  g_running,
  g_conn_fds,             \* g_conn_fds[s]: a descriptor, or 0 for -1
  g_active_connections,
  open,                   \* the open descriptors of client sockets
  shut,                   \* those that shutdown() was called for
  loop,                   \* where server_run is, and its locals
  conn,                   \* conn[s]: the thread that was given slot s
  client,                 \* what has arrived on a socket and is not read yet
  backlog,                \* the clients that wait to be accepted
  resources               \* the lock table and the pager: "up" or "down"

vars == <<g_running, g_conn_fds, g_active_connections, open, shut, loop, conn,
          client, backlog, resources>>
table == <<g_conn_fds, g_active_connections>>
sockets == <<open, shut, client>>

Arrived == {"nothing", "part", "whole"}
LoopAt == {"test", "accept", "accepted", "registered", "unregister", "shutdown",
           "asleep", "awake", "done"}
ConnAt == {"none", "recv", "stats", "execute", "close", "unregister"}

NoConn == [pc |-> "none", fd |-> 0]
Init ==
  /\ g_running = TRUE
  /\ g_conn_fds = [s \in Slots |-> 0]
  /\ g_active_connections = 0
  /\ open = {} /\ shut = {}
  /\ loop = [pc |-> "test", fd |-> 0, slot |-> 0]
  /\ conn = [s \in Slots |-> NoConn]
  /\ client = [f \in Fds |-> "nothing"]
  /\ backlog = 0
  /\ resources = "up"

-----------------------------------------------------------------------------
\* The world outside: a client connects, or a part of a request arrives.
Connect ==
  /\ backlog < MaxBacklog
  /\ loop.pc \notin {"asleep", "awake", "done"}
  /\ backlog' = backlog + 1
  /\ UNCHANGED <<g_running, table, sockets, loop, conn, resources>>

Arrive(f) ==
  /\ f \in open \ shut
  /\ \/ client[f] = "nothing" /\ client' = [client EXCEPT ![f] = "part"]
     \/ client[f] # "whole" /\ client' = [client EXCEPT ![f] = "whole"]
  /\ UNCHANGED <<g_running, table, open, shut, loop, conn, backlog, resources>>

\* sigint_handler.  accept ends with EINTR only if the loop was already inside
\* it, and the signal went to its thread and not to another one.
sigint_handler ==
  /\ g_running
  /\ loop.pc # "done"
  /\ g_running' = FALSE
  /\ \/ UNCHANGED loop
     \/ loop.pc = "accept" /\ loop' = [loop EXCEPT !.pc = "test"]
  /\ UNCHANGED <<table, sockets, conn, backlog, resources>>

-----------------------------------------------------------------------------
\* The accept loop.
TestRunning ==
  /\ loop.pc = "test"
  /\ loop' = [loop EXCEPT !.pc = IF g_running THEN "accept" ELSE "shutdown"]
  /\ UNCHANGED <<g_running, table, sockets, conn, backlog, resources>>

\* accept returns a connection, or an error.
Accept ==
  /\ loop.pc = "accept" /\ backlog > 0
  /\ backlog' = backlog - 1
  /\ \/ LET fd == CHOOSE f \in Fds \ open : \A g \in Fds \ open : f <= g IN
        /\ open' = open \cup {fd}
        /\ client' = [client EXCEPT ![fd] = "nothing"]
        /\ loop' = [loop EXCEPT !.pc = "accepted", !.fd = fd]
     \/ loop' = [loop EXCEPT !.pc = "test"] /\ UNCHANGED <<open, client>>
  /\ UNCHANGED <<g_running, table, shut, conn, resources>>

Close(fd) ==
  /\ open' = open \ {fd}
  /\ shut' = shut \ {fd}
  /\ UNCHANGED client

\* Mutant: the socket stays open.
Refuse_Leaks ==
  /\ loop' = [loop EXCEPT !.pc = "test", !.fd = 0]
  /\ UNCHANGED <<table, sockets>>
\* setsockopt fails or the table is full: the connection is closed.
Refuse ==
  /\ Close(loop.fd)
  /\ loop' = [loop EXCEPT !.pc = "test", !.fd = 0]
  /\ UNCHANGED table

register_connection_fd ==
  LET unused == {s \in Slots : g_conn_fds[s] = 0} IN
  /\ loop.pc = "accepted"
  /\ \/ /\ g_active_connections < MaxConnections /\ unused # {}
        /\ LET slot == CHOOSE s \in unused : \A u \in unused : s <= u IN
           /\ g_conn_fds' = [g_conn_fds EXCEPT ![slot] = loop.fd]
           /\ loop' = [loop EXCEPT !.pc = "registered", !.slot = slot]
        /\ g_active_connections' = g_active_connections + 1
        /\ UNCHANGED sockets
     \/ Refuse
  /\ UNCHANGED <<g_running, conn, backlog, resources>>

\* Mutant: the slot is not given back when pthread_create fails.
CreateThread_KeepsSlot ==
  /\ loop.pc = "registered"
  /\ \/ /\ conn' = [conn EXCEPT ![loop.slot] = [pc |-> "recv", fd |-> loop.fd]]
        /\ UNCHANGED sockets
     \/ Close(loop.fd) /\ UNCHANGED conn
  /\ loop' = [pc |-> "test", fd |-> 0, slot |-> 0]
  /\ UNCHANGED <<g_running, table, backlog, resources>>
\* pthread_create; when it fails, the socket is closed and the slot given back.
CreateThread ==
  /\ loop.pc = "registered"
  /\ \/ /\ conn' = [conn EXCEPT ![loop.slot] = [pc |-> "recv", fd |-> loop.fd]]
        /\ loop' = [pc |-> "test", fd |-> 0, slot |-> 0]
        /\ UNCHANGED sockets
     \/ /\ Close(loop.fd)
        /\ loop' = [loop EXCEPT !.pc = "unregister", !.fd = 0]
        /\ UNCHANGED conn
  /\ UNCHANGED <<g_running, table, backlog, resources>>

\* Mutant: nobody is woken up.
Broadcast_Never(at) == at
\* pthread_cond_broadcast after the last connection wakes the shutdown.
Broadcast(at) ==
  IF g_active_connections = 1 /\ at = "asleep" THEN "awake" ELSE at

unregister_connection_slot(s) ==
  /\ g_conn_fds' = [g_conn_fds EXCEPT ![s] = 0]
  /\ g_active_connections' = g_active_connections - 1

GiveSlotBack ==
  /\ loop.pc = "unregister"
  /\ unregister_connection_slot(loop.slot)
  /\ loop' = [pc |-> "test", fd |-> 0, slot |-> 0]
  /\ UNCHANGED <<g_running, sockets, conn, backlog, resources>>

-----------------------------------------------------------------------------
\* Mutant: only as many slots as there are connections are looked at.
Registered_FirstActive == {g_conn_fds[s] : s \in 1..g_active_connections} \ {0}
\* The sockets of the table.
Registered == {g_conn_fds[s] : s \in Slots} \ {0}

Wait == IF g_active_connections > 0 THEN "asleep" ELSE "done"

\* db_destroy, pager_flush_all and pager_close, when nobody is left.
TakenDown(at) == IF at = "done" THEN "down" ELSE resources

\* The shutdown, under g_conn_lock up to the wait for the condition.
ShutDown ==
  /\ loop.pc = "shutdown"
  /\ shut' = shut \cup (Registered \cap open)
  /\ backlog' = 0
  /\ loop' = [loop EXCEPT !.pc = Wait]
  /\ resources' = TakenDown(Wait)
  /\ UNCHANGED <<g_running, table, open, client, conn>>

\* pthread_cond_wait may return without a reason.
WakeUp ==
  /\ loop.pc = "asleep"
  /\ loop' = [loop EXCEPT !.pc = "awake"]
  /\ UNCHANGED <<g_running, table, sockets, conn, backlog, resources>>

\* Mutant: an if in place of the while.
WaitAgain_Once ==
  /\ loop.pc = "awake"
  /\ loop' = [loop EXCEPT !.pc = "done"]
  /\ resources' = "down"
  /\ UNCHANGED <<g_running, table, sockets, conn, backlog>>
\* The test of the while loop after pthread_cond_wait.
WaitAgain ==
  /\ loop.pc = "awake"
  /\ loop' = [loop EXCEPT !.pc = Wait]
  /\ resources' = TakenDown(Wait)
  /\ UNCHANGED <<g_running, table, sockets, conn, backlog>>

-----------------------------------------------------------------------------
\* A connection thread.
Goes(s, to) == conn' = [conn EXCEPT ![s].pc = to]

\* http_read_request has a whole request: a statement, /stats, or neither.
Receive(s) ==
  LET fd == conn[s].fd IN
  /\ conn[s].pc = "recv" /\ client[fd] = "whole"
  /\ client' = [client EXCEPT ![fd] = "nothing"]
  /\ \E to \in {"execute", "stats", "close"} : Goes(s, to)
  /\ UNCHANGED <<g_running, table, open, shut, loop, backlog, resources>>

\* recv returns 0 or an error: the client has gone, 30 seconds have passed, or
\* the socket was shut down.  What has arrived so far is taken for a request.
Ended(s) ==
  LET fd == conn[s].fd IN
  /\ conn[s].pc = "recv" /\ client[fd] # "whole"
  /\ client' = [client EXCEPT ![fd] = "nothing"]
  /\ \E to \in {"execute", "stats", "close"} :
       /\ client[fd] = "nothing" => to = "close"
       /\ Goes(s, to)
  /\ UNCHANGED <<g_running, table, open, shut, loop, backlog, resources>>

\* The request is answered; the connection is kept or closed.
handle_one_request(s) ==
  /\ conn[s].pc \in {"execute", "stats"}
  /\ \E to \in {"recv", "close"} : Goes(s, to)
  /\ UNCHANGED <<g_running, table, sockets, loop, backlog, resources>>

\* Mutant: the connection is counted out here and in EndConnection.
CloseConnection_CountsOut(s) ==
  /\ conn[s].pc = "close"
  /\ Close(conn[s].fd)
  /\ g_active_connections' = g_active_connections - 1
  /\ conn' = [conn EXCEPT ![s] = [pc |-> "unregister", fd |-> 0]]
  /\ UNCHANGED <<g_running, g_conn_fds, loop, backlog, resources>>
CloseConnection(s) ==
  /\ conn[s].pc = "close"
  /\ Close(conn[s].fd)
  /\ conn' = [conn EXCEPT ![s] = [pc |-> "unregister", fd |-> 0]]
  /\ UNCHANGED <<g_running, table, loop, backlog, resources>>

EndConnection(s) ==
  /\ conn[s].pc = "unregister"
  /\ unregister_connection_slot(s)
  /\ loop' = [loop EXCEPT !.pc = Broadcast(loop.pc)]
  /\ conn' = [conn EXCEPT ![s] = NoConn]
  /\ UNCHANGED <<g_running, sockets, backlog, resources>>

-----------------------------------------------------------------------------
server_run ==
  \/ TestRunning \/ Accept \/ register_connection_fd \/ CreateThread
  \/ GiveSlotBack \/ ShutDown \/ WaitAgain

connection_handler(s) ==
  \/ Receive(s) \/ Ended(s) \/ handle_one_request(s)
  \/ CloseConnection(s) \/ EndConnection(s)

Done == loop.pc = "done" /\ UNCHANGED vars

Next ==
  \/ Connect \/ sigint_handler \/ WakeUp \/ server_run \/ Done
  \/ \E f \in Fds : Arrive(f)
  \/ \E s \in Slots : connection_handler(s)

Spec == Init /\ [][Next]_vars

\* The threads are scheduled, and recv ends at the latest after its timeout.
\* Nothing is assumed of the clients, of signals, or of spurious wake-ups.
Fairness == WF_vars(server_run) /\ \A s \in Slots : WF_vars(connection_handler(s))

FairSpec == Spec /\ Fairness
-----------------------------------------------------------------------------
TypeOK ==
  /\ g_running \in BOOLEAN
  /\ g_conn_fds \in [Slots -> Fds \cup {0}]
  /\ g_active_connections \in 0..MaxConnections
  /\ open \subseteq Fds /\ shut \subseteq open
  /\ loop \in [pc : LoopAt, fd : Fds \cup {0}, slot : Slots \cup {0}]
  /\ conn \in [Slots -> [pc : ConnAt, fd : Fds \cup {0}]]
  /\ client \in [Fds -> Arrived]
  /\ backlog \in 0..MaxBacklog
  /\ resources \in {"up", "down"}

\* The owners of socket f: the accept loop and the connection threads.
Owners(f) ==
  {s \in Slots : conn[s].fd = f} \cup (IF loop.fd = f THEN {0} ELSE {})

\* Every open socket has one owner, who will close it, and nobody has a socket
\* that is closed: no error path of server_run leaks a descriptor or closes the
\* one of another connection (accept hands closed numbers out again).
SocketsOwned ==
  \A f \in Fds : Cardinality(Owners(f)) = IF f \in open THEN 1 ELSE 0

\* g_active_connections counts the slots in use, and each of them is in use by
\* a thread or by the accept loop: no slot is lost to a failed pthread_create.
SlotsOwned ==
  /\ g_active_connections = Cardinality({s \in Slots : g_conn_fds[s] # 0})
  /\ \A s \in Slots :
       g_conn_fds[s] # 0 <=>
         \/ conn[s].pc # "none"
         \/ loop.slot = s /\ loop.pc \in {"registered", "unregister"}

\* After the loop over g_conn_fds no thread reads a socket that is still open
\* for it: none of them can hold the shutdown up for longer than a statement.
ShutdownReaches ==
  loop.pc \in {"asleep", "awake"} =>
    \A s \in Slots : conn[s].pc = "recv" => conn[s].fd \in shut

\* No connection thread works on a lock table that is destroyed or a file that
\* is closed (db_destroy and pager_close after the wait in server_run).
NoUseAfterClose ==
  resources = "down" => \A s \in Slots : conn[s].pc = "none"

\* A shutdown that has begun is completed, whatever the clients do.
ShutdownCompletes == loop.pc = "shutdown" ~> loop.pc = "done"

\* SIGINT ends the server.
SigintStops == ~g_running ~> loop.pc = "done"
=============================================================================
