---------------------------- MODULE ServerProofs ----------------------------
(***************************************************************************)
(* Proofs about Server for every MAX_CONNECTIONS and every number of       *)
(* waiting clients: no error path of the accept loop or of a connection    *)
(* thread loses a socket or a slot, and the shutdown takes nothing down    *)
(* that a connection thread still uses.                                    *)
(***************************************************************************)
EXTENDS Server, FiniteSetTheorems, WellFoundedInduction, TLAPS

\* The slots that name a socket.
InUse == {s \in Slots : g_conn_fds[s] # 0}

\* The accept loop has a socket, or a slot, exactly at these places.
LoopLocals ==
  /\ loop.fd # 0 <=> loop.pc \in {"accepted", "registered"}
  /\ loop.slot # 0 <=> loop.pc \in {"registered", "unregister"}

\* A connection thread has its socket until it closes it.
ConnLocals ==
  \A s \in Slots :
    conn[s].fd # 0 <=> conn[s].pc \in {"recv", "stats", "execute", "close"}

\* SocketsOwned without counting: an open socket has an owner, an owned socket
\* is open, and two owners have different sockets.
Owned ==
  /\ \A f \in open : loop.fd = f \/ \E s \in Slots : conn[s].fd = f
  /\ loop.fd # 0 => loop.fd \in open
  /\ \A s \in Slots : conn[s].fd # 0 =>
       /\ conn[s].fd \in open
       /\ conn[s].fd # loop.fd
       /\ \A u \in Slots \ {s} : conn[u].fd # conn[s].fd

\* The slot that the loop has taken is not that of a thread, and a slot names
\* the socket of its owner.
TableNames ==
  /\ loop.slot # 0 => conn[loop.slot].pc = "none"
  /\ loop.pc = "registered" => g_conn_fds[loop.slot] = loop.fd
  /\ \A s \in Slots : conn[s].fd # 0 => g_conn_fds[s] = conn[s].fd

\* ShutdownReaches for every thread that has a socket, not only in recv: a
\* thread that answers a request may go back to recv.
AllShut ==
  loop.pc \in {"asleep", "awake"} =>
    \A s \in Slots : conn[s].fd # 0 => conn[s].fd \in shut

\* The server is taken down at the end, when no connection is counted.
DownAtTheEnd ==
  /\ resources = "down" => loop.pc = "done"
  /\ loop.pc = "done" => g_active_connections = 0

Inv ==
  /\ TypeOK /\ LoopLocals /\ ConnLocals /\ Owned
  /\ SlotsOwned /\ TableNames /\ AllShut /\ DownAtTheEnd

-----------------------------------------------------------------------------
\* The slots and the descriptors are finite, and there is one descriptor more.
LEMMA Sizes ==
  /\ IsFiniteSet(Slots) /\ Cardinality(Slots) = MaxConnections
  /\ IsFiniteSet(Fds) /\ Cardinality(Fds) = MaxConnections + 1
  /\ Slots \subseteq Nat /\ Fds \subseteq Nat /\ 0 \notin Slots /\ 0 \notin Fds
<1>1. MaxConnections \in Nat /\ MaxConnections > 0
  BY ServerAssumption
<1>2. /\ IsFiniteSet(Slots) /\ Cardinality(Slots) = MaxConnections
  BY <1>1, FS_Interval, 1 \in Int, MaxConnections \in Int DEF Slots
<1>3. /\ IsFiniteSet(Fds) /\ Cardinality(Fds) = MaxConnections + 1
  BY <1>1, FS_Interval, 1 \in Int, MaxConnections + 1 \in Int DEF Fds
<1>. QED
  BY <1>1, <1>2, <1>3 DEF Slots, Fds

\* A set of natural numbers that is not empty has a least one.
LEMMA LeastExists ==
  ASSUME NEW S \in SUBSET Nat, S # {}
  PROVE  \E x \in S : \A y \in S : x <= y
<1>. DEFINE less == OpToRel(<, Nat)
<1>1. \A x, y \in Nat : <<y, x>> \in less <=> y < x
  BY DEF OpToRel
<1>2. IsWellFoundedOn(less, Nat)
  BY NatLessThanWellFounded
<1>. HIDE DEF less
<1>3. PICK x \in S : \A y \in S : ~ (<<y, x>> \in less)
  BY <1>2, WFMin
<1>4. \A y \in S : x \in Nat /\ y \in Nat /\ ~ (y < x)
  BY <1>1, <1>3
<1>. QED
  BY <1>4

\* The slots in use are finitely many.
LEMMA InUseFinite ==
  /\ IsFiniteSet(InUse) /\ Cardinality(InUse) \in 0..MaxConnections
<1>1. InUse \in SUBSET Slots
  BY DEF InUse
<1>2. IsFiniteSet(InUse) /\ Cardinality(InUse) <= MaxConnections
  BY <1>1, Sizes, FS_Subset
<1>. QED
  BY <1>2, FS_CardinalityType, ServerAssumption

\* When the loop has no socket, accept finds an unused descriptor: every open
\* one is owned by a thread, and there are fewer threads than descriptors.
LEMMA NextSocket ==
  ASSUME TypeOK, Owned, loop.fd = 0
  PROVE  \E f \in Fds \ open : \A g \in Fds \ open : f <= g
<1>1. ASSUME Fds \subseteq open PROVE FALSE
  <2>1. \A f \in Fds : \E s \in Slots : conn[s].fd = f
    BY <1>1, Sizes DEF Owned
  <2>. DEFINE owner == [f \in Fds |-> CHOOSE s \in Slots : conn[s].fd = f]
  <2>2. \A f \in Fds : owner[f] \in Slots /\ conn[owner[f]].fd = f
    BY <2>1
  <2>3. owner \in [Fds -> Slots]
    BY <2>2
  <2>. HIDE DEF owner
  <2>4. Cardinality(Slots) < Cardinality(Fds)
    BY Sizes, ServerAssumption
  <2>5. \E f, g \in Fds : f # g /\ owner[f] = owner[g]
    BY <2>3, <2>4, Sizes, FS_PigeonHole
  <2>. QED
    BY <2>2, <2>5
<1>2. Fds \ open # {} /\ Fds \ open \in SUBSET Nat
  BY <1>1, Sizes
<1>. QED
  BY <1>2, LeastExists

\* Giving back a slot that is in use counts one connection less.
LEMMA Unregister ==
  ASSUME TypeOK, SlotsOwned, NEW s \in Slots, g_conn_fds[s] # 0,
         unregister_connection_slot(s)
  PROVE  /\ g_conn_fds' \in [Slots -> Fds \cup {0}]
         /\ g_active_connections' \in 0..MaxConnections
         /\ g_active_connections' = Cardinality(InUse')
         /\ g_active_connections > 0
         /\ \A u \in Slots : g_conn_fds'[u] = IF u = s THEN 0 ELSE g_conn_fds[u]
<1>1. g_conn_fds' = [g_conn_fds EXCEPT ![s] = 0]
  BY DEF unregister_connection_slot
<1>2. /\ g_conn_fds' \in [Slots -> Fds \cup {0}]
      /\ \A u \in Slots : g_conn_fds'[u] = IF u = s THEN 0 ELSE g_conn_fds[u]
  BY <1>1 DEF TypeOK
<1>3. InUse' = InUse \ {s} /\ s \in InUse
  BY <1>2 DEF InUse
<1>4. Cardinality(InUse') = Cardinality(InUse) - 1
  BY <1>3, InUseFinite, FS_RemoveElement
<1>5. Cardinality(InUse) # 0
  BY <1>3, InUseFinite, FS_EmptySet
<1>6. g_active_connections = Cardinality(InUse)
  BY DEF SlotsOwned, InUse
<1>7. g_active_connections' = g_active_connections - 1
  BY DEF unregister_connection_slot
<1>. QED
  BY <1>2, <1>4, <1>5, <1>6, <1>7, InUseFinite, ServerAssumption

\* Taking a slot that is not in use counts one connection more.
LEMMA Register ==
  ASSUME TypeOK, SlotsOwned, NEW s \in Slots, NEW fd \in Fds, g_conn_fds[s] = 0,
         g_active_connections < MaxConnections,
         g_conn_fds' = [g_conn_fds EXCEPT ![s] = fd],
         g_active_connections' = g_active_connections + 1
  PROVE  /\ g_conn_fds' \in [Slots -> Fds \cup {0}]
         /\ g_active_connections' \in 0..MaxConnections
         /\ g_active_connections' = Cardinality(InUse')
         /\ \A u \in Slots : g_conn_fds'[u] = IF u = s THEN fd ELSE g_conn_fds[u]
<1>1. /\ g_conn_fds' \in [Slots -> Fds \cup {0}]
      /\ \A u \in Slots : g_conn_fds'[u] = IF u = s THEN fd ELSE g_conn_fds[u]
  BY DEF TypeOK
<1>2. InUse' = InUse \cup {s} /\ s \notin InUse
  BY <1>1, Sizes DEF InUse
<1>3. Cardinality(InUse') = Cardinality(InUse) + 1
  BY <1>2, InUseFinite, FS_AddElement
<1>4. g_active_connections = Cardinality(InUse)
  BY DEF SlotsOwned, InUse
<1>. QED
  BY <1>1, <1>3, <1>4, InUseFinite, ServerAssumption

-----------------------------------------------------------------------------
\* The invariant holds in the initial state.
LEMMA InitInv == Init => Inv
<1>. SUFFICES ASSUME Init PROVE Inv
  OBVIOUS
<1>1. TypeOK
  BY ServerAssumption
  DEF Init, TypeOK, NoConn, Arrived, LoopAt, ConnAt
<1>2. LoopLocals /\ ConnLocals /\ Owned /\ TableNames /\ AllShut /\ DownAtTheEnd
  BY Sizes DEF Init, NoConn, LoopLocals, ConnLocals, Owned, TableNames, AllShut,
               DownAtTheEnd
<1>3. {s \in Slots : g_conn_fds[s] # 0} = {}
  BY DEF Init
<1>4. SlotsOwned
  BY <1>3, Sizes, FS_EmptySet DEF Init, NoConn, SlotsOwned
<1>. QED
  BY <1>1, <1>2, <1>4 DEF Inv

\* What arrives, a signal and a wake-up leave sockets, slots and threads alone.
LEMMA OutsideInv ==
  ASSUME Inv, \/ Connect \/ sigint_handler \/ WakeUp
              \/ \E f \in Fds : Arrive(f)
  PROVE  Inv'
<1>1. CASE Connect
  BY <1>1, ServerAssumption
  DEF Connect, table, sockets, Inv, TypeOK, LoopLocals, ConnLocals, Owned,
      SlotsOwned, TableNames, AllShut, DownAtTheEnd
<1>2. CASE sigint_handler
  <2>1. \/ loop' = [loop EXCEPT !.pc = "test"] /\ loop.pc = "accept"
        \/ loop' = loop
    BY <1>2 DEF sigint_handler
  <2>2. /\ loop' \in [pc : LoopAt, fd : Fds \cup {0}, slot : Slots \cup {0}]
        /\ loop'.fd = loop.fd /\ loop'.slot = loop.slot
        /\ \/ loop'.pc = loop.pc
           \/ loop.pc = "accept" /\ loop'.pc = "test"
    BY <2>1 DEF Inv, TypeOK, LoopAt
  <2>3. TypeOK'
    BY <1>2, <2>2 DEF sigint_handler, table, sockets, Inv, TypeOK
  <2>. QED
    BY <1>2, <2>2, <2>3
    DEF sigint_handler, table, sockets, Inv, LoopLocals, ConnLocals, Owned,
        SlotsOwned, TableNames, AllShut, DownAtTheEnd
<1>3. CASE WakeUp
  BY <1>3
  DEF WakeUp, table, sockets, LoopAt, Inv, TypeOK, LoopLocals, ConnLocals, Owned,
      SlotsOwned, TableNames, AllShut, DownAtTheEnd
<1>4. ASSUME NEW f \in Fds, Arrive(f)
      PROVE  Inv'
  BY <1>4
  DEF Arrive, table, Arrived, Inv, TypeOK, LoopLocals, ConnLocals, Owned,
      SlotsOwned, TableNames, AllShut, DownAtTheEnd
<1>. QED
  BY <1>1, <1>2, <1>3, <1>4

\* accept gives the loop a socket that nobody owns.
LEMMA AcceptInv ==
  ASSUME Inv, Accept
  PROVE  Inv'
<1>. DEFINE unused == Fds \ open
            fd == CHOOSE f \in unused : \A g \in unused : f <= g
<1>1. fd \in Fds \ open
  BY NextSocket DEF Accept, Inv, LoopLocals
<1>2. CASE /\ open' = open \cup {fd}
           /\ client' = [client EXCEPT ![fd] = "nothing"]
           /\ loop' = [loop EXCEPT !.pc = "accepted", !.fd = fd]
  <2>. HIDE DEF fd
  <2>1. loop' = [pc |-> "accepted", fd |-> fd, slot |-> 0]
    BY <1>2 DEF Accept, Inv, TypeOK, LoopLocals
  <2>2. TypeOK'
    BY <1>1, <1>2, <2>1, ServerAssumption
    DEF Accept, table, Arrived, LoopAt, Inv, TypeOK
  <2>3. LoopLocals' /\ ConnLocals' /\ Owned'
    BY <1>1, <1>2, <2>1, Sizes DEF Accept, Inv, TypeOK, LoopLocals, ConnLocals, Owned
  <2>4. SlotsOwned' /\ TableNames' /\ AllShut' /\ DownAtTheEnd'
    BY <2>1 DEF Accept, table, Inv, SlotsOwned, TableNames, AllShut, DownAtTheEnd
  <2>. QED
    BY <2>2, <2>3, <2>4 DEF Inv
<1>3. CASE loop' = [loop EXCEPT !.pc = "test"] /\ UNCHANGED <<open, client>>
  BY <1>3, ServerAssumption
  DEF Accept, table, LoopAt, Inv, TypeOK, LoopLocals, ConnLocals, Owned,
      SlotsOwned, TableNames, AllShut, DownAtTheEnd
<1>. QED
  BY <1>2, <1>3 DEF Accept

\* Registering counts the slot and makes the loop its owner; a refusal closes
\* the socket that only the loop owns.
LEMMA RegisterInv ==
  ASSUME Inv, register_connection_fd
  PROVE  Inv'
<1>. DEFINE unused == {s \in Slots : g_conn_fds[s] = 0}
            free == CHOOSE s \in unused : \A u \in unused : s <= u
<1>1. loop.pc = "accepted" /\ loop.fd \in open /\ loop.fd \in Fds /\ loop.slot = 0
  BY DEF register_connection_fd, Inv, TypeOK, LoopLocals, Owned
<1>2. CASE /\ g_active_connections < MaxConnections /\ unused # {}
           /\ g_conn_fds' = [g_conn_fds EXCEPT ![free] = loop.fd]
           /\ loop' = [loop EXCEPT !.pc = "registered", !.slot = free]
           /\ g_active_connections' = g_active_connections + 1
           /\ UNCHANGED sockets
  <2>1. free \in Slots /\ g_conn_fds[free] = 0
    <3>1. unused \in SUBSET Nat
      BY Sizes
    <3>2. \E s \in unused : \A u \in unused : s <= u
      BY <1>2, <3>1, LeastExists
    <3>. QED
      BY <3>2
  <2>. HIDE DEF free
  <2>2. /\ g_conn_fds' \in [Slots -> Fds \cup {0}]
        /\ g_active_connections' \in 0..MaxConnections
        /\ g_active_connections' = Cardinality(InUse')
        /\ \A u \in Slots :
             g_conn_fds'[u] = IF u = free THEN loop.fd ELSE g_conn_fds[u]
    BY <1>1, <1>2, <2>1, Register DEF Inv
  <2>3. loop' = [pc |-> "registered", fd |-> loop.fd, slot |-> free]
    BY <1>2 DEF Inv, TypeOK
  <2>4. TypeOK' /\ LoopLocals' /\ ConnLocals' /\ Owned'
    BY <1>1, <1>2, <2>1, <2>2, <2>3, Sizes
    DEF register_connection_fd, sockets, LoopAt, Inv, TypeOK, LoopLocals,
        ConnLocals, Owned
  <2>5. conn[free].pc = "none" /\ conn[free].fd = 0
    BY <2>1 DEF Inv, SlotsOwned, ConnLocals
  <2>6. SlotsOwned' /\ TableNames' /\ AllShut' /\ DownAtTheEnd'
    BY <1>1, <1>2, <2>1, <2>2, <2>3, <2>5, Sizes
    DEF register_connection_fd, InUse, Inv, SlotsOwned, TableNames, AllShut,
        DownAtTheEnd
  <2>. QED
    BY <2>4, <2>6 DEF Inv
<1>3. CASE Refuse
  <2>1. loop' = [pc |-> "test", fd |-> 0, slot |-> 0]
    BY <1>1, <1>3 DEF Refuse, Inv, TypeOK
  <2>2. TypeOK' /\ LoopLocals' /\ ConnLocals' /\ Owned'
    BY <1>1, <1>3, <2>1, Sizes
    DEF register_connection_fd, Refuse, Close, table, LoopAt, Inv, TypeOK,
        LoopLocals, ConnLocals, Owned
  <2>3. SlotsOwned' /\ TableNames' /\ AllShut' /\ DownAtTheEnd'
    BY <1>1, <1>3, <2>1
    DEF register_connection_fd, Refuse, table, Inv, SlotsOwned, TableNames,
        AllShut, DownAtTheEnd
  <2>. QED
    BY <2>2, <2>3 DEF Inv
<1>. QED
  BY <1>2, <1>3 DEF register_connection_fd

\* pthread_create hands the socket and the slot over to the thread, or the loop
\* closes the one and keeps the other until it gives it back.
LEMMA CreateThreadInv ==
  ASSUME Inv, CreateThread
  PROVE  Inv'
<1>1. /\ loop.pc = "registered" /\ loop.fd \in open /\ loop.fd \in Fds
      /\ loop.slot \in Slots /\ conn[loop.slot].pc = "none"
      /\ conn[loop.slot].fd = 0
  BY Sizes DEF CreateThread, Inv, TypeOK, LoopLocals, ConnLocals, Owned, TableNames
<1>2. CASE /\ conn' = [conn EXCEPT ![loop.slot] = [pc |-> "recv", fd |-> loop.fd]]
           /\ loop' = [pc |-> "test", fd |-> 0, slot |-> 0]
           /\ UNCHANGED sockets
  <2>1. \A s \in Slots :
          conn'[s] = IF s = loop.slot THEN [pc |-> "recv", fd |-> loop.fd] ELSE conn[s]
    BY <1>1, <1>2 DEF Inv, TypeOK
  <2>2. TypeOK'
    BY <1>1, <1>2
    DEF CreateThread, table, sockets, LoopAt, ConnAt, Inv, TypeOK
  <2>3. LoopLocals' /\ ConnLocals' /\ Owned'
    BY <1>1, <1>2, <2>1, Sizes
    DEF CreateThread, sockets, Inv, TypeOK, LoopLocals, ConnLocals, Owned
  <2>4. SlotsOwned' /\ TableNames' /\ AllShut' /\ DownAtTheEnd'
    BY <1>1, <1>2, <2>1, Sizes
    DEF CreateThread, table, Inv, TypeOK, SlotsOwned, TableNames, AllShut,
        DownAtTheEnd
  <2>. QED
    BY <2>2, <2>3, <2>4 DEF Inv
<1>3. CASE /\ Close(loop.fd)
           /\ loop' = [loop EXCEPT !.pc = "unregister", !.fd = 0]
           /\ UNCHANGED conn
  <2>1. loop' = [pc |-> "unregister", fd |-> 0, slot |-> loop.slot]
    BY <1>3 DEF Inv, TypeOK
  <2>2. TypeOK' /\ LoopLocals' /\ ConnLocals' /\ Owned'
    BY <1>1, <1>3, <2>1, Sizes
    DEF CreateThread, Close, table, LoopAt, Inv, TypeOK, LoopLocals, ConnLocals,
        Owned
  <2>3. SlotsOwned' /\ TableNames' /\ AllShut' /\ DownAtTheEnd'
    BY <1>1, <1>3, <2>1
    DEF CreateThread, table, Inv, SlotsOwned, TableNames, AllShut, DownAtTheEnd
  <2>. QED
    BY <2>2, <2>3 DEF Inv
<1>. QED
  BY <1>2, <1>3 DEF CreateThread

\* The loop gives back the slot of the thread that could not be created.
LEMMA GiveSlotBackInv ==
  ASSUME Inv, GiveSlotBack
  PROVE  Inv'
<1>1. /\ loop.pc = "unregister" /\ loop.slot \in Slots /\ loop.fd = 0
      /\ conn[loop.slot].pc = "none" /\ conn[loop.slot].fd = 0
  BY Sizes DEF GiveSlotBack, Inv, TypeOK, LoopLocals, ConnLocals, TableNames
<1>2. g_conn_fds[loop.slot] # 0
  BY <1>1 DEF Inv, SlotsOwned
<1>3. /\ g_conn_fds' \in [Slots -> Fds \cup {0}]
      /\ g_active_connections' \in 0..MaxConnections
      /\ g_active_connections' = Cardinality(InUse')
      /\ \A u \in Slots :
           g_conn_fds'[u] = IF u = loop.slot THEN 0 ELSE g_conn_fds[u]
  BY <1>1, <1>2, Unregister DEF GiveSlotBack, Inv
<1>4. TypeOK' /\ LoopLocals' /\ ConnLocals' /\ Owned'
  BY <1>1, <1>3
  DEF GiveSlotBack, sockets, LoopAt, Inv, TypeOK, LoopLocals, ConnLocals, Owned
<1>5. SlotsOwned' /\ TableNames' /\ AllShut' /\ DownAtTheEnd'
  BY <1>1, <1>3, Sizes
  DEF GiveSlotBack, InUse, Inv, SlotsOwned, TableNames, AllShut, DownAtTheEnd
<1>. QED
  BY <1>4, <1>5 DEF Inv

\* The rest of the loop: the test, the shutdown and its wait.
LEMMA LoopInv ==
  ASSUME Inv, TestRunning \/ ShutDown \/ WaitAgain
  PROVE  Inv'
<1>1. CASE TestRunning
  BY <1>1
  DEF TestRunning, table, sockets, LoopAt, Inv, TypeOK, LoopLocals, ConnLocals,
      Owned, SlotsOwned, TableNames, AllShut, DownAtTheEnd
<1>2. CASE ShutDown
  <2>1. \A s \in Slots : conn[s].fd # 0 => conn[s].fd \in Registered \cap open
    BY <1>2, Sizes DEF Registered, Inv, Owned, TableNames
  <2>2. TypeOK' /\ AllShut'
    BY <1>2, <2>1, ServerAssumption
    DEF ShutDown, Wait, TakenDown, table, LoopAt, Inv, TypeOK, AllShut
  <2>3. LoopLocals' /\ ConnLocals' /\ Owned' /\ SlotsOwned' /\ TableNames'
        /\ DownAtTheEnd'
    BY <1>2
    DEF ShutDown, Wait, TakenDown, table, Inv, TypeOK, LoopLocals, ConnLocals,
        Owned, SlotsOwned, TableNames, DownAtTheEnd
  <2>. QED
    BY <2>2, <2>3 DEF Inv
<1>3. CASE WaitAgain
  BY <1>3
  DEF WaitAgain, Wait, TakenDown, table, sockets, LoopAt, Inv, TypeOK,
      LoopLocals, ConnLocals, Owned, SlotsOwned, TableNames, AllShut,
      DownAtTheEnd
<1>. QED
  BY <1>1, <1>2, <1>3

\* A step of a connection thread.
LEMMA ConnectionInv ==
  ASSUME Inv, NEW s \in Slots, connection_handler(s)
  PROVE  Inv'
<1>1. CASE Receive(s) \/ Ended(s) \/ handle_one_request(s)
  <2>1. PICK to \in {"recv", "execute", "stats", "close"} :
          /\ conn[s].pc \in {"recv", "stats", "execute"}
          /\ conn' = [conn EXCEPT ![s].pc = to]
    BY <1>1 DEF Receive, Ended, handle_one_request, Goes
  <2>2. /\ \A u \in Slots : conn'[u].fd = conn[u].fd
        /\ \A u \in Slots : conn'[u].pc = IF u = s THEN to ELSE conn[u].pc
        /\ conn' \in [Slots -> [pc : ConnAt, fd : Fds \cup {0}]]
    BY <2>1 DEF Inv, TypeOK, ConnAt
  <2>3. /\ UNCHANGED <<g_running, table, open, shut, loop, backlog, resources>>
        /\ client' \in [Fds -> Arrived]
    BY <1>1
    DEF Receive, Ended, handle_one_request, sockets, Arrived, Inv, TypeOK
  <2>. QED
    BY <2>1, <2>2, <2>3
    DEF table, Inv, TypeOK, LoopLocals, ConnLocals, Owned, SlotsOwned,
        TableNames, AllShut, DownAtTheEnd
<1>2. CASE CloseConnection(s)
  <2>. DEFINE fd == conn[s].fd
  <2>1. /\ fd # 0 /\ fd # loop.fd
        /\ \A u \in Slots \ {s} : conn[u].fd # fd
    BY <1>2 DEF CloseConnection, Inv, ConnLocals, Owned
  <2>2. /\ \A u \in Slots :
             conn'[u] = IF u = s THEN [pc |-> "unregister", fd |-> 0] ELSE conn[u]
        /\ conn' \in [Slots -> [pc : ConnAt, fd : Fds \cup {0}]]
    BY <1>2 DEF CloseConnection, Inv, TypeOK, ConnAt
  <2>3. /\ open' = open \ {fd} /\ shut' = shut \ {fd}
        /\ UNCHANGED <<g_running, table, client, loop, backlog, resources>>
    BY <1>2 DEF CloseConnection, Close
  <2>4. TypeOK'
    BY <2>2, <2>3 DEF table, Inv, TypeOK
  <2>5. LoopLocals' /\ ConnLocals'
    BY <2>2, <2>3 DEF Inv, LoopLocals, ConnLocals
  <2>6. Owned'
    BY <2>1, <2>2, <2>3, Sizes DEF Inv, TypeOK, Owned
  <2>7. SlotsOwned'
    BY <1>2, <2>2, <2>3 DEF CloseConnection, table, Inv, SlotsOwned
  <2>8. TableNames' /\ AllShut' /\ DownAtTheEnd'
    <3>1. loop.slot # s
      BY <1>2, Sizes DEF CloseConnection, Inv, TableNames
    <3>2. loop.slot \in Slots \cup {0}
      BY DEF Inv, TypeOK
    <3>3. TableNames'
      BY <2>2, <2>3, <3>1, <3>2 DEF table, Inv, TableNames
    <3>4. AllShut' /\ DownAtTheEnd'
      BY <2>1, <2>2, <2>3 DEF table, Inv, AllShut, DownAtTheEnd
    <3>. QED
      BY <3>3, <3>4
  <2>. QED
    BY <2>4, <2>5, <2>6, <2>7, <2>8 DEF Inv
<1>3. CASE EndConnection(s)
  <2>1. conn[s].pc = "unregister" /\ conn[s].fd = 0 /\ g_conn_fds[s] # 0
    BY <1>3 DEF EndConnection, Inv, ConnLocals, SlotsOwned
  <2>2. /\ g_conn_fds' \in [Slots -> Fds \cup {0}]
        /\ g_active_connections' \in 0..MaxConnections
        /\ g_active_connections' = Cardinality(InUse')
        /\ g_active_connections > 0
        /\ \A u \in Slots : g_conn_fds'[u] = IF u = s THEN 0 ELSE g_conn_fds[u]
    BY <1>3, <2>1, Unregister DEF EndConnection, Inv
  <2>3. /\ \A u \in Slots : conn'[u] = IF u = s THEN NoConn ELSE conn[u]
        /\ conn' \in [Slots -> [pc : ConnAt, fd : Fds \cup {0}]]
    BY <1>3 DEF EndConnection, Inv, TypeOK, NoConn, ConnAt
  <2>4. /\ loop' \in [pc : LoopAt, fd : Fds \cup {0}, slot : Slots \cup {0}]
        /\ loop'.fd = loop.fd /\ loop'.slot = loop.slot
        /\ \/ loop'.pc = loop.pc
           \/ loop.pc = "asleep" /\ loop'.pc = "awake"
    BY <1>3 DEF EndConnection, Broadcast, Inv, TypeOK, LoopAt
  <2>5. TypeOK' /\ LoopLocals' /\ ConnLocals' /\ Owned'
    BY <1>3, <2>1, <2>2, <2>3, <2>4, Sizes
    DEF EndConnection, sockets, NoConn, Inv, TypeOK, LoopLocals, ConnLocals, Owned
  <2>6. loop.slot # s /\ loop.pc # "done"
    BY <2>1, <2>2, Sizes DEF Inv, TableNames, DownAtTheEnd
  <2>7. SlotsOwned' /\ TableNames' /\ AllShut' /\ DownAtTheEnd'
    BY <1>3, <2>1, <2>2, <2>3, <2>4, <2>6, Sizes
    DEF EndConnection, sockets, NoConn, InUse, Inv, TypeOK, LoopLocals,
        SlotsOwned, TableNames, AllShut, DownAtTheEnd
  <2>. QED
    BY <2>5, <2>7 DEF Inv
<1>. QED
  BY <1>1, <1>2, <1>3 DEF connection_handler

-----------------------------------------------------------------------------
\* Every step of the server keeps the invariant.
LEMMA NextInv == Inv /\ [Next]_vars => Inv'
<1>. SUFFICES ASSUME Inv, [Next]_vars
              PROVE  Inv'
  OBVIOUS
<1>1. CASE UNCHANGED vars
  BY <1>1
  DEF vars, table, sockets, Inv, TypeOK, LoopLocals, ConnLocals, Owned,
      SlotsOwned, TableNames, AllShut, DownAtTheEnd
<1>2. CASE server_run
  BY <1>2, AcceptInv, RegisterInv, CreateThreadInv, GiveSlotBackInv, LoopInv
  DEF server_run
<1>. QED
  BY <1>1, <1>2, OutsideInv, ConnectionInv DEF Next, Done

\* Inv holds in every state the server reaches.
THEOREM Invariance == Spec => []Inv
<1>. QED
  BY InitInv, NextInv, PTL DEF Spec

\* Every state is of its types: in particular the count of connections never
\* leaves 0..MAX_CONNECTIONS, and accept always finds an unused descriptor.
THEOREM TypeCorrect == Spec => []TypeOK
<1>1. Inv => TypeOK
  BY DEF Inv
<1>. QED
  BY <1>1, Invariance, PTL

\* An open socket has exactly one owner and a closed one none: no error path
\* of server_run or connection_handler leaks a descriptor or closes it twice.
THEOREM EverySocketOwned == Spec => []SocketsOwned
<1>1. ASSUME Inv PROVE SocketsOwned
  <2>. SUFFICES ASSUME NEW f \in Fds
                PROVE  Cardinality(Owners(f)) = IF f \in open THEN 1 ELSE 0
    BY DEF SocketsOwned
  <2>1. f # 0
    BY Sizes
  <2>2. CASE f \in open /\ loop.fd = f
    <3>1. Owners(f) = {0}
      BY <1>1, <2>1, <2>2 DEF Owners, Inv, Owned
    <3>. QED
      BY <2>2, <3>1, FS_Singleton
  <2>3. CASE f \in open /\ loop.fd # f
    <3>1. PICK s \in Slots : conn[s].fd = f
      BY <1>1, <2>3 DEF Inv, Owned
    <3>2. Owners(f) = {s}
      BY <1>1, <2>1, <2>3, <3>1 DEF Owners, Inv, Owned
    <3>. QED
      BY <2>3, <3>2, FS_Singleton
  <2>4. CASE f \notin open
    <3>1. Owners(f) = {}
      BY <1>1, <2>1, <2>4 DEF Owners, Inv, Owned
    <3>. QED
      BY <2>4, <3>1, FS_EmptySet
  <2>. QED
    BY <2>2, <2>3, <2>4
<1>. QED
  BY <1>1, Invariance, PTL

\* The count is that of the slots in use, each by a thread or by the loop: a
\* pthread_create that fails loses no slot.
THEOREM EverySlotOwned == Spec => []SlotsOwned
<1>1. Inv => SlotsOwned
  BY DEF Inv
<1>. QED
  BY <1>1, Invariance, PTL

\* While the shutdown waits, no thread reads a socket it did not shut down.
THEOREM ShutdownReachesAll == Spec => []ShutdownReaches
<1>1. ASSUME Inv PROVE ShutdownReaches
  BY <1>1 DEF Inv, ConnLocals, AllShut, ShutdownReaches
<1>. QED
  BY <1>1, Invariance, PTL

\* When the lock table and the pager are gone, so is every connection thread.
THEOREM NothingUsedAfterClose == Spec => []NoUseAfterClose
<1>1. ASSUME Inv, resources = "down", NEW s \in Slots
      PROVE  conn[s].pc = "none"
  <2>1. Cardinality(InUse) = 0
    BY <1>1 DEF Inv, DownAtTheEnd, SlotsOwned, InUse
  <2>2. InUse = {}
    BY <2>1, InUseFinite, FS_EmptySet
  <2>. QED
    BY <1>1, <2>2 DEF InUse, Inv, SlotsOwned
<1>2. Inv => NoUseAfterClose
  BY <1>1 DEF NoUseAfterClose
<1>. QED
  BY <1>2, Invariance, PTL
=============================================================================
