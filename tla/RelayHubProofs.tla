--------------------------- MODULE RelayHubProofs ---------------------------
(***************************************************************************)
(* Proofs about RelayHub, for every set of room ids, every capacity and    *)
(* every number of connections and frames.                                 *)
(***************************************************************************)
EXTENDS RelayHub, FiniteSetTheorems, TLAPS

(* Connection ids are handed out in order: exactly those below nextId have *)
(* a socket, a room and a history.                                         *)
IdsInOrder ==
    \A c \in Conn :
        /\ phase[c] = "unborn" <=> c >= nextId
        /\ phase[c] # "unborn" => room[c] \in RoomIds
        /\ phase[c] = "unborn" => queue[c] = <<>> /\ down[c] = <<>>

(* A message that may be queued for or written to c: if it is a frame, it  *)
(* was read from a connection of c's room on the other side.               *)
Owed(c, m) == m.type = "frame" => /\ m.src \in Conn
                                  /\ phase[m.src] # "unborn"
                                  /\ room[m.src] = room[c]
                                  /\ role[m.src] # role[c]

FramesOwed == \A c \in Conn : /\ \A i \in 1 .. Len(queue[c]) : Owed(c, queue[c][i])
                              /\ \A i \in 1 .. Len(down[c]) : Owed(c, down[c][i])

(* TableTight and EntriesLive, part by part. *)
TableExact     == held = {r \in RoomIds : daemon[r] # NoConn \/ clients[r] # {}}
DaemonsFiled   == \A r \in RoomIds : daemon[r] # NoConn =>
                      /\ room[daemon[r]] = r
                      /\ role[daemon[r]] = "daemon"
                      /\ phase[daemon[r]] \in Attached
ClientsFiled   == \A r \in RoomIds : \A c \in clients[r] :
                      room[c] = r /\ role[c] = "client" /\ phase[c] \in Attached
ClientsStay    == \A c \in Conn : role[c] = "client" /\ phase[c] \in Attached
                                    => c \in clients[room[c]]
HeldBounded    == IsFiniteSet(held) /\ Cardinality(held) <= MaxRooms
ClientsBounded == \A r \in RoomIds : Cardinality(clients[r]) <= MaxClients

Filed  == TableExact /\ DaemonsFiled /\ ClientsFiled /\ ClientsStay
HubInv == TypeOK /\ IdsInOrder /\ Filed /\ HeldBounded /\ ClientsBounded /\ FramesOwed

-----------------------------------------------------------------------------
(* Typing.                                                                 *)

LEMMA FrameType == ASSUME NEW c \in Conn, NEW n \in 1 .. MaxFrames
                   PROVE  Frame(c, n) \in Outbound
BY DEF Frame, Outbound

LEMMA CloseType == Close(SessionOver) \in Outbound /\ Close(NotKeepingUp) \in Outbound
BY DEF Close, Outbound

LEMMA UnparkType ==
  ASSUME TypeOK, NEW c \in Conn, Unpark(c)
  PROVE  /\ held' \subseteq RoomIds
         /\ daemon' \in [RoomIds -> Conn \cup {NoConn}]
         /\ clients' \in [RoomIds -> SUBSET Conn]
BY DEF TypeOK, Unpark, DaemonAfterUnpark, ClientsAfterUnpark, ForgetIfEmpty

LEMMA ReleaseType ==
  ASSUME TypeOK, NEW c \in Conn, UnparkAndRelease(c)
  PROVE  /\ held' \subseteq RoomIds
         /\ daemon' \in [RoomIds -> Conn \cup {NoConn}]
         /\ clients' \in [RoomIds -> SUBSET Conn]
         /\ queue' \in [Conn -> Seq(Outbound)]
<1>1. held' \subseteq RoomIds
  BY DEF TypeOK, UnparkAndRelease, ForgetIfEmpty
<1>2. daemon' \in [RoomIds -> Conn \cup {NoConn}] /\ clients' \in [RoomIds -> SUBSET Conn]
  BY DEF TypeOK, UnparkAndRelease, ClientsAfterUnpark
<1>3. queue' \in [Conn -> Seq(Outbound)]
  <2> DEFINE d == daemon[room[c]]
  <2>1. queue' = IF HasSpace(d) THEN [queue EXCEPT ![d] = Append(@, Close(SessionOver))]
                 ELSE queue
    BY DEF UnparkAndRelease
  <2> HIDE DEF d
  <2>2. [queue EXCEPT ![d] = Append(@, Close(SessionOver))] \in [Conn -> Seq(Outbound)]
    <3>1. ASSUME d \in Conn PROVE Append(queue[d], Close(SessionOver)) \in Seq(Outbound)
      BY <3>1, CloseType DEF TypeOK
    <3>2. queue \in [Conn -> Seq(Outbound)]
      BY DEF TypeOK
    <3> DEFINE m == Append(queue[d], Close(SessionOver))
    <3> HIDE DEF m
    <3>3. [queue EXCEPT ![d] = m] \in [Conn -> Seq(Outbound)]
      BY <3>1, <3>2 DEF m
    <3>q. QED BY <3>3 DEF m
  <2>q. QED BY <2>1, <2>2 DEF TypeOK
<1>q. QED BY <1>1, <1>2, <1>3

LEMMA AdmitType ==
  ASSUME TypeOK, nextId <= MaxConns, NEW r \in RoomIds, NEW side \in {"daemon", "client"},
         Admit(r, side)
  PROVE  /\ nextId \in Conn /\ nextId' \in 1 .. MaxConns + 1
         /\ room' \in [Conn -> RoomIds \cup {NoRoom}]
         /\ role' \in [Conn -> {"daemon", "client"}]
         /\ phase' \in [Conn -> Phase]
<1>1. nextId \in Conn /\ nextId' \in 1 .. MaxConns + 1
  BY RelayAssumption DEF TypeOK, Admit, Conn
<1>q. QED BY <1>1 DEF TypeOK, Admit, Phase

LEMMA EnqueueType ==
  ASSUME TypeOK, NEW c \in Conn, routed[c] < MaxFrames,
         NEW popped \in SUBSET Full(c), Enqueue(c, popped)
  PROVE  queue' \in [Conn -> Seq(Outbound)] /\ down' \in [Conn -> Seq(Outbound)]
<1>1. Frame(c, routed[c] + 1) \in Outbound
  <2>1. routed[c] + 1 \in 1 .. MaxFrames
    BY RelayAssumption DEF TypeOK
  <2>q. QED BY <2>1, FrameType
<1>2. ASSUME NEW p \in popped, p \in Conn
      PROVE  queue[p] \in Seq(Outbound) /\ queue[p] # <<>>
  BY <1>2, RelayAssumption DEF TypeOK, Full
<1>3. ASSUME NEW p \in Conn PROVE queue'[p] \in Seq(Outbound) /\ down'[p] \in Seq(Outbound)
  <2>1. /\ queue[p] \in Seq(Outbound) /\ down[p] \in Seq(Outbound)
        /\ p \in popped => Tail(queue[p]) \in Seq(Outbound) /\ Head(queue[p]) \in Outbound
    BY <1>2, <1>3 DEF TypeOK
  <2>2. /\ queue'[p] = IF p \in Targets(c) /\ HasSpace(p)
                          THEN Append(queue[p], Frame(c, routed[c] + 1))
                          ELSE IF p \in popped
                            THEN Append(Tail(queue[p]), Close(NotKeepingUp)) ELSE queue[p]
        /\ down'[p] = IF p \in popped THEN Append(down[p], Head(queue[p])) ELSE down[p]
    BY <1>3 DEF Enqueue
  <2>q. QED BY <1>1, <2>1, <2>2, CloseType
<1>4. queue' = [p \in Conn |-> queue'[p]] /\ down' = [p \in Conn |-> down'[p]]
  BY DEF Enqueue
<1>q. QED BY <1>3, <1>4

LEMMA TypeStep == ASSUME TypeOK, [Next]_vars PROVE TypeOK'
<1>1. ASSUME NEW r \in RoomIds, ParkDaemon(r) PROVE TypeOK'
  <2>1. Admit(r, "daemon") /\ nextId <= MaxConns
    BY <1>1 DEF ParkDaemon
  <2>2. nextId \in Conn
    BY <2>1, AdmitType
  <2>3. held' \subseteq RoomIds /\ daemon' \in [RoomIds -> Conn \cup {NoConn}]
    BY <1>1, <2>2 DEF TypeOK, ParkDaemon
  <2>q. QED BY <1>1, <2>1, <2>3, AdmitType DEF TypeOK, ParkDaemon, Admit
<1>2. ASSUME NEW r \in RoomIds, ParkClient(r) PROVE TypeOK'
  <2>1. Admit(r, "client") /\ nextId <= MaxConns
    BY <1>2 DEF ParkClient
  <2>2. nextId \in Conn
    BY <2>1, AdmitType
  <2>3. clients' \in [RoomIds -> SUBSET Conn]
    BY <1>2, <2>2 DEF TypeOK, ParkClient
  <2>q. QED BY <1>2, <2>1, <2>3, AdmitType DEF TypeOK, ParkClient, Admit
<1>3. ASSUME NEW c \in Conn, ReadySent(c) PROVE TypeOK'
  BY <1>3 DEF TypeOK, ReadySent, Phase
<1>4. ASSUME NEW c \in Conn, ReadyFailed(c) PROVE TypeOK'
  <2>1. Unpark(c)
    BY <1>4 DEF ReadyFailed
  <2>q. QED BY <1>4, <2>1, UnparkType DEF TypeOK, ReadyFailed, Phase
<1>5. ASSUME NEW c \in Conn, Depart(c) PROVE TypeOK'
  <2>1. CASE LastClientLeft(c) /\ UnparkAndRelease(c)
    BY <1>5, <2>1, ReleaseType DEF TypeOK, Depart, Phase
  <2>2. CASE ~LastClientLeft(c) /\ Unpark(c) /\ UNCHANGED queue
    BY <1>5, <2>2, UnparkType DEF TypeOK, Depart, Phase
  <2>q. QED BY <1>5, <2>1, <2>2 DEF Depart
<1>6. ASSUME NEW c \in Conn, WriteFrame(c) PROVE TypeOK'
  BY <1>6 DEF TypeOK, WriteFrame
<1>7. ASSUME NEW c \in Conn, WriteClose(c) PROVE TypeOK'
  BY <1>7 DEF TypeOK, WriteClose, WriterDone
<1>8. ASSUME NEW c \in Conn, WriterDrained(c) \/ SinkFailed(c) \/ AbortWriter(c) PROVE TypeOK'
  <2>1. WriterDone(c) /\ UNCHANGED <<held, daemon, clients, nextId, room, role, phase, down, routed>>
    BY <1>8 DEF WriterDrained, SinkFailed, AbortWriter
  <2>q. QED BY <2>1 DEF TypeOK, WriterDone
<1>9. ASSUME NEW c \in Conn, Route(c) PROVE TypeOK'
  <2>1. PICK popped \in SUBSET Full(c) : Enqueue(c, popped)
    BY <1>9 DEF Route
  <2>2. routed' \in [Conn -> 0 .. MaxFrames]
    BY <1>9, RelayAssumption DEF TypeOK, Route
  <2>3. routed[c] < MaxFrames
    BY <1>9 DEF Route
  <2>q. QED BY <1>9, <2>1, <2>2, <2>3, EnqueueType DEF TypeOK, Route
<1>10. ASSUME NEW c \in Conn, RouteGone(c) PROVE TypeOK'
  BY <1>10, RelayAssumption DEF TypeOK, RouteGone, Phase
<1>11. CASE UNCHANGED vars
  BY <1>11 DEF TypeOK, vars
<1>q. QED
  BY <1>1, <1>2, <1>3, <1>4, <1>5, <1>6, <1>7, <1>8, <1>9, <1>10, <1>11 DEF Next, ConnStep

-----------------------------------------------------------------------------
(* The table.                                                              *)

(* What a step does to the table when no connection is parked: nothing, or *)
(* what unpark and release_daemon do for one connection.                   *)
LEMMA UnparkEffect ==
  ASSUME TypeOK, NEW c \in Conn, Unpark(c), NEW r \in RoomIds
  PROVE  /\ daemon'[r] = IF role[c] = "daemon" /\ room[c] = r /\ daemon[r] = c
                           THEN NoConn ELSE daemon[r]
         /\ clients'[r] = IF role[c] = "client" /\ room[c] = r
                            THEN clients[r] \ {c} ELSE clients[r]
         /\ held' = IF daemon'[room[c]] = NoConn /\ clients'[room[c]] = {}
                      THEN held \ {room[c]} ELSE held
BY DEF TypeOK, Unpark, DaemonAfterUnpark, ClientsAfterUnpark, ForgetIfEmpty

LEMMA ReleaseEffect ==
  ASSUME TypeOK, NEW c \in Conn, LastClientLeft(c), UnparkAndRelease(c), NEW r \in RoomIds
  PROVE  /\ role[c] = "client"
         /\ daemon'[r] = IF room[c] = r THEN NoConn ELSE daemon[r]
         /\ clients'[r] = IF room[c] = r THEN {} ELSE clients[r]
         /\ room[c] = r => clients[r] \subseteq {c}
         /\ held' = held \ {room[c]}
<1>1. room[c] \in RoomIds /\ role[c] = "client" /\ ClientsAfterUnpark(c)[room[c]] = {}
  BY DEF TypeOK, LastClientLeft
<1>2. /\ daemon'[r] = IF room[c] = r THEN NoConn ELSE daemon[r]
      /\ daemon'[room[c]] = NoConn
  BY <1>1 DEF TypeOK, UnparkAndRelease
<1>3. /\ clients'[r] = IF room[c] = r THEN clients[r] \ {c} ELSE clients[r]
      /\ clients'[room[c]] = {}
  BY <1>1 DEF TypeOK, UnparkAndRelease, ClientsAfterUnpark
<1>4. held' = held \ {room[c]}
  BY <1>2, <1>3 DEF UnparkAndRelease, ForgetIfEmpty
<1>q. QED BY <1>1, <1>2, <1>3, <1>4

(* A connection that leaves, with or without a release.                    *)
LEMMA LeaveFiled ==
  ASSUME TypeOK, IdsInOrder, Filed, NEW c \in Conn, room[c] \in RoomIds,
         Unpark(c) \/ (LastClientLeft(c) /\ UnparkAndRelease(c)),
         NEW ph \in {"left", "dropped"}, phase' = [phase EXCEPT ![c] = ph],
         room' = room, role' = role
  PROVE  Filed'
<1>p. \A d \in Conn : phase'[d] = IF d = c THEN ph ELSE phase[d]
  BY DEF TypeOK
<1>r. \A d \in Conn : phase[d] \in Attached => room[d] \in RoomIds
  BY DEF IdsInOrder, Attached
<1>1. CASE Unpark(c)
  <2>0. ASSUME NEW r \in RoomIds
        PROVE  /\ daemon'[r] = IF role[c] = "daemon" /\ room[c] = r /\ daemon[r] = c
                                   THEN NoConn ELSE daemon[r]
               /\ clients'[r] = IF role[c] = "client" /\ room[c] = r
                                    THEN clients[r] \ {c} ELSE clients[r]
               /\ held' = IF daemon'[room[c]] = NoConn /\ clients'[room[c]] = {}
                              THEN held \ {room[c]} ELSE held
    BY <1>1, UnparkEffect
  <2>1. TableExact'
    <3>1. ASSUME NEW r \in RoomIds
          PROVE  r \in held' <=> daemon'[r] # NoConn \/ clients'[r] # {}
      <4>1. r \in held <=> daemon[r] # NoConn \/ clients[r] # {}
        BY DEF Filed, TableExact
      <4>2. CASE r # room[c]
        BY <2>0, <4>1, <4>2
      <4>3. CASE r = room[c]
        BY <2>0, <4>1, <4>3
      <4>q. QED BY <4>2, <4>3
    <3>2. held' \subseteq RoomIds
      BY <1>1, UnparkType
    <3>q. QED BY <3>1, <3>2 DEF TableExact
  <2>2. DaemonsFiled'
    <3> SUFFICES ASSUME NEW r \in RoomIds, daemon'[r] # NoConn
                 PROVE  /\ room[daemon'[r]] = r /\ role[daemon'[r]] = "daemon"
                        /\ phase'[daemon'[r]] \in Attached
      BY DEF DaemonsFiled
    <3>0. daemon'[r] = daemon[r]
      BY <2>0
    <3>1. /\ daemon'[r] = daemon[r] /\ daemon[r] \in Conn /\ room[daemon[r]] = r
          /\ role[daemon[r]] = "daemon" /\ phase[daemon[r]] \in Attached
      BY <3>0 DEF TypeOK, Filed, DaemonsFiled
    <3>2. daemon[r] # c
      BY <2>0, <3>1
    <3>q. QED BY <1>p, <3>1, <3>2
  <2>3. ClientsFiled'
    <3> SUFFICES ASSUME NEW r \in RoomIds, NEW d \in clients'[r]
                 PROVE  room[d] = r /\ role[d] = "client" /\ phase'[d] \in Attached
      BY DEF ClientsFiled
    <3>1. d \in clients[r] /\ d \in Conn
      BY <2>0 DEF TypeOK
    <3>2. room[d] = r /\ role[d] = "client" /\ phase[d] \in Attached
      BY <3>1 DEF Filed, ClientsFiled
    <3>3. d # c
      BY <2>0, <3>1, <3>2
    <3>q. QED BY <1>p, <3>1, <3>2, <3>3
  <2>4. ClientsStay'
    <3> SUFFICES ASSUME NEW d \in Conn, role[d] = "client", phase'[d] \in Attached
                 PROVE  d \in clients'[room[d]]
      BY DEF ClientsStay
    <3>1. d # c /\ phase[d] \in Attached
      BY <1>p DEF Attached
    <3>2. d \in clients[room[d]]
      BY <3>1 DEF Filed, ClientsStay
    <3>3. room[d] \in RoomIds
      BY <3>1, <1>r
    <3>q. QED BY <2>0, <3>1, <3>2, <3>3
  <2>q. QED BY <2>1, <2>2, <2>3, <2>4 DEF Filed
<1>2. CASE LastClientLeft(c) /\ UnparkAndRelease(c)
  <2>0. ASSUME NEW r \in RoomIds
        PROVE  /\ role[c] = "client"
               /\ daemon'[r] = IF room[c] = r THEN NoConn ELSE daemon[r]
               /\ clients'[r] = IF room[c] = r THEN {} ELSE clients[r]
               /\ room[c] = r => clients[r] \subseteq {c}
               /\ held' = held \ {room[c]}
    BY <1>2, ReleaseEffect
  <2>1. TableExact'
    <3>1. ASSUME NEW r \in RoomIds
          PROVE  r \in held' <=> daemon'[r] # NoConn \/ clients'[r] # {}
      <4>1. r \in held <=> daemon[r] # NoConn \/ clients[r] # {}
        BY DEF Filed, TableExact
      <4>2. CASE r # room[c]
        BY <2>0, <4>1, <4>2
      <4>3. CASE r = room[c]
        BY <2>0, <4>1, <4>3
      <4>q. QED BY <4>2, <4>3
    <3>2. held' \subseteq RoomIds
      BY <1>2, ReleaseType
    <3>q. QED BY <3>1, <3>2 DEF TableExact
  <2>2. DaemonsFiled'
    <3> SUFFICES ASSUME NEW r \in RoomIds, daemon'[r] # NoConn
                 PROVE  /\ room[daemon'[r]] = r /\ role[daemon'[r]] = "daemon"
                        /\ phase'[daemon'[r]] \in Attached
      BY DEF DaemonsFiled
    <3>0. daemon'[r] = daemon[r]
      BY <2>0
    <3>1. /\ daemon'[r] = daemon[r] /\ daemon[r] \in Conn /\ room[daemon[r]] = r
          /\ role[daemon[r]] = "daemon" /\ phase[daemon[r]] \in Attached
      BY <3>0 DEF TypeOK, Filed, DaemonsFiled
    <3>2. daemon[r] # c
      BY <2>0, <3>1
    <3>q. QED BY <1>p, <3>1, <3>2
  <2>3. ClientsFiled'
    <3> SUFFICES ASSUME NEW r \in RoomIds, NEW d \in clients'[r]
                 PROVE  room[d] = r /\ role[d] = "client" /\ phase'[d] \in Attached
      BY DEF ClientsFiled
    <3>1. d \in clients[r] /\ d \in Conn
      BY <2>0 DEF TypeOK
    <3>2. room[d] = r /\ role[d] = "client" /\ phase[d] \in Attached
      BY <3>1 DEF Filed, ClientsFiled
    <3>3. d # c
      BY <2>0, <3>1, <3>2
    <3>q. QED BY <1>p, <3>1, <3>2, <3>3
  <2>4. ClientsStay'
    <3> SUFFICES ASSUME NEW d \in Conn, role[d] = "client", phase'[d] \in Attached
                 PROVE  d \in clients'[room[d]]
      BY DEF ClientsStay
    <3>1. d # c /\ phase[d] \in Attached
      BY <1>p DEF Attached
    <3>2. d \in clients[room[d]]
      BY <3>1 DEF Filed, ClientsStay
    <3>3. room[d] \in RoomIds
      BY <3>1, <1>r
    <3>q. QED BY <2>0, <3>1, <3>2, <3>3
  <2>q. QED BY <2>1, <2>2, <2>3, <2>4 DEF Filed
<1>q. QED BY <1>1, <1>2

(* A step that leaves the table alone and lets nobody leave.               *)
LEMMA SteadyFiled ==
  ASSUME TypeOK, Filed, UNCHANGED <<held, daemon, clients, room, role>>,
         \A d \in Conn : phase'[d] \in Attached <=> phase[d] \in Attached
  PROVE  Filed'
<1>1. TableExact'
  BY DEF Filed, TableExact
<1>2. DaemonsFiled'
  <2> SUFFICES ASSUME NEW r \in RoomIds, daemon[r] # NoConn
               PROVE  /\ room[daemon[r]] = r /\ role[daemon[r]] = "daemon"
                      /\ phase'[daemon[r]] \in Attached
    BY DEF DaemonsFiled
  <2>1. daemon[r] \in Conn
    BY DEF TypeOK
  <2>q. QED BY <2>1 DEF Filed, DaemonsFiled
<1>3. ClientsFiled'
  BY DEF TypeOK, Filed, ClientsFiled
<1>4. ClientsStay'
  BY DEF Filed, ClientsStay
<1>q. QED BY <1>1, <1>2, <1>3, <1>4 DEF Filed

(* A connection that parks.                                                *)
LEMMA ParkFiled ==
  ASSUME TypeOK, IdsInOrder, Filed, NEW r \in RoomIds, ParkDaemon(r) \/ ParkClient(r)
  PROVE  Filed'
<1> DEFINE n == nextId
<1>1. /\ n \in Conn /\ phase[n] = "unborn"
      /\ room' = [room EXCEPT ![n] = r] /\ phase' = [phase EXCEPT ![n] = "parked"]
  <2>1. n \in Conn
    BY RelayAssumption DEF ParkDaemon, ParkClient, TypeOK, Conn
  <2>q. QED BY <2>1 DEF ParkDaemon, ParkClient, Admit, IdsInOrder, Conn
<1>2. \A d \in Conn : /\ room'[d] = (IF d = n THEN r ELSE room[d])
                       /\ phase'[d] = (IF d = n THEN "parked" ELSE phase[d])
  BY <1>1 DEF TypeOK
<1>3. /\ \A s \in RoomIds : daemon[s] # n /\ n \notin clients[s]
      /\ n # NoConn
  BY <1>1 DEF Filed, DaemonsFiled, ClientsFiled, Attached, Conn, NoConn
<1>4. \A d \in Conn : phase[d] \in Attached => room[d] \in RoomIds
  BY DEF IdsInOrder, Attached
<1>5. "parked" \in Attached
  BY DEF Attached
<1> HIDE DEF n
<1>6. CASE ParkDaemon(r)
  <2>1. \A d \in Conn : role'[d] = IF d = n THEN "daemon" ELSE role[d]
    BY <1>6 DEF TypeOK, ParkDaemon, Admit, n
  <2>2. \A s \in RoomIds : /\ daemon'[s] = (IF s = r THEN n ELSE daemon[s])
                           /\ clients'[s] = clients[s]
    BY <1>6 DEF TypeOK, ParkDaemon, n
  <2>3. held' = held \cup {r}
    BY <1>6 DEF ParkDaemon
  <2>4. TableExact'
    <3>1. ASSUME NEW s \in RoomIds
          PROVE  s \in held' <=> daemon'[s] # NoConn \/ clients'[s] # {}
      BY <1>3, <2>2, <2>3 DEF Filed, TableExact
    <3>q. QED BY <2>3, <3>1 DEF TableExact, TypeOK
  <2>5. DaemonsFiled'
    <3> SUFFICES ASSUME NEW s \in RoomIds, daemon'[s] # NoConn
                 PROVE  /\ room'[daemon'[s]] = s /\ role'[daemon'[s]] = "daemon"
                        /\ phase'[daemon'[s]] \in Attached
      BY DEF DaemonsFiled
    <3>1. CASE s = r
      BY <1>1, <1>2, <1>5, <2>1, <2>2, <3>1
    <3>2. CASE s # r
      <4>1. /\ daemon'[s] = daemon[s] /\ daemon[s] # n /\ daemon[s] \in Conn
        BY <1>3, <2>2, <3>2 DEF TypeOK
      <4>q. QED BY <1>2, <2>1, <4>1 DEF Filed, DaemonsFiled
    <3>q. QED BY <3>1, <3>2
  <2>6. ClientsFiled'
    <3> SUFFICES ASSUME NEW s \in RoomIds, NEW d \in clients'[s]
                 PROVE  room'[d] = s /\ role'[d] = "client" /\ phase'[d] \in Attached
      BY DEF ClientsFiled
    <3>1. d \in clients[s] /\ d # n /\ d \in Conn
      BY <1>3, <2>2 DEF TypeOK
    <3>q. QED BY <1>2, <2>1, <3>1 DEF Filed, ClientsFiled
  <2>7. ClientsStay'
    BY <1>2, <1>4, <2>1, <2>2 DEF Filed, ClientsStay
  <2>q. QED BY <2>4, <2>5, <2>6, <2>7 DEF Filed
<1>7. CASE ParkClient(r)
  <2>1. \A d \in Conn : role'[d] = IF d = n THEN "client" ELSE role[d]
    BY <1>7 DEF TypeOK, ParkClient, Admit, n
  <2>2. \A s \in RoomIds : /\ daemon'[s] = daemon[s]
                           /\ clients'[s] = (IF s = r THEN clients[s] \cup {n} ELSE clients[s])
    BY <1>7 DEF TypeOK, ParkClient, n
  <2>3. held' = held /\ r \in held
    BY <1>7 DEF ParkClient
  <2>4. TableExact'
    <3>1. ASSUME NEW s \in RoomIds
          PROVE  s \in held' <=> daemon'[s] # NoConn \/ clients'[s] # {}
      BY <2>2, <2>3 DEF Filed, TableExact
    <3>q. QED BY <2>3, <3>1 DEF TableExact, TypeOK
  <2>5. DaemonsFiled'
    <3> SUFFICES ASSUME NEW s \in RoomIds, daemon'[s] # NoConn
                 PROVE  /\ room'[daemon'[s]] = s /\ role'[daemon'[s]] = "daemon"
                        /\ phase'[daemon'[s]] \in Attached
      BY DEF DaemonsFiled
    <3>1. /\ daemon'[s] = daemon[s] /\ daemon[s] # n /\ daemon[s] \in Conn
      BY <1>3, <2>2 DEF TypeOK
    <3>q. QED BY <1>2, <2>1, <3>1 DEF Filed, DaemonsFiled
  <2>6. ClientsFiled'
    <3> SUFFICES ASSUME NEW s \in RoomIds, NEW d \in clients'[s]
                 PROVE  room'[d] = s /\ role'[d] = "client" /\ phase'[d] \in Attached
      BY DEF ClientsFiled
    <3>1. CASE d = n
      <4>1. s = r
        BY <1>3, <2>2, <3>1
      <4>q. QED BY <1>1, <1>2, <1>5, <2>1, <3>1, <4>1
    <3>2. CASE d # n
      <4>1. d \in clients[s] /\ d \in Conn
        BY <2>2, <3>2 DEF TypeOK
      <4>q. QED BY <1>2, <2>1, <3>2, <4>1 DEF Filed, ClientsFiled
    <3>q. QED BY <3>1, <3>2
  <2>7. ClientsStay'
    BY <1>2, <1>4, <2>1, <2>2 DEF Filed, ClientsStay
  <2>q. QED BY <2>4, <2>5, <2>6, <2>7 DEF Filed
<1>q. QED BY <1>6, <1>7

(* No order of parks, takeovers, releases and departures misfiles anybody. *)
LEMMA FiledStep == ASSUME TypeOK, IdsInOrder, Filed, [Next]_vars PROVE Filed'
<1>1. ASSUME NEW r \in RoomIds, ParkDaemon(r) \/ ParkClient(r) PROVE Filed'
  BY <1>1, ParkFiled
<1>2. ASSUME NEW c \in Conn, ReadySent(c) \/ RouteGone(c) PROVE Filed'
  <2>1. \A d \in Conn : phase'[d] \in Attached <=> phase[d] \in Attached
    BY <1>2 DEF TypeOK, ReadySent, RouteGone, Attached
  <2>2. UNCHANGED <<held, daemon, clients, room, role>>
    BY <1>2 DEF ReadySent, RouteGone
  <2>q. QED BY <2>1, <2>2, SteadyFiled
<1>3. ASSUME NEW c \in Conn, ReadyFailed(c) PROVE Filed'
  <2>1. /\ room[c] \in RoomIds /\ Unpark(c) /\ room' = room /\ role' = role
        /\ phase' = [phase EXCEPT ![c] = "dropped"]
    BY <1>3 DEF ReadyFailed, IdsInOrder
  <2>q. QED BY <2>1, LeaveFiled
<1>4. ASSUME NEW c \in Conn, Depart(c) PROVE Filed'
  <2>1. /\ room[c] \in RoomIds /\ room' = room /\ role' = role
        /\ phase' = [phase EXCEPT ![c] = "left"]
        /\ Unpark(c) \/ (LastClientLeft(c) /\ UnparkAndRelease(c))
    BY <1>4 DEF Depart, IdsInOrder
  <2>q. QED BY <2>1, LeaveFiled
<1>5. ASSUME NEW c \in Conn,
             WriteFrame(c) \/ WriteClose(c) \/ WriterDrained(c) \/ SinkFailed(c)
               \/ AbortWriter(c) \/ Route(c)
      PROVE  Filed'
  <2>1. UNCHANGED <<held, daemon, clients, room, role, phase>>
    BY <1>5 DEF WriteFrame, WriteClose, WriterDrained, SinkFailed, AbortWriter, Route
  <2>q. QED BY <2>1, SteadyFiled
<1>6. CASE UNCHANGED vars
  BY <1>6, SteadyFiled DEF vars
<1>q. QED BY <1>1, <1>2, <1>3, <1>4, <1>5, <1>6 DEF Next, ConnStep

-----------------------------------------------------------------------------
(* What a step may add to a queue or to a socket, and for whom.            *)

(* A target of c is filed in c's room on the other side.                   *)
LEMMA TargetsFiled ==
  ASSUME TypeOK, IdsInOrder, Filed, NEW c \in Conn, room[c] \in RoomIds, NEW p \in Targets(c)
  PROVE  p \in Conn /\ room[p] = room[c] /\ role[p] # role[c] /\ phase[p] \in Attached
<1>1. CASE role[c] = "daemon"
  BY <1>1 DEF Targets, TypeOK, Filed, ClientsFiled
<1>2. CASE role[c] # "daemon"
  BY <1>2 DEF Targets, TypeOK, Filed, DaemonsFiled
<1>q. QED BY <1>1, <1>2

(* The steps by what they do to one connection's queue and socket.         *)
LEMMA QueueEffect ==
  ASSUME TypeOK, IdsInOrder, Filed, [Next]_vars, NEW p \in Conn
  PROVE  \/ /\ queue'[p] = queue[p] /\ down'[p] = down[p]
         \/ /\ queue'[p] = <<>> /\ down'[p] = down[p]
         \/ /\ queue[p] # <<>> /\ queue'[p] \in {<<>>, Tail(queue[p])}
            /\ down'[p] = Append(down[p], Head(queue[p]))
         \/ /\ queue'[p] = Append(queue[p], Close(SessionOver)) /\ down'[p] = down[p]
            /\ Len(queue[p]) < QueueCap /\ \E r \in RoomIds : daemon[r] = p /\ daemon'[r] = NoConn
         \/ \E c \in Conn :
              /\ Route(c) /\ p \in Targets(c)
              /\ queue'[p] = Append(queue[p], Frame(c, routed[c] + 1)) /\ down'[p] = down[p]
              /\ Len(queue[p]) < QueueCap
         \/ \E c \in Conn :
              /\ Route(c) /\ p \in Targets(c) /\ queue[p] # <<>>
              /\ queue'[p] = Append(Tail(queue[p]), Close(NotKeepingUp))
              /\ down'[p] = Append(down[p], Head(queue[p]))
<1>t. queue \in [Conn -> Seq(Outbound)] /\ down \in [Conn -> Seq(Outbound)]
  BY DEF TypeOK
<1>1. ASSUME NEW c \in Conn, Route(c)
      PROVE  \/ queue'[p] = queue[p] /\ down'[p] = down[p]
             \/ /\ p \in Targets(c)
                /\ queue'[p] = Append(queue[p], Frame(c, routed[c] + 1)) /\ down'[p] = down[p]
                /\ Len(queue[p]) < QueueCap
             \/ /\ p \in Targets(c) /\ queue[p] # <<>>
                /\ queue'[p] = Append(Tail(queue[p]), Close(NotKeepingUp))
                /\ down'[p] = Append(down[p], Head(queue[p]))
  <2>1. PICK popped \in SUBSET Full(c) : Enqueue(c, popped)
    BY <1>1 DEF Route
  <2>2. ASSUME p \in popped PROVE p \in Targets(c) /\ queue[p] # <<>> /\ ~HasSpace(p)
    <3>1. p \in Full(c)
      BY <2>2
    <3>2. p \in Targets(c) /\ Len(queue[p]) >= QueueCap
      BY <3>1 DEF Full
    <3>3. queue[p] # <<>> /\ ~(Len(queue[p]) < QueueCap)
      BY <1>t, <3>2, RelayAssumption
    <3>q. QED BY <3>2, <3>3 DEF HasSpace
  <2>3. /\ queue'[p] = IF p \in Targets(c) /\ HasSpace(p)
                          THEN Append(queue[p], Frame(c, routed[c] + 1))
                          ELSE IF p \in popped
                            THEN Append(Tail(queue[p]), Close(NotKeepingUp)) ELSE queue[p]
        /\ down'[p] = IF p \in popped THEN Append(down[p], Head(queue[p])) ELSE down[p]
    BY <2>1 DEF Enqueue
  <2>q. QED BY <2>2, <2>3 DEF HasSpace
<1>2. ASSUME NEW c \in Conn, Depart(c)
      PROVE  \/ queue'[p] = queue[p] /\ down'[p] = down[p]
             \/ /\ queue'[p] = Append(queue[p], Close(SessionOver)) /\ down'[p] = down[p]
                /\ Len(queue[p]) < QueueCap /\ \E r \in RoomIds : daemon[r] = p /\ daemon'[r] = NoConn
  <2>1. down' = down /\ room[c] \in RoomIds
    BY <1>2 DEF Depart, IdsInOrder
  <2>2. CASE UNCHANGED queue
    BY <2>1, <2>2
  <2>3. CASE UnparkAndRelease(c)
    <3>1. daemon' = [daemon EXCEPT ![room[c]] = NoConn] /\ daemon \in [RoomIds -> Conn \cup {NoConn}]
      BY <2>3 DEF UnparkAndRelease, TypeOK
    <3>2. daemon'[room[c]] = NoConn
      BY <2>1, <3>1
    <3>q. QED BY <1>t, <2>1, <2>3, <3>2 DEF UnparkAndRelease, HasSpace
  <2>q. QED BY <1>2, <2>2, <2>3 DEF Depart
<1>3. ASSUME NEW c \in Conn, WriteFrame(c) \/ WriteClose(c)
      PROVE  \/ queue'[p] = queue[p] /\ down'[p] = down[p]
             \/ /\ queue[p] # <<>> /\ queue'[p] \in {<<>>, Tail(queue[p])}
                /\ down'[p] = Append(down[p], Head(queue[p]))
  BY <1>t, <1>3 DEF WriteFrame, WriteClose, WriterDone
<1>4. ASSUME NEW c \in Conn,
             ReadyFailed(c) \/ WriterDrained(c) \/ SinkFailed(c) \/ AbortWriter(c)
      PROVE  queue'[p] \in {<<>>, queue[p]} /\ down'[p] = down[p]
  BY <1>t, <1>4 DEF ReadyFailed, WriterDrained, SinkFailed, AbortWriter, WriterDone
<1>5. ASSUME NEW c \in Conn, ReadySent(c) \/ RouteGone(c) PROVE UNCHANGED <<queue, down>>
  BY <1>5 DEF ReadySent, RouteGone
<1>6. ASSUME NEW r \in RoomIds, ParkDaemon(r) \/ ParkClient(r) PROVE UNCHANGED <<queue, down>>
  BY <1>6 DEF ParkDaemon, ParkClient, Admit
<1>7. CASE UNCHANGED vars
  BY <1>7 DEF vars
<1>q. QED BY <1>1, <1>2, <1>3, <1>4, <1>5, <1>6, <1>7 DEF Next, ConnStep

(* What a step does to the identity of one connection: nothing, or it is   *)
(* the one being parked.                                                   *)
LEMMA IdentityEffect ==
  ASSUME TypeOK, IdsInOrder, [Next]_vars, NEW p \in Conn
  PROVE  \/ /\ room'[p] = room[p] /\ role'[p] = role[p]
            /\ phase'[p] = "unborn" <=> phase[p] = "unborn"
            /\ nextId' = nextId \/ (nextId' = nextId + 1 /\ p # nextId)
         \/ /\ p = nextId /\ nextId' = nextId + 1 /\ phase[p] = "unborn"
            /\ phase'[p] = "parked" /\ room'[p] \in RoomIds
            /\ UNCHANGED <<queue, down>>
<1>1. ASSUME NEW r \in RoomIds, ParkDaemon(r) \/ ParkClient(r)
      PROVE  \/ /\ room'[p] = room[p] /\ role'[p] = role[p] /\ phase'[p] = phase[p]
                /\ nextId' = nextId + 1 /\ p # nextId
             \/ /\ p = nextId /\ nextId' = nextId + 1 /\ phase[p] = "unborn"
                /\ phase'[p] = "parked" /\ room'[p] \in RoomIds
                /\ UNCHANGED <<queue, down>>
  <2>1. PICK side \in {"daemon", "client"} : Admit(r, side)
    BY <1>1 DEF ParkDaemon, ParkClient
  <2>2. p = nextId => phase[p] = "unborn"
    BY DEF TypeOK, IdsInOrder, Conn
  <2>q. QED BY <2>1, <2>2 DEF TypeOK, Admit
<1>2. ASSUME NEW c \in Conn, ConnStep(c)
      PROVE  /\ room' = room /\ role' = role /\ nextId' = nextId
             /\ phase'[p] = "unborn" <=> phase[p] = "unborn"
  BY <1>2 DEF TypeOK, ConnStep, ReadySent, ReadyFailed, Depart, WriteFrame, WriteClose,
              WriterDrained, SinkFailed, AbortWriter, Route, RouteGone
<1>3. CASE UNCHANGED vars
  BY <1>3 DEF vars
<1>q. QED BY <1>1, <1>2, <1>3 DEF Next

LEMMA IdsStep == ASSUME TypeOK, IdsInOrder, Filed, [Next]_vars PROVE IdsInOrder'
<1> SUFFICES ASSUME NEW p \in Conn
             PROVE  /\ phase'[p] = "unborn" <=> p >= nextId'
                    /\ phase'[p] # "unborn" => room'[p] \in RoomIds
                    /\ phase'[p] = "unborn" => queue'[p] = <<>> /\ down'[p] = <<>>
  BY DEF IdsInOrder
<1>1. /\ phase[p] = "unborn" <=> p >= nextId
      /\ phase[p] # "unborn" => room[p] \in RoomIds
      /\ phase[p] = "unborn" => queue[p] = <<>> /\ down[p] = <<>>
      /\ p \in Nat /\ nextId \in Nat
  BY RelayAssumption DEF IdsInOrder, TypeOK, Conn
<1>2. phase'[p] = "unborn" <=> p >= nextId'
  BY <1>1, IdentityEffect
<1>3. phase'[p] # "unborn" => room'[p] \in RoomIds
  BY <1>1, IdentityEffect
<1>4. ASSUME phase'[p] = "unborn" PROVE queue'[p] = <<>> /\ down'[p] = <<>>
  <2>1. phase[p] = "unborn"
    BY <1>4, IdentityEffect
  <2>2. \A r \in RoomIds : daemon[r] # p
    BY <2>1 DEF Filed, DaemonsFiled, Attached, Conn, NoConn
  <2>3. ASSUME NEW c \in Conn, Route(c) PROVE p \notin Targets(c)
    <3>1. room[c] \in RoomIds
      BY <2>3 DEF Route, IdsInOrder
    <3>q. QED BY <2>1, <3>1, TargetsFiled DEF Attached
  <2>q. QED BY <1>1, <2>1, <2>2, <2>3, QueueEffect
<1>q. QED BY <1>2, <1>3, <1>4

-----------------------------------------------------------------------------
(* Capacity.                                                               *)

LEMMA ConnFinite == \A S \in SUBSET Conn : IsFiniteSet(S) /\ Cardinality(S) \in Nat
<1>1. IsFiniteSet(Conn)
  BY RelayAssumption, FS_Interval DEF Conn
<1>q. QED BY <1>1, FS_Subset, FS_CardinalityType

LEMMA BoundsStep ==
  ASSUME TypeOK, IdsInOrder, Filed, HeldBounded, ClientsBounded, [Next]_vars
  PROVE  HeldBounded' /\ ClientsBounded'
<1>1. ASSUME NEW r \in RoomIds, ParkDaemon(r) PROVE HeldBounded' /\ ClientsBounded'
  <2>1. held' = held \cup {r} /\ (r \in held \/ Cardinality(held) < MaxRooms)
    BY <1>1 DEF ParkDaemon
  <2>2. HeldBounded'
    <3>1. /\ IsFiniteSet(held \cup {r})
          /\ Cardinality(held \cup {r})
               = IF r \in held THEN Cardinality(held) ELSE Cardinality(held) + 1
      BY FS_AddElement DEF HeldBounded
    <3>2. Cardinality(held) \in Nat
      BY FS_CardinalityType DEF HeldBounded
    <3>q. QED BY <2>1, <3>1, <3>2, RelayAssumption DEF HeldBounded
  <2>q. QED BY <1>1, <2>2 DEF ParkDaemon, ClientsBounded
<1>2. ASSUME NEW r \in RoomIds, ParkClient(r) PROVE HeldBounded' /\ ClientsBounded'
  <2>1. ASSUME NEW s \in RoomIds PROVE Cardinality(clients'[s]) <= MaxClients
    <3>1. CASE s # r
      BY <1>2, <3>1 DEF ParkClient, TypeOK, ClientsBounded
    <3>2. CASE s = r
      <4>1. clients'[r] = clients[r] \cup {nextId} /\ Cardinality(clients[r]) < MaxClients
        BY <1>2 DEF ParkClient, TypeOK
      <4>2. IsFiniteSet(clients[r]) /\ Cardinality(clients[r]) \in Nat
        BY ConnFinite DEF TypeOK
      <4>3. Cardinality(clients[r] \cup {nextId})
              = IF nextId \in clients[r] THEN Cardinality(clients[r]) ELSE Cardinality(clients[r]) + 1
        BY <4>2, FS_AddElement
      <4>q. QED BY <3>2, <4>1, <4>2, <4>3, RelayAssumption
    <3>q. QED BY <3>1, <3>2
  <2>q. QED BY <1>2, <2>1 DEF ParkClient, HeldBounded, ClientsBounded
<1>3. ASSUME held' \subseteq held, \A r \in RoomIds : clients'[r] \subseteq clients[r]
      PROVE  HeldBounded' /\ ClientsBounded'
  <2>1. HeldBounded'
    <3>1. IsFiniteSet(held') /\ Cardinality(held') <= Cardinality(held)
      BY <1>3, FS_Subset DEF HeldBounded
    <3>2. Cardinality(held) \in Nat /\ Cardinality(held') \in Nat
      BY <3>1, FS_CardinalityType DEF HeldBounded
    <3>q. QED BY <3>1, <3>2, RelayAssumption DEF HeldBounded
  <2>2. ASSUME NEW r \in RoomIds PROVE Cardinality(clients'[r]) <= MaxClients
    <3>1. /\ clients[r] \in SUBSET Conn /\ clients'[r] \in SUBSET clients[r]
          /\ Cardinality(clients[r]) <= MaxClients
      BY <1>3 DEF TypeOK, ClientsBounded
    <3>2. /\ IsFiniteSet(clients[r]) /\ Cardinality(clients[r]) \in Nat
          /\ Cardinality(clients'[r]) \in Nat
      BY <3>1, ConnFinite
    <3>3. Cardinality(clients'[r]) <= Cardinality(clients[r])
      BY <3>1, <3>2, FS_Subset
    <3>q. QED BY <3>1, <3>2, <3>3, RelayAssumption
  <2>q. QED BY <2>1, <2>2 DEF ClientsBounded
<1>4. ASSUME NEW c \in Conn, ReadyFailed(c) \/ Depart(c) PROVE HeldBounded' /\ ClientsBounded'
  <2>1. CASE Unpark(c)
    BY <1>3, <2>1 DEF TypeOK, Unpark, ClientsAfterUnpark, ForgetIfEmpty
  <2>2. CASE UnparkAndRelease(c)
    BY <1>3, <2>2 DEF TypeOK, UnparkAndRelease, ClientsAfterUnpark, ForgetIfEmpty
  <2>q. QED BY <1>4, <2>1, <2>2 DEF ReadyFailed, Depart
<1>5. ASSUME NEW c \in Conn,
             ReadySent(c) \/ WriteFrame(c) \/ WriteClose(c) \/ WriterDrained(c)
               \/ SinkFailed(c) \/ AbortWriter(c) \/ Route(c) \/ RouteGone(c)
      PROVE  HeldBounded' /\ ClientsBounded'
  BY <1>5 DEF ReadySent, WriteFrame, WriteClose, WriterDrained, SinkFailed, AbortWriter,
              Route, RouteGone, HeldBounded, ClientsBounded
<1>6. CASE UNCHANGED vars
  BY <1>6 DEF vars, HeldBounded, ClientsBounded
<1>q. QED BY <1>1, <1>2, <1>4, <1>5, <1>6 DEF Next, ConnStep

-----------------------------------------------------------------------------
(* Isolation.                                                              *)

LEMMA AppendElements ==
  ASSUME NEW T, NEW q \in Seq(T), NEW x, NEW i \in 1 .. Len(Append(q, x))
  PROVE  Append(q, x)[i] = x \/ (i \in 1 .. Len(q) /\ Append(q, x)[i] = q[i])
OBVIOUS

LEMMA TailElements ==
  ASSUME NEW T, NEW q \in Seq(T), q # <<>>
  PROVE  /\ Tail(q) \in Seq(T)
         /\ \A i \in 1 .. Len(Tail(q)) : i + 1 \in 1 .. Len(q) /\ Tail(q)[i] = q[i + 1]
OBVIOUS

LEMMA OwedStep ==
  ASSUME TypeOK, IdsInOrder, Filed, FramesOwed, [Next]_vars
  PROVE  FramesOwed'
<1> SUFFICES ASSUME NEW p \in Conn
             PROVE  /\ \A i \in 1 .. Len(queue'[p]) : Owed(p, queue[p][i])'
                    /\ \A i \in 1 .. Len(down'[p]) : Owed(p, down[p][i])'
  BY DEF FramesOwed
<1>t. queue[p] \in Seq(Outbound) /\ down[p] \in Seq(Outbound)
  BY DEF TypeOK
<1>1. CASE phase[p] = "unborn"
  <2>1. queue[p] = <<>> /\ down[p] = <<>>
    BY <1>1 DEF IdsInOrder
  <2>2. queue'[p] = <<>> /\ down'[p] = <<>>
    <3>1. CASE phase'[p] = "unborn"
      BY <3>1, IdsStep DEF IdsInOrder
    <3>2. CASE phase'[p] # "unborn"
      BY <1>1, <2>1, <3>2, IdentityEffect
    <3>q. QED BY <3>1, <3>2
  <2>q. QED BY <2>2
<1>2. CASE phase[p] # "unborn"
  <2>1. \A d \in Conn : phase[d] # "unborn" =>
            room'[d] = room[d] /\ role'[d] = role[d] /\ phase'[d] # "unborn"
    BY IdentityEffect
  <2>2. ASSUME NEW m, Owed(p, m)
        PROVE  m.type = "frame" => /\ m.src \in Conn /\ phase'[m.src] # "unborn"
                                   /\ room'[m.src] = room'[p] /\ role'[m.src] # role'[p]
    BY <1>2, <2>1, <2>2 DEF Owed
  <2>3. /\ \A i \in 1 .. Len(queue[p]) : Owed(p, queue[p][i])
        /\ \A i \in 1 .. Len(down[p]) : Owed(p, down[p][i])
    BY DEF FramesOwed
  <2>4. Owed(p, Close(SessionOver)) /\ Owed(p, Close(NotKeepingUp))
    BY DEF Owed, Close
  <2>5. ASSUME NEW c \in Conn, Route(c), p \in Targets(c)
        PROVE  Owed(p, Frame(c, routed[c] + 1))
    <3>1. room[c] \in RoomIds /\ phase[c] # "unborn"
      BY <2>5 DEF Route, IdsInOrder
    <3>q. QED BY <2>5, <3>1, TargetsFiled DEF Owed, Frame
  <2>6. ASSUME NEW i \in 1 .. Len(queue'[p]) PROVE Owed(p, queue[p][i])'
    <3>1. \/ \E j \in 1 .. Len(queue[p]) : queue'[p][i] = queue[p][j]
          \/ queue'[p][i] \in {Close(SessionOver), Close(NotKeepingUp)}
          \/ \E c \in Conn : Route(c) /\ p \in Targets(c) /\ queue'[p][i] = Frame(c, routed[c] + 1)
      <4> DEFINE q == queue[p]  qq == queue'[p]
      <4>0. CASE qq = q \/ qq = <<>>
        BY <1>t, <2>6, <4>0
      <4>1. CASE q # <<>> /\ qq = Tail(q)
        <5>1. i + 1 \in 1 .. Len(q) /\ qq[i] = q[i + 1]
          BY <1>t, <2>6, <4>1, TailElements
        <5>q. QED BY <5>1
      <4>2. CASE qq = Append(q, Close(SessionOver))
        BY <1>t, <2>6, <4>2, AppendElements
      <4>3. CASE \E c \in Conn : Route(c) /\ p \in Targets(c) /\ qq = Append(q, Frame(c, routed[c] + 1))
        BY <1>t, <2>6, <4>3, AppendElements
      <4>4. CASE q # <<>> /\ qq = Append(Tail(q), Close(NotKeepingUp))
        <5>1. Tail(q) \in Seq(Outbound)
          BY <1>t, <4>4, TailElements
        <5>2. qq[i] = Close(NotKeepingUp) \/ (i \in 1 .. Len(Tail(q)) /\ qq[i] = Tail(q)[i])
          BY <2>6, <4>4, <5>1, AppendElements
        <5>q. QED BY <1>t, <4>4, <5>2, TailElements
      <4>q. QED BY <4>0, <4>1, <4>2, <4>3, <4>4, QueueEffect
    <3> DEFINE m == queue'[p][i]
    <3>2. CASE \E j \in 1 .. Len(queue[p]) : m = queue[p][j]
      BY <2>2, <2>3, <3>2 DEF Owed
    <3>3. CASE m \in {Close(SessionOver), Close(NotKeepingUp)}
      BY <3>3 DEF Owed, Close
    <3>4. CASE \E c \in Conn : Route(c) /\ p \in Targets(c) /\ m = Frame(c, routed[c] + 1)
      BY <2>2, <2>5, <3>4 DEF Owed
    <3>q. QED BY <3>1, <3>2, <3>3, <3>4
  <2>7. ASSUME NEW i \in 1 .. Len(down'[p]) PROVE Owed(p, down[p][i])'
    <3>1. \/ \E j \in 1 .. Len(down[p]) : down'[p][i] = down[p][j]
          \/ \E j \in 1 .. Len(queue[p]) : down'[p][i] = queue[p][j]
      <4>1. CASE down'[p] = down[p]
        BY <2>7, <4>1
      <4>2. CASE queue[p] # <<>> /\ down'[p] = Append(down[p], Head(queue[p]))
        <5>1. Head(queue[p]) = queue[p][1] /\ 1 \in 1 .. Len(queue[p])
          BY <1>t, <4>2
        <5>2. down'[p][i] = Head(queue[p]) \/ (i \in 1 .. Len(down[p]) /\ down'[p][i] = down[p][i])
          BY <1>t, <2>7, <4>2, <5>1, AppendElements
        <5>q. QED BY <5>1, <5>2
      <4>q. QED BY <4>1, <4>2, QueueEffect
    <3>q. QED BY <2>2, <2>3, <3>1 DEF Owed
  <2>q. QED BY <2>6, <2>7
<1>q. QED BY <1>1, <1>2

-----------------------------------------------------------------------------
(* The theorems.                                                           *)

LEMMA InitHub == Init => HubInv
<1> SUFFICES ASSUME Init PROVE HubInv
  OBVIOUS
<1>1. TypeOK
  BY RelayAssumption DEF Init, TypeOK, Phase, Conn
<1>2. IdsInOrder
  BY DEF Init, IdsInOrder, Conn
<1>3. Filed
  BY DEF Init, Filed, TableExact, DaemonsFiled, ClientsFiled, ClientsStay, Attached
<1>4. HeldBounded /\ ClientsBounded
  BY RelayAssumption, FS_EmptySet DEF Init, HeldBounded, ClientsBounded
<1>5. FramesOwed
  BY DEF Init, FramesOwed
<1>q. QED BY <1>1, <1>2, <1>3, <1>4, <1>5 DEF HubInv

LEMMA NextHub == HubInv /\ [Next]_vars => HubInv'
BY TypeStep, IdsStep, FiledStep, BoundsStep, OwedStep DEF HubInv

(* The strengthened invariant holds in every behaviour. *)
THEOREM HubInvHolds == Spec => []HubInv
BY InitHub, NextHub, PTL DEF Spec

(* Every reachable state of the hub and its tasks is well typed: only the  *)
(* two closes the peers understand are ever queued or written.             *)
THEOREM TypeCorrect == Spec => []TypeOK
<1>1. HubInv => TypeOK
  BY DEF HubInv
<1>q. QED BY <1>1, HubInvHolds, PTL

(* The room table never leaks a slot and never exceeds its capacity, for   *)
(* every max_rooms and every interleaving of parks and departures.         *)
THEOREM NoSlotLeaks == Spec => []TableTight
<1>1. HubInv => TableTight
  BY DEF HubInv, Filed, TableExact, HeldBounded, TableTight
<1>q. QED BY <1>1, HubInvHolds, PTL

(* Every table entry is a live connection under its own room and side, no  *)
(* room has more than its share of clients, and no client is dropped from  *)
(* the table while its socket is served.                                   *)
THEOREM TableHoldsTheLiving == Spec => []EntriesLive
<1>1. HubInv => EntriesLive
  BY DEF HubInv, Filed, DaemonsFiled, ClientsFiled, ClientsStay, ClientsBounded, EntriesLive
<1>q. QED BY <1>1, HubInvHolds, PTL

(* No frame crosses from one room to another or back to its own side.      *)
THEOREM RoomsAreIsolated == Spec => []Isolated
<1>1. HubInv => Isolated
  <2> SUFFICES ASSUME HubInv, NEW c \in Conn, NEW S \in {queue[c], down[c]},
                      NEW i \in DOMAIN S, S[i].type = "frame"
               PROVE  room[S[i].src] = room[c] /\ role[S[i].src] # role[c]
    BY DEF Isolated
  <2>1. S \in Seq(Outbound) /\ DOMAIN S = 1 .. Len(S)
    BY DEF HubInv, TypeOK
  <2>2. Owed(c, S[i])
    BY <2>1 DEF HubInv, FramesOwed
  <2>q. QED BY <2>2 DEF Owed
<1>q. QED BY <1>1, HubInvHolds, PTL

(* The table's entries change only by the parking of nextId, the leaving   *)
(* of one connection, or the release that follows it.                      *)
LEMMA TableEffect ==
  ASSUME TypeOK, IdsInOrder, Filed, [Next]_vars
  PROVE  \/ UNCHANGED <<daemon, clients>>
         \/ \E r \in RoomIds : ParkDaemon(r)
         \/ \E r \in RoomIds : ParkClient(r)
         \/ \E d \in Conn : /\ Unpark(d) /\ room[d] \in RoomIds
                            /\ phase'[d] \in {"left", "dropped"}
         \/ \E d \in Conn : /\ LastClientLeft(d) /\ UnparkAndRelease(d) /\ room[d] \in RoomIds
                            /\ phase[d] \in Attached /\ phase'[d] = "left"
<1>1. ASSUME NEW c \in Conn, ReadyFailed(c)
      PROVE  Unpark(c) /\ room[c] \in RoomIds /\ phase'[c] = "dropped"
  BY <1>1 DEF ReadyFailed, IdsInOrder, TypeOK
<1>2. ASSUME NEW c \in Conn, Depart(c)
      PROVE  /\ room[c] \in RoomIds /\ phase'[c] = "left" /\ phase[c] \in Attached
             /\ Unpark(c) \/ (LastClientLeft(c) /\ UnparkAndRelease(c))
  BY <1>2 DEF Depart, IdsInOrder, TypeOK, Attached
<1>3. ASSUME NEW c \in Conn,
             ReadySent(c) \/ WriteFrame(c) \/ WriteClose(c) \/ WriterDrained(c)
               \/ SinkFailed(c) \/ AbortWriter(c) \/ Route(c) \/ RouteGone(c)
      PROVE  UNCHANGED <<daemon, clients>>
  BY <1>3 DEF ReadySent, WriteFrame, WriteClose, WriterDrained, SinkFailed, AbortWriter,
              Route, RouteGone
<1>4. CASE UNCHANGED vars
  BY <1>4 DEF vars
<1>q. QED BY <1>1, <1>2, <1>3, <1>4 DEF Next, ConnStep

(* A connection in the table is nobody's target once it is out of it, and  *)
(* nothing puts it back: not its own late steps, nor anybody else's.       *)
THEOREM OutIsOut == Spec => NeverRoutedAgain
<1> DEFINE Out == \A c \in Conn : phase[c] # "unborn" /\ ~InHub(c)
                    => ~InHub(c)' /\ Len(queue'[c]) <= Len(queue[c])
<1>1. ASSUME HubInv, [Next]_vars PROVE Out
  <2> SUFFICES ASSUME NEW c \in Conn, phase[c] # "unborn", ~InHub(c)
               PROVE  ~InHub(c)' /\ Len(queue'[c]) <= Len(queue[c])
    OBVIOUS
  <2>0. TypeOK /\ IdsInOrder /\ Filed
    BY <1>1 DEF HubInv
  <2>1. \A r \in RoomIds : daemon[r] # c /\ c \notin clients[r]
    BY DEF InHub
  <2>2. c # nextId /\ c # NoConn
    BY <2>0 DEF IdsInOrder, TypeOK, Conn, NoConn
  <2>3. ASSUME NEW r \in RoomIds PROVE daemon'[r] # c /\ c \notin clients'[r]
    <3>1. CASE UNCHANGED <<daemon, clients>>
      BY <2>1, <3>1
    <3>2. ASSUME NEW s \in RoomIds, ParkDaemon(s) PROVE daemon'[r] # c /\ c \notin clients'[r]
      BY <2>0, <2>1, <2>2, <3>2 DEF ParkDaemon, TypeOK
    <3>3. ASSUME NEW s \in RoomIds, ParkClient(s) PROVE daemon'[r] # c /\ c \notin clients'[r]
      BY <2>0, <2>1, <2>2, <3>3 DEF ParkClient, TypeOK
    <3>4. ASSUME NEW d \in Conn, Unpark(d) PROVE daemon'[r] # c /\ c \notin clients'[r]
      BY <2>0, <2>1, <2>2, <3>4, UnparkEffect
    <3>5. ASSUME NEW d \in Conn, LastClientLeft(d), UnparkAndRelease(d)
          PROVE  daemon'[r] # c /\ c \notin clients'[r]
      BY <2>0, <2>1, <2>2, <3>5, ReleaseEffect
    <3>q. QED BY <1>1, <2>0, <3>1, <3>2, <3>3, <3>4, <3>5, TableEffect
  <2>4. ASSUME NEW d \in Conn, Route(d) PROVE c \notin Targets(d)
    <3>1. room[d] \in RoomIds
      BY <2>0, <2>4 DEF Route, IdsInOrder
    <3>q. QED BY <2>1, <3>1 DEF Targets
  <2>5. queue[c] \in Seq(Outbound)
    BY <2>0 DEF TypeOK
  <2>6. \/ queue'[c] = queue[c] \/ queue'[c] = <<>>
        \/ queue[c] # <<>> /\ queue'[c] = Tail(queue[c])
    BY <1>1, <2>0, <2>1, <2>4, QueueEffect
  <2>7. Len(queue'[c]) <= Len(queue[c])
    <3>1. ASSUME queue[c] # <<>> PROVE Len(Tail(queue[c])) = Len(queue[c]) - 1
      BY <2>5, <3>1
    <3>2. Len(queue[c]) \in Nat /\ Len(<<>>) = 0
      BY <2>5
    <3>3. CASE queue'[c] = queue[c] \/ queue'[c] = <<>>
      BY <3>2, <3>3
    <3>4. CASE queue[c] # <<>> /\ queue'[c] = Tail(queue[c])
      BY <3>1, <3>2, <3>4
    <3>q. QED BY <2>6, <3>3, <3>4
  <2>q. QED BY <2>3, <2>7 DEF InHub
<1>q. QED BY <1>1, HubInvHolds, PTL DEF Spec, NeverRoutedAgain

(* A late departure of a superseded daemon never unregisters its           *)
(* successor: an entry goes only by its own departure, by a newer daemon   *)
(* of its room, or with its room's last client.                            *)
THEOREM OnlyThenEvicted == Spec => EvictedOnlyFor
<1> DEFINE Evicted(c) == \/ phase'[c] \in {"left", "dropped"}
                         \/ role[c] = "daemon" /\ daemon'[room[c]] > c
                         \/ role[c] = "daemon" /\ clients[room[c]] # {} /\ clients'[room[c]] = {}
<1> DEFINE Only == \A c \in Conn : InHub(c) /\ ~InHub(c)' => Evicted(c)
<1>1. ASSUME HubInv, [Next]_vars PROVE Only
  <2> SUFFICES ASSUME NEW c \in Conn, InHub(c), ~InHub(c)' PROVE Evicted(c)
    OBVIOUS
  <2>0. TypeOK /\ IdsInOrder /\ Filed
    BY <1>1 DEF HubInv
  <2>1. PICK r \in RoomIds : daemon[r] = c \/ c \in clients[r]
    BY DEF InHub
  <2>2. daemon'[r] # c /\ c \notin clients'[r]
    BY DEF InHub
  <2>3. /\ room[c] = r /\ phase[c] \in Attached
        /\ daemon[r] = c => role[c] = "daemon"
        /\ c \in clients[r] => role[c] = "client"
    BY <2>0, <2>1 DEF Filed, DaemonsFiled, ClientsFiled, Conn, NoConn
  <2>4. c < nextId
    BY <2>0, <2>3 DEF IdsInOrder, Attached, TypeOK, Conn
  <2>5. CASE UNCHANGED <<daemon, clients>>
    BY <2>1, <2>2, <2>5
  <2>6. ASSUME NEW s \in RoomIds, ParkDaemon(s) PROVE Evicted(c)
    <3>1. clients' = clients /\ daemon'[r] = IF s = r THEN nextId ELSE daemon[r]
      BY <2>0, <2>6 DEF ParkDaemon, TypeOK
    <3>2. daemon[r] = c /\ daemon'[r] = nextId
      BY <2>1, <2>2, <3>1
    <3>q. QED BY <2>3, <2>4, <3>2
  <2>7. ASSUME NEW s \in RoomIds, ParkClient(s) PROVE FALSE
    BY <2>0, <2>1, <2>2, <2>7 DEF ParkClient, TypeOK
  <2>8. ASSUME NEW d \in Conn, Unpark(d), phase'[d] \in {"left", "dropped"} PROVE Evicted(c)
    <3>0. /\ daemon'[r] = IF role[d] = "daemon" /\ room[d] = r /\ daemon[r] = d
                            THEN NoConn ELSE daemon[r]
          /\ clients'[r] = IF role[d] = "client" /\ room[d] = r
                             THEN clients[r] \ {d} ELSE clients[r]
      BY <2>0, <2>8, UnparkEffect
    <3>1. d = c
      BY <2>1, <2>2, <3>0
    <3>q. QED BY <2>8, <3>1
  <2>9. ASSUME NEW d \in Conn, LastClientLeft(d), UnparkAndRelease(d), room[d] \in RoomIds,
               phase[d] \in Attached, phase'[d] = "left"
        PROVE  Evicted(c)
    <3>1. /\ role[d] = "client"
          /\ daemon'[r] = IF room[d] = r THEN NoConn ELSE daemon[r]
          /\ clients'[r] = IF room[d] = r THEN {} ELSE clients[r]
          /\ room[d] = r => clients[r] \subseteq {d}
      BY <2>0, <2>9, ReleaseEffect
    <3>2. d \in clients[room[d]]
      BY <2>0, <2>9, <3>1 DEF Filed, ClientsStay
    <3>3. CASE d = c
      BY <2>9, <3>3
    <3>4. CASE d # c
      <4>1. room[d] = r /\ daemon[r] = c
        BY <2>1, <2>2, <3>1, <3>4
      <4>q. QED BY <2>3, <3>1, <3>2, <4>1
    <3>q. QED BY <3>3, <3>4
  <2>q. QED BY <1>1, <2>0, <2>5, <2>6, <2>7, <2>8, <2>9, TableEffect
<1>q. QED BY <1>1, HubInvHolds, PTL DEF Spec, EvictedOnlyFor

-----------------------------------------------------------------------------
(* Order.                                                                  *)

(* All that p has been or will be sent, oldest first. *)
Stream(p) == down[p] \o queue[p]

IsFrame(m) == m.type = "frame"

(* No frame on its way is newer than what was read from its sender: so the *)
(* next one that is read is newer than all of them.                        *)
NumbersBounded == \A p \in Conn : \A i \in 1 .. Len(Stream(p)) :
    IsFrame(Stream(p)[i]) => Stream(p)[i].n <= routed[Stream(p)[i].src]

StreamsOrdered == \A p \in Conn : \A i, j \in 1 .. Len(Stream(p)) :
    i < j /\ IsFrame(Stream(p)[i]) /\ IsFrame(Stream(p)[j]) /\ Stream(p)[i].src = Stream(p)[j].src
      => Stream(p)[i].n < Stream(p)[j].n

(* A writer starts once, a finished one leaves an empty queue that nobody  *)
(* fills, and a close was written by a writer that finished with it.       *)
WritersEnd == \A p \in Conn :
    /\ phase[p] \in {"unborn", "parked"} => writer[p] = "unspawned"
    /\ writer[p] = "done" => queue[p] = <<>>
    /\ \A i \in 1 .. Len(down[p]) : down[p][i].type = "close"
                                      => i = Len(down[p]) /\ writer[p] = "done"

OrderInv == NumbersBounded /\ StreamsOrdered /\ WritersEnd

(* The seven things a step may do to the queue, the socket and the writer  *)
(* of one connection.                                                      *)
Idles(p)   == queue'[p] = queue[p] /\ down'[p] = down[p]
Forgets(p) == queue'[p] = <<>> /\ down'[p] = down[p]
Moves(p)   == /\ writer[p] = "running" /\ writer'[p] = "running"
              /\ queue[p] # <<>> /\ IsFrame(Head(queue[p]))
              /\ queue'[p] = Tail(queue[p]) /\ down'[p] = Append(down[p], Head(queue[p]))
Closes(p)  == /\ writer[p] = "running" /\ writer'[p] = "done"
              /\ queue[p] # <<>> /\ queue'[p] = <<>> /\ down'[p] = Append(down[p], Head(queue[p]))
IsTold(p)  == /\ writer[p] # "done" /\ writer'[p] = writer[p]
              /\ down'[p] = down[p] /\ \E m \in {Close(SessionOver), Close(NotKeepingUp)} :
                                          queue'[p] = Append(queue[p], m)
IsSent(p)  == /\ writer[p] # "done" /\ writer'[p] = writer[p] /\ down'[p] = down[p]
              /\ \E c \in Conn : /\ Route(c) /\ p \in Targets(c)
                                 /\ queue'[p] = Append(queue[p], Frame(c, routed[c] + 1))
IsSlow(p)  == /\ writer[p] = "running" /\ writer'[p] = "running"
              /\ queue[p] # <<>> /\ IsFrame(Head(queue[p]))
              /\ queue'[p] = Append(Tail(queue[p]), Close(NotKeepingUp))
              /\ down'[p] = Append(down[p], Head(queue[p]))

StreamStep(p) == Idles(p) \/ Forgets(p) \/ Moves(p) \/ Closes(p) \/ IsTold(p)
                   \/ IsSent(p) \/ IsSlow(p)

LEMMA StreamEffect ==
  ASSUME TypeOK, IdsInOrder, Filed, [Next]_vars, NEW p \in Conn
  PROVE  StreamStep(p)
<1>t. /\ queue \in [Conn -> Seq(Outbound)] /\ down \in [Conn -> Seq(Outbound)]
      /\ writer \in [Conn -> {"unspawned", "running", "done"}]
  BY DEF TypeOK
<1>1. ASSUME NEW c \in Conn, Route(c) PROVE Idles(p) \/ IsSent(p) \/ IsSlow(p)
  <2>1. PICK popped \in SUBSET Full(c) : Enqueue(c, popped)
    BY <1>1 DEF Route
  <2>2. ASSUME p \in popped
        PROVE  /\ queue[p] # <<>> /\ ~HasSpace(p)
               /\ writer[p] = "running" /\ IsFrame(Head(queue[p]))
    <3>1. p \in Full(c)
      BY <2>2
    <3>2. writer[p] = "running" /\ IsFrame(Head(queue[p])) /\ Len(queue[p]) >= QueueCap
      BY <3>1 DEF Full, IsFrame
    <3>3. queue[p] # <<>> /\ ~(Len(queue[p]) < QueueCap)
      BY <1>t, <3>2, RelayAssumption
    <3>q. QED BY <3>2, <3>3 DEF HasSpace
  <2>3. /\ queue'[p] = IF p \in Targets(c) /\ HasSpace(p)
                          THEN Append(queue[p], Frame(c, routed[c] + 1))
                          ELSE IF p \in popped
                            THEN Append(Tail(queue[p]), Close(NotKeepingUp)) ELSE queue[p]
        /\ down'[p] = IF p \in popped THEN Append(down[p], Head(queue[p])) ELSE down[p]
    BY <2>1 DEF Enqueue
  <2>4. writer' = writer
    BY <1>1 DEF Route
  <2>5. CASE p \in popped
    BY <2>2, <2>3, <2>4, <2>5 DEF IsSlow
  <2>6. CASE p \notin popped /\ p \in Targets(c) /\ HasSpace(p)
    BY <1>1, <2>3, <2>4, <2>6 DEF IsSent, HasSpace
  <2>7. CASE p \notin popped /\ ~(p \in Targets(c) /\ HasSpace(p))
    BY <2>3, <2>7 DEF Idles
  <2>q. QED BY <2>5, <2>6, <2>7
<1>2. ASSUME NEW c \in Conn, Depart(c) PROVE Idles(p) \/ IsTold(p)
  <2>1. down' = down /\ writer' = writer
    BY <1>2 DEF Depart
  <2>2. CASE UNCHANGED queue
    BY <2>1, <2>2 DEF Idles
  <2>3. CASE UnparkAndRelease(c)
    <3>1. \/ queue' = queue
          \/ \E d : HasSpace(d) /\ queue' = [queue EXCEPT ![d] = Append(@, Close(SessionOver))]
      BY <2>3 DEF UnparkAndRelease
    <3>2. ASSUME NEW d, HasSpace(d), queue' = [queue EXCEPT ![d] = Append(@, Close(SessionOver))]
          PROVE  \/ queue'[p] = queue[p]
                 \/ HasSpace(p) /\ queue'[p] = Append(queue[p], Close(SessionOver))
      BY <1>t, <3>2
    <3>q. QED BY <2>1, <3>1, <3>2 DEF Idles, IsTold, HasSpace
  <2>q. QED BY <1>2, <2>2, <2>3 DEF Depart
<1>3. ASSUME NEW c \in Conn, WriteFrame(c) PROVE Idles(p) \/ Moves(p)
  BY <1>t, <1>3 DEF WriteFrame, Idles, Moves, IsFrame
<1>4. ASSUME NEW c \in Conn, WriteClose(c) PROVE Idles(p) \/ Closes(p)
  BY <1>t, <1>4 DEF WriteClose, WriterDone, Idles, Closes
<1>5. ASSUME NEW c \in Conn,
             ReadyFailed(c) \/ WriterDrained(c) \/ SinkFailed(c) \/ AbortWriter(c)
      PROVE  Idles(p) \/ Forgets(p)
  BY <1>t, <1>5 DEF ReadyFailed, WriterDrained, SinkFailed, AbortWriter, WriterDone, Idles, Forgets
<1>6. ASSUME NEW c \in Conn, ReadySent(c) \/ RouteGone(c) PROVE Idles(p)
  BY <1>6 DEF ReadySent, RouteGone, Idles
<1>7. ASSUME NEW r \in RoomIds, ParkDaemon(r) \/ ParkClient(r) PROVE Idles(p)
  BY <1>7 DEF ParkDaemon, ParkClient, Admit, Idles
<1>8. CASE UNCHANGED vars
  BY <1>8 DEF vars, Idles, StreamStep
<1>q. QED BY <1>1, <1>2, <1>3, <1>4, <1>5, <1>6, <1>7, <1>8 DEF Next, ConnStep, StreamStep

(* The same step, seen from the writer: it starts once and ends for good,  *)
(* with an empty queue.                                                    *)
WriterMoves(p) == \/ writer'[p] = writer[p] /\ (phase[p] = "unborn" \/ phase'[p] # "unborn")
                     /\ (phase'[p] \in {"unborn", "parked"} => phase[p] \in {"unborn", "parked"})
                  \/ phase[p] = "parked" /\ phase'[p] = "open" /\ writer'[p] = "running"
                  \/ writer'[p] = "done" /\ queue'[p] = <<>>
                     /\ phase'[p] \notin {"unborn", "parked"}

LEMMA WriterEffect ==
  ASSUME TypeOK, IdsInOrder, WritersEnd, [Next]_vars, NEW p \in Conn
  PROVE  WriterMoves(p)
<1>t. /\ queue \in [Conn -> Seq(Outbound)] /\ phase \in [Conn -> Phase]
      /\ writer \in [Conn -> {"unspawned", "running", "done"}]
  BY DEF TypeOK
<1>w. phase[p] \in {"unborn", "parked"} => writer[p] # "running"
  BY DEF WritersEnd
<1>1. ASSUME NEW r \in RoomIds, ParkDaemon(r) \/ ParkClient(r) PROVE WriterMoves(p)
  <2>1. PICK side \in {"daemon", "client"} : Admit(r, side)
    BY <1>1 DEF ParkDaemon, ParkClient
  <2>2. nextId \in Conn /\ phase[nextId] = "unborn"
    BY <1>1, RelayAssumption DEF ParkDaemon, ParkClient, TypeOK, Conn, IdsInOrder
  <2>3. writer' = writer /\ phase'[p] = IF p = nextId THEN "parked" ELSE phase[p]
    BY <1>t, <2>1 DEF Admit
  <2>q. QED BY <2>2, <2>3 DEF WriterMoves
<1>2. ASSUME NEW c \in Conn, ReadySent(c) PROVE WriterMoves(p)
  BY <1>t, <1>2 DEF ReadySent, WriterMoves
<1>3. ASSUME NEW c \in Conn, ReadyFailed(c) PROVE WriterMoves(p)
  BY <1>t, <1>3 DEF ReadyFailed, WriterMoves
<1>4. ASSUME NEW c \in Conn, Depart(c) \/ Route(c) \/ RouteGone(c) PROVE WriterMoves(p)
  BY <1>t, <1>4 DEF Depart, Route, RouteGone, WriterMoves
<1>5. ASSUME NEW c \in Conn, WriteFrame(c) PROVE WriterMoves(p)
  BY <1>t, <1>5 DEF WriteFrame, WriterMoves
<1>6. ASSUME NEW c \in Conn,
             WriteClose(c) \/ WriterDrained(c) \/ SinkFailed(c) \/ AbortWriter(c)
      PROVE  WriterMoves(p)
  BY <1>t, <1>w, <1>6 DEF WriteClose, WriterDrained, SinkFailed, AbortWriter, WriterDone, WriterMoves
<1>7. CASE UNCHANGED vars
  BY <1>7 DEF vars, WriterMoves
<1>q. QED BY <1>1, <1>2, <1>3, <1>4, <1>5, <1>6, <1>7 DEF Next, ConnStep

LEMMA WritersEndStep ==
  ASSUME TypeOK, IdsInOrder, Filed, WritersEnd, [Next]_vars PROVE WritersEnd'
<1> SUFFICES ASSUME NEW p \in Conn
             PROVE  /\ phase'[p] \in {"unborn", "parked"} => writer'[p] = "unspawned"
                    /\ writer'[p] = "done" => queue'[p] = <<>>
                    /\ \A i \in 1 .. Len(down'[p]) : down'[p][i].type = "close"
                                      => i = Len(down'[p]) /\ writer'[p] = "done"
  BY DEF WritersEnd
<1>t. queue[p] \in Seq(Outbound) /\ down[p] \in Seq(Outbound)
  BY DEF TypeOK
<1>0. /\ phase[p] \in {"unborn", "parked"} => writer[p] = "unspawned"
      /\ writer[p] = "done" => queue[p] = <<>>
      /\ \A i \in 1 .. Len(down[p]) : down[p][i].type = "close"
                                        => i = Len(down[p]) /\ writer[p] = "done"
  BY DEF WritersEnd
<1>1. WriterMoves(p) /\ StreamStep(p)
  BY WriterEffect, StreamEffect
<1>2. phase'[p] \in {"unborn", "parked"} => writer'[p] = "unspawned"
  BY <1>0, <1>1 DEF WriterMoves
<1>3. writer[p] = "done" => writer'[p] = "done"
  BY <1>0, <1>1 DEF WriterMoves
<1>4. writer'[p] = "done" => queue'[p] = <<>>
  <2>1. CASE writer[p] # "done"
    BY <1>1, <2>1 DEF WriterMoves
  <2>2. CASE writer[p] = "done"
    BY <1>0, <1>1, <2>2 DEF StreamStep, Idles, Forgets, Moves, Closes, IsTold, IsSent, IsSlow
  <2>q. QED BY <2>1, <2>2
<1>5. ASSUME NEW i \in 1 .. Len(down'[p]), down'[p][i].type = "close"
      PROVE  i = Len(down'[p]) /\ writer'[p] = "done"
  <2>1. CASE down'[p] = down[p]
    BY <1>0, <1>3, <1>5, <2>1
  <2>2. CASE /\ writer[p] = "running" /\ down'[p] = Append(down[p], Head(queue[p]))
             /\ IsFrame(Head(queue[p])) \/ writer'[p] = "done"
    <3>1. i \notin 1 .. Len(down[p])
      <4>1. i \in 1 .. Len(down[p]) => down'[p][i] = down[p][i]
        BY <1>t, <2>2
      <4>q. QED BY <1>0, <1>5, <2>2, <4>1
    <3>2. i = Len(down'[p]) /\ down'[p][i] = Head(queue[p])
      BY <1>t, <1>5, <2>2, <3>1
    <3>q. QED BY <1>5, <2>2, <3>2 DEF IsFrame
  <2>q. QED BY <1>1, <2>1, <2>2 DEF StreamStep, Idles, Forgets, Moves, Closes, IsTold, IsSent, IsSlow
<1>q. QED BY <1>2, <1>4, <1>5

(* What is left of a stream when its queue is dropped, after writing the   *)
(* head or without.                                                        *)
LEMMA CutStream ==
  ASSUME NEW T, NEW d \in Seq(T), NEW q \in Seq(T)
  PROVE  /\ \A i \in 1 .. Len(d \o <<>>) : i \in 1 .. Len(d \o q) /\ (d \o <<>>)[i] = (d \o q)[i]
         /\ q # <<>> => \A i \in 1 .. Len(Append(d, Head(q)) \o <<>>) :
               i \in 1 .. Len(d \o q) /\ (Append(d, Head(q)) \o <<>>)[i] = (d \o q)[i]
<1>0. Len(d) \in Nat /\ Len(q) \in Nat /\ Len(d \o q) = Len(d) + Len(q)
  OBVIOUS
<1>1. ASSUME NEW i \in 1 .. Len(d) PROVE (d \o <<>>)[i] = d[i] /\ (d \o q)[i] = d[i]
  OBVIOUS
<1>2. Len(d \o <<>>) = Len(d)
  OBVIOUS
<1>3. ASSUME q # <<>>, NEW i \in 1 .. Len(Append(d, Head(q)) \o <<>>)
      PROVE  i \in 1 .. Len(d \o q) /\ (Append(d, Head(q)) \o <<>>)[i] = (d \o q)[i]
  <2> DEFINE e == Append(d, Head(q))
  <2>1. /\ e \in Seq(T) /\ Len(e) = Len(d) + 1 /\ (\A k \in 1 .. Len(d) : e[k] = d[k])
        /\ e[Len(d) + 1] = q[1] /\ Len(q) >= 1
    BY <1>3
  <2> HIDE DEF e
  <2>2. Len(e \o <<>>) = Len(e) /\ \A k \in 1 .. Len(e) : (e \o <<>>)[k] = e[k]
    BY <2>1
  <2>3. i \in 1 .. Len(d) + 1
    BY <1>3, <2>1, <2>2 DEF e
  <2>4. (d \o q)[Len(d) + 1] = q[1]
    BY <1>0, <2>1
  <2>q. QED BY <1>0, <1>1, <2>1, <2>2, <2>3, <2>4 DEF e
<1>q. QED BY <1>0, <1>1, <1>2, <1>3

(* Moving the head of a queue to the socket leaves the stream as it was.   *)
LEMMA MovedStream ==
  ASSUME NEW T, NEW d \in Seq(T), NEW q \in Seq(T), q # <<>>
  PROVE  /\ Len(Append(d, Head(q)) \o Tail(q)) = Len(d \o q)
         /\ \A i \in 1 .. Len(Append(d, Head(q)) \o Tail(q)) :
               i \in 1 .. Len(d \o q) /\ (Append(d, Head(q)) \o Tail(q))[i] = (d \o q)[i]
<1>1. /\ Tail(q) \in Seq(T) /\ Len(Tail(q)) = Len(q) - 1 /\ Len(q) \in Nat \ {0}
      /\ \A k \in 1 .. Len(Tail(q)) : Tail(q)[k] = q[k + 1]
  OBVIOUS
<1>2. /\ Append(d, Head(q)) \in Seq(T) /\ Len(Append(d, Head(q))) = Len(d) + 1 /\ Len(d) \in Nat
      /\ \A k \in 1 .. Len(d) : Append(d, Head(q))[k] = d[k]
      /\ Append(d, Head(q))[Len(d) + 1] = q[1]
  OBVIOUS
<1> DEFINE e == Append(d, Head(q))  t == Tail(q)
<1> HIDE DEF e, t
<1>3. e \in Seq(T) /\ t \in Seq(T) /\ Len(e \o t) = Len(d) + Len(q) /\ Len(d \o q) = Len(d) + Len(q)
  BY <1>1, <1>2 DEF e, t
<1>4. ASSUME NEW i \in 1 .. Len(e \o t) PROVE i \in 1 .. Len(d \o q) /\ (e \o t)[i] = (d \o q)[i]
  <2>1. i \in 1 .. Len(d) + Len(q)
    BY <1>3
  <2>2. (e \o t)[i] = IF i <= Len(e) THEN e[i] ELSE t[i - Len(e)]
    BY <1>3
  <2>3. (d \o q)[i] = IF i <= Len(d) THEN d[i] ELSE q[i - Len(d)]
    BY <1>3
  <2>4. CASE i <= Len(d)
    BY <1>2, <1>3, <2>1, <2>2, <2>3, <2>4 DEF e, t
  <2>5. CASE i = Len(d) + 1
    BY <1>2, <1>3, <2>1, <2>2, <2>3, <2>5 DEF e, t
  <2>6. CASE i > Len(d) + 1
    BY <1>1, <1>2, <1>3, <2>1, <2>2, <2>3, <2>6 DEF e, t
  <2>7. i <= Len(d) \/ i = Len(d) + 1 \/ i > Len(d) + 1
    <3>1. Len(d) \in Nat /\ i \in Int
      BY <1>2
    <3>q. QED BY <3>1
  <2>q. QED BY <2>4, <2>5, <2>6, <2>7
<1>q. QED BY <1>3, <1>4 DEF e, t

LEMMA LongerStream ==
  ASSUME NEW T, NEW d \in Seq(T), NEW q \in Seq(T), NEW m \in T
  PROVE  \A i \in 1 .. Len(d \o Append(q, m)) :
         \/ i \in 1 .. Len(d \o q) /\ (d \o Append(q, m))[i] = (d \o q)[i]
         \/ i = Len(d \o q) + 1 /\ (d \o Append(q, m))[i] = m
<1> DEFINE a == Append(q, m)
<1>1. a \in Seq(T) /\ Len(a) = Len(q) + 1 /\ Len(d) \in Nat /\ Len(q) \in Nat
      /\ (\A k \in 1 .. Len(q) : a[k] = q[k]) /\ a[Len(q) + 1] = m
  OBVIOUS
<1> HIDE DEF a
<1>2. Len(d \o a) = Len(d) + Len(q) + 1 /\ Len(d \o q) = Len(d) + Len(q)
  BY <1>1
<1> SUFFICES ASSUME NEW i \in 1 .. Len(d \o a)
             PROVE  \/ i \in 1 .. Len(d \o q) /\ (d \o a)[i] = (d \o q)[i]
                    \/ i = Len(d \o q) + 1 /\ (d \o a)[i] = m
  BY DEF a
<1>3. i \in 1 .. Len(d) + Len(q) + 1
  BY <1>2
<1>4. (d \o a)[i] = IF i <= Len(d) THEN d[i] ELSE a[i - Len(d)]
  BY <1>1, <1>2, <1>3
<1>5. i <= Len(d) + Len(q) => (d \o q)[i] = IF i <= Len(d) THEN d[i] ELSE q[i - Len(d)]
  BY <1>1, <1>2, <1>3
<1>6. CASE i <= Len(d)
  BY <1>1, <1>2, <1>3, <1>4, <1>5, <1>6 DEF a
<1>7. CASE i > Len(d) /\ i <= Len(d) + Len(q)
  BY <1>1, <1>2, <1>3, <1>4, <1>5, <1>7 DEF a
<1>8. CASE i = Len(d) + Len(q) + 1
  BY <1>1, <1>2, <1>3, <1>4, <1>8 DEF a
<1>q. QED BY <1>1, <1>3, <1>6, <1>7, <1>8

(* A stream keeps its elements in place: a step cuts it short, or adds one *)
(* close, or adds the frame being routed.                                  *)
LEMMA StreamGrows ==
  ASSUME TypeOK, IdsInOrder, Filed, [Next]_vars, NEW p \in Conn,
         NEW i \in 1 .. Len(Stream(p)')
  PROVE  \/ i \in 1 .. Len(Stream(p)) /\ Stream(p)'[i] = Stream(p)[i]
         \/ /\ i = Len(Stream(p)) + 1
            /\ \/ Stream(p)'[i] \in {Close(SessionOver), Close(NotKeepingUp)}
               \/ \E c \in Conn : /\ Route(c) /\ p \in Targets(c)
                                  /\ Stream(p)'[i] = Frame(c, routed[c] + 1)
<1>d. PICK d, q : d = down[p] /\ q = queue[p]
  OBVIOUS
<1>t. d \in Seq(Outbound) /\ q \in Seq(Outbound)
  BY <1>d DEF TypeOK
<1>s. Stream(p) = d \o q /\ Stream(p)' = down'[p] \o queue'[p]
  BY <1>d DEF Stream
<1>c. Close(SessionOver) \in Outbound /\ Close(NotKeepingUp) \in Outbound
  BY CloseType
<1>1. CASE Idles(p)
  BY <1>d, <1>s, <1>1 DEF Idles
<1>2. CASE Forgets(p)
  <2>1. Stream(p)' = d \o <<>>
    BY <1>d, <1>s, <1>2 DEF Forgets
  <2>q. QED BY <1>s, <1>t, <2>1, CutStream
<1>3. CASE Moves(p)
  <2>1. Stream(p)' = Append(d, Head(q)) \o Tail(q) /\ q # <<>>
    BY <1>d, <1>s, <1>3 DEF Moves
  <2>q. QED BY <1>s, <1>t, <2>1, MovedStream
<1>4. CASE Closes(p)
  <2>1. Stream(p)' = Append(d, Head(q)) \o <<>> /\ q # <<>>
    BY <1>d, <1>s, <1>4 DEF Closes
  <2>q. QED BY <1>s, <1>t, <2>1, CutStream
<1>5. CASE IsTold(p)
  <2>1. PICK m \in {Close(SessionOver), Close(NotKeepingUp)} : Stream(p)' = d \o Append(q, m)
    BY <1>d, <1>s, <1>5 DEF IsTold
  <2>2. m \in Outbound
    BY <1>c
  <2>q. QED BY <1>s, <1>t, <2>1, <2>2, LongerStream
<1>6. CASE IsSent(p)
  <2>1. PICK c \in Conn : /\ Route(c) /\ p \in Targets(c)
                          /\ Stream(p)' = d \o Append(q, Frame(c, routed[c] + 1))
    BY <1>d, <1>s, <1>6 DEF IsSent
  <2>2. Frame(c, routed[c] + 1) \in Outbound
    <3>1. routed[c] + 1 \in 1 .. MaxFrames
      BY <2>1, RelayAssumption DEF Route, TypeOK
    <3>q. QED BY <3>1, FrameType
  <2>q. QED BY <1>s, <1>t, <2>1, <2>2, LongerStream
<1>7. CASE IsSlow(p)
  <2>0. Stream(p)' = Append(d, Head(q)) \o Append(Tail(q), Close(NotKeepingUp)) /\ q # <<>>
    BY <1>d, <1>s, <1>7 DEF IsSlow
  <2>1. PICK e, t, m : e = Append(d, Head(q)) /\ t = Tail(q) /\ m = Close(NotKeepingUp)
    OBVIOUS
  <2>2. e \in Seq(Outbound) /\ t \in Seq(Outbound) /\ m \in Outbound
    BY <1>t, <1>c, <2>0, <2>1
  <2>3. /\ Len(e \o t) = Len(d \o q)
        /\ \A k \in 1 .. Len(e \o t) : k \in 1 .. Len(d \o q) /\ (e \o t)[k] = (d \o q)[k]
    BY <1>t, <2>0, <2>1, MovedStream
  <2>4. Stream(p)' = e \o Append(t, m)
    BY <2>0, <2>1
  <2>5. \/ i \in 1 .. Len(e \o t) /\ Stream(p)'[i] = (e \o t)[i]
        \/ i = Len(e \o t) + 1 /\ Stream(p)'[i] = m
    BY <2>2, <2>4, LongerStream
  <2>q. QED BY <1>s, <2>1, <2>3, <2>5
<1>q. QED BY <1>1, <1>2, <1>3, <1>4, <1>5, <1>6, <1>7, StreamEffect DEF StreamStep

LEMMA RoutedEffect ==
  ASSUME TypeOK, [Next]_vars, NEW p \in Conn
  PROVE  /\ routed[p] \in Nat /\ routed'[p] \in Nat /\ routed[p] <= routed'[p]
         /\ Route(p) => routed'[p] = routed[p] + 1
<1>0. routed \in [Conn -> Nat]
  BY RelayAssumption DEF TypeOK
<1>1. ASSUME NEW c \in Conn, Route(c) \/ RouteGone(c)
      PROVE  routed' = [routed EXCEPT ![c] = @ + 1]
  BY <1>1 DEF Route, RouteGone
<1>2. ASSUME ~\E c \in Conn : Route(c) \/ RouteGone(c) PROVE UNCHANGED routed
  BY <1>2 DEF Next, ConnStep, vars, ParkDaemon, ParkClient, Admit, ReadySent, ReadyFailed,
              Depart, WriteFrame, WriteClose, WriterDrained, SinkFailed, AbortWriter
<1>q. QED BY <1>0, <1>1, <1>2

LEMMA OrderStep == ASSUME HubInv, OrderInv, [Next]_vars PROVE OrderInv'
<1>0. TypeOK /\ IdsInOrder /\ Filed /\ FramesOwed
  BY DEF HubInv
<1>1. WritersEnd'
  BY <1>0, WritersEndStep DEF OrderInv
<1>2. ASSUME NEW p \in Conn PROVE Stream(p) \in Seq(Outbound)
  BY <1>0 DEF TypeOK, Stream
<1>3. ASSUME NEW p \in Conn, NEW i \in 1 .. Len(Stream(p)), IsFrame(Stream(p)[i])
      PROVE  Stream(p)[i].src \in Conn /\ Stream(p)[i].n \in Nat
  <2>1. Stream(p)[i] \in Outbound
    BY <1>2, <1>3
  <2>q. QED BY <1>3, <2>1 DEF Outbound, IsFrame
<1>4. ASSUME NEW c \in Conn
      PROVE  /\ Frame(c, routed[c] + 1).type = "frame" /\ Frame(c, routed[c] + 1).src = c
             /\ Frame(c, routed[c] + 1).n = routed[c] + 1
  BY DEF Frame
<1>5. ~IsFrame(Close(SessionOver)) /\ ~IsFrame(Close(NotKeepingUp))
  BY DEF Close, IsFrame
<1>6. NumbersBounded'
  <2> SUFFICES ASSUME NEW p \in Conn, NEW i \in 1 .. Len(Stream(p)'), IsFrame(Stream(p)'[i])
               PROVE  Stream(p)'[i].n <= routed'[Stream(p)'[i].src]
    BY DEF NumbersBounded, IsFrame
  <2>1. CASE i \in 1 .. Len(Stream(p)) /\ Stream(p)'[i] = Stream(p)[i]
    <3>1. Stream(p)[i].n <= routed[Stream(p)[i].src]
      BY <2>1 DEF OrderInv, NumbersBounded
    <3>q. QED BY <1>0, <1>3, <2>1, <3>1, RoutedEffect
  <2>2. CASE \E c \in Conn : Route(c) /\ Stream(p)'[i] = Frame(c, routed[c] + 1)
    BY <1>0, <1>4, <2>2, RoutedEffect
  <2>q. QED BY <1>0, <1>5, <2>1, <2>2, StreamGrows
<1>7. StreamsOrdered'
  <2> SUFFICES ASSUME NEW p \in Conn, NEW i \in 1 .. Len(Stream(p)'), NEW j \in 1 .. Len(Stream(p)'),
                      i < j, IsFrame(Stream(p)'[i]), IsFrame(Stream(p)'[j]),
                      Stream(p)'[i].src = Stream(p)'[j].src
               PROVE  Stream(p)'[i].n < Stream(p)'[j].n
    BY DEF StreamsOrdered, IsFrame
  <2>0. Len(Stream(p)) \in Nat
    BY <1>2
  <2>1. i \in 1 .. Len(Stream(p)) /\ Stream(p)'[i] = Stream(p)[i]
    <3>1. j <= Len(Stream(p)) + 1
      BY <1>0, <2>0, StreamGrows
    <3>2. i # Len(Stream(p)) + 1
      BY <2>0, <3>1
    <3>q. QED BY <1>0, <3>2, StreamGrows
  <2>2. CASE j \in 1 .. Len(Stream(p)) /\ Stream(p)'[j] = Stream(p)[j]
    BY <2>1, <2>2 DEF OrderInv, StreamsOrdered
  <2>3. CASE \E c \in Conn : Route(c) /\ Stream(p)'[j] = Frame(c, routed[c] + 1)
    <3>1. PICK c \in Conn : Stream(p)'[j] = Frame(c, routed[c] + 1)
      BY <2>3
    <3>2. Stream(p)[i].n <= routed[Stream(p)[i].src]
      BY <2>1 DEF OrderInv, NumbersBounded
    <3>3. Stream(p)[i].src = c /\ Stream(p)[i].n \in Nat
      BY <1>3, <1>4, <2>1, <3>1
    <3>q. QED BY <1>0, <1>4, <2>1, <3>1, <3>2, <3>3, RoutedEffect
  <2>q. QED BY <1>0, <1>5, <2>2, <2>3, StreamGrows
<1>q. QED BY <1>1, <1>6, <1>7 DEF OrderInv

LEMMA OrderInit == Init => OrderInv
<1> SUFFICES ASSUME Init PROVE OrderInv
  OBVIOUS
<1>1. ASSUME NEW p \in Conn
      PROVE  /\ queue[p] = <<>> /\ down[p] = <<>> /\ writer[p] = "unspawned" /\ Len(Stream(p)) = 0
  BY DEF Init, Stream
<1>q. QED BY <1>1 DEF OrderInv, NumbersBounded, StreamsOrdered, WritersEnd

(* Every connection sees each sender's frames in order and at most once,   *)
(* and nothing after the relay's close, for every queue capacity.          *)
THEOREM FramesInOrder == Spec => []InOrder
<1>1. Init => OrderInv
  BY OrderInit
<1>2. HubInv /\ OrderInv /\ [Next]_vars => OrderInv'
  BY OrderStep
<1>3. HubInv /\ OrderInv => InOrder
  <2> SUFFICES ASSUME HubInv, OrderInv, NEW c \in Conn
               PROVE  /\ \A i, j \in DOMAIN Stream(c) :
                            i < j /\ Stream(c)[i].type = "frame" /\ Stream(c)[j].type = "frame"
                              /\ Stream(c)[i].src = Stream(c)[j].src
                              => Stream(c)[i].n < Stream(c)[j].n
                      /\ \A i \in DOMAIN down[c] : down[c][i].type = "close" => i = Len(down[c])
    BY DEF InOrder, Stream
  <2>1. down[c] \in Seq(Outbound) /\ Stream(c) \in Seq(Outbound)
    BY DEF HubInv, TypeOK, Stream
  <2>2. DOMAIN Stream(c) = 1 .. Len(Stream(c)) /\ DOMAIN down[c] = 1 .. Len(down[c])
    BY <2>1
  <2>q. QED BY <2>2 DEF OrderInv, StreamsOrdered, WritersEnd, IsFrame
<1>q. QED BY <1>1, <1>2, <1>3, HubInvHolds, PTL DEF Spec

(* What was sent to a daemon was sent while it had a client, and the        *)
(* departure of its last client releases it: only the early return of a     *)
(* client that could not be told ready leaves a used daemon in its room.    *)
THEOREM OnlyADropLeavesItUsed == Spec => UsedAloneOnlyByDrop
<1> DEFINE Dropped(r) == \E c \in Conn : /\ phase[c] = "parked" /\ phase'[c] = "dropped"
                                         /\ room[c] = r
<1> DEFINE Only == \A r \in RoomIds : ~UsedAlone(r) /\ UsedAlone(r)' => Dropped(r)
<1>1. ASSUME HubInv, [Next]_vars PROVE Only
  <2> SUFFICES ASSUME NEW r \in RoomIds, ~UsedAlone(r), UsedAlone(r)' PROVE Dropped(r)
    OBVIOUS
  <2>0. TypeOK /\ IdsInOrder /\ Filed /\ TypeOK' /\ Filed'
    BY <1>1, NextHub DEF HubInv
  <2>1. PICK p \in Conn : p = daemon'[r]
    BY <2>0 DEF UsedAlone, TypeOK
  <2>2. p # NoConn /\ clients'[r] = {} /\ (queue'[p] # <<>> \/ down'[p] # <<>>)
    BY <2>1 DEF UsedAlone, Conn, NoConn
  <2>3. daemon[r] = p /\ clients[r] = {} => queue[p] = <<>> /\ down[p] = <<>>
    BY <2>2 DEF UsedAlone
  <2>4. phase'[p] \in Attached /\ room'[p] = r
    BY <2>0, <2>1, <2>2 DEF Filed, DaemonsFiled
  <2>5. ASSUME daemon[r] = p, clients[r] = {} PROVE FALSE
    <3>1. queue[p] = <<>> /\ down[p] = <<>> /\ room[p] = r /\ role[p] = "daemon"
      BY <2>0, <2>2, <2>3, <2>5 DEF Filed, DaemonsFiled
    <3>2. ASSUME NEW s \in RoomIds, daemon[s] = p, daemon'[s] = NoConn PROVE FALSE
      <4>1. s = r
        BY <2>0, <2>2, <3>1, <3>2 DEF Filed, DaemonsFiled
      <4>q. QED BY <2>1, <2>2, <3>2, <4>1
    <3>3. ASSUME NEW c \in Conn, Route(c), p \in Targets(c) PROVE FALSE
      <4>1. room[c] \in RoomIds /\ IsParked(c)
        BY <2>0, <3>3 DEF Route, IdsInOrder
      <4>2. room[c] = r /\ role[c] # "daemon"
        BY <2>0, <3>1, <3>3, <4>1, TargetsFiled
      <4>q. QED BY <2>5, <4>1, <4>2 DEF IsParked
    <3>q. QED BY <1>1, <2>0, <2>2, <3>1, <3>2, <3>3, QueueEffect
  <2>6. CASE UNCHANGED <<daemon, clients>>
    BY <2>1, <2>2, <2>5, <2>6
  <2>7. ASSUME NEW s \in RoomIds, ParkDaemon(s) PROVE FALSE
    <3>1. /\ clients' = clients /\ queue' = queue /\ down' = down
          /\ daemon'[r] = IF r = s THEN nextId ELSE daemon[r]
      BY <2>0, <2>7 DEF ParkDaemon, Admit, TypeOK
    <3>2. p = nextId => queue[p] = <<>> /\ down[p] = <<>>
      BY <2>0 DEF IdsInOrder, TypeOK
    <3>q. QED BY <2>1, <2>2, <2>5, <3>1, <3>2
  <2>8. ASSUME NEW s \in RoomIds, ParkClient(s) PROVE FALSE
    <3>1. daemon' = daemon /\ clients[r] \subseteq clients'[r]
      BY <2>0, <2>8 DEF ParkClient, TypeOK
    <3>q. QED BY <2>1, <2>2, <2>5, <3>1
  <2>9. ASSUME NEW d \in Conn, Unpark(d), room[d] \in RoomIds
        PROVE  daemon[r] = p /\ role[d] = "client" /\ room[d] = r /\ clients[r] # {}
    <3>1. /\ daemon'[r] = IF role[d] = "daemon" /\ room[d] = r /\ daemon[r] = d
                            THEN NoConn ELSE daemon[r]
          /\ clients'[r] = IF role[d] = "client" /\ room[d] = r
                             THEN clients[r] \ {d} ELSE clients[r]
      BY <2>0, <2>9, UnparkEffect
    <3>2. daemon[r] = p
      BY <2>1, <2>2, <3>1
    <3>q. QED BY <2>2, <2>5, <3>1, <3>2
  <2>10. ASSUME NEW d \in Conn, ReadyFailed(d) PROVE Dropped(r)
    <3>1. Unpark(d) /\ room[d] \in RoomIds /\ phase[d] = "parked" /\ phase'[d] = "dropped"
      BY <2>0, <2>10 DEF ReadyFailed, IdsInOrder, TypeOK
    <3>q. QED BY <2>9, <3>1
  <2>11. ASSUME NEW d \in Conn, Depart(d) PROVE FALSE
    <3>0. room[d] \in RoomIds
      BY <2>0, <2>11 DEF Depart, IdsInOrder
    <3>1. CASE ~LastClientLeft(d) /\ Unpark(d)
      <4>1. daemon[r] = p /\ role[d] = "client" /\ room[d] = r /\ clients[r] # {}
        BY <2>9, <3>0, <3>1
      <4>2. r \in held
        BY <2>0, <4>1 DEF Filed, TableExact
      <4>3. ClientsAfterUnpark(d)[r] = {}
        BY <2>2, <3>1 DEF Unpark
      <4>q. QED BY <2>2, <3>1, <4>1, <4>2, <4>3 DEF LastClientLeft
    <3>2. CASE LastClientLeft(d) /\ UnparkAndRelease(d)
      <4>1. /\ daemon'[r] = IF room[d] = r THEN NoConn ELSE daemon[r]
            /\ clients'[r] = IF room[d] = r THEN {} ELSE clients[r]
        BY <2>0, <3>2, ReleaseEffect
      <4>q. QED BY <2>1, <2>2, <2>5, <4>1
    <3>q. QED BY <2>11, <3>1, <3>2 DEF Depart
  <2>12. ASSUME NEW c \in Conn,
                ReadySent(c) \/ WriteFrame(c) \/ WriteClose(c) \/ WriterDrained(c)
                  \/ SinkFailed(c) \/ AbortWriter(c) \/ Route(c) \/ RouteGone(c)
         PROVE  UNCHANGED <<daemon, clients>>
    BY <2>12 DEF ReadySent, WriteFrame, WriteClose, WriterDrained, SinkFailed, AbortWriter,
                 Route, RouteGone
  <2>13. CASE UNCHANGED vars
    BY <2>6, <2>13 DEF vars
  <2>q. QED
    BY <1>1, <2>6, <2>7, <2>8, <2>10, <2>11, <2>12, <2>13 DEF Next, ConnStep
<1>q. QED BY <1>1, HubInvHolds, PTL DEF Spec, UsedAloneOnlyByDrop

=============================================================================
