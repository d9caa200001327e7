------------------------------ MODULE RelayHub ------------------------------
(***************************************************************************)
(* The relay: the Mutex-guarded room table (dr-dsh-relay/src/rooms.rs) and *)
(* the tasks that serve one WebSocket each (run_socket in ingress.rs).     *)
(*                                                                         *)
(* One step of this module is one critical section of the Hub's lock, or   *)
(* one step of a connection's writer task, which runs outside that lock.   *)
(* The relay never looks inside a frame, so a frame is its identity: the   *)
(* n-th binary message read from connection src.  A peer is the network:   *)
(* it may send, stop reading or vanish at any step.                        *)
(***************************************************************************)
EXTENDS Naturals, Sequences, FiniteSets

CONSTANTS
    RoomIds,     \* the room ids peers present
    NoRoom,      \* the room of a connection id not handed out yet
    MaxRooms,    \* Hub::max_rooms, from the relay's configuration
    MaxClients,  \* MAX_DEVICES_PER_ROOM
    QueueCap,    \* FRAME_QUEUE, the capacity of a connection's channel
    MaxConns,    \* bound of the model: connections ever parked
    MaxFrames    \* bound of the model: frames read from one connection

ASSUME RelayAssumption ==
    /\ NoRoom \notin RoomIds
    /\ MaxRooms \in Nat
    /\ MaxClients \in Nat
    /\ QueueCap \in Nat \ {0}
    /\ MaxConns \in Nat
    /\ MaxFrames \in Nat

Conn   == 1 .. MaxConns
NoConn == 0

Frame(c, n) == [type |-> "frame", src |-> c, n |-> n]

(* Mutant: a close that does not carry the agreed reason. *)
CloseReworded(reason) == [type |-> "close", reason |-> "goodbye"]

Close(reason) == [type |-> "close", reason |-> reason]

SessionOver  == "session over"
NotKeepingUp == "peer is not keeping up"

Outbound == [type : {"frame"}, src : Conn, n : 1 .. MaxFrames]
              \cup [type : {"close"}, reason : {SessionOver, NotKeepingUp}]

VARIABLES
    held,     \* the keys of Hub::rooms
    daemon,   \* Room::daemon, NoConn for None
    clients,  \* Room::clients
    nextId,   \* Hub::next_id
    room,     \* the room a connection announced in its hello
    role,     \* the side its endpoint stands for
    phase,    \* where run_socket is for it
    queue,    \* its mpsc channel of Outbound
    writer,   \* its writer task
    down,     \* everything written to its socket, in order
    routed    \* binary messages read from its socket so far

tableVars == <<held, daemon, clients>>
connVars  == <<nextId, room, role>>
vars      == <<held, daemon, clients, nextId, room, role, phase, queue,
               writer, down, routed>>

(* "parked": in the table, its ready line not sent yet; "open": both loops *)
(* run; "closing": the read loop has ended; "left": unparked after the     *)
(* loop; "dropped": unparked because the ready line could not be sent.     *)
Phase == {"unborn", "parked", "open", "closing", "left", "dropped"}

(* Every variable holds a value of its type: queues hold frames and        *)
(* closes, and a close that reaches a socket has one of the known reasons. *)
TypeOK ==
    /\ held \subseteq RoomIds
    /\ daemon \in [RoomIds -> Conn \cup {NoConn}]
    /\ clients \in [RoomIds -> SUBSET Conn]
    /\ nextId \in 1 .. MaxConns + 1
    /\ room \in [Conn -> RoomIds \cup {NoRoom}]
    /\ role \in [Conn -> {"daemon", "client"}]
    /\ phase \in [Conn -> Phase]
    /\ queue \in [Conn -> Seq(Outbound)]
    /\ writer \in [Conn -> {"unspawned", "running", "done"}]
    /\ down \in [Conn -> Seq(Outbound)]
    /\ routed \in [Conn -> 0 .. MaxFrames]

Init ==
    /\ held = {}
    /\ daemon = [r \in RoomIds |-> NoConn]
    /\ clients = [r \in RoomIds |-> {}]
    /\ nextId = 1
    /\ room = [c \in Conn |-> NoRoom]
    /\ role = [c \in Conn |-> "client"]
    /\ phase = [c \in Conn |-> "unborn"]
    /\ queue = [c \in Conn |-> <<>>]
    /\ writer = [c \in Conn |-> "unspawned"]
    /\ down = [c \in Conn |-> <<>>]
    /\ routed = [c \in Conn |-> 0]

(* Whether the table holds c, which is also whether the only Sender of its *)
(* channel still exists (Room::find).                                      *)
InHub(c) == \E r \in RoomIds : daemon[r] = c \/ c \in clients[r]

-----------------------------------------------------------------------------
(* Parking.  A refused hello leaves the Hub as it was.                     *)

Admit(r, side) ==
    /\ room' = [room EXCEPT ![nextId] = r]
    /\ role' = [role EXCEPT ![nextId] = side]
    /\ phase' = [phase EXCEPT ![nextId] = "parked"]
    /\ nextId' = nextId + 1
    /\ UNCHANGED <<queue, writer, down, routed>>

(* A daemon takes the room over from the connection that held it, if any:  *)
(* that one leaves the table but its socket and its tasks live on.         *)
ParkDaemon(r) ==
    /\ nextId <= MaxConns
    /\ r \in held \/ Cardinality(held) < MaxRooms
    /\ held' = held \cup {r}
    /\ daemon' = [daemon EXCEPT ![r] = nextId]
    /\ UNCHANGED clients
    /\ Admit(r, "daemon")

ParkClient(r) ==
    /\ nextId <= MaxConns
    /\ r \in held
    /\ daemon[r] # NoConn
    /\ Cardinality(clients[r]) < MaxClients
    /\ clients' = [clients EXCEPT ![r] = @ \cup {nextId}]
    /\ UNCHANGED <<held, daemon>>
    /\ Admit(r, "client")

-----------------------------------------------------------------------------
(* Leaving.                                                                *)

(* Mutant: unpark forgets to compare the connection id. *)
DaemonAfterUnparkAnyId(c) ==
    [r \in RoomIds |-> IF role[c] = "daemon" /\ room[c] = r THEN NoConn ELSE daemon[r]]

DaemonAfterUnpark(c) ==
    [r \in RoomIds |-> IF role[c] = "daemon" /\ room[c] = r /\ daemon[r] = c
                         THEN NoConn ELSE daemon[r]]

(* Mutant: a departing client stays listed. *)
ClientsAfterUnparkKept(c) == clients

ClientsAfterUnpark(c) ==
    [r \in RoomIds |-> IF role[c] = "client" /\ room[c] = r
                         THEN clients[r] \ {c} ELSE clients[r]]

(* Mutant: the room is inspected before the client is removed from it. *)
LastClientLeftEarly(c) ==
    /\ role[c] = "client"
    /\ room[c] \in held
    /\ daemon[room[c]] # NoConn
    /\ clients[room[c]] = {}

(* Departure::LastClient *)
LastClientLeft(c) ==
    /\ role[c] = "client"
    /\ room[c] \in held
    /\ daemon[room[c]] # NoConn
    /\ ClientsAfterUnpark(c)[room[c]] = {}

(* Mutant: an emptied room keeps its slot. *)
ForgetNever(r, d, cs) == held

(* A room with neither daemon nor clients is forgotten. *)
ForgetIfEmpty(r, d, cs) == IF d[r] = NoConn /\ cs[r] = {} THEN held \ {r} ELSE held

Unpark(c) ==
    /\ daemon' = DaemonAfterUnpark(c)
    /\ clients' = ClientsAfterUnpark(c)
    /\ held' = ForgetIfEmpty(room[c], daemon', clients')

(* try_send fails on a channel that is full or whose receiver is gone. *)
HasSpace(c) == writer[c] # "done" /\ Len(queue[c]) < QueueCap

(* Unpark of a room's last client, then release_daemon in the same critical *)
(* section: the daemon is told, if its queue has room, and unregistered.    *)
UnparkAndRelease(c) ==
    LET r == room[c]
        d == daemon[r]
    IN  /\ clients' = ClientsAfterUnpark(c)
        /\ daemon' = [daemon EXCEPT ![r] = NoConn]
        /\ held' = ForgetIfEmpty(r, daemon', clients')
        /\ queue' = IF HasSpace(d)
                      THEN [queue EXCEPT ![d] = Append(@, Close(SessionOver))]
                      ELSE queue

(* The read loop is over: the peer closed, failed, sent text or an invalid  *)
(* frame ("open"), or route answered Gone ("closing").                      *)
Depart(c) ==
    /\ phase[c] \in {"open", "closing"}
    /\ phase' = [phase EXCEPT ![c] = "left"]
    /\ \/ LastClientLeft(c) /\ UnparkAndRelease(c)
       \/ ~LastClientLeft(c) /\ Unpark(c) /\ UNCHANGED queue
    /\ UNCHANGED <<nextId, room, role, writer, down, routed>>

-----------------------------------------------------------------------------
(* The ready line, and the writer task that starts after it.               *)

ReadySent(c) ==
    /\ phase[c] = "parked"
    /\ phase' = [phase EXCEPT ![c] = "open"]
    /\ writer' = [writer EXCEPT ![c] = "running"]
    /\ UNCHANGED <<held, daemon, clients, nextId, room, role, queue, down, routed>>

(* The early return when the ready line cannot be sent: it unparks and     *)
(* ignores what unpark answers.                                            *)
ReadyFailed(c) ==
    /\ phase[c] = "parked"
    /\ phase' = [phase EXCEPT ![c] = "dropped"]
    /\ Unpark(c)
    /\ writer' = [writer EXCEPT ![c] = "done"]
    /\ queue' = [queue EXCEPT ![c] = <<>>]
    /\ UNCHANGED <<nextId, room, role, down, routed>>

WriterDone(c) ==
    /\ writer' = [writer EXCEPT ![c] = "done"]
    /\ queue' = [queue EXCEPT ![c] = <<>>]

(* Mutant: the element is written but not taken from the queue. *)
WriteFrameTwice(c) ==
    /\ writer[c] = "running"
    /\ queue[c] # <<>>
    /\ Head(queue[c]).type = "frame"
    /\ down' = [down EXCEPT ![c] = Append(@, Head(queue[c]))]
    /\ UNCHANGED <<held, daemon, clients, nextId, room, role, phase, queue, writer, routed>>

WriteFrame(c) ==
    /\ writer[c] = "running"
    /\ queue[c] # <<>>
    /\ Head(queue[c]).type = "frame"
    /\ down' = [down EXCEPT ![c] = Append(@, Head(queue[c]))]
    /\ queue' = [queue EXCEPT ![c] = Tail(@)]
    /\ UNCHANGED <<held, daemon, clients, nextId, room, role, phase, writer, routed>>

WriteClose(c) ==
    /\ writer[c] = "running"
    /\ queue[c] # <<>>
    /\ Head(queue[c]).type = "close"
    /\ down' = [down EXCEPT ![c] = Append(@, Head(queue[c]))]
    /\ WriterDone(c)
    /\ UNCHANGED <<held, daemon, clients, nextId, room, role, phase, routed>>

(* Mutant: the read loop keeps a Sender, so the channel outlives the entry. *)
WriterDrainedLate(c) ==
    /\ writer[c] = "running"
    /\ queue[c] = <<>>
    /\ phase[c] = "left"
    /\ WriterDone(c)
    /\ UNCHANGED <<held, daemon, clients, nextId, room, role, phase, down, routed>>

(* recv answered None: the table dropped the Sender and the queue drained. *)
WriterDrained(c) ==
    /\ writer[c] = "running"
    /\ queue[c] = <<>>
    /\ ~InHub(c)
    /\ WriterDone(c)
    /\ UNCHANGED <<held, daemon, clients, nextId, room, role, phase, down, routed>>

(* A frame or a keepalive ping could not be written to the socket. *)
SinkFailed(c) ==
    /\ writer[c] = "running"
    /\ WriterDone(c)
    /\ UNCHANGED <<held, daemon, clients, nextId, room, role, phase, down, routed>>

(* writer.abort() at the end of run_socket. *)
AbortWriter(c) ==
    /\ phase[c] = "left"
    /\ writer[c] = "running"
    /\ WriterDone(c)
    /\ UNCHANGED <<held, daemon, clients, nextId, room, role, phase, down, routed>>

-----------------------------------------------------------------------------
(* Routing.                                                                *)

(* Mutant: a superseded daemon is still a target. *)
TargetsSuperseded(c) ==
    IF role[c] = "daemon" THEN clients[room[c]]
    ELSE {d \in Conn : role[d] = "daemon" /\ room[d] = room[c] /\ phase[d] = "open"}

(* Mutant: a daemon's frame goes to the clients of every room. *)
TargetsEveryRoom(c) == IF role[c] = "daemon" THEN UNION {clients[r] : r \in RoomIds}
                                             ELSE {daemon[room[c]]} \ {NoConn}

(* Room::targets *)
Targets(c) == IF role[c] = "daemon" THEN clients[room[c]]
                                    ELSE {daemon[room[c]]} \ {NoConn}

(* Room::find on the sender's own entry. *)
IsParked(c) == IF role[c] = "daemon" THEN daemon[room[c]] = c
                                     ELSE c \in clients[room[c]]

(* A full queue loses the frame; the close that follows fits only when the *)
(* writer took an element between the two try_sends (popped).              *)
Enqueue(c, popped) ==
    LET f == Frame(c, routed[c] + 1)
    IN  /\ queue' = [p \in Conn |->
               IF p \in Targets(c) /\ HasSpace(p) THEN Append(queue[p], f)
               ELSE IF p \in popped THEN Append(Tail(queue[p]), Close(NotKeepingUp))
               ELSE queue[p]]
        /\ down' = [p \in Conn |-> IF p \in popped THEN Append(down[p], Head(queue[p]))
                                                   ELSE down[p]]

Full(c) == {p \in Targets(c) : /\ writer[p] = "running"
                               /\ Len(queue[p]) >= QueueCap
                               /\ Head(queue[p]).type = "frame"}

Route(c) ==
    /\ phase[c] = "open"
    /\ routed[c] < MaxFrames
    /\ room[c] \in held
    /\ IsParked(c)
    /\ \E popped \in SUBSET Full(c) : Enqueue(c, popped)
    /\ routed' = [routed EXCEPT ![c] = @ + 1]
    /\ UNCHANGED <<held, daemon, clients, nextId, room, role, phase, writer>>

(* ParkError::Gone: the sender is not the connection the room holds. *)
RouteGone(c) ==
    /\ phase[c] = "open"
    /\ routed[c] < MaxFrames
    /\ ~(room[c] \in held /\ IsParked(c))
    /\ phase' = [phase EXCEPT ![c] = "closing"]
    /\ routed' = [routed EXCEPT ![c] = @ + 1]
    /\ UNCHANGED <<held, daemon, clients, nextId, room, role, queue, writer, down>>

-----------------------------------------------------------------------------
ConnStep(c) == \/ ReadySent(c) \/ ReadyFailed(c) \/ Depart(c)
               \/ WriteFrame(c) \/ WriteClose(c) \/ WriterDrained(c)
               \/ SinkFailed(c) \/ AbortWriter(c)
               \/ Route(c) \/ RouteGone(c)

Next == \/ \E r \in RoomIds : ParkDaemon(r) \/ ParkClient(r)
        \/ \E c \in Conn : ConnStep(c)

(* abort() is called without waiting for anything.  Nothing else is owed:   *)
(* every write is a sink.send().await or a sink.close().await without a    *)
(* timer, so a writer whose peer has stopped reading may wait in it for    *)
(* ever, and peers and the network owe nothing.                            *)
Spec == Init /\ [][Next]_vars /\ \A c \in Conn : WF_vars(AbortWriter(c))

-----------------------------------------------------------------------------
(* Properties.                                                             *)

Attached == {"parked", "open", "closing"}

(* The table is exactly the set of rooms somebody is in, within capacity:  *)
(* no order of parks, takeovers, releases and departures leaks a slot      *)
(* ("freeing the slot is what keeps the capacity limit meaningful").       *)
TableTight ==
    /\ held = {r \in RoomIds : daemon[r] # NoConn \/ clients[r] # {}}
    /\ Cardinality(held) <= MaxRooms

(* Every entry of the table is a connection whose run_socket has not       *)
(* unparked yet, filed under the room and the side it announced; and a     *)
(* client that has not left is always still filed: nobody evicts it.       *)
EntriesLive ==
    /\ \A r \in RoomIds :
          /\ daemon[r] # NoConn => /\ room[daemon[r]] = r
                                   /\ role[daemon[r]] = "daemon"
                                   /\ phase[daemon[r]] \in Attached
          /\ \A c \in clients[r] : room[c] = r /\ role[c] = "client"
                                   /\ phase[c] \in Attached
          /\ Cardinality(clients[r]) <= MaxClients
    /\ \A c \in Conn : role[c] = "client" /\ phase[c] \in Attached
                         => c \in clients[room[c]]

(* Rooms are isolated: whatever reaches a connection came from the other   *)
(* side of the room that connection announced.                             *)
Isolated ==
    \A c \in Conn : \A S \in {queue[c], down[c]} : \A i \in DOMAIN S :
        S[i].type = "frame" => /\ room[S[i].src] = room[c]
                               /\ role[S[i].src] # role[c]

(* A connection sees each sender's frames in the order they were sent,     *)
(* each at most once, whatever was lost to a full queue in between; and    *)
(* the relay's close is the last thing it sees.                            *)
InOrder ==
    \A c \in Conn :
        LET S == down[c] \o queue[c]
        IN  /\ \A i, j \in DOMAIN S :
                  i < j /\ S[i].type = "frame" /\ S[j].type = "frame" /\ S[i].src = S[j].src
                    => S[i].n < S[j].n
            /\ \A i \in DOMAIN down[c] : down[c][i].type = "close" => i = Len(down[c])

(* A daemon without clients that some earlier client has sent a frame to.  *)
UsedAlone(r) ==
    /\ daemon[r] # NoConn
    /\ clients[r] = {}
    /\ queue[daemon[r]] # <<>> \/ down[daemon[r]] # <<>>

(* "The next client gets a daemon whose session begins where every session *)
(* begins: at the salt" (ingress.rs).  What the code guarantees of it: the *)
(* only step that leaves a used daemon waiting alone is the departure of a *)
(* client that could not be told ready (the early return of run_socket     *)
(* that ignores unpark's answer).                                          *)
UsedAloneOnlyByDrop ==
    [][\A r \in RoomIds : ~UsedAlone(r) /\ UsedAlone(r)'
          => \E c \in Conn : /\ phase[c] = "parked" /\ phase'[c] = "dropped"
                             /\ room[c] = r]_vars

(* A connection leaves the table by its own departure, by a newer daemon   *)
(* taking its room, or by the release that follows its room's last client: *)
(* a superseded carrier's late departure never unregisters the new one.    *)
EvictedOnlyFor ==
    [][\A c \in Conn :
          InHub(c) /\ ~InHub(c)' =>
            \/ phase'[c] \in {"left", "dropped"}
            \/ role[c] = "daemon" /\ daemon'[room[c]] > c
            \/ role[c] = "daemon" /\ clients[room[c]] # {} /\ clients'[room[c]] = {}]_vars

(* Once out of the table a connection is never routed to again and never   *)
(* gets back in, although its socket may stay open for long.               *)
NeverRoutedAgain ==
    [][\A c \in Conn :
          phase[c] # "unborn" /\ ~InHub(c)
            => ~InHub(c)' /\ Len(queue'[c]) <= Len(queue[c])]_vars

(* The peer of c takes what its writer sends: no write to it hangs.        *)
PeerReads(c) == WF_vars(WriteFrame(c) \/ WriteClose(c) \/ WriterDrained(c))

(* A daemon that lost its room and goes on reading has its carrier closed: *)
(* its writer drains what was queued and ends, whatever the other peers    *)
(* do, which is how that daemon learns to redial.  A daemon that does not  *)
(* read keeps its writer in sink.send().await, with no timer to end it.    *)
ReleasedIsClosed ==
    \A c \in Conn :
        PeerReads(c) => ((phase[c] = "open" /\ ~InHub(c)) ~> (writer[c] = "done"))
=============================================================================
