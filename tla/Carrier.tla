------------------------------- MODULE Carrier -------------------------------
(***************************************************************************)
(* A daemon and its clients, end to end through the relay: the transport   *)
(* of dr-dsh-daemon/src/transport.rs (the client half is also what         *)
(* apps/pwa/src/tunnel.ts speaks), the sealed session of                   *)
(* dr-dsh-crypto/src/session.rs and the dial loop of uplink.rs, composed   *)
(* with the RelayHub that carries their frames.                            *)
(*                                                                         *)
(* A connection of the relay is one carrier of one endpoint.  Keys are     *)
(* symbolic: the provisional session every carrier starts with has key     *)
(* NoConn, the session a salt defines has the key of the client connection *)
(* that drew the salt.  A frame opens exactly when it was sealed under the *)
(* reader's key, in the other direction, with the counter the reader       *)
(* expects.  The device policy is RoomKeyOnly: no challenge follows the    *)
(* acknowledgement.                                                        *)
(***************************************************************************)
EXTENDS RelayHub

CONSTANTS
    MaxFaults,  \* bound of the model: sockets that break or are left
    MaxData     \* bound of the model: content frames sent by anyone

ASSUME CarrierAssumption == MaxFaults \in Nat /\ MaxData \in Nat /\ MaxData < MaxFrames

VARIABLES
    est,     \* "idle", "offered" (client, salt sent), "up", "ended"
    key,     \* the session a carrier's endpoint holds
    sealed,  \* Session: next counter to seal with
    opened,  \* Session: next counter expected
    wire,    \* the frames the endpoint has written to its socket
    pos,     \* how much of down the endpoint has read
    faults   \* faults so far

endVars     == <<est, key, sealed, opened, wire, pos>>
carrierVars == <<held, daemon, clients, nextId, room, role, phase, queue, writer,
                 down, routed, est, key, sealed, opened, wire, pos, faults>>

Sealed == [key : Conn \cup {NoConn}, ctr : Nat, body : {"salt", "ack", "data"}]

(* Every variable of the endpoints holds a value of its type, and what is  *)
(* sealed is numbered from zero on.                                        *)
CarrierTypeOK ==
    /\ TypeOK
    /\ est \in [Conn -> {"idle", "offered", "up", "ended"}]
    /\ key \in [Conn -> Conn \cup {NoConn}]
    /\ sealed \in [Conn -> Nat]
    /\ opened \in [Conn -> Nat]
    /\ wire \in [Conn -> Seq(Sealed)]
    /\ pos \in [Conn -> Nat]
    /\ faults \in 0 .. MaxFaults

CarrierInit ==
    /\ Init
    /\ est = [c \in Conn |-> "idle"]
    /\ key = [c \in Conn |-> NoConn]
    /\ sealed = [c \in Conn |-> 0]
    /\ opened = [c \in Conn |-> 0]
    /\ wire = [c \in Conn |-> <<>>]
    /\ pos = [c \in Conn |-> 0]
    /\ faults = 0

-----------------------------------------------------------------------------
(* Mutant: the counter is one behind. *)
SealBehind(k, n, body) == [key |-> k, ctr |-> n - 1, body |-> body]

(* Mutant: the counter is not compared. *)
OpensAnyCounter(c, f) == f.key = key[c]

(* Session::seal and Session::open. *)
Seal(k, n, body) == [key |-> k, ctr |-> n, body |-> body]
Opens(c, f)      == f.key = key[c] /\ f.ctr = opened[c]

(* The endpoint reads c's next item. *)
HasInput(c) == est[c] # "ended" /\ pos[c] < Len(down[c])
Item(c)     == down[c][pos[c] + 1]
Content(c)  == wire[Item(c).src][Item(c).n]

Ends(c) == est' = [est EXCEPT ![c] = "ended"]

(* The client, told ready, seals its salt under the provisional session    *)
(* and derives the session the salt defines, carrying over what it wrote.  *)
OfferSalt(c) ==
    /\ role[c] = "client"
    /\ phase[c] \in {"open", "closing", "left"}
    /\ est[c] = "idle"
    /\ wire' = [wire EXCEPT ![c] = Append(@, Seal(NoConn, sealed[c], "salt"))]
    /\ key' = [key EXCEPT ![c] = c]
    /\ sealed' = [sealed EXCEPT ![c] = @ + 1]
    /\ opened' = [opened EXCEPT ![c] = 0]
    /\ est' = [est EXCEPT ![c] = "offered"]
    /\ UNCHANGED <<vars, pos>>

(* The daemon opens the salt under the provisional session, derives the    *)
(* session, carries over what it opened and acknowledges.                  *)
AcceptSalt(d) ==
    /\ HasInput(d)
    /\ role[d] = "daemon"
    /\ est[d] = "idle"
    /\ Item(d).type = "frame"
    /\ Opens(d, Content(d))
    /\ Content(d).body = "salt"
    /\ key' = [key EXCEPT ![d] = Item(d).src]
    /\ opened' = [opened EXCEPT ![d] = @ + 1]
    /\ wire' = [wire EXCEPT ![d] = Append(@, Seal(Item(d).src, 0, "ack"))]
    /\ sealed' = [sealed EXCEPT ![d] = 1]
    /\ pos' = [pos EXCEPT ![d] = @ + 1]
    /\ est' = [est EXCEPT ![d] = "up"]
    /\ UNCHANGED vars

(* Mutant: whatever arrives first is taken for the acknowledgement. *)
AcceptAckUnopened(c) ==
    /\ HasInput(c)
    /\ est[c] = "offered"
    /\ Item(c).type = "frame"
    /\ opened' = [opened EXCEPT ![c] = @ + 1]
    /\ pos' = [pos EXCEPT ![c] = @ + 1]
    /\ est' = [est EXCEPT ![c] = "up"]
    /\ UNCHANGED <<vars, key, sealed, wire>>

AcceptAck(c) ==
    /\ HasInput(c)
    /\ est[c] = "offered"
    /\ Item(c).type = "frame"
    /\ Opens(c, Content(c))
    /\ Content(c).body = "ack"
    /\ opened' = [opened EXCEPT ![c] = @ + 1]
    /\ pos' = [pos EXCEPT ![c] = @ + 1]
    /\ est' = [est EXCEPT ![c] = "up"]
    /\ UNCHANGED <<vars, key, sealed, wire>>

AcceptData(c) ==
    /\ HasInput(c)
    /\ est[c] = "up"
    /\ Item(c).type = "frame"
    /\ Opens(c, Content(c))
    /\ opened' = [opened EXCEPT ![c] = @ + 1]
    /\ pos' = [pos EXCEPT ![c] = @ + 1]
    /\ UNCHANGED <<vars, est, key, sealed, wire>>

(* The relay's close, a frame that does not open, or one that opens but is *)
(* not what the handshake waits for: the endpoint drops the carrier.       *)
Usable(c) == /\ Item(c).type = "frame"
             /\ Opens(c, Content(c))
             /\ est[c] = "idle" => Content(c).body = "salt"
             /\ est[c] = "offered" => Content(c).body = "ack"

FailInput(c) ==
    /\ HasInput(c)
    /\ est[c] = "idle" => role[c] = "daemon"
    /\ ~Usable(c)
    /\ Ends(c)
    /\ UNCHANGED <<vars, key, sealed, opened, wire, pos>>

DataFrames == {f \in Conn \X (1 .. MaxFrames) :
                 f[2] <= Len(wire[f[1]]) /\ wire[f[1]][f[2]].body = "data"}

(* Mutant: sealing does not advance the counter. *)
SendDataSameCounter(c) ==
    /\ est[c] = "up"
    /\ Cardinality(DataFrames) < MaxData
    /\ wire' = [wire EXCEPT ![c] = Append(@, Seal(key[c], sealed[c], "data"))]
    /\ UNCHANGED <<vars, est, key, sealed, opened, pos>>

SendData(c) ==
    /\ est[c] = "up"
    /\ Cardinality(DataFrames) < MaxData
    /\ wire' = [wire EXCEPT ![c] = Append(@, Seal(key[c], sealed[c], "data"))]
    /\ sealed' = [sealed EXCEPT ![c] = @ + 1]
    /\ UNCHANGED <<vars, est, key, opened, pos>>

Fault == faults < MaxFaults /\ faults' = faults + 1

(* The endpoint gives the carrier up: a page that leaves, a failed ping.   *)
Leave(c) ==
    /\ phase[c] # "unborn"
    /\ est[c] # "ended"
    /\ Ends(c)
    /\ Fault
    /\ UNCHANGED <<vars, key, sealed, opened, wire, pos>>

(* The socket is closed under the endpoint, everything sent before read.   *)
SeeClosed(c) ==
    /\ phase[c] \in {"left", "dropped"} \/ writer[c] = "done"
    /\ est[c] # "ended"
    /\ pos[c] = Len(down[c])
    /\ Ends(c)
    /\ UNCHANGED <<vars, key, sealed, opened, wire, pos>>

Reads(c) == OfferSalt(c) \/ AcceptSalt(c) \/ AcceptAck(c) \/ AcceptData(c)
              \/ FailInput(c) \/ SeeClosed(c)

EndpointStep(c) == Leave(c) \/ ((Reads(c) \/ SendData(c)) /\ UNCHANGED faults)

-----------------------------------------------------------------------------
(* The relay's steps.  It reads only what an endpoint has written, and the *)
(* uplink dials again only once its carrier has ended.                     *)
Redial(r) == /\ \A c \in Conn : role[c] = "daemon" /\ room[c] = r => est[c] = "ended"
             /\ ParkDaemon(r)

Breaks(c) == ReadyFailed(c) \/ SinkFailed(c) \/ (est[c] # "ended" /\ Depart(c))

Serves(c) == \/ ReadySent(c) \/ WriteFrame(c) \/ WriteClose(c) \/ WriterDrained(c)
             \/ AbortWriter(c)
             \/ est[c] = "ended" /\ Depart(c)
             \/ routed[c] < Len(wire[c]) /\ (Route(c) \/ RouteGone(c))

RelayStep ==
    /\ UNCHANGED endVars
    /\ \/ \E c \in Conn : Breaks(c) /\ Fault
       \/ /\ \/ \E r \in RoomIds : Redial(r) \/ ParkClient(r)
             \/ \E c \in Conn : Serves(c)
          /\ UNCHANGED faults

CarrierNext == RelayStep \/ \E c \in Conn : EndpointStep(c)

(* An endpoint reads what its socket delivers and the uplink redials; the  *)
(* relay's tasks run and learn of a socket that was closed.                *)
CarrierSpec ==
    /\ CarrierInit /\ [][CarrierNext]_carrierVars
    /\ \A c \in Conn : /\ WF_carrierVars(Serves(c) /\ UNCHANGED <<endVars, faults>>)
                       /\ WF_carrierVars(Reads(c) /\ UNCHANGED faults)
    /\ \A r \in RoomIds : WF_carrierVars(Redial(r) /\ UNCHANGED <<endVars, faults>>)

-----------------------------------------------------------------------------
(* Properties.                                                             *)

(* The session a client carrier has confirmed, and what crossed it.  The   *)
(* salt and the acknowledgement are each side's first frame; everything    *)
(* after it is content.                                                    *)
PartnerOf(c) == IF role[c] = "daemon" THEN key[c]
                ELSE IF opened[c] = 0 THEN NoConn
                ELSE CHOOSE d \in Conn : role[d] = "daemon" /\ key[d] = c

Contents(n) == IF n = 0 THEN 0 ELSE n - 1

Chan == INSTANCE SecureChannel WITH
            End <- Conn, NoEnd <- NoConn,
            partner <- [c \in Conn |-> PartnerOf(c)],
            sent <- [c \in Conn |-> Contents(Len(wire[c]))],
            rcvd <- [c \in Conn |->
                       [i \in 1 .. Contents(pos[c]) |->
                          <<down[c][i + 1].src, down[c][i + 1].n - 1>>]]

(* Over a relay that loses frames, closes and supersedes carriers, and     *)
(* fans a daemon's frames out to every client of the room, what the two    *)
(* ends of a session accept is still a gap-free, in-order copy of what     *)
(* their one partner sent: the carriers implement SecureChannel.           *)
ImplementsChannel == Chan!ChanSpec

(* No session key ever seals two frames with one counter in one direction, *)
(* whatever the order of takeovers and second clients.  (The provisional   *)
(* key is every carrier's and seals each salt with counter zero.)          *)
CountersUnique ==
    \A c, d \in Conn : \A i \in DOMAIN wire[c], j \in DOMAIN wire[d] :
        (/\ <<c, i>> # <<d, j>>
         /\ role[c] = role[d]
         /\ wire[c][i].key = wire[d][j].key
         /\ wire[c][i].key # NoConn) => wire[c][i].ctr # wire[d][j].ctr

(* A client that was told the session exists is in a session with a daemon *)
(* carrier that accepted its own salt, and with no other.                  *)
BothHoldTheKey ==
    \A c \in Conn : role[c] = "client" /\ est[c] = "up"
        => Cardinality({d \in Conn : role[d] = "daemon" /\ key[d] = c}) = 1

(* "A daemon that reconnects while clients are still parked resumes        *)
(* serving them" (rooms.rs): a client with a session whose room is served  *)
(* by a newer, unused carrier gets a session with it, or is let go.        *)
Orphaned(c) ==
    /\ role[c] = "client" /\ est[c] = "up"
    /\ c \in clients[room[c]]
    /\ LET d == daemon[room[c]]
       IN  d # NoConn /\ d # PartnerOf(c) /\ est[d] = "idle" /\ phase[d] = "open"

ResumesServing ==
    \A c \in Conn : Orphaned(c) ~> \/ est[c] = "ended"
                                   \/ room[c] \in RoomIds /\ PartnerOf(c) = daemon[room[c]]
=============================================================================
