---------------------------- MODULE CarrierProofs ----------------------------
(***************************************************************************)
(* Proofs about Carrier, for every number of carriers, clients, frames and *)
(* faults: the sessions of a daemon and its clients over the relay, and    *)
(* that they implement SecureChannel.  What the relay guarantees comes     *)
(* from RelayHubProofs: its steps here are steps of that module.           *)
(***************************************************************************)
EXTENDS Carrier, RelayHubProofs

(* A client's frame is on its way to, or was delivered to, one daemon      *)
(* carrier only: the one its room had when the relay read it.              *)
SoleAddressee ==
    \A p, q \in Conn : \A i \in 1 .. Len(Stream(p)), j \in 1 .. Len(Stream(q)) :
        LET m == Stream(p)[i]  n == Stream(q)[j]
        IN  IsFrame(m) /\ IsFrame(n) /\ m.src = n.src /\ m.n = n.n /\ role[m.src] = "client"
              => p = q

(* The relay has read no more than was written. *)
OnlyWritten == \A c \in Conn : routed[c] <= Len(wire[c])

(* How far a carrier is, what it holds and what it has written agree.  The *)
(* receive counter is the number of frames read, the send counter the      *)
(* number of frames written, and a session key is there from the first     *)
(* frame written on.                                                       *)
EndpointsAgree == \A c \in Conn :
    /\ phase[c] = "unborn" => est[c] = "idle"
    /\ est[c] = "idle" => wire[c] = <<>>
    /\ est[c] = "offered" => role[c] = "client" /\ pos[c] = 0 /\ wire[c] # <<>>
    /\ est[c] = "up" => pos[c] # 0
    /\ wire[c] = <<>> <=> key[c] = NoConn
    /\ wire[c] = <<>> => pos[c] = 0
    /\ role[c] = "daemon" /\ wire[c] # <<>> => pos[c] # 0
    /\ role[c] = "client" /\ wire[c] # <<>> => key[c] = c
    /\ sealed[c] = Len(wire[c])
    /\ opened[c] = pos[c]
    /\ pos[c] <= Len(down[c])

(* The i-th frame of a carrier carries counter i - 1 and its session key;  *)
(* only a client's first frame, the salt, is sealed provisionally.         *)
IsSalt(c, i) == role[c] = "client" /\ i = 1

WireNumbered == \A c \in Conn : \A i \in 1 .. Len(wire[c]) :
    /\ wire[c][i].ctr = i - 1
    /\ wire[c][i].key = IF IsSalt(c, i) THEN NoConn ELSE key[c]
    /\ wire[c][i].body = "salt" => IsSalt(c, i)

(* c is bound to s: a daemon holds the key of the client, a client is the  *)
(* key the daemon holds.                                                   *)
Bound(c, s) == IF role[c] = "daemon" THEN s = key[c] ELSE key[s] = c

(* What a carrier has read is its partner's frames, from the first, in     *)
(* order and without a gap.                                                *)
ReadExactly == \A c \in Conn : \A i \in 1 .. pos[c] :
    /\ IsFrame(down[c][i])
    /\ down[c][i].n = i
    /\ Bound(c, down[c][i].src)

RelayInv   == HubInv /\ OrderInv
EndInv     == OnlyWritten /\ EndpointsAgree /\ WireNumbered /\ ReadExactly
CarrierInv == RelayInv /\ CarrierTypeOK /\ SoleAddressee /\ EndInv

-----------------------------------------------------------------------------
(* The two halves of a step.                                               *)

LEMMA RelayHalf ==
  ASSUME RelayStep
  PROVE  /\ UNCHANGED endVars /\ Next
         /\ UNCHANGED routed \/ \E c \in Conn : /\ routed[c] < Len(wire[c])
                                                /\ Route(c) \/ RouteGone(c)
<1>1. ASSUME NEW c \in Conn, Breaks(c) PROVE ConnStep(c) /\ UNCHANGED routed
  BY <1>1 DEF Breaks, ConnStep, ReadyFailed, SinkFailed, Depart
<1>2. ASSUME NEW r \in RoomIds, Redial(r) \/ ParkClient(r)
      PROVE  (ParkDaemon(r) \/ ParkClient(r)) /\ UNCHANGED routed
  BY <1>2 DEF Redial, ParkDaemon, ParkClient, Admit
<1>3. ASSUME NEW c \in Conn, Serves(c)
      PROVE  ConnStep(c) /\ (UNCHANGED routed \/ (routed[c] < Len(wire[c]) /\ (Route(c) \/ RouteGone(c))))
  BY <1>3 DEF Serves, ConnStep, ReadySent, WriteFrame, WriteClose, WriterDrained, AbortWriter, Depart
<1>q. QED BY <1>1, <1>2, <1>3 DEF RelayStep, Next

LEMMA EndpointHalf == ASSUME NEW c \in Conn, EndpointStep(c) PROVE UNCHANGED vars
BY DEF EndpointStep, Reads, OfferSalt, AcceptSalt, AcceptAck, AcceptData, FailInput, SeeClosed,
       SendData, Leave

LEMMA EveryStep ==
  ASSUME [CarrierNext]_carrierVars
  PROVE  /\ [Next]_vars
         /\ \/ RelayStep
            \/ \E c \in Conn : EndpointStep(c)
            \/ UNCHANGED carrierVars
<1>1. CASE RelayStep
  BY <1>1, RelayHalf
<1>2. CASE \E c \in Conn : EndpointStep(c)
  BY <1>2, EndpointHalf
<1>3. CASE UNCHANGED carrierVars
  BY <1>3 DEF carrierVars, vars
<1>q. QED BY <1>1, <1>2, <1>3 DEF CarrierNext

-----------------------------------------------------------------------------
(* What an endpoint's step does to the endpoint of p.                      *)

LEMMA OfferEffect ==
  ASSUME CarrierTypeOK, NEW c \in Conn, OfferSalt(c), NEW p \in Conn
  PROVE  /\ role[c] = "client" /\ est[c] = "idle" /\ phase[c] # "unborn"
         /\ est'[p] = IF p = c THEN "offered" ELSE est[p]
         /\ wire'[p] = IF p = c THEN Append(wire[c], Seal(NoConn, sealed[c], "salt")) ELSE wire[p]
         /\ key'[p] = IF p = c THEN c ELSE key[p]
         /\ sealed'[p] = IF p = c THEN sealed[c] + 1 ELSE sealed[p]
         /\ opened'[p] = IF p = c THEN 0 ELSE opened[p]
         /\ pos'[p] = pos[p]
BY DEF CarrierTypeOK, OfferSalt

LEMMA AcceptSaltEffect ==
  ASSUME CarrierTypeOK, NEW c \in Conn, AcceptSalt(c), NEW p \in Conn
  PROVE  /\ role[c] = "daemon" /\ est[c] = "idle" /\ pos[c] < Len(down[c])
         /\ IsFrame(Item(c)) /\ Opens(c, Content(c)) /\ Content(c).body = "salt"
         /\ est'[p] = IF p = c THEN "up" ELSE est[p]
         /\ wire'[p] = IF p = c THEN Append(wire[c], Seal(Item(c).src, 0, "ack")) ELSE wire[p]
         /\ key'[p] = IF p = c THEN Item(c).src ELSE key[p]
         /\ sealed'[p] = IF p = c THEN 1 ELSE sealed[p]
         /\ opened'[p] = IF p = c THEN opened[c] + 1 ELSE opened[p]
         /\ pos'[p] = IF p = c THEN pos[c] + 1 ELSE pos[p]
BY DEF CarrierTypeOK, AcceptSalt, HasInput, IsFrame

LEMMA AcceptEffect ==
  ASSUME CarrierTypeOK, NEW c \in Conn, AcceptAck(c) \/ AcceptData(c), NEW p \in Conn
  PROVE  /\ est[c] = IF AcceptAck(c) THEN "offered" ELSE "up"
         /\ pos[c] < Len(down[c])
         /\ IsFrame(Item(c)) /\ Opens(c, Content(c))
         /\ est'[p] = IF p = c THEN "up" ELSE est[p]
         /\ wire' = wire /\ key' = key /\ sealed' = sealed
         /\ opened'[p] = IF p = c THEN opened[c] + 1 ELSE opened[p]
         /\ pos'[p] = IF p = c THEN pos[c] + 1 ELSE pos[p]
<1>1. CASE AcceptAck(c)
  BY <1>1 DEF CarrierTypeOK, AcceptAck, HasInput, IsFrame
<1>2. CASE AcceptData(c) /\ ~AcceptAck(c)
  BY <1>2 DEF CarrierTypeOK, AcceptData, HasInput, IsFrame
<1>q. QED BY <1>1, <1>2

LEMMA SendEffect ==
  ASSUME CarrierTypeOK, NEW c \in Conn, SendData(c), NEW p \in Conn
  PROVE  /\ est[c] = "up"
         /\ est' = est /\ key' = key /\ opened' = opened /\ pos' = pos
         /\ wire'[p] = IF p = c THEN Append(wire[c], Seal(key[c], sealed[c], "data")) ELSE wire[p]
         /\ sealed'[p] = IF p = c THEN sealed[c] + 1 ELSE sealed[p]
BY DEF CarrierTypeOK, SendData

LEMMA EndEffect ==
  ASSUME CarrierTypeOK, NEW c \in Conn, FailInput(c) \/ SeeClosed(c) \/ Leave(c), NEW p \in Conn
  PROVE  /\ est'[p] = IF p = c THEN "ended" ELSE est[p]
         /\ key' = key /\ sealed' = sealed /\ opened' = opened /\ wire' = wire /\ pos' = pos
BY DEF CarrierTypeOK, FailInput, SeeClosed, Leave, Ends

-----------------------------------------------------------------------------
(* Typing.                                                                 *)

LEMMA SealType == ASSUME NEW k \in Conn \cup {NoConn}, NEW n \in Nat, NEW b \in {"salt", "ack", "data"}
                  PROVE  Seal(k, n, b) \in Sealed
BY DEF Seal, Sealed

(* The next item of a carrier with input is a frame of a known sender, or  *)
(* a close.                                                                *)
LEMMA ItemType ==
  ASSUME CarrierTypeOK, NEW c \in Conn, pos[c] < Len(down[c]), IsFrame(Item(c))
  PROVE  Item(c).src \in Conn
<1>1. down[c] \in Seq(Outbound) /\ pos[c] + 1 \in 1 .. Len(down[c])
  BY DEF CarrierTypeOK, TypeOK
<1>2. Item(c) \in Outbound
  BY <1>1 DEF Item
<1>q. QED BY <1>2 DEF Outbound, IsFrame

LEMMA CarrierTypeStep == ASSUME CarrierTypeOK, [CarrierNext]_carrierVars PROVE CarrierTypeOK'
<1>0. TypeOK'
  BY TypeStep, EveryStep DEF CarrierTypeOK
<1>f. faults' \in 0 .. MaxFaults
  BY CarrierAssumption DEF CarrierTypeOK, CarrierNext, carrierVars, RelayStep, EndpointStep, Leave, Fault
<1>1. CASE RelayStep \/ UNCHANGED carrierVars
  <2>1. UNCHANGED endVars
    BY <1>1, RelayHalf DEF endVars, carrierVars
  <2>q. QED BY <1>0, <1>f, <2>1 DEF CarrierTypeOK, endVars
<1>t. /\ est \in [Conn -> {"idle", "offered", "up", "ended"}] /\ key \in [Conn -> Conn \cup {NoConn}]
      /\ sealed \in [Conn -> Nat] /\ opened \in [Conn -> Nat]
      /\ wire \in [Conn -> Seq(Sealed)] /\ pos \in [Conn -> Nat]
  BY DEF CarrierTypeOK
<1>i. \A c \in Conn : /\ [sealed EXCEPT ![c] = @ + 1] \in [Conn -> Nat]
                      /\ [opened EXCEPT ![c] = @ + 1] \in [Conn -> Nat]
                      /\ [pos EXCEPT ![c] = @ + 1] \in [Conn -> Nat]
  BY <1>t
<1>e. \A c \in Conn, x \in {"offered", "up"} :
        [est EXCEPT ![c] = x] \in [Conn -> {"idle", "offered", "up", "ended"}]
  BY <1>t
<1>2. ASSUME NEW c \in Conn, OfferSalt(c) PROVE CarrierTypeOK'
  <2>1. Seal(NoConn, sealed[c], "salt") \in Sealed
    BY SealType DEF CarrierTypeOK
  <2>2. Append(wire[c], Seal(NoConn, sealed[c], "salt")) \in Seq(Sealed)
    BY <1>t, <2>1
  <2>3. /\ wire' = [wire EXCEPT ![c] = Append(wire[c], Seal(NoConn, sealed[c], "salt"))]
        /\ key' = [key EXCEPT ![c] = c] /\ opened' = [opened EXCEPT ![c] = 0]
        /\ sealed' = [sealed EXCEPT ![c] = @ + 1] /\ est' = [est EXCEPT ![c] = "offered"] /\ pos' = pos
    BY <1>2 DEF OfferSalt
  <2>4. wire' \in [Conn -> Seq(Sealed)]
    BY <1>t, <2>2, <2>3
  <2>5. key' \in [Conn -> Conn \cup {NoConn}] /\ opened' \in [Conn -> Nat]
    BY <1>t, <2>3
  <2>q. QED BY <1>0, <1>f, <1>t, <1>i, <1>e, <2>3, <2>4, <2>5 DEF CarrierTypeOK
<1>3. ASSUME NEW c \in Conn, AcceptSalt(c) PROVE CarrierTypeOK'
  <2>1. Item(c).src \in Conn
    BY <1>3, AcceptSaltEffect, ItemType
  <2>2. Append(wire[c], Seal(Item(c).src, 0, "ack")) \in Seq(Sealed)
    BY <1>t, <2>1, SealType
  <2>3. /\ wire' = [wire EXCEPT ![c] = Append(wire[c], Seal(Item(c).src, 0, "ack"))]
        /\ key' = [key EXCEPT ![c] = Item(c).src] /\ opened' = [opened EXCEPT ![c] = @ + 1]
        /\ sealed' = [sealed EXCEPT ![c] = 1] /\ est' = [est EXCEPT ![c] = "up"]
        /\ pos' = [pos EXCEPT ![c] = @ + 1]
    BY <1>3 DEF AcceptSalt
  <2>4. wire' \in [Conn -> Seq(Sealed)]
    BY <1>t, <2>2, <2>3
  <2>5. key' \in [Conn -> Conn \cup {NoConn}] /\ sealed' \in [Conn -> Nat]
    BY <1>t, <2>1, <2>3
  <2>q. QED BY <1>0, <1>f, <1>i, <1>e, <2>3, <2>4, <2>5 DEF CarrierTypeOK
<1>4. ASSUME NEW c \in Conn, AcceptAck(c) PROVE CarrierTypeOK'
  <2>1. /\ opened' = [opened EXCEPT ![c] = @ + 1] /\ pos' = [pos EXCEPT ![c] = @ + 1]
        /\ est' = [est EXCEPT ![c] = "up"] /\ UNCHANGED <<key, sealed, wire>>
    BY <1>4 DEF AcceptAck
  <2>q. QED BY <1>0, <1>f, <1>t, <1>i, <1>e, <2>1 DEF CarrierTypeOK
<1>5. ASSUME NEW c \in Conn, AcceptData(c) PROVE CarrierTypeOK'
  <2>1. /\ opened' = [opened EXCEPT ![c] = @ + 1] /\ pos' = [pos EXCEPT ![c] = @ + 1]
        /\ UNCHANGED <<est, key, sealed, wire>>
    BY <1>5 DEF AcceptData
  <2>q. QED BY <1>0, <1>f, <1>t, <1>i, <2>1 DEF CarrierTypeOK
<1>6. ASSUME NEW c \in Conn, FailInput(c) \/ SeeClosed(c) \/ Leave(c) PROVE CarrierTypeOK'
  BY <1>0, <1>f, <1>6 DEF CarrierTypeOK, FailInput, SeeClosed, Leave, Ends
<1>7. ASSUME NEW c \in Conn, SendData(c) PROVE CarrierTypeOK'
  <2>0. Seal(key[c], sealed[c], "data") \in Sealed
    BY SealType DEF CarrierTypeOK
  <2>1. Append(wire[c], Seal(key[c], sealed[c], "data")) \in Seq(Sealed)
    BY <2>0 DEF CarrierTypeOK
  <2>q. QED BY <1>0, <1>f, <1>7, <2>1 DEF CarrierTypeOK, SendData
<1>q. QED
  BY <1>1, <1>2, <1>3, <1>4, <1>5, <1>6, <1>7 DEF CarrierNext, EndpointStep, Reads

-----------------------------------------------------------------------------
(* What the relay's half of a step leaves alone.                           *)

(* What was written to a socket stays written. *)
LEMMA DownGrows ==
  ASSUME TypeOK, IdsInOrder, Filed, [Next]_vars, NEW p \in Conn
  PROVE  /\ Len(down[p]) <= Len(down'[p])
         /\ \A i \in 1 .. Len(down[p]) : down'[p][i] = down[p][i]
<1>t. down[p] \in Seq(Outbound) /\ queue[p] \in Seq(Outbound)
  BY DEF TypeOK
<1>1. CASE down'[p] = down[p]
  BY <1>t, <1>1
<1>2. CASE queue[p] # <<>> /\ down'[p] = Append(down[p], Head(queue[p]))
  BY <1>t, <1>2
<1>q. QED BY <1>1, <1>2, StreamEffect
          DEF StreamStep, Idles, Forgets, Moves, Closes, IsTold, IsSent, IsSlow

(* Who a connection is never changes once it is parked. *)
LEMMA IdentityKept ==
  ASSUME TypeOK, IdsInOrder, [Next]_vars, NEW p \in Conn
  PROVE  /\ phase[p] # "unborn" => role'[p] = role[p] /\ phase'[p] # "unborn"
         /\ phase'[p] = "unborn" => phase[p] = "unborn"
BY IdentityEffect

LEMMA ConcatElements ==
  ASSUME NEW T, NEW d \in Seq(T), NEW q \in Seq(T), NEW i \in 1 .. Len(d \o q)
  PROVE  \/ i \in 1 .. Len(d) /\ (d \o q)[i] = d[i]
         \/ i - Len(d) \in 1 .. Len(q) /\ (d \o q)[i] = q[i - Len(d)]
<1>1. Len(d) \in Nat /\ Len(q) \in Nat /\ Len(d \o q) = Len(d) + Len(q)
  OBVIOUS
<1>2. (d \o q)[i] = IF i <= Len(d) THEN d[i] ELSE q[i - Len(d)]
  OBVIOUS
<1>3. CASE i <= Len(d)
  BY <1>1, <1>2, <1>3
<1>4. CASE ~(i <= Len(d))
  <2>1. i - Len(d) \in 1 .. Len(q)
    BY <1>1, <1>4
  <2>q. QED BY <1>2, <1>4, <2>1
<1>q. QED BY <1>3, <1>4

LEMMA ConcatPrefix ==
  ASSUME NEW T, NEW d \in Seq(T), NEW q \in Seq(T), NEW i \in 1 .. Len(d)
  PROVE  i \in 1 .. Len(d \o q) /\ (d \o q)[i] = d[i]
<1>1. Len(d) \in Nat /\ Len(q) \in Nat /\ Len(d \o q) = Len(d) + Len(q)
  OBVIOUS
<1>q. QED BY <1>1

(* Every frame of a stream comes from the other side of the room. *)
LEMMA StreamOwed ==
  ASSUME HubInv, NEW p \in Conn, NEW i \in 1 .. Len(Stream(p)), IsFrame(Stream(p)[i])
  PROVE  /\ Stream(p)[i].src \in Conn /\ phase[Stream(p)[i].src] # "unborn"
         /\ role[Stream(p)[i].src] # role[p] /\ phase[p] # "unborn"
         /\ Stream(p)[i].n \in Nat \ {0}
<1>t. down[p] \in Seq(Outbound) /\ queue[p] \in Seq(Outbound)
  BY DEF HubInv, TypeOK
<1>1. \/ i \in 1 .. Len(down[p]) /\ Stream(p)[i] = down[p][i]
      \/ \E j \in 1 .. Len(queue[p]) : Stream(p)[i] = queue[p][j]
  <2>1. i \in 1 .. Len(down[p] \o queue[p])
    BY DEF Stream
  <2>2. \/ i \in 1 .. Len(down[p]) /\ (down[p] \o queue[p])[i] = down[p][i]
        \/ /\ i - Len(down[p]) \in 1 .. Len(queue[p])
           /\ (down[p] \o queue[p])[i] = queue[p][i - Len(down[p])]
    BY <1>t, <2>1, ConcatElements
  <2>q. QED BY <2>2 DEF Stream
<1>2. Owed(p, Stream(p)[i]) /\ Stream(p)[i] \in Outbound
  BY <1>t, <1>1 DEF HubInv, FramesOwed
<1>3. phase[p] # "unborn"
  <2>1. down[p] # <<>> \/ queue[p] # <<>>
    BY <1>t, <1>1
  <2>q. QED BY <2>1 DEF HubInv, IdsInOrder
<1>q. QED BY <1>2, <1>3 DEF Owed, IsFrame, Outbound

(* A delivered element is an element of the stream. *)
LEMMA DownInStream ==
  ASSUME TypeOK, NEW p \in Conn, NEW i \in 1 .. Len(down[p])
  PROVE  i \in 1 .. Len(Stream(p)) /\ Stream(p)[i] = down[p][i]
<1>t. down[p] \in Seq(Outbound) /\ queue[p] \in Seq(Outbound)
  BY DEF TypeOK
<1>q. QED BY <1>t, ConcatPrefix DEF Stream

(* A client has one target, and its frame is new to every stream.          *)
LEMMA SoleStep ==
  ASSUME RelayInv, SoleAddressee, [Next]_vars
  PROVE  SoleAddressee'
<1> DEFINE S(p) == Stream(p)  T(p) == Stream(p)'
<1>0. TypeOK /\ IdsInOrder /\ Filed /\ HubInv
  BY DEF RelayInv, HubInv
<1> SUFFICES ASSUME NEW p \in Conn, NEW q \in Conn,
                    NEW i \in 1 .. Len(T(p)), NEW j \in 1 .. Len(T(q)),
                    IsFrame(T(p)[i]), IsFrame(T(q)[j]), T(p)[i].src = T(q)[j].src,
                    T(p)[i].n = T(q)[j].n, role'[T(p)[i].src] = "client"
             PROVE  p = q
  BY DEF SoleAddressee, IsFrame
<1> HIDE DEF S, T
<1>1. ASSUME NEW x \in Conn, NEW k \in 1 .. Len(T(x)), IsFrame(T(x)[k])
      PROVE  \/ k \in 1 .. Len(S(x)) /\ T(x)[k] = S(x)[k]
             \/ \E c \in Conn : Route(c) /\ x \in Targets(c) /\ T(x)[k] = Frame(c, routed[c] + 1)
  <2>1. ~IsFrame(Close(SessionOver)) /\ ~IsFrame(Close(NotKeepingUp))
    BY DEF Close, IsFrame
  <2>q. QED BY <1>0, <1>1, <2>1, StreamGrows DEF S, T
<1>2. ASSUME NEW x \in Conn, NEW k \in 1 .. Len(S(x)), IsFrame(S(x)[k])
      PROVE  /\ S(x)[k].src \in Conn /\ role'[S(x)[k].src] = role[S(x)[k].src]
             /\ S(x)[k].n \in Nat /\ S(x)[k].n <= routed[S(x)[k].src]
  <2>1. S(x)[k].src \in Conn /\ phase[S(x)[k].src] # "unborn" /\ S(x)[k].n \in Nat
    BY <1>0, <1>2, StreamOwed DEF S
  <2>2. S(x)[k].n <= routed[S(x)[k].src]
    BY <1>2 DEF S, RelayInv, OrderInv, NumbersBounded
  <2>q. QED BY <1>0, <2>1, <2>2, IdentityKept
<1>3. ASSUME NEW c \in Conn, Route(c)
      PROVE  /\ Frame(c, routed[c] + 1).src = c /\ Frame(c, routed[c] + 1).n = routed[c] + 1
             /\ routed[c] \in Nat /\ role'[c] = role[c] /\ room[c] \in RoomIds
  <2>1. phase[c] # "unborn" /\ room[c] \in RoomIds
    BY <1>0, <1>3 DEF Route, IdsInOrder
  <2>2. routed[c] \in Nat
    BY <1>0, RoutedEffect
  <2>q. QED BY <1>0, <2>1, <2>2, IdentityKept DEF Frame
<1>4. ASSUME NEW x \in Conn, NEW y \in Conn, NEW k \in 1 .. Len(T(x)), NEW l \in 1 .. Len(T(y)),
             k \in 1 .. Len(S(x)), T(x)[k] = S(x)[k],
             IsFrame(T(x)[k]), T(x)[k].src = T(y)[l].src, T(x)[k].n = T(y)[l].n,
             NEW c \in Conn, Route(c), T(y)[l] = Frame(c, routed[c] + 1)
      PROVE  FALSE
  <2>1. T(y)[l].src = c /\ T(y)[l].n = routed[c] + 1 /\ routed[c] \in Nat
    BY <1>3, <1>4
  <2>2. IsFrame(S(x)[k]) /\ S(x)[k].src = c /\ S(x)[k].n = routed[c] + 1
    BY <1>4, <2>1
  <2>3. S(x)[k].n <= routed[S(x)[k].src]
    BY <1>2, <1>4, <2>2
  <2>q. QED BY <2>1, <2>2, <2>3
<1>5. CASE (i \in 1 .. Len(S(p)) /\ T(p)[i] = S(p)[i]) /\ (j \in 1 .. Len(S(q)) /\ T(q)[j] = S(q)[j])
  <2>1. role[S(p)[i].src] = "client"
    BY <1>2, <1>5
  <2>q. QED BY <1>5, <2>1 DEF SoleAddressee, S
<1>6. CASE \E c \in Conn : Route(c) /\ p \in Targets(c) /\ T(p)[i] = Frame(c, routed[c] + 1)
  <2>1. PICK c \in Conn : Route(c) /\ p \in Targets(c) /\ T(p)[i] = Frame(c, routed[c] + 1)
    BY <1>6
  <2>2. role[c] = "client"
    BY <1>3, <2>1
  <2>3. ~(j \in 1 .. Len(S(q)) /\ T(q)[j] = S(q)[j])
    BY <1>4, <2>1
  <2>4. PICK d \in Conn : Route(d) /\ q \in Targets(d) /\ T(q)[j] = Frame(d, routed[d] + 1)
    BY <1>1, <2>3
  <2>5. d = c
    BY <1>3, <2>1, <2>4
  <2>q. QED BY <2>1, <2>2, <2>4, <2>5 DEF Targets
<1>7. CASE i \in 1 .. Len(S(p)) /\ T(p)[i] = S(p)[i]
  <2>1. ~\E c \in Conn : Route(c) /\ q \in Targets(c) /\ T(q)[j] = Frame(c, routed[c] + 1)
    BY <1>4, <1>7
  <2>q. QED BY <1>1, <1>5, <1>7, <2>1
<1>q. QED BY <1>1, <1>6, <1>7

-----------------------------------------------------------------------------
(* What a frame that reached a carrier carries.                            *)

LEMMA ItemIs ==
  ASSUME CarrierInv, NEW c \in Conn, pos[c] < Len(down[c]), IsFrame(Item(c))
  PROVE  /\ Item(c).src \in Conn /\ Item(c).n \in 1 .. Len(wire[Item(c).src])
         /\ role[Item(c).src] # role[c] /\ phase[c] # "unborn"
         /\ Content(c).ctr = Item(c).n - 1
         /\ Content(c).key = IF IsSalt(Item(c).src, Item(c).n) THEN NoConn ELSE key[Item(c).src]
         /\ Content(c).body = "salt" => IsSalt(Item(c).src, Item(c).n)
<1>0. HubInv /\ TypeOK /\ down[c] \in Seq(Outbound) /\ pos[c] + 1 \in 1 .. Len(down[c])
  BY DEF CarrierInv, RelayInv, CarrierTypeOK, TypeOK
<1>1. pos[c] + 1 \in 1 .. Len(Stream(c)) /\ Stream(c)[pos[c] + 1] = Item(c)
  BY <1>0, DownInStream DEF Item
<1>2. /\ Item(c).src \in Conn /\ role[Item(c).src] # role[c] /\ phase[c] # "unborn"
      /\ Item(c).n \in Nat \ {0}
  BY <1>0, <1>1, StreamOwed
<1>3. Item(c).n <= routed[Item(c).src]
  BY <1>1 DEF CarrierInv, RelayInv, OrderInv, NumbersBounded
<1>4. /\ routed[Item(c).src] <= Len(wire[Item(c).src]) /\ routed[Item(c).src] \in Nat
      /\ Len(wire[Item(c).src]) \in Nat
  BY <1>0, <1>2, RelayAssumption DEF CarrierInv, EndInv, OnlyWritten, CarrierTypeOK, TypeOK
<1>5. Item(c).n \in 1 .. Len(wire[Item(c).src])
  BY <1>2, <1>3, <1>4
<1>q. QED BY <1>2, <1>5 DEF CarrierInv, EndInv, WireNumbered, Content

LEMMA OneEndpoint ==
  ASSUME CarrierInv, NEW c \in Conn
  PROVE  /\ phase[c] = "unborn" => est[c] = "idle"
         /\ est[c] = "idle" => wire[c] = <<>>
         /\ est[c] = "offered" => role[c] = "client" /\ pos[c] = 0 /\ wire[c] # <<>>
         /\ est[c] = "up" => pos[c] # 0
         /\ wire[c] = <<>> <=> key[c] = NoConn
         /\ wire[c] = <<>> => pos[c] = 0
         /\ role[c] = "daemon" /\ wire[c] # <<>> => pos[c] # 0
         /\ role[c] = "client" /\ wire[c] # <<>> => key[c] = c
         /\ sealed[c] = Len(wire[c]) /\ opened[c] = pos[c] /\ pos[c] <= Len(down[c])
         /\ pos[c] \in Nat /\ Len(wire[c]) \in Nat /\ Len(down[c]) \in Nat
         /\ role[c] \in {"daemon", "client"} /\ wire[c] \in Seq(Sealed)
BY DEF CarrierInv, EndInv, EndpointsAgree, CarrierTypeOK, TypeOK

(* The salt is its sender's first frame. *)
LEMMA SaltIsFirst ==
  ASSUME CarrierInv, NEW c \in Conn, AcceptSalt(c)
  PROVE  /\ Item(c).n = 1 /\ pos[c] = 0 /\ wire[c] = <<>> /\ key[c] = NoConn
         /\ Item(c).src \in Conn /\ role[Item(c).src] = "client" /\ wire[Item(c).src] # <<>>
<1>0. CarrierTypeOK
  BY DEF CarrierInv
<1>1. /\ role[c] = "daemon" /\ est[c] = "idle" /\ pos[c] < Len(down[c])
      /\ IsFrame(Item(c)) /\ Content(c).body = "salt"
  BY <1>0, AcceptSaltEffect
<1>2. /\ IsSalt(Item(c).src, Item(c).n) /\ Item(c).src \in Conn
      /\ Item(c).n \in 1 .. Len(wire[Item(c).src])
  BY <1>1, ItemIs
<1>3. wire[Item(c).src] # <<>>
  BY <1>2
<1>q. QED BY <1>1, <1>2, <1>3, OneEndpoint DEF IsSalt

(* A frame that opens under a session is the partner's next one. *)
LEMMA OpensTheNext ==
  ASSUME CarrierInv, NEW c \in Conn, pos[c] < Len(down[c]), IsFrame(Item(c)),
         Opens(c, Content(c)), wire[c] # <<>>
  PROVE  Item(c).n = pos[c] + 1 /\ Bound(c, Item(c).src) /\ Item(c).src \in Conn
         /\ Item(c).n \in 1 .. Len(wire[Item(c).src])
<1> DEFINE s == Item(c).src  n == Item(c).n
<1>1. /\ s \in Conn /\ n \in 1 .. Len(wire[s]) /\ role[s] # role[c]
      /\ Content(c).ctr = n - 1 /\ Content(c).key = IF IsSalt(s, n) THEN NoConn ELSE key[s]
  BY ItemIs
<1>2. Content(c).key = key[c] /\ Content(c).ctr = pos[c] /\ key[c] # NoConn
  BY OneEndpoint DEF Opens
<1>3. n = pos[c] + 1
  BY <1>1, <1>2, OneEndpoint
<1>4. ~IsSalt(s, n) /\ key[s] = key[c]
  BY <1>1, <1>2
<1>5. wire[s] # <<>>
  BY <1>1
<1>6. CASE role[c] = "daemon"
  <2>1. key[s] = s
    BY <1>1, <1>5, <1>6, OneEndpoint
  <2>q. QED BY <1>1, <1>3, <1>4, <1>6, <2>1 DEF Bound
<1>7. CASE role[c] = "client"
  <2>1. key[c] = c
    BY <1>7, OneEndpoint
  <2>q. QED BY <1>1, <1>3, <1>4, <1>7, <2>1 DEF Bound
<1>q. QED BY <1>6, <1>7, OneEndpoint

-----------------------------------------------------------------------------
(* The endpoints' invariant, under a step of the relay.                    *)
LEMMA RelayKeepsEnds ==
  ASSUME CarrierInv, RelayStep \/ UNCHANGED carrierVars
  PROVE  EndInv'
<1>0. HubInv /\ TypeOK /\ IdsInOrder /\ Filed
  BY DEF CarrierInv, RelayInv, HubInv
<1>n. [Next]_vars /\ UNCHANGED endVars
  BY RelayHalf DEF carrierVars, vars, endVars
<1>u. UNCHANGED <<est, key, sealed, opened, wire, pos>>
  BY <1>n DEF endVars
<1>r. ASSUME NEW c \in Conn, wire[c] # <<>> PROVE role'[c] = role[c] /\ phase[c] # "unborn"
  <2>1. phase[c] # "unborn"
    BY <1>r, OneEndpoint
  <2>q. QED BY <1>0, <1>n, <2>1, IdentityKept
<1>d. ASSUME NEW c \in Conn
      PROVE  Len(down'[c]) \in Nat /\ Len(down[c]) <= Len(down'[c])
             /\ \A i \in 1 .. Len(down[c]) : down'[c][i] = down[c][i]
  <2>1. down'[c] \in Seq(Outbound)
    BY <1>0, <1>n, TypeStep DEF TypeOK
  <2>q. QED BY <1>0, <1>n, <2>1, DownGrows
<1>1. OnlyWritten'
  <2> SUFFICES ASSUME NEW c \in Conn PROVE routed'[c] <= Len(wire[c])
    BY <1>u DEF OnlyWritten
  <2>1. routed \in [Conn -> Nat] /\ routed[c] <= Len(wire[c]) /\ Len(wire[c]) \in Nat
    BY <1>0, RelayAssumption, OneEndpoint DEF TypeOK, CarrierInv, EndInv, OnlyWritten
  <2>2. CASE UNCHANGED routed
    BY <2>1, <2>2
  <2>3. ASSUME NEW d \in Conn, routed[d] < Len(wire[d]), Route(d) \/ RouteGone(d)
        PROVE  routed'[c] <= Len(wire[c])
    <3>1. routed' = [routed EXCEPT ![d] = @ + 1]
      BY <2>3 DEF Route, RouteGone
    <3>2. routed'[c] = IF c = d THEN routed[c] + 1 ELSE routed[c]
      BY <2>1, <3>1
    <3>q. QED BY <2>1, <2>3, <3>2
  <2>q. QED BY <2>2, <2>3, RelayHalf DEF carrierVars
<1>2. EndpointsAgree'
  <2> SUFFICES ASSUME NEW c \in Conn
               PROVE  /\ phase'[c] = "unborn" => est[c] = "idle"
                      /\ est[c] = "idle" => wire[c] = <<>>
                      /\ est[c] = "offered" => role'[c] = "client" /\ pos[c] = 0 /\ wire[c] # <<>>
                      /\ est[c] = "up" => pos[c] # 0
                      /\ wire[c] = <<>> <=> key[c] = NoConn
                      /\ wire[c] = <<>> => pos[c] = 0
                      /\ role'[c] = "daemon" /\ wire[c] # <<>> => pos[c] # 0
                      /\ role'[c] = "client" /\ wire[c] # <<>> => key[c] = c
                      /\ sealed[c] = Len(wire[c])
                      /\ opened[c] = pos[c]
                      /\ pos[c] <= Len(down'[c])
    BY <1>u DEF EndpointsAgree
  <2>1. phase'[c] = "unborn" => phase[c] = "unborn"
    BY <1>0, <1>n, IdentityKept
  <2>2. pos[c] <= Len(down'[c])
    BY <1>d, OneEndpoint
  <2>3. wire[c] # <<>> => role'[c] = role[c]
    BY <1>r
  <2>q. QED BY <2>1, <2>2, <2>3, OneEndpoint
<1>3. WireNumbered'
  <2> SUFFICES ASSUME NEW c \in Conn, NEW i \in 1 .. Len(wire[c])
               PROVE  /\ wire[c][i].ctr = i - 1
                      /\ wire[c][i].key = IF IsSalt(c, i)' THEN NoConn ELSE key[c]
                      /\ wire[c][i].body = "salt" => IsSalt(c, i)'
    BY <1>u DEF WireNumbered, IsSalt
  <2>1. wire[c] # <<>>
    BY OneEndpoint
  <2>2. IsSalt(c, i)' <=> IsSalt(c, i)
    BY <1>r, <2>1 DEF IsSalt
  <2>q. QED BY <2>2 DEF CarrierInv, EndInv, WireNumbered
<1>4. ReadExactly'
  <2> SUFFICES ASSUME NEW c \in Conn, NEW i \in 1 .. pos[c]
               PROVE  /\ IsFrame(down'[c][i]) /\ down'[c][i].n = i
                      /\ IF role'[c] = "daemon" THEN down'[c][i].src = key[c]
                                                ELSE key[down'[c][i].src] = c
    BY <1>u DEF ReadExactly, IsFrame, Bound
  <2>1. i \in 1 .. Len(down[c]) /\ wire[c] # <<>>
    BY OneEndpoint
  <2>2. down'[c][i] = down[c][i] /\ role'[c] = role[c]
    BY <1>d, <1>r, <2>1
  <2>q. QED BY <2>2 DEF CarrierInv, EndInv, ReadExactly, Bound
<1>q. QED BY <1>1, <1>2, <1>3, <1>4 DEF EndInv

(* ... and under a step of an endpoint.                                     *)

LEMMA AppendIs ==
  ASSUME NEW T, NEW w \in Seq(T), NEW x
  PROVE  /\ Len(Append(w, x)) = Len(w) + 1 /\ Append(w, x) # <<>> /\ Len(w) \in Nat
         /\ \A i \in 1 .. Len(w) : Append(w, x)[i] = w[i]
         /\ Append(w, x)[Len(w) + 1] = x
OBVIOUS

LEMMA OfferKeepsEnds ==
  ASSUME CarrierInv, NEW c \in Conn, OfferSalt(c)
  PROVE  EndInv'
<1>0. CarrierTypeOK
  BY DEF CarrierInv
<1>u. UNCHANGED <<phase, role, down, routed>>
  BY DEF OfferSalt, vars
<1>e. ASSUME NEW p \in Conn
      PROVE  /\ role[c] = "client" /\ est[c] = "idle" /\ phase[c] # "unborn"
             /\ est'[p] = IF p = c THEN "offered" ELSE est[p]
             /\ wire'[p] = IF p = c THEN Append(wire[c], Seal(NoConn, sealed[c], "salt")) ELSE wire[p]
             /\ key'[p] = IF p = c THEN c ELSE key[p]
             /\ sealed'[p] = IF p = c THEN sealed[c] + 1 ELSE sealed[p]
             /\ opened'[p] = IF p = c THEN 0 ELSE opened[p]
             /\ pos'[p] = pos[p]
  BY <1>0, OfferEffect
<1>w. wire[c] = <<>> /\ pos[c] = 0 /\ sealed[c] = 0 /\ key[c] = NoConn
  BY <1>e, OneEndpoint
<1>a. Len(wire'[c]) = 1 /\ wire'[c] # <<>> /\ wire'[c][1] = Seal(NoConn, 0, "salt")
  BY <1>e, <1>w, AppendIs
<1>1. OnlyWritten'
  <2> SUFFICES ASSUME NEW p \in Conn PROVE routed[p] <= Len(wire'[p])
    BY <1>u DEF OnlyWritten
  <2>1. routed[p] <= Len(wire[p]) /\ routed[p] \in Nat
    BY <1>0, RelayAssumption DEF CarrierInv, EndInv, OnlyWritten, CarrierTypeOK, TypeOK
  <2>q. QED BY <1>e, <1>w, <1>a, <2>1
<1>2. EndpointsAgree'
  <2> SUFFICES ASSUME NEW p \in Conn
               PROVE  /\ phase[p] = "unborn" => est'[p] = "idle"
                      /\ est'[p] = "idle" => wire'[p] = <<>>
                      /\ est'[p] = "offered" => role[p] = "client" /\ pos'[p] = 0 /\ wire'[p] # <<>>
                      /\ est'[p] = "up" => pos'[p] # 0
                      /\ wire'[p] = <<>> <=> key'[p] = NoConn
                      /\ wire'[p] = <<>> => pos'[p] = 0
                      /\ role[p] = "daemon" /\ wire'[p] # <<>> => pos'[p] # 0
                      /\ role[p] = "client" /\ wire'[p] # <<>> => key'[p] = p
                      /\ sealed'[p] = Len(wire'[p])
                      /\ opened'[p] = pos'[p]
                      /\ pos'[p] <= Len(down[p])
    BY <1>u DEF EndpointsAgree
  <2>1. CASE p = c
    <3>1. /\ role[c] = "client" /\ phase[c] # "unborn" /\ est'[c] = "offered"
          /\ key'[c] = c /\ sealed'[c] = 1 /\ opened'[c] = 0 /\ pos'[c] = 0
      BY <1>e, <1>w
    <3>2. c # NoConn /\ 0 <= Len(down[c])
      BY OneEndpoint DEF Conn, NoConn
    <3>q. QED BY <1>a, <2>1, <3>1, <3>2
  <2>2. CASE p # c
    BY <1>e, <2>2, OneEndpoint
  <2>q. QED BY <2>1, <2>2
<1>3. WireNumbered'
  <2> SUFFICES ASSUME NEW p \in Conn, NEW i \in 1 .. Len(wire'[p])
               PROVE  /\ wire'[p][i].ctr = i - 1
                      /\ wire'[p][i].key = IF IsSalt(p, i) THEN NoConn ELSE key'[p]
                      /\ wire'[p][i].body = "salt" => IsSalt(p, i)
    BY <1>u DEF WireNumbered, IsSalt
  <2>1. CASE p = c
    <3>0. i \in 1 .. 1
      BY <1>a, <2>1
    <3>1. i = 1 /\ IsSalt(p, i)
      BY <1>e, <2>1, <3>0 DEF IsSalt
    <3>q. QED BY <1>a, <2>1, <3>1 DEF Seal
  <2>2. CASE p # c
    BY <1>e, <2>2 DEF CarrierInv, EndInv, WireNumbered
  <2>q. QED BY <2>1, <2>2
<1>4. ReadExactly'
  <2> SUFFICES ASSUME NEW p \in Conn, NEW i \in 1 .. pos[p]
               PROVE  /\ IsFrame(down[p][i]) /\ down[p][i].n = i
                      /\ IF role[p] = "daemon" THEN down[p][i].src = key'[p]
                                               ELSE key'[down[p][i].src] = p
    BY <1>u, <1>e DEF ReadExactly, IsFrame, Bound
  <2>1. IsFrame(down[p][i]) /\ down[p][i].n = i /\ Bound(p, down[p][i].src)
    BY DEF CarrierInv, EndInv, ReadExactly
  <2>2. p # c
    BY <1>w
  <2>3. down[p][i].src \in Conn
    <3>1. i \in 1 .. Len(down[p]) /\ TypeOK
      BY <1>0, OneEndpoint DEF CarrierTypeOK
    <3>q. QED BY <2>1, <3>1, DownInStream, StreamOwed DEF CarrierInv, RelayInv
  <2>4. key[c] = NoConn /\ p # NoConn
    BY <1>w DEF Conn, NoConn
  <2>q. QED BY <1>e, <2>1, <2>2, <2>3, <2>4 DEF Bound
<1>q. QED BY <1>1, <1>2, <1>3, <1>4 DEF EndInv

LEMMA AcceptSaltKeepsEnds ==
  ASSUME CarrierInv, NEW c \in Conn, AcceptSalt(c)
  PROVE  EndInv'
<1>0. CarrierTypeOK
  BY DEF CarrierInv
<1>u. UNCHANGED <<phase, role, down, routed>>
  BY DEF AcceptSalt, vars
<1>e. ASSUME NEW p \in Conn
      PROVE  /\ role[c] = "daemon" /\ est[c] = "idle" /\ pos[c] < Len(down[c]) /\ IsFrame(Item(c))
             /\ est'[p] = IF p = c THEN "up" ELSE est[p]
             /\ wire'[p] = IF p = c THEN Append(wire[c], Seal(Item(c).src, 0, "ack")) ELSE wire[p]
             /\ key'[p] = IF p = c THEN Item(c).src ELSE key[p]
             /\ sealed'[p] = IF p = c THEN 1 ELSE sealed[p]
             /\ opened'[p] = IF p = c THEN opened[c] + 1 ELSE opened[p]
             /\ pos'[p] = IF p = c THEN pos[c] + 1 ELSE pos[p]
  BY <1>0, AcceptSaltEffect
<1>w. /\ wire[c] = <<>> /\ pos[c] = 0 /\ key[c] = NoConn /\ phase[c] # "unborn"
      /\ Item(c).n = 1 /\ Item(c).src \in Conn
  BY <1>e, SaltIsFirst, ItemIs
<1>a. Len(wire'[c]) = 1 /\ wire'[c] # <<>> /\ wire'[c][1] = Seal(Item(c).src, 0, "ack")
  BY <1>e, <1>w, AppendIs
<1>1. OnlyWritten'
  <2> SUFFICES ASSUME NEW p \in Conn PROVE routed[p] <= Len(wire'[p])
    BY <1>u DEF OnlyWritten
  <2>1. routed[p] <= Len(wire[p]) /\ routed[p] \in Nat
    BY <1>0, RelayAssumption DEF CarrierInv, EndInv, OnlyWritten, CarrierTypeOK, TypeOK
  <2>q. QED BY <1>e, <1>w, <1>a, <2>1
<1>2. EndpointsAgree'
  <2> SUFFICES ASSUME NEW p \in Conn
               PROVE  /\ phase[p] = "unborn" => est'[p] = "idle"
                      /\ est'[p] = "idle" => wire'[p] = <<>>
                      /\ est'[p] = "offered" => role[p] = "client" /\ pos'[p] = 0 /\ wire'[p] # <<>>
                      /\ est'[p] = "up" => pos'[p] # 0
                      /\ wire'[p] = <<>> <=> key'[p] = NoConn
                      /\ wire'[p] = <<>> => pos'[p] = 0
                      /\ role[p] = "daemon" /\ wire'[p] # <<>> => pos'[p] # 0
                      /\ role[p] = "client" /\ wire'[p] # <<>> => key'[p] = p
                      /\ sealed'[p] = Len(wire'[p])
                      /\ opened'[p] = pos'[p]
                      /\ pos'[p] <= Len(down[p])
    BY <1>u DEF EndpointsAgree
  <2>1. CASE p = c
    <3>1. /\ role[c] = "daemon" /\ est'[c] = "up" /\ key'[c] = Item(c).src /\ sealed'[c] = 1
          /\ opened[c] = 0 /\ opened'[c] = 1 /\ pos'[c] = 1
      BY <1>e, <1>w, OneEndpoint
    <3>2. Item(c).src # NoConn /\ 1 <= Len(down[c])
      BY <1>e, <1>w, OneEndpoint DEF Conn, NoConn
    <3>q. QED BY <1>w, <1>a, <2>1, <3>1, <3>2
  <2>2. CASE p # c
    BY <1>e, <2>2, OneEndpoint
  <2>q. QED BY <2>1, <2>2
<1>3. WireNumbered'
  <2> SUFFICES ASSUME NEW p \in Conn, NEW i \in 1 .. Len(wire'[p])
               PROVE  /\ wire'[p][i].ctr = i - 1
                      /\ wire'[p][i].key = IF IsSalt(p, i) THEN NoConn ELSE key'[p]
                      /\ wire'[p][i].body = "salt" => IsSalt(p, i)
    BY <1>u DEF WireNumbered, IsSalt
  <2>1. CASE p = c
    <3>0. i \in 1 .. 1
      BY <1>a, <2>1
    <3>1. i = 1 /\ ~IsSalt(p, i)
      BY <1>e, <2>1, <3>0 DEF IsSalt
    <3>q. QED BY <1>e, <1>a, <2>1, <3>1 DEF Seal
  <2>2. CASE p # c
    BY <1>e, <2>2 DEF CarrierInv, EndInv, WireNumbered
  <2>q. QED BY <2>1, <2>2
<1>4. ReadExactly'
  <2> SUFFICES ASSUME NEW p \in Conn, NEW i \in 1 .. pos'[p]
               PROVE  /\ IsFrame(down[p][i]) /\ down[p][i].n = i
                      /\ IF role[p] = "daemon" THEN down[p][i].src = key'[p]
                                               ELSE key'[down[p][i].src] = p
    BY <1>u, <1>e DEF ReadExactly, IsFrame, Bound
  <2>1. CASE p = c
    <3>1. i = 1 /\ down[p][i] = Item(c)
      BY <1>e, <1>w, <2>1 DEF Item
    <3>q. QED BY <1>e, <1>w, <2>1, <3>1
  <2>2. CASE p # c
    <3>0. i \in 1 .. pos[p]
      BY <1>e, <2>2
    <3>1. IsFrame(down[p][i]) /\ down[p][i].n = i /\ Bound(p, down[p][i].src)
      BY <3>0 DEF CarrierInv, EndInv, ReadExactly
    <3>2. down[p][i].src \in Conn
      <4>1. i \in 1 .. Len(down[p]) /\ TypeOK
        BY <1>0, <3>0, OneEndpoint DEF CarrierTypeOK
      <4>q. QED BY <3>1, <4>1, DownInStream, StreamOwed DEF CarrierInv, RelayInv
    <3>3. key[c] = NoConn /\ p # NoConn
      BY <1>w DEF Conn, NoConn
    <3>q. QED BY <1>e, <2>2, <3>1, <3>2, <3>3 DEF Bound
  <2>q. QED BY <2>1, <2>2
<1>q. QED BY <1>1, <1>2, <1>3, <1>4 DEF EndInv

LEMMA AcceptKeepsEnds ==
  ASSUME CarrierInv, NEW c \in Conn, AcceptAck(c) \/ AcceptData(c)
  PROVE  EndInv'
<1>0. CarrierTypeOK
  BY DEF CarrierInv
<1>u. UNCHANGED <<phase, role, down, routed>>
  BY DEF AcceptAck, AcceptData, vars
<1>e. ASSUME NEW p \in Conn
      PROVE  /\ est[c] \in {"offered", "up"} /\ pos[c] < Len(down[c])
             /\ IsFrame(Item(c)) /\ Opens(c, Content(c))
             /\ est'[p] = IF p = c THEN "up" ELSE est[p]
             /\ wire' = wire /\ key' = key /\ sealed' = sealed
             /\ opened'[p] = IF p = c THEN opened[c] + 1 ELSE opened[p]
             /\ pos'[p] = IF p = c THEN pos[c] + 1 ELSE pos[p]
  BY <1>0, AcceptEffect
<1>w. wire[c] # <<>> /\ phase[c] # "unborn"
  BY <1>e, OneEndpoint
<1>i. Item(c).n = pos[c] + 1 /\ Bound(c, Item(c).src)
  BY <1>e, <1>w, OpensTheNext
<1>1. OnlyWritten' /\ WireNumbered'
  <2>1. wire' = wire /\ key' = key
    BY <1>e
  <2>q. QED BY <1>u, <2>1 DEF CarrierInv, EndInv, OnlyWritten, WireNumbered, IsSalt
<1>2. EndpointsAgree'
  <2> SUFFICES ASSUME NEW p \in Conn
               PROVE  /\ phase[p] = "unborn" => est'[p] = "idle"
                      /\ est'[p] = "idle" => wire'[p] = <<>>
                      /\ est'[p] = "offered" => role[p] = "client" /\ pos'[p] = 0 /\ wire'[p] # <<>>
                      /\ est'[p] = "up" => pos'[p] # 0
                      /\ wire'[p] = <<>> <=> key'[p] = NoConn
                      /\ wire'[p] = <<>> => pos'[p] = 0
                      /\ role[p] = "daemon" /\ wire'[p] # <<>> => pos'[p] # 0
                      /\ role[p] = "client" /\ wire'[p] # <<>> => key'[p] = p
                      /\ sealed'[p] = Len(wire'[p])
                      /\ opened'[p] = pos'[p]
                      /\ pos'[p] <= Len(down[p])
    BY <1>u DEF EndpointsAgree
  <2>1. CASE p = c
    <3>1. est'[c] = "up" /\ opened'[c] = pos'[c] /\ pos'[c] = pos[c] + 1 /\ pos'[c] # 0
          /\ pos'[c] <= Len(down[c])
      BY <1>e, OneEndpoint
    <3>q. QED BY <1>e, <1>w, <2>1, <3>1, OneEndpoint
  <2>2. CASE p # c
    BY <1>e, <2>2, OneEndpoint
  <2>q. QED BY <2>1, <2>2
<1>3. ReadExactly'
  <2> SUFFICES ASSUME NEW p \in Conn, NEW i \in 1 .. pos'[p]
               PROVE  IsFrame(down[p][i]) /\ down[p][i].n = i /\ Bound(p, down[p][i].src)
    BY <1>u, <1>e DEF ReadExactly, IsFrame, Bound
  <2>1. CASE i \in 1 .. pos[p]
    BY <2>1 DEF CarrierInv, EndInv, ReadExactly
  <2>2. CASE i \notin 1 .. pos[p]
    <3>1. p = c /\ i = pos[c] + 1
      BY <1>e, <2>2, OneEndpoint
    <3>q. QED BY <1>e, <1>i, <3>1 DEF Item
  <2>q. QED BY <2>1, <2>2
<1>q. QED BY <1>1, <1>2, <1>3 DEF EndInv

LEMMA SendKeepsEnds ==
  ASSUME CarrierInv, NEW c \in Conn, SendData(c)
  PROVE  EndInv'
<1>0. CarrierTypeOK
  BY DEF CarrierInv
<1>u. UNCHANGED <<phase, role, down, routed>>
  BY DEF SendData, vars
<1>e. ASSUME NEW p \in Conn
      PROVE  /\ est[c] = "up"
             /\ est' = est /\ key' = key /\ opened' = opened /\ pos' = pos
             /\ wire'[p] = IF p = c THEN Append(wire[c], Seal(key[c], sealed[c], "data")) ELSE wire[p]
             /\ sealed'[p] = IF p = c THEN sealed[c] + 1 ELSE sealed[p]
  BY <1>0, SendEffect
<1>w. wire[c] # <<>> /\ Len(wire[c]) # 0
  BY <1>e, OneEndpoint
<1>a. /\ Len(wire'[c]) = Len(wire[c]) + 1 /\ wire'[c] # <<>> /\ Len(wire[c]) \in Nat
      /\ \A i \in 1 .. Len(wire[c]) : wire'[c][i] = wire[c][i]
      /\ wire'[c][Len(wire[c]) + 1] = Seal(key[c], Len(wire[c]), "data")
  <2>1. wire'[c] = Append(wire[c], Seal(key[c], Len(wire[c]), "data")) /\ wire[c] \in Seq(Sealed)
    BY <1>e, OneEndpoint
  <2>q. QED BY <2>1, AppendIs
<1>1. OnlyWritten'
  <2> SUFFICES ASSUME NEW p \in Conn PROVE routed[p] <= Len(wire'[p])
    BY <1>u DEF OnlyWritten
  <2>1. routed[p] <= Len(wire[p]) /\ routed[p] \in Nat
    BY <1>0, RelayAssumption DEF CarrierInv, EndInv, OnlyWritten, CarrierTypeOK, TypeOK
  <2>q. QED BY <1>e, <1>a, <2>1
<1>2. EndpointsAgree'
  <2> SUFFICES ASSUME NEW p \in Conn
               PROVE  /\ phase[p] = "unborn" => est'[p] = "idle"
                      /\ est'[p] = "idle" => wire'[p] = <<>>
                      /\ est'[p] = "offered" => role[p] = "client" /\ pos'[p] = 0 /\ wire'[p] # <<>>
                      /\ est'[p] = "up" => pos'[p] # 0
                      /\ wire'[p] = <<>> <=> key'[p] = NoConn
                      /\ wire'[p] = <<>> => pos'[p] = 0
                      /\ role[p] = "daemon" /\ wire'[p] # <<>> => pos'[p] # 0
                      /\ role[p] = "client" /\ wire'[p] # <<>> => key'[p] = p
                      /\ sealed'[p] = Len(wire'[p])
                      /\ opened'[p] = pos'[p]
                      /\ pos'[p] <= Len(down[p])
    BY <1>u DEF EndpointsAgree
  <2>1. CASE p = c
    <3>1. sealed'[c] = Len(wire'[c])
      BY <1>e, <1>a, OneEndpoint
    <3>q. QED BY <1>e, <1>w, <1>a, <2>1, <3>1, OneEndpoint
  <2>2. CASE p # c
    BY <1>e, <2>2, OneEndpoint
  <2>q. QED BY <2>1, <2>2
<1>3. WireNumbered'
  <2> SUFFICES ASSUME NEW p \in Conn, NEW i \in 1 .. Len(wire'[p])
               PROVE  /\ wire'[p][i].ctr = i - 1
                      /\ wire'[p][i].key = IF IsSalt(p, i) THEN NoConn ELSE key[p]
                      /\ wire'[p][i].body = "salt" => IsSalt(p, i)
    BY <1>u, <1>e DEF WireNumbered, IsSalt
  <2>1. CASE i \in 1 .. Len(wire[p])
    <3>1. wire'[p][i] = wire[p][i]
      BY <1>e, <1>a, <2>1
    <3>q. QED BY <2>1, <3>1 DEF CarrierInv, EndInv, WireNumbered
  <2>2. CASE i \notin 1 .. Len(wire[p])
    <3>1. p = c
      BY <1>e, <2>2
    <3>2. i \in 1 .. Len(wire[c]) + 1 /\ i \notin 1 .. Len(wire[c])
      BY <1>a, <2>2, <3>1
    <3>3. i = Len(wire[c]) + 1
      BY <1>a, <3>2
    <3>4. ~IsSalt(p, i)
      BY <1>w, <1>a, <3>3 DEF IsSalt
    <3>5. i - 1 = Len(wire[c])
      BY <1>a, <3>3
    <3>q. QED BY <1>a, <3>1, <3>3, <3>4, <3>5 DEF Seal
  <2>q. QED BY <2>1, <2>2
<1>4. ReadExactly'
  BY <1>u, <1>e DEF CarrierInv, EndInv, ReadExactly, Bound, IsFrame
<1>q. QED BY <1>1, <1>2, <1>3, <1>4 DEF EndInv

LEMMA EndKeepsEnds ==
  ASSUME CarrierInv, NEW c \in Conn, FailInput(c) \/ SeeClosed(c) \/ Leave(c)
  PROVE  EndInv'
<1>0. CarrierTypeOK
  BY DEF CarrierInv
<1>u. UNCHANGED <<phase, role, down, routed, key, sealed, opened, wire, pos>>
  BY DEF FailInput, SeeClosed, Leave, vars
<1>e. ASSUME NEW p \in Conn PROVE est'[p] = IF p = c THEN "ended" ELSE est[p]
  BY <1>0, EndEffect
<1>b. phase[c] # "unborn"
  <2>1. CASE FailInput(c)
    <3>1. down[c] # <<>> /\ HubInv
      BY <2>1, OneEndpoint DEF FailInput, HasInput, CarrierInv, RelayInv
    <3>q. QED BY <3>1 DEF HubInv, IdsInOrder
  <2>2. CASE SeeClosed(c)
    BY <2>2 DEF SeeClosed, CarrierInv, RelayInv, OrderInv, WritersEnd
  <2>3. CASE Leave(c)
    BY <2>3 DEF Leave
  <2>q. QED BY <2>1, <2>2, <2>3
<1>1. OnlyWritten' /\ WireNumbered' /\ ReadExactly'
  BY <1>u DEF CarrierInv, EndInv, OnlyWritten, WireNumbered, ReadExactly, IsSalt, Bound, IsFrame
<1>2. EndpointsAgree'
  <2> SUFFICES ASSUME NEW p \in Conn
               PROVE  /\ phase[p] = "unborn" => est'[p] = "idle"
                      /\ est'[p] = "idle" => wire'[p] = <<>>
                      /\ est'[p] = "offered" => role[p] = "client" /\ pos'[p] = 0 /\ wire'[p] # <<>>
                      /\ est'[p] = "up" => pos'[p] # 0
                      /\ wire'[p] = <<>> <=> key'[p] = NoConn
                      /\ wire'[p] = <<>> => pos'[p] = 0
                      /\ role[p] = "daemon" /\ wire'[p] # <<>> => pos'[p] # 0
                      /\ role[p] = "client" /\ wire'[p] # <<>> => key'[p] = p
                      /\ sealed'[p] = Len(wire'[p])
                      /\ opened'[p] = pos'[p]
                      /\ pos'[p] <= Len(down[p])
    BY <1>u DEF EndpointsAgree
  <2>q. QED BY <1>u, <1>e, <1>b, OneEndpoint
<1>q. QED BY <1>1, <1>2 DEF EndInv

-----------------------------------------------------------------------------
(* The theorems.                                                           *)

LEMMA CarrierInitInv == CarrierInit => CarrierInv
<1> SUFFICES ASSUME CarrierInit PROVE CarrierInv
  OBVIOUS
<1>0. Init
  BY DEF CarrierInit
<1>1. RelayInv
  BY <1>0, InitHub, OrderInit DEF RelayInv
<1>2. CarrierTypeOK
  BY <1>1, CarrierAssumption DEF CarrierInit, CarrierTypeOK, RelayInv, HubInv
<1>3. ASSUME NEW p \in Conn
      PROVE  /\ Len(Stream(p)) = 0 /\ Len(wire[p]) = 0 /\ wire[p] = <<>> /\ routed[p] = 0 /\ pos[p] = 0
             /\ est[p] = "idle" /\ key[p] = NoConn /\ sealed[p] = 0 /\ opened[p] = 0
             /\ Len(down[p]) = 0
  BY <1>0 DEF CarrierInit, Init, Stream
<1>4. SoleAddressee
  BY <1>3 DEF SoleAddressee
<1>5. EndInv
  BY <1>3 DEF EndInv, OnlyWritten, EndpointsAgree, WireNumbered, ReadExactly
<1>q. QED BY <1>1, <1>2, <1>4, <1>5 DEF CarrierInv

LEMMA CarrierNextInv == CarrierInv /\ [CarrierNext]_carrierVars => CarrierInv'
<1> SUFFICES ASSUME CarrierInv, [CarrierNext]_carrierVars PROVE CarrierInv'
  OBVIOUS
<1>0. [Next]_vars
  BY EveryStep
<1>1. RelayInv'
  BY <1>0, NextHub, OrderStep DEF CarrierInv, RelayInv
<1>2. CarrierTypeOK'
  BY CarrierTypeStep DEF CarrierInv
<1>3. SoleAddressee'
  BY <1>0, SoleStep DEF CarrierInv
<1>4. EndInv'
  BY EveryStep, RelayKeepsEnds, OfferKeepsEnds, AcceptSaltKeepsEnds, AcceptKeepsEnds,
     SendKeepsEnds, EndKeepsEnds DEF EndpointStep, Reads
<1>q. QED BY <1>1, <1>2, <1>3, <1>4 DEF CarrierInv

(* The strengthened invariant holds in every behaviour. *)
THEOREM CarrierInvHolds == CarrierSpec => []CarrierInv
BY CarrierInitInv, CarrierNextInv, PTL DEF CarrierSpec

(* Relay and endpoints stay well typed together: what an endpoint takes    *)
(* from a frame it opened is always something an endpoint once sealed.     *)
THEOREM CarrierTypes == CarrierSpec => []CarrierTypeOK
<1>1. CarrierInv => CarrierTypeOK
  BY DEF CarrierInv
<1>q. QED BY <1>1, CarrierInvHolds, PTL

(* The first thing a carrier with input has read names its partner. *)
LEMMA FirstRead ==
  ASSUME CarrierInv, NEW c \in Conn, pos[c] # 0
  PROVE  \E s \in Conn : /\ down[c][1].src = s /\ down[c][1].n = 1 /\ IsFrame(down[c][1])
                         /\ role[s] # role[c] /\ Bound(c, s)
                         /\ 1 \in 1 .. Len(Stream(c)) /\ Stream(c)[1] = down[c][1]
<1>0. HubInv /\ TypeOK
  BY DEF CarrierInv, RelayInv, CarrierTypeOK
<1>1. 1 \in 1 .. pos[c] /\ 1 \in 1 .. Len(down[c])
  BY OneEndpoint
<1>2. IsFrame(down[c][1]) /\ down[c][1].n = 1 /\ Bound(c, down[c][1].src)
  BY <1>1 DEF CarrierInv, EndInv, ReadExactly
<1>3. 1 \in 1 .. Len(Stream(c)) /\ Stream(c)[1] = down[c][1]
  BY <1>0, <1>1, DownInStream
<1>q. QED BY <1>0, <1>2, <1>3, StreamOwed

(* A session has one daemon carrier: the salt went to no other. *)
LEMMA OneDaemonPerKey ==
  ASSUME CarrierInv, NEW d \in Conn, NEW e \in Conn, role[d] = "daemon", role[e] = "daemon",
         key[d] = key[e], key[d] # NoConn
  PROVE  d = e
<1>1. pos[d] # 0 /\ pos[e] # 0
  BY OneEndpoint
<1>2. PICK s \in Conn : /\ down[d][1].src = s /\ down[d][1].n = 1 /\ IsFrame(down[d][1])
                        /\ role[s] # role[d] /\ Bound(d, s)
                        /\ 1 \in 1 .. Len(Stream(d)) /\ Stream(d)[1] = down[d][1]
  BY <1>1, FirstRead
<1>3. PICK t \in Conn : /\ down[e][1].src = t /\ down[e][1].n = 1 /\ IsFrame(down[e][1])
                        /\ role[t] # role[e] /\ Bound(e, t)
                        /\ 1 \in 1 .. Len(Stream(e)) /\ Stream(e)[1] = down[e][1]
  BY <1>1, FirstRead
<1>4. s = t /\ role[s] = "client"
  BY <1>2, <1>3, OneEndpoint DEF Bound
<1>q. QED BY <1>2, <1>3, <1>4 DEF CarrierInv, SoleAddressee

(* A key a daemon carrier holds is the id of a client carrier. *)
LEMMA KeyIsAClient ==
  ASSUME CarrierInv, NEW d \in Conn, role[d] = "daemon", key[d] # NoConn
  PROVE  key[d] \in Conn /\ role[key[d]] = "client"
<1>1. pos[d] # 0
  BY OneEndpoint
<1>q. QED BY <1>1, FirstRead, OneEndpoint DEF Bound

(* No session key seals two frames with one counter in one direction: a    *)
(* client's key is its own, and a daemon's key was accepted once.          *)
THEOREM NoCounterTwice == CarrierSpec => []CountersUnique
<1>1. CarrierInv => CountersUnique
  <2> SUFFICES ASSUME CarrierInv, NEW c \in Conn, NEW d \in Conn,
                      NEW i \in DOMAIN wire[c], NEW j \in DOMAIN wire[d],
                      <<c, i>> # <<d, j>>, role[c] = role[d],
                      wire[c][i].key = wire[d][j].key, wire[c][i].key # NoConn
               PROVE  wire[c][i].ctr # wire[d][j].ctr
    BY DEF CountersUnique
  <2>1. i \in 1 .. Len(wire[c]) /\ j \in 1 .. Len(wire[d])
    BY OneEndpoint
  <2>2. /\ wire[c][i].ctr = i - 1 /\ wire[c][i].key = key[c]
        /\ wire[d][j].ctr = j - 1 /\ wire[d][j].key = key[d]
    BY <2>1 DEF CarrierInv, EndInv, WireNumbered
  <2>3. wire[c] # <<>> /\ wire[d] # <<>>
    BY <2>1, OneEndpoint
  <2>4. c = d
    <3>1. CASE role[c] = "client"
      <4>1. key[c] = c
        BY <2>3, <3>1, OneEndpoint
      <4>2. key[d] = d
        BY <2>3, <3>1, OneEndpoint
      <4>3. wire[c][i].key = c /\ wire[d][j].key = d
        BY <2>2, <4>1, <4>2
      <4>q. QED BY <4>3
    <3>2. CASE role[c] = "daemon"
      BY <2>2, <3>2, OneDaemonPerKey
    <3>q. QED BY <3>1, <3>2, OneEndpoint
  <2>5. i # j
    BY <2>4
  <2>q. QED BY <2>1, <2>2, <2>5
<1>q. QED BY <1>1, CarrierInvHolds, PTL

(* A client that was told the session exists shares its key with exactly   *)
(* one daemon carrier.                                                     *)
THEOREM TheKeyIsShared == CarrierSpec => []BothHoldTheKey
<1>1. CarrierInv => BothHoldTheKey
  <2> SUFFICES ASSUME CarrierInv, NEW c \in Conn, role[c] = "client", est[c] = "up"
               PROVE  Cardinality({d \in Conn : role[d] = "daemon" /\ key[d] = c}) = 1
    BY DEF BothHoldTheKey
  <2>1. pos[c] # 0 /\ c # NoConn
    BY OneEndpoint DEF Conn, NoConn
  <2>2. PICK s \in Conn : role[s] = "daemon" /\ key[s] = c
    BY <2>1, FirstRead, OneEndpoint DEF Bound
  <2>3. {d \in Conn : role[d] = "daemon" /\ key[d] = c} = {s}
    BY <2>1, <2>2, OneDaemonPerKey
  <2>q. QED BY <2>3, FS_Singleton
<1>q. QED BY <1>1, CarrierInvHolds, PTL

-----------------------------------------------------------------------------
(* The refinement.  The abstract state is a function of the concrete one;  *)
(* first what it is, then how each step moves it.                          *)

AbsPartner == [c \in Conn |-> PartnerOf(c)]
AbsSent    == [c \in Conn |-> Contents(Len(wire[c]))]
AbsRcvd    == [c \in Conn |-> [i \in 1 .. Contents(pos[c]) |->
                                 <<down[c][i + 1].src, down[c][i + 1].n - 1>>]]

LEMMA PartnerIs ==
  ASSUME CarrierInv, NEW c \in Conn
  PROVE  /\ role[c] = "daemon" => PartnerOf(c) = key[c]
         /\ role[c] = "client" /\ pos[c] = 0 => PartnerOf(c) = NoConn
         /\ role[c] = "client" /\ pos[c] # 0 =>
              /\ PartnerOf(c) \in Conn /\ role[PartnerOf(c)] = "daemon" /\ key[PartnerOf(c)] = c
              /\ \A d \in Conn : role[d] = "daemon" /\ key[d] = c => PartnerOf(c) = d
<1>1. ASSUME role[c] = "client", pos[c] # 0
      PROVE  /\ PartnerOf(c) \in Conn /\ role[PartnerOf(c)] = "daemon" /\ key[PartnerOf(c)] = c
             /\ \A d \in Conn : role[d] = "daemon" /\ key[d] = c => PartnerOf(c) = d
  <2>1. opened[c] # 0 /\ c # NoConn
    BY <1>1, OneEndpoint DEF Conn, NoConn
  <2>2. \E s \in Conn : role[s] = "daemon" /\ key[s] = c
    BY <1>1, FirstRead, OneEndpoint DEF Bound
  <2>3. PartnerOf(c) = CHOOSE d \in Conn : role[d] = "daemon" /\ key[d] = c
    BY <1>1, <2>1 DEF PartnerOf
  <2>4. PartnerOf(c) \in Conn /\ role[PartnerOf(c)] = "daemon" /\ key[PartnerOf(c)] = c
    BY <2>2, <2>3
  <2>q. QED BY <2>1, <2>4, OneDaemonPerKey
<1>2. ASSUME role[c] = "client", pos[c] = 0 PROVE PartnerOf(c) = NoConn
  BY <1>2, OneEndpoint DEF PartnerOf
<1>3. ASSUME role[c] = "daemon" PROVE PartnerOf(c) = key[c]
  BY <1>3 DEF PartnerOf
<1>q. QED BY <1>1, <1>2, <1>3

(* What c has read is numbered pairs of its partner and 1, 2, 3 ... *)
LEMMA RcvdIs ==
  ASSUME CarrierInv, NEW c \in Conn
  PROVE  AbsRcvd[c] = [i \in 1 .. Contents(pos[c]) |-> <<PartnerOf(c), i>>]
<1>1. AbsRcvd[c] = [i \in 1 .. Contents(pos[c]) |-> <<down[c][i + 1].src, down[c][i + 1].n - 1>>]
  BY DEF AbsRcvd
<1>2. ASSUME NEW i \in 1 .. Contents(pos[c])
      PROVE  down[c][i + 1].src = PartnerOf(c) /\ down[c][i + 1].n - 1 = i
  <2>1. pos[c] # 0 /\ i + 1 \in 1 .. pos[c] /\ i \in Nat
    BY OneEndpoint DEF Contents
  <2>2. IsFrame(down[c][i + 1]) /\ down[c][i + 1].n = i + 1 /\ Bound(c, down[c][i + 1].src)
    BY <2>1 DEF CarrierInv, EndInv, ReadExactly
  <2>3. down[c][i + 1].src \in Conn /\ role[down[c][i + 1].src] # role[c]
    <3>1. i + 1 \in 1 .. Len(down[c]) /\ TypeOK /\ HubInv
      BY <2>1, OneEndpoint DEF CarrierInv, RelayInv, CarrierTypeOK
    <3>q. QED BY <2>2, <3>1, DownInStream, StreamOwed
  <2>4. down[c][i + 1].src = PartnerOf(c)
    <3>1. CASE role[c] = "daemon"
      BY <2>2, <3>1, PartnerIs DEF Bound
    <3>2. CASE role[c] = "client"
      BY <2>1, <2>2, <2>3, <3>2, PartnerIs, OneEndpoint DEF Bound
    <3>q. QED BY <3>1, <3>2, OneEndpoint
  <2>q. QED BY <2>1, <2>2, <2>4
<1>q. QED BY <1>1, <1>2

(* All of it as formulas, so that they can be used of the next state too.  *)
(* Bijective: who is bound to whom.                                        *)
Bijective == \A c, d \in Conn :
    /\ role[c] \in {"daemon", "client"} /\ pos[c] \in Nat
    /\ role[c] = "daemon" => AbsPartner[c] = key[c]
    /\ role[c] = "client" /\ pos[c] = 0 => AbsPartner[c] = NoConn
    /\ role[c] = "client" /\ pos[c] # 0 =>
         /\ AbsPartner[c] \in Conn /\ role[AbsPartner[c]] = "daemon"
         /\ key[AbsPartner[c]] = c
    /\ role[c] = "client" /\ pos[c] # 0 /\ role[d] = "daemon" /\ key[d] = c => AbsPartner[c] = d
    /\ role[c] = "daemon" /\ key[c] # NoConn => key[c] \in Conn /\ role[key[c]] = "client"
    /\ role[c] = "daemon" /\ role[d] = "daemon" /\ key[c] = key[d] /\ key[c] # NoConn => c = d

RcvdExactly == \A c \in Conn :
    AbsRcvd[c] = [i \in 1 .. Contents(pos[c]) |-> <<AbsPartner[c], i>>]

LEMMA IsMapped == CarrierInv => Bijective /\ RcvdExactly
<1> SUFFICES ASSUME CarrierInv PROVE Bijective /\ RcvdExactly
  OBVIOUS
<1>1. ASSUME NEW c \in Conn, NEW d \in Conn
      PROVE  /\ role[c] = "daemon" => AbsPartner[c] = key[c]
             /\ role[c] = "client" /\ pos[c] = 0 => AbsPartner[c] = NoConn
             /\ role[c] = "client" /\ pos[c] # 0 =>
                  /\ AbsPartner[c] \in Conn /\ role[AbsPartner[c]] = "daemon"
                  /\ key[AbsPartner[c]] = c
             /\ role[c] = "client" /\ pos[c] # 0 /\ role[d] = "daemon" /\ key[d] = c
                  => AbsPartner[c] = d
  BY PartnerIs DEF AbsPartner
<1>2. ASSUME NEW c \in Conn
      PROVE  /\ role[c] \in {"daemon", "client"} /\ pos[c] \in Nat
             /\ role[c] = "daemon" /\ key[c] # NoConn => key[c] \in Conn /\ role[key[c]] = "client"
  BY KeyIsAClient, OneEndpoint
<1>3. RcvdExactly
  BY RcvdIs DEF RcvdExactly, AbsPartner
<1>q. QED BY <1>1, <1>2, <1>3, OneDaemonPerKey DEF Bijective

LEMMA IsMappedNext == CarrierInv' => Bijective' /\ RcvdExactly'
BY IsMapped, PTL

(* A bound carrier is born, so its role stays what it is. *)
LEMMA BoundIsBorn ==
  ASSUME CarrierInv, [Next]_vars, NEW d \in Conn, key[d] # NoConn \/ pos[d] # 0
  PROVE  role'[d] = role[d]
<1>1. phase[d] # "unborn"
  BY OneEndpoint
<1>q. QED BY <1>1, IdentityKept DEF CarrierInv, RelayInv, HubInv

(* A carrier keeps its partner in a step that neither takes a daemon's key *)
(* away nor brings the carrier itself its key or its first frame.          *)
LEMMA PartnerKept ==
  ASSUME CarrierInv, Bijective', [Next]_vars, NEW p \in Conn,
         pos'[p] = 0 <=> pos[p] = 0,
         (role[p] = "client" /\ phase[p] # "unborn") \/ key'[p] = key[p],
         \A d \in Conn : role[d] = "daemon" /\ key[d] # NoConn => key'[d] = key[d]
  PROVE  AbsPartner'[p] = AbsPartner[p]
<1>0. Bijective
  BY IsMapped
<1>1. CASE phase[p] = "unborn"
  <2>1. key[p] = NoConn /\ pos[p] = 0 /\ key'[p] = NoConn /\ pos'[p] = 0
    BY <1>1, OneEndpoint
  <2>q. QED BY <1>0, <2>1 DEF Bijective
<1>2. CASE phase[p] # "unborn"
  <2>1. role'[p] = role[p]
    BY <1>2, IdentityKept DEF CarrierInv, RelayInv, HubInv
  <2>2. CASE role[p] = "daemon" \/ pos[p] = 0
    BY <1>0, <2>1, <2>2 DEF Bijective
  <2>3. CASE role[p] = "client" /\ pos[p] # 0
    <3>1. PICK d \in Conn : d = AbsPartner[p] /\ role[d] = "daemon" /\ key[d] = p
      BY <1>0, <2>3 DEF Bijective
    <3>2. p # NoConn
      BY DEF Conn, NoConn
    <3>3. role'[d] = "daemon" /\ key'[d] = p
      BY <3>1, <3>2, BoundIsBorn
    <3>q. QED BY <2>1, <2>3, <3>1, <3>3 DEF Bijective
  <2>q. QED BY <1>0, <2>2, <2>3 DEF Bijective
<1>q. QED BY <1>1, <1>2

(* What the abstract variables are at p, in either state. *)
LEMMA AbsAt ==
  ASSUME NEW p \in Conn
  PROVE  /\ AbsSent[p] = Contents(Len(wire[p])) /\ AbsSent'[p] = Contents(Len(wire'[p]))
BY DEF AbsSent, Contents

LEMMA AbsDomains ==
  /\ AbsPartner = [p \in Conn |-> AbsPartner[p]] /\ AbsPartner' = [p \in Conn |-> AbsPartner'[p]]
  /\ AbsSent = [p \in Conn |-> AbsSent[p]] /\ AbsSent' = [p \in Conn |-> AbsSent'[p]]
  /\ AbsRcvd = [p \in Conn |-> AbsRcvd[p]] /\ AbsRcvd' = [p \in Conn |-> AbsRcvd'[p]]
BY DEF AbsPartner, AbsSent, AbsRcvd

(* What p has received follows from its partner and from how much it read. *)
LEMMA RcvdKept ==
  ASSUME RcvdExactly, RcvdExactly', NEW p \in Conn, Contents(pos'[p]) = Contents(pos[p]),
         AbsPartner'[p] = AbsPartner[p] \/ Contents(pos[p]) = 0
  PROVE  AbsRcvd'[p] = AbsRcvd[p]
<1>1. /\ AbsRcvd[p] = [i \in 1 .. Contents(pos[p]) |-> <<AbsPartner[p], i>>]
      /\ AbsRcvd'[p] = [i \in 1 .. Contents(pos[p]) |-> <<AbsPartner'[p], i>>]
  BY DEF RcvdExactly, Contents
<1>q. QED BY <1>1

(* The relay, a salt and a carrier that ends move nothing of the channel. *)
LEMMA RelayStutters ==
  ASSUME CarrierInv, CarrierInv', RelayStep \/ UNCHANGED carrierVars
  PROVE  UNCHANGED <<AbsPartner, AbsSent, AbsRcvd>>
<1>1. Bijective' /\ RcvdExactly' /\ RcvdExactly
  BY IsMapped, IsMappedNext
<1>2. [Next]_vars /\ key' = key /\ pos' = pos /\ wire' = wire
  BY RelayHalf DEF carrierVars, vars, endVars
<1>3. ASSUME NEW p \in Conn PROVE AbsPartner'[p] = AbsPartner[p]
  BY <1>1, <1>2, PartnerKept
<1>4. ASSUME NEW p \in Conn PROVE AbsRcvd'[p] = AbsRcvd[p] /\ AbsSent'[p] = AbsSent[p]
  BY <1>1, <1>2, <1>3, RcvdKept, AbsAt
<1>q. QED BY <1>3, <1>4, AbsDomains

LEMMA OfferStutters ==
  ASSUME CarrierInv, CarrierInv', NEW c \in Conn, OfferSalt(c)
  PROVE  UNCHANGED <<AbsPartner, AbsSent, AbsRcvd>>
<1>0. CarrierTypeOK /\ UNCHANGED vars
  BY DEF CarrierInv, OfferSalt
<1>1. Bijective' /\ RcvdExactly' /\ RcvdExactly
  BY IsMapped, IsMappedNext
<1>2. ASSUME NEW p \in Conn
      PROVE  /\ role[c] = "client" /\ phase[c] # "unborn" /\ wire[c] = <<>>
             /\ pos'[p] = pos[p] /\ key'[p] = IF p = c THEN c ELSE key[p]
             /\ wire'[p] = IF p = c THEN Append(wire[c], Seal(NoConn, sealed[c], "salt")) ELSE wire[p]
  BY <1>0, OfferEffect, OneEndpoint
<1>3. ASSUME NEW p \in Conn PROVE AbsPartner'[p] = AbsPartner[p]
  <2>1. \A d \in Conn : role[d] = "daemon" => key'[d] = key[d]
    BY <1>2
  <2>2. (role[p] = "client" /\ phase[p] # "unborn") \/ key'[p] = key[p]
    BY <1>2
  <2>q. QED BY <1>0, <1>1, <1>2, <2>1, <2>2, PartnerKept
<1>4. ASSUME NEW p \in Conn PROVE AbsRcvd'[p] = AbsRcvd[p]
  BY <1>1, <1>2, <1>3, RcvdKept
<1>5. ASSUME NEW p \in Conn PROVE AbsSent'[p] = AbsSent[p]
  <2>1. CASE p # c
    BY <1>2, <2>1, AbsAt
  <2>2. CASE p = c
    <3>1. Len(wire[c]) = 0 /\ Len(wire'[c]) = 1
      <4>1. wire[c] = <<>> /\ wire'[c] = Append(wire[c], Seal(NoConn, sealed[c], "salt"))
        BY <1>2
      <4>q. QED BY <4>1
    <3>2. Contents(Len(wire[c])) = 0 /\ Contents(Len(wire'[c])) = 0
      BY <3>1 DEF Contents
    <3>q. QED BY <2>2, <3>2, AbsAt
  <2>q. QED BY <2>1, <2>2
<1>q. QED BY <1>3, <1>4, <1>5, AbsDomains

LEMMA EndStutters ==
  ASSUME CarrierInv, CarrierInv', NEW c \in Conn, FailInput(c) \/ SeeClosed(c) \/ Leave(c)
  PROVE  UNCHANGED <<AbsPartner, AbsSent, AbsRcvd>>
<1>0. CarrierTypeOK /\ UNCHANGED vars
  BY DEF CarrierInv, FailInput, SeeClosed, Leave
<1>1. Bijective' /\ RcvdExactly' /\ RcvdExactly
  BY IsMapped, IsMappedNext
<1>2. key' = key /\ pos' = pos /\ wire' = wire
  BY <1>0, EndEffect
<1>3. ASSUME NEW p \in Conn PROVE AbsPartner'[p] = AbsPartner[p]
  BY <1>0, <1>1, <1>2, PartnerKept
<1>4. ASSUME NEW p \in Conn PROVE AbsRcvd'[p] = AbsRcvd[p] /\ AbsSent'[p] = AbsSent[p]
  BY <1>1, <1>2, <1>3, RcvdKept, AbsAt
<1>q. QED BY <1>3, <1>4, AbsDomains

(* A daemon that accepts a salt commits to its sender, which nobody else   *)
(* is bound to.                                                            *)
LEMMA AcceptCommits ==
  ASSUME CarrierInv, CarrierInv', NEW d \in Conn, AcceptSalt(d)
  PROVE  \E c \in Conn \ {d} : Chan!Commit(d, c)
<1>0. CarrierTypeOK /\ UNCHANGED vars
  BY DEF CarrierInv, AcceptSalt
<1>1. Bijective' /\ RcvdExactly' /\ Bijective /\ RcvdExactly
  BY IsMapped, IsMappedNext
<1> DEFINE c == Item(d).src
<1>2. /\ c \in Conn /\ role[c] = "client" /\ role[d] = "daemon" /\ c # d
      /\ pos[d] = 0 /\ wire[d] = <<>> /\ key[d] = NoConn /\ c # NoConn /\ d # NoConn
  BY <1>0, SaltIsFirst, AcceptSaltEffect DEF Conn, NoConn
<1>3. ASSUME NEW p \in Conn
      PROVE  /\ pos'[p] = IF p = d THEN 1 ELSE pos[p]
             /\ key'[p] = IF p = d THEN c ELSE key[p]
             /\ wire'[p] = IF p = d THEN Append(wire[d], Seal(c, 0, "ack")) ELSE wire[p]
  <2>1. pos[d] + 1 = 1
    BY <1>2
  <2>q. QED BY <1>0, <2>1, AcceptSaltEffect
<1> HIDE DEF c
<1>r. role' = role /\ phase' = phase
  BY <1>0 DEF vars
<1>4. AbsPartner[d] = NoConn /\ AbsPartner'[d] = c
  BY <1>1, <1>2, <1>3, <1>r DEF Bijective
<1>5. ASSUME NEW e \in Conn PROVE AbsPartner[e] # c /\ AbsPartner[e] # d
  <2>1. CASE role[e] = "daemon"
    <3>1. AbsPartner[e] = key[e] /\ key[e] # d
      BY <1>1, <1>2, <2>1 DEF Bijective
    <3>2. key[e] # c
      <4> SUFFICES ASSUME key[e] = c PROVE FALSE
        OBVIOUS
      <4>1. e # d
        BY <1>2
      <4>2. key'[e] = c /\ key'[d] = c /\ role'[e] = "daemon" /\ role'[d] = "daemon"
        BY <1>2, <1>3, <1>r, <2>1, <4>1
      <4>q. QED BY <1>1, <1>2, <4>1, <4>2 DEF Bijective
    <3>q. QED BY <3>1, <3>2
  <2>2. CASE role[e] = "client"
    <3>1. e # NoConn
      BY DEF Conn, NoConn
    <3>q. QED BY <1>1, <1>2, <2>2, <3>1 DEF Bijective
  <2>q. QED BY <1>1, <2>1, <2>2 DEF Bijective
<1>6. ASSUME NEW p \in Conn, p # d PROVE AbsPartner'[p] = AbsPartner[p]
  <2>1. \A e \in Conn : role[e] = "daemon" /\ key[e] # NoConn => key'[e] = key[e]
    BY <1>2, <1>3
  <2>2. key'[p] = key[p] /\ pos'[p] = pos[p]
    BY <1>3, <1>6
  <2>q. QED BY <1>0, <1>1, <2>1, <2>2, PartnerKept
<1>7. ASSUME NEW p \in Conn PROVE AbsRcvd'[p] = AbsRcvd[p]
  <2>1. CASE p = d
    BY <1>1, <1>2, <1>3, <2>1, RcvdKept DEF Contents
  <2>2. CASE p # d
    BY <1>1, <1>3, <1>6, <2>2, RcvdKept
  <2>q. QED BY <2>1, <2>2
<1>8. ASSUME NEW p \in Conn PROVE AbsSent'[p] = AbsSent[p]
  <2>1. CASE p # d
    BY <1>3, <2>1, AbsAt
  <2>2. CASE p = d
    <3>1. Len(wire[d]) = 0 /\ Len(wire'[d]) = 1
      BY <1>2, <1>3
    <3>2. Contents(Len(wire[d])) = 0 /\ Contents(Len(wire'[d])) = 0
      BY <3>1 DEF Contents
    <3>q. QED BY <2>2, <3>2, AbsAt
  <2>q. QED BY <2>1, <2>2
<1>9. AbsPartner' = [AbsPartner EXCEPT ![d] = c]
  BY <1>4, <1>6, AbsDomains
<1>10. UNCHANGED <<AbsSent, AbsRcvd>>
  BY <1>7, <1>8, AbsDomains
<1>11. Chan!Commit(d, c)
  BY <1>4, <1>5, <1>9, <1>10 DEF Chan!Commit, AbsPartner, AbsSent, AbsRcvd
<1>q. QED BY <1>2, <1>11

(* A frame that opens comes from the partner the carrier has or gets. *)
LEMMA OpenedIsPartners ==
  ASSUME CarrierInv, CarrierInv', NEW c \in Conn, AcceptAck(c) \/ AcceptData(c)
  PROVE  /\ Item(c).src \in Conn /\ role[Item(c).src] # role[c]
         /\ Bound(c, Item(c).src)
         /\ pos[c] + 1 <= Len(wire[Item(c).src]) /\ Len(wire[Item(c).src]) \in Nat
         /\ key[c] # NoConn /\ AbsPartner'[c] = Item(c).src
         /\ \A p \in Conn : p # c \/ AcceptData(c) => AbsPartner'[p] = AbsPartner[p]
<1>0. CarrierTypeOK /\ UNCHANGED vars
  BY DEF CarrierInv, AcceptAck, AcceptData
<1>1. Bijective' /\ Bijective
  BY IsMapped, IsMappedNext
<1>r. role' = role /\ phase' = phase
  BY <1>0 DEF vars
<1>2. ASSUME NEW p \in Conn
      PROVE  /\ est[c] \in {"offered", "up"} /\ pos[c] < Len(down[c])
             /\ IsFrame(Item(c)) /\ Opens(c, Content(c)) /\ key' = key
             /\ pos'[p] = IF p = c THEN pos[c] + 1 ELSE pos[p]
  BY <1>0, AcceptEffect
<1>3. wire[c] # <<>> /\ key[c] # NoConn /\ pos[c] \in Nat
  BY <1>2, OneEndpoint
<1>4. /\ Item(c).n = pos[c] + 1 /\ Bound(c, Item(c).src) /\ Item(c).src \in Conn
      /\ Item(c).n \in 1 .. Len(wire[Item(c).src])
  BY <1>2, <1>3, OpensTheNext
<1>5. role[Item(c).src] # role[c]
  BY <1>2, ItemIs
<1>6. AbsPartner'[c] = Item(c).src
  <2>1. pos'[c] # 0
    BY <1>2, <1>3
  <2>2. CASE role[c] = "daemon"
    BY <1>1, <1>2, <1>4, <1>r, <2>2 DEF Bijective, Bound
  <2>3. CASE role[c] = "client"
    <3>1. role[Item(c).src] = "daemon" /\ key[Item(c).src] = c
      BY <1>1, <1>4, <1>5, <2>3 DEF Bound, Bijective
    <3>q. QED BY <1>1, <1>2, <1>4, <1>r, <2>1, <2>3, <3>1 DEF Bijective
  <2>q. QED BY <1>1, <2>2, <2>3 DEF Bijective
<1>7. ASSUME NEW p \in Conn, p # c \/ AcceptData(c) PROVE AbsPartner'[p] = AbsPartner[p]
  <2>1. pos'[p] = 0 <=> pos[p] = 0
    <3>1. CASE p # c
      BY <1>2, <3>1
    <3>2. CASE p = c /\ AcceptData(c)
      <4>1. pos[c] # 0
        BY <3>2, OneEndpoint DEF AcceptData
      <4>q. QED BY <1>2, <1>3, <3>2, <4>1
    <3>q. QED BY <1>7, <3>1, <3>2
  <2>q. QED BY <1>0, <1>1, <1>2, <2>1, PartnerKept
<1>8. Len(wire[Item(c).src]) \in Nat
  BY <1>4, OneEndpoint
<1>q. QED BY <1>3, <1>4, <1>5, <1>6, <1>7, <1>8

(* A client that accepts the acknowledgement confirms the very daemon      *)
(* carrier that committed to it.                                           *)
LEMMA AckConfirms ==
  ASSUME CarrierInv, CarrierInv', NEW c \in Conn, AcceptAck(c)
  PROVE  \E d \in Conn \ {c} : Chan!Confirm(c, d)
<1>0. CarrierTypeOK
  BY DEF CarrierInv
<1>1. Bijective' /\ RcvdExactly' /\ Bijective /\ RcvdExactly
  BY IsMapped, IsMappedNext
<1>2. role[c] = "client" /\ pos[c] = 0
  BY OneEndpoint DEF AcceptAck
<1>3. ASSUME NEW p \in Conn PROVE wire' = wire /\ pos'[p] = IF p = c THEN 1 ELSE pos[p]
  <2>1. pos[c] + 1 = 1
    BY <1>2
  <2>q. QED BY <1>0, <2>1, AcceptEffect
<1> DEFINE d == Item(c).src
<1>4. /\ d \in Conn /\ role[d] # role[c] /\ Bound(c, d) /\ AbsPartner'[c] = d
      /\ \A p \in Conn : p # c => AbsPartner'[p] = AbsPartner[p]
  BY OpenedIsPartners
<1> HIDE DEF d
<1>5. AbsPartner[c] = NoConn /\ AbsPartner[d] = c /\ d # c
  BY <1>1, <1>2, <1>4 DEF Bijective, Bound
<1>6. ASSUME NEW p \in Conn PROVE AbsRcvd'[p] = AbsRcvd[p]
  <2>1. CASE p = c
    BY <1>1, <1>2, <1>3, <2>1, RcvdKept DEF Contents
  <2>2. CASE p # c
    BY <1>1, <1>3, <1>4, <2>2, RcvdKept
  <2>q. QED BY <2>1, <2>2
<1>7. AbsPartner' = [AbsPartner EXCEPT ![c] = d]
  BY <1>4, AbsDomains
<1>8. UNCHANGED <<AbsSent, AbsRcvd>>
  BY <1>3, <1>6, AbsAt, AbsDomains
<1>9. Chan!Confirm(c, d)
  BY <1>5, <1>7, <1>8 DEF Chan!Confirm, AbsPartner, AbsSent, AbsRcvd
<1>q. QED BY <1>4, <1>5, <1>9

(* One more of the same sender's frames, in sequence. *)
LEMMA OneMore ==
  ASSUME NEW n \in Nat, NEW s, NEW r, r = [i \in 1 .. n |-> <<s, i>>]
  PROVE  Len(r) = n /\ Append(r, <<s, Len(r) + 1>>) = [i \in 1 .. n + 1 |-> <<s, i>>]
<1>1. r \in Seq({s} \X Nat) /\ Len(r) = n
  OBVIOUS
<1>2. <<s, n + 1>> \in {s} \X Nat
  OBVIOUS
<1> DEFINE a == Append(r, <<s, n + 1>>)
<1>3. a \in Seq({s} \X Nat) /\ Len(a) = n + 1
  BY <1>1, <1>2
<1>4. ASSUME NEW i \in 1 .. n + 1 PROVE a[i] = <<s, i>>
  BY <1>1, <1>2
<1>5. a = [i \in 1 .. n + 1 |-> <<s, i>>]
  BY <1>3, <1>4
<1>q. QED BY <1>1, <1>5

(* A frame accepted on a session is the partner's next message. *)
LEMMA DataDelivers ==
  ASSUME CarrierInv, CarrierInv', NEW c \in Conn, AcceptData(c)
  PROVE  Chan!Deliver(c)
<1>0. CarrierTypeOK
  BY DEF CarrierInv
<1>1. Bijective' /\ RcvdExactly' /\ Bijective /\ RcvdExactly
  BY IsMapped, IsMappedNext
<1>2. pos[c] \in Nat \ {0}
  BY OneEndpoint DEF AcceptData
<1>3. ASSUME NEW p \in Conn PROVE wire' = wire /\ pos'[p] = IF p = c THEN pos[c] + 1 ELSE pos[p]
  BY <1>0, AcceptEffect
<1> DEFINE d == Item(c).src
<1>4. /\ d \in Conn /\ AbsPartner[c] = d /\ AbsPartner'[c] = d
      /\ \A p \in Conn : AbsPartner'[p] = AbsPartner[p]
      /\ pos[c] + 1 <= Len(wire[d]) /\ Len(wire[d]) \in Nat
  BY OpenedIsPartners
<1> HIDE DEF d
<1>5. d # NoConn
  BY <1>4 DEF Conn, NoConn
<1>6. /\ Contents(pos[c]) = pos[c] - 1 /\ Contents(pos'[c]) = pos[c] - 1 + 1
      /\ Contents(Len(wire[d])) > pos[c] - 1 /\ pos[c] - 1 \in Nat
  <2>1. pos'[c] = pos[c] + 1
    BY <1>3
  <2>2. pos[c] + 1 <= Len(wire[d]) /\ Len(wire[d]) \in Nat
    BY <1>4
  <2>q. QED BY <1>2, <2>1, <2>2 DEF Contents
<1>7. /\ AbsRcvd[c] = [i \in 1 .. pos[c] - 1 |-> <<d, i>>]
      /\ AbsRcvd'[c] = [i \in 1 .. pos[c] - 1 + 1 |-> <<d, i>>]
  <2>1. AbsRcvd'[c] = [i \in 1 .. Contents(pos'[c]) |-> <<AbsPartner'[c], i>>]
    BY <1>1 DEF RcvdExactly, Contents
  <2>q. QED BY <1>1, <1>4, <1>6, <2>1 DEF RcvdExactly
<1>8. /\ Len(AbsRcvd[c]) = pos[c] - 1
      /\ AbsRcvd'[c] = Append(AbsRcvd[c], <<d, Len(AbsRcvd[c]) + 1>>)
  BY <1>6, <1>7, OneMore
<1>9. ASSUME NEW p \in Conn, p # c PROVE AbsRcvd'[p] = AbsRcvd[p]
  BY <1>1, <1>3, <1>4, <1>9, RcvdKept
<1>10. AbsRcvd' = [AbsRcvd EXCEPT ![c] = Append(@, <<AbsPartner[c], Len(@) + 1>>)]
  BY <1>4, <1>8, <1>9, AbsDomains
<1>11. UNCHANGED <<AbsPartner, AbsSent>>
  BY <1>3, <1>4, AbsAt, AbsDomains
<1>12. AbsPartner[c] # NoConn /\ Len(AbsRcvd[c]) < AbsSent[AbsPartner[c]]
  BY <1>4, <1>5, <1>6, <1>8, AbsAt
<1>q. QED BY <1>10, <1>11, <1>12 DEF Chan!Deliver, AbsPartner, AbsSent, AbsRcvd

LEMMA DataSends ==
  ASSUME CarrierInv, CarrierInv', NEW c \in Conn, SendData(c)
  PROVE  Chan!Send(c)
<1>0. CarrierTypeOK /\ UNCHANGED vars
  BY DEF CarrierInv, SendData
<1>1. Bijective' /\ RcvdExactly' /\ Bijective /\ RcvdExactly
  BY IsMapped, IsMappedNext
<1>2. /\ pos[c] # 0 /\ wire[c] # <<>> /\ key[c] # NoConn /\ wire[c] \in Seq(Sealed)
      /\ Len(wire[c]) \in Nat \ {0}
  <2>1. pos[c] # 0 /\ wire[c] # <<>> /\ key[c] # NoConn /\ wire[c] \in Seq(Sealed)
    BY OneEndpoint DEF SendData
  <2>q. QED BY <2>1
<1>3. ASSUME NEW p \in Conn
      PROVE  /\ key' = key /\ pos' = pos
             /\ wire'[p] = IF p = c THEN Append(wire[c], Seal(key[c], sealed[c], "data")) ELSE wire[p]
  BY <1>0, SendEffect
<1>4. AbsPartner[c] # NoConn
  <2>1. NoConn \notin Conn
    BY DEF Conn, NoConn
  <2>q. QED BY <1>1, <1>2, <2>1 DEF Bijective
<1>5. ASSUME NEW p \in Conn PROVE AbsPartner'[p] = AbsPartner[p]
  BY <1>0, <1>1, <1>3, PartnerKept
<1>6. ASSUME NEW p \in Conn PROVE AbsRcvd'[p] = AbsRcvd[p]
  BY <1>1, <1>3, <1>5, RcvdKept
<1>7. AbsSent'[c] = AbsSent[c] + 1
  <2>1. Len(wire'[c]) = Len(wire[c]) + 1
    <3>1. wire'[c] = Append(wire[c], Seal(key[c], sealed[c], "data"))
      BY <1>3
    <3>2. Len(Append(wire[c], Seal(key[c], sealed[c], "data"))) = Len(wire[c]) + 1
      BY <1>2, AppendIs
    <3>q. QED BY <3>1, <3>2
  <2>2. Contents(Len(wire'[c])) = Contents(Len(wire[c])) + 1
    BY <1>2, <2>1 DEF Contents
  <2>q. QED BY <2>2, AbsAt
<1>8. ASSUME NEW p \in Conn, p # c PROVE AbsSent'[p] = AbsSent[p]
  BY <1>3, <1>8, AbsAt
<1>9. AbsSent' = [AbsSent EXCEPT ![c] = @ + 1]
  BY <1>7, <1>8, AbsDomains
<1>10. UNCHANGED <<AbsPartner, AbsRcvd>>
  BY <1>5, <1>6, AbsDomains
<1>q. QED BY <1>4, <1>9, <1>10 DEF Chan!Send, AbsPartner, AbsSent, AbsRcvd

LEMMA ChannelInit == CarrierInit => Chan!ChanInit
<1> SUFFICES ASSUME CarrierInit PROVE Chan!ChanInit
  OBVIOUS
<1>0. CarrierInv
  BY CarrierInitInv
<1>1. Bijective /\ RcvdExactly
  BY <1>0, IsMapped
<1>2. ASSUME NEW c \in Conn PROVE pos[c] = 0 /\ key[c] = NoConn /\ wire[c] = <<>>
  BY DEF CarrierInit
<1>3. ASSUME NEW c \in Conn PROVE AbsPartner[c] = NoConn
  BY <1>1, <1>2 DEF Bijective
<1>4. ASSUME NEW c \in Conn PROVE AbsSent[c] = 0
  BY <1>2, AbsAt DEF Contents
<1>5. ASSUME NEW c \in Conn PROVE AbsRcvd[c] = <<>>
  <2>1. AbsRcvd[c] = [i \in 1 .. 0 |-> <<AbsPartner[c], i>>]
    BY <1>1, <1>2 DEF RcvdExactly, Contents
  <2>q. QED BY <2>1
<1>6. /\ AbsPartner = [c \in Conn |-> NoConn] /\ AbsSent = [c \in Conn |-> 0]
      /\ AbsRcvd = [c \in Conn |-> <<>>]
  BY <1>3, <1>4, <1>5, AbsDomains
<1>q. QED BY <1>6 DEF Chan!ChanInit, AbsPartner, AbsSent, AbsRcvd

LEMMA ChannelStep ==
  ASSUME CarrierInv, CarrierInv', [CarrierNext]_carrierVars
  PROVE  [Chan!ChanNext]_(Chan!chanVars)
<1>s. ASSUME UNCHANGED <<AbsPartner, AbsSent, AbsRcvd>> PROVE UNCHANGED Chan!chanVars
  BY <1>s DEF Chan!chanVars, AbsPartner, AbsSent, AbsRcvd
<1>1. CASE RelayStep \/ UNCHANGED carrierVars
  BY <1>1, <1>s, RelayStutters
<1>2. ASSUME NEW c \in Conn, EndpointStep(c) PROVE [Chan!ChanNext]_(Chan!chanVars)
  <2>1. CASE OfferSalt(c)
    BY <2>1, <1>s, OfferStutters
  <2>2. CASE AcceptSalt(c)
    BY <2>2, AcceptCommits DEF Chan!ChanNext
  <2>3. CASE AcceptAck(c)
    BY <2>3, AckConfirms DEF Chan!ChanNext
  <2>4. CASE AcceptData(c)
    BY <2>4, DataDelivers DEF Chan!ChanNext
  <2>5. CASE SendData(c)
    BY <2>5, DataSends DEF Chan!ChanNext
  <2>6. CASE FailInput(c) \/ SeeClosed(c) \/ Leave(c)
    BY <2>6, <1>s, EndStutters
  <2>q. QED BY <1>2, <2>1, <2>2, <2>3, <2>4, <2>5, <2>6 DEF EndpointStep, Reads
<1>q. QED BY <1>1, <1>2, EveryStep

(* Over a relay that loses frames, closes and supersedes carriers and fans *)
(* a daemon's frames out to every client of the room, the carriers         *)
(* implement SecureChannel: what the two ends of a session accept is a     *)
(* gap-free, in-order copy of what their one partner sent.                 *)
THEOREM CarriersImplementChannel == CarrierSpec => ImplementsChannel
<1>1. CarrierInv /\ CarrierInv' /\ [CarrierNext]_carrierVars => [Chan!ChanNext]_(Chan!chanVars)
  BY ChannelStep
<1>q. QED BY <1>1, ChannelInit, CarrierInvHolds, PTL DEF CarrierSpec, ImplementsChannel, Chan!ChanSpec

=============================================================================
