-------------------------------- MODULE Proxy --------------------------------
(***************************************************************************)
(* The proxy plane of the daemon: ProxyService (proxy/service.rs) over the *)
(* message codec (proxy/message.rs) and the loopback client of DSH         *)
(* (dsh/client.rs).                                                        *)
(*                                                                         *)
(* Every inbound message is handled by a task of its own, so the messages  *)
(* of one client overtake one another.  Answers go to the outbox of the    *)
(* carrier the message came on; an upgraded WebSocket is a reader task, a  *)
(* writer task with a bounded queue, and an entry in one registry that all *)
(* carriers of the daemon share and that is keyed by the client's id.      *)
(* A WebSocket is named here by the task that opened it.                   *)
(***************************************************************************)
EXTENDS Integers, Sequences, FiniteSets

CONSTANTS
    Requests,   \* bound of the model: inbound requests
    WsMessages, \* bound of the model: inbound WebSocket messages
    Id,         \* ids a client gives its WebSockets
    OutCap,     \* capacity of a carrier's outbox (64)
    WsCap,      \* WS_QUEUE (64)
    MaxChunk,   \* MAX_CHUNK_BYTES
    Body,       \* bound of the model: the sizes of DSH's response bodies
    MaxLoad,    \* bound of the model: messages and redials, requests counting twice
    MaxFrames,  \* bound of the model: frames DSH sends on its WebSockets
    MaxGen      \* bound of the model: carriers, one after the other

ASSUME ProxyAssumption ==
    /\ OutCap \in Nat \ {0} /\ WsCap \in Nat \ {0} /\ MaxChunk \in Nat \ {0}
    /\ Body \subseteq Nat /\ MaxLoad \in Nat /\ MaxFrames \in Nat /\ MaxGen \in Nat \ {0}
    /\ Requests \in Nat /\ WsMessages \in Nat /\ Id # {}

(* Every inbound message has a task of its own; tasks are numbered in the  *)
(* order in which requests, and WebSocket messages, arrive.                *)
Request   == 1 .. Requests
WsMessage == Requests + 1 .. Requests + WsMessages
Task      == Request \cup WsMessage
NoTask    == 0

VARIABLES
    gen, up,   \* the current carrier and whether it lives
    box,       \* its outbox
    task,      \* what each task is doing
    reg,       \* ProxyService::sockets
    sock,      \* the two pump tasks of a WebSocket, its queue and DSH's end
    got,       \* what the client has received for a request
    told,      \* the WebSockets whose end the client was told
    frames     \* how many frames DSH has sent

vars == <<gen, up, box, task, reg, sock, got, told, frames>>

Kind == {"request", "open", "data", "closeFrame", "closeAll"}

Init ==
    /\ gen = 1 /\ up = TRUE /\ box = <<>>
    /\ task \in [Task -> {[kind |-> "none", id |-> i, gen |-> 0, pc |-> "idle", size |-> 0,
                           left |-> 0, wide |-> FALSE, ws |-> NoTask] :
                            i \in {CHOOSE i \in Id : TRUE}}]
    /\ reg = [i \in Id |-> NoTask]
    /\ sock = [t \in Task |-> [reader |-> "none", writer |-> "none", q |-> <<>>,
                               dsh |-> "open"]]
    /\ frames = 0
    /\ got = [t \in Request |-> <<>>] /\ told = {}

-----------------------------------------------------------------------------
(* The carrier. *)
Msg(t, type) == [type |-> type, n |-> 0, wide |-> FALSE, of |-> t]
Gone(t)      == task[t].gen # gen \/ ~up
At(t, pc)    == task[t].pc = pc
Goes(t, pc)  == task' = [task EXCEPT ![t].pc = pc]

(* ProxyService::send: waits for room in the outbox; a carrier that has    *)
(* gone is an error, which ends the task.                                  *)
Sends(t, m, pc) ==
    \/ /\ ~Gone(t)
       /\ Len(box) < OutCap
       /\ box' = Append(box, m)
       /\ Goes(t, pc)
    \/ /\ Gone(t)
       /\ Goes(t, "done")
       /\ UNCHANGED box

(* The uplink writes the outbox to the carrier in order and the client     *)
(* reads it.  A head the codec takes and the carrier cannot frame          *)
(* (MAX_HEADER_BYTES is the carrier's whole payload) ends the carrier.     *)
Breaks == up' = FALSE /\ box' = <<>>

Drain ==
    /\ up /\ box # <<>>
    /\ LET m == Head(box) IN
       IF m.wide
       THEN Breaks /\ UNCHANGED <<got, told>>
       ELSE /\ box' = Tail(box)
            /\ got' = [t \in Request |-> IF t = m.of THEN Append(got[t], m) ELSE got[t]]
            /\ told' = IF m.type = "close" THEN told \cup {m.of} ELSE told
            /\ UNCHANGED up
    /\ UNCHANGED <<gen, task, reg, sock, frames>>

CarrierBreaks == up /\ Breaks /\ UNCHANGED <<gen, task, reg, sock, got, told, frames>>

Redial ==
    /\ ~up /\ gen < MaxGen
    /\ gen' = gen + 1 /\ up' = TRUE
    /\ UNCHANGED <<box, task, reg, sock, got, told, frames>>

(* decode, and the task run_command's handler spawns.  Any message may     *)
(* name any id, opened or not, on this carrier or an earlier one: nothing  *)
(* is checked but the registry.  What does not decode, or travels the      *)
(* other way, is only logged.                                              *)
FirstPc(kind) == CASE kind = "request"                -> "perform"
                   [] kind = "open"                   -> "upgrade"
                   [] kind \in {"data", "closeFrame"} -> "lookup"
                   [] kind = "closeAll"               -> "closeAll"

(* What a message costs of the model's bound on messages. *)
Load(t) == IF t \in Request THEN 2 ELSE 1

Arrive(t, kind, i) ==
    /\ up /\ At(t, "idle")
    /\ Load(t) + Cardinality({o \in Request : ~At(o, "idle")})
               + Cardinality({o \in Task : ~At(o, "idle")}) + gen - 1 <= MaxLoad
    /\ kind = "request" <=> t \in Request
    /\ \A o \in Task : o < t /\ (o \in Request <=> t \in Request) => ~At(o, "idle")
    /\ task' = [task EXCEPT ![t].kind = kind, ![t].id = i, ![t].gen = gen, ![t].pc = FirstPc(kind)]
    /\ UNCHANGED <<gen, up, box, reg, sock, got, told, frames>>

-----------------------------------------------------------------------------
(* perform: a target that is not a plain path, or a body that is not as    *)
(* long as it says, is refused before DSH is asked ...                     *)
RefuseRequest(t) ==
    /\ At(t, "perform")
    /\ Goes(t, "fail")
    /\ UNCHANGED <<gen, up, box, reg, sock, got, told, frames>>

(* ... the head of DSH's answer came in time, ...                          *)
DshHead(t) ==
    /\ At(t, "perform")
    /\ Goes(t, "collect")
    /\ UNCHANGED <<gen, up, box, reg, sock, got, told, frames>>

(* ... DSH cannot be reached, the timer of the head runs out or the body   *)
(* breaks off: reported by perform and again by handle ...                 *)
DshFails(t) ==
    /\ At(t, "perform") \/ At(t, "collect")
    /\ Goes(t, "fail2")
    /\ UNCHANGED <<gen, up, box, reg, sock, got, told, frames>>

(* encode: put_headers refuses a header block over its limit.              *)
Encodes(head) == head # "over"

(* ... or its whole answer was collected.  A header block just below the   *)
(* limit is too wide for the carrier.                                      *)
DshAnswers(t, head, size) ==
    /\ At(t, "collect")
    /\ task' = [task EXCEPT ![t].pc = IF Encodes(head) THEN "start" ELSE "fail",
                            ![t].wide = (head = "wide"), ![t].size = size, ![t].left = size]
    /\ UNCHANGED <<gen, up, box, reg, sock, got, told, frames>>

SendStart(t) ==
    /\ At(t, "start")
    /\ Sends(t, [Msg(t, "start") EXCEPT !.wide = task[t].wide], "body")
    /\ UNCHANGED <<gen, up, reg, sock, got, told, frames>>

(* Mutant: the rest after the last whole chunk is forgotten. *)
ChunkWhole(left) == IF left < MaxChunk THEN 0 ELSE MaxChunk

(* chunk_body: whole chunks and a rest; an empty body has no chunk. *)
Chunk(left) == IF left < MaxChunk THEN left ELSE MaxChunk

SendBody(t) ==
    /\ At(t, "body")
    /\ Chunk(task[t].left) > 0
    /\ LET n == Chunk(task[t].left) IN
       IF Gone(t)
       THEN Goes(t, "done") /\ UNCHANGED box
       ELSE /\ Len(box) < OutCap
            /\ box' = Append(box, [Msg(t, "body") EXCEPT !.n = n])
            /\ task' = [task EXCEPT ![t].left = @ - n]
    /\ UNCHANGED <<gen, up, reg, sock, got, told, frames>>

SendEnd(t) ==
    /\ At(t, "body")
    /\ Chunk(task[t].left) = 0
    /\ Sends(t, Msg(t, "end"), "done")
    /\ UNCHANGED <<gen, up, reg, sock, got, told, frames>>

(* Mutant: a refused request is logged and nobody is told. *)
ReportFailureSilently(t) ==
    /\ At(t, "fail2") \/ At(t, "fail")
    /\ Goes(t, "done")
    /\ UNCHANGED <<gen, up, box, reg, sock, got, told, frames>>

(* report_failure. *)
ReportFailure(t) ==
    /\ At(t, "fail2") \/ At(t, "fail")
    /\ Sends(t, Msg(t, "failure"), IF At(t, "fail2") THEN "fail" ELSE "done")
    /\ UNCHANGED <<gen, up, reg, sock, got, told, frames>>

-----------------------------------------------------------------------------
(* open_websocket: refused, or DSH answers 101, ... *)
UpgradeRefused(t) ==
    /\ At(t, "upgrade")
    /\ Goes(t, "fail")
    /\ UNCHANGED <<gen, up, box, reg, sock, got, told, frames>>

Upgraded(t) ==
    /\ At(t, "upgrade")
    /\ Goes(t, "opened")
    /\ UNCHANGED <<gen, up, box, reg, sock, got, told, frames>>

(* ... the client is told, ... *)
SendOpened(t) ==
    /\ At(t, "opened")
    /\ Sends(t, Msg(t, "opened"), "insert")
    /\ UNCHANGED <<gen, up, reg, sock, got, told, frames>>

(* ... and only then is the connection registered and are its two tasks    *)
(* spawned.  An entry under the same id is replaced.                       *)
Insert(t) ==
    /\ At(t, "insert")
    /\ reg' = [reg EXCEPT ![task[t].id] = t]
    /\ sock' = [sock EXCEPT ![t].reader = "reading", ![t].writer = "running"]
    /\ Goes(t, "done")
    /\ UNCHANGED <<gen, up, box, got, told, frames>>

(* Mutant: the sender is taken out of the registry instead of cloned. *)
LookupTakes(t) ==
    /\ At(t, "lookup")
    /\ reg' = [reg EXCEPT ![task[t].id] = NoTask]
    /\ task' = [task EXCEPT ![t].pc = IF reg[task[t].id] = NoTask THEN "fail" ELSE "deliver",
                            ![t].ws = reg[task[t].id]]
    /\ UNCHANGED <<gen, up, box, sock, got, told, frames>>

(* WsData: the sender is cloned under the lock, ... *)
Lookup(t) ==
    /\ At(t, "lookup")
    /\ task' = [task EXCEPT ![t].pc = IF reg[task[t].id] = NoTask THEN "fail" ELSE "deliver",
                            ![t].ws = reg[task[t].id]]
    /\ UNCHANGED <<gen, up, box, reg, sock, got, told, frames>>

(* ... and the frame sent after it, when the queue has room.  A writer     *)
(* that has ended makes the task remove whatever the id now stands for.    *)
Deliver(t) ==
    /\ At(t, "deliver")
    /\ LET s == task[t].ws IN
       IF sock[s].writer = "done"
       THEN reg' = [reg EXCEPT ![task[t].id] = NoTask] /\ UNCHANGED sock
       ELSE /\ Len(sock[s].q) < WsCap
            /\ sock' = [sock EXCEPT ![s].q = Append(@, t)]
            /\ UNCHANGED reg
    /\ task' = [task EXCEPT ![t].pc = "done", ![t].ws = NoTask]
    /\ UNCHANGED <<gen, up, box, got, told, frames>>

(* WsClose empties the registry; a close is queued where there is room.    *)
CloseAll(t) ==
    /\ At(t, "closeAll")
    /\ sock' = [s \in Task |->
                  IF (\E i \in Id : reg[i] = s) /\ sock[s].writer = "running" /\ Len(sock[s].q) < WsCap
                  THEN [sock[s] EXCEPT !.q = Append(@, t)] ELSE sock[s]]
    /\ reg' = [i \in Id |-> NoTask]
    /\ Goes(t, "done")
    /\ UNCHANGED <<gen, up, box, got, told, frames>>

-----------------------------------------------------------------------------
(* The reader task: DSH's frames to the client.  A frame over the codec's  *)
(* limit ends it as DSH closing does.                                      *)
ReadFrame(s) ==
    /\ sock[s].reader = "reading" /\ sock[s].dsh = "open" /\ frames < MaxFrames
    /\ frames' = frames + 1
    /\ sock' = [sock EXCEPT ![s].reader = "sending"]
    /\ UNCHANGED <<gen, up, box, task, reg, got, told>>

ReadEnd(s) ==
    /\ sock[s].reader = "reading"
    /\ sock' = [sock EXCEPT ![s].reader = "removing"]
    /\ UNCHANGED <<gen, up, box, task, reg, got, told, frames>>

ReaderSends(s) ==
    /\ sock[s].reader = "sending"
    /\ \/ /\ ~Gone(s) /\ Len(box) < OutCap
          /\ box' = Append(box, Msg(s, "data"))
          /\ sock' = [sock EXCEPT ![s].reader = "reading"]
       \/ /\ Gone(s)
          /\ sock' = [sock EXCEPT ![s].reader = "removing"]
          /\ UNCHANGED box
    /\ UNCHANGED <<gen, up, task, reg, got, told, frames>>

(* SocketRegistry::remove takes the id out, whoever it stands for now.     *)
ReaderRemoves(s) ==
    /\ sock[s].reader = "removing"
    /\ reg' = [reg EXCEPT ![task[s].id] = NoTask]
    /\ sock' = [sock EXCEPT ![s].reader = "closing"]
    /\ UNCHANGED <<gen, up, box, task, got, told, frames>>

(* Mutant: the client is not told that the WebSocket ended. *)
ReaderClosesQuietly(s) ==
    /\ sock[s].reader = "closing"
    /\ sock' = [sock EXCEPT ![s].reader = "done"]
    /\ UNCHANGED <<gen, up, box, task, reg, got, told, frames>>

ReaderCloses(s) ==
    /\ sock[s].reader = "closing"
    /\ \/ ~Gone(s) /\ Len(box) < OutCap /\ box' = Append(box, Msg(s, "close"))
       \/ Gone(s) /\ UNCHANGED box
    /\ sock' = [sock EXCEPT ![s].reader = "done"]
    /\ UNCHANGED <<gen, up, task, reg, got, told, frames>>

(* The writer task: the client's frames to DSH, until a close or an error. *)
IsClose(t) == task[t].kind \in {"closeFrame", "closeAll"}

WriteFrame(s) ==
    /\ sock[s].writer = "running" /\ sock[s].q # <<>>
    /\ sock' = IF IsClose(Head(sock[s].q)) \/ sock[s].dsh = "closed"
               THEN [sock EXCEPT ![s].writer = "done", ![s].q = <<>>]
               ELSE [sock EXCEPT ![s].q = Tail(@)]
    /\ UNCHANGED <<gen, up, box, task, reg, got, told, frames>>

(* ... or until its last sender is dropped: out of the registry, and no    *)
(* task in between.                                                        *)
WriterEnds(s) ==
    /\ sock[s].writer = "running" /\ sock[s].q = <<>>
    /\ \A i \in Id : reg[i] # s
    /\ ~\E t \in Task : At(t, "deliver") /\ task[t].ws = s
    /\ sock' = [sock EXCEPT ![s].writer = "done"]
    /\ UNCHANGED <<gen, up, box, task, reg, got, told, frames>>

DshCloses(s) ==
    /\ sock[s].reader # "none" /\ sock[s].dsh = "open"
    /\ sock' = [sock EXCEPT ![s].dsh = "closed"]
    /\ UNCHANGED <<gen, up, box, task, reg, got, told, frames>>

-----------------------------------------------------------------------------
(* What DSH decides while a request is performed. *)
Dsh(t) == \/ DshHead(t) \/ DshFails(t)
          \/ \E size \in Body : DshAnswers(t, "fits", size)
          \/ \E head \in {"wide", "over"} : DshAnswers(t, head, 0)

Perform(t) == RefuseRequest(t) \/ Dsh(t) \/ UpgradeRefused(t) \/ Upgraded(t)

Answer(t) ==
    \/ SendStart(t) \/ SendBody(t) \/ SendEnd(t) \/ ReportFailure(t)
    \/ SendOpened(t) \/ Insert(t) \/ Lookup(t) \/ Deliver(t) \/ CloseAll(t)

Reader(s) == ReadEnd(s) \/ ReaderSends(s) \/ ReaderRemoves(s) \/ ReaderCloses(s)
Writer(s) == WriteFrame(s) \/ WriterEnds(s)

Next ==
    \/ Drain \/ CarrierBreaks \/ Redial
    \/ \E t \in Task, kind \in Kind, i \in Id : Arrive(t, kind, i)
    \/ \E t \in Task : Perform(t) \/ Answer(t) \/ Reader(t) \/ Writer(t) \/ ReadFrame(t) \/ DshCloses(t)

(* The runtime does not idle while a spawned task can go on, and the timer *)
(* of a request ends its wait for the head of an answer.  No timer covers  *)
(* the body, the upgrade of a WebSocket or a write to one DSH has not      *)
(* closed: DSH owes none of them.  Since the steps are finitely many this  *)
(* one weak fairness condition is as good as one for every task.           *)
Progress ==
    \E t \in Task :
       \/ At(t, "perform") /\ Perform(t)
       \/ Answer(t)
       \/ WriterEnds(t)
       \/ sock[t].dsh = "closed" /\ (Reader(t) \/ WriteFrame(t))

Spec == Init /\ [][Next]_vars /\ WF_vars(Progress)

-----------------------------------------------------------------------------
Sockets  == {t \in Task : sock[t].reader # "none"}

(* The p-th message m of the answer that carries a body of size bytes: the *)
(* head, whole chunks and a rest as long as bytes are left, and then the   *)
(* end, once.                                                              *)
Before(p) == (p - 2) * MaxChunk

AnswerAt(p, size, m) ==
    \/ p = 1 /\ m.type = "start"
    \/ /\ p > 1 /\ m.type = "body" /\ Before(p) < size
       /\ m.n = IF size - Before(p) < MaxChunk THEN size - Before(p) ELSE MaxChunk
    \/ /\ p > 1 /\ m.type = "end" /\ Before(p) >= size
       /\ p > 2 => Before(p - 1) < size

(* What a client receives for a request (perform, report_failure) is a     *)
(* head, chunks that the codec accepts and an end, in this order and never *)
(* mixed with failures; each chunk is as long as its place says, so when   *)
(* the end has arrived they add up to the body DSH sent.  A failure is     *)
(* told at most twice, with nothing else.                                  *)
AnswerWellFormed ==
    \A t \in Request :
      LET g == got[t] IN
      \/ Len(g) <= 2 /\ \A k \in 1 .. Len(g) : g[k].type = "failure"
      \/ \A k \in 1 .. Len(g) : AnswerAt(k, task[t].size, g[k])

(* No other message opened a WebSocket under the id of s. *)
OnlyOpener(s) == \A o \in Task : task[o].kind = "open" /\ task[o].id = task[s].id => o = s

(* A WebSocket both of whose tasks are at work can be written to: its id   *)
(* stands for it in the registry, whatever messages for its id overtook    *)
(* its registration or come from a later carrier - as long as nobody       *)
(* opened the id a second time and nobody closed.                          *)
WritableByOpener ==
    \A s \in Sockets :
      OnlyOpener(s) /\ (\A t \in Task : ~IsClose(t)) /\ sock[s].dsh = "open"
        /\ sock[s].reader \in {"reading", "sending"} /\ sock[s].writer = "running"
      => reg[task[s].id] = s

(* The carrier takes what the uplink writes to it, or breaks. *)
CarrierTakes == WF_vars(Drain)

(* A request is over for its client: a complete answer, a failure, or the  *)
(* loss of the carrier.                                                    *)
Ended(t) ==
    \/ got[t] # <<>> /\ got[t][Len(got[t])].type \in {"end", "failure"}
    \/ Gone(t)

(* Every request that reached a handler ends, and is over from then on,    *)
(* unless DSH stalls for ever in the body of its answer: REQUEST_TIMEOUT   *)
(* bounds the wait for the head only.                                      *)
RequestsEnd ==
    CarrierTakes =>
      \A t \in Request :
        []<>(~At(t, "collect")) => []<>(task[t].kind = "request" => Ended(t))

(* When DSH ends a WebSocket the client is told, or its carrier is gone,   *)
(* and both pump tasks end: again and again no WebSocket hangs.            *)
SocketsEnd ==
    CarrierTakes =>
      []<>(\A s \in WsMessage : sock[s].reader # "none" /\ sock[s].dsh = "closed" =>
             /\ sock[s].reader = "done" /\ sock[s].writer = "done"
             /\ s \in told \/ Gone(s))
=============================================================================
