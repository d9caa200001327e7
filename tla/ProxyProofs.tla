----------------------------- MODULE ProxyProofs -----------------------------
(***************************************************************************)
(* Proofs about Proxy, for every number of requests, WebSocket messages,   *)
(* ids, carriers and every capacity of the queues.                         *)
(***************************************************************************)
EXTENDS Proxy, TLAPS

Pc == {"idle", "perform", "collect", "fail", "fail2", "start", "body", "upgrade", "opened", "insert",
       "lookup", "deliver", "closeAll", "done"}

TaskRecord == [kind : Kind \cup {"none"}, id : Id, gen : Nat, pc : Pc, size : Nat, left : Nat,
               wide : BOOLEAN, ws : Task \cup {NoTask}]

Message == [type : {"start", "body", "end", "failure", "opened", "data", "close"},
            n : Nat, wide : BOOLEAN, of : Task]

SockRecord == [reader : {"none", "reading", "sending", "removing", "closing", "done"},
               writer : {"none", "running", "done"}, q : Seq(Task), dsh : {"open", "closed"}]

(* Every variable of the proxy holds a value of its type. *)
ProxyTypeOK ==
    /\ gen \in Nat /\ up \in BOOLEAN /\ frames \in Nat
    /\ box \in Seq(Message)
    /\ task \in [Task -> TaskRecord]
    /\ reg \in [Id -> Task \cup {NoTask}]
    /\ sock \in [Task -> SockRecord]
    /\ got \in [Request -> Seq(Message)]
    /\ told \subseteq Task

(* The place a task is at fits the message it handles. *)
Placed == \A t \in Task :
    /\ task[t].pc = "idle" <=> task[t].kind = "none"
    /\ task[t].pc \in {"upgrade", "opened", "insert"} => task[t].kind = "open"
    /\ task[t].pc \in {"lookup", "deliver"} => task[t].kind \in {"data", "closeFrame"}
    /\ task[t].pc = "closeAll" => task[t].kind = "closeAll"

(* A task pumps only for a WebSocket it opened. *)
Pumping == \A s \in Task :
    /\ sock[s].reader # "none" => task[s].kind = "open"
    /\ sock[s].writer # "none" => sock[s].reader # "none"

(* s is the WebSocket of an id, as far as anybody ever knew. *)
Stands(s, i) == s \in Task /\ sock[s].reader # "none" /\ task[s].id = i

(* What the registry and the tasks between lookup and send refer to. *)
Referred ==
    /\ \A i \in Id : reg[i] # NoTask => Stands(reg[i], i)
    /\ \A t \in Task : task[t].pc = "deliver" => Stands(task[t].ws, task[t].id)

(* Both tasks of a WebSocket are at work, and so is DSH: WritableByOpener, *)
(* said of every task.                                                     *)
Working(s) ==
    /\ sock[s].dsh = "open" /\ sock[s].reader \in {"reading", "sending"}
    /\ sock[s].writer = "running"

Reachable == \A s \in Task :
    OnlyOpener(s) /\ (\A t \in Task : ~IsClose(t)) /\ Working(s) => reg[task[s].id] = s

WsInv == ProxyTypeOK /\ Placed /\ Pumping /\ Referred /\ Reachable

-----------------------------------------------------------------------------
(* What the steps of a task do.                                            *)

Moves(t) ==
    /\ task' \in [Task -> TaskRecord]
    /\ \A q \in Task : q # t => task'[q] = task[q]
    /\ task'[t].kind = task[t].kind /\ task'[t].id = task[t].id /\ task'[t].gen = task[t].gen

Turns(t, from, to) == task[t].pc \in from /\ task'[t].pc \in to

LEMMA NoTaskIsNone == NoTask \notin Task
BY ProxyAssumption DEF NoTask, Task, Request, WsMessage

LEMMA Updated ==
  ASSUME ProxyTypeOK, NEW t \in Task, NEW r \in TaskRecord, task' = [task EXCEPT ![t] = r],
         r.kind = task[t].kind, r.id = task[t].id, r.gen = task[t].gen
  PROVE  Moves(t) /\ task'[t] = r
<1>1. task'[t] = r /\ task' \in [Task -> TaskRecord] /\ \A q \in Task : q # t => task'[q] = task[q]
  BY DEF ProxyTypeOK
<1>q. QED BY <1>1 DEF Moves

LEMMA GoesEffect ==
  ASSUME ProxyTypeOK, NEW t \in Task, NEW x \in Pc, Goes(t, x)
  PROVE  Moves(t) /\ task'[t].pc = x
<1> DEFINE r == [task[t] EXCEPT !.pc = x]
<1>1. task \in [Task -> TaskRecord] /\ task[t] \in TaskRecord
  BY DEF ProxyTypeOK
<1>2. task' = [task EXCEPT ![t] = r]
  BY DEF Goes
<1>3. /\ r \in TaskRecord /\ r.pc = x
      /\ r.kind = task[t].kind /\ r.id = task[t].id /\ r.gen = task[t].gen
  BY <1>1 DEF TaskRecord
<1> HIDE DEF r
<1>q. QED BY <1>2, <1>3, Updated

LEMMA PerformEffect ==
  ASSUME ProxyTypeOK, NEW t \in Task, Perform(t)
  PROVE  /\ Moves(t) /\ UNCHANGED <<gen, up, box, reg, sock, got, told, frames>>
         /\ \/ Turns(t, {"perform", "collect"}, {"collect", "fail", "fail2", "start"})
            \/ Turns(t, {"upgrade"}, {"fail", "opened"})
<1>1. CASE RefuseRequest(t)
  BY <1>1, GoesEffect DEF RefuseRequest, At, Turns, Pc
<1>2. CASE DshFails(t)
  BY <1>2, GoesEffect DEF DshFails, At, Turns, Pc
<1>3. CASE UpgradeRefused(t)
  BY <1>3, GoesEffect DEF UpgradeRefused, At, Turns, Pc
<1>4. CASE Upgraded(t)
  BY <1>4, GoesEffect DEF Upgraded, At, Turns, Pc
<1>5. ASSUME NEW head \in {"fits", "wide", "over"}, NEW size \in Nat, DshAnswers(t, head, size)
      PROVE  /\ Moves(t) /\ UNCHANGED <<gen, up, box, reg, sock, got, told, frames>>
             /\ Turns(t, {"perform", "collect"}, {"collect", "fail", "fail2", "start"})
  <2> DEFINE r == [task[t] EXCEPT !.pc = IF Encodes(head) THEN "start" ELSE "fail",
                                  !.wide = (head = "wide"), !.size = size, !.left = size]
  <2>0. task[t] \in TaskRecord
    BY DEF ProxyTypeOK
  <2>1. /\ r \in TaskRecord /\ r.pc \in {"fail", "start"}
        /\ r.kind = task[t].kind /\ r.id = task[t].id /\ r.gen = task[t].gen
    BY <2>0 DEF TaskRecord, Pc
  <2>2. /\ task' = [task EXCEPT ![t] = r] /\ task[t].pc = "collect"
        /\ UNCHANGED <<gen, up, box, reg, sock, got, told, frames>>
    BY <1>5 DEF DshAnswers, At
  <2> HIDE DEF r
  <2>q. QED BY <2>1, <2>2, Updated DEF Turns
<1>6. CASE DshHead(t)
  BY <1>6, GoesEffect DEF DshHead, At, Turns, Pc
<1>q. QED BY <1>1, <1>2, <1>3, <1>4, <1>5, <1>6, ProxyAssumption DEF Perform, Dsh

LEMMA SendsEffect ==
  ASSUME ProxyTypeOK, NEW t \in Task, NEW m \in Message, NEW x \in Pc, Sends(t, m, x)
  PROVE  /\ Moves(t) /\ task'[t].pc \in {x, "done"}
         /\ box' = box \/ (~Gone(t) /\ box' = Append(box, m))
BY GoesEffect DEF Sends, Pc

Sending(t) == SendStart(t) \/ SendBody(t) \/ SendEnd(t) \/ ReportFailure(t) \/ SendOpened(t)

LEMMA MsgType ==
  ASSUME NEW t \in Task, NEW y \in {"start", "body", "end", "failure", "opened", "data", "close"}
  PROVE  Msg(t, y) \in Message /\ Msg(t, y).of = t /\ Msg(t, y).type = y
BY DEF Msg, Message

LEMMA ChunkIs == ASSUME NEW l \in Nat PROVE Chunk(l) \in Nat /\ Chunk(l) <= l /\ l - Chunk(l) \in Nat
BY ProxyAssumption DEF Chunk

LEMMA SendingEffect ==
  ASSUME ProxyTypeOK, NEW t \in Task, Sending(t)
  PROVE  /\ Moves(t) /\ UNCHANGED <<gen, up, reg, sock, got, told, frames>>
         /\ \/ Turns(t, {"start", "body", "fail", "fail2"}, {"body", "fail", "done"})
            \/ Turns(t, {"opened"}, {"insert", "done"})
         /\ \/ box' = box
            \/ /\ ~Gone(t)
               /\ \E m \in Message : /\ box' = Append(box, m) /\ m.of = t
                                     /\ m.type = "opened" => task[t].pc = "opened"
<1>1. CASE SendStart(t)
  <2> DEFINE m == [Msg(t, "start") EXCEPT !.wide = task[t].wide]
  <2>1. m \in Message /\ m.of = t /\ m.type = "start"
    BY DEF Msg, Message, ProxyTypeOK, TaskRecord
  <2>2. Sends(t, m, "body") /\ task[t].pc = "start"
        /\ UNCHANGED <<gen, up, reg, sock, got, told, frames>>
    BY <1>1 DEF SendStart, At
  <2> HIDE DEF m
  <2>q. QED BY <2>1, <2>2, SendsEffect DEF Turns, Pc
<1>2. CASE SendBody(t)
  <2> DEFINE n == Chunk(task[t].left)  m == [Msg(t, "body") EXCEPT !.n = n]
  <2>0. n \in Nat /\ task[t].left - n \in Nat
    BY ChunkIs DEF ProxyTypeOK, TaskRecord
  <2>1. m \in Message /\ m.of = t /\ m.type = "body"
    BY <2>0 DEF Msg, Message
  <2>2. /\ UNCHANGED <<gen, up, reg, sock, got, told, frames>> /\ task[t].pc = "body"
        /\ \/ Goes(t, "done") /\ box' = box
           \/ ~Gone(t) /\ box' = Append(box, m) /\ task' = [task EXCEPT ![t].left = task[t].left - n]
    BY <1>2 DEF SendBody, At
  <2> HIDE DEF m, n
  <2>3. CASE Goes(t, "done") /\ box' = box
    BY <2>2, <2>3, GoesEffect DEF Turns, Pc
  <2>4. CASE ~Gone(t) /\ box' = Append(box, m) /\ task' = [task EXCEPT ![t].left = task[t].left - n]
    <3>1. Moves(t) /\ task'[t].pc = "body"
      <4> DEFINE r == [task[t] EXCEPT !.left = task[t].left - n]
      <4>0. task[t] \in TaskRecord
        BY DEF ProxyTypeOK
      <4>1. /\ r \in TaskRecord /\ r.pc = task[t].pc
            /\ r.kind = task[t].kind /\ r.id = task[t].id /\ r.gen = task[t].gen
        BY <2>0, <4>0 DEF TaskRecord
      <4>2. task' = [task EXCEPT ![t] = r]
        BY <2>4
      <4> HIDE DEF r
      <4>q. QED BY <2>2, <4>1, <4>2, Updated
    <3>q. QED BY <2>1, <2>2, <2>4, <3>1 DEF Turns
  <2>q. QED BY <2>2, <2>3, <2>4
<1>3. CASE SendEnd(t)
  BY <1>3, MsgType, SendsEffect DEF SendEnd, At, Turns, Pc
<1>4. CASE ReportFailure(t)
  <2>1. PICK x \in {"fail", "done"} : Sends(t, Msg(t, "failure"), x)
    BY <1>4 DEF ReportFailure
  <2>q. QED BY <1>4, <2>1, MsgType, SendsEffect DEF ReportFailure, At, Turns, Pc
<1>5. CASE SendOpened(t)
  BY <1>5, MsgType, SendsEffect DEF SendOpened, At, Turns, Pc
<1>q. QED BY <1>1, <1>2, <1>3, <1>4, <1>5 DEF Sending

LEMMA InsertEffect ==
  ASSUME ProxyTypeOK, NEW t \in Task, Insert(t)
  PROVE  /\ Moves(t) /\ UNCHANGED <<gen, up, box, got, told, frames>>
         /\ Turns(t, {"insert"}, {"done"})
         /\ reg' = [reg EXCEPT ![task[t].id] = t]
         /\ sock' = [sock EXCEPT ![t].reader = "reading", ![t].writer = "running"]
BY GoesEffect DEF Insert, At, Turns, Pc

LEMMA LookupEffect ==
  ASSUME ProxyTypeOK, NEW t \in Task, Lookup(t)
  PROVE  /\ Moves(t) /\ UNCHANGED <<gen, up, box, reg, sock, got, told, frames>>
         /\ Turns(t, {"lookup"}, {"fail", "deliver"})
         /\ task'[t].ws = reg[task[t].id]
         /\ task'[t].pc = "deliver" => reg[task[t].id] # NoTask
<1>1. task[t].id \in Id /\ reg[task[t].id] \in Task \cup {NoTask}
  BY DEF ProxyTypeOK, TaskRecord
<1> DEFINE r == [task[t] EXCEPT !.pc = IF reg[task[t].id] = NoTask THEN "fail" ELSE "deliver",
                                !.ws = reg[task[t].id]]
<1>2. task[t] \in TaskRecord
  BY DEF ProxyTypeOK
<1>3. /\ r \in TaskRecord /\ r.pc \in {"fail", "deliver"} /\ r.ws = reg[task[t].id]
      /\ r.pc = "deliver" => reg[task[t].id] # NoTask
      /\ r.kind = task[t].kind /\ r.id = task[t].id /\ r.gen = task[t].gen
  BY <1>1, <1>2 DEF TaskRecord, Pc
<1>4. /\ task' = [task EXCEPT ![t] = r] /\ task[t].pc = "lookup"
      /\ UNCHANGED <<gen, up, box, reg, sock, got, told, frames>>
  BY DEF Lookup, At
<1> HIDE DEF r
<1>q. QED BY <1>3, <1>4, Updated DEF Turns

LEMMA DeliverEffect ==
  ASSUME ProxyTypeOK, NEW t \in Task, Deliver(t)
  PROVE  /\ Moves(t) /\ UNCHANGED <<gen, up, box, got, told, frames>>
         /\ Turns(t, {"deliver"}, {"done"})
         /\ LET s == task[t].ws IN
            \/ /\ sock[s].writer = "done" /\ sock' = sock
               /\ reg' = [reg EXCEPT ![task[t].id] = NoTask]
            \/ /\ reg' = reg
               /\ sock' = [sock EXCEPT ![s].q = Append(@, t)]
<1>1. Moves(t) /\ Turns(t, {"deliver"}, {"done"})
  <2> DEFINE r == [task[t] EXCEPT !.pc = "done", !.ws = NoTask]
  <2>1. task[t] \in TaskRecord
    BY DEF ProxyTypeOK
  <2>2. /\ r \in TaskRecord /\ r.pc = "done"
        /\ r.kind = task[t].kind /\ r.id = task[t].id /\ r.gen = task[t].gen
    BY <2>1 DEF TaskRecord, Pc
  <2>3. task' = [task EXCEPT ![t] = r] /\ task[t].pc = "deliver"
    BY DEF Deliver, At
  <2> HIDE DEF r
  <2>q. QED BY <2>2, <2>3, Updated DEF Turns
<1>q. QED BY <1>1 DEF Deliver

LEMMA QueuedType ==
  ASSUME NEW r \in SockRecord, NEW t \in Task
  PROVE  [r EXCEPT !.q = Append(@, t)] \in SockRecord
<1>1. Append(r.q, t) \in Seq(Task)
  BY DEF SockRecord
<1>2. [r EXCEPT !.q = Append(r.q, t)] \in SockRecord
  BY <1>1 DEF SockRecord
<1>q. QED BY <1>2

LEMMA CloseAllEffect ==
  ASSUME ProxyTypeOK, NEW t \in Task, CloseAll(t)
  PROVE  /\ Moves(t) /\ UNCHANGED <<gen, up, box, got, told, frames>>
         /\ Turns(t, {"closeAll"}, {"done"})
         /\ reg' = [i \in Id |-> NoTask]
         /\ sock' \in [Task -> SockRecord]
         /\ \A s \in Task : \/ sock'[s] = sock[s]
                            \/ /\ \E i \in Id : reg[i] = s
                               /\ sock'[s] = [sock[s] EXCEPT !.q = Append(@, t)]
<1>1. Moves(t) /\ Turns(t, {"closeAll"}, {"done"})
  BY GoesEffect DEF CloseAll, At, Turns, Pc
<1>2. ASSUME NEW s \in Task PROVE [sock[s] EXCEPT !.q = Append(@, t)] \in SockRecord
  <2>1. sock[s] \in SockRecord
    BY DEF ProxyTypeOK
  <2>q. QED BY <2>1, QueuedType
<1>3. sock' \in [Task -> SockRecord]
  BY <1>2 DEF CloseAll, ProxyTypeOK
<1>q. QED BY <1>1, <1>3 DEF CloseAll

LEMMA ArriveEffect ==
  ASSUME ProxyTypeOK, NEW t \in Task, NEW kind \in Kind, NEW i \in Id, Arrive(t, kind, i)
  PROVE  /\ UNCHANGED <<gen, up, box, reg, sock, got, told, frames>>
         /\ task' \in [Task -> TaskRecord] /\ \A q \in Task : q # t => task'[q] = task[q]
         /\ task[t].pc = "idle" /\ task'[t].pc = FirstPc(kind)
         /\ task'[t].kind = kind /\ task'[t].id = i /\ task'[t].gen = gen
<1> DEFINE r == [task[t] EXCEPT !.kind = kind, !.id = i, !.gen = gen, !.pc = FirstPc(kind)]
<1>1. FirstPc(kind) \in Pc
  BY DEF FirstPc, Kind, Pc
<1>2. task[t] \in TaskRecord /\ gen \in Nat
  BY DEF ProxyTypeOK
<1>3. r \in TaskRecord /\ r.pc = FirstPc(kind) /\ r.kind = kind /\ r.id = i /\ r.gen = gen
  BY <1>1, <1>2 DEF TaskRecord
<1>4. task' = [task EXCEPT ![t] = r]
  BY DEF Arrive
<1> HIDE DEF r
<1>5. task' \in [Task -> TaskRecord] /\ task'[t] = r /\ \A q \in Task : q # t => task'[q] = task[q]
  BY <1>3, <1>4 DEF ProxyTypeOK
<1>q. QED BY <1>3, <1>5 DEF Arrive, At

-----------------------------------------------------------------------------
(* What the steps of a WebSocket's two tasks do.                           *)

SockMoves(s) ==
    /\ sock' \in [Task -> SockRecord]
    /\ \A q \in Task : q # s => sock'[q] = sock[q]

LEMMA SockUpdated ==
  ASSUME ProxyTypeOK, NEW s \in Task, NEW r \in SockRecord, sock' = [sock EXCEPT ![s] = r]
  PROVE  SockMoves(s) /\ sock'[s] = r
BY DEF ProxyTypeOK, SockMoves

LEMMA ReaderTo ==
  ASSUME ProxyTypeOK, NEW s \in Task, sock[s].reader # "none",
         NEW x \in {"reading", "sending", "removing", "closing", "done"},
         sock' = [sock EXCEPT ![s].reader = x]
  PROVE  /\ SockMoves(s) /\ sock'[s].reader = x
         /\ sock'[s].writer = sock[s].writer /\ sock'[s].q = sock[s].q /\ sock'[s].dsh = sock[s].dsh
<1> DEFINE r == [sock[s] EXCEPT !.reader = x]
<1>1. sock[s] \in SockRecord
  BY DEF ProxyTypeOK
<1>2. /\ r \in SockRecord /\ r.reader = x
      /\ r.writer = sock[s].writer /\ r.q = sock[s].q /\ r.dsh = sock[s].dsh
  BY <1>1 DEF SockRecord
<1>3. sock' = [sock EXCEPT ![s] = r]
  OBVIOUS
<1> HIDE DEF r
<1>q. QED BY <1>2, <1>3, SockUpdated

Pumps(s) == ReadFrame(s) \/ Reader(s)

LEMMA ReaderEffect ==
  ASSUME ProxyTypeOK, NEW s \in Task, Pumps(s)
  PROVE  /\ UNCHANGED <<gen, up, task, got, told>> /\ frames' \in Nat
         /\ SockMoves(s) /\ sock[s].reader # "none" /\ sock'[s].reader # "none"
         /\ sock'[s].writer = sock[s].writer /\ sock'[s].q = sock[s].q
         /\ sock'[s].dsh = sock[s].dsh
         /\ sock'[s].reader \in {"reading", "sending"} => sock[s].reader \in {"reading", "sending"}
         /\ \/ reg' = reg
            \/ sock'[s].reader = "closing" /\ reg' = [reg EXCEPT ![task[s].id] = NoTask]
         /\ \/ box' = box
            \/ ~Gone(s) /\ \E m \in Message : box' = Append(box, m) /\ m.of = s /\ m.type # "opened"
<1>0. frames \in Nat
  BY DEF ProxyTypeOK
<1>1. CASE ReadFrame(s)
  <2>1. sock[s].reader # "none" /\ sock' = [sock EXCEPT ![s].reader = "sending"]
    BY <1>1 DEF ReadFrame
  <2>2. frames' \in Nat /\ UNCHANGED <<gen, up, box, task, reg, got, told>>
        /\ sock[s].reader = "reading"
    BY <1>0, <1>1 DEF ReadFrame
  <2>q. QED BY <2>1, <2>2, ReaderTo
<1>2. CASE ReadEnd(s)
  <2>1. sock[s].reader # "none" /\ sock' = [sock EXCEPT ![s].reader = "removing"]
    BY <1>2 DEF ReadEnd
  <2>q. QED BY <1>0, <1>2, <2>1, ReaderTo DEF ReadEnd
<1>3. CASE ReaderSends(s)
  <2>1. /\ sock[s].reader = "sending"
        /\ UNCHANGED <<gen, up, task, reg, got, told, frames>>
        /\ \/ ~Gone(s) /\ box' = Append(box, Msg(s, "data")) /\ sock' = [sock EXCEPT ![s].reader = "reading"]
           \/ sock' = [sock EXCEPT ![s].reader = "removing"] /\ box' = box
    BY <1>3 DEF ReaderSends
  <2>q. QED BY <1>0, <2>1, ReaderTo, MsgType
<1>4. CASE ReaderRemoves(s)
  <2>1. sock[s].reader # "none" /\ sock' = [sock EXCEPT ![s].reader = "closing"]
    BY <1>4 DEF ReaderRemoves
  <2>q. QED BY <1>0, <1>4, <2>1, ReaderTo DEF ReaderRemoves
<1>5. CASE ReaderCloses(s)
  <2>1. /\ sock[s].reader = "closing"
        /\ UNCHANGED <<gen, up, task, reg, got, told, frames>>
        /\ sock' = [sock EXCEPT ![s].reader = "done"]
        /\ box' = box \/ (~Gone(s) /\ box' = Append(box, Msg(s, "close")))
    BY <1>5 DEF ReaderCloses
  <2>q. QED BY <1>0, <2>1, ReaderTo, MsgType
<1>q. QED BY <1>1, <1>2, <1>3, <1>4, <1>5 DEF Pumps, Reader

LEMMA WriterEffect ==
  ASSUME ProxyTypeOK, NEW s \in Task, Writer(s) \/ DshCloses(s)
  PROVE  /\ UNCHANGED <<gen, up, box, task, reg, got, told, frames>>
         /\ SockMoves(s) /\ sock'[s].reader = sock[s].reader
         /\ sock[s].writer # "none" \/ sock[s].reader # "none"
         /\ sock'[s].writer \in {sock[s].writer, "done"}
         /\ sock'[s].writer = "done" => sock[s].writer # "none"
         /\ sock'[s].dsh \in {sock[s].dsh, "closed"}
         /\ sock'[s].q \in {<<>>, sock[s].q} \/ (sock[s].q # <<>> /\ sock'[s].q = Tail(sock[s].q))
<1>0. sock[s] \in SockRecord /\ sock[s].q \in Seq(Task)
  BY DEF ProxyTypeOK, SockRecord
<1>1. CASE WriteFrame(s)
  <2>0. /\ sock[s].writer = "running" /\ sock[s].q # <<>>
        /\ UNCHANGED <<gen, up, box, task, reg, got, told, frames>>
        /\ \/ sock' = [sock EXCEPT ![s].writer = "done", ![s].q = <<>>]
           \/ sock' = [sock EXCEPT ![s].q = Tail(@)]
    BY <1>1 DEF WriteFrame
  <2>1. CASE sock' = [sock EXCEPT ![s].writer = "done", ![s].q = <<>>]
    <3> DEFINE r == [sock[s] EXCEPT !.writer = "done", !.q = <<>>]
    <3>0. <<>> \in Seq(Task)
      OBVIOUS
    <3>1. /\ r \in SockRecord /\ r.writer = "done" /\ r.q = <<>>
          /\ r.reader = sock[s].reader /\ r.dsh = sock[s].dsh
      BY <1>0, <3>0 DEF SockRecord
    <3>2. sock' = [sock EXCEPT ![s] = r]
      BY <2>1
    <3> HIDE DEF r
    <3>q. QED BY <2>0, <3>1, <3>2, SockUpdated
  <2>2. CASE sock' = [sock EXCEPT ![s].q = Tail(@)]
    <3> DEFINE r == [sock[s] EXCEPT !.q = Tail(sock[s].q)]
    <3>0. Tail(sock[s].q) \in Seq(Task)
      BY <1>0, <2>0
    <3>1. /\ r \in SockRecord /\ r.writer = sock[s].writer /\ r.q = Tail(sock[s].q)
          /\ r.reader = sock[s].reader /\ r.dsh = sock[s].dsh
      BY <1>0, <3>0 DEF SockRecord
    <3>2. sock' = [sock EXCEPT ![s] = r]
      BY <2>2
    <3> HIDE DEF r
    <3>q. QED BY <2>0, <3>1, <3>2, SockUpdated
  <2>q. QED BY <2>0, <2>1, <2>2
<1>2. CASE WriterEnds(s)
  <2> DEFINE r == [sock[s] EXCEPT !.writer = "done"]
  <2>1. /\ r \in SockRecord /\ r.writer = "done" /\ r.q = sock[s].q
        /\ r.reader = sock[s].reader /\ r.dsh = sock[s].dsh
    BY <1>0 DEF SockRecord
  <2>2. /\ sock' = [sock EXCEPT ![s] = r] /\ sock[s].writer = "running"
        /\ UNCHANGED <<gen, up, box, task, reg, got, told, frames>>
    BY <1>2 DEF WriterEnds
  <2> HIDE DEF r
  <2>q. QED BY <2>1, <2>2, SockUpdated
<1>3. CASE DshCloses(s)
  <2> DEFINE r == [sock[s] EXCEPT !.dsh = "closed"]
  <2>1. /\ r \in SockRecord /\ r.writer = sock[s].writer /\ r.q = sock[s].q
        /\ r.reader = sock[s].reader /\ r.dsh = "closed"
    BY <1>0 DEF SockRecord
  <2>2. /\ sock' = [sock EXCEPT ![s] = r] /\ sock[s].reader # "none"
        /\ UNCHANGED <<gen, up, box, task, reg, got, told, frames>>
    BY <1>3 DEF DshCloses
  <2> HIDE DEF r
  <2>q. QED BY <2>1, <2>2, SockUpdated
<1>q. QED BY <1>1, <1>2, <1>3 DEF Writer

-----------------------------------------------------------------------------
(* The steps by what they touch.                                           *)

LEMMA ProxyStep ==
  ASSUME [Next]_vars
  PROVE  \/ Drain \/ CarrierBreaks \/ Redial \/ UNCHANGED vars
         \/ \E t \in Task, kind \in Kind, i \in Id : Arrive(t, kind, i)
         \/ \E t \in Task : \/ Perform(t) \/ Sending(t) \/ Insert(t) \/ Lookup(t) \/ Deliver(t)
                            \/ CloseAll(t) \/ Pumps(t) \/ Writer(t) \/ DshCloses(t)
BY DEF Next, Answer, Sending, Pumps

LEMMA DrainEffect ==
  ASSUME ProxyTypeOK, Drain
  PROVE  /\ UNCHANGED <<gen, task, reg, sock, frames>>
         /\ got' \in [Request -> Seq(Message)] /\ told' \subseteq Task
         /\ up /\ up' \in BOOLEAN /\ box # <<>>
         /\ (~up' /\ box' = <<>>) \/ (up' /\ box' = Tail(box))
<1>1. up /\ box # <<>> /\ UNCHANGED <<gen, task, reg, sock, frames>>
  BY DEF Drain
<1> DEFINE m == Head(box)
<1>2. m \in Message /\ m.of \in Task
  <2>1. box \in Seq(Message)
    BY DEF ProxyTypeOK
  <2>2. m \in Message
    BY <1>1, <2>1
  <2>q. QED BY <2>2 DEF Message
<1>3. CASE m.wide
  <2>1. up' = FALSE /\ box' = <<>> /\ got' = got /\ told' = told
    BY <1>3 DEF Drain, Breaks
  <2>q. QED BY <1>1, <2>1 DEF ProxyTypeOK
<1>4. CASE ~m.wide
  <2>1. /\ box' = Tail(box) /\ up' = up
        /\ got' = [t \in Request |-> IF t = m.of THEN Append(got[t], m) ELSE got[t]]
        /\ told' = IF m.type = "close" THEN told \cup {m.of} ELSE told
    BY <1>4 DEF Drain
  <2> HIDE DEF m
  <2>2. got' \in [Request -> Seq(Message)]
    BY <1>2, <2>1 DEF ProxyTypeOK
  <2>3. told' \subseteq Task
    BY <1>2, <2>1 DEF ProxyTypeOK
  <2>q. QED BY <1>1, <1>2, <2>1, <2>2, <2>3 DEF ProxyTypeOK, m
<1>q. QED BY <1>3, <1>4

LEMMA BreakEffect ==
  ASSUME ProxyTypeOK, CarrierBreaks
  PROVE  /\ UNCHANGED <<gen, task, reg, sock, got, told, frames>>
         /\ up' = FALSE /\ box' = <<>>
BY DEF CarrierBreaks, Breaks

LEMMA RedialEffect ==
  ASSUME ProxyTypeOK, Redial
  PROVE  /\ UNCHANGED <<box, task, reg, sock, got, told, frames>>
         /\ ~up /\ up' = TRUE /\ gen' = gen + 1
BY DEF Redial

LEMMA AppendedType == ASSUME NEW m \in Message, NEW b \in Seq(Message) PROVE Append(b, m) \in Seq(Message)
OBVIOUS

(* A queue that gets a frame: nothing else of the WebSocket changes. *)
LEMMA QueuedIs ==
  ASSUME NEW r \in SockRecord, NEW t \in Task
  PROVE  LET n == [r EXCEPT !.q = Append(@, t)]
         IN  n.reader = r.reader /\ n.writer = r.writer /\ n.dsh = r.dsh /\ n.q = Append(r.q, t)
BY DEF SockRecord

LEMMA QueueEffect ==
  ASSUME ProxyTypeOK, Referred, NEW t \in Task, Deliver(t) \/ CloseAll(t)
  PROVE  /\ sock' \in [Task -> SockRecord]
         /\ \A x \in Task :
              /\ sock'[x].reader = sock[x].reader /\ sock'[x].writer = sock[x].writer
              /\ sock'[x].dsh = sock[x].dsh
              /\ \/ sock'[x].q = sock[x].q
                 \/ sock'[x].q = Append(sock[x].q, t) /\ sock[x].reader # "none"
<1>0. \A x \in Task : sock[x] \in SockRecord
  BY DEF ProxyTypeOK
<1>1. CASE CloseAll(t)
  <2>1. sock' \in [Task -> SockRecord]
    BY <1>1, CloseAllEffect
  <2>2. ASSUME NEW x \in Task
        PROVE  /\ sock'[x].reader = sock[x].reader /\ sock'[x].writer = sock[x].writer
               /\ sock'[x].dsh = sock[x].dsh
               /\ \/ sock'[x].q = sock[x].q
                  \/ sock'[x].q = Append(sock[x].q, t) /\ sock[x].reader # "none"
    <3>1. CASE sock'[x] = sock[x]
      BY <3>1
    <3>2. CASE /\ \E i \in Id : reg[i] = x
               /\ sock'[x] = [sock[x] EXCEPT !.q = Append(@, t)]
      <4>1. sock[x].reader # "none"
        BY <3>2, NoTaskIsNone DEF Referred, Stands
      <4>q. QED BY <1>0, <3>2, <4>1, QueuedIs
    <3>q. QED BY <1>1, <3>1, <3>2, CloseAllEffect
  <2>q. QED BY <1>1, <2>1, <2>2
<1>2. CASE Deliver(t)
  <2>1. Stands(task[t].ws, task[t].id)
    BY <1>2, DeliverEffect DEF Referred, Turns
  <2>2. CASE sock' = sock
    BY <2>2 DEF ProxyTypeOK
  <2>3. CASE sock' = [sock EXCEPT ![task[t].ws].q = Append(@, t)]
    <3> DEFINE w == task[t].ws  r == [sock[w] EXCEPT !.q = Append(@, t)]
    <3>1. w \in Task /\ sock[w].reader # "none" /\ task[w].id = task[t].id
      BY <2>1 DEF Stands
    <3>2. r \in SockRecord /\ sock' = [sock EXCEPT ![w] = r]
      BY <1>0, <2>3, <3>1, QueuedType
    <3>3. /\ r.reader = sock[w].reader /\ r.writer = sock[w].writer /\ r.dsh = sock[w].dsh
          /\ r.q = Append(sock[w].q, t)
      BY <1>0, <3>1, QueuedIs
    <3> HIDE DEF r, w
    <3>4. SockMoves(w) /\ sock'[w] = r
      BY <3>1, <3>2, SockUpdated
    <3>q. QED BY <3>1, <3>3, <3>4 DEF SockMoves
  <2>q. QED BY <1>2, <2>2, <2>3, DeliverEffect
<1>q. QED BY <1>1, <1>2

LEMMA InsertedSock ==
  ASSUME ProxyTypeOK, NEW t \in Task, Insert(t)
  PROVE  /\ SockMoves(t) /\ sock'[t].reader = "reading" /\ sock'[t].writer = "running"
         /\ sock'[t].q = sock[t].q
<1> DEFINE r == [sock[t] EXCEPT !.reader = "reading", !.writer = "running"]
<1>1. sock[t] \in SockRecord
  BY DEF ProxyTypeOK
<1>2. r \in SockRecord /\ r.reader = "reading" /\ r.writer = "running" /\ r.q = sock[t].q
  BY <1>1 DEF SockRecord
<1>s. sock' = [sock EXCEPT ![t].reader = "reading", ![t].writer = "running"]
  BY InsertEffect
<1>3. sock' = [sock EXCEPT ![t] = r]
  BY <1>s
<1> HIDE DEF r
<1>q. QED BY <1>2, <1>3, SockUpdated

-----------------------------------------------------------------------------
(* The invariant, conjunct by conjunct.                                    *)

LEMMA ProxyTypeStep == ASSUME ProxyTypeOK, Referred, [Next]_vars PROVE ProxyTypeOK'
<1>0. /\ gen \in Nat /\ up \in BOOLEAN /\ frames \in Nat /\ box \in Seq(Message)
      /\ task \in [Task -> TaskRecord] /\ reg \in [Id -> Task \cup {NoTask}]
      /\ sock \in [Task -> SockRecord] /\ got \in [Request -> Seq(Message)]
      /\ told \subseteq Task
  BY DEF ProxyTypeOK
<1>a. \A m \in Message : Append(box, m) \in Seq(Message)
  BY <1>0, AppendedType
<1>r. ASSUME NEW i, NEW x \in Task \cup {NoTask} PROVE [reg EXCEPT ![i] = x] \in [Id -> Task \cup {NoTask}]
  BY <1>0
<1>1. CASE Drain
  <2>1. box' \in Seq(Message)
    <3>1. box # <<>> /\ (box' = <<>> \/ box' = Tail(box))
      BY <1>1, DrainEffect
    <3>2. box \in Seq(Message)
      BY <1>0
    <3>3. <<>> \in Seq(Message) /\ Tail(box) \in Seq(Message)
      BY <3>1, <3>2
    <3>q. QED BY <3>1, <3>3
  <2>q. QED BY <1>0, <1>1, <2>1, DrainEffect DEF ProxyTypeOK
<1>2. CASE CarrierBreaks \/ Redial
  <2>1. <<>> \in Seq(Message)
    OBVIOUS
  <2>2. CASE CarrierBreaks
    BY <1>0, <2>1, <2>2, BreakEffect DEF ProxyTypeOK
  <2>3. CASE Redial
    <3>1. /\ UNCHANGED <<box, task, reg, sock, got, told, frames>>
          /\ up' = TRUE /\ gen' = gen + 1
      BY <2>3, RedialEffect
    <3>2. gen' \in Nat
      BY <1>0, <3>1
    <3>q. QED BY <1>0, <3>1, <3>2 DEF ProxyTypeOK
  <2>q. QED BY <1>2, <2>2, <2>3
<1>3. CASE UNCHANGED vars
  BY <1>0, <1>3 DEF vars, ProxyTypeOK
<1>4. ASSUME NEW t \in Task, NEW kind \in Kind, NEW i \in Id, Arrive(t, kind, i) PROVE ProxyTypeOK'
  BY <1>0, <1>4, ArriveEffect DEF ProxyTypeOK
<1>5. ASSUME NEW t \in Task, Perform(t) \/ Lookup(t) PROVE ProxyTypeOK'
  BY <1>0, <1>5, PerformEffect, LookupEffect DEF ProxyTypeOK, Moves
<1>6. ASSUME NEW t \in Task, Sending(t) PROVE ProxyTypeOK'
  BY <1>0, <1>a, <1>6, SendingEffect DEF ProxyTypeOK, Moves
<1>7. ASSUME NEW t \in Task, Insert(t) PROVE ProxyTypeOK'
  <2>1. reg' \in [Id -> Task \cup {NoTask}]
    <3>1. reg' = [reg EXCEPT ![task[t].id] = t]
      BY <1>7, InsertEffect
    <3>q. QED BY <1>r, <3>1
  <2>2. sock' \in [Task -> SockRecord]
    BY <1>7, InsertedSock DEF SockMoves
  <2>3. Moves(t) /\ UNCHANGED <<gen, up, box, got, told, frames>>
    BY <1>7, InsertEffect
  <2>q. QED BY <1>0, <2>1, <2>2, <2>3 DEF ProxyTypeOK, Moves
<1>8. ASSUME NEW t \in Task, Deliver(t) \/ CloseAll(t) PROVE ProxyTypeOK'
  <2>1. reg' \in [Id -> Task \cup {NoTask}]
    <3>1. CASE Deliver(t)
      BY <1>0, <1>r, <3>1, DeliverEffect
    <3>2. CASE CloseAll(t)
      BY <3>2, CloseAllEffect
    <3>q. QED BY <1>8, <3>1, <3>2
  <2>2. sock' \in [Task -> SockRecord]
    BY <1>8, QueueEffect
  <2>q. QED BY <1>0, <1>8, <2>1, <2>2, DeliverEffect, CloseAllEffect DEF ProxyTypeOK, Moves
<1>9. ASSUME NEW t \in Task, Pumps(t) PROVE ProxyTypeOK'
  <2>1. reg' \in [Id -> Task \cup {NoTask}]
    <3>1. reg' = reg \/ reg' = [reg EXCEPT ![task[t].id] = NoTask]
      BY <1>9, ReaderEffect
    <3>q. QED BY <1>0, <1>r, <3>1
  <2>2. box' \in Seq(Message)
    <3>1. box' = box \/ \E m \in Message : box' = Append(box, m)
      BY <1>9, ReaderEffect
    <3>q. QED BY <1>0, <1>a, <3>1
  <2>q. QED BY <1>0, <1>9, <2>1, <2>2, ReaderEffect DEF ProxyTypeOK, SockMoves
<1>10. ASSUME NEW t \in Task, Writer(t) \/ DshCloses(t) PROVE ProxyTypeOK'
  BY <1>0, <1>10, WriterEffect DEF ProxyTypeOK, SockMoves
<1>q. QED BY <1>1, <1>2, <1>3, <1>4, <1>5, <1>6, <1>7, <1>8, <1>9, <1>10, ProxyStep

(* The message a task handles, and that a WebSocket was opened, stay. *)
Kept == \A q \in Task :
    /\ task[q].kind # "none" => /\ task'[q].kind = task[q].kind /\ task'[q].id = task[q].id
                                /\ task'[q].gen = task[q].gen
    /\ sock[q].reader # "none" => sock'[q].reader # "none"

LEMMA IsKept == ASSUME ProxyTypeOK, Placed, Referred, [Next]_vars PROVE Kept
<1>1. CASE Drain \/ CarrierBreaks \/ Redial \/ UNCHANGED vars
  BY <1>1, DrainEffect, BreakEffect, RedialEffect DEF vars, Kept
<1>2. ASSUME NEW t \in Task, NEW kind \in Kind, NEW i \in Id, Arrive(t, kind, i) PROVE Kept
  <2>1. task[t].kind = "none"
    BY <1>2, ArriveEffect DEF Placed
  <2>q. QED BY <1>2, <2>1, ArriveEffect DEF Kept
<1>3. ASSUME NEW t \in Task, Perform(t) \/ Lookup(t) \/ Sending(t) PROVE Kept
  BY <1>3, PerformEffect, LookupEffect, SendingEffect DEF Kept, Moves
<1>4. ASSUME NEW t \in Task, Insert(t) PROVE Kept
  BY <1>4, InsertEffect, InsertedSock DEF Kept, Moves, SockMoves
<1>5. ASSUME NEW t \in Task, Deliver(t) \/ CloseAll(t) PROVE Kept
  BY <1>5, DeliverEffect, CloseAllEffect, QueueEffect DEF Kept, Moves
<1>6. ASSUME NEW t \in Task, Pumps(t) PROVE Kept
  BY <1>6, ReaderEffect DEF Kept, SockMoves
<1>7. ASSUME NEW t \in Task, Writer(t) \/ DshCloses(t) PROVE Kept
  BY <1>7, WriterEffect DEF Kept, SockMoves
<1>q. QED BY <1>1, <1>2, <1>3, <1>4, <1>5, <1>6, <1>7, ProxyStep

LEMMA PlacedStep == ASSUME ProxyTypeOK, Placed, Referred, [Next]_vars PROVE Placed'
<1>1. CASE UNCHANGED task
  BY <1>1 DEF Placed
<1>2. ASSUME NEW t \in Task, NEW kind \in Kind, NEW i \in Id, Arrive(t, kind, i) PROVE Placed'
  <2>1. /\ task'[t].pc = FirstPc(kind) /\ task'[t].kind = kind
        /\ \A q \in Task : q # t => task'[q] = task[q]
    BY <1>2, ArriveEffect
  <2>2. /\ FirstPc(kind) # "idle" /\ kind # "none"
        /\ FirstPc(kind) \in {"upgrade", "opened", "insert"} => kind = "open"
        /\ FirstPc(kind) \in {"lookup", "deliver"} => kind \in {"data", "closeFrame"}
        /\ FirstPc(kind) = "closeAll" => kind = "closeAll"
    BY DEF FirstPc, Kind
  <2>q. QED BY <2>1, <2>2 DEF Placed
<1>3. ASSUME NEW t \in Task, Moves(t), task[t].pc # "idle", task'[t].pc # "idle",
             task'[t].pc \in {"upgrade", "opened", "insert"} => task[t].pc \in {"upgrade", "opened", "insert"},
             task'[t].pc \in {"lookup", "deliver"} => task[t].pc \in {"lookup", "deliver"},
             task'[t].pc # "closeAll"
      PROVE  Placed'
  BY <1>3 DEF Moves, Placed
<1>4. ASSUME NEW t \in Task, Perform(t) PROVE Placed'
  BY <1>3, <1>4, PerformEffect DEF Turns
<1>5. ASSUME NEW t \in Task, Lookup(t) PROVE Placed'
  BY <1>3, <1>5, LookupEffect DEF Turns
<1>6. ASSUME NEW t \in Task, Sending(t) PROVE Placed'
  BY <1>3, <1>6, SendingEffect DEF Turns
<1>7. ASSUME NEW t \in Task, Insert(t) \/ Deliver(t) \/ CloseAll(t) PROVE Placed'
  <2>1. Moves(t) /\ task[t].pc # "idle" /\ task'[t].pc = "done"
    BY <1>7, InsertEffect, DeliverEffect, CloseAllEffect DEF Turns
  <2>q. QED BY <1>3, <2>1
<1>8. ASSUME NEW t \in Task, Pumps(t) \/ Writer(t) \/ DshCloses(t) PROVE UNCHANGED task
  BY <1>8, ReaderEffect, WriterEffect
<1>9. CASE Drain \/ CarrierBreaks \/ Redial \/ UNCHANGED vars
  BY <1>1, <1>9, DrainEffect, BreakEffect, RedialEffect DEF vars
<1>q. QED BY <1>1, <1>2, <1>4, <1>5, <1>6, <1>7, <1>8, <1>9, ProxyStep

LEMMA PumpingStep ==
  ASSUME ProxyTypeOK, Placed, Referred, Pumping, [Next]_vars
  PROVE  Pumping'
<1>k. Kept
  BY IsKept
<1>1. ASSUME NEW t \in Task, Insert(t) PROVE Pumping'
  <2>1. task'[t].kind = "open"
    BY <1>1, InsertEffect DEF Placed, Moves, Turns
  <2>2. \A q \in Task : q # t => task'[q] = task[q] /\ sock'[q] = sock[q]
    BY <1>1, InsertEffect, InsertedSock DEF Moves, SockMoves
  <2>q. QED BY <1>1, <2>1, <2>2, InsertedSock DEF Pumping
<1>2. ASSUME \A q \in Task : /\ sock'[q].reader # "none" => sock[q].reader # "none"
                             /\ sock'[q].writer # "none" => sock[q].writer # "none"
      PROVE  Pumping'
  BY <1>2, <1>k DEF Pumping, Kept
<1>3. CASE UNCHANGED sock
  BY <1>2, <1>3
<1>4. ASSUME NEW t \in Task, Deliver(t) \/ CloseAll(t) PROVE Pumping'
  BY <1>2, <1>4, QueueEffect
<1>5. ASSUME NEW t \in Task, Pumps(t) PROVE Pumping'
  BY <1>2, <1>5, ReaderEffect DEF SockMoves
<1>6. ASSUME NEW t \in Task, Writer(t) \/ DshCloses(t) PROVE Pumping'
  <2>1. \A q \in Task : /\ sock'[q].reader = sock[q].reader
                        /\ sock'[q].writer # "none" => sock[q].writer # "none"
    BY <1>6, WriterEffect DEF SockMoves
  <2>q. QED BY <1>2, <2>1
<1>7. ASSUME NEW t \in Task, Perform(t) \/ Lookup(t) \/ Sending(t) PROVE UNCHANGED sock
  BY <1>7, PerformEffect, LookupEffect, SendingEffect
<1>8. CASE Drain \/ CarrierBreaks \/ Redial \/ UNCHANGED vars
  BY <1>3, <1>8, DrainEffect, BreakEffect, RedialEffect DEF vars
<1>9. ASSUME NEW t \in Task, NEW kind \in Kind, NEW i \in Id, Arrive(t, kind, i) PROVE UNCHANGED sock
  BY <1>9, ArriveEffect
<1>q. QED BY <1>1, <1>3, <1>4, <1>5, <1>6, <1>7, <1>8, <1>9, ProxyStep

(* Who writes the registry. *)
LEMMA RegEffect ==
  ASSUME ProxyTypeOK, [Next]_vars, NEW i \in Id
  PROVE  \/ reg'[i] = reg[i]
         \/ \E t \in Task : Insert(t) /\ i = task[t].id /\ reg'[i] = t
         \/ \E t \in Task : /\ reg'[i] = NoTask
                            /\ \/ Deliver(t) /\ i = task[t].id /\ sock[task[t].ws].writer = "done"
                               \/ CloseAll(t)
                               \/ /\ Pumps(t) /\ i = task[t].id
                                  /\ sock'[t].reader \notin {"reading", "sending"}
<1>0. reg \in [Id -> Task \cup {NoTask}]
  BY DEF ProxyTypeOK
<1>1. ASSUME NEW t \in Task, Insert(t)
      PROVE  reg'[i] = reg[i] \/ (i = task[t].id /\ reg'[i] = t)
  <2>1. reg' = [reg EXCEPT ![task[t].id] = t]
    BY <1>1, InsertEffect
  <2>q. QED BY <1>0, <2>1
<1>2. ASSUME NEW t \in Task, Deliver(t)
      PROVE  \/ reg'[i] = reg[i]
             \/ reg'[i] = NoTask /\ i = task[t].id /\ sock[task[t].ws].writer = "done"
  BY <1>0, <1>2, DeliverEffect
<1>3. ASSUME NEW t \in Task, CloseAll(t) PROVE reg'[i] = NoTask
  BY <1>3, CloseAllEffect
<1>4. ASSUME NEW t \in Task, Pumps(t)
      PROVE  \/ reg'[i] = reg[i]
             \/ reg'[i] = NoTask /\ i = task[t].id /\ sock'[t].reader \notin {"reading", "sending"}
  <2>1. \/ reg' = reg
        \/ sock'[t].reader = "closing" /\ reg' = [reg EXCEPT ![task[t].id] = NoTask]
    BY <1>4, ReaderEffect
  <2>q. QED BY <1>0, <2>1
<1>5. ASSUME NEW t \in Task, Perform(t) \/ Lookup(t) \/ Sending(t) \/ Writer(t) \/ DshCloses(t)
      PROVE  UNCHANGED reg
  BY <1>5, PerformEffect, LookupEffect, SendingEffect, WriterEffect
<1>6. CASE Drain \/ CarrierBreaks \/ Redial \/ UNCHANGED vars
  BY <1>6, DrainEffect, BreakEffect, RedialEffect DEF vars
<1>7. ASSUME NEW t \in Task, NEW kind \in Kind, NEW j \in Id, Arrive(t, kind, j) PROVE UNCHANGED reg
  BY <1>7, ArriveEffect
<1>q. QED BY <1>1, <1>2, <1>3, <1>4, <1>5, <1>6, <1>7, ProxyStep

(* Only lookup lets a task hold a sender. *)
LEMMA HolderEffect ==
  ASSUME ProxyTypeOK, [Next]_vars, NEW p \in Task, task'[p].pc = "deliver"
  PROVE  task'[p] = task[p] \/ Lookup(p)
<1>1. ASSUME NEW t \in Task, Perform(t) \/ Sending(t) \/ Insert(t) \/ Deliver(t) \/ CloseAll(t)
      PROVE  task'[p] = task[p]
  <2>1. Moves(t) /\ task'[t].pc # "deliver"
    BY <1>1, PerformEffect, SendingEffect, InsertEffect, DeliverEffect, CloseAllEffect DEF Turns
  <2>q. QED BY <2>1 DEF Moves
<1>2. ASSUME NEW t \in Task, Lookup(t) PROVE task'[p] = task[p] \/ Lookup(p)
  <2>1. Moves(t)
    BY <1>2, LookupEffect
  <2>q. QED BY <1>2, <2>1 DEF Moves
<1>3. ASSUME NEW t \in Task, Pumps(t) \/ Writer(t) \/ DshCloses(t) PROVE task'[p] = task[p]
  BY <1>3, ReaderEffect, WriterEffect
<1>4. CASE Drain \/ CarrierBreaks \/ Redial \/ UNCHANGED vars
  BY <1>4, DrainEffect, BreakEffect, RedialEffect DEF vars
<1>5. ASSUME NEW t \in Task, NEW kind \in Kind, NEW j \in Id, Arrive(t, kind, j) PROVE task'[p] = task[p]
  <2>1. task'[t].pc # "deliver"
    BY <1>5, ArriveEffect DEF FirstPc, Kind
  <2>q. QED BY <1>5, <2>1, ArriveEffect
<1>q. QED BY <1>1, <1>2, <1>3, <1>4, <1>5, ProxyStep

LEMMA ReferredStep ==
  ASSUME ProxyTypeOK, Placed, Referred, Pumping, [Next]_vars
  PROVE  Referred'
<1>k. Kept
  BY IsKept
<1>s. ASSUME NEW s, NEW i, Stands(s, i)
      PROVE  s \in Task /\ sock'[s].reader # "none" /\ task'[s].id = i
  BY <1>k, <1>s DEF Pumping, Kept, Stands
<1>1. ASSUME NEW i \in Id, reg'[i] # NoTask
      PROVE  reg'[i] \in Task /\ sock'[reg'[i]].reader # "none" /\ task'[reg'[i]].id = i
  <2>1. CASE reg'[i] = reg[i]
    BY <1>1, <1>s, <2>1 DEF Referred
  <2>2. ASSUME NEW t \in Task, Insert(t), i = task[t].id, reg'[i] = t
        PROVE  sock'[t].reader # "none" /\ task'[t].id = i
    BY <2>2, InsertEffect, InsertedSock DEF Moves
  <2>q. QED BY <1>1, <2>1, <2>2, RegEffect
<1>2. ASSUME NEW t \in Task, task'[t].pc = "deliver"
      PROVE  task'[t].ws \in Task /\ sock'[task'[t].ws].reader # "none" /\ task'[task'[t].ws].id = task'[t].id
  <2>1. CASE task'[t] = task[t]
    BY <1>2, <1>s, <2>1 DEF Referred
  <2>2. CASE Lookup(t)
    <3>1. /\ task'[t].ws = reg[task[t].id] /\ reg[task[t].id] # NoTask
          /\ task'[t].id = task[t].id /\ task[t].id \in Id
      BY <1>2, <2>2, LookupEffect DEF Moves, ProxyTypeOK, TaskRecord
    <3>2. Stands(reg[task[t].id], task[t].id)
      BY <3>1 DEF Referred
    <3>q. QED BY <1>s, <3>1, <3>2
  <2>q. QED BY <1>2, <2>1, <2>2, HolderEffect
<1>q. QED BY <1>1, <1>2 DEF Referred, Stands

(* Who starts the tasks of a WebSocket. *)
LEMMA SockEffect ==
  ASSUME ProxyTypeOK, Referred, [Next]_vars, NEW x \in Task
  PROVE  Working(x)' => Working(x) \/ Insert(x)
<1>1. CASE UNCHANGED sock
  BY <1>1 DEF Working
<1>2. ASSUME NEW t \in Task, Insert(t) PROVE x # t => sock'[x] = sock[x]
  BY <1>2, InsertedSock DEF SockMoves
<1>3. ASSUME NEW t \in Task, Deliver(t) \/ CloseAll(t)
      PROVE  /\ sock'[x].reader = sock[x].reader /\ sock'[x].writer = sock[x].writer
             /\ sock'[x].dsh = sock[x].dsh
  BY <1>3, QueueEffect
<1>4. ASSUME NEW t \in Task, Pumps(t)
      PROVE  /\ sock'[x].writer = sock[x].writer /\ sock'[x].dsh = sock[x].dsh
             /\ sock'[x].reader \in {"reading", "sending"} => sock[x].reader \in {"reading", "sending"}
  BY <1>4, ReaderEffect DEF SockMoves
<1>5. ASSUME NEW t \in Task, Writer(t) \/ DshCloses(t)
      PROVE  /\ sock'[x].reader = sock[x].reader
             /\ sock'[x].writer \in {sock[x].writer, "done"} /\ sock'[x].dsh \in {sock[x].dsh, "closed"}
  BY <1>5, WriterEffect DEF SockMoves
<1>6. ASSUME NEW t \in Task, Perform(t) \/ Lookup(t) \/ Sending(t) PROVE UNCHANGED sock
  BY <1>6, PerformEffect, LookupEffect, SendingEffect
<1>7. CASE Drain \/ CarrierBreaks \/ Redial \/ UNCHANGED vars
  BY <1>1, <1>7, DrainEffect, BreakEffect, RedialEffect DEF vars
<1>8. ASSUME NEW t \in Task, NEW kind \in Kind, NEW i \in Id, Arrive(t, kind, i) PROVE UNCHANGED sock
  BY <1>8, ArriveEffect
<1>9. CASE \E t \in Task : Insert(t)
  BY <1>2, <1>9 DEF Working
<1>10. CASE \E t \in Task : Deliver(t) \/ CloseAll(t)
  BY <1>3, <1>10 DEF Working
<1>11. CASE \E t \in Task : Pumps(t)
  BY <1>4, <1>11 DEF Working
<1>12. CASE \E t \in Task : Writer(t) \/ DshCloses(t)
  BY <1>5, <1>12 DEF Working
<1>q. QED BY <1>1, <1>6, <1>7, <1>8, <1>9, <1>10, <1>11, <1>12, ProxyStep

LEMMA ReachableStep ==
  ASSUME ProxyTypeOK, Placed, Referred, Pumping, Reachable, [Next]_vars
  PROVE  Reachable'
<1>k. Kept
  BY IsKept
<1> SUFFICES ASSUME NEW s \in Task, OnlyOpener(s)', \A t \in Task : ~IsClose(t)', Working(s)'
             PROVE  reg'[task'[s].id] = s
  BY DEF Reachable
<1>1. CASE Insert(s)
  <2>1. reg' = [reg EXCEPT ![task[s].id] = s] /\ task'[s].id = task[s].id /\ task[s].id \in Id
    BY <1>1, InsertEffect DEF Moves, ProxyTypeOK, TaskRecord
  <2>q. QED BY <2>1 DEF ProxyTypeOK
<1>2. CASE ~Insert(s)
  <2>1. Working(s)
    BY <1>2, SockEffect
  <2>2. task[s].kind = "open" /\ task'[s].kind = "open" /\ task'[s].id = task[s].id
    BY <1>k, <2>1 DEF Working, Pumping, Kept
  <2>3. ASSUME NEW o \in Task, task[o].kind = "open", task[o].id = task[s].id PROVE o = s
    <3>1. task'[o].kind = "open" /\ task'[o].id = task'[s].id
      BY <1>k, <2>2, <2>3 DEF Kept
    <3>q. QED BY <3>1 DEF OnlyOpener
  <2>4. ASSUME NEW t \in Task PROVE ~IsClose(t)
    BY <1>k DEF IsClose, Kept
  <2>5. reg[task[s].id] = s
    BY <2>1, <2>3, <2>4 DEF Reachable, OnlyOpener
  <2> DEFINE i == task[s].id
  <2>6. i \in Id
    BY DEF ProxyTypeOK, TaskRecord
  <2>7. ASSUME NEW t \in Task, Insert(t), i = task[t].id PROVE t = s
    BY <2>3, <2>7, InsertEffect DEF Placed, Turns
  <2>8. ASSUME NEW t \in Task, Deliver(t), i = task[t].id, sock[task[t].ws].writer = "done" PROVE FALSE
    <3>1. Stands(task[t].ws, i)
      BY <2>8, DeliverEffect DEF Referred, Turns
    <3>2. task[t].ws = s
      BY <2>3, <3>1 DEF Stands, Pumping
    <3>q. QED BY <2>1, <2>8, <3>2 DEF Working
  <2>9. ASSUME NEW t \in Task, CloseAll(t) PROVE FALSE
    BY <2>4, <2>9, CloseAllEffect DEF Placed, Turns, IsClose
  <2>10. ASSUME NEW t \in Task, Pumps(t), i = task[t].id, sock'[t].reader \notin {"reading", "sending"}
         PROVE  FALSE
    <3>1. t = s
      BY <2>3, <2>10, ReaderEffect DEF Pumping
    <3>q. QED BY <2>10, <3>1 DEF Working
  <2> HIDE DEF i
  <2>11. reg'[i] = reg[i] \/ reg'[i] = s
    BY <2>6, <2>7, <2>8, <2>9, <2>10, RegEffect
  <2>q. QED BY <2>2, <2>5, <2>11 DEF i
<1>q. QED BY <1>1, <1>2

LEMMA WsInit == Init => WsInv
<1> SUFFICES ASSUME Init PROVE WsInv
  OBVIOUS
<1> DEFINE r0 == [kind |-> "none", id |-> CHOOSE i \in Id : TRUE, gen |-> 0, pc |-> "idle", size |-> 0,
                  left |-> 0, wide |-> FALSE, ws |-> NoTask]
           s0 == [reader |-> "none", writer |-> "none", q |-> <<>>, dsh |-> "open"]
<1>1. (CHOOSE i \in Id : TRUE) \in Id
  BY ProxyAssumption
<1>2. r0 \in TaskRecord /\ r0.pc = "idle" /\ r0.kind = "none"
  BY <1>1 DEF TaskRecord, Pc
<1>3. <<>> \in Seq(Task) /\ <<>> \in Seq(Message)
  OBVIOUS
<1>4. s0 \in SockRecord /\ s0.reader = "none" /\ s0.writer = "none" /\ s0.q = <<>>
  BY <1>3 DEF SockRecord
<1>5. task \in [Task -> {r0}] /\ sock = [t \in Task |-> s0]
  BY DEF Init
<1> HIDE DEF r0, s0
<1>6. \A t \in Task : task[t] = r0 /\ sock[t] = s0
  BY <1>5
<1>7. task \in [Task -> TaskRecord] /\ sock \in [Task -> SockRecord]
  BY <1>2, <1>4, <1>5
<1>8. ProxyTypeOK
  BY <1>3, <1>7 DEF ProxyTypeOK, Init
<1>9. Placed /\ Pumping
  BY <1>2, <1>4, <1>6 DEF Placed, Pumping
<1>10. Referred
  BY <1>2, <1>6 DEF Referred, Init
<1>11. Reachable
  BY <1>4, <1>6 DEF Reachable, Working
<1>q. QED BY <1>8, <1>9, <1>10, <1>11 DEF WsInv

LEMMA WsNext == WsInv /\ [Next]_vars => WsInv'
<1> SUFFICES ASSUME WsInv, [Next]_vars PROVE WsInv'
  OBVIOUS
<1>0. ProxyTypeOK /\ Placed /\ Pumping /\ Referred /\ Reachable
  BY DEF WsInv
<1>q. QED BY <1>0, ProxyTypeStep, PlacedStep, PumpingStep, ReferredStep, ReachableStep DEF WsInv

(* A WebSocket both of whose tasks are at work can be written to, whatever *)
(* messages for its id come early, late or from another carrier, as long   *)
(* as nobody opened the same id again and nobody closed (open_websocket,   *)
(* handle, the socket registry and the two pump tasks of                   *)
(* proxy/service.rs).                                                      *)
THEOREM OpenersCanWrite == Spec => []WritableByOpener
<1>1. WsInv => WritableByOpener
  BY DEF WsInv, Reachable, Working, WritableByOpener, Sockets
<1>q. QED BY <1>1, WsInit, WsNext, PTL DEF Spec
-----------------------------------------------------------------------------
(* f counts what was sent for a request t: the r the client has, and what  *)
(* is among the first i messages of the outbox b.                          *)
Counts(t, f, b, r) ==
    /\ f \in [0 .. Len(b) -> Nat] /\ f[0] = Len(r)
    /\ \A i \in 1 .. Len(b) : f[i] = f[i - 1] + (IF b[i].of = t THEN 1 ELSE 0)
    /\ \A i \in 0 .. Len(b) : \A j \in i .. Len(b) : f[i] <= f[j]

(* Everything sent for it is a failure, or at its place in one answer.     *)
OnlyFailures(t, b, r) ==
    /\ \A k \in 1 .. Len(r) : r[k].type = "failure"
    /\ \A i \in 1 .. Len(b) : b[i].of = t => b[i].type = "failure"

OnlyAnswer(t, f, b, r, size) ==
    /\ \A k \in 1 .. Len(r) : AnswerAt(k, size, r[k])
    /\ \A i \in 1 .. Len(b) : b[i].of = t => AnswerAt(f[i], size, b[i])

(* How much a task has sent at the place it is at, n messages so far; what *)
(* a task whose carrier has gone still means to send does not matter.      *)
Stage(t, n) ==
    /\ task[t].pc \in {"idle", "perform", "collect", "start", "fail2"} => n = 0
    /\ task[t].pc = "start" => task[t].left = task[t].size
    /\ task[t].pc = "fail" /\ ~Gone(t) => n <= 1
    /\ task[t].pc = "body" /\ ~Gone(t) =>
         /\ n >= 1 /\ (n > 1 => Before(n) < task[t].size)
         /\ task[t].left = IF Before(n + 1) < task[t].size THEN task[t].size - Before(n + 1) ELSE 0

SentRight(t, f) ==
    /\ Counts(t, f, box, got[t]) /\ Stage(t, f[Len(box)])
    /\ \/ OnlyFailures(t, box, got[t]) /\ f[Len(box)] <= 2
       \/ OnlyAnswer(t, f, box, got[t], task[t].size)
    /\ task[t].pc = "fail" => OnlyFailures(t, box, got[t]) /\ f[Len(box)] <= 2
    /\ task[t].pc = "body" /\ ~Gone(t) => OnlyAnswer(t, f, box, got[t], task[t].size)

RequestRight(t) ==
    /\ task[t].kind \in {"none", "request"} /\ task[t].gen <= gen
    /\ \E f \in [0 .. Len(box) -> Nat] : SentRight(t, f)

AnswerInv == WsInv /\ \A t \in Request : RequestRight(t)

LEMMA BeforeIs ==
  ASSUME NEW n \in Int
  PROVE  Before(n) \in Int /\ Before(n + 1) = Before(n) + MaxChunk /\ Before(2) = 0
BY ProxyAssumption DEF Before

(* One message more in the outbox. *)
Longer(t, f, b, r, m) ==
    \E g \in [0 .. Len(b) + 1 -> Nat] :
      /\ Counts(t, g, Append(b, m), r)
      /\ g[Len(b) + 1] = f[Len(b)] + (IF m.of = t THEN 1 ELSE 0)
      /\ \A i \in 0 .. Len(b) : g[i] = f[i]

LEMMA CountsMore ==
  ASSUME NEW t, NEW b \in Seq(Message), NEW r \in Seq(Message), NEW f, Counts(t, f, b, r), NEW m \in Message
  PROVE  Longer(t, f, b, r, m)
<1> DEFINE n == Len(b)
           d == IF m.of = t THEN 1 ELSE 0
           g == [i \in 0 .. n + 1 |-> IF i <= n THEN f[i] ELSE f[n] + d]
           c == Append(b, m)
<1>1. n \in Nat /\ f \in [0 .. n -> Nat] /\ d \in Nat
  BY DEF Counts
<1>2. Len(c) = n + 1 /\ c[n + 1] = m /\ \A i \in 1 .. n : c[i] = b[i]
  OBVIOUS
<1>3. /\ g \in [0 .. n + 1 -> Nat] /\ g[n + 1] = f[n] + d
      /\ \A i \in 0 .. n : g[i] = f[i]
  <2> HIDE DEF n, d
  <2>1. n \in 0 .. n /\ n + 1 \in 0 .. n + 1 /\ ~(n + 1 <= n) /\ \A i \in 0 .. n : i \in 0 .. n + 1 /\ i <= n
    BY <1>1
  <2>2. \A i \in 0 .. n + 1 : i <= n => i \in 0 .. n
    BY <1>1
  <2>3. \A i \in 0 .. n + 1 : (IF i <= n THEN f[i] ELSE f[n] + d) \in Nat
    BY <1>1, <2>1, <2>2
  <2>q. QED BY <2>1, <2>3
<1>h. /\ f[0] = Len(r) /\ \A i \in 0 .. n : f[i] \in Nat /\ \A j \in i .. n : f[i] <= f[j]
      /\ \A i \in 1 .. n : f[i] = f[i - 1] + (IF b[i].of = t THEN 1 ELSE 0)
  BY <1>1 DEF Counts
<1> HIDE DEF g, c, n, d
<1>4. \A i \in 1 .. n + 1 : g[i] = g[i - 1] + (IF c[i].of = t THEN 1 ELSE 0)
  <2>1. TAKE i \in 1 .. n + 1
  <2>2. CASE i = n + 1
    <3>1. i - 1 = n /\ n \in 0 .. n
      BY <1>1, <2>2
    <3>q. QED BY <1>2, <1>3, <2>2, <3>1 DEF d
  <2>3. CASE i # n + 1
    <3>1. i \in 1 .. n /\ i - 1 \in 0 .. n /\ i \in 0 .. n
      BY <1>1, <2>3
    <3>q. QED BY <1>2, <1>3, <1>h, <3>1
  <2>q. QED BY <2>2, <2>3
<1>5. \A i \in 0 .. n + 1 : \A j \in i .. n + 1 : g[i] <= g[j]
  <2>1. TAKE i \in 0 .. n + 1
  <2>2. TAKE j \in i .. n + 1
  <2>3. CASE i = n + 1
    BY <1>1, <1>3, <2>3
  <2>4. CASE i \in 0 .. n /\ j = n + 1
    <3>1. n \in i .. n
      BY <1>1, <2>4
    <3>q. QED BY <1>1, <1>3, <1>h, <2>4, <3>1
  <2>5. CASE i \in 0 .. n /\ j \in i .. n
    <3>1. j \in 0 .. n
      BY <1>1, <2>5
    <3>q. QED BY <1>3, <1>h, <2>5, <3>1
  <2>q. QED BY <1>1, <2>3, <2>4, <2>5
<1>6. Counts(t, g, c, r)
  <2>1. 0 \in 0 .. n
    BY <1>1
  <2>q. QED BY <1>2, <1>3, <1>4, <1>5, <1>h, <2>1 DEF Counts
<1>q. QED BY <1>3, <1>6 DEF Longer, c, n, d

(* The first message of the outbox goes to the client. *)
Shorter(t, f, b, r, q) ==
    \E g \in [0 .. Len(Tail(b)) -> Nat] :
      /\ Counts(t, g, Tail(b), q) /\ g[Len(Tail(b))] = f[Len(b)]
      /\ OnlyFailures(t, b, r) => OnlyFailures(t, Tail(b), q)
      /\ \A size : OnlyAnswer(t, f, b, r, size) => OnlyAnswer(t, g, Tail(b), q, size)

LEMMA CountsOn ==
  ASSUME NEW t, NEW b \in Seq(Message), NEW r \in Seq(Message), NEW f, Counts(t, f, b, r), b # <<>>,
         NEW q \in Seq(Message), q = IF t = Head(b).of THEN Append(r, Head(b)) ELSE r
  PROVE  Shorter(t, f, b, r, q)
<1> DEFINE n == Len(b)
           c == Tail(b)
           g == [i \in 0 .. n - 1 |-> f[i + 1]]
<1>1. n \in Nat \ {0} /\ f \in [0 .. n -> Nat]
  BY DEF Counts
<1>2. Len(c) = n - 1 /\ Head(b) = b[1] /\ \A i \in 1 .. n - 1 : c[i] = b[i + 1]
  OBVIOUS
<1>3. g \in [0 .. n - 1 -> Nat] /\ \A i \in 0 .. n - 1 : g[i] = f[i + 1] /\ i + 1 \in 0 .. n
  BY <1>1
<1>h. /\ f[0] = Len(r) /\ \A i \in 0 .. n : f[i] \in Nat /\ \A j \in i .. n : f[i] <= f[j]
      /\ \A i \in 1 .. n : f[i] = f[i - 1] + (IF b[i].of = t THEN 1 ELSE 0)
  BY <1>1 DEF Counts
<1> HIDE DEF g, c, n
<1>4. /\ 0 \in 0 .. n - 1 /\ n - 1 \in 0 .. n - 1 /\ 1 \in 1 .. n /\ 0 \in 0 .. n
      /\ f[1] = f[0] + (IF b[1].of = t THEN 1 ELSE 0)
  BY <1>1, <1>h
<1>5. g[0] = Len(q) /\ g[n - 1] = f[n]
  <2>1. Len(q) = Len(r) + (IF b[1].of = t THEN 1 ELSE 0)
    BY <1>2
  <2>2. g[0] = f[1] /\ g[n - 1] = f[n]
    BY <1>1, <1>3, <1>4
  <2>q. QED BY <1>4, <1>h, <2>1, <2>2
<1>6. \A i \in 1 .. n - 1 : g[i] = g[i - 1] + (IF c[i].of = t THEN 1 ELSE 0)
  <2>1. TAKE i \in 1 .. n - 1
  <2>2. /\ i \in 0 .. n - 1 /\ i - 1 \in 0 .. n - 1 /\ i + 1 \in 1 .. n
        /\ (i - 1) + 1 = i /\ (i + 1) - 1 = i
    BY <1>1
  <2>3. g[i] = f[i + 1] /\ g[i - 1] = f[i] /\ c[i] = b[i + 1]
    BY <1>2, <1>3, <2>2
  <2>4. f[i + 1] = f[i] + (IF b[i + 1].of = t THEN 1 ELSE 0)
    BY <1>h, <2>2
  <2>q. QED BY <2>3, <2>4
<1>7. \A i \in 0 .. n - 1 : \A j \in i .. n - 1 : g[i] <= g[j]
  <2>1. TAKE i \in 0 .. n - 1
  <2>2. TAKE j \in i .. n - 1
  <2>3. j \in 0 .. n - 1 /\ i + 1 \in 0 .. n /\ j + 1 \in i + 1 .. n
    BY <1>1
  <2>q. QED BY <1>3, <1>h, <2>3
<1>8. Counts(t, g, c, q)
  BY <1>2, <1>3, <1>5, <1>6, <1>7 DEF Counts
<1>9. OnlyFailures(t, b, r) => OnlyFailures(t, c, q)
  <2>1. SUFFICES ASSUME OnlyFailures(t, b, r) PROVE OnlyFailures(t, c, q)
    OBVIOUS
  <2>2. \A k \in 1 .. Len(q) : q[k].type = "failure"
    <3>1. TAKE k \in 1 .. Len(q)
    <3>2. CASE k \in 1 .. Len(r)
      <4>1. q[k] = r[k]
        BY <3>2
      <4>q. QED BY <2>1, <3>2, <4>1 DEF OnlyFailures
    <3>3. CASE k \notin 1 .. Len(r)
      <4>1. q[k] = b[1] /\ b[1].of = t
        BY <1>2, <3>3
      <4>q. QED BY <1>4, <2>1, <4>1 DEF OnlyFailures, n
    <3>q. QED BY <3>2, <3>3
  <2>3. \A i \in 1 .. Len(c) : c[i].of = t => c[i].type = "failure"
    <3>1. TAKE i \in 1 .. Len(c)
    <3>2. c[i] = b[i + 1] /\ i + 1 \in 1 .. n
      BY <1>1, <1>2
    <3>q. QED BY <2>1, <3>2 DEF OnlyFailures, n
  <2>q. QED BY <2>2, <2>3 DEF OnlyFailures
<1>10. ASSUME NEW size, OnlyAnswer(t, f, b, r, size) PROVE OnlyAnswer(t, g, c, q, size)
  <2>2. \A k \in 1 .. Len(q) : AnswerAt(k, size, q[k])
    <3>1. TAKE k \in 1 .. Len(q)
    <3>2. CASE k \in 1 .. Len(r)
      <4>1. q[k] = r[k]
        BY <3>2
      <4>q. QED BY <1>10, <3>2, <4>1 DEF OnlyAnswer
    <3>3. CASE k \notin 1 .. Len(r)
      <4>1. q[k] = b[1] /\ b[1].of = t /\ k = Len(r) + 1
        BY <1>2, <3>3
      <4>2. k = f[1]
        BY <1>4, <1>h, <4>1
      <4>q. QED BY <1>4, <1>10, <4>1, <4>2 DEF OnlyAnswer, n
    <3>q. QED BY <3>2, <3>3
  <2>3. \A i \in 1 .. Len(c) : c[i].of = t => AnswerAt(g[i], size, c[i])
    <3>1. TAKE i \in 1 .. Len(c)
    <3>2. c[i] = b[i + 1] /\ i + 1 \in 1 .. n /\ i \in 0 .. n - 1
      BY <1>1, <1>2
    <3>3. g[i] = f[i + 1]
      BY <1>3, <3>2
    <3>q. QED BY <1>10, <3>2, <3>3 DEF OnlyAnswer, n
  <2>q. QED BY <2>2, <2>3 DEF OnlyAnswer
<1>11. /\ g \in [0 .. Len(c) -> Nat] /\ Counts(t, g, c, q) /\ g[Len(c)] = f[Len(b)]
       /\ OnlyFailures(t, b, r) => OnlyFailures(t, c, q)
       /\ \A size : OnlyAnswer(t, f, b, r, size) => OnlyAnswer(t, g, c, q, size)
  BY <1>2, <1>3, <1>5, <1>8, <1>9, <1>10 DEF n
<1>q. QED BY <1>11 DEF Shorter, c

(* What is sent on is judged as before, and by its own place. *)
LEMMA SentMore ==
  ASSUME NEW t, NEW b \in Seq(Message), NEW r, NEW f, NEW g, NEW m \in Message,
         \A i \in 0 .. Len(b) : g[i] = f[i]
  PROVE  /\ OnlyFailures(t, b, r) /\ (m.of = t => m.type = "failure") => OnlyFailures(t, Append(b, m), r)
         /\ \A size : OnlyAnswer(t, f, b, r, size) /\ (m.of = t => AnswerAt(g[Len(b) + 1], size, m))
                        => OnlyAnswer(t, g, Append(b, m), r, size)
<1> DEFINE c == Append(b, m)
<1>1. /\ Len(b) \in Nat /\ Len(c) = Len(b) + 1 /\ c[Len(b) + 1] = m
      /\ \A i \in 1 .. Len(b) : c[i] = b[i] /\ g[i] = f[i]
  OBVIOUS
<1>2. \A i \in 1 .. Len(c) : i \in 1 .. Len(b) \/ i = Len(b) + 1
  BY <1>1
<1> HIDE DEF c
<1>3. OnlyFailures(t, b, r) /\ (m.of = t => m.type = "failure") => OnlyFailures(t, c, r)
  BY <1>1, <1>2 DEF OnlyFailures
<1>4. \A size : OnlyAnswer(t, f, b, r, size) /\ (m.of = t => AnswerAt(g[Len(b) + 1], size, m))
                  => OnlyAnswer(t, g, c, r, size)
  BY <1>1, <1>2 DEF OnlyAnswer
<1>q. QED BY <1>3, <1>4 DEF c

(* Nothing was sent. *)
LEMMA NothingSent ==
  ASSUME NEW t, NEW b \in Seq(Message), NEW r \in Seq(Message), NEW f, Counts(t, f, b, r), f[Len(b)] = 0
  PROVE  /\ OnlyFailures(t, b, r) /\ \A size : OnlyAnswer(t, f, b, r, size)
<1>1. Len(b) \in Nat /\ f \in [0 .. Len(b) -> Nat]
  BY DEF Counts
<1>2. \A i \in 0 .. Len(b) : f[i] = 0
  <2>1. TAKE i \in 0 .. Len(b)
  <2>2. Len(b) \in i .. Len(b)
    BY <1>1
  <2>3. f[i] <= f[Len(b)] /\ f[i] \in Nat
    BY <1>1, <2>2 DEF Counts
  <2>q. QED BY <2>3
<1>3. Len(r) = 0
  BY <1>1, <1>2 DEF Counts
<1>4. \A i \in 1 .. Len(b) : b[i].of # t
  <2>1. TAKE i \in 1 .. Len(b)
  <2>2. i \in 0 .. Len(b) /\ i - 1 \in 0 .. Len(b)
    BY <1>1
  <2>3. f[i] = 0 /\ f[i - 1] = 0
    BY <1>2, <2>2
  <2>q. QED BY <2>3 DEF Counts
<1>q. QED BY <1>3, <1>4 DEF OnlyFailures, OnlyAnswer

(* What perform and report_failure send, one message at a time. *)
SendsOne(t, m) ==
    \/ /\ task[t].pc = "start" /\ task'[t].pc = "body" /\ m.type = "start"
       /\ task'[t].left = task[t].left
    \/ /\ task[t].pc = "body" /\ task'[t].pc = "body" /\ m.type = "body"
       /\ m.n = Chunk(task[t].left) /\ m.n > 0 /\ task'[t].left = task[t].left - m.n
    \/ task[t].pc = "body" /\ task'[t].pc = "done" /\ m.type = "end" /\ Chunk(task[t].left) = 0
    \/ task[t].pc = "fail2" /\ task'[t].pc = "fail" /\ m.type = "failure"
    \/ task[t].pc = "fail" /\ task'[t].pc = "done" /\ m.type = "failure"

LEMMA GoesKeeps ==
  ASSUME ProxyTypeOK, NEW t \in Task, NEW x \in Pc, Goes(t, x)
  PROVE  task'[t].pc = x /\ task'[t].size = task[t].size /\ task'[t].left = task[t].left
BY DEF ProxyTypeOK, Goes, TaskRecord

LEMMA AnswerSends ==
  ASSUME ProxyTypeOK, NEW t \in Task, Sending(t), task[t].pc # "opened"
  PROVE  /\ task'[t].size = task[t].size
         /\ \/ box' = box /\ task'[t].pc = "done"
            \/ \E m \in Message : ~Gone(t) /\ box' = Append(box, m) /\ m.of = t /\ SendsOne(t, m)
<1>1. CASE SendStart(t)
  <2> DEFINE m == [Msg(t, "start") EXCEPT !.wide = task[t].wide]
  <2>1. m \in Message /\ m.of = t /\ m.type = "start"
    BY DEF Msg, Message, ProxyTypeOK, TaskRecord
  <2>2. Sends(t, m, "body") /\ task[t].pc = "start"
    BY <1>1 DEF SendStart, At
  <2> HIDE DEF m
  <2>q. QED BY <2>1, <2>2, GoesKeeps DEF Sends, SendsOne, Pc
<1>2. CASE SendBody(t)
  <2> DEFINE n == Chunk(task[t].left)  m == [Msg(t, "body") EXCEPT !.n = n]
  <2>0. n \in Nat /\ task[t].left - n \in Nat
    BY ChunkIs DEF ProxyTypeOK, TaskRecord
  <2>1. m \in Message /\ m.of = t /\ m.type = "body" /\ m.n = n
    BY <2>0 DEF Msg, Message
  <2>2. /\ task[t].pc = "body" /\ n > 0
        /\ \/ Goes(t, "done") /\ box' = box
           \/ ~Gone(t) /\ box' = Append(box, m) /\ task' = [task EXCEPT ![t].left = task[t].left - n]
    BY <1>2 DEF SendBody, At
  <2>n. n = Chunk(task[t].left)
    OBVIOUS
  <2> HIDE DEF m, n
  <2>3. CASE Goes(t, "done") /\ box' = box
    BY <2>3, GoesKeeps DEF Pc
  <2>4. CASE ~Gone(t) /\ box' = Append(box, m) /\ task' = [task EXCEPT ![t].left = task[t].left - n]
    <3>1. task'[t].pc = "body" /\ task'[t].size = task[t].size /\ task'[t].left = task[t].left - n
      BY <2>2, <2>4 DEF ProxyTypeOK, TaskRecord
    <3>2. SendsOne(t, m)
      BY <2>1, <2>2, <2>n, <3>1 DEF SendsOne
    <3>q. QED BY <2>1, <2>4, <3>1, <3>2
  <2>q. QED BY <2>2, <2>3, <2>4
<1>3. CASE SendEnd(t)
  <2>1. Sends(t, Msg(t, "end"), "done") /\ task[t].pc = "body" /\ Chunk(task[t].left) = 0
    BY <1>3 DEF SendEnd, At
  <2>q. QED BY <2>1, MsgType, GoesKeeps DEF Sends, SendsOne, Pc
<1>4. CASE ReportFailure(t)
  <2>1. \/ task[t].pc = "fail2" /\ Sends(t, Msg(t, "failure"), "fail")
        \/ task[t].pc = "fail" /\ Sends(t, Msg(t, "failure"), "done")
    BY <1>4 DEF ReportFailure, At
  <2>q. QED BY <2>1, MsgType, GoesKeeps DEF Sends, SendsOne, Pc
<1>5. CASE SendOpened(t)
  BY <1>5 DEF SendOpened, At
<1>q. QED BY <1>1, <1>2, <1>3, <1>4, <1>5 DEF Sending

(* When DSH has answered, the whole body is left to be sent. *)
LEMMA AnswerReady ==
  ASSUME ProxyTypeOK, NEW t \in Task, Perform(t), task'[t].pc = "start"
  PROVE  task'[t].left = task'[t].size
<1>1. CASE RefuseRequest(t) \/ DshHead(t) \/ DshFails(t) \/ UpgradeRefused(t) \/ Upgraded(t)
  BY <1>1, GoesEffect DEF RefuseRequest, DshHead, DshFails, UpgradeRefused, Upgraded, Pc
<1>2. ASSUME NEW head, NEW size, DshAnswers(t, head, size) PROVE task'[t].left = task'[t].size
  BY <1>2 DEF DshAnswers, ProxyTypeOK, TaskRecord
<1>q. QED BY <1>1, <1>2 DEF Perform, Dsh

(* Each message a task sends is at its place in the answer. *)
LEMMA OwnSend ==
  ASSUME WsInv, NEW t \in Request, NEW f, SentRight(t, f), NEW m \in Message, m.of = t, ~Gone(t),
         SendsOne(t, m), task'[t].size = task[t].size, box' = Append(box, m), got' = got,
         task' \in [Task -> TaskRecord], Gone(t)' <=> Gone(t)
  PROVE  \E g \in [0 .. Len(box') -> Nat] : SentRight(t, g)'
<1>t. /\ box \in Seq(Message) /\ got[t] \in Seq(Message) /\ t \in Task
      /\ task[t].size \in Nat /\ task[t].left \in Nat
  BY DEF WsInv, ProxyTypeOK, TaskRecord, Task
<1>0. Counts(t, f, box, got[t]) /\ Stage(t, f[Len(box)])
  BY DEF SentRight
<1>n. PICK n \in Nat : n = f[Len(box)]
  BY <1>t, <1>0 DEF Counts
<1>z. PICK size \in Nat : size = task[t].size
  BY <1>t
<1>l. Longer(t, f, box, got[t], m)
  BY <1>0, <1>t, CountsMore
<1>1. PICK g \in [0 .. Len(box) + 1 -> Nat] :
           /\ Counts(t, g, Append(box, m), got[t])
           /\ g[Len(box) + 1] = f[Len(box)] + (IF m.of = t THEN 1 ELSE 0)
           /\ \A i \in 0 .. Len(box) : g[i] = f[i]
  BY <1>l DEF Longer
<1>2. /\ Counts(t, g, box', got'[t]) /\ Len(box') = Len(box) + 1 /\ g[Len(box')] = n + 1
      /\ g \in [0 .. Len(box') -> Nat]
  BY <1>1, <1>n, <1>t
<1>3. /\ OnlyFailures(t, box, got[t]) /\ m.type = "failure" => OnlyFailures(t, box', got'[t])
      /\ OnlyAnswer(t, f, box, got[t], size) /\ AnswerAt(n + 1, size, m)
           => OnlyAnswer(t, g, box', got'[t], size)
  BY <1>1, <1>2, <1>n, <1>t, SentMore
<1>b. /\ Before(n + 1) \in Int /\ Before(n) \in Int /\ Before(n + 2) = Before(n + 1) + MaxChunk /\ Before(2) = 0
      /\ (n + 1) - 1 = n /\ (n + 1) + 1 = n + 2 /\ Before((n + 1) - 1) = Before(n)
  <2>1. n \in Int /\ n + 1 \in Int /\ (n + 1) + 1 = n + 2 /\ (n + 1) - 1 = n
    BY <1>n
  <2>2. Before(n) \in Int /\ Before(n + 1) \in Int /\ Before((n + 1) + 1) = Before(n + 1) + MaxChunk /\ Before(2) = 0
    BY <2>1, BeforeIs
  <2>q. QED BY <2>1, <2>2
<1>s. task'[t].size = size
  BY <1>z
<1>e. ASSUME Stage(t, n + 1)', \/ OnlyFailures(t, box', got'[t]) /\ n + 1 <= 2 /\ task'[t].pc # "body"
                               \/ OnlyAnswer(t, g, box', got'[t], size) /\ task'[t].pc # "fail"
      PROVE  SentRight(t, g)'
  BY <1>2, <1>e, <1>s DEF SentRight
<1>5. CASE task[t].pc = "start" /\ task'[t].pc = "body" /\ m.type = "start" /\ task'[t].left = task[t].left
  <2>1. n = 0 /\ task[t].left = size
    BY <1>0, <1>5, <1>n, <1>z DEF Stage
  <2>2. OnlyAnswer(t, f, box, got[t], size)
    BY <1>0, <1>t, <2>1, NothingSent, <1>n
  <2>3. AnswerAt(n + 1, size, m)
    BY <1>5, <2>1 DEF AnswerAt
  <2>4. Stage(t, n + 1)'
    <3>1. Before((n + 1) + 1) = 0
      BY <1>b, <2>1
    <3>q. QED BY <1>5, <1>s, <1>t, <2>1, <3>1, <1>z DEF Stage
  <2>q. QED BY <1>2, <1>3, <1>5, <1>e, <2>2, <2>3, <2>4
<1>6. CASE /\ task[t].pc = "body" /\ task'[t].pc = "body" /\ m.type = "body"
           /\ m.n = Chunk(task[t].left) /\ m.n > 0 /\ task'[t].left = task[t].left - m.n
  <2>1. /\ n >= 1 /\ (n > 1 => Before(n) < size)
        /\ task[t].left = IF Before(n + 1) < size THEN size - Before(n + 1) ELSE 0
    BY <1>0, <1>6, <1>n, <1>z DEF Stage
  <2>2. OnlyAnswer(t, f, box, got[t], size)
    BY <1>6, <1>z DEF SentRight
  <2>3. /\ Before(n + 1) < size /\ task[t].left = size - Before(n + 1)
        /\ m.n = IF size - Before(n + 1) < MaxChunk THEN size - Before(n + 1) ELSE MaxChunk
    BY <1>6, <1>b, <1>t, <2>1, ProxyAssumption, <1>z DEF Chunk
  <2>4. AnswerAt(n + 1, size, m)
    BY <1>6, <1>n, <2>1, <2>3 DEF AnswerAt
  <2>5. Stage(t, n + 1)'
    <3>1. task'[t].left = IF Before((n + 1) + 1) < size THEN size - Before((n + 1) + 1) ELSE 0
      <4>1. Before((n + 1) + 1) = Before(n + 1) + MaxChunk
        BY <1>b
      <4>2. task[t].left = size - Before(n + 1) /\ task'[t].left = task[t].left - m.n
        BY <1>6, <2>3
      <4>3. size \in Nat /\ MaxChunk \in Nat /\ Before(n + 1) \in Int
        BY <1>b, <1>z, ProxyAssumption
      <4>q. QED BY <2>3, <4>1, <4>2, <4>3
    <3>q. QED BY <1>6, <1>n, <1>s, <2>1, <2>3, <3>1 DEF Stage
  <2>q. QED BY <1>2, <1>3, <1>6, <1>e, <2>2, <2>4, <2>5
<1>7. CASE task[t].pc = "body" /\ task'[t].pc = "done" /\ m.type = "end" /\ Chunk(task[t].left) = 0
  <2>1. /\ n >= 1 /\ (n > 1 => Before(n) < size)
        /\ task[t].left = IF Before(n + 1) < size THEN size - Before(n + 1) ELSE 0
    BY <1>0, <1>7, <1>n, <1>z DEF Stage
  <2>2. OnlyAnswer(t, f, box, got[t], size)
    BY <1>7, <1>z DEF SentRight
  <2>3. Before(n + 1) >= size
    <3>1. size \in Nat /\ MaxChunk \in Nat \ {0} /\ Before(n + 1) \in Int
      BY <1>b, <1>z, ProxyAssumption
    <3>2. (IF task[t].left < MaxChunk THEN task[t].left ELSE MaxChunk) = 0
      BY <1>7 DEF Chunk
    <3>3. task[t].left = 0
      BY <3>1, <3>2
    <3>q. QED BY <2>1, <3>1, <3>3
  <2>4. AnswerAt(n + 1, size, m)
    <3>1. n + 1 > 1 /\ (n + 1 > 2 => Before((n + 1) - 1) < size)
      <4>1. n + 1 > 1 /\ (n + 1 > 2 => n > 1)
        BY <1>n, <2>1
      <4>2. Before((n + 1) - 1) = Before(n)
        BY <1>b
      <4>q. QED BY <2>1, <4>1, <4>2
    <3>q. QED BY <1>7, <2>3, <3>1 DEF AnswerAt
  <2>5. Stage(t, n + 1)'
    BY <1>7 DEF Stage
  <2>q. QED BY <1>2, <1>3, <1>7, <1>e, <2>2, <2>4, <2>5
<1>8. CASE task[t].pc = "fail2" /\ task'[t].pc = "fail" /\ m.type = "failure"
  <2>1. n = 0
    BY <1>0, <1>8, <1>n DEF Stage
  <2>2. OnlyFailures(t, box, got[t])
    BY <1>0, <1>t, <2>1, NothingSent, <1>n
  <2>3. Stage(t, n + 1)'
    BY <1>8, <2>1 DEF Stage
  <2>q. QED BY <1>2, <1>3, <1>8, <1>e, <2>1, <2>2, <2>3
<1>9. CASE task[t].pc = "fail" /\ task'[t].pc = "done" /\ m.type = "failure"
  <2>1. n <= 1 /\ OnlyFailures(t, box, got[t])
    BY <1>0, <1>9, <1>n DEF Stage, SentRight
  <2>2. Stage(t, n + 1)'
    BY <1>9 DEF Stage
  <2>q. QED BY <1>2, <1>3, <1>9, <1>e, <1>n, <2>1, <2>2
<1>q. QED BY <1>5, <1>6, <1>7, <1>8, <1>9 DEF SendsOne

(* A task's own steps that send nothing. *)
LEMMA OwnRest ==
  ASSUME WsInv, NEW t \in Request, NEW f, SentRight(t, f), UNCHANGED <<box, got, gen, up>>,
         task'[t].gen = task[t].gen,
         \/ task'[t].pc = "done" /\ task'[t].size = task[t].size
         \/ /\ task[t].pc \in {"perform", "collect"} /\ task'[t].pc \in {"collect", "fail", "fail2", "start"}
            /\ task'[t].pc = "start" => task'[t].left = task'[t].size
  PROVE  SentRight(t, f)'
<1>1. CASE task'[t].pc = "done" /\ task'[t].size = task[t].size
  BY <1>1 DEF SentRight, Stage
<1>2. CASE /\ task[t].pc \in {"perform", "collect"} /\ task'[t].pc \in {"collect", "fail", "fail2", "start"}
           /\ task'[t].pc = "start" => task'[t].left = task'[t].size
  <2>t. box \in Seq(Message) /\ got[t] \in Seq(Message)
    BY DEF WsInv, ProxyTypeOK
  <2>1. f[Len(box)] = 0 /\ Counts(t, f, box, got[t])
    BY <1>2 DEF SentRight, Stage
  <2>2. OnlyFailures(t, box, got[t]) /\ \A size : OnlyAnswer(t, f, box, got[t], size)
    BY <2>1, <2>t, NothingSent
  <2>3. Stage(t, f[Len(box)])'
    BY <1>2, <2>1 DEF Stage
  <2>q. QED BY <1>2, <2>1, <2>2, <2>3 DEF SentRight
<1>q. QED BY <1>1, <1>2

(* Another task sends: its message is not counted. *)
LEMMA OtherSends ==
  ASSUME WsInv, NEW t \in Request, NEW f, SentRight(t, f), NEW m \in Message, m.of # t,
         box' = Append(box, m), UNCHANGED <<got, gen, up>>, task'[t] = task[t]
  PROVE  \E g \in [0 .. Len(box') -> Nat] : SentRight(t, g)'
<1>t. box \in Seq(Message) /\ got[t] \in Seq(Message)
  BY DEF WsInv, ProxyTypeOK
<1>0. Counts(t, f, box, got[t]) /\ Stage(t, f[Len(box)])
  BY DEF SentRight
<1>n. PICK n \in Nat : n = f[Len(box)]
  BY <1>t, <1>0 DEF Counts
<1>l. Longer(t, f, box, got[t], m)
  BY <1>0, <1>t, CountsMore
<1>1. PICK g \in [0 .. Len(box) + 1 -> Nat] :
           /\ Counts(t, g, Append(box, m), got[t])
           /\ g[Len(box) + 1] = f[Len(box)] + (IF m.of = t THEN 1 ELSE 0)
           /\ \A i \in 0 .. Len(box) : g[i] = f[i]
  BY <1>l DEF Longer
<1>2. /\ Counts(t, g, box', got'[t]) /\ Len(box') = Len(box) + 1 /\ g[Len(box')] = n
      /\ g \in [0 .. Len(box') -> Nat]
  BY <1>1, <1>n, <1>t
<1>3. /\ OnlyFailures(t, box, got[t]) => OnlyFailures(t, box', got'[t])
      /\ OnlyAnswer(t, f, box, got[t], task[t].size) => OnlyAnswer(t, g, box', got'[t], task[t].size)
  BY <1>1, <1>t, SentMore
<1>4. Stage(t, n)'
  BY <1>0, <1>n DEF Stage, Gone
<1>5. SentRight(t, g)'
  BY <1>2, <1>3, <1>4, <1>n DEF SentRight, Gone
<1>q. QED BY <1>2, <1>5

(* The outbox moves on to the client. *)
LEMMA Drained ==
  ASSUME WsInv, NEW t \in Request, NEW f, SentRight(t, f), box # <<>>, box' = Tail(box),
         got' \in [Request -> Seq(Message)],
         got'[t] = IF t = Head(box).of THEN Append(got[t], Head(box)) ELSE got[t],
         UNCHANGED <<gen, up, task>>
  PROVE  \E g \in [0 .. Len(box') -> Nat] : SentRight(t, g)'
<1>t. box \in Seq(Message) /\ got[t] \in Seq(Message) /\ got'[t] \in Seq(Message)
  BY DEF WsInv, ProxyTypeOK
<1>0. Counts(t, f, box, got[t]) /\ Stage(t, f[Len(box)])
  BY DEF SentRight
<1>n. PICK n \in Nat : n = f[Len(box)]
  <2>1. Len(box) \in 0 .. Len(box)
    BY <1>t
  <2>2. f \in [0 .. Len(box) -> Nat]
    BY <1>0 DEF Counts
  <2>q. QED BY <2>1, <2>2
<1>l. Shorter(t, f, box, got[t], got'[t])
  BY <1>0, <1>t, CountsOn
<1>1. PICK g \in [0 .. Len(Tail(box)) -> Nat] :
        /\ Counts(t, g, Tail(box), got'[t]) /\ g[Len(Tail(box))] = f[Len(box)]
        /\ OnlyFailures(t, box, got[t]) => OnlyFailures(t, Tail(box), got'[t])
        /\ \A size : OnlyAnswer(t, f, box, got[t], size) => OnlyAnswer(t, g, Tail(box), got'[t], size)
  BY <1>l DEF Shorter
<1>2. /\ Counts(t, g, box', got'[t]) /\ g[Len(box')] = n /\ g \in [0 .. Len(box') -> Nat]
      /\ OnlyFailures(t, box, got[t]) => OnlyFailures(t, box', got'[t])
      /\ OnlyAnswer(t, f, box, got[t], task[t].size) => OnlyAnswer(t, g, box', got'[t], task[t].size)
  BY <1>1, <1>n
<1>4. Stage(t, n)'
  BY <1>0, <1>n DEF Stage, Gone
<1>5. SentRight(t, g)'
  BY <1>2, <1>4, <1>n DEF SentRight, Gone
<1>q. QED BY <1>2, <1>5

(* The outbox is lost with its carrier. *)
LEMMA Lost ==
  ASSUME WsInv, NEW t \in Request, NEW f, SentRight(t, f), box' = <<>>, UNCHANGED <<got, task>>, up' = FALSE
  PROVE  \E g \in [0 .. Len(box') -> Nat] : SentRight(t, g)'
<1>t. box \in Seq(Message) /\ got[t] \in Seq(Message) /\ Len(got[t]) \in Nat
  BY DEF WsInv, ProxyTypeOK
<1>0. Counts(t, f, box, got[t]) /\ Stage(t, f[Len(box)])
  BY DEF SentRight
<1>1. f[0] = Len(got[t]) /\ f[0] <= f[Len(box)] /\ f[0] \in Nat /\ f[Len(box)] \in Nat
  <2>1. Len(box) \in Nat
    BY <1>t
  <2>2. 0 \in 0 .. Len(box) /\ Len(box) \in 0 .. Len(box)
    BY <2>1
  <2>q. QED BY <1>0, <2>2 DEF Counts
<1> DEFINE g == [i \in 0 .. 0 |-> f[0]]
<1>2. Len(box') = 0 /\ g \in [0 .. 0 -> Nat] /\ g[0] = f[0]
  BY <1>1
<1> HIDE DEF g
<1>3. PICK e \in [0 .. 0 -> Nat] : e[0] = f[0]
  BY <1>2
<1>4. Counts(t, e, box', got'[t])
  BY <1>1, <1>2, <1>3 DEF Counts
<1>5. /\ OnlyFailures(t, box, got[t]) => OnlyFailures(t, box', got'[t])
      /\ OnlyAnswer(t, f, box, got[t], task[t].size) => OnlyAnswer(t, e, box', got'[t], task[t].size)
  BY <1>2 DEF OnlyFailures, OnlyAnswer
<1>6. Gone(t)'
  BY DEF Gone
<1>7. Stage(t, e[Len(box)])'
  BY <1>0, <1>1, <1>2, <1>3, <1>6 DEF Stage
<1>8. e[Len(box')] <= f[Len(box)]
  BY <1>1, <1>2, <1>3
<1>9. SentRight(t, e)'
  <2>1. OnlyFailures(t, box, got[t]) /\ f[Len(box)] <= 2 => OnlyFailures(t, box', got'[t]) /\ e[Len(box')] <= 2
    BY <1>1, <1>2, <1>3, <1>5
  <2>q. QED BY <1>4, <1>5, <1>6, <1>7, <2>1 DEF SentRight
<1>q. QED BY <1>2, <1>9

LEMMA RequestStep ==
  ASSUME AnswerInv, [Next]_vars, NEW t \in Request
  PROVE  RequestRight(t)'
<1>i. /\ WsInv /\ ProxyTypeOK /\ Placed /\ Pumping /\ Referred /\ RequestRight(t)
  BY DEF AnswerInv, WsInv
<1>t. t \in Task /\ task[t].gen \in Nat /\ gen \in Nat
  BY <1>i DEF Task, ProxyTypeOK, TaskRecord
<1>0. task[t].kind \in {"none", "request"} /\ task[t].gen <= gen
  BY <1>i DEF RequestRight
<1>f. PICK f \in [0 .. Len(box) -> Nat] : SentRight(t, f)
  BY <1>i DEF RequestRight
<1>p. /\ task[t].pc \notin {"upgrade", "opened", "insert", "lookup", "deliver", "closeAll"}
      /\ sock[t].reader = "none"
  BY <1>0, <1>i, <1>t DEF Placed, Pumping
<1>e. ASSUME \E g \in [0 .. Len(box') -> Nat] : SentRight(t, g)', task'[t].kind = task[t].kind,
             task'[t].gen = task[t].gen, gen' = gen
      PROVE  RequestRight(t)'
  BY <1>0, <1>e DEF RequestRight
<1>s. ASSUME UNCHANGED <<box, got>>, task'[t] = task[t], Gone(t) => Gone(t)', gen' \in {gen, gen + 1}
      PROVE  RequestRight(t)'
  <2>1. SentRight(t, f)'
    BY <1>f, <1>s DEF SentRight, Stage
  <2>2. task'[t].gen <= gen'
    BY <1>0, <1>s, <1>t
  <2>q. QED BY <1>0, <1>s, <2>1, <2>2 DEF RequestRight
<1>1. CASE Drain
  <2>0. /\ UNCHANGED <<gen, task>> /\ got' \in [Request -> Seq(Message)] /\ box # <<>> /\ up
    BY <1>1, <1>i, DrainEffect
  <2>1. CASE Head(box).wide
    <3>1. up' = FALSE /\ box' = <<>> /\ got' = got
      BY <1>1, <2>1 DEF Drain, Breaks
    <3>2. \E g \in [0 .. Len(box') -> Nat] : SentRight(t, g)'
      BY <1>f, <1>i, <2>0, <3>1, Lost
    <3>q. QED BY <1>e, <2>0, <3>2
  <2>2. CASE ~Head(box).wide
    <3>1. /\ box' = Tail(box) /\ up' = up
          /\ got'[t] = IF t = Head(box).of THEN Append(got[t], Head(box)) ELSE got[t]
      BY <1>1, <2>2 DEF Drain
    <3>2. \E g \in [0 .. Len(box') -> Nat] : SentRight(t, g)'
      BY <1>f, <1>i, <2>0, <3>1, Drained
    <3>q. QED BY <1>e, <2>0, <3>2
  <2>q. QED BY <2>1, <2>2
<1>2. CASE CarrierBreaks
  <2>1. UNCHANGED <<gen, task, got>> /\ up' = FALSE /\ box' = <<>>
    BY <1>2, <1>i, BreakEffect
  <2>2. \E g \in [0 .. Len(box') -> Nat] : SentRight(t, g)'
    BY <1>f, <1>i, <2>1, Lost
  <2>q. QED BY <1>e, <2>1, <2>2
<1>3. CASE Redial
  <2>1. UNCHANGED <<box, task, got>> /\ gen' = gen + 1
    BY <1>3, <1>i, RedialEffect
  <2>2. Gone(t)'
    BY <1>0, <1>t, <2>1 DEF Gone
  <2>q. QED BY <1>s, <2>1, <2>2
<1>4. CASE UNCHANGED vars
  BY <1>4, <1>s DEF vars, Gone
<1>5. ASSUME NEW q \in Task, NEW kind \in Kind, NEW i \in Id, Arrive(q, kind, i) PROVE RequestRight(t)'
  <2>1. UNCHANGED <<gen, up, box, got>>
    BY <1>5, <1>i, ArriveEffect
  <2>2. CASE q # t
    <3>1. task'[t] = task[t]
      BY <1>5, <1>i, <1>t, <2>2, ArriveEffect
    <3>q. QED BY <1>s, <2>1, <3>1 DEF Gone
  <2>3. CASE q = t
    <3>1. kind = "request"
      BY <1>5, <2>3 DEF Arrive
    <3>2. task[t].pc = "idle" /\ task'[t].pc = "perform" /\ task'[t].kind = "request" /\ task'[t].gen = gen
      BY <1>5, <1>i, <2>3, <3>1, ArriveEffect DEF FirstPc
    <3>t. box \in Seq(Message) /\ got[t] \in Seq(Message)
      BY <1>i DEF ProxyTypeOK
    <3>3. f[Len(box)] = 0 /\ Counts(t, f, box, got[t])
      BY <1>f, <3>2 DEF SentRight, Stage
    <3>4. OnlyFailures(t, box, got[t]) /\ \A size : OnlyAnswer(t, f, box, got[t], size)
      BY <3>3, <3>t, NothingSent
    <3>5. Stage(t, f[Len(box)])'
      BY <2>1, <3>2, <3>3 DEF Stage
    <3>6. SentRight(t, f)'
      BY <2>1, <3>2, <3>3, <3>4, <3>5 DEF SentRight
    <3>q. QED BY <1>t, <2>1, <3>2, <3>6 DEF RequestRight
  <2>q. QED BY <2>2, <2>3
<1>6. ASSUME NEW q \in Task, Perform(q) PROVE RequestRight(t)'
  <2>1. Moves(q) /\ UNCHANGED <<gen, up, box, got>>
    BY <1>6, <1>i, PerformEffect
  <2>2. CASE q # t
    BY <1>s, <1>t, <2>1, <2>2 DEF Moves, Gone
  <2>3. CASE q = t
    <3>1. task[t].pc \in {"perform", "collect"} /\ task'[t].pc \in {"collect", "fail", "fail2", "start"}
      BY <1>6, <1>i, <1>p, <2>3, PerformEffect DEF Turns
    <3>2. task'[t].pc = "start" => task'[t].left = task'[t].size
      BY <1>6, <1>i, <2>3, AnswerReady
    <3>3. task'[t].kind = task[t].kind /\ task'[t].gen = task[t].gen
      BY <2>1, <2>3 DEF Moves
    <3>4. SentRight(t, f)'
      BY <1>f, <1>i, <2>1, <3>1, <3>2, <3>3, OwnRest
    <3>q. QED BY <1>e, <2>1, <3>3, <3>4
  <2>q. QED BY <2>2, <2>3
<1>7. ASSUME NEW q \in Task, Sending(q) PROVE RequestRight(t)'
  <2>1. Moves(q) /\ UNCHANGED <<gen, up, got>>
    BY <1>7, <1>i, SendingEffect
  <2>2. CASE q # t
    <3>0. task'[t] = task[t]
      BY <1>t, <2>1, <2>2 DEF Moves
    <3>1. CASE box' = box
      BY <1>s, <2>1, <3>0, <3>1 DEF Gone
    <3>2. CASE box' # box
      <4>1. PICK m \in Message : box' = Append(box, m) /\ m.of = q
        BY <1>7, <1>i, <3>2, SendingEffect
      <4>2. \E g \in [0 .. Len(box') -> Nat] : SentRight(t, g)'
        BY <1>f, <1>i, <2>1, <2>2, <3>0, <4>1, OtherSends
      <4>q. QED BY <1>e, <2>1, <3>0, <4>2
    <3>q. QED BY <3>1, <3>2
  <2>3. CASE q = t
    <3>0. /\ task'[t].kind = task[t].kind /\ task'[t].gen = task[t].gen
          /\ task' \in [Task -> TaskRecord] /\ (Gone(t)' <=> Gone(t))
      BY <2>1, <2>3 DEF Moves, Gone
    <3>a. /\ task'[t].size = task[t].size
          /\ \/ box' = box /\ task'[t].pc = "done"
             \/ \E m \in Message : ~Gone(t) /\ box' = Append(box, m) /\ m.of = t /\ SendsOne(t, m)
      BY <1>7, <1>i, <1>p, <2>3, AnswerSends
    <3>1. CASE box' = box /\ task'[t].pc = "done"
      <4>1. SentRight(t, f)'
        BY <1>f, <1>i, <2>1, <3>0, <3>1, <3>a, OwnRest
      <4>q. QED BY <1>e, <2>1, <3>0, <3>1, <4>1
    <3>2. ASSUME NEW m \in Message, ~Gone(t), box' = Append(box, m), m.of = t, SendsOne(t, m)
          PROVE  RequestRight(t)'
      <4>1. \E g \in [0 .. Len(box') -> Nat] : SentRight(t, g)'
        BY <1>f, <1>i, <2>1, <3>0, <3>2, <3>a, OwnSend
      <4>q. QED BY <1>e, <2>1, <3>0, <4>1
    <3>q. QED BY <3>1, <3>2, <3>a
  <2>q. QED BY <2>2, <2>3
<1>8. ASSUME NEW q \in Task, Insert(q) \/ Lookup(q) \/ Deliver(q) \/ CloseAll(q) PROVE RequestRight(t)'
  <2>1. Moves(q) /\ UNCHANGED <<gen, up, box, got>> /\ task[q].pc \in {"insert", "lookup", "deliver", "closeAll"}
    BY <1>8, <1>i, InsertEffect, LookupEffect, DeliverEffect, CloseAllEffect DEF Turns
  <2>2. q # t
    BY <1>p, <2>1
  <2>q. QED BY <1>s, <1>t, <2>1, <2>2 DEF Moves, Gone
<1>9. ASSUME NEW q \in Task, Pumps(q) PROVE RequestRight(t)'
  <2>1. UNCHANGED <<gen, up, task, got>> /\ q # t
    BY <1>9, <1>i, <1>p, ReaderEffect
  <2>2. CASE box' = box
    BY <1>s, <2>1, <2>2 DEF Gone
  <2>3. CASE box' # box
    <3>1. PICK m \in Message : box' = Append(box, m) /\ m.of = q
      BY <1>9, <1>i, <2>3, ReaderEffect
    <3>2. \E g \in [0 .. Len(box') -> Nat] : SentRight(t, g)'
      BY <1>f, <1>i, <2>1, <3>1, OtherSends
    <3>q. QED BY <1>e, <2>1, <3>2
  <2>q. QED BY <2>2, <2>3
<1>10. ASSUME NEW q \in Task, Writer(q) \/ DshCloses(q) PROVE RequestRight(t)'
  <2>1. UNCHANGED <<gen, up, box, task, got>>
    BY <1>10, <1>i, WriterEffect
  <2>q. QED BY <1>s, <2>1 DEF Gone
<1>q. QED BY <1>1, <1>2, <1>3, <1>4, <1>5, <1>6, <1>7, <1>8, <1>9, <1>10, ProxyStep

(* Nothing was sent at first. *)
LEMMA RequestsInit == Init => \A t \in Request : RequestRight(t)
<1>1. SUFFICES ASSUME Init, NEW t \in Request PROVE RequestRight(t)
  OBVIOUS
<1>2. t \in Task /\ task[t].pc = "idle" /\ task[t].kind = "none" /\ task[t].gen = 0 /\ gen = 1
      /\ box = <<>> /\ got[t] = <<>>
  BY <1>1 DEF Init, Task
<1>3. Len(box) = 0 /\ Len(got[t]) = 0
  BY <1>2
<1> DEFINE g == [i \in 0 .. 0 |-> 0]
<1>4. g \in [0 .. 0 -> Nat] /\ g[0] = 0
  OBVIOUS
<1> HIDE DEF g
<1>5. Counts(t, g, box, got[t]) /\ OnlyFailures(t, box, got[t]) /\ OnlyAnswer(t, g, box, got[t], task[t].size)
  BY <1>3, <1>4 DEF Counts, OnlyFailures, OnlyAnswer
<1>6. SentRight(t, g)
  BY <1>2, <1>3, <1>4, <1>5 DEF SentRight, Stage
<1>q. QED BY <1>2, <1>3, <1>4, <1>6 DEF RequestRight

(* What a client receives for a request is failures alone, or one answer   *)
(* every message of which is at its place: head, chunks as long as their   *)
(* place says, one end (perform, chunk_body and report_failure of          *)
(* proxy/service.rs), for every capacity of the outbox, every size of the  *)
(* body and every loss of the carrier.                                     *)
THEOREM AnswersAreWhole == Spec => []AnswerWellFormed
<1>1. Init => AnswerInv
  BY WsInit, RequestsInit DEF AnswerInv
<1>2. AnswerInv /\ [Next]_vars => AnswerInv'
  BY WsNext, RequestStep DEF AnswerInv
<1>3. AnswerInv => AnswerWellFormed
  <2>1. SUFFICES ASSUME AnswerInv, NEW t \in Request
                 PROVE  \/ Len(got[t]) <= 2 /\ \A k \in 1 .. Len(got[t]) : got[t][k].type = "failure"
                        \/ \A k \in 1 .. Len(got[t]) : AnswerAt(k, task[t].size, got[t][k])
    BY DEF AnswerWellFormed
  <2>2. PICK f \in [0 .. Len(box) -> Nat] : SentRight(t, f)
    BY <2>1 DEF AnswerInv, RequestRight
  <2>t. Len(box) \in Nat /\ Len(got[t]) \in Nat
    BY <2>1 DEF AnswerInv, WsInv, ProxyTypeOK
  <2>3. 0 \in 0 .. Len(box) /\ Len(box) \in 0 .. Len(box)
    BY <2>t
  <2>4. Len(got[t]) <= f[Len(box)] /\ f[Len(box)] \in Nat
    BY <2>2, <2>3 DEF SentRight, Counts
  <2>q. QED BY <2>2, <2>4, <2>t DEF SentRight, OnlyFailures, OnlyAnswer
<1>q. QED BY <1>1, <1>2, <1>3, PTL DEF Spec

=============================================================================
