---------------------------- MODULE UplinkProofs ----------------------------
(***************************************************************************)
(* Proofs about Uplink, for every budget, delay, outbox capacity and       *)
(* number of dials and messages.                                           *)
(***************************************************************************)
EXTENDS Uplink, SequenceTheorems, FiniteSetTheorems, TLAPS

Pc == {"dialing", "parked", "serving", "waiting", "stopped", "rejected"}

AskState == [on : Nat, st : {"none", "working", "queued", "lost", "written"}]

(* The types of what the two results are about. *)
Types ==
    /\ pc \in Pc
    /\ conn \in Nat \ {0}
    /\ outbox \in Seq(Ask)
    /\ ask \in [Ask -> AskState]
    /\ heard \in [Ask -> Nat]
    /\ log \in Seq([event : {"established", "released", "broke"}, on : Nat])

(* An outbox lives no longer than its connection and holds answers to what *)
(* came on it; nothing was answered that was not asked.                    *)
OutboxIsOfThisConnection ==
    /\ pc # "serving" => outbox = <<>>
    /\ \A k \in 1 .. Len(outbox) : ask[outbox[k]].st # "none" /\ ask[outbox[k]].on = conn
    /\ \A a \in Ask : ask[a].st = "none" => heard[a] = 0

AnswersInv == Types /\ OutboxIsOfThisConnection /\ AnswersStayHome

(* While a session is served its connection is the last one recorded.      *)
LastIsServed == pc = "serving" => log # <<>> /\ log[Len(log)].on = conn

RecordsInv == Types /\ SessionsRecorded /\ LastIsServed
-----------------------------------------------------------------------------
(* One record more turns an even log odd and an odd one even. *)
LEMMA Parity ==
  ASSUME NEW n \in Nat
  PROVE  /\ n % 2 = 0 \/ n % 2 = 1
         /\ n % 2 = 0 => (n + 1) % 2 = 1
         /\ n % 2 = 1 => (n + 1) % 2 = 0 /\ n >= 1
OBVIOUS

(* Dropping the outbox changes how far an answer is, not where it belongs. *)
LEMMA DroppedKeeps ==
  ASSUME Types, Dropped
  PROVE  /\ outbox' \in Seq(Ask)
         /\ ask' \in [Ask -> AskState]
<1>1. \A a \in Ask : [ask[a] EXCEPT !.st = "lost"] \in AskState
  <2>1. TAKE a \in Ask
  <2>2. ask[a] \in AskState BY DEF Types
  <2>q. QED BY <2>2 DEF AskState
<1>q. QED BY <1>1 DEF Types, Dropped

(* Every step keeps the types. *)
LEMMA TypesStep == ASSUME Types, [Next]_vars PROVE Types'
<1>1. CASE DialFails \/ DialRefused \/ Park \/ Dial
  BY <1>1 DEF Types, Pc, DialFails, DialRefused, Park, Dial, Again
<1>2. CASE Establish
  <2>1. log' \in Seq([event : {"established", "released", "broke"}, on : Nat])
    BY <1>2 DEF Types, Establish
  <2>q. QED BY <1>2, <2>1 DEF Types, Pc, Establish
<1>3. CASE Write
  <2>1. Head(outbox) \in Ask /\ Tail(outbox) \in Seq(Ask)
    BY <1>3 DEF Types, Write
  <2>q. QED BY <1>3, <2>1 DEF Types, Pc, Write, AskState
<1>4. CASE Shutdown
  <2>1. Dropped BY <1>4 DEF Shutdown
  <2>q. QED BY <1>4, <2>1, DroppedKeeps DEF Types, Pc, Shutdown
<1>5. ASSUME NEW life \in Life, EstablishFails(life) PROVE Types'
  BY <1>5 DEF Types, Pc, EstablishFails, Again
<1>6. ASSUME NEW life \in Life, NEW r \in BOOLEAN, WriteFails(life) \/ InboundEnds(r, life)
      PROVE  Types'
  <2>1. /\ pc' = "waiting" /\ outbox' = <<>> /\ conn' = conn /\ heard' = heard /\ Dropped
        /\ \E ok \in BOOLEAN : log' = Append(log, Released(ok))
    BY <1>6 DEF WriteFails, InboundEnds, Again, Dropped
  <2>2. \A ok \in BOOLEAN : Released(ok) \in [event : {"established", "released", "broke"}, on : Nat]
    BY DEF Types, Released
  <2>3. log' \in Seq([event : {"established", "released", "broke"}, on : Nat])
    BY <2>1, <2>2 DEF Types
  <2>q. QED BY <2>1, <2>3, DroppedKeeps DEF Types, Pc
<1>7. ASSUME NEW a \in Ask, Inbound(a) PROVE Types'
  <2>1. ask' \in [Ask -> AskState]
    BY <1>7 DEF Types, Inbound, AskState
  <2>q. QED BY <1>7, <2>1 DEF Types, Inbound
<1>8. ASSUME NEW a \in Ask, Answer(a) PROVE Types'
  <2>1. ask[a] \in AskState
    BY DEF Types
  <2>2. \A st \in {"queued", "lost"} : [ask EXCEPT ![a].st = st] \in [Ask -> AskState]
    BY <2>1 DEF Types, AskState
  <2>3. ask' \in [Ask -> AskState]
    BY <1>8, <2>2 DEF Answer
  <2>4. outbox' \in Seq(Ask)
    <3>1. outbox' = Append(outbox, a) \/ outbox' = outbox
      BY <1>8 DEF Answer
    <3>2. outbox \in Seq(Ask)
      BY DEF Types
    <3>3. Append(outbox, a) \in Seq(Ask)
      BY <3>2, AppendProperties
    <3>q. QED BY <3>1, <3>2, <3>3
  <2>q. QED BY <1>8, <2>3, <2>4 DEF Types, Answer
<1>9. CASE UNCHANGED vars
  BY <1>9 DEF Types, vars
<1>q. QED BY <1>1, <1>2, <1>3, <1>4, <1>5, <1>6, <1>7, <1>8, <1>9 DEF Next

(* Every step keeps the outbox to its connection. *)
LEMMA AnswersStep ==
  ASSUME AnswersInv, [Next]_vars
  PROVE  OutboxIsOfThisConnection' /\ AnswersStayHome'
<1> USE DEF AnswersInv, OutboxIsOfThisConnection, AnswersStayHome
<1>1. CASE DialFails \/ DialRefused \/ Park \/ Establish \/ Dial
  BY <1>1 DEF Types, DialFails, DialRefused, Park, Establish, Dial, Again
<1>3. CASE Write
  <2>1. /\ Head(outbox) \in Ask /\ Head(outbox) = outbox[1] /\ 1 \in 1 .. Len(outbox)
        /\ Len(outbox') = Len(outbox) - 1
        /\ \A k \in 1 .. Len(outbox') : outbox'[k] = outbox[k + 1] /\ k + 1 \in 1 .. Len(outbox)
    BY <1>3 DEF Types, Write
  <2>2. \A a \in Ask : ask'[a].on = ask[a].on /\ (ask'[a].st = "none" => ask[a].st = "none" /\ a # Head(outbox))
    BY <1>3, <2>1 DEF Types, Write
  <2>3. \A a \in Ask : heard'[a] = IF a = Head(outbox) THEN conn ELSE heard[a]
    BY <1>3, <2>1 DEF Types, Write
  <2>4. \A k \in 1 .. Len(outbox) : outbox[k] \in Ask
    BY DEF Types
  <2>5. \A k \in 1 .. Len(outbox') : ask'[outbox'[k]].st # "none" /\ ask'[outbox'[k]].on = conn'
    BY <1>3, <2>1, <2>2, <2>4 DEF Write
  <2>q. QED BY <1>3, <2>1, <2>2, <2>3, <2>5 DEF Write
<1>4. CASE Shutdown
  <2>1. \A a \in Ask : ask'[a].on = ask[a].on /\ (ask'[a].st = "none" => ask[a].st = "none")
    BY <1>4 DEF Types, Shutdown, Dropped
  <2>q. QED BY <1>4, <2>1 DEF Shutdown, Dropped
<1>5. ASSUME NEW life \in Life, EstablishFails(life)
      PROVE  OutboxIsOfThisConnection' /\ AnswersStayHome'
  BY <1>5 DEF Types, EstablishFails, Again
<1>6. ASSUME NEW life \in Life, NEW r \in BOOLEAN, WriteFails(life) \/ InboundEnds(r, life)
      PROVE  OutboxIsOfThisConnection' /\ AnswersStayHome'
  <2>1. outbox' = <<>> /\ heard' = heard /\ Dropped
    BY <1>6 DEF WriteFails, InboundEnds, Dropped
  <2>2. \A a \in Ask : ask'[a].on = ask[a].on /\ (ask'[a].st = "none" => ask[a].st = "none")
    BY <2>1 DEF Types, Dropped
  <2>q. QED BY <2>1, <2>2
<1>7. ASSUME NEW a \in Ask, Inbound(a)
      PROVE  OutboxIsOfThisConnection' /\ AnswersStayHome'
  <2>1. /\ \A b \in Ask : b # a => ask'[b] = ask[b]
        /\ ask'[a].st = "working" /\ ask'[a].on = conn /\ heard[a] = 0
    BY <1>7 DEF Types, Inbound
  <2>2. ask[a].st = "none"
    BY <1>7 DEF Inbound
  <2>3. \A k \in 1 .. Len(outbox) : outbox[k] \in Ask
    BY DEF Types
  <2>4. \A k \in 1 .. Len(outbox) : outbox[k] # a
    BY <2>2
  <2>q. QED BY <1>7, <2>1, <2>3, <2>4 DEF Inbound
<1>8. ASSUME NEW a \in Ask, Answer(a)
      PROVE  OutboxIsOfThisConnection' /\ AnswersStayHome'
  <2>0. PICK st \in {"queued", "lost"} : ask' = [ask EXCEPT ![a].st = st]
    BY <1>8 DEF Answer
  <2>1. /\ \A b \in Ask : ask'[b].on = ask[b].on /\ (ask'[b].st = "none" => ask[b].st = "none")
        /\ ask'[a].st # "none"
    BY <2>0 DEF Types, AskState
  <2>2. \A k \in 1 .. Len(outbox) : outbox[k] \in Ask
    BY DEF Types
  <2>3. CASE ask[a].on = conn /\ pc = "serving"
    <3>1. \A k \in 1 .. Len(outbox') : outbox'[k] = a \/ (k \in 1 .. Len(outbox) /\ outbox'[k] = outbox[k])
      BY <1>8, <2>3 DEF Types, Answer
    <3>q. QED BY <1>8, <2>1, <2>2, <2>3, <3>1 DEF Answer
  <2>4. CASE ~(ask[a].on = conn /\ pc = "serving")
    BY <1>8, <2>1, <2>2, <2>4 DEF Answer
  <2>q. QED BY <2>3, <2>4
<1>9. CASE UNCHANGED vars
  BY <1>9 DEF vars
<1>q. QED BY <1>1, <1>3, <1>4, <1>5, <1>6, <1>7, <1>8, <1>9 DEF Next

(* An answer is never written on another connection than the one its       *)
(* question came on, whatever ended the one or began the other.            *)
THEOREM AnswersNeverStray == Spec => []AnswersStayHome
<1>1. Init => AnswersInv
  BY DEF Init, AnswersInv, Types, Pc, AskState, OutboxIsOfThisConnection, AnswersStayHome
<1>2. AnswersInv /\ [Next]_vars => AnswersInv'
  BY TypesStep, AnswersStep DEF AnswersInv
<1>3. AnswersInv => AnswersStayHome
  BY DEF AnswersInv
<1>q. QED BY <1>1, <1>2, <1>3, PTL DEF Spec
-----------------------------------------------------------------------------
(* What SessionsRecorded says of one record, and of all of them.           *)
RecordOK(l, k) == IF k % 2 = 1 THEN l[k].event = "established"
                  ELSE l[k].event # "established" /\ l[k].on = l[k - 1].on

Recorded(l) == \A k \in 1 .. Len(l) : RecordOK(l, k)

(* Appending to a log leaves its records as right as they were.            *)
LEMMA EarlierOK ==
  ASSUME NEW l, NEW m, NEW k \in 1 .. Len(l), Len(l) \in Nat,
         \A j \in 1 .. Len(l) : m[j] = l[j], RecordOK(l, k)
  PROVE  RecordOK(m, k)
<1>1. CASE k = 1
  BY <1>1 DEF RecordOK
<1>2. CASE k # 1
  <2>1. k - 1 \in 1 .. Len(l)
    BY <1>2
  <2>q. QED BY <2>1 DEF RecordOK
<1>q. QED BY <1>1, <1>2

(* A record is appended only where the alternation allows it.              *)
LEMMA RecordsStep ==
  ASSUME RecordsInv, [Next]_vars
  PROVE  SessionsRecorded' /\ LastIsServed'
<1> USE DEF RecordsInv, LastIsServed
<1>a. Recorded(log) /\ (pc # "stopped" => (pc = "serving" <=> Len(log) % 2 = 1))
  BY DEF SessionsRecorded, Recorded, RecordOK
<1>b. ASSUME Recorded(log)', pc' # "stopped" => (pc' = "serving" <=> Len(log') % 2 = 1)
      PROVE  SessionsRecorded'
  BY <1>b DEF SessionsRecorded, Recorded, RecordOK
<1>0. /\ pc \in Pc /\ conn \in Nat /\ Len(log) \in Nat
      /\ log \in Seq([event : {"established", "released", "broke"}, on : Nat])
  BY DEF Types
<1>1. CASE DialFails \/ DialRefused \/ Park \/ Dial \/ Shutdown
  BY <1>0, <1>1 DEF SessionsRecorded, DialFails, DialRefused, Park, Dial, Shutdown, Again
<1>2. CASE Establish
  <2>1. /\ Len(log') = Len(log) + 1
        /\ \A k \in 1 .. Len(log) : log'[k] = log[k]
        /\ log'[Len(log')] = [event |-> "established", on |-> conn]
    BY <1>0, <1>2 DEF Establish
  <2>2. ~(Len(log) % 2 = 1)
    BY <1>2, <1>a DEF Establish
  <2>3. Len(log) % 2 = 0 /\ Len(log') % 2 = 1
    BY <1>0, <2>1, <2>2, Parity
  <2>4. Recorded(log)'
    <3>1. SUFFICES ASSUME NEW k \in 1 .. Len(log')
                   PROVE  RecordOK(log', k)
      BY DEF Recorded
    <3>2. CASE k = Len(log')
      BY <2>1, <2>3, <3>2 DEF RecordOK
    <3>3. CASE k # Len(log')
      <4>1. k \in 1 .. Len(log)
        BY <1>0, <2>1, <3>3
      <4>q. QED BY <1>0, <1>a, <2>1, <4>1, EarlierOK DEF Recorded
    <3>q. QED BY <3>2, <3>3
  <2>q. QED BY <1>2, <1>b, <2>1, <2>3, <2>4 DEF Establish
<1>3. CASE Write
  BY <1>3 DEF SessionsRecorded, Write
<1>5. ASSUME NEW life \in Life, EstablishFails(life) PROVE SessionsRecorded' /\ LastIsServed'
  BY <1>5 DEF SessionsRecorded, EstablishFails, Again
<1>6. ASSUME NEW life \in Life, NEW r \in BOOLEAN, WriteFails(life) \/ InboundEnds(r, life)
      PROVE  SessionsRecorded' /\ LastIsServed'
  <2>1. PICK ok \in BOOLEAN : log' = Append(log, Released(ok))
    BY <1>6 DEF WriteFails, InboundEnds
  <2>2. pc = "serving" /\ pc' = "waiting"
    BY <1>6 DEF WriteFails, InboundEnds, Again
  <2>3. /\ Len(log') = Len(log) + 1
        /\ \A k \in 1 .. Len(log) : log'[k] = log[k]
        /\ log'[Len(log')] = Released(ok)
    BY <1>0, <2>1
  <2>4. Released(ok).event # "established" /\ Released(ok).on = conn
    BY DEF Released
  <2>5. Len(log) % 2 = 1 /\ Len(log') % 2 = 0 /\ Len(log) >= 1
    BY <1>0, <1>a, <2>2, <2>3, Parity
  <2>6. Recorded(log)'
    <3>1. SUFFICES ASSUME NEW k \in 1 .. Len(log')
                   PROVE  RecordOK(log', k)
      BY DEF Recorded
    <3>2. CASE k = Len(log')
      <4>1. k - 1 = Len(log) /\ k - 1 \in 1 .. Len(log)
        BY <1>0, <2>3, <2>5, <3>2
      <4>2. log'[k - 1].on = conn
        BY <2>2, <2>3, <4>1
      <4>3. ~(k % 2 = 1)
        BY <2>5, <3>2
      <4>q. QED BY <2>3, <2>4, <3>2, <4>2, <4>3 DEF RecordOK
    <3>3. CASE k # Len(log')
      <4>1. k \in 1 .. Len(log)
        BY <1>0, <2>3, <3>3
      <4>q. QED BY <1>0, <1>a, <2>3, <4>1, EarlierOK DEF Recorded
    <3>q. QED BY <3>2, <3>3
  <2>q. QED BY <1>b, <2>2, <2>5, <2>6
<1>7. ASSUME NEW a \in Ask, Inbound(a) \/ Answer(a) PROVE SessionsRecorded' /\ LastIsServed'
  BY <1>7 DEF SessionsRecorded, Inbound, Answer
<1>9. CASE UNCHANGED vars
  BY <1>9 DEF SessionsRecorded, vars
<1>q. QED BY <1>1, <1>2, <1>3, <1>5, <1>6, <1>7, <1>9 DEF Next

(* The audit log's records of sessions come in pairs that name the same    *)
(* connection, for every sequence of endings.                              *)
THEOREM SessionsArePaired == Spec => []SessionsRecorded
<1>1. Init => RecordsInv
  BY DEF Init, RecordsInv, Types, Pc, AskState, SessionsRecorded, LastIsServed
<1>2. RecordsInv /\ [Next]_vars => RecordsInv'
  BY TypesStep, RecordsStep DEF RecordsInv
<1>3. RecordsInv => SessionsRecorded
  BY DEF RecordsInv
<1>q. QED BY <1>1, <1>2, <1>3, PTL DEF Spec
-----------------------------------------------------------------------------
(* The two counters of the loop are what the waits since the last session  *)
(* say they are.                                                           *)
Counted(w, n, k) == /\ IsFiniteSet(Short(w)) /\ Cardinality(Short(w)) = n
                    /\ IsFiniteSet(LongUpTo(w, Len(w))) /\ Cardinality(LongUpTo(w, Len(w))) = k

Doubling(w) == \A k \in 1 .. Len(w) : w[k] # FastDelay => w[k] = Delay(Cardinality(LongUpTo(w, k)))

WaitsInv ==
    /\ attempt \in Nat /\ fast \in 0 .. MaxFast
    /\ waits \in Seq(Int)
    /\ Counted(waits, fast, attempt)
    /\ Doubling(waits)

(* The powers of two of Backoff::delay. *)
LEMMA PowersPositive == ASSUME NEW k \in 0 .. 16 PROVE 2 ^ k \in Nat \ {0}
<1>1. CASE k \in 0 .. 5
  <2>1. /\ 2 ^ 0 \in Nat \ {0} /\ 2 ^ 1 \in Nat \ {0} /\ 2 ^ 2 \in Nat \ {0} /\ 2 ^ 3 \in Nat \ {0}
        /\ 2 ^ 4 \in Nat \ {0} /\ 2 ^ 5 \in Nat \ {0}
    OBVIOUS
  <2>2. k = 0 \/ k = 1 \/ k = 2 \/ k = 3 \/ k = 4 \/ k = 5
    BY <1>1
  <2>q. QED BY <2>1, <2>2, Zenon
<1>2. CASE k \in 6 .. 10
  <2>1. /\ 2 ^ 6 \in Nat \ {0} /\ 2 ^ 7 \in Nat \ {0} /\ 2 ^ 8 \in Nat \ {0} /\ 2 ^ 9 \in Nat \ {0}
        /\ 2 ^ 10 \in Nat \ {0}
    OBVIOUS
  <2>2. k = 6 \/ k = 7 \/ k = 8 \/ k = 9 \/ k = 10
    BY <1>2
  <2>q. QED BY <2>1, <2>2, Zenon
<1>3. CASE k \in 11 .. 16
  <2>1. /\ 2 ^ 11 \in Nat \ {0} /\ 2 ^ 12 \in Nat \ {0} /\ 2 ^ 13 \in Nat \ {0} /\ 2 ^ 14 \in Nat \ {0}
        /\ 2 ^ 15 \in Nat \ {0} /\ 2 ^ 16 \in Nat \ {0}
    OBVIOUS
  <2>2. k = 11 \/ k = 12 \/ k = 13 \/ k = 14 \/ k = 15 \/ k = 16
    BY <1>3
  <2>q. QED BY <2>1, <2>2, Zenon
<1>q. QED BY <1>1, <1>2, <1>3

(* One element more, and none at all. *)
LEMMA OneMore ==
  ASSUME NEW S, NEW x, IsFiniteSet(S), x \notin S
  PROVE  IsFiniteSet(S \cup {x}) /\ Cardinality(S \cup {x}) = Cardinality(S) + 1
BY FS_AddElement

LEMMA None == IsFiniteSet({}) /\ Cardinality({}) = 0
BY FS_EmptySet

(* A multiple is no less. *)
LEMMA Multiple == ASSUME NEW b \in Nat, NEW p \in Nat \ {0} PROVE b * p \in Int /\ b * p >= b
OBVIOUS

(* A backoff is never as short as the turn-around. *)
LEMMA DelayIsLong == ASSUME NEW n \in Nat \ {0} PROVE Delay(n) \in Int /\ Delay(n) # FastDelay
<1>1. PICK k \in 0 .. 16 : k = IF n - 1 > 16 THEN 16 ELSE n - 1
  OBVIOUS
<1>2. 2 ^ k \in Nat \ {0}
  BY PowersPositive
<1>3. Base * 2 ^ k \in Int /\ Base * 2 ^ k >= Base
  BY <1>2, Multiple, UplinkAssumption
<1>4. Delay(n) = IF Base * 2 ^ k < Ceil THEN Base * 2 ^ k ELSE Ceil
  BY <1>1 DEF Delay
<1>q. QED BY <1>3, <1>4, UplinkAssumption

(* One wait more: it is counted on one side or the other. *)
LEMMA OneMoreWait ==
  ASSUME NEW w \in Seq(Int), NEW d \in Int, NEW n \in Nat, NEW k \in Nat, Counted(w, n, k), Doubling(w)
  PROVE  /\ d = FastDelay => Counted(Append(w, d), n + 1, k) /\ Doubling(Append(w, d))
         /\ d # FastDelay /\ d = Delay(k + 1) => Counted(Append(w, d), n, k + 1) /\ Doubling(Append(w, d))
<1> DEFINE v == Append(w, d)
<1>0. /\ Len(w) \in Nat /\ Len(v) = Len(w) + 1
      /\ \A j \in 1 .. Len(w) : v[j] = w[j]
      /\ v[Len(w) + 1] = d
  OBVIOUS
<1> HIDE DEF v
<1>1. ASSUME NEW j \in 1 .. Len(w) PROVE LongUpTo(v, j) = LongUpTo(w, j)
  <2>1. \A i \in 1 .. j : v[i] = w[i]
    BY <1>0
  <2>q. QED BY <2>1 DEF LongUpTo
<1>2. \A j \in 1 .. Len(w) : v[j] # FastDelay => v[j] = Delay(Cardinality(LongUpTo(v, j)))
  BY <1>0, <1>1 DEF Doubling
<1>3. Len(w) + 1 \notin Short(w) /\ Len(w) + 1 \notin LongUpTo(w, Len(w))
  BY <1>0 DEF Short, LongUpTo
<1>4. CASE d = FastDelay
  <2>1. Short(v) = Short(w) \cup {Len(w) + 1} /\ LongUpTo(v, Len(v)) = LongUpTo(w, Len(w))
    <3>1. 1 .. Len(v) = (1 .. Len(w)) \cup {Len(w) + 1}
      BY <1>0
    <3>2. Short(v) = Short(w) \cup {Len(w) + 1}
      BY <1>0, <1>4, <3>1 DEF Short
    <3>3. LongUpTo(v, Len(v)) = LongUpTo(w, Len(w))
      BY <1>0, <1>4, <3>1 DEF LongUpTo
    <3>q. QED BY <3>2, <3>3
  <2>2. IsFiniteSet(Short(v)) /\ Cardinality(Short(v)) = n + 1
    BY <1>3, <2>1, OneMore DEF Counted
  <2>3. Doubling(v)
    BY <1>0, <1>2, <1>4 DEF Doubling
  <2>q. QED BY <1>4, <2>1, <2>2, <2>3 DEF Counted, v
<1>5. CASE d # FastDelay
  <2>1. Short(v) = Short(w) /\ LongUpTo(v, Len(v)) = LongUpTo(w, Len(w)) \cup {Len(w) + 1}
    <3>1. 1 .. Len(v) = (1 .. Len(w)) \cup {Len(w) + 1}
      BY <1>0
    <3>2. Short(v) = Short(w)
      BY <1>0, <1>5, <3>1 DEF Short
    <3>3. LongUpTo(v, Len(v)) = LongUpTo(w, Len(w)) \cup {Len(w) + 1}
      BY <1>0, <1>5, <3>1 DEF LongUpTo
    <3>q. QED BY <3>2, <3>3
  <2>0. IsFiniteSet(LongUpTo(w, Len(w))) /\ Cardinality(LongUpTo(w, Len(w))) = k
    BY DEF Counted
  <2>2. IsFiniteSet(LongUpTo(v, Len(v))) /\ Cardinality(LongUpTo(v, Len(v))) = k + 1
    <3> HIDE DEF Counted
    <3>1. /\ IsFiniteSet(LongUpTo(w, Len(w)) \cup {Len(w) + 1})
          /\ Cardinality(LongUpTo(w, Len(w)) \cup {Len(w) + 1}) = Cardinality(LongUpTo(w, Len(w))) + 1
      BY <1>3, <2>0, OneMore
    <3>q. QED BY <2>0, <2>1, <3>1
  <2>3. ASSUME d = Delay(k + 1) PROVE Doubling(v)
    BY <1>0, <1>2, <2>2, <2>3 DEF Doubling
  <2>q. QED BY <1>5, <2>1, <2>2, <2>3 DEF Counted, v
<1>q. QED BY <1>4, <1>5

(* The end of a round counts its wait. *)
LEMMA AgainKeeps == ASSUME WaitsInv, NEW s \in BOOLEAN, Again(s) PROVE WaitsInv'
<1>1. CASE s /\ fast < MaxFast
  <2>1. /\ fast' = fast + 1 /\ attempt' = attempt /\ waits' = Append(waits, FastDelay)
        /\ FastDelay \in Int /\ fast' \in 0 .. MaxFast /\ fast \in Nat /\ attempt \in Nat
    BY <1>1, UplinkAssumption DEF Again, WaitsInv
  <2>2. Counted(Append(waits, FastDelay), fast + 1, attempt) /\ Doubling(Append(waits, FastDelay))
    BY <2>1, OneMoreWait DEF WaitsInv
  <2>q. QED BY <2>1, <2>2 DEF WaitsInv
<1>2. CASE ~(s /\ fast < MaxFast)
  <2>0. attempt + 1 \in Nat \ {0} /\ fast \in Nat /\ attempt \in Nat
    BY UplinkAssumption DEF WaitsInv
  <2>1. /\ attempt' = attempt + 1 /\ fast' = fast /\ waits' = Append(waits, Delay(attempt + 1))
        /\ Delay(attempt + 1) \in Int /\ Delay(attempt + 1) # FastDelay
    BY <1>2, <2>0, DelayIsLong DEF Again, WaitsInv
  <2>2. Counted(Append(waits, Delay(attempt + 1)), fast, attempt + 1) /\ Doubling(Append(waits, Delay(attempt + 1)))
    BY <2>0, <2>1, OneMoreWait DEF WaitsInv
  <2>q. QED BY <2>0, <2>1, <2>2 DEF WaitsInv
<1>q. QED BY <1>1, <1>2

(* A session starts the count anew. *)
LEMMA NoWaits ==
  ASSUME NEW w, w = <<>>
  PROVE  w \in Seq(Int) /\ Counted(w, 0, 0) /\ Doubling(w)
<1>1. Len(w) = 0 /\ w \in Seq(Int)
  OBVIOUS
<1>2. Short(w) = {} /\ LongUpTo(w, Len(w)) = {}
  BY <1>1 DEF Short, LongUpTo
<1>3. Counted(w, 0, 0)
  BY <1>2, None DEF Counted
<1>4. Doubling(w)
  BY <1>1 DEF Doubling
<1>q. QED BY <1>1, <1>3, <1>4

LEMMA WaitsStep == ASSUME WaitsInv, [Next]_vars PROVE WaitsInv'
<1>1. CASE DialFails
  BY <1>1, AgainKeeps DEF DialFails
<1>2. CASE Establish
  <2>1. waits' = <<>> /\ attempt' = 0 /\ fast' = 0
    BY <1>2 DEF Establish
  <2>2. waits' \in Seq(Int) /\ Counted(waits', 0, 0) /\ Doubling(waits')
    BY <2>1, NoWaits
  <2>q. QED BY <2>1, <2>2, UplinkAssumption DEF WaitsInv
<1>3. ASSUME NEW life \in Life, NEW r \in BOOLEAN,
             EstablishFails(life) \/ WriteFails(life) \/ InboundEnds(r, life)
      PROVE  WaitsInv'
  <2>1. PICK s \in BOOLEAN : Again(s)
    BY <1>3 DEF EstablishFails, WriteFails, InboundEnds
  <2>q. QED BY <2>1, AgainKeeps
<1>4. ASSUME UNCHANGED <<attempt, fast, waits>> PROVE WaitsInv'
  BY <1>4 DEF WaitsInv, Counted, Doubling, Short, LongUpTo
<1>5. CASE DialRefused \/ Park \/ Write \/ Dial \/ Shutdown \/ UNCHANGED vars
  BY <1>4, <1>5 DEF DialRefused, Park, Write, Dial, Shutdown, vars
<1>6. ASSUME NEW a \in Ask, Inbound(a) \/ Answer(a) PROVE WaitsInv'
  BY <1>4, <1>6 DEF Inbound, Answer
<1>q. QED BY <1>1, <1>2, <1>3, <1>5, <1>6 DEF Next

(* Who cannot be served is left in peace: between two sessions the loop    *)
(* redials at most MAX_FAST_RE_REGISTRATIONS times without backing off,    *)
(* and its n-th backoff is the n-th of Backoff::delay, however dials and   *)
(* connections end.                                                        *)
THEOREM LeftInPeace == Spec => []RedialsBounded
<1>1. Init => WaitsInv
  BY NoWaits, UplinkAssumption DEF Init, WaitsInv
<1>2. WaitsInv /\ [Next]_vars => WaitsInv'
  BY WaitsStep
<1>3. WaitsInv => RedialsBounded
  BY UplinkAssumption DEF WaitsInv, RedialsBounded, Counted, Doubling
<1>q. QED BY <1>1, <1>2, <1>3, PTL DEF Spec
=============================================================================
