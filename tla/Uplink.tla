------------------------------- MODULE Uplink -------------------------------
(***************************************************************************)
(* The daemon's dial loop: run in uplink.rs, with its Backoff and the      *)
(* IdleDropWatch of deployment.rs.                                         *)
(*                                                                         *)
(* The loop dials the relay, parks the room, serves one session on the     *)
(* connection and dials again when that ends.  Every inbound message is    *)
(* handled by a task; the answer goes into the outbox of the connection    *)
(* the message came on, which dies with it.  The sealed session itself is  *)
(* the subject of Carrier.tla.                                             *)
(***************************************************************************)
EXTENDS Integers, Sequences, FiniteSets, SequencesExt

CONSTANTS
    MaxFast,    \* MAX_FAST_RE_REGISTRATIONS
    Base, Ceil, \* Backoff::base and Backoff::max
    FastDelay,  \* RE_REGISTER_DELAY_MS
    OutCap,     \* capacity of an outbox (64)
    MinLife,    \* MIN_SUSPICIOUS_LIFETIME
    Observed,   \* OBSERVATIONS_BEFORE_WARNING
    Life,       \* bound of the model: how long connections live
    Asks,       \* bound of the model: messages clients send
    MaxConn     \* bound of the model: dials

ASSUME UplinkAssumption ==
    /\ MaxFast \in Nat /\ Base \in Nat \ {0} /\ Ceil \in Nat /\ FastDelay \in Nat
    /\ FastDelay < Base /\ Base <= Ceil
    /\ OutCap \in Nat \ {0} /\ MinLife \in Nat /\ Observed \in Nat \ {0} /\ Life \subseteq Nat
    /\ Asks \in Nat /\ MaxConn \in Nat

Ask == 1 .. Asks

VARIABLES
    pc,       \* "dialing", "parked", "serving", "waiting", "stopped", "rejected"
    conn,     \* how many dials there were: the current connection
    attempt, fast, \* the two counters of the loop
    delay,    \* what it waits for before the next dial
    outbox,   \* the answers queued on this connection
    ask,      \* of every message: the connection it came on and how far its answer is
    watch,    \* IdleDropWatch: recent lifetimes, and whether it has warned
    log,      \* the TunnelEstablished and TunnelReleased records
    \* History, read by properties only.
    waits,    \* the delays waited for since the last session
    heard     \* the connection on which the answer to a message was written

vars == <<pc, conn, attempt, fast, delay, outbox, ask, watch, log, waits, heard>>

Init ==
    /\ pc = "dialing" /\ conn = 1 /\ attempt = 0 /\ fast = 0 /\ delay = 0
    /\ outbox = <<>> /\ ask = [a \in Ask |-> [on |-> 0, st |-> "none"]]
    /\ watch = [recent |-> <<>>, warned |-> FALSE]
    /\ log = <<>> /\ waits = <<>> /\ heard = [a \in Ask |-> 0]

-----------------------------------------------------------------------------
(* Backoff::delay: doubling, with a ceiling and an exponent of at most 16. *)
Delay(n) == LET d == Base * 2 ^ (IF n - 1 > 16 THEN 16 ELSE n - 1)
            IN  IF d < Ceil THEN d ELSE Ceil

Abs(n) == IF n < 0 THEN -n ELSE n

(* All lifetimes within a fifth of their mean (REGULARITY_TOLERANCE). *)
Regular(ls) == LET sum == FoldLeft(LAMBDA x, y : x + y, 0, ls) IN
               \A k \in 1 .. Len(ls) : 5 * Abs(Len(ls) * ls[k] - sum) <= sum

(* IdleDropWatch::observe. *)
Observe(w, life, carried) ==
    IF w.warned \/ carried \/ life < MinLife THEN w
    ELSE LET all == Append(w.recent, life)
             new == IF Len(all) > Observed THEN Tail(all) ELSE all
         IN  [recent |-> new, warned |-> Len(new) = Observed /\ Regular(new)]

(* The end of one round of the loop: the turn-around for a connection      *)
(* whose session ended, as long as its budget lasts, or the backoff.       *)
Again(sessionEnded) ==
    /\ pc' = "waiting"
    /\ IF sessionEnded /\ fast < MaxFast
       THEN fast' = fast + 1 /\ delay' = FastDelay /\ UNCHANGED attempt
       ELSE attempt' = attempt + 1 /\ delay' = Delay(attempt') /\ UNCHANGED fast
    /\ waits' = Append(waits, delay')

(* The outbox goes with its connection, and with it what was queued.       *)
Dropped == /\ outbox' = <<>>
           /\ ask' = [a \in Ask |-> IF ask[a].st = "queued" THEN [ask[a] EXCEPT !.st = "lost"] ELSE ask[a]]

DialFails ==
    /\ pc = "dialing"
    /\ Again(FALSE)
    /\ UNCHANGED <<conn, outbox, ask, watch, log, heard>>

(* The relay refused for good: the loop ends with the error. *)
DialRefused ==
    /\ pc = "dialing"
    /\ pc' = "rejected"
    /\ UNCHANGED <<conn, attempt, fast, delay, outbox, ask, watch, log, waits, heard>>

(* Mutant: the counters are reset as soon as the relay answers. *)
ParkResets ==
    /\ pc = "dialing"
    /\ pc' = "parked" /\ attempt' = 0 /\ fast' = 0
    /\ UNCHANGED <<conn, delay, outbox, ask, watch, log, waits, heard>>

(* The room is parked; neither counter is reset. *)
Park ==
    /\ pc = "dialing"
    /\ pc' = "parked"
    /\ UNCHANGED <<conn, attempt, fast, delay, outbox, ask, watch, log, waits, heard>>

(* No client came before the carrier ended, or it could not prove itself. *)
EstablishFails(life) ==
    /\ pc = "parked"
    /\ watch' = Observe(watch, life, FALSE)
    /\ Again(TRUE)
    /\ UNCHANGED <<conn, outbox, ask, log, heard>>

(* A session: only this resets the counters. *)
Establish ==
    /\ pc = "parked"
    /\ pc' = "serving" /\ attempt' = 0 /\ fast' = 0 /\ waits' = <<>>
    /\ log' = Append(log, [event |-> "established", on |-> conn])
    /\ UNCHANGED <<conn, delay, outbox, ask, watch, heard>>

(* An inbound frame is handed to a task, ... *)
Inbound(a) ==
    /\ pc = "serving" /\ ask[a].st = "none" /\ (a > 1 => ask[a - 1].st # "none")
    /\ ask' = [ask EXCEPT ![a] = [on |-> conn, st |-> "working"]]
    /\ UNCHANGED <<pc, conn, attempt, fast, delay, outbox, watch, log, waits, heard>>

(* Mutant: one outbox for all connections. *)
AnswerAnywhere(a) ==
    /\ ask[a].st = "working" /\ pc = "serving" /\ Len(outbox) < OutCap
    /\ outbox' = Append(outbox, a)
    /\ ask' = [ask EXCEPT ![a].st = "queued"]
    /\ UNCHANGED <<pc, conn, attempt, fast, delay, watch, log, waits, heard>>

(* ... whose answer waits for room in the outbox of that connection; when  *)
(* the connection is gone the send fails and the answer is dropped.        *)
Answer(a) ==
    /\ ask[a].st = "working"
    /\ IF ask[a].on = conn /\ pc = "serving"
       THEN /\ Len(outbox) < OutCap
            /\ outbox' = Append(outbox, a)
            /\ ask' = [ask EXCEPT ![a].st = "queued"]
       ELSE /\ ask' = [ask EXCEPT ![a].st = "lost"]
            /\ UNCHANGED outbox
    /\ UNCHANGED <<pc, conn, attempt, fast, delay, watch, log, waits, heard>>

Write ==
    /\ pc = "serving" /\ outbox # <<>>
    /\ outbox' = Tail(outbox)
    /\ ask' = [ask EXCEPT ![Head(outbox)].st = "written"]
    /\ heard' = [heard EXCEPT ![Head(outbox)] = conn]
    /\ UNCHANGED <<pc, conn, attempt, fast, delay, watch, log, waits>>

Released(ok) == [event |-> IF ok THEN "released" ELSE "broke", on |-> conn]

(* The socket died under a write. *)
WriteFails(life) ==
    /\ pc = "serving" /\ outbox # <<>>
    /\ watch' = Observe(watch, life, TRUE)
    /\ log' = Append(log, Released(FALSE))
    /\ Dropped
    /\ Again(FALSE)
    /\ UNCHANGED <<conn, heard>>

(* Mutant: only what the relay released is recorded. *)
InboundEndsQuietly(released, life) ==
    /\ pc = "serving"
    /\ watch' = Observe(watch, life, TRUE)
    /\ log' = IF released THEN Append(log, Released(TRUE)) ELSE log
    /\ Dropped
    /\ Again(released)
    /\ UNCHANGED <<conn, heard>>

(* next_inbound fails: released_by_relay tells a session the relay ended   *)
(* from a carrier that broke.                                              *)
InboundEnds(released, life) ==
    /\ pc = "serving"
    /\ watch' = Observe(watch, life, TRUE)
    /\ log' = Append(log, Released(released))
    /\ Dropped
    /\ Again(released)
    /\ UNCHANGED <<conn, heard>>

(* The delay is over. *)
Dial ==
    /\ pc = "waiting" /\ conn < MaxConn
    /\ pc' = "dialing" /\ conn' = conn + 1
    /\ UNCHANGED <<attempt, fast, delay, outbox, ask, watch, log, waits, heard>>

(* The shutdown wins a select!, at every await but the dial's own.  The    *)
(* end of a session under way is not recorded.                             *)
Shutdown ==
    /\ pc \in {"parked", "serving", "waiting"}
    /\ pc' = "stopped"
    /\ Dropped
    /\ UNCHANGED <<conn, attempt, fast, delay, watch, log, waits, heard>>

Next ==
    \/ DialFails \/ DialRefused \/ Park \/ Establish \/ Write \/ Dial \/ Shutdown
    \/ \E life \in Life : EstablishFails(life) \/ WriteFails(life)
    \/ \E life \in Life, released \in BOOLEAN : InboundEnds(released, life)
    \/ \E a \in Ask : Inbound(a) \/ Answer(a)

Spec == Init /\ [][Next]_vars

-----------------------------------------------------------------------------
(* Which waits of w are the short one, and which of its first k are not.   *)
Short(w)       == {k \in 1 .. Len(w) : w[k] = FastDelay}
LongUpTo(w, k) == {j \in 1 .. k : w[j] # FastDelay}

(* Who cannot be served is left in peace: of the waits since the last      *)
(* session at most MAX_FAST_RE_REGISTRATIONS are the short one, however    *)
(* the connections ended and however many dials succeeded - a relay that   *)
(* closes every carrier, or two daemons that supersede each other - and    *)
(* the others double up to the ceiling: the n-th of them is Delay(n), with *)
(* none of the jitter that the header of uplink.rs speaks of.              *)
RedialsBounded ==
    /\ Cardinality(Short(waits)) <= MaxFast
    /\ \A k \in 1 .. Len(waits) :
         waits[k] # FastDelay => waits[k] = Delay(Cardinality(LongUpTo(waits, k)))

(* The audit log tells sessions apart: records alternate, a release names  *)
(* the connection that was established last, and while the daemon runs a   *)
(* session is open in the log exactly as long as it is served.  (After a   *)
(* shutdown the last release may be missing.)                              *)
SessionsRecorded ==
    /\ \A k \in 1 .. Len(log) :
         IF k % 2 = 1 THEN log[k].event = "established"
         ELSE log[k].event # "established" /\ log[k].on = log[k - 1].on
    /\ pc # "stopped" => (pc = "serving" <=> Len(log) % 2 = 1)

(* An answer is written on the connection its question came on or not at   *)
(* all: what was queued for a dead carrier never reaches the next one.     *)
AnswersStayHome == \A a \in Ask : heard[a] # 0 => heard[a] = ask[a].on
=============================================================================
