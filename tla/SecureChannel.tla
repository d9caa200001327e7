---------------------------- MODULE SecureChannel ----------------------------
(***************************************************************************)
(* What a session of dr.dsh promises its two ends, with no relay, no keys  *)
(* and no counters: an end has at most one partner, for ever; a daemon end *)
(* commits to a client end and the client confirms that very daemon end;   *)
(* and each end receives exactly what its partner sent, in order, without  *)
(* a gap or a repetition, as far as it receives anything.                  *)
(***************************************************************************)
EXTENDS Naturals, Sequences

CONSTANTS End, NoEnd

VARIABLES
    partner,  \* the end each end is bound to
    sent,     \* how many messages each end has sent on its session
    rcvd      \* the messages each end has received, as <<sender, number>>

chanVars == <<partner, sent, rcvd>>

ChanInit ==
    /\ partner = [e \in End |-> NoEnd]
    /\ sent = [e \in End |-> 0]
    /\ rcvd = [e \in End |-> <<>>]

Commit(d, c) ==
    /\ partner[d] = NoEnd
    /\ \A e \in End : partner[e] \notin {c, d}
    /\ partner' = [partner EXCEPT ![d] = c]
    /\ UNCHANGED <<sent, rcvd>>

Confirm(c, d) ==
    /\ partner[c] = NoEnd
    /\ partner[d] = c
    /\ partner' = [partner EXCEPT ![c] = d]
    /\ UNCHANGED <<sent, rcvd>>

Send(e) ==
    /\ partner[e] # NoEnd
    /\ sent' = [sent EXCEPT ![e] = @ + 1]
    /\ UNCHANGED <<partner, rcvd>>

Deliver(e) ==
    /\ partner[e] # NoEnd
    /\ Len(rcvd[e]) < sent[partner[e]]
    /\ rcvd' = [rcvd EXCEPT ![e] = Append(@, <<partner[e], Len(@) + 1>>)]
    /\ UNCHANGED <<partner, sent>>

ChanNext == \E e \in End : \/ Send(e)
                           \/ Deliver(e)
                           \/ \E f \in End \ {e} : Commit(e, f) \/ Confirm(e, f)

ChanSpec == ChanInit /\ [][ChanNext]_chanVars
=============================================================================
