--------------------------- MODULE IceNegotiation ---------------------------
(* Offer, answer and trickled candidates between two peers, from the         *)
(* signalling thread through the ICE worker to the agent: MiniRtcConnection  *)
(* and IceTransport on both sides.  The peer o is told that the peer a has   *)
(* joined and makes the offers; a answers them.  A peer that joins again     *)
(* starts a new exchange while messages of the old one are still under way.  *)
(*                                                                           *)
(* An ICE generation is a number, the ufrag of the transport that made it;   *)
(* a candidate is a number, EndOfCandidates the completion marker.  The      *)
(* signalling server keeps the order of what it forwards between two peers   *)
(* and loses what it is given while a connection to it is down.  A           *)
(* connection that fails is retired by its own status callback, and cleaned  *)
(* up by the ICE worker before its next message: here in the same step.      *)
EXTENDS Integers, Sequences, FiniteSets

CONSTANTS
    Candidates,    \* what each agent gathers
    MaxPending,    \* limit of both queues of early candidates
    JoinLimit,     \* bound: times a joins
    MaxLost,       \* bound: messages lost, candidates refused
    MaxFailures    \* bound: transports that cannot be created, refused
                   \* offers and answers

ASSUME NegotiationAssumption ==
    /\ Candidates \subseteq Nat \ {0} /\ IsFiniteSet(Candidates)
    /\ {MaxPending, JoinLimit, MaxLost, MaxFailures} \subseteq Nat

Peers == {"o", "a"}
Other(p) == IF p = "o" THEN "a" ELSE "o"
EndOfCandidates == 0
NoUfrag == 0

VARIABLES
    net,         \* net[p]: signalling messages on their way to p
    work,        \* work[p]: ice_work_msg_queue_ of p
    conns,       \* conns[p]: the MiniRtcConnection of p and its IceTransport
    ufrags,      \* generations made so far
    joins, lost, failures,
    overlapped   \* a joined again before o's offer to it was answered, or a
                 \* worker had work of the exchange before

ice_vars == <<net, work, conns, ufrags, joins, lost, failures, overlapped>>

Message(type, ufrag, sdp) == [type |-> type, ufrag |-> ufrag, sdp |-> sdp]

NoTransport ==
    [me |-> NoUfrag, remote |-> NoUfrag, pending |-> <<>>, keys |-> {},
     remote_done |-> FALSE, gathering |-> FALSE, seen |-> {}, local_done |-> FALSE]
NoConnection == [exists |-> FALSE, pending |-> <<>>, t |-> NoTransport]
NewConnection == [NoConnection EXCEPT !.exists = TRUE]

HasTransport(k) == k.t.me # NoUfrag

\* A message is handed to the signalling connection, which may be down.
Send(p, m) ==
    \/ net' = [net EXCEPT ![p] = Append(@, m)] /\ UNCHANGED lost
    \/ lost < MaxLost /\ lost' = lost + 1 /\ UNCHANGED net
-----------------------------------------------------------------------------
(* IceTransport                                                              *)

Queued(early, m) ==
    IF Len(early) < MaxPending /\ \A i \in DOMAIN early : early[i] # m
    THEN Append(early, m) ELSE early

\* A candidate of another generation than the remote description is ignored.
OtherGeneration(t, m) == t.remote # NoUfrag /\ m.ufrag # t.remote

\* Mutant: completion is noted at once, though the description is missing.
AddRemoteCandidateEager(t, m) ==
    IF OtherGeneration(t, m) THEN t
    ELSE IF m.sdp = EndOfCandidates THEN [t EXCEPT !.remote_done = TRUE]
    ELSE IF t.remote = NoUfrag THEN [t EXCEPT !.pending = Queued(@, m)]
    ELSE IF t.remote_done THEN t
    ELSE [t EXCEPT !.keys = @ \cup {m}]

AddRemoteCandidate(t, m) ==
    IF OtherGeneration(t, m) THEN t
    ELSE IF t.remote = NoUfrag THEN [t EXCEPT !.pending = Queued(@, m)]
    ELSE IF m.sdp = EndOfCandidates THEN [t EXCEPT !.remote_done = TRUE]
    ELSE IF t.remote_done THEN t
    ELSE [t EXCEPT !.keys = @ \cup {m}]

\* What AddRemoteCandidate makes of a queue of early candidates, in their order,
\* in a transport that has none queued: without a description it queues them
\* all, as its limit is that of the queue they come from; with one, those of its
\* generation reach the agent up to the first marker.
Replayed(t, early) ==
    LET current == {i \in DOMAIN early : early[i].ufrag = t.remote}
        marks == {i \in current : early[i].sdp = EndOfCandidates}
        given == {i \in current : ~t.remote_done /\ \A j \in marks : i < j}
    IN  IF t.remote = NoUfrag THEN [t EXCEPT !.pending = early]
        ELSE [t EXCEPT !.keys = @ \cup {early[i] : i \in given},
                       !.remote_done = @ \/ marks # {}]

\* Credentials never change in one transport.
Acceptable(t, ufrag) == t.remote \in {NoUfrag, ufrag}

\* The candidates that were early follow the description.
SetRemoteSdp(t, ufrag) ==
    Replayed([t EXCEPT !.remote = ufrag, !.pending = <<>>], t.pending)
-----------------------------------------------------------------------------
(* MiniRtcConnection::ProcessIceWorkMsg                                      *)

\* FlushRemoteIceCandidates, into a transport that has just been made.
Flushed(k) == [k EXCEPT !.pending = <<>>, !.t = Replayed(@, k.pending)]

\* The credentials have expired or InitIceTransmission fails: the status
\* "failed" retires the connection.
InitFails(p) ==
    /\ failures < MaxFailures
    /\ failures' = failures + 1
    /\ conns' = [conns EXCEPT ![p] = NoConnection]
    /\ UNCHANGED <<net, ufrags, lost>>

\* A transport replaces the one a connection has: DestroyIceTransmission of
\* the old one reports "closed", which retires the connection with both.
Replaced(k, t) ==
    IF HasTransport(k) THEN NoConnection ELSE Flushed([k EXCEPT !.t = t])

NewTransport == [NoTransport EXCEPT !.me = ufrags + 1]

\* UserJoinTransmission: a new transport and an offer; gathering waits for the
\* answer.
OnJoin(p) ==
    /\ ufrags' = ufrags + 1
    /\ conns' = [conns EXCEPT ![p] = Replaced(@, NewTransport)]
    /\ Send(Other(p), Message("offer", ufrags + 1, NoUfrag))
    /\ UNCHANGED failures

\* Offer: a new transport, the answer, then gathering.
OnOffer(p, m) ==
    LET t == [SetRemoteSdp(NewTransport, m.ufrag) EXCEPT !.gathering = TRUE]
    IN  /\ ufrags' = ufrags + 1
        /\ conns' = [conns EXCEPT ![p] = Replaced(@, t)]
        /\ Send(Other(p), Message("answer", ufrags + 1, NoUfrag))
        /\ UNCHANGED failures

\* The offer has no payload type in common with us: no answer, and nobody is
\* told.
OfferRefused(p) ==
    /\ failures < MaxFailures
    /\ failures' = failures + 1
    /\ ufrags' = ufrags + 1
    /\ conns' = [conns EXCEPT ![p] = IF HasTransport(@) THEN NoConnection
                                    ELSE [@ EXCEPT !.t = NewTransport]]
    /\ UNCHANGED <<net, lost>>

\* Mutant: the offerer gathers only what it was asked for before the answer.
AnsweredIdle(t, ufrag) == SetRemoteSdp(t, ufrag)

Answered(t, ufrag) ==
    [SetRemoteSdp(t, ufrag) EXCEPT !.gathering = ~t.local_done]

OnAnswer(p, m) ==
    /\ conns' = [conns EXCEPT ![p].t =
                    IF HasTransport(conns[p]) /\ Acceptable(@, m.ufrag)
                    THEN Answered(@, m.ufrag)
                    ELSE @]
    /\ UNCHANGED <<net, ufrags, lost, failures>>

\* SetRemoteSdp refuses the answer, which is then not there: nobody is told, and
\* the transport goes on waiting for one.
AnswerRefused(p) ==
    /\ HasTransport(conns[p])
    /\ failures < MaxFailures
    /\ failures' = failures + 1
    /\ UNCHANGED <<net, conns, ufrags, lost>>

\* A candidate before the transport waits in the connection.
ApplyRemoteIceCandidate(p, m) ==
    /\ conns' = [conns EXCEPT ![p] =
                    IF HasTransport(@)
                    THEN [conns[p] EXCEPT !.t = AddRemoteCandidate(@, m)]
                    ELSE [conns[p] EXCEPT !.pending = Queued(@, m)]]
    /\ UNCHANGED <<net, ufrags, lost, failures>>

\* The agent does not take the candidate, or the marker: libnice cannot parse it
\* or has no use for it, and it is as if it had been lost.  (Of early ones the
\* agent sees none: the descriptions precede them on the way.)
CandidateRefused(p, m) ==
    /\ conns[p].t.remote = m.ufrag /\ ~conns[p].t.remote_done
    /\ lost < MaxLost
    /\ lost' = lost + 1
    /\ UNCHANGED <<net, conns, ufrags, failures>>

\* UserLeaveTransmission: the entry is erased, whichever join it belongs to.
ReleaseAllIceTransmission(p) ==
    /\ conns' = [conns EXCEPT ![p] = NoConnection]
    /\ UNCHANGED <<net, ufrags, lost, failures>>

\* One message of the ICE worker of p, for the connection p has by then.
ProcessIceWorkMsg(p) ==
    /\ work[p] # <<>>
    /\ work' = [work EXCEPT ![p] = Tail(@)]
    /\ LET m == Head(work[p])
       IN  IF ~conns[p].exists THEN UNCHANGED <<net, conns, ufrags, lost, failures>>
           ELSE \/ m.type = "join" /\ (OnJoin(p) \/ InitFails(p))
                \/ m.type = "offer" /\ (OnOffer(p, m) \/ OfferRefused(p) \/ InitFails(p))
                \/ m.type = "answer" /\ (OnAnswer(p, m) \/ AnswerRefused(p))
                \/ m.type = "candidate" /\ (ApplyRemoteIceCandidate(p, m) \/ CandidateRefused(p, m))
                \/ m.type = "leave" /\ ReleaseAllIceTransmission(p)
    /\ UNCHANGED <<joins, overlapped>>
-----------------------------------------------------------------------------
(* The signalling thread, the agent's callbacks, and a joining               *)

InFlight(msgs, types) == \E i \in DOMAIN msgs : msgs[i].type \in types

\* PeerConnection::ProcessSignal: a join or an offer replaces the connection at
\* once, messages still in the worker's queue meet the new one.
ProcessSignal(p) ==
    LET replaces == Head(net[p]).type \in {"join", "offer"}
    IN  /\ net[p] # <<>>
        /\ net' = [net EXCEPT ![p] = Tail(@)]
        /\ work' = [work EXCEPT ![p] = Append(@, Head(net[p]))]
        /\ conns' = [conns EXCEPT ![p] = IF replaces THEN NewConnection ELSE @]
        /\ overlapped' = \/ overlapped
                         \/ replaces /\ InFlight(work[p], {"join", "leave", "offer"})
        /\ UNCHANGED <<ufrags, joins, lost, failures>>

OnNewLocalCandidate(p) ==
    /\ conns[p].t.gathering
    /\ \E c \in Candidates \ conns[p].t.seen :
         /\ conns' = [conns EXCEPT ![p].t.seen = @ \cup {c}]
         /\ Send(Other(p), Message("candidate", conns[p].t.me, c))
    /\ UNCHANGED <<work, ufrags, joins, failures, overlapped>>

\* Mutant: the marker waits for the other peer's.
OnGatheringDoneWaits(p) ==
    /\ conns[p].t.gathering /\ conns[p].t.seen = Candidates /\ conns[p].t.remote_done
    /\ conns' = [conns EXCEPT ![p].t = [@ EXCEPT !.gathering = FALSE, !.local_done = TRUE]]
    /\ Send(Other(p), Message("candidate", conns[p].t.me, EndOfCandidates))
    /\ UNCHANGED <<work, ufrags, joins, failures, overlapped>>

OnGatheringDone(p) ==
    /\ conns[p].t.gathering /\ conns[p].t.seen = Candidates
    /\ conns' = [conns EXCEPT ![p].t = [@ EXCEPT !.gathering = FALSE, !.local_done = TRUE]]
    /\ Send(Other(p), Message("candidate", conns[p].t.me, EndOfCandidates))
    /\ UNCHANGED <<work, ufrags, joins, failures, overlapped>>

\* a joins, again or for the first time, after leaving or without: the server
\* tells o.
Join(leaving) ==
    /\ joins < JoinLimit
    /\ joins' = joins + 1
    /\ overlapped' = \/ overlapped
                     \/ InFlight(net["o"] \o work["o"], {"join"})
                     \/ InFlight(net["a"] \o work["a"], {"offer"})
    /\ conns' = IF leaving THEN [conns EXCEPT !["a"] = NoConnection] ELSE conns
    /\ net' = [net EXCEPT !["o"] = @ \o (IF leaving THEN <<Message("leave", NoUfrag, NoUfrag)>>
                                         ELSE <<>>)
                                     \o <<Message("join", NoUfrag, NoUfrag)>>]
    /\ UNCHANGED <<work, ufrags, lost, failures>>
-----------------------------------------------------------------------------
IceInit ==
    /\ net = [p \in Peers |-> <<>>] /\ work = [p \in Peers |-> <<>>]
    /\ conns = [p \in Peers |-> NoConnection]
    /\ ufrags = 0 /\ joins = 0 /\ lost = 0 /\ failures = 0 /\ overlapped = FALSE

Step(p) == ProcessSignal(p) \/ ProcessIceWorkMsg(p) \/ OnNewLocalCandidate(p)
           \/ OnGatheringDone(p)

IceNext == (\E p \in Peers : Step(p)) \/ (\E leaving \in BOOLEAN : Join(leaving))

\* Threads and agents go on; a need not join.
IceSpec == IceInit /\ [][IceNext]_ice_vars /\ \A p \in Peers : WF_ice_vars(Step(p))
-----------------------------------------------------------------------------
(* Properties                                                                *)

Ufrags == 0 .. ufrags
Messages == [type : {"join", "leave", "offer", "answer", "candidate"},
             ufrag : Ufrags, sdp : Candidates \cup {EndOfCandidates}]

\* Every variable has its type, and neither queue of early candidates passes
\* its limit.
IceTypeOK ==
    /\ net \in [Peers -> Seq(Messages)] /\ work \in [Peers -> Seq(Messages)]
    /\ \A p \in Peers :
         /\ conns[p].exists \in BOOLEAN
         /\ conns[p].pending \in Seq(Messages) /\ Len(conns[p].pending) <= MaxPending
         /\ conns[p].t.pending \in Seq(Messages) /\ Len(conns[p].t.pending) <= MaxPending
         /\ {conns[p].t.me, conns[p].t.remote} \subseteq Ufrags
         /\ conns[p].t.keys \subseteq Messages
    /\ joins \in 0 .. JoinLimit /\ lost \in 0 .. MaxLost /\ failures \in 0 .. MaxFailures

\* The agent is given no candidate of another exchange than the description
\* it has, whatever was queued before the description, in the connection or
\* in the transport.
CandidatesAreCurrent ==
    \A p \in Peers : \A m \in conns[p].t.keys : m.ufrag = conns[p].t.remote

\* An agent told that there are no more candidates has them all: the marker
\* never overtakes a candidate, through both queues and replaced connections,
\* unless signalling lost one or the agent refused it.
CompletionIsComplete ==
    \A p \in Peers :
        conns[p].t.remote_done /\ lost = 0 =>
            {m.sdp : m \in conns[p].t.keys} = Candidates

\* What an agent is given, early or late, belongs together.
CandidatesAreSound == IceTypeOK /\ CandidatesAreCurrent /\ CompletionIsComplete

\* The two ends of one exchange, with everything the other gathered.
Matched ==
    \A p \in Peers : /\ conns[p].t.remote = conns[Other(p)].t.me
                      /\ conns[p].t.remote # NoUfrag
                      /\ conns[p].t.remote_done

\* Settled: nothing is on its way and nobody is gathering.
Settled == \A p \in Peers : /\ net[p] = <<>> /\ work[p] = <<>>
                             /\ ~conns[p].t.gathering

\* Once everything has settled the two peers hold each other's description and
\* candidates, however often a joined and whatever was left of earlier
\* exchanges, if nothing was lost or refused and no exchange overlapped.
SettledIsMatched ==
    Settled /\ joins > 0 /\ lost = 0 /\ failures = 0 /\ ~overlapped => Matched

\* Every join leads to a matched pair of agents.
JoinsAreMatched ==
    joins = JoinLimit ~> Matched \/ lost > 0 \/ failures > 0 \/ overlapped
=============================================================================
