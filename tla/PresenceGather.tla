--------------------------- MODULE PresenceGather ---------------------------
(***************************************************************************)
(* The presence status query of onPresence (handlers.go 459-472): the     *)
(* local trie lookup (getLocalPresence, lookupPresence) and the cluster   *)
(* scatter/gather (getClusterPresence, 383-399) answered by every peer's  *)
(* survey responder (OnSurvey, 349-365), bounded by the 1000 ms deadline  *)
(* of awaiter.Gather.                                                      *)
(*                                                                         *)
(* One node, Self, asks; the trie of every node holds, for the queried    *)
(* SSID, its local client connections and the peers that forward to it.   *)
(* Subscriptions change at every node while the query runs.  Survey       *)
(* requests and answers travel over the cluster and may be lost or arrive *)
(* after the deadline.  Time is counted in ticks of the gather's timer.   *)
(* The survey transport (Survey, Gather) is not under src/; it is         *)
(* modelled from spec 4.11 and 9: one outbound survey, answers collected  *)
(* as they arrive, stop at the deadline, late answers dropped.            *)
(***************************************************************************)
EXTENDS Naturals, FiniteSets

CONSTANTS
    Nodes,      \* cluster nodes
    Self,       \* the node serving the presence request
    Conns,      \* client connections
    Home,       \* [Conns -> Nodes]: the node a connection is attached to
    Deadline,   \* the gather deadline, in timer ticks (1000 ms)
    MaxReqs     \* bound on the number of presence requests

ASSUME GatherAssumption ==
    /\ Self \in Nodes
    /\ Home \in [Conns -> Nodes]
    /\ Conns \cap Nodes = {}
    /\ Deadline \in Nat \ {0}
    /\ MaxReqs \in Nat

Peers == Nodes \ {Self}

VARIABLES
    trie,       \* subscribers of the queried SSID at each node
    phase,      \* "idle", "gather" (awaiting the survey) or "done"
    rid,        \* number of the current request (its survey)
    elapsed,    \* ticks since the survey was dispatched
    who,        \* the presence list being built
    pending,    \* survey requests in flight: [rid, to]
    net,        \* survey answers in flight: [rid, from, who]
    heard,      \* nodes whose presence list is in `who`
    stable,     \* history: connections subscribed from the request on
    everSub     \* history: connections subscribed at some time since then

vars == <<trie, phase, rid, elapsed, who, pending, net, heard, stable, everSub>>

Subscribed == {c \in Conns : c \in trie[Home[c]]}

\* Mutant: lookupPresence keeping every subscriber, not only connections.
LookupPresenceUnfiltered(n) == trie[n]

\* lookupPresence(ssid): the subscribers of the trie that are local client
\* connections (the *Conn type switch of line 371); peers are skipped.
LookupPresence(n) == {x \in trie[n] : x \in Conns}

Init ==
    /\ trie = [n \in Nodes |-> {}]
    /\ phase = "idle"
    /\ rid = 0
    /\ elapsed = 0
    /\ who = {}
    /\ pending = {}
    /\ net = {}
    /\ heard = {}
    /\ stable = {}
    /\ everSub = {}

\* A connection subscribes to, or unsubscribes from, the SSID at its node.
Sub(c) ==
    /\ c \notin trie[Home[c]]
    /\ trie' = [trie EXCEPT ![Home[c]] = @ \cup {c}]
    /\ everSub' = IF phase = "gather" THEN everSub \cup {c} ELSE everSub
    /\ UNCHANGED <<phase, rid, elapsed, who, pending, net, heard, stable>>

Unsub(c) ==
    /\ c \in trie[Home[c]]
    /\ trie' = [trie EXCEPT ![Home[c]] = @ \ {c}]
    /\ stable' = stable \ {c}
    /\ UNCHANGED <<phase, rid, elapsed, who, pending, net, heard, everSub>>

\* The cluster adds or removes peer m as a forwarding subscriber at node n.
PeerSub(n, m) ==
    /\ trie' = [trie EXCEPT ![n] = IF m \in @ THEN @ \ {m} ELSE @ \cup {m}]
    /\ UNCHANGED <<phase, rid, elapsed, who, pending, net, heard, stable, everSub>>

\* onPresence with status=true calls getAllPresence: the local lookup, then
\* getClusterPresence.  When marshalling the SSID or dispatching the
\* survey fails (lines 385-386) the cluster part is empty and the reply is
\* sent at once; otherwise the survey goes to every peer.
Start ==
    /\ phase \in {"idle", "done"}
    /\ rid < MaxReqs
    /\ rid' = rid + 1
    /\ who' = LookupPresence(Self)
    /\ heard' = {Self}
    /\ stable' = Subscribed
    /\ everSub' = Subscribed
    /\ elapsed' = 0
    /\ \/ /\ phase' = "gather"
          /\ pending' = pending \cup {[rid |-> rid + 1, to |-> p] : p \in Peers}
       \/ phase' = "done" /\ UNCHANGED pending
    /\ UNCHANGED <<trie, net>>

\* OnSurvey at peer p: the SSID decodes and p answers with its local
\* presence, or it does not decode and p answers nothing (lines 356-358).
OnSurvey(q) ==
    /\ q \in pending
    /\ pending' = pending \ {q}
    /\ \/ net' = net \cup {[rid |-> q.rid, from |-> q.to, who |-> LookupPresence(q.to)]}
       \/ UNCHANGED net
    /\ UNCHANGED <<trie, phase, rid, elapsed, who, heard, stable, everSub>>

\* The cluster loses a survey request or an answer (a partitioned peer).
LoseRequest(q) ==
    /\ q \in pending
    /\ pending' = pending \ {q}
    /\ UNCHANGED <<trie, phase, rid, elapsed, who, net, heard, stable, everSub>>

LoseAnswer(a) ==
    /\ a \in net
    /\ net' = net \ {a}
    /\ UNCHANGED <<trie, phase, rid, pending, elapsed, who, heard, stable, everSub>>

\* Mutant: a gather that takes answers of any survey, not only its own.
GatherAnyRid(a) ==
    /\ phase = "gather" /\ elapsed < Deadline
    /\ a \in net
    /\ net' = net \ {a}
    /\ \/ who' = who \cup a.who /\ heard' = heard \cup {a.from}
       \/ UNCHANGED <<who, heard>>
    /\ UNCHANGED <<trie, phase, rid, elapsed, pending, stable, everSub>>

\* Mutant: the loop of line 389 overwriting `who` with each answer.
GatherOverwrite(a) ==
    /\ phase = "gather" /\ elapsed < Deadline
    /\ a \in net /\ a.rid = rid
    /\ net' = net \ {a}
    /\ \/ who' = a.who /\ heard' = heard \cup {a.from}
       \/ UNCHANGED <<who, heard>>
    /\ UNCHANGED <<trie, phase, rid, elapsed, pending, stable, everSub>>

\* awaiter.Gather receiving an answer of its survey before the deadline,
\* and the loop of lines 389-395 appending its presence list; an answer
\* that does not unmarshal is skipped.
Gather(a) ==
    /\ phase = "gather" /\ elapsed < Deadline
    /\ a \in net /\ a.rid = rid
    /\ net' = net \ {a}
    /\ \/ who' = who \cup a.who /\ heard' = heard \cup {a.from}
       \/ UNCHANGED <<who, heard>>
    /\ UNCHANGED <<trie, phase, rid, elapsed, pending, stable, everSub>>

\* The awaiter discards an answer of an earlier survey.
DropStale(a) ==
    /\ a \in net /\ a.rid # rid
    /\ net' = net \ {a}
    /\ UNCHANGED <<trie, phase, rid, elapsed, who, pending, heard, stable, everSub>>

\* The gather's timer.
Tick ==
    /\ phase = "gather" /\ elapsed < Deadline
    /\ elapsed' = elapsed + 1
    /\ UNCHANGED <<trie, phase, rid, who, pending, net, heard, stable, everSub>>

\* Gather returns at the deadline with what it has; onPresence replies with
\* the presence list (lines 465-471).  Answers still to come are late.
GatherEnd ==
    /\ phase = "gather" /\ elapsed = Deadline
    /\ phase' = "done"
    /\ UNCHANGED <<trie, rid, elapsed, who, pending, net, heard, stable, everSub>>

Next ==
    \/ \E c \in Conns : Sub(c) \/ Unsub(c)
    \/ \E n \in Nodes, m \in Nodes : n # m /\ PeerSub(n, m)
    \/ Start
    \/ \E q \in pending : OnSurvey(q) \/ LoseRequest(q)
    \/ \E a \in net : LoseAnswer(a) \/ Gather(a) \/ DropStale(a)
    \/ Tick
    \/ GatherEnd

\* The timer of the gather fires and the awaiter returns when it has: the
\* survey layer schedules both, whatever the peers do.
Fairness == WF_vars(Tick) /\ WF_vars(GatherEnd)

Spec == Init /\ [][Next]_vars /\ Fairness

-----------------------------------------------------------------------------
Request == [rid : 1..MaxReqs, to : Peers]
Answer == [rid : 1..MaxReqs, from : Peers, who : SUBSET Conns]

TypeOK ==
    /\ trie \in [Nodes -> SUBSET (Conns \cup Nodes)]
    /\ phase \in {"idle", "gather", "done"}
    /\ rid \in 0..MaxReqs
    /\ elapsed \in 0..Deadline
    /\ who \subseteq Conns
    /\ pending \subseteq Request
    /\ net \subseteq Answer
    /\ heard \subseteq Nodes
    /\ stable \subseteq Conns
    /\ everSub \subseteq Conns

\* Soundness of the presence list: every connection onPresence reports was
\* subscribed at its node at some time during the request, although the
\* peers answer from their own tries at their own times and answers of
\* earlier requests are still in flight.
WhoSound == phase # "idle" => who \subseteq everSub

\* Completeness for the nodes heard: a connection subscribed throughout the
\* request at a node whose presence list was merged (the local one always)
\* is in the reply.  The gather loop appends (line 393).
StableHeardReported ==
    phase = "done" => \A c \in stable : Home[c] \in heard => c \in who

\* The inductive invariant behind WhoSound and StableHeardReported: tries
\* hold connections only at their home node; answers and requests in
\* flight belong to the current or an earlier survey; during the gather
\* every answer of the current survey is sound and complete for its node.
IInv ==
    /\ TypeOK
    /\ \A n \in Nodes : \A c \in trie[n] \cap Conns : Home[c] = n
    /\ stable \subseteq Subscribed
    /\ \A a \in net : a.rid <= rid
    /\ \A q \in pending : q.rid <= rid
    /\ phase = "gather" => Subscribed \subseteq everSub
    /\ phase = "gather" =>
         \A a \in net : a.rid = rid =>
            /\ a.who \subseteq everSub
            /\ {c \in stable : Home[c] = a.from} \subseteq a.who
    /\ WhoSound
    /\ phase # "idle" => Self \in heard
    /\ phase # "idle" => \A c \in stable : Home[c] \in heard => c \in who

-----------------------------------------------------------------------------
(* Refinement: the scatter/gather implements the presence query of spec   *)
(* 4.11.  A query is busy while the gather runs; its answer is the        *)
(* presence list once the reply is sent.                                   *)

Query == INSTANCE PresenceQuery WITH
    subscribed <- Subscribed,
    status <- IF phase = "gather" THEN "busy" ELSE phase,
    answer <- IF phase = "done" THEN who ELSE {},
    seen <- everSub,
    kept <- stable

\* The presence status query answers every request, within the deadline,
\* with a list that is sound for the whole request and complete for the
\* asking node, whatever peers, subscriptions and the network do meanwhile.
QuerySpec == Query!Spec

=============================================================================
