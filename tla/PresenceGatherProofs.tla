------------------------ MODULE PresenceGatherProofs ------------------------
(***************************************************************************)
(* Proofs that the presence list of a status query is sound (WhoSound)    *)
(* and complete for the nodes heard (StableHeardReported), for every      *)
(* cluster, every deadline and every number of requests.                  *)
(***************************************************************************)
EXTENDS PresenceGather, TLAPS

USE GatherAssumption

LEMMA InitIInv == Init => IInv
  BY DEF Init, IInv, TypeOK, WhoSound, Subscribed

\* Sub preserves the inductive invariant.
LEMMA SubIInv ==
    ASSUME IInv, NEW c \in Conns, Sub(c)
    PROVE  IInv'
  BY DEF IInv, TypeOK, WhoSound, Subscribed, Sub

\* Unsub preserves the inductive invariant.
LEMMA UnsubIInv ==
    ASSUME IInv, NEW c \in Conns, Unsub(c)
    PROVE  IInv'
  BY DEF IInv, TypeOK, WhoSound, Subscribed, Unsub

\* PeerSub preserves the inductive invariant.
LEMMA PeerSubIInv ==
    ASSUME IInv, NEW n \in Nodes, NEW m \in Nodes, n # m, PeerSub(n, m)
    PROVE  IInv'
  BY DEF IInv, TypeOK, WhoSound, Subscribed, PeerSub

\* Start preserves the inductive invariant.
LEMMA StartIInv ==
    ASSUME IInv, Start
    PROVE  IInv'
<1>1. rid + 1 \in 1..MaxReqs
  BY DEF IInv, TypeOK, Start
<1>2. {[rid |-> rid + 1, to |-> p] : p \in Peers} \subseteq Request
  BY <1>1 DEF Request
<1>3. TypeOK'
  BY <1>1, <1>2 DEF IInv, TypeOK, Start, LookupPresence, Subscribed
<1>4. Subscribed' = Subscribed
  BY DEF Start, Subscribed
<1>5. (\A a \in net' : a.rid <= rid') /\ (\A q \in pending' : q.rid <= rid')
  BY DEF IInv, TypeOK, Start, Request, Answer
<1>6. \A a \in net' : a.rid # rid'
  BY DEF IInv, TypeOK, Start, Answer
<1>7. who' \subseteq everSub' /\ stable' \subseteq Subscribed'
  BY <1>4 DEF IInv, TypeOK, Start, LookupPresence, Subscribed
<1>8. \A c \in stable' : Home[c] \in heard' => c \in who'
  BY DEF IInv, TypeOK, Start, LookupPresence, Subscribed
<1>9. \A n \in Nodes : \A c \in trie'[n] \cap Conns : Home[c] = n
  BY DEF IInv, Start
<1>10. Subscribed' \subseteq everSub'
  BY <1>4 DEF Start
<1>11. phase' # "idle" /\ Self \in heard'
  BY DEF Start
<1>. QED
  BY <1>3, <1>5, <1>6, <1>7, <1>8, <1>9, <1>10, <1>11 DEF IInv, WhoSound

\* OnSurvey preserves the inductive invariant.
LEMMA OnSurveyIInv ==
    ASSUME IInv, NEW q \in pending, OnSurvey(q)
    PROVE  IInv'
<1>1. TypeOK'
  BY DEF IInv, TypeOK, OnSurvey, LookupPresence, Request, Answer
<1>2. LookupPresence(q.to) \subseteq Subscribed
  BY DEF IInv, TypeOK, LookupPresence, Subscribed, Request, Peers
<1>3. {c \in stable : Home[c] = q.to} \subseteq LookupPresence(q.to)
  BY DEF IInv, TypeOK, LookupPresence, Subscribed
<1>. QED
  BY <1>1, <1>2, <1>3 DEF IInv, TypeOK, WhoSound, Subscribed, OnSurvey, Request

\* LoseRequest preserves the inductive invariant.
LEMMA LoseRequestIInv ==
    ASSUME IInv, NEW q \in pending, LoseRequest(q)
    PROVE  IInv'
  BY DEF IInv, TypeOK, WhoSound, Subscribed, LoseRequest

\* LoseAnswer preserves the inductive invariant.
LEMMA LoseAnswerIInv ==
    ASSUME IInv, NEW a \in net, LoseAnswer(a)
    PROVE  IInv'
  BY DEF IInv, TypeOK, WhoSound, Subscribed, LoseAnswer

\* Gather preserves the inductive invariant.
LEMMA GatherIInv ==
    ASSUME IInv, NEW a \in net, Gather(a)
    PROVE  IInv'
<1>1. TypeOK'
  BY DEF IInv, TypeOK, Gather, Answer, Peers
<1>. QED
  BY <1>1 DEF IInv, WhoSound, Subscribed, Gather

\* DropStale preserves the inductive invariant.
LEMMA DropStaleIInv ==
    ASSUME IInv, NEW a \in net, DropStale(a)
    PROVE  IInv'
  BY DEF IInv, TypeOK, WhoSound, Subscribed, DropStale

\* Tick preserves the inductive invariant.
LEMMA TickIInv ==
    ASSUME IInv, Tick
    PROVE  IInv'
  BY DEF IInv, TypeOK, WhoSound, Subscribed, Tick

\* GatherEnd preserves the inductive invariant.
LEMMA GatherEndIInv ==
    ASSUME IInv, GatherEnd
    PROVE  IInv'
  BY DEF IInv, TypeOK, WhoSound, Subscribed, GatherEnd

\* The inductive invariant holds in every reachable state.
THEOREM IInvInvariant == Spec => []IInv
<1>1. Init => IInv
  BY InitIInv
<1>2. IInv /\ [Next]_vars => IInv'
  <2> SUFFICES ASSUME IInv, [Next]_vars PROVE IInv'
    OBVIOUS
  <2>1. CASE \E c \in Conns : Sub(c) \/ Unsub(c)
    BY <2>1, SubIInv, UnsubIInv
  <2>2. CASE \E n \in Nodes, m \in Nodes : n # m /\ PeerSub(n, m)
    BY <2>2, PeerSubIInv
  <2>3. CASE Start
    BY <2>3, StartIInv
  <2>4. CASE \E q \in pending : OnSurvey(q) \/ LoseRequest(q)
    BY <2>4, OnSurveyIInv, LoseRequestIInv
  <2>5. CASE \E a \in net : LoseAnswer(a) \/ Gather(a) \/ DropStale(a)
    BY <2>5, LoseAnswerIInv, GatherIInv, DropStaleIInv
  <2>6. CASE Tick
    BY <2>6, TickIInv
  <2>7. CASE GatherEnd
    BY <2>7, GatherEndIInv
  <2>8. CASE UNCHANGED vars
    BY <2>8 DEF IInv, TypeOK, WhoSound, Subscribed, vars
  <2>. QED
    BY <2>1, <2>2, <2>3, <2>4, <2>5, <2>6, <2>7, <2>8 DEF Next
<1>. QED
  BY <1>1, <1>2, PTL DEF Spec

\* The state of the scatter/gather keeps its types in every reachable state:
\* the trie, the request id, the surveys and answers in flight and the
\* gathered presence list of onPresence and OnSurvey (lines 375-471).
THEOREM TypeCorrect == Spec => []TypeOK
<1>1. IInv => TypeOK
  BY DEF IInv
<1>. QED
  BY <1>1, IInvInvariant, PTL

\* Every connection in the presence list that onPresence replies with was
\* subscribed at its node at some time during the request (lines 459-471
\* with the answers of OnSurvey gathered at line 389).
THEOREM WhoSoundInvariant == Spec => []WhoSound
  BY IInvInvariant, PTL DEF IInv

\* Every connection subscribed throughout a request at a node that was
\* heard from, the asking node included, is in the reply.
THEOREM StableHeardReportedInvariant == Spec => []StableHeardReported
<1>1. IInv => StableHeardReported
  BY DEF IInv, StableHeardReported
<1>. QED
  BY <1>1, IInvInvariant, PTL

-----------------------------------------------------------------------------
(* Refinement: every step of the scatter/gather is a step of the abstract *)
(* query of PresenceQuery under the mapping Query, or leaves it alone.    *)

\* The abstract status under the mapping.
AStatus == IF phase = "gather" THEN "busy" ELSE phase

LEMMA InitQuery == Init => Query!Init
BY DEF Init, Query!Init, Subscribed

\* A subscription at a connection's home node is an abstract Sub.
LEMMA SubQuery ==
    ASSUME IInv, NEW c \in Conns, Sub(c)
    PROVE  Query!Sub(c)
<1>1. c \notin Subscribed /\ Subscribed' = Subscribed \cup {c}
  BY DEF Sub, Subscribed, IInv, TypeOK
<1>. QED
  BY <1>1 DEF Sub, Query!Sub, IInv, TypeOK

LEMMA UnsubQuery ==
    ASSUME IInv, NEW c \in Conns, Unsub(c)
    PROVE  Query!Unsub(c)
<1>1. c \in Subscribed /\ Subscribed' = Subscribed \ {c}
  BY DEF Unsub, Subscribed, IInv, TypeOK
<1>. QED
  BY <1>1 DEF Unsub, Query!Unsub

\* Peers forwarding to a node are not connections: the abstract query sees
\* nothing.
LEMMA PeerSubQuery ==
    ASSUME IInv, NEW n \in Nodes, NEW m \in Nodes, PeerSub(n, m)
    PROVE  UNCHANGED Query!avars
<1>1. Subscribed' = Subscribed
  BY DEF PeerSub, Subscribed, IInv, TypeOK
<1>. QED
  BY <1>1 DEF PeerSub, Query!avars

\* A request whose survey is dispatched is an abstract Ask; one whose
\* survey fails is answered at once from the local trie: AskReply.
LEMMA StartQuery ==
    ASSUME IInv, Start
    PROVE  Query!Ask \/ Query!AskReply
<1>1. Subscribed' = Subscribed
  BY DEF Start, Subscribed
<1>2. AStatus \in {"idle", "done"}
  BY DEF Start, AStatus
<1>3. CASE phase' = "gather"
  BY <1>1, <1>2, <1>3 DEF Start, Query!Ask, AStatus
<1>4. CASE phase' = "done"
  <2>1. LookupPresence(Self) \subseteq Subscribed
    BY DEF LookupPresence, Subscribed, IInv
  <2>2. {c \in Subscribed : Home[c] = Self} \subseteq LookupPresence(Self)
    BY DEF LookupPresence, Subscribed
  <2>3. who' \in Query!Allowed(Subscribed, Subscribed)
    BY <2>1, <2>2 DEF Start, Query!Allowed
  <2>. QED
    BY <1>1, <1>2, <1>4, <2>3 DEF Start, Query!AskReply, AStatus
<1>. QED
  BY <1>3, <1>4 DEF Start

\* The gather returning at its deadline is the abstract Reply: the list is
\* sound for the request and holds the stable connections of Self.
LEMMA GatherEndQuery ==
    ASSUME IInv, GatherEnd
    PROVE  Query!Reply
<1>1. who \subseteq everSub /\ {c \in stable : Home[c] = Self} \subseteq who
  BY DEF GatherEnd, IInv, WhoSound
<1>2. who \in Query!Allowed(stable, everSub)
  BY <1>1 DEF Query!Allowed
<1>. QED
  BY <1>2 DEF GatherEnd, Query!Reply, Subscribed

\* Surveys, answers, losses and the timer are invisible to the abstract
\* query: the presence list is only read once the gather has returned.
LEMMA HiddenQuery ==
    ASSUME \/ \E q \in pending : OnSurvey(q) \/ LoseRequest(q)
           \/ \E a \in net : LoseAnswer(a) \/ Gather(a) \/ DropStale(a)
           \/ Tick
    PROVE  UNCHANGED Query!avars
BY DEF OnSurvey, LoseRequest, LoseAnswer, Gather, DropStale, Tick, Query!avars, Subscribed

LEMMA QueryStep == IInv /\ [Next]_vars => [Query!Next]_Query!avars
<1> SUFFICES ASSUME IInv, [Next]_vars PROVE [Query!Next]_Query!avars
  OBVIOUS
<1>1. CASE \E c \in Conns : Sub(c) \/ Unsub(c)
  BY <1>1, SubQuery, UnsubQuery DEF Query!Next
<1>2. CASE \E n \in Nodes, m \in Nodes : n # m /\ PeerSub(n, m)
  BY <1>2, PeerSubQuery
<1>3. CASE Start
  BY <1>3, StartQuery DEF Query!Next
<1>4. CASE \/ \E q \in pending : OnSurvey(q) \/ LoseRequest(q)
           \/ \E a \in net : LoseAnswer(a) \/ Gather(a) \/ DropStale(a)
           \/ Tick
  BY <1>4, HiddenQuery
<1>5. CASE GatherEnd
  BY <1>5, GatherEndQuery DEF Query!Next
<1>6. CASE UNCHANGED vars
  BY <1>6 DEF vars, Query!avars, Subscribed
<1>. QED
  BY <1>1, <1>2, <1>3, <1>4, <1>5, <1>6 DEF Next

\* The safety part of QuerySpec: the scatter/gather of onPresence with its
\* survey responders and deadline (lines 367-407, 459-472) only ever takes
\* steps the abstract presence query allows, so every reply it sends is
\* sound for the request and complete for the asking node.
THEOREM QuerySafety == Spec => Query!Init /\ [][Query!Next]_Query!avars
<1>1. Init => Query!Init
  BY InitQuery
<1>2. IInv /\ [Next]_vars => [Query!Next]_Query!avars
  BY QueryStep
<1>. QED
  BY <1>1, <1>2, IInvInvariant, PTL DEF Spec
=============================================================================
