---------------------------- MODULE BrokerProofs ----------------------------
(***************************************************************************)
(* Proofs about the broker handlers of module Broker, for every value of   *)
(* the constants that satisfies the module's assumptions.                  *)
(***************************************************************************)
EXTENDS Broker, TLAPS

USE KeyAssumption, PathAssumption, OptAssumption

-----------------------------------------------------------------------------
(* Facts about the helpers the actions are built from.                     *)

\* Every key a handler can hold, as presented or minted by ExtendKey,
\* belongs to a contract of some presented key.
LEMMA ContractType ==
    ASSUME NEW k \in AllKeys
    PROVE  Contract(k) \in Contracts
BY DEF AllKeys, ExtKey, Contract, Contracts

\* The SSIDs onSubscribe, onLink and onPresence build are SSIDs.
LEMMA SsidType ==
    ASSUME NEW k \in AllKeys, NEW p \in Paths \cup {Wild}
    PROVE  /\ NewSsid(k, p) \in Ssids
           /\ NewSsidForPresence(NewSsid(k, p)) \in Ssids
BY ContractType DEF NewSsid, NewSsidForPresence, Ssids

LEMMA MessageTTLType ==
    ASSUME NEW r \in BOOLEAN, NEW t \in TtlOpts \cup {NoOpt}
    PROVE  MessageTTL(r, t) \in Nat
BY DEF MessageTTL

LEMMA BumpType ==
    ASSUME NEW n \in Count
    PROVE  Bump(n) \in Count
BY DEF Bump, Count

\* c.Subscribe keeps the trie and the grants well typed.
LEMMA AddSubType ==
    ASSUME TypeOK, NEW c \in Conns, NEW s \in Ssids, NEW k \in AllKeys,
           AddSub(c, s, k)
    PROVE  /\ subs' \subseteq Conns \X Ssids
           /\ grants' \subseteq Conns \X BOOLEAN \X Contracts \X AllKeys
<1>1. s.pres \in BOOLEAN /\ s.contract \in Contracts
  BY DEF Ssids
<1>. QED
  BY <1>1 DEF AddSub, TypeOK

-----------------------------------------------------------------------------
(* Type correctness, one lemma per handler.                                *)

LEMMA SubscribeTypeOK ==
    ASSUME TypeOK, NEW c \in Conns, NEW k \in Keys, NEW p \in AllPaths,
           NEW l \in LastOpts, Subscribe(c, k, p, l)
    PROVE  TypeOK'
<1>1. CASE UNCHANGED vars
  BY <1>1 DEF TypeOK, vars
<1>2. CASE /\ p # BadPath /\ Authorize(k, "read")
           /\ ~HasPermission(k, "extend")
           /\ AddSub(c, NewSsid(k, p), k)
           /\ pc' = IF HasPermission(k, "load")
                      THEN [pc EXCEPT ![c] =
                              [op |-> "replay", ssid |-> NewSsid(k, p),
                               limit |-> ReplayLimit(l)]]
                      ELSE pc
           /\ UNCHANGED <<username, links, msgs, store, sent>>
  <2>1. NewSsid(k, p) \in Ssids
    BY <1>2, SsidType DEF AllPaths, AllKeys
  <2>2. ReplayLimit(l) \in Nat
    BY DEF ReplayLimit
  <2>3. /\ subs' \subseteq Conns \X Ssids
        /\ grants' \subseteq Conns \X BOOLEAN \X Contracts \X AllKeys
    BY <1>2, <2>1, AddSubType DEF AllKeys
  <2>4. pc' \in [Conns -> Tasks]
    BY <1>2, <2>1, <2>2 DEF TypeOK, Tasks
  <2>. QED
    BY <1>2, <2>3, <2>4 DEF TypeOK
<1>. QED
  BY <1>1, <1>2 DEF Subscribe, Fail

LEMMA ReplayTypeOK ==
    ASSUME TypeOK, NEW c \in Conns, Replay(c)
    PROVE  TypeOK'
<1>. DEFINE q == Query(pc[c].ssid, pc[c].limit)
            new == [sent EXCEPT ![c] =
                      [i \in 1..MaxMsgs |->
                         IF i \in q THEN [live |-> sent[c][i].live,
                                          replay |-> Bump(sent[c][i].replay)]
                                    ELSE sent[c][i]]]
<1>1. pc' \in [Conns -> Tasks]
  BY DEF Replay, TypeOK, Tasks, Idle
<1>2. new \in [Conns -> [1..MaxMsgs -> [live : Count, replay : Count]]]
  BY BumpType DEF TypeOK
<1>3. sent' = sent \/ sent' = new
  BY DEF Replay
<1>. QED
  BY <1>1, <1>2, <1>3 DEF Replay, TypeOK

LEMMA UnsubscribeTypeOK ==
    ASSUME TypeOK, NEW c \in Conns, NEW k \in Keys, NEW p \in AllPaths,
           Unsubscribe(c, k, p)
    PROVE  TypeOK'
BY DEF Unsubscribe, Fail, TypeOK, vars

LEMMA PublishChannelTypeOK ==
    ASSUME TypeOK, NEW c \in Conns,
           NEW ch \in {NoChannel} \cup [key : AllKeys, path : AllPaths],
           NEW t \in TtlOpts \cup {NoOpt}, NEW me \in BOOLEAN, NEW r \in BOOLEAN,
           PublishChannel(c, ch, t, me, r)
    PROVE  TypeOK'
<1>1. CASE UNCHANGED vars
  BY <1>1 DEF TypeOK, vars
<1>2. CASE /\ ch.path \in Paths /\ Authorize(ch.key, "write")
           /\ ~HasPermission(ch.key, "extend")
           /\ Len(msgs) < MaxMsgs
           /\ LET id == Len(msgs) + 1
                  m  == [ssid |-> NewSsid(ch.key, ch.path), from |-> c,
                         ttl |-> MessageTTL(r, t), key |-> ch.key,
                         ttlOpt |-> t, retain |-> r]
              IN  /\ msgs' = Append(msgs, m)
                  /\ store' = IF m.ttl > 0 /\ HasPermission(ch.key, "store")
                                THEN Append(store, id) ELSE store
                  /\ pc' = [pc EXCEPT ![c] =
                              [op |-> "fanout", id |-> id,
                               to |-> Lookup(m.ssid) \ (IF me THEN {c} ELSE {})]]
           /\ UNCHANGED <<username, links, subs, grants, sent>>
  <2>1. ch \in [key : AllKeys, path : AllPaths]
    BY <1>2, PathAssumption DEF NoChannel
  <2>. DEFINE m == [ssid |-> NewSsid(ch.key, ch.path), from |-> c,
                    ttl |-> MessageTTL(r, t), key |-> ch.key,
                    ttlOpt |-> t, retain |-> r]
  <2>2. m \in Messages
    BY <1>2, <2>1, SsidType, MessageTTLType DEF Messages
  <2>3. msgs' = Append(msgs, m) /\ msgs' \in Seq(Messages)
    BY <1>2, <2>2 DEF TypeOK
  <2>4. store' \in Seq(1..Len(msgs'))
    <3>1. Len(msgs') = Len(msgs) + 1
      BY <2>3 DEF TypeOK
    <3>2. store \in Seq(1..Len(msgs'))
      BY <3>1 DEF TypeOK
    <3>3. Append(store, Len(msgs) + 1) \in Seq(1..Len(msgs'))
      BY <3>1, <3>2
    <3>. QED
      BY <1>2, <3>2, <3>3
  <2>5. pc' \in [Conns -> Tasks]
    BY <1>2 DEF TypeOK, Tasks, Lookup
  <2>. QED
    BY <1>2, <2>3, <2>4, <2>5 DEF TypeOK
<1>. QED
  BY <1>1, <1>2 DEF PublishChannel, Fail

LEMMA DeliverTypeOK ==
    ASSUME TypeOK, NEW c \in Conns, Deliver(c)
    PROVE  TypeOK'
<1>1. pc[c] \in [op : {"fanout"}, id : Nat \ {0}, to : SUBSET Conns]
  BY DEF Deliver, TypeOK, Tasks, Idle
<1>2. CASE \E r \in pc[c].to :
             /\ sent' = [sent EXCEPT ![r][pc[c].id] =
                           [live |-> Bump(@.live), replay |-> @.replay]]
             /\ pc' = [pc EXCEPT ![c] = [op |-> "fanout", id |-> @.id, to |-> @.to \ {r}]]
  <2>1. PICK r \in pc[c].to :
             /\ sent' = [sent EXCEPT ![r][pc[c].id] =
                           [live |-> Bump(@.live), replay |-> @.replay]]
             /\ pc' = [pc EXCEPT ![c] = [op |-> "fanout", id |-> @.id, to |-> @.to \ {r}]]
    BY <1>2
  <2>2. r \in Conns
    BY <1>1
  <2>3. sent' \in [Conns -> [1..MaxMsgs -> [live : Count, replay : Count]]]
    <3>1. CASE pc[c].id \in 1..MaxMsgs
      BY <2>1, <2>2, <3>1, BumpType DEF TypeOK
    <3>2. CASE pc[c].id \notin 1..MaxMsgs
      BY <2>1, <2>2, <3>2 DEF TypeOK
    <3>. QED
      BY <3>1, <3>2
  <2>4. pc' \in [Conns -> Tasks]
    BY <1>1, <2>1 DEF TypeOK, Tasks
  <2>. QED
    BY <2>3, <2>4 DEF Deliver, TypeOK
<1>3. CASE pc[c].to = {} /\ pc' = [pc EXCEPT ![c] = Idle] /\ UNCHANGED sent
  BY <1>3 DEF Deliver, TypeOK, Tasks
<1>. QED
  BY <1>2, <1>3 DEF Deliver

LEMMA LinkTypeOK ==
    ASSUME TypeOK, NEW c \in Conns, NEW n \in LinkNames, NEW k \in Keys,
           NEW p \in AllPaths, NEW s \in BOOLEAN, NEW pr \in BOOLEAN,
           Link(c, n, k, p, s, pr)
    PROVE  TypeOK'
<1>. DEFINE ch == IF pr THEN Channel(ExtKey(k, c), p) ELSE Channel(k, p)
<1>1. CASE UNCHANGED vars
  BY <1>1 DEF TypeOK, vars
<1>2. CASE /\ p # BadPath
           /\ links' = [links EXCEPT ![c][n] = ch]
           /\ LinkSubscribe(c, ch, s)
           /\ UNCHANGED <<username, msgs, store, sent, pc>>
  <2>1. ch \in [key : AllKeys, path : Paths \cup {Wild}]
    BY <1>2 DEF Channel, AllKeys, AllPaths
  <2>2. NewSsid(ch.key, ch.path) \in Ssids
    BY <1>2, <2>1, SsidType DEF AllPaths
  <2>3. links' \in [Conns -> [LinkNames ->
                     {NoChannel} \cup [key : AllKeys, path : Paths \cup {Wild}]]]
    BY <1>2, <2>1 DEF TypeOK
  <2>4. /\ subs' \subseteq Conns \X Ssids
        /\ grants' \subseteq Conns \X BOOLEAN \X Contracts \X AllKeys
    BY <1>2, <2>1, <2>2, AddSubType DEF TypeOK, LinkSubscribe
  <2>. QED
    BY <1>2, <2>3, <2>4 DEF TypeOK
<1>. QED
  BY <1>1, <1>2 DEF Link, Fail

LEMMA PresenceTypeOK ==
    ASSUME TypeOK, NEW c \in Conns, NEW k \in Keys, NEW p \in AllPaths,
           NEW ch \in {TRUE, FALSE, NoOpt}, Presence(c, k, p, ch)
    PROVE  TypeOK'
<1>. DEFINE ps == NewSsidForPresence(NewSsid(k, p))
<1>1. CASE UNCHANGED vars
  BY <1>1 DEF TypeOK, vars
<1>2. CASE /\ p # BadPath
           /\ \/ AddSub(c, ps, k)
              \/ subs' = subs \ {<<c, ps>>} /\ UNCHANGED grants
              \/ UNCHANGED <<subs, grants>>
           /\ UNCHANGED <<username, links, msgs, store, sent, pc>>
  <2>1. ps \in Ssids
    BY <1>2, SsidType DEF AllPaths, AllKeys
  <2>2. /\ subs' \subseteq Conns \X Ssids
        /\ grants' \subseteq Conns \X BOOLEAN \X Contracts \X AllKeys
    BY <1>2, <2>1, AddSubType DEF TypeOK, AllKeys
  <2>. QED
    BY <1>2, <2>2 DEF TypeOK
<1>. QED
  BY <1>1, <1>2 DEF Presence, Fail

LEMMA ConnectTypeOK ==
    ASSUME TypeOK, NEW c \in Conns, NEW u \in Users, Connect(c, u)
    PROVE  TypeOK'
BY DEF Connect, TypeOK

-----------------------------------------------------------------------------
\* One step of any handler keeps the state well typed.
LEMMA TypeOKStep == TypeOK /\ [Next]_vars => TypeOK'
<1>. SUFFICES ASSUME TypeOK, [Next]_vars PROVE TypeOK'
  OBVIOUS
<1>1. CASE UNCHANGED vars
  BY <1>1 DEF TypeOK, vars
<1>2. CASE Next
  <2>. PICK c \in Conns :
         \/ \E u \in Users : Connect(c, u)
         \/ \E k \in Keys, p \in AllPaths, l \in LastOpts : Subscribe(c, k, p, l)
         \/ Replay(c)
         \/ \E k \in Keys, p \in AllPaths : Unsubscribe(c, k, p)
         \/ \E k \in Keys, p \in AllPaths, t \in TtlOpts, me, r \in BOOLEAN :
               Publish(c, k, p, t, me, r)
         \/ \E n \in LinkNames, r \in BOOLEAN : PublishLink(c, n, r)
         \/ Deliver(c)
         \/ \E n \in LinkNames, k \in Keys, p \in AllPaths, s, pr \in BOOLEAN :
               Link(c, n, k, p, s, pr)
         \/ \E k \in Keys, p \in AllPaths, ch \in {TRUE, FALSE, NoOpt} :
               Presence(c, k, p, ch)
    BY <1>2 DEF Next
  <2>1. CASE \E u \in Users : Connect(c, u)
    BY <2>1, ConnectTypeOK
  <2>2. CASE \E k \in Keys, p \in AllPaths, l \in LastOpts : Subscribe(c, k, p, l)
    BY <2>2, SubscribeTypeOK
  <2>3. CASE Replay(c)
    BY <2>3, ReplayTypeOK
  <2>4. CASE \E k \in Keys, p \in AllPaths : Unsubscribe(c, k, p)
    BY <2>4, UnsubscribeTypeOK
  <2>5. CASE \E k \in Keys, p \in AllPaths, t \in TtlOpts, me, r \in BOOLEAN :
               Publish(c, k, p, t, me, r)
    <3>1. PICK k \in Keys, p \in AllPaths, t \in TtlOpts, me, r \in BOOLEAN :
               PublishChannel(c, Channel(k, p), t, me, r)
      BY <2>5 DEF Publish
    <3>2. Channel(k, p) \in [key : AllKeys, path : AllPaths]
      BY DEF Channel, AllKeys
    <3>. QED
      BY <3>1, <3>2, PublishChannelTypeOK
  <2>6. CASE \E n \in LinkNames, r \in BOOLEAN : PublishLink(c, n, r)
    <3>0. PICK n \in LinkNames, r \in BOOLEAN :
               \E ch \in {links[c][n]} : PublishChannel(c, ch, NoOpt, FALSE, r)
      BY <2>6 DEF PublishLink
    <3>1. links[c][n] \in {NoChannel} \cup [key : AllKeys, path : AllPaths]
      BY DEF TypeOK, AllPaths
    <3>2. PICK ch \in {NoChannel} \cup [key : AllKeys, path : AllPaths] :
               PublishChannel(c, ch, NoOpt, FALSE, r)
      BY <3>0, <3>1
    <3>3. PICK t \in TtlOpts \cup {NoOpt}, me \in BOOLEAN :
               PublishChannel(c, ch, t, me, r)
      BY <3>2, Zenon
    <3>. QED
      BY <3>3, PublishChannelTypeOK
  <2>7. CASE Deliver(c)
    BY <2>7, DeliverTypeOK
  <2>8. CASE \E n \in LinkNames, k \in Keys, p \in AllPaths, s, pr \in BOOLEAN :
               Link(c, n, k, p, s, pr)
    BY <2>8, LinkTypeOK
  <2>9. CASE \E k \in Keys, p \in AllPaths, ch \in {TRUE, FALSE, NoOpt} :
               Presence(c, k, p, ch)
    BY <2>9, PresenceTypeOK
  <2>. QED
    BY <2>1, <2>2, <2>3, <2>4, <2>5, <2>6, <2>7, <2>8, <2>9
<1>. QED
  BY <1>1, <1>2

\* Type correctness of the handlers: every reachable state of the broker
\* has the shape TypeOK describes (the runs check it on small instances).
THEOREM TypeCorrect == Spec => []TypeOK
<1>1. Init => TypeOK
  BY DEF Init, TypeOK, NoChannel, Tasks, Idle, Count
<1>2. TypeOK /\ [Next]_vars => TypeOK'
  BY TypeOKStep
<1>. QED
  BY <1>1, <1>2, PTL DEF Spec

=============================================================================
