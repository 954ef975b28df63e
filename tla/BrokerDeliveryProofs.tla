------------------------ MODULE BrokerDeliveryProofs ------------------------
(***************************************************************************)
(* Tenant isolation of delivery (ReadAuthorizedDelivery), for every number *)
(* of connections, keys, contracts and messages.  It is not inductive: an  *)
(* onPublish fan-out sends to subscribers looked up earlier, and a store   *)
(* query of onSubscribe replays with an SSID chosen earlier, and meanwhile *)
(* the subscriptions they were taken from may be gone.  DeliveryAuthInv    *)
(* carries the Read authorization from the trie entry to the pending       *)
(* fan-out and store query; FanoutInv (BrokerFanoutProofs) says which      *)
(* message a fan-out is of.                                                *)
(***************************************************************************)
EXTENDS BrokerFanoutProofs

USE KeyAssumption, PathAssumption, OptAssumption

\* A Read subscription, once recorded, stays recorded as grants grow.
LEMMA ReadGrantedMono ==
    ASSUME NEW G, NEW H, G \subseteq H, NEW c, NEW ct, ReadGranted(G, c, ct)
    PROVE  ReadGranted(H, c, ct)
BY DEF ReadGranted

\* A step that sends nothing, publishes nothing, forgets no grant, adds
\* only covered trie entries, and leaves every task but c alone and c idle,
\* where it was, or about to query the store with a covered SSID.
LEMMA QuietDelivery ==
    ASSUME DeliveryAuthInv, NEW c \in Conns,
           grants \subseteq grants',
           \A e \in subs' \ subs : ~e[2].pres => ReadGranted(grants', e[1], e[2].contract),
           UNCHANGED <<msgs, sent>>,
           \A d \in Conns \ {c} : pc'[d] = pc[d],
           \/ pc'[c] = pc[c]
           \/ pc'[c] = Idle
           \/ pc'[c].op = "replay" /\ ~pc'[c].ssid.pres
              /\ ReadGranted(grants', c, pc'[c].ssid.contract)
    PROVE  DeliveryAuthInv'
<1>1. \A e \in subs' : ~e[2].pres => ReadGranted(grants', e[1], e[2].contract)
  BY ReadGrantedMono DEF DeliveryAuthInv
<1>2. \A d \in Conns : pc'[d].op = "fanout" =>
         \A r \in pc'[d].to : ReadGranted(grants', r, msgs'[pc'[d].id].ssid.contract)
  <2>. SUFFICES ASSUME NEW d \in Conns, pc'[d].op = "fanout"
                PROVE  \A r \in pc'[d].to : ReadGranted(grants', r, msgs'[pc'[d].id].ssid.contract)
    OBVIOUS
  <2>1. pc'[d] = pc[d]
    BY DEF Idle
  <2>. QED
    BY <2>1, ReadGrantedMono DEF DeliveryAuthInv
<1>3. \A d \in Conns : pc'[d].op = "replay" =>
         ~pc'[d].ssid.pres /\ ReadGranted(grants', d, pc'[d].ssid.contract)
  <2>. SUFFICES ASSUME NEW d \in Conns, pc'[d].op = "replay"
                PROVE  ~pc'[d].ssid.pres /\ ReadGranted(grants', d, pc'[d].ssid.contract)
    OBVIOUS
  <2>1. CASE pc'[d] = pc[d]
    BY <2>1, ReadGrantedMono DEF DeliveryAuthInv
  <2>2. CASE pc'[d] # pc[d]
    BY <2>2 DEF Idle
  <2>. QED
    BY <2>1, <2>2
<1>4. \A r \in Conns : \A i \in 1..MaxMsgs :
         sent'[r][i].live + sent'[r][i].replay > 0 =>
            i \in 1..Len(msgs') /\ ReadGranted(grants', r, msgs'[i].ssid.contract)
  BY ReadGrantedMono DEF DeliveryAuthInv
<1>. QED
  BY <1>1, <1>2, <1>3, <1>4 DEF DeliveryAuthInv

\* A handler that adds no trie entry and changes neither the grants, the
\* messages, the counts nor the tasks: CONNECT, a failed request,
\* UNSUBSCRIBE, and a presence request that does not subscribe.
LEMMA ShrinkDelivery ==
    ASSUME DeliveryAuthInv, NEW c \in Conns,
           subs' \subseteq subs, UNCHANGED <<grants, msgs, sent, pc>>
    PROVE  DeliveryAuthInv'
BY QuietDelivery

\* c.Subscribe(ssid) with a key k: the grant it records covers the entry,
\* and the store query onSubscribe goes on to make.
LEMMA AddSubDelivery ==
    ASSUME DeliveryAuthInv, NEW c \in Conns, NEW s, NEW k,
           ~s.pres => Authorize(k, "read"),
           AddSub(c, s, k), UNCHANGED <<msgs, sent>>,
           \/ pc' = pc
           \/ /\ ~s.pres /\ pc \in [Conns -> Tasks]
              /\ \E l : pc' = [pc EXCEPT ![c] = [op |-> "replay", ssid |-> s, limit |-> l]]
    PROVE  DeliveryAuthInv'
<1>1. ~s.pres => ReadGranted(grants', c, s.contract)
  <2>. DEFINE g == <<c, s.pres, s.contract, k>>
  <2>1. g \in grants'
    BY DEF AddSub
  <2>2. ~s.pres => g[1] = c /\ ~g[2] /\ g[3] = s.contract /\ Authorize(g[4], "read")
    OBVIOUS
  <2>. QED
    BY <2>1, <2>2 DEF ReadGranted
<1>2. \A e \in subs' \ subs : ~e[2].pres => ReadGranted(grants', e[1], e[2].contract)
  BY <1>1 DEF AddSub
<1>3. grants \subseteq grants'
  BY DEF AddSub
<1>4. CASE pc' = pc
  BY <1>2, <1>3, <1>4, QuietDelivery
<1>5. CASE /\ ~s.pres /\ pc \in [Conns -> Tasks]
           /\ \E l : pc' = [pc EXCEPT ![c] = [op |-> "replay", ssid |-> s, limit |-> l]]
  <2>1. PICK l : pc' = [pc EXCEPT ![c] = [op |-> "replay", ssid |-> s, limit |-> l]]
    BY <1>5
  <2>2. pc'[c] = [op |-> "replay", ssid |-> s, limit |-> l]
        /\ \A d \in Conns \ {c} : pc'[d] = pc[d]
    BY <1>5, <2>1
  <2>. QED
    BY <1>1, <1>2, <1>3, <1>5, <2>2, QuietDelivery
<1>. QED
  BY <1>4, <1>5

\* Every message the store query of onSubscribe returns is a published
\* message of the queried SSID's contract.
LEMMA QueryContract ==
    ASSUME TypeOK, NEW s, NEW l, NEW i \in Query(s, l)
    PROVE  i \in 1..Len(msgs) /\ msgs[i].ssid.contract = s.contract
<1>1. PICK j \in 1..Len(store) : i = store[j] /\ Matches(s, msgs[store[j]].ssid)
  BY DEF Query
<1>2. store[j] \in 1..Len(msgs)
  BY DEF TypeOK
<1>. QED
  BY <1>1, <1>2 DEF Matches

\* The store query of onSubscribe (lines 86-101) replays messages of the
\* contract its SSID was built for, which a Read subscription covers.
LEMMA ReplayDelivery ==
    ASSUME TypeOK, DeliveryAuthInv, NEW c \in Conns, Replay(c)
    PROVE  DeliveryAuthInv'
<1>. DEFINE q == Query(pc[c].ssid, pc[c].limit)
            cnt(x) == x.live + x.replay
<1>1. pc[c].op = "replay" /\ ReadGranted(grants, c, pc[c].ssid.contract)
  BY DEF Replay, DeliveryAuthInv
<1>2. \A i \in q : i \in 1..Len(msgs) /\ msgs[i].ssid.contract = pc[c].ssid.contract
  BY QueryContract
<1>3. /\ pc' = [pc EXCEPT ![c] = Idle]
      /\ UNCHANGED <<subs, grants, msgs>>
      /\ \/ sent' = sent
         \/ sent' = [sent EXCEPT ![c] =
                      [i \in 1..MaxMsgs |->
                         IF i \in q THEN [live |-> sent[c][i].live, replay |-> Bump(sent[c][i].replay)]
                                    ELSE sent[c][i]]]
  BY DEF Replay
<1>4. \A r \in Conns : \A i \in 1..MaxMsgs :
         cnt(sent'[r][i]) > 0 => cnt(sent[r][i]) > 0 \/ (r = c /\ i \in q)
  <2>. SUFFICES ASSUME NEW r \in Conns, NEW i \in 1..MaxMsgs,
                       cnt(sent'[r][i]) > 0, ~(r = c /\ i \in q)
                PROVE  cnt(sent[r][i]) > 0
    OBVIOUS
  <2>1. sent'[r][i] = sent[r][i]
    BY <1>3 DEF TypeOK
  <2>. QED
    BY <2>1
<1>5. \A d \in Conns : pc'[d] = IF d = c THEN Idle ELSE pc[d]
  BY <1>3 DEF TypeOK
<1>6. \A r \in Conns : \A i \in 1..MaxMsgs :
         cnt(sent'[r][i]) > 0 =>
            i \in 1..Len(msgs') /\ ReadGranted(grants', r, msgs'[i].ssid.contract)
  BY <1>1, <1>2, <1>3, <1>4 DEF DeliveryAuthInv
<1>. QED
  BY <1>3, <1>5, <1>6 DEF DeliveryAuthInv, Idle

\* One send of the fan-out of service.publish goes to a subscriber the
\* lookup found, whose Read subscription the pending fan-out records.
LEMMA DeliverDelivery ==
    ASSUME TypeOK, FanoutInv, DeliveryAuthInv, NEW c \in Conns, Deliver(c)
    PROVE  DeliveryAuthInv'
<1>. DEFINE id == pc[c].id
            cnt(x) == x.live + x.replay
<1>1. /\ pc[c].op = "fanout" /\ id \in 1..Len(msgs) /\ id \in 1..MaxMsgs
      /\ UNCHANGED <<subs, grants, msgs>>
  <2>1. pc[c].op = "fanout" /\ UNCHANGED <<subs, grants, msgs>>
    BY DEF Deliver
  <2>. QED
    BY <2>1 DEF FanoutInv
<1>2. CASE pc[c].to = {} /\ pc' = [pc EXCEPT ![c] = Idle] /\ UNCHANGED sent
  BY <1>1, <1>2, QuietDelivery DEF TypeOK
<1>3. CASE \E r \in pc[c].to :
             /\ sent' = [sent EXCEPT ![r][pc[c].id] =
                           [live |-> Bump(@.live), replay |-> @.replay]]
             /\ pc' = [pc EXCEPT ![c] = [op |-> "fanout", id |-> @.id, to |-> @.to \ {r}]]
  <2>1. PICK r \in pc[c].to :
             /\ sent' = [sent EXCEPT ![r][id] = [live |-> Bump(@.live), replay |-> @.replay]]
             /\ pc' = [pc EXCEPT ![c] = [op |-> "fanout", id |-> id, to |-> pc[c].to \ {r}]]
    BY <1>3
  <2>2. r \in Conns /\ ReadGranted(grants, r, msgs[id].ssid.contract)
    <3>1. pc[c] \in [op : {"fanout"}, id : Nat \ {0}, to : SUBSET Conns]
      BY <1>1 DEF TypeOK, Tasks, Idle
    <3>2. \A x \in pc[c].to : ReadGranted(grants, x, msgs[id].ssid.contract)
      BY <1>1 DEF DeliveryAuthInv
    <3>. QED
      BY <3>1, <3>2
  <2>3. \A r2 \in Conns : \A i \in 1..MaxMsgs :
           <<r2, i>> # <<r, id>> => sent'[r2][i] = sent[r2][i]
    BY <1>1, <2>1, <2>2 DEF TypeOK
  <2>4. pc'[c] = [op |-> "fanout", id |-> id, to |-> pc[c].to \ {r}]
        /\ \A d \in Conns \ {c} : pc'[d] = pc[d]
    BY <2>1 DEF TypeOK
  <2>5. \A d \in Conns : pc'[d].op = "fanout" =>
           \A r2 \in pc'[d].to : ReadGranted(grants', r2, msgs'[pc'[d].id].ssid.contract)
    BY <1>1, <2>4 DEF DeliveryAuthInv
  <2>6. \A d \in Conns : pc'[d].op = "replay" =>
           ~pc'[d].ssid.pres /\ ReadGranted(grants', d, pc'[d].ssid.contract)
    BY <1>1, <2>4 DEF DeliveryAuthInv
  <2>7. \A r2 \in Conns : \A i \in 1..MaxMsgs :
           cnt(sent'[r2][i]) > 0 =>
              i \in 1..Len(msgs') /\ ReadGranted(grants', r2, msgs'[i].ssid.contract)
    BY <1>1, <2>2, <2>3 DEF DeliveryAuthInv
  <2>. QED
    BY <1>1, <2>5, <2>6, <2>7 DEF DeliveryAuthInv
<1>. QED
  BY <1>2, <1>3 DEF Deliver

\* onPublish (lines 137-194) fans a new message out to the subscribers of
\* matching trie entries: each has a Read subscription on the message's
\* contract, because a Read entry matches only SSIDs of its own contract.
LEMMA PublishDelivery ==
    ASSUME TypeOK, FanoutInv, DeliveryAuthInv, NEW c \in Conns,
           NEW ch, NEW t, NEW me \in BOOLEAN, NEW r,
           PublishChannel(c, ch, t, me, r)
    PROVE  DeliveryAuthInv'
<1>. DEFINE m  == [ssid |-> NewSsid(ch.key, ch.path), from |-> c,
                   ttl |-> MessageTTL(r, t), key |-> ch.key,
                   ttlOpt |-> t, retain |-> r]
            to == Lookup(m.ssid) \ (IF me THEN {c} ELSE {})
<1>1. CASE UNCHANGED vars
  BY <1>1, ShrinkDelivery DEF vars
<1>2. CASE /\ pc[c] = Idle /\ msgs' = Append(msgs, m)
           /\ pc' = [pc EXCEPT ![c] = [op |-> "fanout", id |-> Len(msgs) + 1, to |-> to]]
           /\ UNCHANGED <<subs, grants, sent>>
  <2>1. Len(msgs') = Len(msgs) + 1 /\ msgs'[Len(msgs) + 1] = m
        /\ \A i \in 1..Len(msgs) : msgs'[i] = msgs[i]
    BY <1>2 DEF TypeOK
  <2>2. pc'[c] = [op |-> "fanout", id |-> Len(msgs) + 1, to |-> to]
        /\ \A d \in Conns \ {c} : pc'[d] = pc[d]
    BY <1>2 DEF TypeOK
  <2>3. \A x \in to : ReadGranted(grants, x, m.ssid.contract)
    <3>. SUFFICES ASSUME NEW x \in to PROVE ReadGranted(grants, x, m.ssid.contract)
      OBVIOUS
    <3>1. PICK e \in subs : e[1] = x /\ Matches(e[2], m.ssid)
      BY DEF Lookup
    <3>2. ~e[2].pres /\ e[2].contract = m.ssid.contract
      BY <3>1 DEF Matches, NewSsid
    <3>. QED
      BY <3>1, <3>2 DEF DeliveryAuthInv
  <2>4. \A d \in Conns : pc[d].op = "fanout" => pc[d].id \in 1..Len(msgs)
    BY DEF FanoutInv
  <2>5. \A d \in Conns : pc'[d].op = "fanout" =>
           \A x \in pc'[d].to : ReadGranted(grants', x, msgs'[pc'[d].id].ssid.contract)
    BY <1>2, <2>1, <2>2, <2>3, <2>4 DEF DeliveryAuthInv
  <2>6. \A d \in Conns : pc'[d].op = "replay" =>
           ~pc'[d].ssid.pres /\ ReadGranted(grants', d, pc'[d].ssid.contract)
    BY <1>2, <2>2 DEF DeliveryAuthInv
  <2>7. \A x \in Conns : \A i \in 1..MaxMsgs :
           sent'[x][i].live + sent'[x][i].replay > 0 =>
              i \in 1..Len(msgs') /\ ReadGranted(grants', x, msgs'[i].ssid.contract)
    BY <1>2, <2>1 DEF DeliveryAuthInv
  <2>. QED
    BY <1>2, <2>5, <2>6, <2>7 DEF DeliveryAuthInv
<1>. QED
  BY <1>1, <1>2 DEF PublishChannel, Fail

\* onSubscribe up to the store query (lines 53-84).
LEMMA SubscribeDelivery ==
    ASSUME TypeOK, DeliveryAuthInv, NEW c \in Conns, NEW k, NEW p, NEW l,
           Subscribe(c, k, p, l)
    PROVE  DeliveryAuthInv'
<1>. DEFINE s == NewSsid(k, p)
<1>1. CASE UNCHANGED vars
  BY <1>1, ShrinkDelivery DEF vars
<1>2. CASE /\ Authorize(k, "read")
           /\ AddSub(c, s, k)
           /\ pc' = IF HasPermission(k, "load")
                      THEN [pc EXCEPT ![c] = [op |-> "replay", ssid |-> s, limit |-> ReplayLimit(l)]]
                      ELSE pc
           /\ UNCHANGED <<msgs, sent>>
  <2>1. ~s.pres
    BY DEF NewSsid
  <2>2. \/ pc' = pc
        \/ /\ ~s.pres /\ pc \in [Conns -> Tasks]
           /\ \E l2 : pc' = [pc EXCEPT ![c] = [op |-> "replay", ssid |-> s, limit |-> l2]]
    BY <1>2, <2>1 DEF TypeOK
  <2>. QED
    BY <1>2, <2>1, <2>2, AddSubDelivery
<1>. QED
  BY <1>1, <1>2 DEF Subscribe, Fail

\* onPublish to "emitter/link/" (lines 241-280): the auto-subscribe is
\* made only with a key that authorizes Read.
LEMMA LinkDelivery ==
    ASSUME DeliveryAuthInv, NEW c \in Conns, NEW n, NEW k, NEW p, NEW sb, NEW pr,
           Link(c, n, k, p, sb, pr)
    PROVE  DeliveryAuthInv'
<1>. DEFINE ch == IF pr THEN Channel(ExtKey(k, c), p) ELSE Channel(k, p)
<1>1. CASE UNCHANGED vars
  BY <1>1, ShrinkDelivery DEF vars
<1>2. CASE LinkSubscribe(c, ch, sb) /\ UNCHANGED <<msgs, sent, pc>>
  <2>1. CASE sb /\ Authorize(ch.key, "read")
    BY <1>2, <2>1, AddSubDelivery DEF LinkSubscribe
  <2>2. CASE ~(sb /\ Authorize(ch.key, "read"))
    BY <1>2, <2>2, ShrinkDelivery DEF LinkSubscribe
  <2>. QED
    BY <2>1, <2>2
<1>. QED
  BY <1>1, <1>2 DEF Link, Fail

\* onPublish to "emitter/presence/" (lines 410-474) subscribes only to
\* presence SSIDs, which deliver no message.
LEMMA PresenceDelivery ==
    ASSUME DeliveryAuthInv, NEW c \in Conns, NEW k, NEW p, NEW chg,
           Presence(c, k, p, chg)
    PROVE  DeliveryAuthInv'
<1>. DEFINE ps == NewSsidForPresence(NewSsid(k, p))
<1>1. CASE UNCHANGED vars
  BY <1>1, ShrinkDelivery DEF vars
<1>2. CASE AddSub(c, ps, k) /\ UNCHANGED <<msgs, sent, pc>>
  <2>1. ps.pres
    BY DEF NewSsidForPresence
  <2>. QED
    BY <1>2, <2>1, AddSubDelivery
<1>3. CASE subs' = subs \ {<<c, ps>>} /\ UNCHANGED <<grants, msgs, sent, pc>>
  BY <1>3, ShrinkDelivery
<1>4. CASE UNCHANGED <<subs, grants, msgs, sent, pc>>
  BY <1>4, ShrinkDelivery
<1>. QED
  BY <1>1, <1>2, <1>3, <1>4 DEF Presence, Fail

\* Every handler step keeps DeliveryAuthInv.
LEMMA DeliveryStep ==
    TypeOK /\ FanoutInv /\ DeliveryAuthInv /\ [Next]_vars => DeliveryAuthInv'
<1>. SUFFICES ASSUME TypeOK, FanoutInv, DeliveryAuthInv, [Next]_vars
              PROVE  DeliveryAuthInv'
  OBVIOUS
<1>1. CASE UNCHANGED vars
  BY <1>1 DEF vars, DeliveryAuthInv
<1>2. CASE Next
  <2>. PICK c \in Conns :
         \/ \E u \in Users : Connect(c, u)
         \/ \E k \in Keys, p \in AllPaths, l \in LastOpts : Subscribe(c, k, p, l)
         \/ Replay(c)
         \/ \E k \in Keys, p \in AllPaths : Unsubscribe(c, k, p)
         \/ \E k \in Keys, p \in AllPaths, t \in TtlOpts, me, r \in BOOLEAN :
               Publish(c, k, p, t, me, r)
         \/ \E n \in LinkNames, r \in BOOLEAN : PublishLink(c, n, r)
         \/ Deliver(c)
         \/ \E n \in LinkNames, k \in Keys, p \in AllPaths, s, pr \in BOOLEAN :
               Link(c, n, k, p, s, pr)
         \/ \E k \in Keys, p \in AllPaths, ch \in {TRUE, FALSE, NoOpt} :
               Presence(c, k, p, ch)
    BY <1>2 DEF Next
  <2>1. CASE \E u \in Users : Connect(c, u)
    BY <2>1, ShrinkDelivery DEF Connect
  <2>2. CASE \E k \in Keys, p \in AllPaths, l \in LastOpts : Subscribe(c, k, p, l)
    BY <2>2, SubscribeDelivery
  <2>3. CASE Replay(c)
    BY <2>3, ReplayDelivery
  <2>4. CASE \E k \in Keys, p \in AllPaths : Unsubscribe(c, k, p)
    BY <2>4, ShrinkDelivery DEF Unsubscribe, Fail, vars
  <2>5. CASE \E k \in Keys, p \in AllPaths, t \in TtlOpts, me, r \in BOOLEAN :
               Publish(c, k, p, t, me, r)
    BY <2>5, PublishDelivery DEF Publish
  <2>6. CASE \E n \in LinkNames, r \in BOOLEAN : PublishLink(c, n, r)
    <3>0. PICK n \in LinkNames, r \in BOOLEAN :
               \E ch \in {links[c][n]} : PublishChannel(c, ch, NoOpt, FALSE, r)
      BY <2>6 DEF PublishLink
    <3>1. PICK ch \in {links[c][n]} : PublishChannel(c, ch, NoOpt, FALSE, r)
      BY <3>0
    <3>2. PICK t \in {NoOpt}, me \in BOOLEAN : PublishChannel(c, ch, t, me, r)
      BY <3>1, Zenon
    <3>. QED
      BY <3>2, PublishDelivery
  <2>7. CASE Deliver(c)
    BY <2>7, DeliverDelivery
  <2>8. CASE \E n \in LinkNames, k \in Keys, p \in AllPaths, s, pr \in BOOLEAN :
               Link(c, n, k, p, s, pr)
    BY <2>8, LinkDelivery
  <2>9. CASE \E k \in Keys, p \in AllPaths, ch \in {TRUE, FALSE, NoOpt} :
               Presence(c, k, p, ch)
    BY <2>9, PresenceDelivery
  <2>. QED
    BY <2>1, <2>2, <2>3, <2>4, <2>5, <2>6, <2>7, <2>8, <2>9
<1>. QED
  BY <1>1, <1>2

-----------------------------------------------------------------------------
\* The Read authorization of onSubscribe (line 63) and of the onLink
\* auto-subscribe (line 271) is carried, through the trie, to every pending
\* fan-out of onPublish and store query of onSubscribe, in every reachable
\* state, however the tasks interleave and whatever is unsubscribed.
THEOREM DeliveryAuthInvariant == Spec => [](TypeOK /\ FanoutInv /\ DeliveryAuthInv)
<1>1. Init => TypeOK /\ FanoutInv /\ DeliveryAuthInv
  BY DEF Init, TypeOK, NoChannel, Tasks, Idle, Count, FanoutInv, LiveAtMostOnce,
         DeliveryAuthInv
<1>2. TypeOK /\ FanoutInv /\ DeliveryAuthInv /\ [Next]_vars
      => (TypeOK /\ FanoutInv /\ DeliveryAuthInv)'
  BY TypeOKStep, FanoutStep, DeliveryStep
<1>. QED
  BY <1>1, <1>2, PTL DEF Spec

\* Tenant isolation: a connection receives a message, live from a fan-out
\* of onPublish or replayed from the store by onSubscribe, only of a
\* contract on which it subscribed with a key that authorizes Read.
THEOREM ReadAuthorizedDeliveryInvariant == Spec => []ReadAuthorizedDelivery
<1>1. FanoutInv /\ DeliveryAuthInv => ReadAuthorizedDelivery
  <2>. SUFFICES ASSUME FanoutInv, DeliveryAuthInv,
                       NEW c \in Conns, NEW i \in 1..Len(msgs),
                       sent[c][i].live + sent[c][i].replay > 0
                PROVE  ReadGranted(grants, c, msgs[i].ssid.contract)
    BY DEF ReadAuthorizedDelivery
  <2>1. i \in 1..MaxMsgs
    BY DEF FanoutInv
  <2>. QED
    BY <2>1 DEF DeliveryAuthInv
<1>. QED
  BY <1>1, DeliveryAuthInvariant, PTL
=============================================================================
