------------------------- MODULE BrokerFanoutProofs -------------------------
(***************************************************************************)
(* The fan-out bookkeeping of service.publish (FanoutInv) is preserved by  *)
(* every step (FanoutStep), for every number of connections, keys and     *)
(* messages.  BrokerDeliveryProofs uses it: a Deliver step is authorized  *)
(* only because its recipient is still pending for a published id.        *)
(***************************************************************************)
EXTENDS BrokerProofs

USE KeyAssumption, PathAssumption, OptAssumption

\* A step that changes no live count and no message, and leaves every task
\* but c alone and c not fanning out, keeps FanoutInv.
LEMMA QuietFanout ==
    ASSUME TypeOK, FanoutInv, NEW c \in Conns,
           pc'[c].op # "fanout",
           \A d \in Conns \ {c} : pc'[d] = pc[d],
           msgs' = msgs,
           \A r \in Conns : \A i \in 1..MaxMsgs : sent'[r][i].live = sent[r][i].live
    PROVE  FanoutInv'
<1>1. \A d \in Conns : pc'[d].op = "fanout" => d # c /\ pc'[d] = pc[d]
  OBVIOUS
<1>2. (Len(msgs) <= MaxMsgs)'
  BY DEF FanoutInv
<1>3. \A d \in Conns : pc'[d].op = "fanout" =>
         /\ pc'[d].id \in 1..Len(msgs')
         /\ \A r \in pc'[d].to : sent'[r][pc'[d].id].live = 0
  <2>. SUFFICES ASSUME NEW d \in Conns, pc'[d].op = "fanout"
                PROVE  /\ pc'[d].id \in 1..Len(msgs')
                       /\ \A r \in pc'[d].to : sent'[r][pc'[d].id].live = 0
    OBVIOUS
  <2>1. pc'[d] = pc[d] /\ pc[d].op = "fanout"
    BY <1>1
  <2>2. pc[d].id \in 1..Len(msgs) /\ \A r \in pc[d].to : sent[r][pc[d].id].live = 0
    BY <2>1 DEF FanoutInv
  <2>3. pc[d].id \in 1..MaxMsgs /\ pc[d].to \subseteq Conns
    BY <2>1, <2>2 DEF FanoutInv, TypeOK, Tasks, Idle
  <2>. QED
    BY <2>1, <2>2, <2>3
<1>4. \A d, e \in Conns :
         d # e /\ pc'[d].op = "fanout" /\ pc'[e].op = "fanout" => pc'[d].id # pc'[e].id
  BY <1>1 DEF FanoutInv
<1>5. \A r \in Conns : \A i \in 1..MaxMsgs : i > Len(msgs') => sent'[r][i].live = 0
  BY DEF FanoutInv
<1>6. LiveAtMostOnce'
  BY DEF FanoutInv, LiveAtMostOnce
<1>. QED
  BY <1>2, <1>3, <1>4, <1>5, <1>6 DEF FanoutInv

\* A handler that runs in an idle task and returns to idle or goes on to
\* the store query of onSubscribe.
LEMMA IdleFanout ==
    ASSUME TypeOK, FanoutInv, NEW c \in Conns,
           pc' = pc \/ pc' = [pc EXCEPT ![c] = Idle] \/
           \E s, l : pc' = [pc EXCEPT ![c] = [op |-> "replay", ssid |-> s, limit |-> l]],
           pc[c] = Idle,
           UNCHANGED <<msgs, sent>>
    PROVE  FanoutInv'
<1>1. pc'[c].op # "fanout" /\ \A d \in Conns \ {c} : pc'[d] = pc[d]
  BY DEF TypeOK, Idle
<1>. QED
  BY <1>1, QuietFanout

\* onPublish starts the fan-out of a fresh id: nobody has had it live, and
\* no other task fans it out.
LEMMA PublishFanout ==
    ASSUME TypeOK, FanoutInv, NEW c \in Conns,
           NEW ch, NEW t, NEW me \in BOOLEAN, NEW r,
           PublishChannel(c, ch, t, me, r)
    PROVE  FanoutInv'
<1>1. CASE UNCHANGED vars
  BY <1>1 DEF FanoutInv, LiveAtMostOnce, vars
<1>2. CASE /\ Len(msgs) < MaxMsgs
           /\ \E m : msgs' = Append(msgs, m)
           /\ \E to \in SUBSET Conns :
                 pc' = [pc EXCEPT ![c] = [op |-> "fanout", id |-> Len(msgs) + 1, to |-> to]]
           /\ UNCHANGED sent
  <2>1. PICK m : msgs' = Append(msgs, m)
    BY <1>2
  <2>2. PICK to \in SUBSET Conns :
           pc' = [pc EXCEPT ![c] = [op |-> "fanout", id |-> Len(msgs) + 1, to |-> to]]
    BY <1>2
  <2>3. Len(msgs') = Len(msgs) + 1 /\ Len(msgs) \in Nat
    BY <2>1 DEF TypeOK
  <2>4. Len(msgs') <= MaxMsgs
    BY <1>2, <2>3
  <2>5. pc'[c] = [op |-> "fanout", id |-> Len(msgs) + 1, to |-> to]
        /\ \A d \in Conns \ {c} : pc'[d] = pc[d]
    BY <2>2 DEF TypeOK
  <2>6. \A r2 \in to : sent[r2][Len(msgs) + 1].live = 0
    BY <1>2, <2>3 DEF FanoutInv
  <2>7. \A d \in Conns : pc'[d].op = "fanout" =>
           /\ pc'[d].id \in 1..Len(msgs')
           /\ \A r2 \in pc'[d].to : sent'[r2][pc'[d].id].live = 0
    BY <1>2, <2>3, <2>5, <2>6 DEF FanoutInv
  <2>8. \A d, e \in Conns :
           d # e /\ pc'[d].op = "fanout" /\ pc'[e].op = "fanout" => pc'[d].id # pc'[e].id
    BY <2>3, <2>5 DEF FanoutInv
  <2>9. \A r2 \in Conns : \A i \in 1..MaxMsgs : i > Len(msgs') => sent'[r2][i].live = 0
    BY <1>2, <2>3 DEF FanoutInv
  <2>. QED
    BY <1>2, <2>4, <2>7, <2>8, <2>9 DEF FanoutInv, LiveAtMostOnce
<1>. QED
  <2>1. Lookup(NewSsid(ch.key, ch.path)) \subseteq Conns
    BY DEF Lookup
  <2>. QED
    BY <1>1, <1>2, <2>1 DEF PublishChannel, Fail

\* One send of the fan-out: the recipient had the message 0 times live, so
\* it now has it once, and it leaves the recipients still to be sent to.
LEMMA DeliverFanout ==
    ASSUME TypeOK, FanoutInv, NEW c \in Conns, Deliver(c)
    PROVE  FanoutInv'
<1>. DEFINE id == pc[c].id
<1>1. pc[c].op = "fanout" /\ id \in 1..Len(msgs) /\ id \in 1..MaxMsgs
      /\ pc[c].to \subseteq Conns
  <2>1. pc[c].op = "fanout"
    BY DEF Deliver
  <2>2. id \in 1..Len(msgs) /\ Len(msgs) <= MaxMsgs
    BY <2>1 DEF FanoutInv
  <2>3. pc[c] \in [op : {"fanout"}, id : Nat \ {0}, to : SUBSET Conns]
    BY <2>1 DEF TypeOK, Tasks, Idle
  <2>. QED
    BY <2>1, <2>2, <2>3
<1>2. CASE pc[c].to = {} /\ pc' = [pc EXCEPT ![c] = Idle] /\ UNCHANGED sent
  BY <1>2, QuietFanout DEF Deliver, TypeOK, Idle
<1>3. CASE \E r \in pc[c].to :
             /\ sent' = [sent EXCEPT ![r][pc[c].id] =
                           [live |-> Bump(@.live), replay |-> @.replay]]
             /\ pc' = [pc EXCEPT ![c] = [op |-> "fanout", id |-> @.id, to |-> @.to \ {r}]]
  <2>1. PICK r \in pc[c].to :
             /\ sent' = [sent EXCEPT ![r][id] = [live |-> Bump(@.live), replay |-> @.replay]]
             /\ pc' = [pc EXCEPT ![c] = [op |-> "fanout", id |-> id, to |-> pc[c].to \ {r}]]
    BY <1>3
  <2>2. sent[r][id].live = 0
    BY <1>1 DEF FanoutInv
  <2>3. sent'[r][id].live = 1
    BY <1>1, <2>1, <2>2 DEF TypeOK, Bump
  <2>4. \A r2 \in Conns : \A i \in 1..MaxMsgs :
           <<r2, i>> # <<r, id>> => sent'[r2][i] = sent[r2][i]
    BY <1>1, <2>1 DEF TypeOK
  <2>5. pc'[c] = [op |-> "fanout", id |-> id, to |-> pc[c].to \ {r}]
        /\ \A d \in Conns \ {c} : pc'[d] = pc[d]
    BY <2>1 DEF TypeOK
  <2>6. UNCHANGED msgs
    BY DEF Deliver
  <2>7. \A d \in Conns : pc'[d].op = "fanout" =>
           /\ pc'[d].id \in 1..Len(msgs')
           /\ \A r2 \in pc'[d].to : sent'[r2][pc'[d].id].live = 0
    <3>. SUFFICES ASSUME NEW d \in Conns, pc'[d].op = "fanout"
                  PROVE  /\ pc'[d].id \in 1..Len(msgs')
                         /\ \A r2 \in pc'[d].to : sent'[r2][pc'[d].id].live = 0
      OBVIOUS
    <3>1. CASE d = c
      BY <3>1, <1>1, <2>4, <2>5, <2>6 DEF FanoutInv
    <3>2. CASE d # c
      <4>0. pc'[d] = pc[d] /\ pc[d].op = "fanout"
        BY <3>2, <2>5
      <4>1. pc[d].id # id /\ pc[d].id \in 1..Len(msgs) /\ Len(msgs) <= MaxMsgs
        BY <3>2, <4>0, <1>1 DEF FanoutInv
      <4>2. pc[d].to \subseteq Conns
        <5>1. pc[d] \in Tasks
          BY DEF TypeOK
        <5>2. pc[d] \in [op : {"fanout"}, id : Nat \ {0}, to : SUBSET Conns]
          BY <4>0, <5>1 DEF Tasks, Idle
        <5>. QED
          BY <5>2
      <4>. QED
        BY <4>0, <4>1, <4>2, <2>4, <2>6 DEF FanoutInv
    <3>. QED
      BY <3>1, <3>2
  <2>8. \A d, e \in Conns :
           d # e /\ pc'[d].op = "fanout" /\ pc'[e].op = "fanout" => pc'[d].id # pc'[e].id
    BY <1>1, <2>5 DEF FanoutInv
  <2>9. \A r2 \in Conns : \A i \in 1..MaxMsgs : i > Len(msgs') => sent'[r2][i].live = 0
    BY <1>1, <2>4, <2>6 DEF FanoutInv
  <2>10. LiveAtMostOnce'
    BY <2>3, <2>4 DEF FanoutInv, LiveAtMostOnce
  <2>. QED
    BY <2>6, <2>7, <2>8, <2>9, <2>10 DEF FanoutInv
<1>. QED
  BY <1>2, <1>3 DEF Deliver

\* The store query of onSubscribe sends replays only: live counts stay.
LEMMA ReplayFanout ==
    ASSUME TypeOK, FanoutInv, NEW c \in Conns, Replay(c)
    PROVE  FanoutInv'
<1>. DEFINE q == Query(pc[c].ssid, pc[c].limit)
<1>0. \/ sent' = sent
      \/ sent' = [sent EXCEPT ![c] =
                   [i \in 1..MaxMsgs |->
                      IF i \in q THEN [live |-> sent[c][i].live, replay |-> Bump(sent[c][i].replay)]
                                 ELSE sent[c][i]]]
  BY DEF Replay
<1>1. \A r \in Conns : \A i \in 1..MaxMsgs : sent'[r][i].live = sent[r][i].live
  <2>. SUFFICES ASSUME NEW r \in Conns, NEW i \in 1..MaxMsgs
                PROVE  sent'[r][i].live = sent[r][i].live
    OBVIOUS
  <2>1. CASE sent' = sent
    BY <2>1
  <2>2. CASE sent' # sent
    <3>1. sent'[r] = IF r = c THEN [j \in 1..MaxMsgs |->
                        IF j \in q THEN [live |-> sent[c][j].live, replay |-> Bump(sent[c][j].replay)]
                                   ELSE sent[c][j]]
                     ELSE sent[r]
      BY <1>0, <2>2 DEF TypeOK
    <3>. QED
      BY <3>1
  <2>. QED
    BY <2>1, <2>2
<1>. QED
  BY <1>1, QuietFanout DEF Replay, TypeOK, Idle

\* Every handler step keeps FanoutInv.
LEMMA FanoutStep == TypeOK /\ FanoutInv /\ [Next]_vars => FanoutInv'
<1>. SUFFICES ASSUME TypeOK, FanoutInv, [Next]_vars PROVE FanoutInv'
  OBVIOUS
<1>1. CASE UNCHANGED vars
  BY <1>1 DEF FanoutInv, LiveAtMostOnce, vars
<1>2. CASE Next
  <2>. PICK c \in Conns :
         \/ \E u \in Users : Connect(c, u)
         \/ \E k \in Keys, p \in AllPaths, l \in LastOpts : Subscribe(c, k, p, l)
         \/ Replay(c)
         \/ \E k \in Keys, p \in AllPaths : Unsubscribe(c, k, p)
         \/ \E k \in Keys, p \in AllPaths, t \in TtlOpts, me, r \in BOOLEAN :
               Publish(c, k, p, t, me, r)
         \/ \E n \in LinkNames, r \in BOOLEAN : PublishLink(c, n, r)
         \/ Deliver(c)
         \/ \E n \in LinkNames, k \in Keys, p \in AllPaths, s, pr \in BOOLEAN :
               Link(c, n, k, p, s, pr)
         \/ \E k \in Keys, p \in AllPaths, ch \in {TRUE, FALSE, NoOpt} :
               Presence(c, k, p, ch)
    BY <1>2 DEF Next
  <2>1. CASE \E u \in Users : Connect(c, u)
    BY <2>1, IdleFanout DEF Connect
  <2>2. CASE \E k \in Keys, p \in AllPaths, l \in LastOpts : Subscribe(c, k, p, l)
    BY <2>2, IdleFanout DEF Subscribe, Fail, vars
  <2>3. CASE Replay(c)
    BY <2>3, ReplayFanout
  <2>4. CASE \E k \in Keys, p \in AllPaths : Unsubscribe(c, k, p)
    BY <2>4, IdleFanout DEF Unsubscribe, Fail, vars
  <2>5. CASE \E k \in Keys, p \in AllPaths, t \in TtlOpts, me, r \in BOOLEAN :
               Publish(c, k, p, t, me, r)
    BY <2>5, PublishFanout DEF Publish
  <2>6. CASE \E n \in LinkNames, r \in BOOLEAN : PublishLink(c, n, r)
    <3>0. PICK n \in LinkNames, r \in BOOLEAN :
               \E ch \in {links[c][n]} : PublishChannel(c, ch, NoOpt, FALSE, r)
      BY <2>6 DEF PublishLink
    <3>1. PICK ch \in {links[c][n]} : PublishChannel(c, ch, NoOpt, FALSE, r)
      BY <3>0
    <3>2. PICK t \in {NoOpt}, me \in BOOLEAN : PublishChannel(c, ch, t, me, r)
      BY <3>1, Zenon
    <3>. QED
      BY <3>2, PublishFanout
  <2>7. CASE Deliver(c)
    BY <2>7, DeliverFanout
  <2>8. CASE \E n \in LinkNames, k \in Keys, p \in AllPaths, s, pr \in BOOLEAN :
               Link(c, n, k, p, s, pr)
    BY <2>8, IdleFanout DEF Link, Fail, vars
  <2>9. CASE \E k \in Keys, p \in AllPaths, ch \in {TRUE, FALSE, NoOpt} :
               Presence(c, k, p, ch)
    BY <2>9, IdleFanout DEF Presence, Fail, vars
  <2>. QED
    BY <2>1, <2>2, <2>3, <2>4, <2>5, <2>6, <2>7, <2>8, <2>9
<1>. QED
  BY <1>1, <1>2

=============================================================================
