------------------------------- MODULE Broker -------------------------------
(***************************************************************************)
(* The request handlers of one broker node (internal/broker/handlers.go): *)
(* CONNECT, SUBSCRIBE, UNSUBSCRIBE and PUBLISH of every client connection, *)
(* and the in-band "emitter/..." requests link, me and presence.          *)
(*                                                                         *)
(* Every connection is served by its own reader task; the tasks share the *)
(* subscription trie and the message store.  Two handlers suspend in the  *)
(* middle and let the other tasks run:                                    *)
(*   - onSubscribe inserts into the trie and only then queries the store  *)
(*     for the messages to replay (lines 74 and 86);                      *)
(*   - onPublish looks up the subscribers once and then sends to them one *)
(*     by one (service.publish, line 194).                                *)
(* Both are modelled as two steps, with the task's position in pc.        *)
(*                                                                         *)
(* The trie, the store, key decryption and authorize are not under src/;  *)
(* they are modelled from their contracts in the spec (sections 4.2, 4.3).*)
(***************************************************************************)
EXTENDS Naturals, Sequences, FiniteSets

CONSTANTS
    Conns,          \* connection ids
    Users,          \* usernames a CONNECT may carry
    Keys,           \* channel keys as clients present them
    KeyPerms,       \* [Keys -> SUBSET Perms]: permission bits of a key
    KeyContract,    \* [Keys -> Contracts]: contract a key belongs to
    ValidKeys,      \* keys that decrypt, are unexpired and pass Validate
    AllowAll,       \* permissions of a key minted by ExtendKey for a private link
    Paths,          \* static channel paths (the hashed query of the channel)
    Wild,           \* a wildcard channel path
    BadPath,        \* a topic that ParseChannel rejects
    LinkNames,      \* link names requested or published to (all 1-2 bytes)
    ShortcutNames,  \* the names matching ^[a-zA-Z0-9]{1,2}$
    TtlOpts,        \* values of the ttl= option a topic may carry
    LastOpts,       \* values of the last= option a topic may carry
    NoOpt,          \* the option is absent
    RetainedTTL,    \* message.RetainedTTL
    TTLModulus,     \* 2^32: the range of the uint32 a message TTL is kept in
    MaxMsgs         \* bound on the number of messages published

Perms == {"read", "write", "store", "load", "presence", "extend", "execute"}

ASSUME KeyAssumption ==
    /\ KeyPerms \in [Keys -> SUBSET Perms]
    /\ ValidKeys \subseteq Keys
    /\ AllowAll \subseteq Perms
ASSUME PathAssumption ==
    /\ Wild \notin Paths /\ BadPath \notin Paths /\ Wild # BadPath
    /\ ShortcutNames \subseteq LinkNames
ASSUME OptAssumption ==
    /\ TtlOpts \subseteq Nat \cup {NoOpt} /\ LastOpts \subseteq Nat \cup {NoOpt}
    /\ NoOpt \notin Nat
    /\ TTLModulus \in Nat \ {0}
    /\ RetainedTTL \in 1..(TTLModulus - 1)
    /\ MaxMsgs \in Nat

VARIABLES
    username,   \* c.username, set by CONNECT
    links,      \* c.links: link name -> linked channel, or NoChannel
    subs,       \* the subscription trie: set of <<conn, ssid>>
    grants,     \* history: <<conn, presence?, contract, key>> of every
                \* subscription made
    msgs,       \* history: every message built by onPublish, by id
    store,      \* the message store: ids of stored messages, in store order
    sent,       \* times each message was sent to each connection, live or
                \* replayed from the store, counted up to 2
    pc          \* where each connection's reader task is

vars == <<username, links, subs, grants, msgs, store, sent, pc>>

-----------------------------------------------------------------------------
(* Keys, channels and SSIDs.                                               *)

\* The key ExtendKey mints for a private link of connection c.
ExtKey(k, c) == [parent |-> k, conn |-> c]
AllKeys == Keys \cup {ExtKey(k, c) : k \in Keys, c \in Conns}

Permissions(k) == IF k \in Keys THEN KeyPerms[k] ELSE AllowAll
Contract(k) == IF k \in Keys THEN KeyContract[k] ELSE KeyContract[k.parent]
Valid(k) == IF k \in Keys THEN k \in ValidKeys ELSE k.parent \in ValidKeys
HasPermission(k, p) == p \in Permissions(k)

\* service.authorize(channel, perm): decrypt, unexpired, contract found
\* and validated, and the permission bit set.
Authorize(k, p) == Valid(k) /\ HasPermission(k, p)

\* message.NewSsid(contract, query) and message.NewSsidForPresence.
NewSsid(k, path) == [pres |-> FALSE, contract |-> Contract(k), path |-> path]
NewSsidForPresence(s) == [pres |-> TRUE, contract |-> s.contract, path |-> s.path]

\* Mutant: a trie that matches SSIDs without their contract.
MatchesAnyContract(sub, ssid) ==
    /\ sub.pres = ssid.pres
    /\ sub.path \in {ssid.path, Wild}

\* Trie matching: a wildcard subscription matches every path.
Matches(sub, ssid) ==
    /\ sub.pres = ssid.pres
    /\ sub.contract = ssid.contract
    /\ sub.path \in {ssid.path, Wild}

\* subscriptions.Lookup(ssid): the subscribers of a matching entry.
Lookup(ssid) == {c \in Conns : \E e \in subs : e[1] = c /\ Matches(e[2], ssid)}

NoChannel == [key |-> BadPath, path |-> BadPath]
Channel(k, path) == [key |-> k, path |-> path]

\* storage.Query(ssid, t0, t1, limit): the last `limit` stored messages of
\* the ssid (the ids; the handler sends them in store order): the stored
\* messages of the ssid followed in the store by fewer than `limit` others.
Query(ssid, limit) ==
    LET hit(j) == Matches(ssid, msgs[store[j]].ssid)
        later(j) == {j2 \in (j + 1)..Len(store) : hit(j2)}
    IN  {store[j] : j \in {j \in 1..Len(store) : hit(j) /\ Cardinality(later(j)) < limit}}

\* A delivery count, saturated at 2 ("twice or more").
Bump(n) == IF n < 2 THEN n + 1 ELSE 2

\* The TTL onPublish gives a message: retain sets RetainedTTL, a positive
\* ttl option overrides it after the conversion uint32(ttl).
MessageTTL(retain, ttl) ==
    IF ttl # NoOpt /\ ttl > 0 THEN ttl % TTLModulus
    ELSE IF retain THEN RetainedTTL ELSE 0

\* Mutant: the default of one message forgotten.
ReplayLimitUnset(last) == last

\* The number of stored messages onSubscribe asks for: the last= option,
\* or 1 when it is absent.
ReplayLimit(last) == IF last = NoOpt THEN 1 ELSE last

Idle == [op |-> "idle"]

-----------------------------------------------------------------------------
Init ==
    /\ username = [c \in Conns |-> "none"]
    /\ links = [c \in Conns |-> [n \in LinkNames |-> NoChannel]]
    /\ subs = {}
    /\ grants = {}
    /\ msgs = << >>
    /\ store = << >>
    /\ sent = [c \in Conns |-> [i \in 1..MaxMsgs |-> [live |-> 0, replay |-> 0]]]
    /\ pc = [c \in Conns |-> Idle]

\* A handler returns the error err to the client and changes nothing.
Fail(c, err) == UNCHANGED vars

\* c.Subscribe(ssid): idempotent insert into the trie.
AddSub(c, ssid, k) ==
    /\ subs' = subs \cup {<<c, ssid>>}
    /\ grants' = grants \cup {<<c, ssid.pres, ssid.contract, k>>}

\* onConnect (lines 45-48).
Connect(c, u) ==
    /\ pc[c] = Idle
    /\ username' = [username EXCEPT ![c] = u]
    /\ UNCHANGED <<links, subs, grants, msgs, store, sent, pc>>

\* Mutant: onSubscribe without the Read authorization of line 63.
SubscribeUnchecked(c, k, path, last) ==
    /\ pc[c] = Idle
    /\ path # BadPath /\ ~HasPermission(k, "extend")
    /\ AddSub(c, NewSsid(k, path), k)
    /\ pc' = IF HasPermission(k, "load")
              THEN [pc EXCEPT ![c] = [op |-> "replay", ssid |-> NewSsid(k, path),
                                      limit |-> ReplayLimit(last)]]
              ELSE pc
    /\ UNCHANGED <<username, links, msgs, store, sent>>

\* onSubscribe up to the store query (lines 53-84).  With the Load
\* permission the task goes on to query the store; without it it returns.
Subscribe(c, k, path, last) ==
    /\ pc[c] = Idle
    /\ \/ path = BadPath /\ Fail(c, "BadRequest")
       \/ path # BadPath /\ ~Authorize(k, "read") /\ Fail(c, "Unauthorized")
       \/ /\ path # BadPath /\ Authorize(k, "read")
          /\ HasPermission(k, "extend")
          /\ Fail(c, "UnauthorizedExt")
       \/ /\ path # BadPath /\ Authorize(k, "read")
          /\ ~HasPermission(k, "extend")
          /\ AddSub(c, NewSsid(k, path), k)
          /\ pc' = IF HasPermission(k, "load")
                     THEN [pc EXCEPT ![c] =
                             [op |-> "replay", ssid |-> NewSsid(k, path),
                              limit |-> ReplayLimit(last)]]
                     ELSE pc
          /\ UNCHANGED <<username, links, msgs, store, sent>>

\* onSubscribe from the store query on (lines 85-101): the query fails and
\* the handler returns ServerError with the subscription left in place, or
\* the messages found are sent to the connection in store order.
Replay(c) ==
    /\ pc[c].op = "replay"
    /\ pc' = [pc EXCEPT ![c] = Idle]
    /\ \/ UNCHANGED sent
       \/ LET q == Query(pc[c].ssid, pc[c].limit)
          IN  sent' = [sent EXCEPT ![c] =
                         [i \in 1..MaxMsgs |->
                            IF i \in q THEN [live |-> @[i].live, replay |-> Bump(@[i].replay)]
                                       ELSE @[i]]]
    /\ UNCHANGED <<username, links, subs, grants, msgs, store>>

\* onUnsubscribe (lines 107-126).
Unsubscribe(c, k, path) ==
    /\ pc[c] = Idle
    /\ \/ path = BadPath /\ Fail(c, "BadRequest")
       \/ path # BadPath /\ ~Authorize(k, "read") /\ Fail(c, "Unauthorized")
       \/ /\ path # BadPath /\ Authorize(k, "read")
          /\ subs' = subs \ {<<c, NewSsid(k, path)>>}
          /\ UNCHANGED <<username, links, grants, msgs, store, sent, pc>>

\* onPublish of a parsed channel up to the trie lookup (lines 137-194):
\* the message is built, stored when it has a TTL and the key may store,
\* and the subscribers found by the lookup, less the publisher when me=0,
\* are left for the fan-out.
PublishChannel(c, ch, ttl, me, retain) ==
    /\ pc[c] = Idle
    /\ \/ ch.path = BadPath /\ Fail(c, "BadRequest")
       \/ ch.path = Wild /\ Fail(c, "Forbidden")
       \/ /\ ch.path \in Paths /\ ~Authorize(ch.key, "write")
          /\ Fail(c, "Unauthorized")
       \/ /\ ch.path \in Paths /\ Authorize(ch.key, "write")
          /\ HasPermission(ch.key, "extend")
          /\ Fail(c, "UnauthorizedExt")
       \/ /\ ch.path \in Paths /\ Authorize(ch.key, "write")
          /\ ~HasPermission(ch.key, "extend")
          /\ Len(msgs) < MaxMsgs
          /\ LET id == Len(msgs) + 1
                 m  == [ssid |-> NewSsid(ch.key, ch.path), from |-> c,
                        ttl |-> MessageTTL(retain, ttl), key |-> ch.key,
                        ttlOpt |-> ttl, retain |-> retain]
             IN  /\ msgs' = Append(msgs, m)
                 /\ store' = IF m.ttl > 0 /\ HasPermission(ch.key, "store")
                               THEN Append(store, id) ELSE store
                 /\ pc' = [pc EXCEPT ![c] =
                             [op |-> "fanout", id |-> id,
                              to |-> Lookup(m.ssid) \ (IF me THEN {c} ELSE {})]]
          /\ UNCHANGED <<username, links, subs, grants, sent>>

\* onPublish of a full topic.
Publish(c, k, path, ttl, me, retain) ==
    PublishChannel(c, Channel(k, path), ttl, me, retain)

\* onPublish of a 1-2 byte topic: it is replaced by the linked channel
\* string (lines 133-135), which carries no options; an unknown name gives
\* the empty topic, which does not parse.
PublishLink(c, n, retain) ==
    \E ch \in {links[c][n]} : PublishChannel(c, ch, NoOpt, FALSE, retain)

\* service.publish sending the message to one subscriber found by the
\* lookup, and the handler returning once all have been sent to.
Deliver(c) ==
    /\ pc[c].op = "fanout"
    /\ \/ \E r \in pc[c].to :
            /\ sent' = [sent EXCEPT ![r][pc[c].id] = [live |-> Bump(@.live), replay |-> @.replay]]
            /\ pc' = [pc EXCEPT ![c] = [op |-> "fanout", id |-> @.id, to |-> @.to \ {r}]]
       \/ /\ pc[c].to = {}
          /\ pc' = [pc EXCEPT ![c] = Idle]
          /\ UNCHANGED sent
    /\ UNCHANGED <<username, links, subs, grants, msgs, store>>

\* Mutant: the auto-subscribe of a link without its Read authorization.
LinkSubscribeUnchecked(c, ch, subscribe) ==
    IF subscribe THEN AddSub(c, NewSsid(ch.key, ch.path), ch.key)
                 ELSE UNCHANGED <<subs, grants>>

\* The auto-subscribe of onLink (lines 270-273): when asked and the key of
\* the link's channel authorizes Read.
LinkSubscribe(c, ch, subscribe) ==
    IF subscribe /\ Authorize(ch.key, "read")
      THEN AddSub(c, NewSsid(ch.key, ch.path), ch.key)
      ELSE UNCHANGED <<subs, grants>>

\* onPublish to "emitter/link/" (lines 241-280): the name is checked, the
\* channel is made from the key, or from the key ExtendKey mints for this
\* connection when the link is private, the link is stored and, when asked
\* and the key may read, the connection is subscribed.
Link(c, n, k, path, subscribe, private) ==
    /\ pc[c] = Idle
    /\ LET ch == IF private THEN Channel(ExtKey(k, c), path) ELSE Channel(k, path)
       IN
       \/ n \notin ShortcutNames /\ Fail(c, "LinkInvalid")
       \/ /\ n \in ShortcutNames /\ private
          /\ ~(Valid(k) /\ HasPermission(k, "extend") /\ path # BadPath)
          /\ Fail(c, "Unauthorized")
       \/ /\ n \in ShortcutNames /\ ~private /\ path = BadPath
          /\ Fail(c, "BadRequest")
       \/ /\ n \in ShortcutNames /\ path # BadPath
          /\ private => Valid(k) /\ HasPermission(k, "extend")
          /\ links' = [links EXCEPT ![c][n] = ch]
          /\ LinkSubscribe(c, ch, subscribe)
          /\ UNCHANGED <<username, msgs, store, sent, pc>>

\* onPublish to "emitter/me/" (lines 285-295) reads the links and the id
\* and changes nothing; so does an unknown request, answered NotFound
\* (lines 214-235).  They are stuttering steps and left out of Next.

\* onPublish to "emitter/presence/" (lines 410-474): the key needs the
\* Presence bit, and with `changes` given the connection is subscribed to
\* or unsubscribed from the presence SSID of the channel.  The status
\* reply reads the trie and changes nothing.
Presence(c, k, path, changes) ==
    /\ pc[c] = Idle
    /\ \/ ~Authorize(k, "presence") /\ Fail(c, "Unauthorized")
       \/ Authorize(k, "presence") /\ path = BadPath /\ Fail(c, "BadRequest")
       \/ /\ Authorize(k, "presence") /\ path # BadPath
          /\ LET ps == NewSsidForPresence(NewSsid(k, path))
             IN  \/ changes = TRUE /\ AddSub(c, ps, k)
                 \/ changes = FALSE /\ subs' = subs \ {<<c, ps>>} /\ UNCHANGED grants
                 \/ changes = NoOpt /\ UNCHANGED <<subs, grants>>
          /\ UNCHANGED <<username, links, msgs, store, sent, pc>>

-----------------------------------------------------------------------------
AllPaths == Paths \cup {Wild, BadPath}

Next ==
    \E c \in Conns :
        \/ \E u \in Users : Connect(c, u)
        \/ \E k \in Keys, p \in AllPaths, l \in LastOpts : Subscribe(c, k, p, l)
        \/ Replay(c)
        \/ \E k \in Keys, p \in AllPaths : Unsubscribe(c, k, p)
        \/ \E k \in Keys, p \in AllPaths, t \in TtlOpts, me, r \in BOOLEAN :
              Publish(c, k, p, t, me, r)
        \/ \E n \in LinkNames, r \in BOOLEAN : PublishLink(c, n, r)
        \/ Deliver(c)
        \/ \E n \in LinkNames, k \in Keys, p \in AllPaths, s, pr \in BOOLEAN :
              Link(c, n, k, p, s, pr)
        \/ \E k \in Keys, p \in AllPaths, ch \in {TRUE, FALSE, NoOpt} :
              Presence(c, k, p, ch)

Spec == Init /\ [][Next]_vars

-----------------------------------------------------------------------------
(* Properties.                                                             *)

Contracts == {KeyContract[k] : k \in Keys}
Ssids == [pres : BOOLEAN, contract : Contracts, path : Paths \cup {Wild}]
Messages == [ssid : Ssids, from : Conns, ttl : Nat, key : AllKeys,
             ttlOpt : TtlOpts \cup {NoOpt}, retain : BOOLEAN]
Tasks == {Idle}
         \cup [op : {"replay"}, ssid : Ssids, limit : Nat]
         \cup [op : {"fanout"}, id : Nat \ {0}, to : SUBSET Conns]

Count == 0..2

TypeOK ==
    /\ username \in [Conns -> Users \cup {"none"}]
    /\ links \in [Conns -> [LinkNames ->
                   {NoChannel} \cup [key : AllKeys, path : Paths \cup {Wild}]]]
    /\ subs \subseteq Conns \X Ssids
    /\ grants \subseteq Conns \X BOOLEAN \X Contracts \X AllKeys
    /\ msgs \in Seq(Messages)
    /\ store \in Seq(1..Len(msgs))
    /\ sent \in [Conns -> [1..MaxMsgs -> [live : Count, replay : Count]]]
    /\ pc \in [Conns -> Tasks]

\* The grants G record a subscription of connection c on contract ct with
\* a key that authorizes Read.
ReadGranted(G, c, ct) ==
    \E g \in G : g[1] = c /\ ~g[2] /\ g[3] = ct /\ Authorize(g[4], "read")

\* Tenant isolation of delivery: every message a connection receives, live
\* from a publisher's fan-out or replayed from the store on subscribe, is
\* of a contract on which the connection made a subscription with a key
\* that authorizes Read.  It relates the trie, the store and the SSIDs
\* built by onSubscribe, onLink and onPublish over many steps.
ReadAuthorizedDelivery ==
    \A c \in Conns : \A i \in 1..Len(msgs) :
        sent[c][i].live + sent[c][i].replay > 0 =>
            ReadGranted(grants, c, msgs[i].ssid.contract)

\* Part of the proof strengthening FanoutInv below: a single fan-out of
\* service.publish sends a message live at most once to each connection,
\* since the lookup is a set and each subscriber is removed once sent to.
LiveAtMostOnce ==
    \A c \in Conns : \A i \in 1..MaxMsgs : sent[c][i].live <= 1

\* Bookkeeping of the fan-out loop of onPublish (service.publish, lines
\* 194-199), used by the proof of DeliveryAuthInv: every fan-out in
\* progress is of a published message, no two tasks fan out the same
\* message, a subscriber still to be sent to has not had the message live,
\* and no message not yet published has been sent live.
FanoutInv ==
    /\ Len(msgs) <= MaxMsgs
    /\ \A c \in Conns : pc[c].op = "fanout" =>
          /\ pc[c].id \in 1..Len(msgs)
          /\ \A r \in pc[c].to : sent[r][pc[c].id].live = 0
    /\ \A c, d \in Conns :
          c # d /\ pc[c].op = "fanout" /\ pc[d].op = "fanout" => pc[c].id # pc[d].id
    /\ \A r \in Conns : \A i \in 1..MaxMsgs : i > Len(msgs) => sent[r][i].live = 0
    /\ LiveAtMostOnce

\* The inductive invariant behind ReadAuthorizedDelivery: every message
\* subscription in the trie, every subscriber a fan-out of onPublish still
\* has to send to (service.publish, line 194), and every store query
\* onSubscribe still has to make (line 86) is covered by a Read
\* subscription of that connection on the contract; and a message sent,
\* live or replayed, is a published one so covered.  Unsubscribing removes
\* the trie entry but not what was decided from it before.
DeliveryAuthInv ==
    /\ \A e \in subs : ~e[2].pres => ReadGranted(grants, e[1], e[2].contract)
    /\ \A c \in Conns : pc[c].op = "fanout" =>
          \A r \in pc[c].to : ReadGranted(grants, r, msgs[pc[c].id].ssid.contract)
    /\ \A c \in Conns : pc[c].op = "replay" =>
          ~pc[c].ssid.pres /\ ReadGranted(grants, c, pc[c].ssid.contract)
    /\ \A c \in Conns : \A i \in 1..MaxMsgs :
          sent[c][i].live + sent[c][i].replay > 0 =>
             i \in 1..Len(msgs) /\ ReadGranted(grants, c, msgs[i].ssid.contract)

\* Spec 3 and 8 (invariant 2): a key with the Extend bit may not itself be
\* used to subscribe.  onLink with subscribe=true (line 271) subscribes
\* with any key that authorizes Read.
ExtendKeyNeverSubscribes ==
    \A g \in grants : ~g[2] => ~HasPermission(g[4], "extend")

\* Spec 3 and 4.5: a message with a positive explicit ttl, or retained, is
\* written to the store when the key has the Store bit.  onPublish converts
\* the ttl option with uint32(ttl) (line 179).
StoredWhenTTL ==
    \A i \in 1..Len(msgs) :
        LET m == msgs[i] IN
        /\ HasPermission(m.key, "store")
        /\ (m.ttlOpt # NoOpt /\ m.ttlOpt > 0) \/ m.retain
        => \E j \in 1..Len(store) : store[j] = i

\* Spec 8, invariant 1: a message reaches a subscribed connection exactly
\* once.  onSubscribe replays stored messages (line 93) whether or not the
\* connection already received them live.
AtMostOnceDelivery ==
    \A c \in Conns : \A i \in 1..MaxMsgs : sent[c][i].live + sent[c][i].replay <= 1

=============================================================================
