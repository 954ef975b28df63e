# Formal models of the emitter broker request handlers

This directory holds TLA+ models of the request pipeline of one emitter
broker node, `src/internal/broker/handlers.go`, together with the request and
response types in `src/unnamed/part_000`. It has TLC configurations that
model-check the models on small instances, and TLAPS proofs of what holds for
every instance.

## The system

One broker node serves many client connections. Each connection has its own
reader task. That task calls the handlers of `handlers.go` one packet at a
time:

| Handler | Lines | What it changes |
|---|---|---|
| `onConnect` | 44-48 | the connection's `username` |
| `onSubscribe` | 52-102 | parse the channel, authorize Read, refuse Extend keys, insert `<<conn, ssid>>` into the shared subscription trie; then, if the key has Load, query the store and send the last `last=` (default 1) messages |
| `onUnsubscribe` | 106-126 | remove the subscription |
| `onPublish` | 130-201 | 1-2 byte topics are replaced by the connection's link; parse, refuse non-static channels, authorize Write, refuse Extend keys, build the message (retain gives `RetainedTTL`, a positive `ttl=` overrides it as `uint32(ttl)`), store it when it has a TTL and the key has Store, then `service.publish` looks up the trie and sends to each subscriber, skipping the publisher when `me=0` |
| `onEmitterRequest` | 205-236 | routes `emitter/...` requests to keygen, presence, me and link |
| `onLink` | 240-280 | validate the name, make the channel (private: `ExtendKey` mints a key bound to this connection with `AllowAll`), store the link, and subscribe if asked and the key authorizes Read |
| `onMe` | 284-295 | read-only |
| `onKeyGen` | 299-344 | mint a key through the key service |
| `OnSurvey`, `lookupPresence`, `getClusterPresence` | 348-407 | presence status: local trie lookup plus a cluster survey gathered for at most 1000 ms |
| `onPresence` | 409-474 | authorize Presence, subscribe to or unsubscribe from the presence SSID of the channel, reply with the status |

The tasks share three things: the subscription trie, the message store and
the key/contract service. Two handlers reach a point where other tasks run
between their steps, because the trie and the store are shared:

- `onSubscribe` inserts into the trie (line 74) before it queries the store
  (line 86);
- `onPublish` takes one lookup snapshot (line 194) and then sends to each
  subscriber in turn.

The trie, the store, key decryption, `authorize` and `ExtendKey` are not
under `src/`. They are modelled from their contracts in `spec.md` (4.2, 4.3)
and marked `spec_modelled` in `PROJECT.json`.

## Modules

- `Broker.tla` models the handlers.
  - **State:**
    - `username` and `links` are per connection.
    - `subs` is the trie, a set of `<<conn, ssid>>`.
    - `store` holds the stored message ids in store order.
    - `msgs` records every message built, by id.
    - `grants` records each subscription made, as `<<conn, presence?, contract, key>>`.
    - `sent` counts deliveries per connection and message. The count saturates at 2, live and replayed separately.
    - `pc` holds each reader task's position: idle, between subscribe and replay, or in a publish fan-out.
  - **Actions:** one per handler: `Connect`, `Subscribe`, `Unsubscribe`, `Publish`, `PublishLink`, `Link` and `Presence`. Two more model the suspended second halves:
    - `Replay` is the store query and send of `onSubscribe`. A failed query returns `ServerError` and leaves the subscription in place.
    - `Deliver` sends the message to one subscriber of the snapshot, or ends the fan-out.
  - Every error return of a handler is a disjunct of its action that changes nothing (`Fail`). The error reply is not state.
  - `onMe` and unknown requests are pure reads and are left out of `Next`.
- `MC_Broker.tla` fixes the instances: keys `k1` (contract C1), `k2` (contract C2) and `k3` (contract C1, with the same bits as `k1` but failing validation), their permissions, and a symmetry over connections.
- `BrokerProofs.tla`, `BrokerFanoutProofs.tla` and `BrokerDeliveryProofs.tla` hold the TLAPS proofs about `Broker`.
- `PresenceGather.tla` models the presence status query of `onPresence` (lines 459-472). It covers `getAllPresence` with the local `lookupPresence` (367-379), the cluster scatter/gather of `getClusterPresence` (383-407), and every peer's `OnSurvey` (348-365). The survey is bounded by the 1000 ms deadline of the awaiter.
  - **State:**
    - `trie[n]` is each node's subscribers of the queried SSID: local connections, and the peers that forward to it.
    - `phase` is idle, gather or done.
    - `rid` is the number of the current request's survey.
    - `elapsed` counts timer ticks since the dispatch.
    - `who` is the presence list being built.
    - `pending` and `net` are the survey requests and answers in flight, each tagged with its survey's `rid`.
    - `heard` is the set of nodes whose list was merged.
    - `stable` and `everSub` are history variables: the connections subscribed throughout the request, and at any time during it.
  - **Actions:**
    - `Start` is `onPresence` with `status=true`. It does the local lookup, then either dispatches the survey to every peer or, when marshalling or `Survey` fails (385-386), replies at once.
    - `OnSurvey` is the responder. It answers from its own trie, or answers nothing when the SSID does not decode.
    - `Gather` merges one answer of the current survey before the deadline (389-395). An answer that does not unmarshal is skipped.
    - `Tick` is the timer.
    - `GatherEnd` is the awaiter returning at the deadline, and the reply.
    - `DropStale` discards answers of an earlier survey.
    - `LoseRequest` and `LoseAnswer` are the cluster losing a message.
    - `Sub`, `Unsub` and `PeerSub` change subscriptions at every node while the query runs.
  - The survey transport is not under `src/`. It is modelled from spec 4.11 and 9.
- `PresenceQuery.tla` is the abstract query, with no nodes, messages or timers. A query, once asked, is answered. The answer contains only connections subscribed at some time while the query ran, and every connection of the asking node that stayed subscribed. `PresenceGather` instantiates it as `Query` with this mapping:
  - `status` is busy while gathering;
  - `answer` is `who` once done;
  - `seen` is `everSub`;
  - `kept` is `stable`.

  `QuerySpec` is that instance's specification. A survey error at `Start` maps to the abstract `AskReply`.
- `KeyGen.tla` models `onKeyGen` (299-344) and the request's `access()` and `expires()` (`part_000` 40-72). The state is each connection's last response: the request's `type`, the status, and the key it carries. Every branch of the handler is a disjunct:
  - bad JSON gives BadRequest;
  - an undecryptable or expired parent gives Unauthorized;
  - a master parent goes through `CreateKey`, and an Extend parent through `ExtendKey`, bound to the connection. Either may fail.
  - any other parent gives Unauthorized.

  `access()` is a recursive function over the bytes of `type`, or-ing in each flag. `expires()` maps ttl 0 to epoch zero and any other ttl to now + ttl.
- `PresenceGatherProofs.tla` and `KeyGenProofs.tla` hold the TLAPS proofs of those modules. The `MC_` modules fix the instances.

### Abstractions

- `PublishChannel` makes the store write of `onPublish` (line 184) and the subscriber lookup of `service.publish` (line 194) one step. Between the two, the code may let another connection subscribe or unsubscribe. Splitting them would let a subscriber that arrives in between get the message both from the lookup and from its replay, which the dup run already shows by another interleaving. No passing property depends on the two being one step: each recipient is still checked against the trie at the lookup.
- Channel strings are reduced to the parts that steer control:
  - a key;
  - a path from `Paths`, or `Wild` (a wildcard, which matches every path of its contract in the trie and which `onPublish` rejects as Forbidden), or `BadPath` (which `ParseChannel` rejects).
- Payloads, times, stats and JSON are left out.
- `uint32` is kept as arithmetic modulo `TTLModulus`. That is 2^32 in the code and 256 in the runs, because TLC integers are 32-bit signed. `RetainedTTL` is scaled the same way, to 255.
- Publishing is bounded by `MaxMsgs`.
- `storage.Query(ssid, t0, t1, limit)` returns the last `limit` stored messages of the SSID. `Query` states this without recursion: a stored message of the SSID is returned when fewer than `limit` others of the SSID follow it in the store. This is the same set as taking the matching entries with `SelectSeq` and keeping the last `limit`. TLC found the two forms equal on every store of length at most 4 and every limit from 0 to 5. The non-recursive form is the one the provers can reason about.

## Runs

| Run | Config | Expect | Properties | What it shows |
|---|---|---|---|---|
| delivery | `MC_Broker.cfg` | pass | TypeOK, ReadAuthorizedDelivery, DeliveryAuthInv | Two connections subscribe, unsubscribe, replay and publish in every order on two contracts. Every message a connection receives, live or replayed, is of a contract it subscribed to with a Read key, even when the subscription was removed between the lookup and the send. |
| links | `MC_Broker_links.cfg` | pass | ReadAuthorizedDelivery, DeliveryAuthInv | One connection with a user name. It makes public and private links (through `ExtendKey`), publishes through link names (known and unknown), and subscribes to presence. |
| extlink | `MC_Broker_extlink.cfg` | violation | ExtendKeyNeverSubscribes | `onLink` with `subscribe=true` subscribes with an Extend key (line 271). |
| ttl | `MC_Broker_ttl.cfg` | violation | StoredWhenTTL | `uint32(ttl)` turns `ttl = 2^32` into 0, so the message is not stored (line 179). |
| dup | `MC_Broker_dup.cfg` | violation | AtMostOnceDelivery | A message published between the trie insert and the store query of a subscribe is received live and then again by the replay (lines 74-93). |

**Why the bounds are enough.**
- Two connections are enough for a publisher and a subscriber whose handlers interleave.
- Two keys on two contracts let a mismatched contract be delivered.
- One message (`MaxMsgs = 1`) is enough for every question asked. Each question is about one message and one connection: where it goes, and how often.
- The links run keeps one connection, because links are per connection, and adds an Extend key and a presence key.
- `sent` saturates at 2 because no property distinguishes 2 from more.
- The invalid key `k3` makes every Unauthorized branch occur. A handler that skipped its Read check, in `onSubscribe` or in the auto-subscribe of `onLink`, would let `k3` receive messages of C1. The mutants `SubscribeUnchecked` and `LinkSubscribeUnchecked` show that the runs catch this.
- `last=` takes only its default in the delivery and links runs. That is the value every client that sends no option gets.

| presence | `MC_PresenceGather.cfg` | pass | TypeOK, WhoSound, StableHeardReported, QuerySpec | Two nodes and one connection at each. Subscriptions change during the query, and requests and answers are lost or arrive late. The presence list is sound and complete for the nodes heard. The scatter/gather refines `PresenceQuery`: the query always finishes (its `WF(Reply)`), and a finished reply changes only when a new query is asked, so late answers are dropped. |
| keygen | `MC_KeyGen.cfg` | pass | TypeOK, MintedPermsAsRequested, MintedFromUsableParent | A master key, an Extend key, an expired Extend key, a plain key and an undecryptable one are each used with reordered, repeated and unknown type characters and ttls 0, 3600 and -5. A key is returned only with a 200 and only from a usable master or Extend parent. It carries exactly the permissions spec 4.7 gives its type. |

**The presence bounds.**
- Two nodes make one peer, whose answer can arrive, be lost, or come after the deadline.
- `Deadline = 2` lets an answer arrive before the timer has run out and also after it.
- `MaxReqs = 2` gives a second request, so answers of the first are stale for it.
- Three nodes take close to three minutes and add no new branch.

**Fairness.** Only the presence run assumes any. It is weak fairness on `Tick` and on `GatherEnd`: the awaiter's timer fires and the gather returns once it has. The survey layer schedules both, whatever the peers do (spec 4.11, and spec 8, property 6). No fairness is assumed of peers, of the network or of clients. The abstract `PresenceQuery` promises `WF(Reply)`, and the refinement check shows that the timer's fairness delivers it even when every answer is lost.

## Findings

1. **Link subscribes with an Extend key.** `onLink` (line 271) checks only that the key authorizes Read. `onSubscribe` (line 68) and spec 8, invariant 2, refuse Extend keys. (run extlink)
2. **TTL truncation.** `msg.TTL = uint32(ttl)` (line 179) turns a ttl option that is a multiple of 2^32 into 0. So the message is not stored. (run ttl) Reading the code, the same line would also overwrite the `RetainedTTL` of a retained message. The run's trace does not show that case.
3. **Replay after live delivery.** A message published between the trie insert and the store query, or before a second subscribe to the same channel, reaches the subscriber twice. Spec 8, invariant 1, says "exactly once", while spec 1 lists exactly-once as a non-goal. (run dup)

## Proofs

`BrokerProofs.tla` proves `THEOREM TypeCorrect == Spec => []TypeOK` for every value of the constants that satisfies the module's assumptions:

- `KeyAssumption`: the permissions of a key are a subset of the seven bits.
- `PathAssumption`: `Wild` and `BadPath` are distinct and are not paths.
- `OptAssumption`: options are naturals or `NoOpt`, `TTLModulus > 0`, and `0 < RetainedTTL < TTLModulus`.

**Structure of the proof.**
- `TypeOK` is inductive as it stands. It needs `store \in Seq(1..Len(msgs))` so that the ids of stored messages stay in range.
- There is one lemma per action: `SubscribeTypeOK`, `ReplayTypeOK`, `PublishChannelTypeOK`, `DeliverTypeOK` and the rest. These rest on lemmas about the helpers: `SsidType`, `MessageTTLType` and `BumpType`.
- The theorem splits `Next` into its nine disjuncts and combines them with PTL.

`PresenceGatherProofs.tla` proves `WhoSoundInvariant` and `StableHeardReportedInvariant` (`Spec => []WhoSound`, `Spec => []StableHeardReported`) under `GatherAssumption`: `Self` is a node, `Home` maps connections to nodes, connections are not nodes, `Deadline > 0`, and `MaxReqs` is a natural.
- Neither property is inductive alone. A `Gather` step merges an answer from the network, so the argument needs to know what answers in flight say. The strengthening `IInv` adds:
  - tries hold a connection only at its home node;
  - requests and answers in flight carry a survey number at most `rid`, so a new `Start` never finds an answer of its own survey already in the network;
  - during a gather, every subscribed connection is in `everSub`;
  - during a gather, every answer of the current survey is sound (within `everSub`) and complete for its node (it holds the stable connections homed there).
- There is one lemma per action, and `IInvInvariant` combines them with PTL.
- `TypeCorrect` (`Spec => []TypeOK`) follows, because `TypeOK` is a conjunct of `IInv`.
- `QuerySafety` proves the safety part of the refinement, `Spec => Query!Init /\ [][Query!Next]_Query!avars`, for every instance.
  - Every step of `PresenceGather` maps to a step of `PresenceQuery` or to a stutter:
    - `SubQuery` and `UnsubQuery` map the subscription steps;
    - `StartQuery` maps `Start` to `Ask`, or to `AskReply` when the survey fails;
    - `GatherEndQuery` maps the deadline's return to `Reply`;
    - `PeerSubQuery` and `HiddenQuery` show that peers, surveys, answers, losses and ticks change no abstract variable.
  - `Reply` needs the list to hold the stable connections of `Self`. That is why `IInv` records that `Self` is always among the nodes heard.
  - The `WF(Reply)` part of `QuerySpec` is liveness, and is only model-checked.

`KeyGenProofs.tla` proves three invariants of `onKeyGen` for every set of keys, channels, types and ttls. They hold under `KeyGenAssumption`: the key sets lie within `Parents`, ttls are integers, `Now` is a natural, and every type is a string (`Types \subseteq Seq(STRING)`; `type` is a Go string).
- `MintedFromUsableParentInvariant` (`Spec => []MintedFromUsableParent`) needs only the domain of `reply`. Each branch of `onKeyGen` rewrites one connection's response, and the two minting branches carry a parent that passed the decrypt, expiry and master/Extend checks.
- `AccessIsRef` is the lemma that `access()` computes the permissions of spec 4.7: `Access(t) = AccessRef(t)` for every string `t`. `Access` is a recursive function over the prefixes of `t`, and what TLAPS knows of it is only its `CHOOSE`. The proof runs as follows:
  - the closed form `W[i] = UNION {FlagPerm(t[j]) : j \in 1..i}` satisfies the fold's recursion, so the `CHOOSE` picks a solution;
  - any solution equals `W`: otherwise the set of indices where the two differ has a least element (`WFMin` with `NatLessThanWellFounded` from `WellFoundedInduction`, which take no operator parameter);
  - that least element cannot be 0, where both are `{}`, and cannot be positive, where both add the same flag to equal sets.
- `TypeCorrect` (`Spec => []TypeOK`) follows with the lemmas `KeyGenReply` (each branch answers one connection with at most one key minted from the request), `AccessInPerms` and `MintedKeys`.
- `MintedPermsAsRequestedInvariant` (`Spec => []MintedPermsAsRequested`) also follows from them. It needs `TypeOK` and nothing more, because a response records the type its key was computed from.

`BrokerFanoutProofs.tla` proves `FanoutStep`, a lemma the delivery proof needs: every step preserves `FanoutInv`, the bookkeeping of the fan-out loop of `service.publish`. It is not a run property of its own.
- `FanoutInv` says:
  - `Len(msgs) <= MaxMsgs`;
  - every fan-out in progress is of a published id;
  - no two tasks fan out the same id;
  - a recipient still pending has live count 0 for the id;
  - ids not yet published have live count 0 everywhere;
  - no connection has a message live twice (`LiveAtMostOnce`).
- The argument: `QuietFanout` covers every step that changes no live count and starts no fan-out. `IdleFanout` applies it to the handlers that run in an idle task, and `ReplayFanout` to the store replay, which bumps only replay counts. `PublishFanout` and `DeliverFanout` handle the two steps that matter. `FanoutStep` combines them, using `TypeOKStep` (the inductive step of `TypeCorrect`, stated as a lemma) for the typing.

`BrokerDeliveryProofs.tla` proves tenant isolation of delivery for every instance: `ReadAuthorizedDeliveryInvariant` (`Spec => []ReadAuthorizedDelivery`).
- `ReadAuthorizedDelivery` is not inductive. A `Deliver` step sends to a subscriber the lookup found earlier, and `Replay` queries with an SSID `Subscribe` built earlier. Meanwhile the trie entries they came from may have been unsubscribed. The strengthening `DeliveryAuthInv`, checked by the delivery and links runs, carries the Read authorization along that path. It says:
  - every non-presence trie entry is covered by a Read grant of its connection on its contract;
  - every recipient still pending in a fan-out is covered on the contract of the message being fanned out;
  - every pending store query has a non-presence SSID, covered on its contract;
  - a message sent, live or replayed, is a published one, covered on its contract.
- Grants are written `ReadGranted(grants, c, ct)`. The operator takes the grant set as an argument, so the lemma `ReadGrantedMono` (more grants keep a Read grant) is constant-level and applies in the primed state.
- `QuietDelivery` covers every step that sends and publishes nothing. `ShrinkDelivery` (the failures, `Connect`, `Unsubscribe`) and `AddSubDelivery` (a subscription with the grant it records) rest on it.
- `SubscribeDelivery`, `LinkDelivery` and `PresenceDelivery` apply those two lemmas. A presence SSID carries no message, so presence subscriptions need no Read grant.
- `ReplayDelivery` uses `QueryContract`: every id the store query returns is a published message of the queried contract.
- `PublishDelivery` uses the fact that a non-presence trie entry matches only SSIDs of its own contract. Every recipient of a new fan-out is therefore covered on the message's contract. It also uses `FanoutInv` to know that other fan-outs are of earlier messages, which `Append` leaves unchanged.
- `DeliverDelivery` takes the recipient's grant from the pending fan-out.
- `DeliveryStep` combines the cases. `DeliveryAuthInvariant` proves `TypeOK /\ FanoutInv /\ DeliveryAuthInv` inductive together, with `TypeOKStep` and `FanoutStep`. `Len(msgs) <= MaxMsgs` from `FanoutInv` then gives `ReadAuthorizedDelivery`.

**Only model-checked.** Every invariant of a passing run is proved. Only the liveness part of `QuerySpec` is left to TLC.

**Out of TLAPS's reach**, and left to TLC:
- liveness and `ENABLED` (the `WF` part of `QuerySpec`);
- induction over data through the library's induction theorems, which take an operator parameter. The `access()` fold is proved without them (see `AccessIsRef` above);
- modules that declare `RECURSIVE` operators.

## Not modelled

- **Presence in Broker**: the presence subscription of `onPresence` is part of `Broker`, and the status query is `PresenceGather`. The two are not composed: the query's only use of the broker state is the trie, which `PresenceGather` models as its own variable.
- **Negative ttl in keygen**: a negative ttl yields a key that is already expired. Spec 4.7 prescribes exactly now + ttl, so no property states otherwise. The keygen run reaches the case.
- **Presence notifications and disconnect**: they are not in these files.
- **Response types and encoding**: formatting. Only `keyGenResponse`'s status and key are kept, in `KeyGen`.
