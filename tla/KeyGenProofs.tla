----------------------------- MODULE KeyGenProofs -----------------------------
(* Proofs about the keygen request of KeyGen, for every set of keys,      *)
(* channels, types and ttls.  That access() computes the permissions of   *)
(* spec 4.7 is proved for every `type` string by the least-element        *)
(* principle of the naturals: the fold's fixed point agrees with a closed *)
(* form at every index, or there is a least index where it does not.      *)
EXTENDS KeyGen, WellFoundedInduction, TLAPS

USE KeyGenAssumption

\* access() (part_000 50-72) ors into `required` the flag of every
\* character of `type` and ignores the others, whatever their order or
\* repetition: the fold equals the set of flags of the characters present.
\* W is that set for each prefix; the fold's function and W satisfy the
\* same recursion, so a least index where they differ cannot exist.
LEMMA AccessIsRef ==
    ASSUME NEW t \in Seq(STRING)
    PROVE  Access(t) = AccessRef(t)
<1>. DEFINE n == Len(t)
            Def(f) == [i \in 0..n |-> IF i = 0 THEN {} ELSE f[i - 1] \cup FlagPerm(t[i])]
            acc == CHOOSE f : f = Def(f)
            W == [i \in 0..n |-> UNION {FlagPerm(t[j]) : j \in 1..i}]
<1>0. n \in Nat
  OBVIOUS
<1>1. Access(t) = acc[n]
  BY DEF Access
<1>2. W = Def(W)
  <2>. SUFFICES ASSUME NEW i \in 0..n
                PROVE  W[i] = IF i = 0 THEN {} ELSE W[i - 1] \cup FlagPerm(t[i])
    BY <1>0
  <2>1. CASE i = 0
    BY <2>1
  <2>2. CASE i # 0
    <3>1. 1..i = (1..(i - 1)) \cup {i} /\ i - 1 \in 0..n
      BY <2>2, <1>0
    <3>. QED
      BY <3>1, <2>2
  <2>. QED
    BY <2>1, <2>2
<1>3. acc = Def(acc)
  BY <1>2
<1>4. ASSUME NEW f, f = Def(f) PROVE f = W
  <2>. DEFINE T == {i \in 0..n : f[i] # W[i]}
  <2>1. f = [i \in 0..n |-> f[i]] /\ W = [i \in 0..n |-> W[i]]
    BY <1>4
  <2>2. SUFFICES ASSUME T # {} PROVE FALSE
    BY <2>1 DEF T
  <2>3. T \subseteq Nat
    BY <1>0 DEF T
  <2>4. PICK m \in T : \A y \in T : ~(<<y, m>> \in OpToRel(<, Nat))
    BY <2>2, <2>3, NatLessThanWellFounded, WFMin
  <2>5. f[0] = {} /\ W[0] = {}
    BY <1>0, <1>4
  <2>6. m \in 1..n /\ f[m] # W[m]
    <3>1. m \in 0..n /\ f[m] # W[m]
      BY <2>4 DEF T
    <3>2. m # 0
      BY <3>1, <2>5
    <3>. QED
      BY <1>0, <3>1, <3>2
  <2>7. m - 1 \in 0..n /\ <<m - 1, m>> \in OpToRel(<, Nat)
    BY <2>6 DEF OpToRel
  <2>8. f[m - 1] = W[m - 1]
    BY <2>4, <2>7 DEF T
  <2>9. f[m] = f[m - 1] \cup FlagPerm(t[m])
    BY <1>4, <2>6
  <2>10. W[m] = W[m - 1] \cup FlagPerm(t[m])
    BY <1>2, <2>6
  <2>. QED
    BY <2>6, <2>8, <2>9, <2>10
<1>5. W[n] = AccessRef(t)
  BY <1>0 DEF AccessRef, FlagPerm
<1>. QED
  BY <1>1, <1>3, <1>4, <1>5

\* MintedFromUsableParent, with the domain of reply it needs.
KInv == DOMAIN reply = Conns /\ MintedFromUsableParent

LEMMA InitKInv == Init => KInv
BY DEF Init, KInv, MintedFromUsableParent

\* One step of onKeyGen keeps every response's key coming from a usable
\* master or Extend parent: each branch answers for one connection only.
LEMMA KeyGenKInv ==
    ASSUME KInv, NEW c \in Conns, NEW k \in Parents, NEW ch \in Channels,
           NEW t \in Types, NEW ttl \in TTLs, NEW w \in BOOLEAN,
           KeyGen(c, k, ch, t, ttl, w)
    PROVE  KInv'
PROOF
<1> DEFINE new(conn) == [parent |-> k, channel |-> ch, perms |-> Access(t),
                         expires |-> Expires(ttl), conn |-> conn]
           usable == k \in Decryptable \ Expired
           Ans(st, key) == reply' = [reply EXCEPT ![c] = [type |-> t, status |-> st, key |-> key]]
<1>1. \/ Ans("BadRequest", {}) \/ Ans("Unauthorized", {}) \/ Ans("KeyError", {})
      \/ usable /\ k \in Master /\ Ans("200", {new(NoConn)})
      \/ usable /\ k \notin Master /\ k \in Extenders /\ Ans("200", {new(c)})
  BY DEF KeyGen, Reply
<1>2. CASE \/ Ans("BadRequest", {}) \/ Ans("Unauthorized", {}) \/ Ans("KeyError", {})
  BY <1>2 DEF KInv, MintedFromUsableParent
\* The body of MintedFromUsableParent for one connection.
<1> DEFINE Ok(d, r) == /\ (r.status = "200") = (r.key # {})
                      /\ \A m \in r.key :
                           /\ m.parent \in Decryptable \ Expired
                           /\ \/ m.parent \in Master /\ m.conn = NoConn
                              \/ m.parent \in Extenders \ Master /\ m.conn = d
<1>0. \A r : Ok(c, r) /\ reply' = [reply EXCEPT ![c] = r] => KInv'
  <2> SUFFICES ASSUME NEW r, Ok(c, r), reply' = [reply EXCEPT ![c] = r]
               PROVE  KInv'
    OBVIOUS
  <2>1. \A d \in Conns : Ok(d, reply[d])
    BY DEF KInv, MintedFromUsableParent
  <2>2. \A d \in Conns : Ok(d, reply'[d])
    BY <2>1 DEF KInv
  <2>3. QED
    BY <2>2 DEF KInv, MintedFromUsableParent
<1>3. CASE usable /\ k \in Master /\ Ans("200", {new(NoConn)})
  <2> DEFINE r == [type |-> t, status |-> "200", key |-> {new(NoConn)}]
  <2>1. reply' = [reply EXCEPT ![c] = r]
    BY <1>3 DEF Ans, r
  <2>2. r.status = "200" /\ r.key = {new(NoConn)} /\ new(NoConn).parent = k
        /\ new(NoConn).conn = NoConn
    BY DEF r, new
  <2>3. Ok(c, r)
    BY <1>3, <2>2 DEF Ok, usable
  <2>4. QED
    BY <2>1, <2>3, <1>0
<1>4. CASE usable /\ k \notin Master /\ k \in Extenders /\ Ans("200", {new(c)})
  <2> DEFINE r == [type |-> t, status |-> "200", key |-> {new(c)}]
  <2>1. reply' = [reply EXCEPT ![c] = r]
    BY <1>4 DEF Ans, r
  <2>2. r.status = "200" /\ r.key = {new(c)} /\ new(c).parent = k /\ new(c).conn = c
    BY DEF r, new
  <2>3. Ok(c, r)
    BY <1>4, <2>2 DEF Ok, usable
  <2>4. QED
    BY <2>1, <2>3, <1>0
<1>5. QED
  BY <1>1, <1>2, <1>3, <1>4
\* onKeyGen only ever answers 200 with a key minted from a parent that
\* decrypted, was unexpired, and was a master key (unbound key) or had the
\* Extend bit (key bound to the asking connection), for every instance.
THEOREM MintedFromUsableParentInvariant == Spec => []MintedFromUsableParent
<1>1. Init => KInv
  BY InitKInv
<1>2. KInv /\ [Next]_vars => KInv'
  <2> SUFFICES ASSUME KInv, [Next]_vars PROVE KInv'
    OBVIOUS
  <2>1. CASE Next
    BY <2>1, KeyGenKInv DEF Next
  <2>2. CASE UNCHANGED vars
    BY <2>2 DEF vars, KInv, MintedFromUsableParent
  <2>3. QED
    BY <2>1, <2>2
<1>3. KInv => MintedFromUsableParent
  BY DEF KInv
<1>4. QED
  BY <1>1, <1>2, <1>3, PTL DEF Spec
-----------------------------------------------------------------------------
\* Every branch of onKeyGen (handlers.go 300-344) answers connection c
\* alone, with the request's type, one of the statuses, and at most one
\* key minted by CreateKey or ExtendKey from this request.
Minted(c, k, ch, t, ttl) ==
    {[parent |-> k, channel |-> ch, perms |-> Access(t), expires |-> Expires(ttl),
      conn |-> cn] : cn \in {c, NoConn}}

LEMMA KeyGenReply ==
    ASSUME TypeOK, NEW c \in Conns, NEW k \in Parents, NEW ch \in Channels,
           NEW t \in Types, NEW ttl \in TTLs, NEW w \in BOOLEAN,
           KeyGen(c, k, ch, t, ttl, w)
    PROVE  /\ reply' = [reply EXCEPT ![c] = reply'[c]]
           /\ reply'[c] \in [type : {t}, status : Statuses,
                             key : SUBSET Minted(c, k, ch, t, ttl)]
<1> DEFINE new(conn) == [parent |-> k, channel |-> ch, perms |-> Access(t),
                         expires |-> Expires(ttl), conn |-> conn]
           Ans(st, key) == reply' = [reply EXCEPT ![c] = [type |-> t, status |-> st, key |-> key]]
<1>1. \/ Ans("BadRequest", {}) \/ Ans("Unauthorized", {}) \/ Ans("KeyError", {})
      \/ Ans("200", {new(NoConn)}) \/ Ans("200", {new(c)})
  BY DEF KeyGen, Reply
<1>2. /\ {} \in SUBSET Minted(c, k, ch, t, ttl)
      /\ {new(NoConn)} \in SUBSET Minted(c, k, ch, t, ttl)
      /\ {new(c)} \in SUBSET Minted(c, k, ch, t, ttl)
  BY DEF Minted
<1>3. {"BadRequest", "Unauthorized", "KeyError", "200"} \subseteq Statuses
  BY DEF Statuses
<1>4. \A st \in Statuses, key \in SUBSET Minted(c, k, ch, t, ttl) :
         Ans(st, key) =>
            /\ reply' = [reply EXCEPT ![c] = reply'[c]]
            /\ reply'[c] \in [type : {t}, status : Statuses,
                              key : SUBSET Minted(c, k, ch, t, ttl)]
  BY DEF Ans, TypeOK
<1>. QED
  BY <1>1, <1>2, <1>3, <1>4, Zenon

\* The permissions access() grants are among the seven flags.
LEMMA AccessInPerms ==
    ASSUME NEW t \in Types
    PROVE  Access(t) \subseteq Perms
BY AccessIsRef DEF AccessRef, Perms

\* The keys onKeyGen mints are well-formed keys: the fold yields flags and
\* expires() an integer (now + ttl, or zero).
LEMMA MintedKeys ==
    ASSUME NEW c \in Conns, NEW k \in Parents, NEW ch \in Channels,
           NEW t \in Types, NEW ttl \in TTLs
    PROVE  Minted(c, k, ch, t, ttl) \subseteq Keys
<1>1. Access(t) \in SUBSET Perms /\ Expires(ttl) \in Int
  BY AccessInPerms DEF Expires
<1>. QED
  BY <1>1 DEF Minted, Keys

\* Every keygen response has a type of the request set, a known status
\* and well-formed keys, whatever onKeyGen's branches answer.
THEOREM TypeCorrect == Spec => []TypeOK
<1>1. Init => TypeOK
  BY DEF Init, TypeOK, Statuses
<1>2. TypeOK /\ [Next]_vars => TypeOK'
  <2> SUFFICES ASSUME TypeOK, [Next]_vars PROVE TypeOK'
    OBVIOUS
  <2>1. CASE Next
    <3>1. PICK c \in Conns, k \in Parents, ch \in Channels, t \in Types, ttl \in TTLs,
               w \in BOOLEAN : KeyGen(c, k, ch, t, ttl, w)
      BY <2>1 DEF Next
    <3>2. /\ reply' = [reply EXCEPT ![c] = reply'[c]]
          /\ reply'[c] \in [type : {t}, status : Statuses,
                            key : SUBSET Minted(c, k, ch, t, ttl)]
      BY <3>1, KeyGenReply
    <3>3. Minted(c, k, ch, t, ttl) \subseteq Keys
      BY MintedKeys
    <3>. QED
      BY <3>2, <3>3 DEF TypeOK
  <2>2. CASE UNCHANGED vars
    BY <2>2 DEF vars, TypeOK
  <2>. QED
    BY <2>1, <2>2
<1>. QED
  BY <1>1, <1>2, PTL DEF Spec

\* The key of every 200 keygen response carries exactly the flags spec 4.7
\* gives the characters of the request's `type`: access() folds them
\* correctly, and the response records the type it was computed from.
THEOREM MintedPermsAsRequestedInvariant == Spec => []MintedPermsAsRequested
<1>1. Init => MintedPermsAsRequested
  BY DEF Init, MintedPermsAsRequested
<1>2. TypeOK /\ MintedPermsAsRequested /\ [Next]_vars => MintedPermsAsRequested'
  <2> SUFFICES ASSUME TypeOK, MintedPermsAsRequested, [Next]_vars
               PROVE  MintedPermsAsRequested'
    OBVIOUS
  <2>1. CASE Next
    <3>1. PICK c \in Conns, k \in Parents, ch \in Channels, t \in Types, ttl \in TTLs,
               w \in BOOLEAN : KeyGen(c, k, ch, t, ttl, w)
      BY <2>1 DEF Next
    <3>2. /\ reply' = [reply EXCEPT ![c] = reply'[c]]
          /\ reply'[c] \in [type : {t}, status : Statuses,
                            key : SUBSET Minted(c, k, ch, t, ttl)]
      BY <3>1, KeyGenReply
    <3>3. \A m \in Minted(c, k, ch, t, ttl) : m.perms = AccessRef(t)
      BY AccessIsRef DEF Minted
    <3>4. SUFFICES ASSUME NEW d \in Conns, NEW m \in reply'[d].key
                   PROVE  m.perms = AccessRef(reply'[d].type)
      BY DEF MintedPermsAsRequested
    <3>5. CASE d = c
      BY <3>2, <3>3, <3>5 DEF TypeOK
    <3>6. CASE d # c
      BY <3>2, <3>6 DEF TypeOK, MintedPermsAsRequested
    <3>. QED
      BY <3>5, <3>6
  <2>2. CASE UNCHANGED vars
    BY <2>2 DEF vars, MintedPermsAsRequested
  <2>. QED
    BY <2>1, <2>2
<1>. QED
  BY <1>1, <1>2, TypeCorrect, PTL DEF Spec
=============================================================================
