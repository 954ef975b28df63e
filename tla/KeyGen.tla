-------------------------------- MODULE KeyGen --------------------------------
(***************************************************************************)
(* The keygen request (handlers.go 299-344) and the request's access and  *)
(* expiry (keyGenRequest.access, .expires in src/unnamed/part_000).       *)
(* Connections ask, with a parent key, for a key on a channel with the    *)
(* permission flags of `type` and a ttl.  Key decryption, CreateKey and   *)
(* ExtendKey belong to the key service (not under src/); they are         *)
(* modelled from spec 3 and 4.7, and may fail.                            *)
(***************************************************************************)
EXTENDS Integers, Sequences

CONSTANTS
    Conns,          \* connections sending keygen requests
    Parents,        \* keys a request may carry
    Decryptable,    \* those that DecryptKey accepts
    Expired,        \* those whose expiry has passed
    Master,         \* master keys
    Extenders,      \* keys with the Extend bit
    Channels,       \* channel strings a request may name
    Types,          \* values of the `type` field: sequences of characters
    TTLs,           \* values of the int32 `ttl` field
    Now             \* the time of the request, in seconds since the epoch

ASSUME KeyGenAssumption ==
    /\ Decryptable \subseteq Parents /\ Expired \subseteq Parents
    /\ Master \subseteq Parents /\ Extenders \subseteq Parents
    /\ Types \subseteq Seq(STRING) /\ TTLs \subseteq Int /\ Now \in Nat

NoConn == "none"

VARIABLE
    reply       \* each connection's last keygen response: status and key

vars == <<reply>>

\* The permission flag of each character of `type` (the switch of
\* access(), part_000 lines 53-68); other characters are ignored.
BitOf == {<<"r", "read">>, <<"w", "write">>, <<"s", "store">>, <<"l", "load">>,
          <<"p", "presence">>, <<"e", "extend">>, <<"x", "execute">>}

FlagPerm(ch) == {b[2] : b \in {b \in BitOf : b[1] = ch}}

\* Mutant: access() assigning the flag of each character instead of or-ing it.
AccessAssign(t) ==
    LET acc[i \in 0..Len(t)] == IF i = 0 THEN {} ELSE FlagPerm(t[i])
    IN  acc[Len(t)]

\* access() (part_000 50-72): `required` starts at AllowNone and each
\* character ors in its flag, left to right.
Access(t) ==
    LET acc[i \in 0..Len(t)] == IF i = 0 THEN {} ELSE acc[i - 1] \cup FlagPerm(t[i])
    IN  acc[Len(t)]

\* expires() (part_000 41-47): ttl 0 is the non-expiring epoch zero,
\* otherwise now plus ttl seconds (ttl is an int32 and may be negative).
Expires(ttl) == IF ttl = 0 THEN 0 ELSE Now + ttl

Init == reply = [c \in Conns |-> [type |-> <<>>, status |-> "none", key |-> {}]]

\* The response to a request of type t: a status and the key it carries,
\* {} when it carries none.
Reply(c, t, status, key) ==
    reply' = [reply EXCEPT ![c] = [type |-> t, status |-> status, key |-> key]]

\* Mutant: the parent's expiry is not checked.
KeyGenNoExpiry(c, k, ch, t, ttl, wellFormed) ==
    /\ wellFormed /\ k \in Decryptable
    /\ k \in Master \/ k \in Extenders
    /\ Reply(c, t, "200", {[parent |-> k, channel |-> ch, perms |-> Access(t),
                      expires |-> Expires(ttl),
                      conn |-> IF k \in Master THEN NoConn ELSE c]})

\* Mutant: ExtendKey given the parent key where c.ID() belongs.
KeyGenIdSwapped(c, k, ch, t, ttl, wellFormed) ==
    /\ wellFormed /\ k \in Decryptable \ Expired /\ k \notin Master /\ k \in Extenders
    /\ Reply(c, t, "200", {[parent |-> k, channel |-> ch, perms |-> Access(t),
                            expires |-> Expires(ttl), conn |-> k]})

\* onKeyGen (handlers.go 300-344): the request does not unmarshal; the
\* parent does not decrypt or is expired; a master parent has CreateKey
\* mint a key; a parent with Extend has ExtendKey mint one bound to this
\* connection; either may fail; any other parent is refused.
KeyGen(c, k, ch, t, ttl, wellFormed) ==
    LET new(conn) == [parent |-> k, channel |-> ch, perms |-> Access(t),
                      expires |-> Expires(ttl), conn |-> conn]
        usable == k \in Decryptable \ Expired
    IN
    \/ ~wellFormed /\ Reply(c, t, "BadRequest", {})
    \/ wellFormed /\ ~usable /\ Reply(c, t, "Unauthorized", {})
    \/ /\ wellFormed /\ usable /\ k \in Master
       /\ Reply(c, t, "KeyError", {}) \/ Reply(c, t, "200", {new(NoConn)})
    \/ /\ wellFormed /\ usable /\ k \notin Master /\ k \in Extenders
       /\ Reply(c, t, "KeyError", {}) \/ Reply(c, t, "200", {new(c)})
    \/ wellFormed /\ usable /\ k \notin Master /\ k \notin Extenders /\ Reply(c, t, "Unauthorized", {})

Next ==
    \E c \in Conns, k \in Parents, ch \in Channels, t \in Types, ttl \in TTLs,
       w \in BOOLEAN : KeyGen(c, k, ch, t, ttl, w)

Spec == Init /\ [][Next]_vars

-----------------------------------------------------------------------------
Statuses == {"none", "200", "BadRequest", "Unauthorized", "KeyError"}
Perms == {b[2] : b \in BitOf}
Keys == [parent : Parents, channel : Channels, perms : SUBSET Perms,
         expires : Int, conn : Conns \cup {NoConn}]

TypeOK == reply \in [Conns -> [type : Types \cup {<<>>}, status : Statuses, key : SUBSET Keys]]

\* Spec 4.7: the permissions of a requested key are the flags of the
\* characters of `type`, in any order, repeated or not, others ignored.
AccessRef(t) == {b[2] : b \in {b \in BitOf : \E i \in 1..Len(t) : t[i] = b[1]}}

\* The key of every 200 keygen response carries exactly the permissions
\* spec 4.7 gives the request's `type`: access() folds them correctly.
MintedPermsAsRequested ==
    \A c \in Conns : \A m \in reply[c].key : m.perms = AccessRef(reply[c].type)

\* Spec 3, 4.7 and 8.5: a keygen response carries a key exactly when it is
\* a 200, and the key comes from a parent that decrypted and was unexpired
\* and that was a master key (an unbound key) or had the Extend bit (a key
\* bound to the connection that asked).
MintedFromUsableParent ==
    \A c \in Conns :
        /\ (reply[c].status = "200") = (reply[c].key # {})
        /\ \A m \in reply[c].key :
              /\ m.parent \in Decryptable \ Expired
              /\ \/ m.parent \in Master /\ m.conn = NoConn
                 \/ m.parent \in Extenders \ Master /\ m.conn = c

=============================================================================
