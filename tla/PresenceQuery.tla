---------------------------- MODULE PresenceQuery ----------------------------
(***************************************************************************)
(* What a presence status query promises (spec 4.10 step 6, 4.11, 8.6),   *)
(* without nodes, surveys or timers: a query, once asked, is answered,    *)
(* and the answer lists only connections that were subscribed while it    *)
(* ran, and every connection of the asking node that stayed subscribed.   *)
(***************************************************************************)
CONSTANTS Conns, Home, Self

VARIABLES
    subscribed, \* connections subscribed to the SSID
    status,     \* "idle", "busy" or "done"
    answer,     \* the reply, once done
    seen,       \* connections subscribed at some time since the query
    kept        \* connections subscribed throughout since the query

avars == <<subscribed, status, answer, seen, kept>>

\* The answers the query may give.
Allowed(from, upto) == {S \in SUBSET upto : {c \in from : Home[c] = Self} \subseteq S}

Init ==
    /\ subscribed = {}
    /\ status = "idle"
    /\ answer = {}
    /\ seen = {}
    /\ kept = {}

Sub(c) ==
    /\ c \notin subscribed
    /\ subscribed' = subscribed \cup {c}
    /\ seen' = IF status = "busy" THEN seen \cup {c} ELSE seen
    /\ UNCHANGED <<status, answer, kept>>

Unsub(c) ==
    /\ c \in subscribed
    /\ subscribed' = subscribed \ {c}
    /\ kept' = kept \ {c}
    /\ UNCHANGED <<status, answer, seen>>

Ask ==
    /\ status \in {"idle", "done"}
    /\ status' = "busy"
    /\ answer' = {}
    /\ seen' = subscribed
    /\ kept' = subscribed
    /\ UNCHANGED subscribed

Reply ==
    /\ status = "busy"
    /\ status' = "done"
    /\ answer' \in Allowed(kept, seen)
    /\ UNCHANGED <<subscribed, seen, kept>>

\* A query answered at once, from the local trie alone.
AskReply ==
    /\ status \in {"idle", "done"}
    /\ status' = "done"
    /\ answer' \in Allowed(subscribed, subscribed)
    /\ seen' = subscribed
    /\ kept' = subscribed
    /\ UNCHANGED subscribed

Next ==
    \/ \E c \in Conns : Sub(c) \/ Unsub(c)
    \/ Ask \/ Reply \/ AskReply

Spec == Init /\ [][Next]_avars /\ WF_avars(Reply)

=============================================================================
