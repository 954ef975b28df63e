----------------------------- MODULE MC_Broker -----------------------------
(* Small instances of Broker for TLC.                                      *)
EXTENDS Broker, TLC

CONSTANTS k1, k2, k3, C1, C2

\* Delivery instance: two ordinary keys, k1 of contract C1 and k2 of C2,
\* and k3 of C1 with the same bits that does not validate.
MCPlainPerms == [k \in Keys |-> {"read", "write", "store", "load"}]

\* Link and presence instance: k2 may also extend and query presence, and
\* does not load.
MCExtPerms ==
    [k \in Keys |-> IF k # k2 THEN {"read", "write", "store", "load"}
                              ELSE {"read", "write", "extend", "presence"}]

MCKeyContract == [k \in Keys |-> IF k = k2 THEN C2 ELSE C1]
MCAllowAll == {"read", "write", "store", "load", "presence"}

\* Connections are interchangeable: no property names one.
ConnSymmetry == Permutations(Conns)

=============================================================================
