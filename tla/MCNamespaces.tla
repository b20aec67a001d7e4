---------------------------- MODULE MCNamespaces -----------------------------
\* An instance of Namespaces for TLC: two subscriptions whose prefixes overlap.
EXTENDS Namespaces

CONSTANTS wide, narrow

Asked == [r \in {wide, narrow} |-> IF r = wide THEN <<"a">> ELSE <<"a", "b">>]
Announced == {<<"a", "b">>}

\* After says in one go what taking the events one by one comes to.
ASSUME AfterIsStepByStep ==
    \A known \in SUBSET {1, 2}, queue \in BoundedSeq([name : {1, 2}, available : BOOLEAN], 4) :
        After(known, queue) = FoldLeft(Told, known, queue)
==============================================================================
