---------------------------- MODULE MCPublishGate ----------------------------
EXTENDS PublishGate, TLC

\* The first two read alike to the reviewer, a class being a hard block in one and
\* scored in the other; the third has other words and a laxer policy.
Strict == [threshold |-> 0, owners |-> FALSE]
Lax == [threshold |-> 50, owners |-> TRUE]
Blocks == [fp |-> "words", hard |-> {"a"}, weight |-> [k \in {"b"} |-> 1]]
Weighs == [fp |-> "words", hard |-> {}, weight |-> [k \in {"a", "b"} |-> 1]]
Reworded == [fp |-> "other", hard |-> {"a"}, weight |-> [k \in {} |-> 0]]
MCSeeded == [policy |-> Strict, defn |-> Blocks]
MCConfigs ==
    {MCSeeded, [policy |-> Lax, defn |-> Weighs],
     [policy |-> Lax, defn |-> Reworded]}
Symmetry == Permutations(Opens)
=============================================================================
