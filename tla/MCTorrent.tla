----------------------------- MODULE MCTorrent -----------------------------
EXTENDS Torrent

\* A response without a fault, and every response with one field of it
\* changed, or two.  Port 0, which is ours, comes also as 4.
P(port) == [kind |-> "peer", port |-> port]
Bad(kind) == [kind |-> kind, port |-> 1]

Good == [curl |-> TRUE, body |-> "dict", failure |-> "absent", interval |-> "int",
         peers |-> "list", ragged |-> FALSE, entries |-> <<P(1), P(0), P(1)>>]
Compact == [Good EXCEPT !.peers = "compact"]

Variants(r) ==
    { [r EXCEPT !.curl = FALSE] }
      \cup { [r EXCEPT !.body = b] : b \in {"empty", "garbage", "nodict", "truncated"} }
      \cup { [r EXCEPT !.failure = f] : f \in {"str", "int"} }
      \cup { [r EXCEPT !.interval = f] : f \in {"absent", "str"} }
      \cup { [r EXCEPT !.peers = p] : p \in {"absent", "other"} }
      \cup { [r EXCEPT !.entries = e] : e \in { <<>>, <<P(2), P(4)>> } }

BadEntries ==
    { [Good EXCEPT !.entries = e] :
        e \in { <<P(1), Bad("nodict")>>, <<Bad("nokey"), Bad("badtype")>>,
                <<P(1), Bad("badtype"), Bad("nodict")>> } }

MCResponses ==
    {Good, Compact, [Compact EXCEPT !.ragged = TRUE]}
      \cup Variants(Good) \cup BadEntries
      \cup { [r EXCEPT !.failure = "str"] : r \in BadEntries }
      \cup { [r EXCEPT !.interval = "other"] : r \in BadEntries }

\* Answers that reach no undefined behaviour.
MCCompactResponses == {r \in MCResponses : r.peers = "compact" /\ r.body # "truncated"}
============================================================================
