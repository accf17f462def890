------------------------------ MODULE MCWire ------------------------------
EXTENDS Wire
\* All bytes of a word differ, or some equal a message type or a limit.
MCNumbers == { <<0, 0, 0, 1>>, <<7, 6, 255, 3>> }

\* The second is as long as the reader assumes, the others are not.
MCPayloads == { <<6>>, <<7, 0>> }

\* The shortest and the longest address, and ports that are no palindromes.
Entries == { <<1, 2, 3, 4, 26, 225>>, <<255, 255, 255, 255, 0, 1>>,
             <<10, 0, 200, 99, 255, 0>> }

MCPeerStrings ==
    {<<>>} \cup Entries \cup { e \o f : e, f \in Entries }
      \cup { SubSeq(e, 1, n) : e \in Entries, n \in {1, 5} }
      \cup { <<1, 2, 3, 4, 26, 225, 9>> }
============================================================================
