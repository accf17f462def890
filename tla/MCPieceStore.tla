--------------------------- MODULE MCPieceStore ---------------------------
EXTENDS PieceStore
\* get_curr_hash takes zeros in front of every subpiece, so a piece of zeros
\* and bytes passes it with a subpiece missing or empty, and the flushes are
\* reached, with two bytes to split.  A last piece may be shorter.
Published(first, last) == [p \in Pieces |-> IF p = 0 THEN first ELSE last]

ASSUME InRange

MCContents == { Published(<<0, 0, 1, 1>>, <<0, 0, 0, 0>>),
                Published(<<0, 0, 1, 1>>, <<0, 1>>) }
MCForgeries == { <<>>, <<1>>, <<1, 1>> }
============================================================================
