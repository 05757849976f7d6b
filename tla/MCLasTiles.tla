----------------------------- MODULE MCLasTiles -----------------------------
EXTENDS LasTiles

\* The file is streamed from its second point.
StartCases == {[compressed |-> FALSE, streaming |-> TRUE, start |-> 1,
                count |-> FilePoints]}
=============================================================================
