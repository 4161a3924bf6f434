-------------------------- MODULE MCSequenceStore --------------------------
(***************************************************************************)
(* Three calls in two server processes, or two calls in one process.       *)
(***************************************************************************)
EXTENDS SequenceStore

CONSTANTS c1, c2, c3, p1, p2

MCCall      == {c1, c2, c3}
MCProcess   == {p1, p2}
MCProcessOf == [c \in MCCall |-> IF c = c3 THEN p2 ELSE p1]

\* No call in a transaction: one adapter object per process.
MCAdapterOf == MCProcessOf
\* Every call in a transaction.
MCOwnAdapter == [c \in MCCall |-> c]

MCPair      == {c1, c2}
MCPairOf    == [c \in MCPair |-> p1]
=============================================================================
