------------------------------- MODULE MCPull -------------------------------
(***************************************************************************)
(* Two records, each of a resource of its own.                             *)
(***************************************************************************)
EXTENDS Pull

CONSTANTS k1, k2, R1, R2

MCKey        == {k1, k2}
MCResource   == {R1, R2}
MCResourceOf == [k \in MCKey |-> IF k = k1 THEN R1 ELSE R2]
=============================================================================
