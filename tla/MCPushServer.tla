--------------------------- MODULE MCPushServer ---------------------------
(***************************************************************************)
(* Two requests and six mutations on two rows of two resources.  The       *)
(* batches hold a retry (the same mutation in two requests), a request     *)
(* that ends in a conflict, and one whose propagation needs more numbers   *)
(* than it has mutations.                                                  *)
(***************************************************************************)
EXTENDS PushServer

CONSTANTS r1, r2, ins, mrg, rep, del, bad, forb, k1, k2, R1, R2

MCMutation  == {ins, mrg, rep, del, bad, forb}
MCKey       == {k1, k2}
MCResource  == {R1, R2}
MCResourceOf == [k \in MCKey |-> IF k = k1 THEN R1 ELSE R2]
MCOperation == [m \in MCMutation |->
                 CASE m = ins -> "insert" [] m = mrg -> "merge" [] m = del -> "delete"
                   [] OTHER -> "replace"]
MCKeyOf     == [m \in MCMutation |-> IF m = rep THEN k2 ELSE k1]
MCPropagated == [m \in MCMutation |-> IF m = mrg THEN k2 ELSE None]
MCBatches   == {<<ins, mrg>>, <<rep>>, <<mrg, del>>, <<bad, forb, mrg, mrg>>}
=============================================================================
