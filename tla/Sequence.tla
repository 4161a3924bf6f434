------------------------------ MODULE Sequence ------------------------------
(***************************************************************************)
(* What the sync engine expects of a sequence store: each call that is     *)
(* answered owns a run of consecutive numbers, above all numbers given out *)
(* before.  Numbers may be lost.  This is the sequence PushServer assumes. *)
(***************************************************************************)
EXTENDS Naturals

CONSTANT Call     \* calls of getNextN

VARIABLES
  next,           \* the lowest number that was never given out
  taken           \* taken[c]: the numbers of call c, {} while it has none

TypeOK == next \in Nat \ {0} /\ taken \in [Call -> SUBSET (Nat \ {0})]

Init == next = 1 /\ taken = [c \in Call |-> {}]

Take(c) ==
  /\ taken[c] = {}
  /\ next' > next
  /\ taken' = [taken EXCEPT ![c] = next .. next' - 1]

\* Numbers that were reserved and never used.
Lose == next' > next /\ UNCHANGED taken

Next == Lose \/ \E c \in Call : Take(c)

Spec == Init /\ [][Next]_<<next, taken>>

=============================================================================
