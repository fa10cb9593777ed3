------------------------------ MODULE LossyQueue -------------------------------
(*****************************************************************************)
(* What the history writer promises to those who record telemetry: a FIFO    *)
(* that stores a write at most once and in the order of admission, may lose  *)
(* writes, and counts each loss exactly once.                                *)
(*****************************************************************************)
EXTENDS Integers, Sequences, FiniteSets, Subsequences

CONSTANT Ids    \* identities of the writes

VARIABLES
  pending,      \* admitted and neither stored nor lost
  stored,       \* stored, in the order of their transactions
  lost,         \* lost for good
  counted       \* the losses reported as droppedWrites

vars == <<pending, stored, lost, counted>>

Fresh == Ids \ (Elements(pending) \cup Elements(stored) \cup lost)

Init == pending = <<>> /\ stored = <<>> /\ lost = {} /\ counted = 0

Admit(w) ==
  /\ w \in Fresh
  /\ pending' = Append(pending, w)
  /\ UNCHANGED <<stored, lost, counted>>

Refuse(w) ==
  /\ w \in Fresh
  /\ lost' = lost \cup {w}
  /\ counted' = counted + 1
  /\ UNCHANGED <<pending, stored>>

\* The n oldest writes are settled together: those of L are lost.
Settle(n, L) ==
  LET batch == SubSeq(pending, 1, n)
      kept == {i \in DOMAIN batch : batch[i] \notin L}
  IN /\ L \subseteq Elements(batch)
     /\ pending' = SubSeq(pending, n + 1, Len(pending))
     /\ stored' = stored \o Picked(batch, kept)
     /\ lost' = lost \cup L
     /\ counted' = counted + Cardinality(L)

Next ==
  \/ \E w \in Ids : Admit(w) \/ Refuse(w)
  \/ \E n \in 1..Len(pending), L \in SUBSET Elements(pending) : Settle(n, L)

Spec == Init /\ [][Next]_vars

===============================================================================
