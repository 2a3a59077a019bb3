-------------------------- MODULE UsedHashRegistry --------------------------
(***************************************************************************)
(* What the replay registry of both programs promises: a transfer spec    *)
(* hash can be claimed once, while it is unused, and stays used forever.   *)
(* claims counts the successful claims of each hash.                       *)
(***************************************************************************)
EXTENDS Naturals

CONSTANTS Hashes

VARIABLES used, claims

Init ==
  /\ used = {}
  /\ claims = [h \in Hashes |-> 0]

Claim(h) ==
  /\ h \notin used
  /\ used' = used \cup {h}
  /\ claims' = [claims EXCEPT ![h] = @ + 1]

Next == \E h \in Hashes : Claim(h)

Spec == Init /\ [][Next]_<<used, claims>>
=============================================================================
