--------------------------- MODULE MCCardManager ---------------------------
(* The instance of CardManager that TLC checks.                             *)
EXTENDS CardManager, TLC

CONSTANTS alice, bob, mailA, mailB

\* Two persons with an address each, and alice's second address.
People == {[sub |-> alice, email |-> mailA], [sub |-> alice, email |-> mailB],
           [sub |-> bob, email |-> mailB]}

Interchangeable == Permutations(Requests) \cup Permutations(Tokens)
=============================================================================
