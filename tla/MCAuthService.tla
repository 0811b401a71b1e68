--------------------------- MODULE MCAuthService ---------------------------
(* The instance of AuthService that TLC checks.                             *)
EXTENDS AuthService, TLC

CONSTANTS alice, bob, mailA, mailB, mailOld

\* Two persons; alice changes her address to mailB, bob takes over mailA.
People == {[sub |-> alice, email |-> mailA], [sub |-> alice, email |-> mailB],
           [sub |-> bob, email |-> mailA], [sub |-> bob, email |-> mailOld]}
=============================================================================
