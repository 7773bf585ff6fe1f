-------------------------- MODULE MCApprovalGateway --------------------------
(* Small instances of ApprovalGateway. *)
EXTENDS ApprovalGateway

CONSTANTS low, risky, blocked, a1, a2, r1, r2

AllIds == {low, risky, blocked}
OneId == {risky}
OnlyLow == {low}
OnlyBlocked == {blocked}
None == {}
Askers == {a1, a2}
OneAsker == {a1}
OneAnswerer == {r1}
TwoAnswerers == {r1, r2}

==============================================================================
