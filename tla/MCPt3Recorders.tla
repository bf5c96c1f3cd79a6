--------------------------- MODULE MCPt3Recorders ---------------------------
(* One card with its two satellite channels and one terrestrial channel;   *)
(* two recpt1 and one checksignal.                                         *)
EXTENDS Pt3Recorders, TLC

CONSTANTS u1, u2, u3, s1, s2, t1

MCUser == {u1, u2, u3}
MCChecker == {u3}
MCSatCh == {s1, s2}
MCTerCh == {t1}
MCBsDev == <<s1, s2>>
MCIsdbTDev == <<t1>>
Symmetry == Permutations({u1, u2})
=============================================================================
