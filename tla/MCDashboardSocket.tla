--------------------------- MODULE MCDashboardSocket ---------------------------
(***************************************************************************)
(* The current socket and one that is still closing, two correlations.     *)
(***************************************************************************)
EXTENDS DashboardSocket

MCWebSockets == 1..2
MCGoodUrls == {"ws://a"}
MCBadUrls == {"bad"}
MCSandboxRooms == {"r"}
MCCorrelations == {"k1", "k2"}
=============================================================================
