---------------------------- MODULE MCSyncRelay ----------------------------
(* Model values and bounds for the runs of SyncRelay.                      *)
EXTENDS SyncRelay, TLC

CONSTANTS p1, p2, w1, w2

NothingCorrupt == {}
SecondCorrupt == {<<p1, 2>>}
=============================================================================
