--------------------------- MODULE MCScanOnlyBatch ----------------------------
(* Instances of ScanOnlyBatch for TLC. *)
EXTENDS ScanOnlyBatch

CONSTANTS i1, i2, r1, r2, w1, w2

TwoItems == {i1, i2}
OneItem == {i1}
OneRelay == {r1}
TwoRelays == {r1, r2}
NoWorker == {}
OneWorker == {w1}
TwoWorkers == {w1, w2}
=============================================================================
