-------------------------- MODULE MCDocumentStore --------------------------
(* Instances of DocumentStore for TLC: one revised document, one record,   *)
(* one or two writers, checkpoints taken and restored at any point.        *)
EXTENDS DocumentStore

CONSTANTS graph, evidence, w1, w2, k1, k2, x, y

MCDocuments == {graph}
MCRecords == {evidence}
MCContents == {x, y}
MCWriters == {w1, w2}
OneWriter == {w1}
MCCheckpoints == {k1, k2}
OneCheckpoint == {k1}
BothModes == {"plain", "guarded"}
PlainMode == {"plain"}
=============================================================================
