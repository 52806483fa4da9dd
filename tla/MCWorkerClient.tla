--------------------------- MODULE MCWorkerClient ---------------------------
(* Small instances of WorkerClient for TLC.                                *)
EXTENDS WorkerClient

CONSTANTS e1, e2, o1, i1, x1

OneOfEach == {x1}
TwoEdits == {e1, e2}
OneEdit == {e1}
OneOpen == {o1}
OneImport == {i1}
None == {}
=============================================================================
