--------------------------- MODULE MCDocumentWorker ---------------------------
(***************************************************************************)
(* Small instances of DocumentWorker.  d1 and d2 are scans, d3 is a        *)
(* digital PDF twice their size: it fits the budget beside one of them,    *)
(* not beside both.                                                        *)
(***************************************************************************)
EXTENDS DocumentWorker

CONSTANTS d1, d2, d3

MCDocs == {d1, d2, d3}
MCSize == [d \in MCDocs |-> IF d = d3 THEN 2 ELSE 1]
MCUnitSize == [d \in MCDocs |-> 1]
MCDigital == {d3}
NoDocs == {}
MCLimit == [r \in Routes |-> 1]
================================================================================
