---------------------------- MODULE MCAvRecords -----------------------------
(* Three calls over two connections: a record with a row, an id without    *)
(* one, and one scan id, which may be completed before it is triggered.    *)
EXTENDS AvRecords

CONSTANTS known, unknown
=============================================================================
