---------------------------- MODULE MCSendChunks ----------------------------
(***************************************************************************)
(* SendChunks on lists of three rows: enough for a chunk that is halved    *)
(* twice, one that is halved with another behind it, and a resumed call.   *)
(* The rows are short, wide (with a short one, exactly what a request may  *)
(* weigh; two are too much) or too heavy, for the newlines in them.        *)
(***************************************************************************)
EXTENDS SendChunks

CONSTANTS MaxRowBytes, KeyBytes, MAX_ROWS_PER_UPSERT, MAX_ROW_IDS_PER_DELETE

S == INSTANCE Sizing

kinds ==
  [short |-> [text |-> 10, newlines |-> 0, cells |-> 1],
   wide |-> [text |-> 90, newlines |-> 0, cells |-> 3],
   heavy |-> [text |-> 60, newlines |-> 50, cells |-> 1]]

\* The ids of rows, which delete_rows does not weigh.
Ids == [i \in Row |-> "id"]
MCBatches == {Ids} \cup [Row -> DOMAIN kinds]

MCMaxRows(b) == IF b = Ids THEN MAX_ROW_IDS_PER_DELETE ELSE MAX_ROWS_PER_UPSERT

contents(b) == [i \in Row |-> kinds[b[i]]]
MCHeavyRow(b, i) ==
  b # Ids /\ S!row_internal_bytes(contents(b)[i]) > MaxRowBytes
MCWire(b, c) ==
  IF b = Ids THEN 0 ELSE S!request_wire_bytes(contents(b), c.from, c.to - 1)
MCBody(b, c) ==
  IF b = Ids THEN 0 ELSE S!BodyBytes(contents(b), c.from, c.to - 1)
=============================================================================
