------------------------------- MODULE Sizing -------------------------------
(***************************************************************************)
(* sizing.py: what a row weighs, on its two axes, and what api.py puts     *)
(* around the rows of an upsert.  A row is a number of cells with `text`   *)
(* bytes of UTF-8 among them, `newlines` of which are newlines.            *)
(***************************************************************************)
EXTENDS Integers, FiniteSetsExt

CONSTANT KeyBytes   \* the length of a column id

\* A JSON list: brackets, and a comma between its items.
List(weight, lo, hi) == 2 + MapThenSumSet(LAMBDA i : weight[i], lo..hi) + (hi - lo)

\* The values of a row as the API counts them: newlines twice.
row_internal_bytes(row) == row.text + row.newlines

\* A row as compact JSON, {"id":"value",...}: quotes, colons and commas, and
\* a newline escaped as two bytes.
RowWire(row) ==
  2 + row.cells * (KeyBytes + 5) + (row.cells - 1) + row.text + row.newlines

\* request_wire_bytes of rows lo to hi of a list, as the planner asks for it.
request_wire_bytes(rows, lo, hi) == List([i \in lo..hi |-> RowWire(rows[i])], lo, hi)

\* The same rows in the request of DocsApi.upsert_rows: a row is an object
\* with a list of cells, a cell an object that names its column, and the
\* list of rows a field of the body.
BodyBytes(rows, lo, hi) ==
  9 + List([i \in lo..hi |-> RowWire(rows[i]) + 10 + 19 * rows[i].cells], lo, hi)
=============================================================================
