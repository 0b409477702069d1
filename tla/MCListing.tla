----------------------------- MODULE MCListing -----------------------------
(***************************************************************************)
(* Two tool calls over listings of up to three pages, one edit.            *)
(***************************************************************************)
EXTENDS Listing

CONSTANTS c1, c2

MCFirst == [k \in Kind |-> CASE k \in {"columns", "rows", "formulas"} -> 3
                             [] k = "tables" -> 1
                             [] k = "controls" -> 0]
=============================================================================
