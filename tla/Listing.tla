------------------------------ MODULE Listing ------------------------------
(***************************************************************************)
(* api.py _paged and list_rows, and who relies on them: the write guard    *)
(* (tools/guard.py), the column cache (schema_cache.py) and find_rows.     *)
(*                                                                         *)
(* A tool call makes its listings one after the other, each page by page,  *)
(* while an editor adds and deletes objects.  Of a call's deadline only    *)
(* whether it has expired is kept; it may expire at any moment.  Objects   *)
(* of a kind are listed in the order of their numbers and a page token is  *)
(* the last number listed, or None once there is nothing more to list.     *)
(***************************************************************************)
EXTENDS Integers, FiniteSets, SequencesExt

CONSTANTS Calls,     \* concurrent tool calls
          PageSize,  \* LIST_PAGE_SIZE
          Floor,     \* LIST_PAGE_SIZE_FLOOR
          Limit,     \* find_rows' limit: the caller's cap on rows
          First,     \* [Kind -> Nat]: how many objects there are at first
          Owned,     \* the numbers of objects that belong to the page written
          MaxEdits,  \* bound of this model
          None

Kind == {"columns", "rows", "tables", "controls", "formulas"}
Tools == {"find_rows", "overwrite_page", "overwrite_page_force"}

ASSUME ListingAssumption ==
  /\ PageSize \in Nat \ {0} /\ Floor \in 1 .. PageSize
  /\ Limit \in Nat \ {0}
  /\ First \in [Kind -> Nat]
  /\ MaxEdits \in Nat
  /\ None \notin Nat

VARIABLES objects,    \* [Kind -> set of numbers]: the document
          edits,      \* edits so far
          tool,       \* the tool called
          pc,         \* where the call stands
          todo,       \* the listings still to make, the current one first
          size,       \* page_size
          token,      \* token
          collected,  \* collected, while a listing is being made
          expired,    \* deadline.expired
          found,      \* objects_owned_by_page's answer so far
          result,     \* what find_rows returns
          schema,     \* ColumnCache._by_table of the one table there is
          lasting     \* history variable: objects there since the call began

doc == <<objects, edits>>
listing == <<size, token, collected>>
vars == <<objects, edits, tool, pc, todo, size, token, collected, expired,
          found, result, schema, lasting>>

TypeOK ==
  /\ objects \in [Kind -> SUBSET Nat]
  /\ tool \in [Calls -> Tools \union {None}]
  /\ pc \in [Calls -> {"idle", "lookup", "loop", "flight", "write", "sent",
                        "returned", "raised"}]
  /\ todo \in [Calls -> Seq(Kind)]
  /\ size \in [Calls -> Floor .. PageSize]
  /\ token \in [Calls -> Nat \union {None}]
  /\ collected \in [Calls -> Seq(Nat)]
  /\ expired \in [Calls -> BOOLEAN]
  /\ found \in [Calls -> SUBSET (Kind \X Nat)]
  /\ \A c \in Calls : result[c] # None =>
       result[c] \in [rows : Seq(Nat), complete : BOOLEAN]
  /\ schema = None \/ schema \in Seq(Nat)

Init ==
  /\ objects = [k \in Kind |-> 1 .. First[k]] /\ edits = 0
  /\ tool = [c \in Calls |-> None]
  /\ pc = [c \in Calls |-> "idle"]
  /\ todo = [c \in Calls |-> << >>]
  /\ size = [c \in Calls |-> PageSize]
  /\ token = [c \in Calls |-> None]
  /\ collected = [c \in Calls |-> << >>]
  /\ expired = [c \in Calls |-> FALSE]
  /\ found = [c \in Calls |-> {}]
  /\ result = [c \in Calls |-> None]
  /\ schema = None
  /\ lasting = [c \in Calls |-> [k \in Kind |-> {}]]

-----------------------------------------------------------------------------
(* The tools: which listings a call makes, and what it does with each *)

Plan(t) == CASE t = "find_rows" -> <<"columns", "rows">>
             [] t = "overwrite_page" -> <<"tables", "controls", "formulas">>
             [] t = "overwrite_page_force" -> << >>

Start(c, t) ==
  /\ pc[c] = "idle"
  /\ tool' = [tool EXCEPT ![c] = t]
  /\ todo' = [todo EXCEPT ![c] = Plan(t)]
  /\ pc' = [pc EXCEPT ![c] = IF Plan(t) = << >> THEN "write" ELSE "lookup"]
  /\ lasting' = [lasting EXCEPT ![c] = objects]
  /\ UNCHANGED <<doc, listing, expired, found, result, schema>>

Now(c) == Head(todo[c])

\* ColumnCache.columns: the table's entry spares the listing.
Cached(c) ==
  /\ pc[c] = "lookup" /\ Now(c) = "columns" /\ schema # None
  /\ todo' = [todo EXCEPT ![c] = Tail(@)]
  /\ UNCHANGED <<doc, tool, pc, listing, expired, found, result, schema, lasting>>

\* A listing begins with nothing collected and no token.
BeginListing(c) ==
  /\ pc[c] = "lookup" /\ ~ (Now(c) = "columns" /\ schema # None)
  /\ pc' = [pc EXCEPT ![c] = "loop"]
  /\ size' = [size EXCEPT ![c] = PageSize]
  /\ token' = [token EXCEPT ![c] = None]
  /\ collected' = [collected EXCEPT ![c] = << >>]
  /\ UNCHANGED <<doc, tool, todo, expired, found, result, schema, lasting>>

Raise(c) ==
  /\ pc' = [pc EXCEPT ![c] = "raised"]
  /\ UNCHANGED <<doc, tool, todo, listing, expired, found, result, schema, lasting>>

\* _owned_by
OwnedBy(k, rows) == {<<k, n>> : n \in ToSet(rows) \intersect Owned}

\* The listing's Listing goes to whoever asked for it.  Only find_rows looks
\* at `complete`; every other list_* method hands on the bare rows.
Deliver(c, rows, complete) ==
  LET k == Now(c) IN
    /\ todo' = [todo EXCEPT ![c] = Tail(@)]
    /\ found' = IF k \in {"tables", "controls", "formulas"}
                THEN [found EXCEPT ![c] = @ \union OwnedBy(k, rows)] ELSE found
    /\ schema' = IF k = "columns" THEN rows ELSE schema
    /\ result' = IF k = "rows"
                 THEN [result EXCEPT ![c] = [rows |-> rows, complete |-> complete]]
                 ELSE result
    /\ pc' = [pc EXCEPT ![c] =
                CASE k = "rows" -> "returned"
                  [] k = "formulas" -> IF found'[c] = {} THEN "write" ELSE "raised"
                  [] OTHER -> "lookup"]
    /\ UNCHANGED <<doc, tool, size, token, expired, lasting>>
    /\ collected' = [collected EXCEPT ![c] = << >>]

-----------------------------------------------------------------------------
(* _paged *)

\* `limit`: list_rows' cap; the other listings run to exhaustion.
Capped(c) == Now(c) = "rows"

\* Mutant of CutShort: the part reads like the whole.
CutShortUnflagged(c) ==
  /\ pc[c] = "loop" /\ collected[c] # << >> /\ expired[c]
  /\ Deliver(c, collected[c], TRUE)

\* Mutant of CutShort: the loop stops early to leave something of the budget.
CutShortEarly(c) ==
  /\ pc[c] = "loop" /\ collected[c] # << >>
  /\ Deliver(c, collected[c], FALSE)

\* The top of the loop, the budget gone and rows in hand: they are delivered.
CutShort(c) ==
  /\ pc[c] = "loop" /\ collected[c] # << >> /\ expired[c]
  /\ Deliver(c, collected[c], FALSE)

\* Otherwise the next page is asked for.  The deadline may expire between the
\* two looks at it: request() refuses to send, and raises.
Send(c) ==
  /\ pc[c] = "loop" /\ ~ expired[c]
  /\ pc' = [pc EXCEPT ![c] = "flight"]
  /\ UNCHANGED <<doc, tool, todo, listing, expired, found, result, schema, lasting>>

Refused(c) ==
  /\ pc[c] = "loop" /\ expired[c]
  /\ Raise(c)

\* What limit asks for: the page size, or the little the cap leaves.
Asked(c) ==
  IF Capped(c) /\ Limit - Len(collected[c]) < size[c]
  THEN Limit - Len(collected[c]) ELSE size[c]

After(c) == {n \in objects[Now(c)] : token[c] = None \/ n > token[c]}

InOrder(S) ==
  CHOOSE s \in [1 .. Cardinality(S) -> S] :
    \A i, j \in DOMAIN s : i < j => s[i] < s[j]

\* The server's page: the first n objects after the token.
Page(c, n) ==
  LET left == Cardinality(After(c))
  IN  SubSeq(InOrder(After(c)), 1, IF left < n THEN left ELSE n)

\* The page ends the listing if no token came with it or the cap is reached;
\* how full it is says nothing.
PageArrives(c, page) ==
  LET rows == collected[c] \o page IN
    IF Len(page) = Cardinality(After(c)) \/ (Capped(c) /\ Len(rows) >= Limit)
    THEN Deliver(c, rows, TRUE)
    ELSE /\ pc' = [pc EXCEPT ![c] = "loop"]
         /\ token' = [token EXCEPT ![c] = Last(page)]
         /\ collected' = [collected EXCEPT ![c] = rows]
         /\ UNCHANGED <<doc, tool, todo, size, expired, found, result, schema, lasting>>

\* The server clamps what it is asked for, without a word: any page may be
\* short of it.
Answered(c) ==
  /\ pc[c] = "flight"
  /\ \E n \in 1 .. Asked(c) : PageArrives(c, Page(c, n))

\* Any error of request(), its own out-of-time refusal amid retries included.
RequestFails(c) ==
  /\ pc[c] = "flight"
  /\ Raise(c)

-----------------------------------------------------------------------------
(* list_rows: the 504 ladder *)

\* Mutant of Restart: the rows of the failed pass are kept.
RestartKeeping(c) ==
  /\ size' = [size EXCEPT ![c] = @ \div 2]
  /\ token' = [token EXCEPT ![c] = None]
  /\ UNCHANGED collected

\* Mutant of Restart: the size stays.
RestartSameSize(c) ==
  /\ token' = [token EXCEPT ![c] = None]
  /\ collected' = [collected EXCEPT ![c] = << >>]
  /\ UNCHANGED size

\* Half the size, from no token, without what the failed pass had collected.
Restart(c) ==
  /\ size' = [size EXCEPT ![c] = @ \div 2]
  /\ token' = [token EXCEPT ![c] = None]
  /\ collected' = [collected EXCEPT ![c] = << >>]

GatewayTimeout(c) ==
  /\ pc[c] = "flight"
  /\ IF Now(c) # "rows" \/ size[c] \div 2 < Floor
     THEN Raise(c)
     ELSE /\ Restart(c)
          /\ pc' = [pc EXCEPT ![c] = "loop"]
          /\ UNCHANGED <<doc, tool, todo, expired, found, result, schema, lasting>>

-----------------------------------------------------------------------------
(* The guarded write *)

WriteSent(c) ==
  /\ pc[c] = "write" /\ ~ expired[c]
  /\ pc' = [pc EXCEPT ![c] = "sent"]
  /\ UNCHANGED <<doc, tool, todo, listing, expired, found, result, schema, lasting>>

WriteRefused(c) ==
  /\ pc[c] = "write" /\ expired[c]
  /\ Raise(c)

-----------------------------------------------------------------------------
(* Time and other people *)

Expire(c) ==
  /\ pc[c] \in {"lookup", "loop", "flight", "write"} /\ ~ expired[c]
  /\ expired' = [expired EXCEPT ![c] = TRUE]
  /\ UNCHANGED <<doc, tool, pc, todo, listing, found, result, schema, lasting>>

Add(k) ==
  /\ edits < MaxEdits /\ edits' = edits + 1
  /\ objects' = [objects EXCEPT ![k] = @ \union {1 + First[k] + edits}]
  /\ UNCHANGED <<tool, pc, todo, listing, expired, found, result, schema, lasting>>

Delete(k, n) ==
  /\ edits < MaxEdits /\ edits' = edits + 1
  /\ objects' = [objects EXCEPT ![k] = @ \ {n}]
  /\ lasting' = [c \in Calls |-> [lasting[c] EXCEPT ![k] = @ \ {n}]]
  /\ UNCHANGED <<tool, pc, todo, listing, expired, found, result, schema>>

Step(c) ==
  \/ Cached(c) \/ BeginListing(c)
  \/ CutShort(c) \/ Send(c) \/ Refused(c)
  \/ Answered(c) \/ RequestFails(c) \/ GatewayTimeout(c)
  \/ WriteSent(c) \/ WriteRefused(c)

\* The schema is not edited: the cache has no way to learn of it.
Edited == Kind \ {"columns"}

Next ==
  \/ \E c \in Calls : \/ \E t \in Tools : Start(c, t)
                      \/ Step(c)
                      \/ Expire(c)
  \/ \E k \in Edited : Add(k) \/ \E n \in objects[k] : Delete(k, n)

Spec == Init /\ [][Next]_vars
FairSpec == Spec /\ \A c \in Calls : WF_vars(Step(c))

-----------------------------------------------------------------------------
(* Properties *)

\* A listing that says it is complete, and that the caller's cap did not end,
\* holds every row that was there from the beginning to the end of the call,
\* whatever the ladder restarted and others added or deleted meanwhile.
CompleteMeansWhole ==
  \A c \in Calls :
    result[c] # None /\ result[c].complete /\ Len(result[c].rows) < Limit =>
      lasting[c]["rows"] \subseteq ToSet(result[c].rows)

\* No row is listed twice or out of order, across pages and restarts, in a
\* pass under way and in what is returned; and the cap is kept.
RowsComeOnce ==
  \A c \in Calls :
    LET rows == IF result[c] # None THEN result[c].rows ELSE collected[c] IN
      /\ \A i, j \in DOMAIN rows : i < j => rows[i] < rows[j]
      /\ result[c] # None => Len(rows) <= Limit

\* A destructive page write that was not forced goes out only if none of the
\* page's tables, controls and formulas was there all along: the guard drops
\* the listings' `complete`, but one that was cut short has used up the budget
\* the write would need.
GuardMissesNothing ==
  \A c \in Calls : pc[c] = "sent" /\ tool[c] = "overwrite_page" =>
    \A k \in {"tables", "controls", "formulas"} : lasting[c][k] \intersect Owned = {}

\* Every call ends, though the server may answer 504 for ever.
EveryListingEnds ==
  \A c \in Calls : pc[c] = "lookup" ~> pc[c] \in {"sent", "returned", "raised"}

\* api.py's Listing: a listing that finished and one the deadline cut short
\* "must not read alike".  What the process keeps as a table's schema is the
\* whole of it.
CachedSchemaIsWhole == schema # None => ToSet(schema) = objects["columns"]
=============================================================================
