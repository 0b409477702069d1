----------------------------- MODULE PageReads -----------------------------
(***************************************************************************)
(* What read_page promises its callers, whatever it does about exports,    *)
(* gates and caches: a read that is answered is answered with a rendering  *)
(* of a page the caller's address meant while the call was open, in a      *)
(* state that page had while the call was open.                            *)
(***************************************************************************)
EXTENDS Integers

CONSTANTS Readers,  \* concurrent read_page calls
          Pages,    \* the document's pages, by canonical id
          Names     \* page names, which can be moved between pages

VARIABLES version,  \* version[p]: how often page p was edited (its updatedAt)
          names,    \* names[n]: the page name n means now
          call      \* call[r]: what the caller of read r knows and is owed

Closed == [status |-> "idle"]
Failed == [status |-> "failed"]
Served(html) == [status |-> "served", html |-> html]

\* While a read is open: the pages its address has meant since it began, and
\* the versions all pages had when it began.
Open(meant, began, asked) ==
  [status |-> "open", asked |-> asked, meant |-> meant, began |-> began]

IsOpen(r) == call[r].status = "open"

Resolve(address) == IF address \in Names THEN names[address] ELSE address

\* The renderings an open read may be answered with.
Owed(c) == UNION {{[page |-> p, version |-> v] : v \in c.began[p] .. version[p]} :
                    p \in c.meant}

Init ==
  /\ version = [p \in Pages |-> 0]
  /\ names \in [Names -> Pages]
  /\ call = [r \in Readers |-> Closed]

Begin(r, address) ==
  /\ call[r] = Closed
  /\ call' = [call EXCEPT ![r] = Open({Resolve(address)}, version, address)]
  /\ UNCHANGED <<version, names>>

Serve(r) ==
  /\ IsOpen(r)
  /\ \E html \in Owed(call[r]) : call' = [call EXCEPT ![r] = Served(html)]
  /\ UNCHANGED <<version, names>>

Fail(r) ==
  /\ IsOpen(r)
  /\ call' = [call EXCEPT ![r] = Failed]
  /\ UNCHANGED <<version, names>>

\* Somebody edits a page.
Edit(p) ==
  /\ version' = [version EXCEPT ![p] = @ + 1]
  /\ UNCHANGED <<names, call>>

\* Somebody moves a name to another page.
MoveName(n, p) ==
  /\ names[n] # p
  /\ names' = [names EXCEPT ![n] = p]
  /\ call' = [r \in Readers |->
                IF IsOpen(r) /\ call[r].asked = n
                THEN [call[r] EXCEPT !.meant = @ \union {p}]
                ELSE call[r]]
  /\ UNCHANGED version

Next ==
  \/ \E r \in Readers : \/ \E a \in Pages \union Names : Begin(r, a)
                        \/ Serve(r)
                        \/ Fail(r)
  \/ \E p \in Pages : Edit(p)
  \/ \E n \in Names, p \in Pages : MoveName(n, p)

Spec == Init /\ [][Next]_<<version, names, call>>
=============================================================================
