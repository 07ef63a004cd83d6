-------------------------------- MODULE Lists --------------------------------
(***************************************************************************)
(* Lists that are read a page at a time while their rows come and go.      *)
(* Locations are the plainest table of the kind (created, edited and soft- *)
(* deleted, with no other rule); departments are listed like them, oldest  *)
(* first, and KPIs newest first.  The nightly scoring reads all pages of   *)
(* both with _every_item; every page is a count and a query of its own.    *)
(***************************************************************************)
EXTENDS Integers, FiniteSets, FiniteSetsExt, SequencesExt

CONSTANTS
  Rows,       \* the pool of ids
  Moments,    \* values of created_at
  PageLimit,  \* rows to a page
  Readers,    \* jobs that read a list
  Vacant      \* no such row yet; a job at rest

VARIABLES
  createdAt,  \* the rows' created_at
  gone,       \* the rows that have been deleted
  reader      \* how far each job has read

listVars == <<createdAt, gone, reader>>

Orders == {"oldest first", "newest first"}

\* How far a job has read: the page and the count it is at, and what it has collected.
ReaderRecord ==
  [pc : {"count", "fetch", "done"}, order : Orders, page : Nat \ {0}, total : Nat,
   items : Seq(Rows), whole : SUBSET Rows, upset : SUBSET Rows]

ASSUME ListsAssumption ==
  /\ Moments \subseteq Int /\ PageLimit \in Nat \ {0}
  /\ Vacant \notin Moments \cup ReaderRecord

ListsTypeOK ==
  /\ createdAt \in [Rows -> Moments \cup {Vacant}]
  /\ gone \subseteq Rows
  /\ reader \in [Readers -> ReaderRecord \cup {Vacant}]

ListsInit ==
  /\ createdAt = [x \in Rows |-> Vacant]
  /\ gone = {}
  /\ reader = [r \in Readers |-> Vacant]

Present == {x \in Rows : createdAt[x] # Vacant} \ gone

\* A row of moment a does not come after one of moment b, as far as ORDER BY tells.
NotAfter(order, a, b) == IF order = "oldest first" THEN a <= b ELSE a >= b

\* The results the query may have: rows with the same created_at come in any order.
Listed(order) ==
  {l \in SetToSeqs(Present) :
     \A i, j \in 1 .. Len(l) : i < j => NotAfter(order, createdAt[l[i]], createdAt[l[j]])}

(***************************************************************************)
(* The rows come and go.  created_at is the moment the transaction began,  *)
(* so that a row may appear anywhere in the list when it is committed.     *)
(* "whole" and "upset" are history: the rows that were there all the time  *)
(* a job has been reading, and those in front of which (or level with      *)
(* which) a row came or went meanwhile.                                    *)
(***************************************************************************)
CreateRow(x, at) ==
  /\ createdAt[x] = Vacant
  /\ createdAt' = [createdAt EXCEPT ![x] = at]
  /\ reader' = [r \in Readers |->
       IF reader[r] = Vacant THEN Vacant
       ELSE [reader[r] EXCEPT !.upset = @ \cup
              {y \in reader[r].whole : NotAfter(reader[r].order, at, createdAt[y])}]]
  /\ UNCHANGED gone

DeleteRow(x) ==
  /\ x \in Present
  /\ gone' = gone \cup {x}
  /\ reader' = [r \in Readers |->
       IF reader[r] = Vacant THEN Vacant
       ELSE [reader[r] EXCEPT
              !.whole = @ \ {x},
              !.upset = @ \cup
                {y \in reader[r].whole : NotAfter(reader[r].order, createdAt[x], createdAt[y])}]]
  /\ UNCHANGED createdAt

BeginReading(r, order) ==
  /\ reader[r] = Vacant
  /\ reader' = [reader EXCEPT ![r] =
       [pc |-> "count", order |-> order, page |-> 1, total |-> 0, items |-> << >>,
        whole |-> Present,
        upset |-> {x \in Present : \E y \in Present \ {x} : createdAt[x] = createdAt[y]}]]
  /\ UNCHANGED <<createdAt, gone>>

CountRows(r) ==
  /\ reader[r] # Vacant /\ reader[r].pc = "count"
  /\ reader' = [reader EXCEPT ![r].total = Cardinality(Present), ![r].pc = "fetch"]
  /\ UNCHANGED <<createdAt, gone>>

TotalPages(total) == IF total > 0 THEN (total + PageLimit - 1) \div PageLimit ELSE 1

\* Mutant: the pages overlap by a row.
OffsetOneShort(page) == IF page = 1 THEN 0 ELSE (page - 1) * PageLimit - 1

Offset(page) == (page - 1) * PageLimit

\* paginate, the rest of it, and one round of _every_item.
FetchPage(r) ==
  /\ reader[r] # Vacant /\ reader[r].pc = "fetch"
  /\ LET j == reader[r]
         from == Offset(j.page)
         hasNext == j.page < TotalPages(j.total)
     IN \E l \in Listed(j.order) :
          reader' = [reader EXCEPT ![r] =
            [j EXCEPT !.items = @ \o SubSeq(l, from + 1, Min({from + PageLimit, Len(l)})),
                      !.page = IF hasNext THEN @ + 1 ELSE @,
                      !.pc = IF hasNext THEN "count" ELSE "done"]]
  /\ UNCHANGED <<createdAt, gone>>

EndReading(r) ==
  /\ reader[r] # Vacant /\ reader[r].pc = "done"
  /\ reader' = [reader EXCEPT ![r] = Vacant]
  /\ UNCHANGED <<createdAt, gone>>

ListsNext ==
  \/ \E x \in Rows : (\E at \in Moments : CreateRow(x, at)) \/ DeleteRow(x)
  \/ \E r \in Readers :
       \/ \E order \in Orders : BeginReading(r, order)
       \/ CountRows(r) \/ FetchPage(r) \/ EndReading(r)

ListsSpec == ListsInit /\ [][ListsNext]_listVars

\* "Collect every item of a paginated list" (_every_item): a row that is there all
\* the time is collected, and once, as long as no row came or went in front of it and
\* none has the same created_at.  Otherwise the quarter may be closed without it.
EveryItemOnce ==
  \A r \in Readers : reader[r] # Vacant /\ reader[r].pc = "done" =>
    \A x \in reader[r].whole \ reader[r].upset :
      Cardinality({i \in DOMAIN reader[r].items : reader[r].items[i] = x}) = 1

=============================================================================
