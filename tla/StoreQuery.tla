----------------------------- MODULE StoreQuery -----------------------------
(***************************************************************************)
(* store_query.py: a reader of store records asks for pages of a query, or *)
(* for a report, and is told when that was everything.  Each call is one   *)
(* statement, which takes its page out of a sorted result; rows that sort  *)
(* alike come in any order, another one each time.                         *)
(*                                                                         *)
(* A record that the filters, the store or the role leave out is a record  *)
(* that is not there.  Values are numbers; so are the measures.            *)
(***************************************************************************)
EXTENDS Integers, FiniteSets, FiniteSetsExt, SequencesExt

CONSTANTS
  Records,     \* ids of records, which no query selects
  Fields,      \* of the resource
  Values,
  PageSizes,   \* values of limit
  ReportRows,  \* 5000
  Absent

ASSUME StoreQueryAssumption ==
  /\ PageSizes \subseteq Nat \ {0} /\ ReportRows \in Nat \ {0}
  /\ Values \subseteq Int /\ Absent \notin [Fields -> Values]
  /\ "count_records" \notin Fields
  /\ IsFiniteSet(Records) /\ IsFiniteSet(Fields)

VARIABLES
  table,    \* the record of each id, or Absent
  reading   \* the query, the rows so far, whether that is all, and whether the
            \* table changed meanwhile

storeQueryVars == <<table, reading>>

NotReading == [query |-> Absent, rows |-> <<>>, complete |-> FALSE, changed |-> FALSE]

StoreQueryInit ==
  /\ table \in [Records -> [Fields -> Values] \cup {Absent}]
  /\ reading = NotReading

\* The selected or grouping fields, without repetition; a count of each group.
Selections == SetToAllKPermutations(Fields)

Outputs(q) == q.fields \o (IF q.counted THEN <<"count_records">> ELSE <<>>)

\* Nothing selected and nothing measured is an error, as is an order by other columns.
Queries ==
  {q \in [fields : Selections, grouped : BOOLEAN, counted : BOOLEAN,
          order : {<<>>} \cup {<<[field |-> f, desc |-> d]>> :
                                 f \in Fields \cup {"count_records"}, d \in BOOLEAN}] :
     /\ q.counted => q.grouped
     /\ Outputs(q) # <<>>
     /\ \A i \in DOMAIN q.order : q.order[i].field \in ToSet(Outputs(q))}

Present == {r \in Records : table[r] # Absent}
Selected(q, r) == [f \in ToSet(q.fields) |-> table[r][f]]

\* GROUP BY; a measure without grouping fields makes one group of whatever is there.
Groups(q) ==
  IF q.fields = <<>> THEN {<<>>} ELSE {Selected(q, r) : r \in Present}

\* What makes a row of the result, and its columns.
Keys(q) == IF q.grouped THEN Groups(q) ELSE Present

Row(q, k) ==
  [f \in ToSet(Outputs(q)) |->
     IF f = "count_records" THEN Cardinality({r \in Present : Selected(q, r) = k})
     ELSE IF q.grouped THEN k[f] ELSE table[k][f]]

\* What Ordering must not be: the order asked for alone.
OrderAsked(q) == q.order

\* "All output columns are tie-breakers, making page boundaries deterministic."
\* A column that was asked for decides nothing when it comes again.
Ordering(q) ==
  q.order \o [i \in DOMAIN Outputs(q) |-> [field |-> Outputs(q)[i], desc |-> FALSE]]

Before(q, x, y) ==
  \E i \in DOMAIN Ordering(q) :
    LET by == Ordering(q)[i]
    IN /\ IF by.desc THEN x[by.field] > y[by.field] ELSE x[by.field] < y[by.field]
       /\ \A j \in 1 .. i - 1 : x[Ordering(q)[j].field] = y[Ordering(q)[j].field]

Sorted(q) ==
  {s \in SetToSeqs(Keys(q)) :
     \A i, j \in DOMAIN s : i < j => ~Before(q, Row(q, s[j]), Row(q, s[i]))}

Total(q) == Cardinality(Keys(q))

\* LIMIT and OFFSET
Pages(q, limit, offset) ==
  {[i \in 1 .. Max({0, Min({limit, Total(q) - offset})}) |-> Row(q, s[offset + i])] : s \in Sorted(q)}

\* An answer page; the next one begins at next_offset, the rows so far.
ReadPage(q, offset, rows, changed) ==
  \E limit \in PageSizes : \E page \in Pages(q, limit, offset) :
    reading' = [query |-> q, rows |-> rows \o page, changed |-> changed,
                complete |-> offset + Len(page) >= Total(q)]

FirstPage ==
  /\ reading.query = Absent
  /\ \E q \in Queries : ReadPage(q, 0, <<>>, FALSE)
  /\ UNCHANGED table

NextPage ==
  /\ reading.query # Absent /\ ~reading.complete
  /\ ReadPage(reading.query, Len(reading.rows), reading.rows, reading.changed)
  /\ UNCHANGED table

\* ui:report starts at the first row and is capped, whatever the limit.
Report ==
  /\ reading.query = Absent
  /\ \E q \in Queries : \E rows \in Pages(q, ReportRows, 0) :
       reading' = [query |-> q, rows |-> rows, changed |-> FALSE, complete |-> Len(rows) = Total(q)]
  /\ UNCHANGED table

\* Others add, change and remove records between the pages.
ChangeRecord ==
  /\ reading.query # Absent /\ ~reading.changed
  /\ \E r \in Records, v \in [Fields -> Values] \cup {Absent} :
       /\ v # table[r]
       /\ table' = [table EXCEPT ![r] = v]
  /\ reading' = [reading EXCEPT !.changed = TRUE]

StoreQueryNext == FirstPage \/ NextPage \/ Report \/ ChangeRecord

StoreQuerySpec == StoreQueryInit /\ [][StoreQueryNext]_storeQueryVars

(* ------------------------------ properties ------------------------------ *)

\* store_query.py:155 "an incomplete page is not the complete result": pages that
\* end with has_more false, of whatever sizes, and a report that says complete have
\* every row of the result as often as it is there, unless records changed between.
CompleteMeansAll ==
  LET q == reading.query
  IN q # Absent /\ reading.complete /\ ~reading.changed =>
       /\ Len(reading.rows) = Total(q)
       /\ \A k \in Keys(q) :
            Cardinality({i \in DOMAIN reading.rows : reading.rows[i] = Row(q, k)})
              = Cardinality({m \in Keys(q) : Row(q, m) = Row(q, k)})
=============================================================================
