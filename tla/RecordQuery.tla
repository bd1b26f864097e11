------------------------------ MODULE RecordQuery ------------------------------
(***************************************************************************)
(* A customer asks for the print records: replyHistory (gateway.go) and    *)
(* listPrintRecords (cups.go).  Nothing is stored.                         *)
(*                                                                         *)
(* cups-web is external: it answers with the records of the customer in    *)
(* any order, or fails.  Abstracted: a record is its place in the answer   *)
(* and its createdAt, an instant; 0 if it cannot be parsed, which Go makes *)
(* the earliest of all.                                                    *)
(***************************************************************************)
EXTENDS Integers, Sequences, FiniteSets

CONSTANT Limit  \* how many records a reply lists (5)

ASSUME LimitAssumption == Limit \in Nat \ {0}

VARIABLES
  answer,  \* what cups-web answers: whether it is a list, and the records
  query    \* where the query is, the records it has, and the reply

queryVars == <<answer, query>>

Query(at) == [at |-> at, records |-> <<>>, reply |-> "none"]

QueryAt(s) == query.at = s

Places == DOMAIN answer.records

\* sort.SliceStable, latest first.
Before(i, j) ==
  LET a == answer.records[i].createdAt
      b == answer.records[j].createdAt
  IN a > b \/ (a = b /\ i < j)

Sorted ==
  LET PlaceOf(k) == CHOOSE i \in Places : Cardinality({j \in Places : Before(j, i)}) = k - 1
  IN [k \in Places |-> answer.records[PlaceOf(k)]]

AtMost(records) == SubSeq(records, 1, IF Len(records) > Limit THEN Limit ELSE Len(records))

\* (Mutant: cut before it is sorted.)
CutFirst ==
  SelectSeq(Sorted, LAMBDA r : \E k \in DOMAIN AtMost(answer.records) : answer.records[k] = r)

LatestFirst == AtMost(Sorted)

\* listPrintRecords: a status that is no 2xx, a body that is no list of records, or
\* no answer at all fails the query.
ListPrintRecords ==
  /\ QueryAt("list")
  /\ query' = IF answer.ok
              THEN [query EXCEPT !.at = "reply", !.records = LatestFirst]
              ELSE [query EXCEPT !.at = "done", !.reply = "failed"]
  /\ UNCHANGED answer

ReplyHistory ==
  /\ QueryAt("reply")
  /\ query' = [query EXCEPT !.at = "done",
                 !.reply = IF query.records = <<>> THEN "empty" ELSE "records"]
  /\ UNCHANGED answer

QueryNext == ListPrintRecords \/ ReplyHistory

\* Any answer.
QueryInit ==
  /\ answer \in [ok : BOOLEAN, records : Seq([place : Nat, createdAt : Nat])]
  /\ \A k \in Places : answer.records[k].place = k
  /\ query = Query("list")

QuerySpec == QueryInit /\ [][QueryNext]_queryVars

-----------------------------------------------------------------------------
\* The reply lists the latest records, latest first, however cups-web orders them
\* and however many share a time or have none: no record is left out that is later
\* than one that is listed, and the customer hears of no records only if there are
\* none (replyHistory, listPrintRecords).
LatestShown ==
  QueryAt("done") =>
    LET shown == {query.records[k] : k \in DOMAIN query.records}
        all   == {answer.records[k] : k \in Places}
    IN /\ query.reply = "empty" => all = {}
       /\ query.reply = "records" =>
            /\ shown \subseteq all
            /\ Cardinality(shown) = Len(query.records)
            /\ Len(query.records) = Limit \/ shown = all
            /\ \A s \in shown, r \in all \ shown : s.createdAt >= r.createdAt
            /\ \A k, l \in DOMAIN query.records :
                 k < l => query.records[k].createdAt >= query.records[l].createdAt

=============================================================================
