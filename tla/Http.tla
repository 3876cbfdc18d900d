-------------------------------- MODULE Http --------------------------------
(* What the backend does to every request before and after its handler: the  *)
(* exception filter, and the pagination of the three listings.  Pure         *)
(* operators, no state.                                                      *)
(*                                                                           *)
(* Page numbers and limits are whole here.  Fractions, which @IsNumber lets  *)
(* through, are refused by the database client.                              *)
EXTENDS Integers, FiniteSets

(* MUTANT: P2025 falls through to the default.                               *)
StatusOfUnfound(code) == IF code \in {"P2002", "P2003", "P2014"} THEN 409 ELSE 500

(* AllExceptionsFilter: the status of an error the database client knows.    *)
StatusOf(code) ==
  CASE code \in {"P2002", "P2003", "P2014"} -> 409   \* unique, foreign key, relation
    [] code = "P2025"                       -> 404   \* no such record
    [] OTHER                                -> 500

(* PaginationInterceptor lets the request through.                           *)
Accepts(page, limit) == page >= 1 /\ limit >= 1

(* MUTANT: pages are counted from zero.                                      *)
SkipFromZero(page, limit) == page * limit

Skip(page, limit) == (page - 1) * limit

(* paginate: Math.ceil(total / limit)                                        *)
TotalPages(total, limit) == (total + limit - 1) \div limit

(* The rows findMany returns for skip and take.  Without an orderBy the      *)
(* client orders a page by the primary key, here the number of the row.      *)
RowsOnPage(rows, page, limit) ==
  {i \in rows : Cardinality({j \in rows : j < i}) \in
                  Skip(page, limit) .. (Skip(page, limit) + limit - 1)}
=============================================================================
