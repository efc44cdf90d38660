------------------------------ MODULE ScanRows ------------------------------
(***************************************************************************)
(* Reading the result of a statement within the limits of the server:      *)
(* QueryExecutor.QueryWithMaxRows, QueryExecutor.Query and scanRows of     *)
(* internal/database/query.go, and the row limit mysql.query asks for      *)
(* (internal/mcpserver/query_tools.go).                                    *)
(*                                                                         *)
(* The result set of the statement is chosen in Init. scanRows takes its   *)
(* columns, then its rows cell by cell, and stops at the first of four     *)
(* limits. A column or a cell is reduced to its sizes. Every step of the   *)
(* driver may fail, and the context may end between any two steps.         *)
(***************************************************************************)
EXTENDS Integers, Sequences, FiniteSetsExt

CONSTANTS
    Configs,      \* the Limits an executor may be made with
    DefaultRows,  \* default_rows of the configuration
    Requests,     \* the values of max_rows a client may send
    ResultSets,   \* the result sets MySQL may answer with
    MaxInt64      \* the largest int64

\* The fixed allowances of max_result_bytes.
BaseOverhead == 128
ColumnOverhead == 64
RowOverhead == 32
CellOverhead == 64

\* What a limit of zero stands for.
DefaultMaxRows == 1000
DefaultMaxColumns == 256
DefaultMaxCellBytes == 1048576
DefaultMaxResultBytes == 4194304

Limits == [MaxRows : Int, MaxColumns : Int, MaxCellBytes : Int, MaxResultBytes : Int]

\* A column is the length of its description as JSON. Of a cell, source is the
\* length of the value and encoded that of the Cell as JSON; encodeCell does not
\* support every type a driver may return.
Column == 0..(MaxInt64 - ColumnOverhead)
Cell == [source : Nat, encoded : 0..(MaxInt64 - CellOverhead - 1), supported : BOOLEAN]

ASSUME ConfigsAssumption ==
    /\ Configs \subseteq Limits
    /\ \A l \in Configs : l.MaxResultBytes <= MaxInt64
ASSUME DefaultRowsAssumption == DefaultRows \in Nat \ {0}
ASSUME RequestsAssumption == Requests \subseteq Int
ASSUME ResultSetsAssumption ==
    \A t \in ResultSets :
       /\ t \in [columns : Seq(Column), rows : Seq(Seq(Cell))]
       /\ Len(t.columns) > 0
       /\ \A i \in 1..Len(t.rows) : Len(t.rows[i]) = Len(t.columns)
ASSUME MaxInt64Assumption == MaxInt64 \in Nat /\ MaxInt64 >= DefaultMaxResultBytes

VARIABLES
    limits,   \* the limits of the executor
    limit,    \* the MaxRows of this call
    table,    \* the result set: its columns and rows
    pc,       \* where the call is
    columns,  \* result.Columns
    rows,     \* result.Rows
    reason,   \* result.Reason; result.Truncated is set with it
    used,     \* resultBytes
    row,      \* encodedRow
    rowUsed,  \* rowBytes
    fetched,  \* how many rows the driver has handed over
    open,     \* the rows hold their connection
    broken    \* what rows.Err would return: the driver or the context ended them

resultVars == <<columns, rows, reason, used>>
rowVars == <<row, rowUsed>>
driverVars == <<fetched, open, broken>>
callVars == <<limits, limit, table>>
vars == <<callVars, pc, resultVars, rowVars, driverVars>>

PCs == {"start", "types", "columns", "next", "scan", "cells", "err", "close",
        "trim", "done", "failed"}
Reasons == {"none", "max_rows", "max_columns", "max_cell_bytes", "max_result_bytes"}

-----------------------------------------------------------------------------
(* The limits.                                                               *)

\* WithDefaults rejects a negative limit and fills in one that is zero.
Valid(l) == l.MaxRows >= 0 /\ l.MaxColumns >= 0 /\ l.MaxCellBytes >= 0 /\ l.MaxResultBytes >= 0

Default(value, default) == IF value = 0 THEN default ELSE value

WithDefaults(l) ==
    [MaxRows        |-> Default(l.MaxRows, DefaultMaxRows),
     MaxColumns     |-> Default(l.MaxColumns, DefaultMaxColumns),
     MaxCellBytes   |-> Default(l.MaxCellBytes, DefaultMaxCellBytes),
     MaxResultBytes |-> Default(l.MaxResultBytes, DefaultMaxResultBytes)]

\* The sum of two values of int64 that are not negative.
Add(a, b) == IF a + b > MaxInt64 THEN a + b - 2 * (MaxInt64 + 1) ELSE a + b

Wide == Len(table.columns) > limits.MaxColumns
VisibleColumns == IF Wide THEN limits.MaxColumns ELSE Len(table.columns)

-----------------------------------------------------------------------------
(* Faults: definitions as a plausible mistake would have them. No            *)
(* specification uses them; each breaks a property stated below when it      *)
(* replaces the definition it is named after.                                *)

\* The sum is compared with the limit, and may overflow.
ExceedsBySum(current, additional) == Add(current, additional) > limits.MaxResultBytes

\* A result that just fits is refused.
ExceedsOrEquals(current, additional) ==
    additional < 0 \/ additional >= limits.MaxResultBytes - current

\* The first reason stays.
MarkFirst(new) == reason' = IF reason = "none" THEN new ELSE reason

\* rows.Err is not asked.
ErrIgnored ==
    /\ pc = "err"
    /\ pc' = "close"
    /\ UNCHANGED <<callVars, resultVars, rowVars, driverVars>>

\* The rows stay open behind the error.
TakeCellFailOpen ==
    /\ pc = "cells"
    /\ Len(row) < VisibleColumns
    /\ ~table.rows[fetched][Len(row) + 1].supported
    /\ pc' = "failed"
    /\ UNCHANGED <<callVars, resultVars, rowVars, driverVars>>

\* The rows of a result that is too wide are fetched.
ColumnsTakenFetching ==
    /\ pc = "columns"
    /\ Len(columns) = VisibleColumns
    /\ pc' = "next"
    /\ UNCHANGED <<callVars, resultVars, rowVars, driverVars>>

-----------------------------------------------------------------------------
(* The call.                                                                 *)

\* exceedsResultBudget
Exceeds(current, additional) ==
    \/ additional < 0
    \/ current > limits.MaxResultBytes
    \/ additional > limits.MaxResultBytes - current

\* markTruncated: a column limit gives way to any other reason.
Mark(new) ==
    reason' = IF reason = "none" \/ (reason = "max_columns" /\ new # "max_columns")
              THEN new ELSE reason

Init ==
    /\ \E l \in {c \in Configs : Valid(c)} : limits = WithDefaults(l)
    /\ limit = 0
    /\ table \in ResultSets
    /\ pc = "start"
    /\ columns = <<>> /\ rows = <<>> /\ reason = "none" /\ used = 0
    /\ row = <<>> /\ rowUsed = 0
    /\ fetched = 0 /\ open = FALSE /\ broken = FALSE

\* mysql.query sends the row limit of its caller, all other tools the limit of
\* the executor; the statement then runs and scanRows gets its rows.
Ask ==
    /\ pc = "start"
    /\ \E requested \in Requests \cup {limits.MaxRows} :
          /\ 0 <= requested /\ requested <= limits.MaxRows
          /\ limit' = IF requested = 0 THEN DefaultRows ELSE requested
          /\ limit' <= limits.MaxRows
    /\ pc' = "types"
    /\ open' = TRUE
    /\ UNCHANGED <<limits, table, resultVars, rowVars, fetched, broken>>

\* A limit that is negative or above the executor's is refused beforehand.
AskTooMuch ==
    /\ pc = "start"
    /\ \E requested \in Requests :
          requested < 0 \/ requested > limits.MaxRows
             \/ (requested = 0 /\ DefaultRows > limits.MaxRows)
    /\ pc' = "failed"
    /\ UNCHANGED <<callVars, resultVars, rowVars, driverVars>>

\* An error return that closes the rows first.
CloseAndFail ==
    /\ pc' = "failed"
    /\ open' = FALSE
    /\ UNCHANGED <<callVars, resultVars, rowVars, fetched, broken>>

ColumnTypes ==
    /\ pc = "types"
    /\ ~broken
    /\ used' = BaseOverhead
    /\ IF BaseOverhead > limits.MaxResultBytes
       THEN reason' = "max_result_bytes" /\ pc' = "close"
       ELSE reason' = (IF Wide THEN "max_columns" ELSE "none") /\ pc' = "columns"
    /\ UNCHANGED <<callVars, columns, rows, rowVars, driverVars>>

\* rows.ColumnTypes fails once the rows are closed.
ColumnTypesFail == pc = "types" /\ broken /\ CloseAndFail

TakeColumn ==
    /\ pc = "columns"
    /\ Len(columns) < VisibleColumns
    /\ LET column == table.columns[Len(columns) + 1]
           bytes == column + ColumnOverhead
       IN IF Exceeds(used, bytes)
          THEN Mark("max_result_bytes") /\ pc' = "close" /\ UNCHANGED <<columns, used>>
          ELSE /\ used' = used + bytes
               /\ columns' = Append(columns, column)
               /\ UNCHANGED <<reason, pc>>
    /\ UNCHANGED <<callVars, rows, rowVars, driverVars>>

\* A result that is too wide is closed before a row of it is fetched.
ColumnsTaken ==
    /\ pc = "columns"
    /\ Len(columns) = VisibleColumns
    /\ pc' = IF Wide THEN "close" ELSE "next"
    /\ UNCHANGED <<callVars, resultVars, rowVars, driverVars>>

\* rows.Next fetches a row, which the row limit may then refuse.
NextRow ==
    /\ pc = "next"
    /\ ~broken
    /\ fetched < Len(table.rows)
    /\ fetched' = fetched + 1
    /\ IF Len(rows) >= limit
       THEN Mark("max_rows") /\ pc' = "err"
       ELSE pc' = "scan" /\ UNCHANGED reason
    /\ UNCHANGED <<callVars, columns, rows, used, rowVars, open, broken>>

\* The rows have ended, or were ended; rows.Next closes them.
NextEnd ==
    /\ pc = "next"
    /\ broken \/ fetched = Len(table.rows)
    /\ pc' = "err"
    /\ open' = FALSE
    /\ UNCHANGED <<callVars, resultVars, rowVars, fetched, broken>>

\* The driver fails to fetch a row, or the context ends: the rows are closed
\* and rows.Err tells.
Break ==
    /\ open
    /\ pc \in {"types", "columns", "next", "scan", "cells", "err", "close"}
    /\ open' = FALSE
    /\ broken' = TRUE
    /\ UNCHANGED <<callVars, pc, resultVars, rowVars, fetched>>

Scan ==
    /\ pc = "scan"
    /\ ~broken
    /\ row' = <<>>
    /\ rowUsed' = RowOverhead + 2
    /\ pc' = "cells"
    /\ UNCHANGED <<callVars, resultVars, driverVars>>

\* rows.Scan fails once the rows are closed.
ScanFail == pc = "scan" /\ broken /\ CloseAndFail

\* encodeCell and the limits of a cell.
TakeCell ==
    /\ pc = "cells"
    /\ Len(row) < VisibleColumns
    /\ LET cell == table.rows[fetched][Len(row) + 1]
           bytes == cell.encoded + CellOverhead + 1
       IN /\ cell.supported
          /\ IF cell.source > limits.MaxCellBytes
             THEN Mark("max_cell_bytes") /\ pc' = "err" /\ UNCHANGED rowVars
             ELSE IF Exceeds(used, Add(rowUsed, bytes))
             THEN Mark("max_result_bytes") /\ pc' = "err" /\ UNCHANGED rowVars
             ELSE /\ rowUsed' = rowUsed + bytes
                  /\ row' = Append(row, cell)
                  /\ UNCHANGED <<reason, pc>>
    /\ UNCHANGED <<callVars, columns, rows, used, driverVars>>

TakeCellFail ==
    /\ pc = "cells"
    /\ Len(row) < VisibleColumns
    /\ ~table.rows[fetched][Len(row) + 1].supported
    /\ CloseAndFail

TakeRow ==
    /\ pc = "cells"
    /\ Len(row) = VisibleColumns
    /\ used' = used + rowUsed
    /\ rows' = Append(rows, row)
    /\ pc' = "next"
    /\ UNCHANGED <<callVars, columns, reason, rowVars, driverVars>>

\* rows.Err, asked after the last row taken whatever ended the loop.
Err ==
    /\ pc = "err"
    /\ IF broken THEN CloseAndFail
       ELSE pc' = "close" /\ UNCHANGED <<callVars, resultVars, rowVars, driverVars>>

Close ==
    /\ pc = "close"
    /\ open' = FALSE
    /\ pc' = "trim"
    /\ UNCHANGED <<callVars, resultVars, rowVars, fetched, broken>>

\* The driver reports an error while it closes rows that are not closed yet.
CloseFail == pc = "close" /\ open /\ CloseAndFail

\* trimRows of the tool, a second limit on the rows.
Trim ==
    /\ pc = "trim"
    /\ rows' = SubSeq(rows, 1, IF Len(rows) > limit THEN limit ELSE Len(rows))
    /\ reason' = IF Len(rows) > limit /\ reason = "none" THEN "max_rows" ELSE reason
    /\ pc' = "done"
    /\ UNCHANGED <<callVars, columns, used, rowVars, driverVars>>

-----------------------------------------------------------------------------
Next ==
    \/ Ask \/ AskTooMuch
    \/ ColumnTypes \/ ColumnTypesFail \/ TakeColumn \/ ColumnsTaken
    \/ NextRow \/ NextEnd \/ Break
    \/ Scan \/ ScanFail \/ TakeCell \/ TakeCellFail \/ TakeRow
    \/ Err \/ Close \/ CloseFail \/ Trim

Spec == Init /\ [][Next]_vars

-----------------------------------------------------------------------------
(* Properties.                                                               *)

\* The type of every variable; no account of bytes leaves the range of int64.
TypeOK ==
    /\ limits \in [MaxRows : Nat, MaxColumns : Nat, MaxCellBytes : Nat, MaxResultBytes : 0..MaxInt64]
    /\ limit \in Nat
    /\ table \in ResultSets
    /\ pc \in PCs
    /\ columns \in Seq(Column)
    /\ rows \in Seq(Seq(Cell))
    /\ reason \in Reasons
    /\ used \in 0..MaxInt64
    /\ row \in Seq(Cell)
    /\ rowUsed \in 0..MaxInt64
    /\ fetched \in 0..Len(table.rows)
    /\ open \in BOOLEAN
    /\ broken \in BOOLEAN

\* Sums(size)[n] is the sum of the first n sizes.
Sums(size) ==
    LET sum[n \in {0} \cup DOMAIN size] == IF n = 0 THEN 0 ELSE sum[n - 1] + size[n]
    IN sum

\* What a row, all columns and all rows cost by the allowances of query.go:15-24.
CellSizes(r) == [i \in 1..Len(r) |-> r[i].encoded + CellOverhead + 1]
RowBytes(r, n) == RowOverhead + 2 + Sums(CellSizes(r))[n]
ColumnSizes == [i \in 1..Len(table.columns) |-> table.columns[i] + ColumnOverhead]
RowSizes == [i \in 1..Len(table.rows) |-> RowBytes(table.rows[i], Len(table.rows[i]))]

\* The result of the first m columns, and of the first n rows if it has all columns.
ResultBytes(m, n) == BaseOverhead + Sums(ColumnSizes)[m] + Sums(RowSizes)[n]
Fits(m, n) == ResultBytes(m, n) <= limits.MaxResultBytes
CellsFit(r) == \A i \in 1..Len(r) : r[i].source <= limits.MaxCellBytes

\* The longest of the prefixes of s that have one of these lengths, if any.
Longest(s, lengths) == SubSeq(s, 1, Max({0} \cup lengths))

\* The limits cut as little as they can: the answer is the longest run of
\* leading columns, and of whole leading rows, that all four limits allow.
LongestPrefix ==
    pc = "done" =>
       /\ columns = Longest(table.columns,
                            {m \in 1..Len(table.columns) : m <= limits.MaxColumns /\ Fits(m, 0)})
       /\ rows = Longest(table.rows,
                         {n \in 1..Len(table.rows) :
                             /\ columns = table.columns
                             /\ n <= limit
                             /\ \A i \in 1..n : CellsFit(table.rows[i])
                             /\ Fits(Len(columns), n)})

\* An answer that is not marked as truncated is the whole result set, also when
\* the driver or the context breaks it off; one that is marked lacks something.
TruncatedIffIncomplete ==
    pc = "done" => (reason = "none" <=> columns = table.columns /\ rows = table.rows)

\* What each reason says of the place where the answer ends.
Told ==
    CASE reason = "max_rows" -> Len(rows) = limit /\ limit < Len(table.rows)
      [] reason = "max_columns" -> Wide /\ Len(columns) = limits.MaxColumns
      [] reason = "max_cell_bytes" -> ~CellsFit(table.rows[Len(rows) + 1])
      [] reason = "max_result_bytes" -> IF Len(columns) < VisibleColumns
                                        THEN ~Fits(Len(columns) + 1, 0)
                                        ELSE ~Fits(Len(columns), Len(rows) + 1)
      [] OTHER -> TRUE

\* The reason is the limit that stopped the answer where it ends.
ReasonTold == pc = "done" => Told

\* The connection under the rows is free when the call returns, on every path.
RowsClosed == pc \in {"done", "failed"} => ~open

\* At most one row is fetched that the answer does not hold, and none of a
\* result that is too wide.
BoundedFetch == fetched <= Len(rows) + 1 /\ (Wide => fetched = 0)

\* types.go:125: "A column cap changes the shape but does not stop row
\* iteration."
ColumnCapKeepsRows == pc = "done" /\ reason = "max_columns" => rows = table.rows
=============================================================================
