----------------------------- MODULE ScanRowsInv -----------------------------
(***************************************************************************)
(* The inductive invariant of ScanRows: at every step, what has been taken *)
(* is a prefix of the result set that fits and whose bytes have been       *)
(* counted, and what stopped the reading lies right behind it.             *)
(***************************************************************************)
EXTENDS ScanRows

Agrees(s, t) == Len(s) <= Len(t) /\ \A i \in 1..Len(s) : s[i] = t[i]

\* The places behind the loop.
Ending == {"err", "close", "trim", "done"}

Complete == Len(columns) = Len(table.columns) /\ Len(rows) = Len(table.rows)

\* WithDefaults leaves no limit at zero that decides how far a loop goes.
LimitsInv == limits.MaxColumns > 0 /\ (pc \notin {"start", "failed"} => limit > 0)

\* Prefixes: of the columns, of the rows, and of the row being encoded.
PrefixInv ==
    /\ Agrees(columns, table.columns)
    /\ Agrees(rows, table.rows)
    /\ Len(columns) <= VisibleColumns
    /\ Len(rows) <= limit
    /\ pc = "cells" => Agrees(row, table.rows[fetched])

\* How far the driver has been read.
FetchInv ==
    /\ pc \in {"start", "types"} => columns = <<>>
    /\ pc \in {"start", "types", "columns"} => rows = <<>> /\ fetched = 0
    /\ pc \in {"next", "scan", "cells", "err"} => ~Wide /\ Len(columns) = Len(table.columns)
    /\ pc = "next" => fetched = Len(rows)
    /\ pc \in {"scan", "cells"} => fetched = Len(rows) + 1 /\ Len(rows) < limit
    /\ BoundedFetch

\* Nothing is marked before something is left out, and then it is.
MarkInv ==
    /\ pc \in {"start", "types", "next", "scan", "cells"} => reason = "none"
    /\ pc = "columns" => reason = IF Wide THEN "max_columns" ELSE "none"
    /\ pc = "err" /\ ~broken => (reason = "none" <=> Len(rows) = Len(table.rows))
    /\ pc \in {"close", "trim", "done"} => (reason = "none" <=> Complete)

\* The budget covers what is taken and, from its first cell on, the row.
BudgetInv ==
    /\ pc \in {"columns", "next", "scan", "cells"} => used <= limits.MaxResultBytes
    /\ pc = "cells" /\ row # <<>> => used + rowUsed <= limits.MaxResultBytes

\* Rows that are closed stay so, and are before the call returns.
OpenInv == pc \in {"start", "trim", "done", "failed"} => ~open

ReadInv ==
    /\ TypeOK
    /\ LimitsInv /\ PrefixInv /\ FetchInv /\ MarkInv /\ BudgetInv /\ OpenInv

\* The running accounts are the sums of what has been taken.
AccountInv ==
    /\ pc \notin {"start", "types", "failed"} => used = ResultBytes(Len(columns), Len(rows))
    /\ pc = "cells" => rowUsed = RowBytes(table.rows[fetched], Len(row))

\* What has been taken is within the limits, except for a result without columns.
FitInv ==
    /\ pc \in Ending => used <= limits.MaxResultBytes \/ columns = <<>>
    /\ \A i \in 1..Len(rows) : CellsFit(rows[i])
    /\ pc = "cells" => CellsFit(row)

\* The reading has stopped for the reason it gives: before its rows if a column
\* is missing, and else at the row behind the last.
StopInv ==
    /\ columns # table.columns => rows = <<>>
    /\ pc \in Ending =>
          /\ Told
          /\ reason \in {"max_rows", "max_cell_bytes"} => columns = table.columns

IInv == ReadInv /\ AccountInv /\ FitInv /\ StopInv
=============================================================================
