--------------------------- MODULE ScanRowsProofs ---------------------------
(***************************************************************************)
(* For every set of limits and every result set: the types, among them     *)
(* that no account of bytes overflows; that the answer is the longest      *)
(* prefix the limits allow, and is marked as truncated exactly if          *)
(* something is missing, with the limit that stopped it.                   *)
(***************************************************************************)
EXTENDS ScanRowsInv, Induction

\* The constants of the code that are only compared.
LEMMA DefaultFacts ==
    /\ DefaultMaxRows \in Nat \ {0} /\ DefaultMaxColumns \in Nat \ {0}
    /\ DefaultMaxCellBytes \in Nat /\ DefaultMaxResultBytes \in 0..MaxInt64
    /\ MaxInt64 \in Nat /\ MaxInt64 >= 1024
  BY MaxInt64Assumption, SMT
     DEF DefaultMaxRows, DefaultMaxColumns, DefaultMaxCellBytes, DefaultMaxResultBytes

\* What a result set is made of.
LEMMA ResultSetFacts ==
    ASSUME NEW t \in ResultSets
    PROVE  /\ t.columns \in Seq(Column) /\ t.rows \in Seq(Seq(Cell))
           /\ Len(t.columns) \in Nat \ {0} /\ Len(t.rows) \in Nat
           /\ \A i \in 1..Len(t.rows) : t.rows[i] \in Seq(Cell) /\ Len(t.rows[i]) = Len(t.columns)
  <1>1. /\ t \in [columns : Seq(Column), rows : Seq(Seq(Cell))]
        /\ Len(t.columns) > 0
        /\ \A i \in 1..Len(t.rows) : Len(t.rows[i]) = Len(t.columns)
    BY ResultSetsAssumption
  <1>2. t.columns \in Seq(Column) /\ t.rows \in Seq(Seq(Cell))
    BY <1>1
  <1> QED
    BY <1>1, <1>2

\* The number of columns an answer can show is positive.
LEMMA VisibleColumnsFacts ==
    ASSUME TypeOK, LimitsInv
    PROVE  /\ VisibleColumns \in Nat \ {0}
           /\ VisibleColumns <= Len(table.columns)
           /\ VisibleColumns <= limits.MaxColumns
           /\ Wide \in BOOLEAN
           /\ Wide <=> VisibleColumns # Len(table.columns)
           /\ Wide <=> Len(table.columns) > limits.MaxColumns
  BY ResultSetFacts DEF TypeOK, LimitsInv, VisibleColumns, Wide

\* What a column and a cell add to an account is a value of int64.
LEMMA SizeFacts ==
    /\ \A c \in Column : c + ColumnOverhead \in 0..MaxInt64
    /\ \A c \in Cell : c.encoded + CellOverhead + 1 \in 0..MaxInt64
  BY DefaultFacts DEF Column, ColumnOverhead, Cell, CellOverhead

\* exceedsResultBudget is exact, although the sum may overflow.
LEMMA ExceedsFacts ==
    ASSUME TypeOK, NEW a \in 0..MaxInt64, NEW b \in 0..MaxInt64
    PROVE  Exceeds(a, b) <=> a + b > limits.MaxResultBytes
  BY DefaultFacts DEF TypeOK, Exceeds

LEMMA ExceedsSumFacts ==
    ASSUME TypeOK, NEW a \in 0..MaxInt64, NEW b \in 0..MaxInt64, NEW c \in 0..MaxInt64
    PROVE  Exceeds(a, Add(b, c)) <=> a + (b + c) > limits.MaxResultBytes
  BY DefaultFacts DEF TypeOK, Exceeds, Add

\* Sums obeys its recursion.
LEMMA SumsDefined ==
    ASSUME NEW N \in Nat, NEW size \in [1..N -> Nat]
    PROVE  /\ Sums(size) \in [0..N -> Nat]
           /\ Sums(size)[0] = 0
           /\ \A n \in 1..N : Sums(size)[n] = Sums(size)[n - 1] + size[n]
  <1> DEFINE Is(f) == f = [n \in {0} \cup DOMAIN size |-> IF n = 0 THEN 0 ELSE f[n - 1] + size[n]]
             rank == [n \in 0..N |-> n]
             step == [n \in 0..N |-> [g \in [0..N -> Nat] |-> IF n = 0 THEN 0 ELSE g[n - 1] + size[n]]]
  <1>1. step \in Steps(0..N, Nat)
    <2>1. ASSUME NEW n \in 0..N, NEW g \in [0..N -> Nat]
          PROVE  (IF n = 0 THEN 0 ELSE g[n - 1] + size[n]) \in Nat
      <3>1. CASE n # 0
        <4>1. n - 1 \in 0..N /\ n \in 1..N
          BY <3>1
        <4> QED
          BY <4>1
      <3> QED
        BY <3>1
    <2> QED
      BY <2>1 DEF Steps
  <1>2. LooksBack(0..N, Nat, rank, step)
    <2> SUFFICES ASSUME NEW n \in 0..N, NEW g \in [0..N -> Nat], NEW h \in [0..N -> Nat],
                        \A k \in 0..N : rank[k] < rank[n] => g[k] = h[k]
                 PROVE  step[n][g] = step[n][h]
      BY Zenon DEF LooksBack
    <2>1. n # 0 => n - 1 \in 0..N /\ n - 1 < n
      OBVIOUS
    <2> QED
      BY <2>1
  <1>3. PICK g : Solves(0..N, Nat, step, g)
    <2>1. N \in Nat /\ 0 \in Nat /\ rank \in [0..N -> 0..N]
      OBVIOUS
    <2> HIDE DEF step, rank
    <2> QED
      BY <1>1, <1>2, <2>1, Recursion, Zenon
  <1>4. g \in [0..N -> Nat] /\ \A n \in 0..N : g[n] = IF n = 0 THEN 0 ELSE g[n - 1] + size[n]
    BY <1>3 DEF Solves
  <1>5. Is(g)
    <2>1. {0} \cup DOMAIN size = 0..N
      OBVIOUS
    <2> QED
      BY <1>4, <2>1
  <1>6. Sums(size) = CHOOSE f : Is(f)
    BY Zenon DEF Sums
  <1> HIDE DEF Is
  <1>7. Is(Sums(size))
    BY <1>5, <1>6, Zenon
  <1> DEFINE s == Sums(size)
  <1> HIDE DEF s
  <1>8. s = [n \in 0..N |-> IF n = 0 THEN 0 ELSE s[n - 1] + size[n]]
    <2>1. {0} \cup DOMAIN size = 0..N
      OBVIOUS
    <2> QED
      BY <1>7, <2>1, Zenon DEF Is, s
  <1>9. \A n \in 0..N : s[n] \in Nat
    <2> DEFINE S == {n \in 0..N : s[n] \in Nat}
    <2>1. 0 \in S
      BY <1>8
    <2>2. \A n \in Nat : n < N /\ n \in S => n + 1 \in S
      <3> SUFFICES ASSUME NEW n \in Nat, n < N, s[n] \in Nat PROVE s[n + 1] \in Nat
        OBVIOUS
      <3>1. n + 1 \in 0..N /\ n + 1 \in 1..N /\ n + 1 # 0 /\ n + 1 - 1 = n
        OBVIOUS
      <3>2. s[n + 1] = s[n] + size[n + 1]
        BY <1>8, <3>1
      <3> QED
        BY <3>1, <3>2
    <2> HIDE DEF S
    <2>3. \A n \in 0..N : n \in S
      BY <2>1, <2>2, InductionTo, Zenon
    <2> QED
      BY <2>3 DEF S
  <1>10. s \in [0..N -> Nat]
    BY <1>8, <1>9
  <1>11. s[0] = 0 /\ \A n \in 1..N : s[n] = s[n - 1] + size[n]
    BY <1>8
  <1> QED
    BY <1>10, <1>11 DEF s

\* A sum over more sizes is no smaller.
LEMMA SumsGrow ==
    ASSUME NEW N \in Nat, NEW size \in [1..N -> Nat], NEW m \in 0..N, NEW n \in 0..N, m <= n
    PROVE  Sums(size)[m] <= Sums(size)[n]
  <1> DEFINE s == Sums(size)
             S == {k \in 0..(N - m) : s[m] <= s[m + k]}
  <1>1. /\ s \in [0..N -> Nat]
        /\ \A k \in 1..N : s[k] = s[k - 1] + size[k]
    BY SumsDefined
  <1> HIDE DEF s
  <1>2. 0 \in S
    BY <1>1
  <1>3. \A k \in Nat : k < N - m /\ k \in S => k + 1 \in S
    <2> SUFFICES ASSUME NEW k \in Nat, k < N - m, s[m] <= s[m + k]
                 PROVE  s[m] <= s[m + (k + 1)]
      OBVIOUS
    <2>1. m + (k + 1) \in 1..N /\ m + (k + 1) - 1 = m + k /\ m + k \in 0..N
      OBVIOUS
    <2>2. s[m + (k + 1)] = s[m + k] + size[m + (k + 1)] /\ size[m + (k + 1)] \in Nat
      BY <1>1, <2>1
    <2> QED
      BY <1>1, <2>1, <2>2
  <1>4. \A k \in 0..(N - m) : k \in S
    <2> HIDE DEF S
    <2>1. N - m \in Nat
      OBVIOUS
    <2> QED
      BY <1>2, <1>3, <2>1, InductionTo, Zenon
  <1>5. n - m \in 0..(N - m) /\ m + (n - m) = n
    OBVIOUS
  <1> QED
    BY <1>4, <1>5 DEF s
\* A sequence that agrees with another goes on agreeing with it when the next
\* element of the other is appended.
LEMMA AgreesAppend ==
    ASSUME NEW S, NEW s \in Seq(S), NEW t \in Seq(S), Agrees(s, t), Len(s) < Len(t)
    PROVE  /\ Agrees(Append(s, t[Len(s) + 1]), t)
           /\ Append(s, t[Len(s) + 1]) \in Seq(S)
           /\ Len(Append(s, t[Len(s) + 1])) = Len(s) + 1
  BY DEF Agrees

\* Sequences that agree and are of one length are equal.
LEMMA AgreesEqual ==
    ASSUME NEW S, NEW s \in Seq(S), NEW t \in Seq(S), Agrees(s, t)
    PROVE  Len(s) = Len(t) <=> s = t
  BY DEF Agrees

LEMMA InitReadInv == Init => ReadInv
  <1> SUFFICES ASSUME Init PROVE ReadInv
    OBVIOUS
  <1>1. /\ limits \in [MaxRows : Nat, MaxColumns : Nat, MaxCellBytes : Nat, MaxResultBytes : 0..MaxInt64]
        /\ limits.MaxColumns > 0
    <2>1. PICK l \in Configs : Valid(l) /\ limits = WithDefaults(l)
      BY DEF Init
    <2>2. l \in Limits /\ l.MaxResultBytes <= MaxInt64
      BY ConfigsAssumption
    <2>3. l.MaxRows \in Nat /\ l.MaxColumns \in Nat /\ l.MaxCellBytes \in Nat
          /\ l.MaxResultBytes \in 0..MaxInt64
      BY <2>1, <2>2, DefaultFacts DEF Limits, Valid
    <2> QED
      BY <2>1, <2>3, DefaultFacts DEF WithDefaults, Default
  <1>2. TypeOK
    <2>1. table \in ResultSets /\ 0 \in 0..Len(table.rows)
      BY ResultSetFacts DEF Init
    <2>2. columns \in Seq(Column) /\ rows \in Seq(Seq(Cell)) /\ row \in Seq(Cell)
      BY DEF Init
    <2>3. used \in 0..MaxInt64 /\ rowUsed \in 0..MaxInt64
      BY DefaultFacts DEF Init
    <2>4. limit \in Nat /\ pc \in PCs /\ reason \in Reasons /\ fetched \in 0..Len(table.rows)
          /\ open \in BOOLEAN /\ broken \in BOOLEAN
      BY <2>1 DEF Init, PCs, Reasons
    <2> QED
      BY <1>1, <2>1, <2>2, <2>3, <2>4 DEF TypeOK
  <1>3. LimitsInv
    BY <1>1 DEF Init, LimitsInv
  <1>4. VisibleColumns >= 0
    BY <1>2, <1>3, VisibleColumnsFacts
  <1> QED
    BY <1>2, <1>3, <1>4, ResultSetFacts
       DEF Init, ReadInv, PrefixInv, FetchInv, MarkInv, BudgetInv, OpenInv, BoundedFetch, Agrees, TypeOK

\* Error returns: the rows are closed and what was read is left.
LEMMA CloseAndFailReadInv == ReadInv /\ CloseAndFail => ReadInv'
  BY DEF ReadInv, TypeOK, LimitsInv, PrefixInv, FetchInv, MarkInv, BudgetInv, OpenInv, BoundedFetch,
         CloseAndFail, callVars, resultVars, rowVars, driverVars, PCs, Wide, VisibleColumns, Complete

\* Every step preserves what is said of the reading.
LEMMA NextReadInv == ReadInv /\ [Next]_vars => ReadInv'
  <1> SUFFICES ASSUME ReadInv, [Next]_vars PROVE ReadInv'
    OBVIOUS
  <1> USE DEF callVars, resultVars, rowVars, driverVars
  <1>0. /\ TypeOK /\ LimitsInv /\ PrefixInv /\ FetchInv /\ MarkInv /\ BudgetInv /\ OpenInv
        /\ VisibleColumns \in Nat \ {0} /\ VisibleColumns <= Len(table.columns)
        /\ VisibleColumns <= limits.MaxColumns
        /\ Wide \in BOOLEAN /\ (Wide <=> VisibleColumns # Len(table.columns))
        /\ (Wide <=> Len(table.columns) > limits.MaxColumns)
    BY VisibleColumnsFacts DEF ReadInv
  <1>t. /\ table.columns \in Seq(Column) /\ table.rows \in Seq(Seq(Cell))
        /\ Len(table.columns) \in Nat \ {0} /\ Len(table.rows) \in Nat
        /\ \A i \in 1..Len(table.rows) :
              table.rows[i] \in Seq(Cell) /\ Len(table.rows[i]) = Len(table.columns)
    BY <1>0, ResultSetFacts DEF TypeOK
  <1>l. /\ limits.MaxResultBytes \in 0..MaxInt64 /\ MaxInt64 \in Nat
        /\ used \in 0..MaxInt64 /\ rowUsed \in 0..MaxInt64
        /\ row \in Seq(Cell) /\ Len(row) \in Nat /\ Len(columns) \in Nat
    BY <1>0, DefaultFacts DEF TypeOK
  <1>f. pc = "cells" => /\ fetched \in 1..Len(table.rows) /\ fetched = Len(rows) + 1
                        /\ table.rows[fetched] \in Seq(Cell)
                        /\ Len(table.rows[fetched]) = VisibleColumns
                        /\ ~Wide /\ Len(rows) < limit /\ reason = "none"
    <2>1. pc = "cells" => fetched \in 0..Len(table.rows) /\ fetched = Len(rows) + 1 /\ Len(rows) \in Nat
      BY <1>0 DEF TypeOK, FetchInv
    <2>2. pc = "cells" => fetched \in 1..Len(table.rows)
      BY <1>t, <2>1
    <2> QED
      BY <1>0, <1>t, <2>1, <2>2 DEF FetchInv, MarkInv
  <1>1. CASE Ask
    BY <1>0, <1>1, DefaultRowsAssumption
       DEF Ask, ReadInv, TypeOK, LimitsInv, PrefixInv, FetchInv, MarkInv, BudgetInv, OpenInv,
           BoundedFetch, PCs, Wide, VisibleColumns, Complete, Agrees
  <1>2. CASE AskTooMuch
    BY <1>0, <1>2
       DEF AskTooMuch, ReadInv, TypeOK, LimitsInv, PrefixInv, FetchInv, MarkInv, BudgetInv, OpenInv,
           BoundedFetch, PCs, Wide, VisibleColumns, Complete
  <1>3. CASE ColumnTypes
    BY <1>0, <1>t, <1>3, DefaultFacts, SMTT(20)
       DEF ColumnTypes, ReadInv, TypeOK, LimitsInv, PrefixInv, FetchInv, MarkInv, BudgetInv, OpenInv,
           BoundedFetch, PCs, Reasons, Wide, VisibleColumns, Complete, BaseOverhead
  <1>4. CASE ColumnTypesFail \/ ScanFail \/ TakeCellFail \/ CloseFail
    BY <1>4, CloseAndFailReadInv DEF ColumnTypesFail, ScanFail, TakeCellFail, CloseFail
  <1>5. CASE TakeColumn
    <2> DEFINE column == table.columns[Len(columns) + 1]
               bytes == column + ColumnOverhead
    <2>1. pc = "columns" /\ Len(columns) < VisibleColumns
      BY <1>5 DEF TakeColumn
    <2>2. column \in Column /\ bytes \in 0..MaxInt64
      <3>1. Len(columns) + 1 \in 1..Len(table.columns)
        BY <1>0, <1>t, <2>1 DEF TypeOK
      <3>2. column \in Column
        BY <1>t, <3>1
      <3> QED
        BY <3>2, SizeFacts
    <2>e. Exceeds(used, bytes) <=> used + bytes > limits.MaxResultBytes
      BY <1>0, <2>2, ExceedsFacts DEF TypeOK
    <2> HIDE DEF column, bytes
    <2>3. CASE Exceeds(used, bytes)
      <3>1. UNCHANGED <<callVars, columns, rows, used, rowVars, driverVars>> /\ pc' = "close"
            /\ reason' = "max_result_bytes"
        BY <1>0, <1>5, <2>1, <2>3 DEF TakeColumn, Mark, MarkInv, column, bytes
      <3> QED
        BY <1>0, <1>t, <2>1, <3>1
           DEF ReadInv, TypeOK, LimitsInv, PrefixInv, FetchInv, MarkInv, BudgetInv, OpenInv,
               BoundedFetch, PCs, Reasons, Wide, VisibleColumns, Complete
    <2>4. CASE ~Exceeds(used, bytes)
      <3>1. /\ UNCHANGED <<callVars, pc, rows, reason, rowVars, driverVars>>
            /\ used' = used + bytes
            /\ columns' = Append(columns, column)
        BY <1>5, <2>4 DEF TakeColumn, column, bytes
      <3>2. /\ Agrees(columns', table.columns) /\ columns' \in Seq(Column)
            /\ Len(columns') = Len(columns) + 1
        <4>1. Agrees(columns, table.columns) /\ columns \in Seq(Column) /\ Len(columns) < Len(table.columns)
          BY <1>0, <1>t, <2>1 DEF TypeOK, PrefixInv
        <4> QED
          BY <1>t, <3>1, <4>1, AgreesAppend DEF column
      <3>3. used' \in 0..MaxInt64 /\ used' <= limits.MaxResultBytes
        BY <1>l, <2>2, <2>e, <2>4, <3>1
      <3> QED
        BY <1>0, <1>t, <2>1, <3>1, <3>2, <3>3
           DEF ReadInv, TypeOK, LimitsInv, PrefixInv, FetchInv, MarkInv, BudgetInv, OpenInv,
               BoundedFetch, PCs, Reasons, Wide, VisibleColumns, Complete
    <2> QED
      BY <2>3, <2>4
  <1>6. CASE ColumnsTaken
    BY <1>0, <1>t, <1>6
       DEF ColumnsTaken, ReadInv, TypeOK, LimitsInv, PrefixInv, FetchInv, MarkInv, BudgetInv, OpenInv,
           BoundedFetch, PCs, Wide, VisibleColumns, Complete
  <1>7. CASE NextRow
    <2>1. /\ pc = "next" /\ fetched' = fetched + 1 /\ fetched = Len(rows)
          /\ fetched < Len(table.rows) /\ fetched \in Nat /\ Len(rows) \in Nat
          /\ fetched' \in 0..Len(table.rows)
          /\ UNCHANGED <<callVars, columns, rows, used, rowVars, open, broken>>
      BY <1>0, <1>t, <1>7 DEF NextRow, TypeOK, FetchInv
    <2>2. CASE Len(rows) >= limit
      <3>1. pc' = "err" /\ reason' = "max_rows"
        BY <1>0, <1>7, <2>1, <2>2 DEF NextRow, Mark, MarkInv
      <3> QED
        BY <1>0, <1>t, <2>1, <3>1, SMTT(20)
           DEF ReadInv, TypeOK, LimitsInv, PrefixInv, FetchInv, MarkInv, BudgetInv, OpenInv,
               BoundedFetch, PCs, Reasons, Wide, VisibleColumns, Complete
    <2>3. CASE ~(Len(rows) >= limit)
      <3>1. pc' = "scan" /\ reason' = reason
        BY <1>7, <2>3 DEF NextRow
      <3> QED
        BY <1>0, <1>t, <2>1, <2>3, <3>1
           DEF ReadInv, TypeOK, LimitsInv, PrefixInv, FetchInv, MarkInv, BudgetInv, OpenInv,
               BoundedFetch, PCs, Wide, VisibleColumns, Complete
    <2> QED
      BY <2>2, <2>3
  <1>8. CASE NextEnd
    BY <1>0, <1>t, <1>8
       DEF NextEnd, ReadInv, TypeOK, LimitsInv, PrefixInv, FetchInv, MarkInv, BudgetInv, OpenInv,
           BoundedFetch, PCs, Wide, VisibleColumns, Complete, Agrees
  <1>9. CASE Break
    BY <1>0, <1>9
       DEF Break, ReadInv, TypeOK, LimitsInv, PrefixInv, FetchInv, MarkInv, BudgetInv, OpenInv,
           BoundedFetch, PCs, Wide, VisibleColumns, Complete
  <1>10. CASE Scan
    BY <1>0, <1>t, <1>10, DefaultFacts, SMTT(20)
       DEF Scan, ReadInv, TypeOK, LimitsInv, PrefixInv, FetchInv, MarkInv, BudgetInv, OpenInv,
           BoundedFetch, PCs, Wide, VisibleColumns, Complete, Agrees, RowOverhead
  <1>11. CASE TakeCell
    <2> DEFINE cell == table.rows[fetched][Len(row) + 1]
               bytes == cell.encoded + CellOverhead + 1
    <2>1. /\ pc = "cells" /\ Len(row) < VisibleColumns
          /\ fetched \in 1..Len(table.rows) /\ fetched = Len(rows) + 1
          /\ table.rows[fetched] \in Seq(Cell)
          /\ Len(row) < Len(table.rows[fetched])
          /\ reason = "none" /\ ~Wide /\ Len(rows) < limit
          /\ UNCHANGED <<callVars, columns, rows, used, driverVars>>
      <3>1. /\ pc = "cells" /\ Len(row) < VisibleColumns
            /\ UNCHANGED <<callVars, columns, rows, used, driverVars>>
        BY <1>11 DEF TakeCell
      <3> QED
        BY <1>f, <3>1
    <2>2. cell \in Cell /\ bytes \in 0..MaxInt64
      <3>1. Len(row) + 1 \in 1..Len(table.rows[fetched])
        BY <1>0, <1>l, <1>f, <2>1
      <3>2. cell \in Cell
        BY <2>1, <3>1
      <3> QED
        BY <3>2, SizeFacts
    <2>3. Exceeds(used, Add(rowUsed, bytes)) <=> used + (rowUsed + bytes) > limits.MaxResultBytes
      BY <1>0, <2>2, ExceedsSumFacts DEF TypeOK
    <2> HIDE DEF cell, bytes
    <2>4. CASE pc' = "err"
      <3>1. UNCHANGED rowVars /\ reason' \in {"max_cell_bytes", "max_result_bytes"}
        BY <1>11, <2>1, <2>4 DEF TakeCell, Mark
      <3>2. Len(rows) < Len(table.rows) /\ Len(rows) \in Nat
        BY <1>0, <1>t, <1>f, <2>1, SMTT(20) DEF PrefixInv, TypeOK
      <3> QED
        BY <1>0, <2>1, <2>4, <3>1, <3>2, SMTT(20)
           DEF ReadInv, TypeOK, LimitsInv, PrefixInv, FetchInv, MarkInv, BudgetInv, OpenInv,
               BoundedFetch, PCs, Reasons, Wide, VisibleColumns, Complete, Agrees
    <2>5. CASE pc' # "err"
      <3>1. /\ UNCHANGED <<reason, pc>> /\ ~Exceeds(used, Add(rowUsed, bytes))
            /\ rowUsed' = rowUsed + bytes /\ row' = Append(row, cell)
        BY <1>11, <2>5 DEF TakeCell, cell, bytes
      <3>2. /\ Agrees(row', table.rows[fetched]) /\ row' \in Seq(Cell)
        BY <1>0, <2>1, <3>1, AgreesAppend DEF TypeOK, PrefixInv, cell
      <3>3. rowUsed' \in 0..MaxInt64 /\ used + rowUsed' <= limits.MaxResultBytes
        BY <1>l, <2>2, <2>3, <3>1
      <3> QED
        BY <1>0, <1>t, <2>1, <3>1, <3>2, <3>3
           DEF ReadInv, TypeOK, LimitsInv, PrefixInv, FetchInv, MarkInv, BudgetInv, OpenInv,
               BoundedFetch, PCs, Reasons, Wide, VisibleColumns, Complete
    <2> QED
      BY <2>4, <2>5
  <1>12. CASE TakeRow
    <2>1. /\ pc = "cells" /\ Len(row) = VisibleColumns /\ pc' = "next"
          /\ fetched \in 1..Len(table.rows) /\ fetched = Len(rows) + 1
          /\ table.rows[fetched] \in Seq(Cell) /\ Len(table.rows[fetched]) = VisibleColumns
          /\ used' = used + rowUsed /\ rows' = Append(rows, row) /\ Len(rows) < limit
          /\ UNCHANGED <<callVars, columns, reason, rowVars, driverVars>>
      <3>1. /\ pc = "cells" /\ Len(row) = VisibleColumns /\ pc' = "next"
            /\ used' = used + rowUsed /\ rows' = Append(rows, row)
            /\ UNCHANGED <<callVars, columns, reason, rowVars, driverVars>>
        BY <1>12 DEF TakeRow
      <3> QED
        BY <1>f, <3>1
    <2>2. row = table.rows[fetched] /\ row # <<>>
      BY <1>0, <2>1, AgreesEqual, SMTT(20) DEF TypeOK, PrefixInv
    <2>3. /\ Agrees(rows', table.rows) /\ rows' \in Seq(Seq(Cell)) /\ Len(rows') = Len(rows) + 1
      BY <1>0, <1>t, <2>1, <2>2, AgreesAppend DEF TypeOK, PrefixInv
    <2>4. used' \in 0..MaxInt64 /\ used' <= limits.MaxResultBytes
      BY <1>0, <2>1, <2>2, DefaultFacts, SMTT(20) DEF TypeOK, BudgetInv
    <2> QED
      BY <1>0, <1>t, <2>1, <2>3, <2>4
         DEF ReadInv, TypeOK, LimitsInv, PrefixInv, FetchInv, MarkInv, BudgetInv, OpenInv,
             BoundedFetch, PCs, Wide, VisibleColumns, Complete
  <1>13. CASE Err
    BY <1>0, <1>t, <1>13, CloseAndFailReadInv
       DEF Err, ReadInv, TypeOK, LimitsInv, PrefixInv, FetchInv, MarkInv, BudgetInv, OpenInv,
           BoundedFetch, PCs, Wide, VisibleColumns, Complete
  <1>14. CASE Close
    BY <1>0, <1>14
       DEF Close, ReadInv, TypeOK, LimitsInv, PrefixInv, FetchInv, MarkInv, BudgetInv, OpenInv,
           BoundedFetch, PCs, Wide, VisibleColumns, Complete
  <1>15. CASE Trim
    <2>1. rows' = rows /\ reason' = reason
      BY <1>0, <1>15 DEF Trim, PrefixInv, TypeOK
    <2> QED
      BY <1>0, <1>15, <2>1
         DEF Trim, ReadInv, TypeOK, LimitsInv, PrefixInv, FetchInv, MarkInv, BudgetInv, OpenInv,
             BoundedFetch, PCs, Wide, VisibleColumns, Complete
  <1>16. CASE UNCHANGED vars
    BY <1>0, <1>16
       DEF vars, ReadInv, TypeOK, LimitsInv, PrefixInv, FetchInv, MarkInv, BudgetInv, OpenInv,
           BoundedFetch, Wide, VisibleColumns, Complete
  <1> QED
    BY <1>1, <1>2, <1>3, <1>4, <1>5, <1>6, <1>7, <1>8, <1>9, <1>10, <1>11, <1>12, <1>13, <1>14,
       <1>15, <1>16 DEF Next


\* The sizes of the cells of a row, of the columns and of the rows are natural
\* numbers, and the accounts are their sums.
LEMMA CellSizesFacts ==
    ASSUME NEW r \in Seq(Cell)
    PROVE  /\ CellSizes(r) \in [1..Len(r) -> Nat]
           /\ \A i \in 1..Len(r) : CellSizes(r)[i] = r[i].encoded + CellOverhead + 1
  BY SizeFacts, DefaultFacts DEF CellSizes

LEMMA RowBytesFacts ==
    ASSUME NEW r \in Seq(Cell)
    PROVE  /\ RowBytes(r, 0) = RowOverhead + 2
           /\ \A n \in 0..Len(r) : RowBytes(r, n) \in Nat
           /\ \A n \in 0..Len(r) : n < Len(r) =>
                 RowBytes(r, n + 1) = RowBytes(r, n) + (r[n + 1].encoded + CellOverhead + 1)
           /\ \A m, n \in 0..Len(r) : m <= n => RowBytes(r, m) <= RowBytes(r, n)
  <1> DEFINE sum == Sums(CellSizes(r))
  <1>1. Len(r) \in Nat
    OBVIOUS
  <1>2. /\ sum \in [0..Len(r) -> Nat] /\ sum[0] = 0
        /\ \A n \in 1..Len(r) : sum[n] = sum[n - 1] + CellSizes(r)[n]
    BY <1>1, CellSizesFacts, SumsDefined
  <1> HIDE DEF sum
  <1>3. \A n \in 0..Len(r) : RowBytes(r, n) = RowOverhead + 2 + sum[n]
    BY DEF RowBytes, sum
  <1>4. ASSUME NEW n \in 0..Len(r), n < Len(r)
        PROVE  RowBytes(r, n + 1) = RowBytes(r, n) + (r[n + 1].encoded + CellOverhead + 1)
    <2>1. n + 1 \in 1..Len(r) /\ n + 1 \in 0..Len(r) /\ (n + 1) - 1 = n
      BY <1>1, <1>4
    <2>2. sum[n + 1] = sum[n] + CellSizes(r)[n + 1]
      BY <1>2, <2>1
    <2> DEFINE size == r[n + 1].encoded + CellOverhead + 1
    <2>3. CellSizes(r)[n + 1] = size /\ size \in Nat
      BY <2>1, CellSizesFacts
    <2> HIDE DEF size
    <2>4. RowBytes(r, n + 1) = RowBytes(r, n) + size
      BY <1>2, <1>3, <2>1, <2>2, <2>3 DEF RowOverhead
    <2> QED
      BY <2>4 DEF size
  <1>5. ASSUME NEW m \in 0..Len(r), NEW n \in 0..Len(r), m <= n
        PROVE  RowBytes(r, m) <= RowBytes(r, n)
    <2>1. sum[m] <= sum[n] /\ sum[m] \in Nat /\ sum[n] \in Nat
      BY <1>1, <1>2, <1>5, CellSizesFacts, SumsGrow DEF sum
    <2> QED
      BY <1>3, <2>1 DEF RowOverhead
  <1>6. RowBytes(r, 0) = RowOverhead + 2 /\ \A n \in 0..Len(r) : RowBytes(r, n) \in Nat
    BY <1>1, <1>2, <1>3 DEF RowOverhead
  <1> QED
    BY <1>4, <1>5, <1>6

LEMMA ColumnSizesFacts ==
    ASSUME TypeOK
    PROVE  /\ ColumnSizes \in [1..Len(table.columns) -> Nat]
           /\ \A i \in 1..Len(table.columns) : ColumnSizes[i] = table.columns[i] + ColumnOverhead
  <1>1. table.columns \in Seq(Column)
    BY ResultSetFacts DEF TypeOK
  <1> DEFINE s == table.columns
  <1>2. ASSUME NEW i \in 1..Len(s)
        PROVE  s[i] + ColumnOverhead \in Nat
    <2>1. s[i] \in Column
      BY <1>1
    <2> HIDE DEF s
    <2> QED
      BY <2>1, SizeFacts
  <1> HIDE DEF s
  <1>3. ColumnSizes = [i \in 1..Len(s) |-> s[i] + ColumnOverhead]
    BY DEF ColumnSizes, s
  <1>4. /\ ColumnSizes \in [1..Len(s) -> Nat]
        /\ \A i \in 1..Len(s) : ColumnSizes[i] = s[i] + ColumnOverhead
    BY <1>2, <1>3
  <1> QED
    BY <1>4 DEF s

LEMMA RowSizesFacts ==
    ASSUME TypeOK
    PROVE  /\ RowSizes \in [1..Len(table.rows) -> Nat]
           /\ \A i \in 1..Len(table.rows) : RowSizes[i] = RowBytes(table.rows[i], Len(table.rows[i]))
  <1>1. ASSUME NEW i \in 1..Len(table.rows)
        PROVE  RowBytes(table.rows[i], Len(table.rows[i])) \in Nat
    <2>1. table.rows[i] \in Seq(Cell)
      BY ResultSetFacts DEF TypeOK
    <2>2. Len(table.rows[i]) \in 0..Len(table.rows[i])
      BY <2>1
    <2> QED
      BY <2>1, <2>2, RowBytesFacts
  <1> QED
    BY <1>1 DEF RowSizes

\* What one more column and one more row cost, and that they cost no less than
\* nothing.
LEMMA ResultBytesFacts ==
    ASSUME TypeOK
    PROVE  /\ ResultBytes(0, 0) = BaseOverhead
           /\ \A m \in 0..Len(table.columns), n \in 0..Len(table.rows) : ResultBytes(m, n) \in Nat
           /\ \A m \in 0..Len(table.columns), n \in 0..Len(table.rows) : m < Len(table.columns) =>
                 ResultBytes(m + 1, n) = ResultBytes(m, n) + (table.columns[m + 1] + ColumnOverhead)
           /\ \A m \in 0..Len(table.columns), n \in 0..Len(table.rows) : n < Len(table.rows) =>
                 ResultBytes(m, n + 1)
                   = ResultBytes(m, n) + RowBytes(table.rows[n + 1], Len(table.rows[n + 1]))
           /\ \A m, k \in 0..Len(table.columns), n, l \in 0..Len(table.rows) :
                 m <= k /\ n <= l => ResultBytes(m, n) <= ResultBytes(k, l)
  <1> DEFINE M == Len(table.columns)
             N == Len(table.rows)
             cs == Sums(ColumnSizes)
             rs == Sums(RowSizes)
  <1>1. M \in Nat /\ N \in Nat
    BY ResultSetFacts DEF TypeOK
  <1> HIDE DEF M, N
  <1>2. /\ ColumnSizes \in [1..M -> Nat] /\ RowSizes \in [1..N -> Nat]
        /\ \A i \in 1..M : ColumnSizes[i] = table.columns[i] + ColumnOverhead
        /\ \A i \in 1..N : RowSizes[i] = RowBytes(table.rows[i], Len(table.rows[i]))
    BY ColumnSizesFacts, RowSizesFacts DEF M, N
  <1>3. /\ cs \in [0..M -> Nat] /\ cs[0] = 0
        /\ \A n \in 1..M : cs[n] = cs[n - 1] + ColumnSizes[n]
    BY <1>1, <1>2, SumsDefined
  <1>4. /\ rs \in [0..N -> Nat] /\ rs[0] = 0
        /\ \A n \in 1..N : rs[n] = rs[n - 1] + RowSizes[n]
    BY <1>1, <1>2, SumsDefined
  <1>5. /\ \A m, k \in 0..M : m <= k => cs[m] <= cs[k]
        /\ \A n, l \in 0..N : n <= l => rs[n] <= rs[l]
    BY <1>1, <1>2, SumsGrow
  <1> HIDE DEF cs, rs
  <1>6. \A m, n : ResultBytes(m, n) = BaseOverhead + cs[m] + rs[n]
    BY DEF ResultBytes, cs, rs
  <1>7. ASSUME NEW m \in 0..M, NEW n \in 0..N, m < M
        PROVE  ResultBytes(m + 1, n) = ResultBytes(m, n) + (table.columns[m + 1] + ColumnOverhead)
    <2>1. m + 1 \in 1..M /\ m + 1 \in 0..M /\ (m + 1) - 1 = m
      BY <1>1, <1>7
    <2>2. cs[m + 1] = cs[m] + ColumnSizes[m + 1] /\ cs[m] \in Nat /\ cs[m + 1] \in Nat /\ rs[n] \in Nat
      BY <1>3, <1>4, <2>1
    <2>3. ColumnSizes[m + 1] = table.columns[m + 1] + ColumnOverhead /\ ColumnSizes[m + 1] \in Nat
      BY <1>2, <2>1
    <2> QED
      BY <1>6, <2>2, <2>3 DEF BaseOverhead
  <1>8. ASSUME NEW m \in 0..M, NEW n \in 0..N, n < N
        PROVE  ResultBytes(m, n + 1)
                 = ResultBytes(m, n) + RowBytes(table.rows[n + 1], Len(table.rows[n + 1]))
    <2>1. n + 1 \in 1..N /\ n + 1 \in 0..N /\ (n + 1) - 1 = n
      BY <1>1, <1>8
    <2>2. rs[n + 1] = rs[n] + RowSizes[n + 1] /\ rs[n] \in Nat /\ rs[n + 1] \in Nat /\ cs[m] \in Nat
      BY <1>3, <1>4, <2>1
    <2>3. RowSizes[n + 1] = RowBytes(table.rows[n + 1], Len(table.rows[n + 1])) /\ RowSizes[n + 1] \in Nat
      BY <1>2, <2>1
    <2> QED
      BY <1>6, <2>2, <2>3 DEF BaseOverhead
  <1>9. ASSUME NEW m \in 0..M, NEW k \in 0..M, NEW n \in 0..N, NEW l \in 0..N, m <= k, n <= l
        PROVE  ResultBytes(m, n) <= ResultBytes(k, l)
    <2>1. cs[m] \in Nat /\ cs[k] \in Nat /\ rs[n] \in Nat /\ rs[l] \in Nat
      BY <1>3, <1>4
    <2>2. cs[m] <= cs[k] /\ rs[n] <= rs[l]
      BY <1>5, <1>9
    <2> QED
      BY <1>6, <2>1, <2>2 DEF BaseOverhead
  <1>10. /\ ResultBytes(0, 0) = BaseOverhead
         /\ \A m \in 0..M, n \in 0..N : ResultBytes(m, n) \in Nat
    BY <1>3, <1>4, <1>6 DEF BaseOverhead
  <1> QED
    BY <1>7, <1>8, <1>9, <1>10 DEF M, N

LEMMA ResultBytesGrow ==
    ASSUME TypeOK,
           NEW m \in 0..Len(table.columns), NEW k \in 0..Len(table.columns), m <= k,
           NEW n \in 0..Len(table.rows), NEW l \in 0..Len(table.rows), n <= l
    PROVE  /\ ResultBytes(m, n) <= ResultBytes(k, l)
           /\ ResultBytes(m, n) \in Nat /\ ResultBytes(k, l) \in Nat
  BY ResultBytesFacts

\* Once an executor has its limits and a statement its result, they stay.
LEMMA CallKept ==
    ASSUME [Next]_vars
    PROVE  /\ UNCHANGED <<limits, table>>
           /\ UNCHANGED <<ColumnSizes, RowSizes>>
           /\ \A m, n : ResultBytes(m, n)' = ResultBytes(m, n)
           /\ \A m, n : Fits(m, n)' = Fits(m, n)
           /\ \A r : CellsFit(r)' = CellsFit(r)
  <1>1. UNCHANGED <<limits, table>>
    BY DEF Next, Ask, AskTooMuch, CloseAndFail, ColumnTypes, ColumnTypesFail, TakeColumn,
           ColumnsTaken, NextRow, NextEnd, Break, Scan, ScanFail, TakeCell, TakeCellFail, TakeRow,
           Err, Close, CloseFail, Trim, vars, callVars
  <1>2. UNCHANGED <<ColumnSizes, RowSizes>>
    BY <1>1 DEF ColumnSizes, RowSizes
  <1>3. \A m, n : ResultBytes(m, n)' = ResultBytes(m, n)
    BY <1>2 DEF ResultBytes
  <1>4. \A m, n : Fits(m, n)' = Fits(m, n)
    BY <1>1, <1>2 DEF Fits, ResultBytes
  <1>5. \A r : CellsFit(r)' = CellsFit(r)
    BY <1>1 DEF CellsFit
  <1> QED
    BY <1>1, <1>2, <1>3, <1>4, <1>5

\* What ReadInv says of a state, as the steps below need it.
LEMMA ReadFacts ==
    ASSUME ReadInv
    PROVE  /\ TypeOK /\ LimitsInv /\ PrefixInv /\ FetchInv /\ MarkInv /\ BudgetInv
           /\ VisibleColumns \in Nat \ {0} /\ VisibleColumns <= Len(table.columns)
           /\ Wide \in BOOLEAN /\ (Wide => VisibleColumns = limits.MaxColumns)
           /\ ~Wide => VisibleColumns = Len(table.columns)
           /\ table.columns \in Seq(Column) /\ table.rows \in Seq(Seq(Cell))
           /\ Len(columns) \in 0..Len(table.columns) /\ Len(rows) \in 0..Len(table.rows)
           /\ Len(table.columns) \in Nat \ {0} /\ Len(table.rows) \in Nat
           /\ limits.MaxResultBytes \in 0..MaxInt64 /\ MaxInt64 \in Nat
           /\ used \in 0..MaxInt64 /\ rowUsed \in 0..MaxInt64
           /\ Len(columns) = Len(table.columns) <=> columns = table.columns
           /\ pc \in {"next", "scan", "cells", "err"} => columns = table.columns
  <1>1. /\ TypeOK /\ LimitsInv /\ PrefixInv /\ FetchInv /\ MarkInv /\ BudgetInv
    BY DEF ReadInv
  <1>2. /\ table.columns \in Seq(Column) /\ table.rows \in Seq(Seq(Cell))
        /\ Len(table.columns) \in Nat \ {0} /\ Len(table.rows) \in Nat
    BY <1>1, ResultSetFacts DEF TypeOK
  <1>3. Len(columns) \in 0..Len(table.columns) /\ Len(rows) \in 0..Len(table.rows)
    BY <1>1, <1>2 DEF TypeOK, PrefixInv, Agrees
  <1>4. /\ limits.MaxResultBytes \in 0..MaxInt64 /\ MaxInt64 \in Nat
        /\ used \in 0..MaxInt64 /\ rowUsed \in 0..MaxInt64
    BY <1>1, DefaultFacts DEF TypeOK
  <1>5. Len(columns) = Len(table.columns) <=> columns = table.columns
    BY <1>1, <1>2, AgreesEqual DEF TypeOK, PrefixInv
  <1>6. pc \in {"next", "scan", "cells", "err"} => columns = table.columns
    BY <1>1, <1>5 DEF FetchInv
  <1>7. /\ VisibleColumns \in Nat \ {0} /\ VisibleColumns <= Len(table.columns)
        /\ Wide \in BOOLEAN /\ (Wide => VisibleColumns = limits.MaxColumns)
        /\ ~Wide => VisibleColumns = Len(table.columns)
    BY <1>1, VisibleColumnsFacts DEF VisibleColumns
  <1> QED
    BY <1>1, <1>2, <1>3, <1>4, <1>5, <1>6, <1>7

\* Of the row that is being encoded.
LEMMA CellFacts ==
    ASSUME ReadInv, pc = "cells"
    PROVE  /\ fetched \in 1..Len(table.rows) /\ fetched = Len(rows) + 1
           /\ table.rows[fetched] \in Seq(Cell)
           /\ Len(table.rows[fetched]) = VisibleColumns
           /\ Agrees(row, table.rows[fetched]) /\ row \in Seq(Cell)
           /\ ~Wide /\ reason = "none" /\ columns = table.columns
  <1>1. fetched \in 0..Len(table.rows) /\ fetched = Len(rows) + 1
    BY ReadFacts DEF TypeOK, FetchInv
  <1>2. fetched \in 1..Len(table.rows)
    BY <1>1, ReadFacts
  <1>3. table.rows[fetched] \in Seq(Cell) /\ Len(table.rows[fetched]) = Len(table.columns)
    BY <1>2, ResultSetFacts, ReadFacts DEF TypeOK
  <1> QED
    BY <1>1, <1>2, <1>3, ReadFacts DEF TypeOK, PrefixInv, FetchInv, MarkInv

\* A cell that is taken, or would be if it fitted.
LEMMA NextCellFacts ==
    ASSUME ReadInv, pc = "cells", Len(row) < VisibleColumns
    PROVE  LET r == table.rows[fetched]
               cell == r[Len(row) + 1]
           IN /\ cell \in Cell /\ cell.encoded + CellOverhead + 1 \in 0..MaxInt64
              /\ Len(row) \in 0..Len(r) /\ Len(row) + 1 \in 1..Len(r)
  <1>1. table.rows[fetched] \in Seq(Cell) /\ Len(row) < Len(table.rows[fetched]) /\ Len(row) \in Nat
    BY CellFacts
  <1>2. Len(row) + 1 \in 1..Len(table.rows[fetched]) /\ Len(row) \in 0..Len(table.rows[fetched])
    BY <1>1
  <1>3. table.rows[fetched][Len(row) + 1] \in Cell
    BY <1>1, <1>2
  <1> QED
    BY <1>2, <1>3, SizeFacts

\* The step that takes a column, and the one that takes a row, keep the account.
LEMMA TakeColumnAccount ==
    ASSUME ReadInv, AccountInv, TakeColumn, ~UNCHANGED columns
    PROVE  used' = ResultBytes(Len(columns'), Len(rows))
  <1> DEFINE column == table.columns[Len(columns) + 1]
  <1>1. /\ pc = "columns" /\ Len(columns) < VisibleColumns
        /\ used' = used + (column + ColumnOverhead)
        /\ columns' = Append(columns, column)
    BY DEF TakeColumn
  <1>2. Len(columns') = Len(columns) + 1
    BY <1>1, ReadFacts DEF TypeOK
  <1>3. used = ResultBytes(Len(columns), Len(rows))
    BY <1>1 DEF AccountInv
  <1>4. Len(columns) \in 0..Len(table.columns) /\ Len(rows) \in 0..Len(table.rows)
        /\ Len(columns) < Len(table.columns) /\ TypeOK
    BY <1>1, ReadFacts
  <1>5. ResultBytes(Len(columns) + 1, Len(rows)) = ResultBytes(Len(columns), Len(rows)) + (column + ColumnOverhead)
    BY <1>4, ResultBytesFacts
  <1> QED
    BY <1>1, <1>2, <1>3, <1>5

LEMMA TakeRowAccount ==
    ASSUME ReadInv, AccountInv, TakeRow
    PROVE  used' = ResultBytes(Len(columns), Len(rows')) /\ row = table.rows[fetched]
  <1>1. /\ pc = "cells" /\ Len(row) = VisibleColumns
        /\ used' = used + rowUsed /\ rows' = Append(rows, row)
    BY DEF TakeRow
  <1>2. fetched = Len(rows) + 1 /\ row = table.rows[fetched] /\ Len(row) = Len(table.rows[fetched])
    BY <1>1, CellFacts, AgreesEqual
  <1>3. Len(rows') = Len(rows) + 1
    BY <1>1, ReadFacts DEF TypeOK
  <1>4. used = ResultBytes(Len(columns), Len(rows)) /\ rowUsed = RowBytes(table.rows[fetched], Len(row))
    BY <1>1 DEF AccountInv
  <1>5. Len(columns) \in 0..Len(table.columns) /\ Len(rows) \in 0..Len(table.rows) /\ TypeOK
    BY ReadFacts
  <1>6. Len(rows) < Len(table.rows)
    BY <1>1, <1>2, <1>5, CellFacts
  <1>7. ResultBytes(Len(columns), Len(rows) + 1)
          = ResultBytes(Len(columns), Len(rows))
              + RowBytes(table.rows[Len(rows) + 1], Len(table.rows[Len(rows) + 1]))
    BY <1>5, <1>6, ResultBytesFacts
  <1> QED
    BY <1>1, <1>2, <1>3, <1>4, <1>7

\* The accounts stay the sums of what has been taken.
LEMMA NextAccountInv ==
    ASSUME ReadInv, ReadInv', AccountInv, [Next]_vars
    PROVE  AccountInv'
  <1> USE DEF callVars, resultVars, rowVars, driverVars
  <1>k. /\ UNCHANGED <<limits, table>>
        /\ \A m, n : ResultBytes(m, n)' = ResultBytes(m, n)
    BY CallKept
  <1>1. CASE Ask \/ AskTooMuch
    BY <1>1 DEF Ask, AskTooMuch, AccountInv
  <1>2. CASE ColumnTypes
    <2>1. used' = BaseOverhead /\ columns' = <<>> /\ rows' = <<>> /\ pc' # "cells"
      BY <1>2, ReadFacts DEF ColumnTypes, FetchInv
    <2>2. ResultBytes(0, 0) = BaseOverhead
      BY ReadFacts, ResultBytesFacts
    <2> QED
      BY <1>k, <2>1, <2>2 DEF AccountInv, ResultBytes
  <1>3. CASE TakeColumn
    <2>1. pc = "columns" /\ pc' # "cells" /\ UNCHANGED rows
      BY <1>3 DEF TakeColumn
    <2>2. CASE UNCHANGED columns
      <3>1. UNCHANGED used
        <4>1. Append(columns, table.columns[Len(columns) + 1]) # columns
          BY ReadFacts DEF TypeOK
        <4> QED
          BY <1>3, <2>2, <4>1 DEF TakeColumn
      <3> QED
        BY <1>k, <2>1, <2>2, <3>1 DEF AccountInv, ResultBytes
    <2>3. CASE ~UNCHANGED columns
      <3>1. used' = ResultBytes(Len(columns'), Len(rows'))
        BY <1>3, <2>1, <2>3, TakeColumnAccount
      <3> QED
        BY <1>k, <2>1, <3>1 DEF AccountInv, ResultBytes
    <2> QED
      BY <2>2, <2>3
  <1>4. CASE TakeCell
    <2> DEFINE cell == table.rows[fetched][Len(row) + 1]
               bytes == cell.encoded + CellOverhead + 1
    <2>1. /\ pc = "cells" /\ UNCHANGED <<columns, rows, used, fetched>>
          /\ \/ UNCHANGED rowVars /\ pc' = "err"
             \/ rowUsed' = rowUsed + bytes /\ row' = Append(row, cell)
      BY <1>4 DEF TakeCell
    <2>2. pc \notin {"start", "types", "failed"} /\ used' = ResultBytes(Len(columns), Len(rows))'
      BY <1>k, <2>1 DEF AccountInv, ResultBytes
    <2>3. CASE pc' = "cells"
      <3>1. rowUsed' = rowUsed + bytes /\ row' = Append(row, cell) /\ Len(row) < VisibleColumns
        BY <1>4, <2>1, <2>3 DEF TakeCell
      <3>2. Len(row') = Len(row) + 1
        BY <2>1, <3>1, CellFacts
      <3>3. /\ table.rows[fetched] \in Seq(Cell)
            /\ Len(row) \in 0..Len(table.rows[fetched]) /\ Len(row) < Len(table.rows[fetched])
        BY <2>1, <3>1, CellFacts
      <3>4. RowBytes(table.rows[fetched], Len(row) + 1) = RowBytes(table.rows[fetched], Len(row)) + bytes
        BY <3>3, RowBytesFacts
      <3>5. rowUsed' = RowBytes(table.rows[fetched], Len(row'))
        BY <2>1, <3>1, <3>2, <3>4 DEF AccountInv
      <3> QED
        BY <1>k, <2>1, <2>2, <3>5 DEF AccountInv
    <2> QED
      BY <2>2, <2>3 DEF AccountInv
  <1>5. CASE TakeRow
    <2>1. pc' = "next" /\ UNCHANGED columns
      BY <1>5 DEF TakeRow
    <2>2. used' = ResultBytes(Len(columns'), Len(rows'))
      BY <1>5, <2>1, TakeRowAccount
    <2> QED
      BY <1>k, <2>1, <2>2 DEF AccountInv, ResultBytes
  <1>6. CASE Scan
    <2>1. /\ pc = "scan" /\ row' = <<>> /\ rowUsed' = RowOverhead + 2 /\ pc' = "cells"
          /\ UNCHANGED <<columns, rows, used, fetched>>
      BY <1>6 DEF Scan
    <2>2. table.rows'[fetched'] \in Seq(Cell)
      <3>1. fetched \in 0..Len(table.rows) /\ fetched = Len(rows) + 1
        BY <2>1, ReadFacts DEF TypeOK, FetchInv
      <3>2. fetched \in 1..Len(table.rows)
        BY <3>1, ReadFacts
      <3> QED
        BY <1>k, <2>1, <3>2, ReadFacts
    <2>3. rowUsed' = RowBytes(table.rows'[fetched'], Len(row'))
      BY <2>1, <2>2, RowBytesFacts
    <2> QED
      BY <1>k, <2>1, <2>3 DEF AccountInv, ResultBytes
  <1>7. CASE Trim
    <2>1. rows' = rows /\ UNCHANGED <<columns, used>> /\ pc = "trim" /\ pc' = "done"
      BY <1>7, ReadFacts DEF Trim, PrefixInv, TypeOK
    <2> QED
      BY <1>k, <2>1 DEF AccountInv, ResultBytes
  <1>8. CASE \/ ColumnTypesFail \/ ColumnsTaken \/ NextRow \/ NextEnd \/ Break
             \/ ScanFail \/ TakeCellFail \/ Err \/ Close \/ CloseFail \/ UNCHANGED vars
    <2>1. /\ UNCHANGED <<columns, rows, used>>
          /\ pc' = "cells" => UNCHANGED <<pc, row, rowUsed, fetched>>
          /\ pc' \in {"start", "types", "failed"} \/ pc \notin {"start", "types", "failed"}
      BY <1>8 DEF ColumnTypesFail, ColumnsTaken, NextRow, NextEnd, Break, ScanFail, TakeCellFail,
                  Err, Close, CloseFail, CloseAndFail, vars
    <2> QED
      BY <1>k, <2>1 DEF AccountInv, ResultBytes
  <1> QED
    BY <1>1, <1>2, <1>3, <1>4, <1>5, <1>6, <1>7, <1>8 DEF Next

\* What is taken fits.
LEMMA NextFitInv ==
    ASSUME ReadInv, ReadInv', AccountInv, FitInv, [Next]_vars
    PROVE  FitInv'
  <1> USE DEF callVars, resultVars, rowVars, driverVars, Ending
  <1>k. /\ UNCHANGED <<limits, table>>
        /\ \A r : CellsFit(r)' = CellsFit(r)
    BY CallKept
  <1>1. CASE TakeCell
    <2> DEFINE cell == table.rows[fetched][Len(row) + 1]
    <2>0. /\ pc = "cells" /\ UNCHANGED <<limits, columns, rows, used>> /\ Len(row) < VisibleColumns
          /\ \/ UNCHANGED rowVars /\ pc' = "err"
             \/ row' = Append(row, cell) /\ ~(cell.source > limits.MaxCellBytes) /\ pc' = pc
      BY <1>1 DEF TakeCell
    <2>c. cell.source \in Nat /\ limits.MaxCellBytes \in Nat
      <3>1. cell \in Cell /\ TypeOK
        BY <2>0, NextCellFacts, ReadFacts
      <3> QED
        BY <3>1 DEF Cell, TypeOK
    <2>1. /\ pc = "cells" /\ UNCHANGED <<limits, columns, rows, used>> /\ Len(row) < VisibleColumns
          /\ \/ UNCHANGED rowVars /\ pc' = "err"
             \/ row' = Append(row, cell) /\ cell.source <= limits.MaxCellBytes /\ pc' = pc
      <3> HIDE DEF cell
      <3> QED
        BY <2>0, <2>c
    <2>2. used' <= limits'.MaxResultBytes
      BY <2>1, ReadFacts DEF BudgetInv
    <2>3. CASE pc' = "cells"
      <3>1. row \in Seq(Cell) /\ CellsFit(row)
        BY <2>1, CellFacts DEF FitInv
      <3>2. row' = Append(row, cell) /\ cell.source <= limits.MaxCellBytes
        BY <2>1, <2>3
      <3> HIDE DEF cell
      <3>3. \A i \in 1..Len(row') : 
              (i = Len(row) + 1 /\ row'[i] = cell) \/ (i \in 1..Len(row) /\ row'[i] = row[i])
        BY <3>1, <3>2
      <3>4. CellsFit(row')
        BY <3>1, <3>2, <3>3 DEF CellsFit
      <3> QED
        BY <1>k, <2>1, <2>2, <2>3, <3>4 DEF FitInv, CellsFit
    <2> QED
      BY <1>k, <2>1, <2>2, <2>3 DEF FitInv, CellsFit
  <1>2. CASE TakeRow
    <2>1. row = table.rows[fetched] /\ pc = "cells" /\ rows' = Append(rows, row) /\ pc' = "next"
      BY <1>2, TakeRowAccount DEF TakeRow
    <2>2. CellsFit(row) /\ \A i \in 1..Len(rows) : CellsFit(rows[i])
      BY <2>1 DEF FitInv
    <2>3. rows \in Seq(Seq(Cell))
      BY ReadFacts DEF TypeOK
    <2>4. \A i \in 1..Len(rows') : rows'[i] = row \/ (i \in 1..Len(rows) /\ rows'[i] = rows[i])
      BY <2>1, <2>3
    <2>5. \A i \in 1..Len(rows') : CellsFit(rows'[i])
      BY <2>2, <2>4
    <2> QED
      BY <1>k, <2>1, <2>5 DEF FitInv, CellsFit
  <1>3. CASE Scan
    <2>1. row' = <<>> /\ UNCHANGED rows /\ pc' = "cells"
      BY <1>3 DEF Scan
    <2>2. CellsFit(row')
      BY <2>1 DEF CellsFit
    <2> QED
      BY <1>k, <2>1, <2>2 DEF FitInv, CellsFit
  <1>4. CASE ColumnTypes \/ TakeColumn \/ ColumnsTaken \/ NextRow \/ NextEnd
    <2>1. UNCHANGED rows /\ pc' # "cells"
      BY <1>4 DEF ColumnTypes, TakeColumn, ColumnsTaken, NextRow, NextEnd
    <2>2. pc' \in Ending => used' <= limits'.MaxResultBytes \/ columns' = <<>>
      <3>1. pc \in {"columns", "next"} => used <= limits.MaxResultBytes
        BY ReadFacts DEF BudgetInv
      <3>2. pc = "types" => columns = <<>>
        BY ReadFacts DEF FetchInv
      <3> QED
        BY <1>k, <1>4, <3>1, <3>2 DEF ColumnTypes, TakeColumn, ColumnsTaken, NextRow, NextEnd
    <2> QED
      BY <1>k, <2>1, <2>2 DEF FitInv, CellsFit
  <1>5. CASE Trim
    <2>1. rows' = rows /\ UNCHANGED <<columns, used>> /\ pc = "trim" /\ pc' = "done"
      BY <1>5, ReadFacts DEF Trim, PrefixInv, TypeOK
    <2> QED
      BY <1>k, <2>1 DEF FitInv, CellsFit
  <1>6. CASE \/ Ask \/ AskTooMuch \/ ColumnTypesFail \/ Break \/ ScanFail \/ TakeCellFail
             \/ Err \/ Close \/ CloseFail \/ UNCHANGED vars
    <2>1. /\ UNCHANGED <<columns, rows, used>>
          /\ pc' = "cells" => UNCHANGED <<pc, row>>
          /\ pc' \in Ending => pc \in Ending
      BY <1>6 DEF Ask, AskTooMuch, ColumnTypesFail, Break, ScanFail, TakeCellFail,
                  Err, Close, CloseFail, CloseAndFail, vars
    <2> QED
      BY <1>k, <2>1 DEF FitInv, CellsFit
  <1> QED
    BY <1>1, <1>2, <1>3, <1>4, <1>5, <1>6 DEF Next

\* A budget that one more column or row would pass is passed by it.
LEMMA TooManyColumns ==
    ASSUME ReadInv, AccountInv, pc = "columns", rows = <<>>, Len(columns) < VisibleColumns,
           used + (table.columns[Len(columns) + 1] + ColumnOverhead) > limits.MaxResultBytes
    PROVE  ~Fits(Len(columns) + 1, 0)
  <1>1. used = ResultBytes(Len(columns), 0)
    BY DEF AccountInv
  <1>2. Len(columns) \in 0..Len(table.columns) /\ Len(columns) < Len(table.columns) /\ TypeOK
        /\ 0 \in 0..Len(table.rows)
    BY ReadFacts
  <1>3. ResultBytes(Len(columns) + 1, 0)
          = ResultBytes(Len(columns), 0) + (table.columns[Len(columns) + 1] + ColumnOverhead)
    BY <1>2, ResultBytesFacts
  <1>4. limits.MaxResultBytes \in Nat /\ ResultBytes(Len(columns) + 1, 0) > limits.MaxResultBytes
    BY <1>1, <1>3, ReadFacts
  <1> QED
    BY <1>1, <1>2, <1>4, ResultBytesFacts DEF Fits

LEMMA RowTooLarge ==
    ASSUME ReadInv, AccountInv, pc = "cells", Len(row) < VisibleColumns,
           LET bytes == table.rows[fetched][Len(row) + 1].encoded + CellOverhead + 1
           IN used + (rowUsed + bytes) > limits.MaxResultBytes
    PROVE  ~Fits(Len(columns), Len(rows) + 1)
  <1> DEFINE r == table.rows[fetched]
             bytes == r[Len(row) + 1].encoded + CellOverhead + 1
  <1>1. /\ r \in Seq(Cell) /\ fetched = Len(rows) + 1 /\ fetched \in 1..Len(table.rows)
        /\ bytes \in Nat
        /\ Len(row) \in 0..Len(r) /\ Len(row) + 1 \in 0..Len(r) /\ Len(r) \in 0..Len(r)
        /\ Len(row) < Len(r)
    <2>1. /\ r \in Seq(Cell) /\ fetched = Len(rows) + 1 /\ fetched \in 1..Len(table.rows)
          /\ Len(r) = VisibleColumns
      BY CellFacts
    <2>2. bytes \in 0..MaxInt64 /\ Len(row) \in 0..Len(r) /\ Len(row) + 1 \in 1..Len(r)
      BY NextCellFacts
    <2>3. MaxInt64 \in Nat /\ Len(r) \in Nat
      BY <2>1, ReadFacts
    <2> HIDE DEF r, bytes
    <2> QED
      BY <2>1, <2>2, <2>3
  <1>2. used = ResultBytes(Len(columns), Len(rows)) /\ rowUsed = RowBytes(r, Len(row))
    BY DEF AccountInv
  <1>3. RowBytes(r, Len(row) + 1) = RowBytes(r, Len(row)) + bytes
    BY <1>1, RowBytesFacts
  <1>4. /\ RowBytes(r, Len(row) + 1) <= RowBytes(r, Len(r))
        /\ RowBytes(r, Len(row) + 1) \in Nat /\ RowBytes(r, Len(r)) \in Nat
    <2>1. Len(row) + 1 <= Len(r)
      BY <1>1
    <2> HIDE DEF r
    <2> QED
      BY <1>1, <2>1, RowBytesFacts
  <1>5. Len(columns) \in 0..Len(table.columns) /\ Len(rows) \in 0..Len(table.rows)
        /\ Len(rows) < Len(table.rows) /\ TypeOK
    BY <1>1, ReadFacts
  <1>6. ResultBytes(Len(columns), Len(rows) + 1) = ResultBytes(Len(columns), Len(rows)) + RowBytes(r, Len(r))
    BY <1>1, <1>5, ResultBytesFacts
  <1>7. used + (rowUsed + bytes) > limits.MaxResultBytes
    OBVIOUS
  <1> HIDE DEF r, bytes
  <1>9. limits.MaxResultBytes \in Nat /\ used \in Nat /\ rowUsed \in Nat
    BY ReadFacts
  <1>8. ResultBytes(Len(columns), Len(rows) + 1) > limits.MaxResultBytes
        /\ ResultBytes(Len(columns), Len(rows) + 1) \in Nat
    <2> DEFINE whole == RowBytes(r, Len(r))
               part == RowBytes(r, Len(row) + 1)
               total == ResultBytes(Len(columns), Len(rows) + 1)
    <2>1. part = rowUsed + bytes /\ part <= whole /\ part \in Nat /\ whole \in Nat
      BY <1>2, <1>3, <1>4
    <2>2. total = used + whole
      BY <1>2, <1>6
    <2> HIDE DEF whole, part, total
    <2>3. bytes \in Nat
      BY <1>1
    <2>4. \A w, b, u, k, max \in Nat : k + b <= w /\ u + (k + b) > max => u + w > max /\ u + w \in Nat
      OBVIOUS
    <2>5. rowUsed + bytes <= whole
      BY <2>1
    <2>6. used + whole > limits.MaxResultBytes /\ used + whole \in Nat
      BY <1>7, <1>9, <2>1, <2>3, <2>4, <2>5, Zenon
    <2> QED
      BY <2>2, <2>6, Zenon DEF total
  <1> QED
    BY <1>8, <1>9 DEF Fits

\* The reason a column or a row is left out for is the one that is told.
LEMMA NextStopInv ==
    ASSUME ReadInv, ReadInv', AccountInv, FitInv, StopInv, [Next]_vars
    PROVE  StopInv'
  <1> USE DEF callVars, resultVars, rowVars, driverVars, Ending
  <1>k. /\ UNCHANGED <<limits, table>>
        /\ \A m, n : Fits(m, n)' = Fits(m, n)
        /\ \A r : CellsFit(r)' = CellsFit(r)
    BY CallKept
  <1>u. /\ UNCHANGED <<ColumnSizes, RowSizes>>
        /\ UNCHANGED <<Wide, VisibleColumns>>
    BY CallKept DEF Wide, VisibleColumns
  <1> DEFINE Same == UNCHANGED <<limits, limit, table, columns, rows, reason>>
  <1>s. Same => (Told' <=> Told)
    BY <1>u DEF Told, Fits, ResultBytes, CellsFit
  <1>1. CASE ColumnTypes
    <2>1. columns = <<>> /\ rows = <<>> /\ pc = "types" /\ UNCHANGED <<columns, rows>>
      BY <1>1, ReadFacts DEF ColumnTypes, FetchInv
    <2>2. CASE pc' = "close"
      <3>1. reason' = "max_result_bytes" /\ BaseOverhead > limits.MaxResultBytes
        BY <1>1, <2>2 DEF ColumnTypes
      <3>2. Len(columns) = 0 /\ 0 < VisibleColumns /\ 0 \in 0..Len(table.columns)
            /\ 1 \in 0..Len(table.columns) /\ 0 \in 0..Len(table.rows) /\ TypeOK
        BY <2>1, ReadFacts
      <3>3. ResultBytes(0, 0) <= ResultBytes(1, 0) /\ ResultBytes(1, 0) \in Nat
            /\ ResultBytes(0, 0) = BaseOverhead
        BY <3>2, ResultBytesFacts
      <3>4. limits.MaxResultBytes \in Nat /\ BaseOverhead \in Nat
        BY ReadFacts DEF BaseOverhead
      <3>5. ~Fits(Len(columns) + 1, 0)
        BY <3>1, <3>2, <3>3, <3>4 DEF Fits
      <3>6. Told'
        BY <1>k, <1>u, <2>1, <3>1, <3>2, <3>5 DEF Told, Fits, ResultBytes
      <3> QED
        BY <2>1, <3>1, <3>6 DEF StopInv
    <2>3. CASE pc' # "close"
      <3>1. pc' = "columns"
        BY <1>1, <2>3 DEF ColumnTypes
      <3> QED
        BY <2>1, <3>1 DEF StopInv
    <2> QED
      BY <2>2, <2>3
  <1>2. CASE TakeColumn
    <2> DEFINE column == table.columns[Len(columns) + 1]
               bytes == column + ColumnOverhead
    <2>1. pc = "columns" /\ Len(columns) < VisibleColumns /\ UNCHANGED rows /\ rows = <<>>
          /\ reason \in {"none", "max_columns"}
      BY <1>2, ReadFacts DEF TakeColumn, FetchInv, MarkInv
    <2>2. CASE Exceeds(used, bytes)
      <3>1. reason' = "max_result_bytes" /\ pc' = "close" /\ UNCHANGED columns
        BY <1>2, <2>1, <2>2 DEF TakeColumn, Mark
      <3>2. used + bytes > limits.MaxResultBytes
        <4>1. column \in Column
          <5>1. Len(columns) + 1 \in 1..Len(table.columns)
            BY <2>1, ReadFacts
          <5> QED
            BY <5>1, ReadFacts
        <4>2. bytes \in 0..MaxInt64
          BY <4>1, SizeFacts
        <4> QED
          BY <2>2, <4>2, ExceedsFacts, ReadFacts
      <3>3. ~Fits(Len(columns) + 1, 0)
        BY <2>1, <3>2, TooManyColumns
      <3>4. Told'
        BY <1>k, <1>u, <2>1, <3>1, <3>3 DEF Told, Fits, ResultBytes
      <3> QED
        BY <2>1, <3>1, <3>4 DEF StopInv
    <2>3. CASE ~Exceeds(used, bytes)
      <3>1. pc' = pc
        BY <1>2, <2>3 DEF TakeColumn
      <3> QED
        BY <2>1, <3>1 DEF StopInv
    <2> QED
      BY <2>2, <2>3
  <1>3. CASE ColumnsTaken
    <2>1. pc = "columns" /\ Len(columns) = VisibleColumns /\ UNCHANGED <<columns, rows, reason>>
          /\ pc' = IF Wide THEN "close" ELSE "next"
      BY <1>3 DEF ColumnsTaken
    <2>2. CASE Wide
      <3>1. reason' = "max_columns" /\ Len(columns) = limits.MaxColumns
        BY <2>1, <2>2, ReadFacts DEF MarkInv
      <3>2. Told'
        BY <1>k, <1>u, <2>1, <2>2, <3>1 DEF Told
      <3> QED
        BY <1>k, <2>1, <3>1, <3>2 DEF StopInv
    <2>3. CASE ~Wide
      BY <1>k, <2>1, <2>3 DEF StopInv
    <2> QED
      BY <2>2, <2>3
  <1>4. CASE NextRow
    <2>1. /\ pc = "next" /\ UNCHANGED <<columns, rows, limit>> /\ reason = "none"
          /\ columns = table.columns /\ fetched = Len(rows) /\ fetched < Len(table.rows)
      BY <1>4, ReadFacts DEF NextRow, FetchInv, MarkInv
    <2>2. CASE Len(rows) >= limit
      <3>1. reason' = "max_rows" /\ pc' = "err"
        BY <1>4, <2>1, <2>2 DEF NextRow, Mark
      <3>2. Len(rows) = limit
        BY <2>2, ReadFacts DEF PrefixInv, TypeOK
      <3>3. Told'
        BY <1>k, <2>1, <3>1, <3>2 DEF Told
      <3> QED
        BY <1>k, <2>1, <3>1, <3>3 DEF StopInv
    <2>3. CASE ~(Len(rows) >= limit)
      <3>1. pc' = "scan"
        BY <1>4, <2>3 DEF NextRow
      <3> QED
        BY <1>k, <2>1, <3>1 DEF StopInv
    <2> QED
      BY <2>2, <2>3
  <1>5. CASE NextEnd
    <2>1. pc = "next" /\ UNCHANGED <<columns, rows, reason>> /\ reason = "none"
      BY <1>5, ReadFacts DEF NextEnd, MarkInv
    <2>2. Told'
      BY <2>1 DEF Told
    <2> QED
      BY <1>k, <2>1, <2>2 DEF StopInv
  <1>6. CASE TakeCell
    <2> DEFINE cell == table.rows[fetched][Len(row) + 1]
               bytes == cell.encoded + CellOverhead + 1
    <2>1. /\ pc = "cells" /\ Len(row) < VisibleColumns /\ UNCHANGED <<columns, rows>>
          /\ fetched = Len(rows) + 1 /\ columns = table.columns /\ reason = "none"
          /\ Len(columns) = VisibleColumns
      BY <1>6, CellFacts, ReadFacts DEF TakeCell
    <2>2. /\ cell \in Cell /\ bytes \in 0..MaxInt64
          /\ Len(row) + 1 \in 1..Len(table.rows[fetched])
      BY <2>1, NextCellFacts
    <2>3. CASE cell.source > limits.MaxCellBytes
      <3>1. reason' = "max_cell_bytes" /\ pc' = "err"
        BY <1>6, <2>1, <2>3 DEF TakeCell, Mark
      <3>2. ~CellsFit(table.rows[fetched])
        <4>1. cell.source \in Nat /\ limits.MaxCellBytes \in Nat
          BY <2>2, ReadFacts DEF Cell, TypeOK
        <4>2. ~(cell.source <= limits.MaxCellBytes)
          BY <2>3, <4>1
        <4> QED
          BY <2>2, <4>2 DEF CellsFit
      <3>3. Told'
        BY <1>k, <2>1, <3>1, <3>2 DEF Told, CellsFit
      <3> QED
        BY <1>k, <2>1, <3>1, <3>3 DEF StopInv
    <2>4. CASE ~(cell.source > limits.MaxCellBytes) /\ Exceeds(used, Add(rowUsed, bytes))
      <3>1. reason' = "max_result_bytes" /\ pc' = "err"
        BY <1>6, <2>1, <2>4 DEF TakeCell, Mark
      <3>2. used + (rowUsed + bytes) > limits.MaxResultBytes
        BY <2>2, <2>4, ExceedsSumFacts, ReadFacts
      <3>3. ~Fits(Len(columns), Len(rows) + 1)
        BY <2>1, <3>2, RowTooLarge
      <3>4. ~(Len(columns) < VisibleColumns)
        BY <2>1, ReadFacts
      <3>5. Told'
        BY <1>k, <1>u, <2>1, <3>1, <3>3, <3>4 DEF Told, Fits, ResultBytes
      <3> QED
        BY <1>k, <2>1, <3>1, <3>5 DEF StopInv
    <2>5. CASE ~(cell.source > limits.MaxCellBytes) /\ ~Exceeds(used, Add(rowUsed, bytes))
      <3>1. pc' = "cells"
        BY <1>6, <2>1, <2>5 DEF TakeCell
      <3> QED
        BY <1>k, <2>1, <3>1 DEF StopInv
    <2> QED
      BY <2>3, <2>4, <2>5
  <1>7. CASE TakeRow
    <2>1. columns = table.columns /\ UNCHANGED columns /\ pc' = "next"
      BY <1>7, ReadFacts DEF TakeRow
    <2> QED
      BY <1>k, <2>1 DEF StopInv
  <1>8. CASE Trim
    <2>1. Same /\ pc = "trim"
      BY <1>8, ReadFacts DEF Trim, PrefixInv, TypeOK
    <2> QED
      BY <1>s, <2>1 DEF StopInv
  <1>9. CASE Ask \/ AskTooMuch \/ ColumnTypesFail \/ ScanFail \/ TakeCellFail \/ CloseFail
    <2>1. UNCHANGED <<columns, rows>> /\ pc' \notin Ending
      BY <1>9 DEF Ask, AskTooMuch, ColumnTypesFail, ScanFail, TakeCellFail, CloseFail, CloseAndFail
    <2> QED
      BY <1>k, <2>1 DEF StopInv
  <1>10. CASE Break \/ Scan \/ Err \/ Close \/ UNCHANGED vars
    <2>1. Same /\ (pc' \in Ending => pc \in Ending)
      BY <1>10 DEF Break, Scan, Err, Close, CloseAndFail, vars
    <2> QED
      BY <1>s, <2>1 DEF StopInv
  <1> QED
    BY <1>1, <1>2, <1>3, <1>4, <1>5, <1>6, <1>7, <1>8, <1>9, <1>10 DEF Next

\* The inductive invariant.
LEMMA InitInv == Init => IInv
  <1> SUFFICES ASSUME Init PROVE IInv
    OBVIOUS
  <1>1. ReadInv
    BY InitReadInv
  <1>2. pc = "start" /\ columns = <<>> /\ rows = <<>>
    BY DEF Init
  <1> QED
    BY <1>1, <1>2 DEF IInv, AccountInv, FitInv, StopInv, Ending

LEMMA NextInv == IInv /\ [Next]_vars => IInv'
  <1> SUFFICES ASSUME IInv, [Next]_vars PROVE IInv'
    OBVIOUS
  <1>1. ReadInv /\ AccountInv /\ FitInv /\ StopInv
    BY DEF IInv
  <1>2. ReadInv'
    BY <1>1, NextReadInv
  <1> QED
    BY <1>1, <1>2, NextAccountInv, NextFitInv, NextStopInv DEF IInv

\* A prefix is the longest if its length is allowed and no longer one is.
LEMMA LongestIs ==
    ASSUME NEW S, NEW s \in Seq(S), NEW t \in Seq(S), Agrees(s, t),
           NEW lengths, lengths \subseteq Nat,
           Len(s) \in {0} \cup lengths, \A n \in lengths : n <= Len(s)
    PROVE  s = Longest(t, lengths)
  <1> DEFINE L == {0} \cup lengths
             Greatest(x) == x \in L /\ \A y \in L : x >= y
  <1>1. Greatest(Len(s)) /\ \A x : Greatest(x) => x \in Nat
    <2>1. Len(s) \in Nat /\ L \subseteq Nat /\ Len(s) \in L
      OBVIOUS
    <2>2. ASSUME NEW y \in L PROVE Len(s) >= y
      BY <2>1
    <2> HIDE DEF L
    <2> QED
      BY <2>1, <2>2
  <1>2. \A x : Greatest(x) => x = Len(s)
    <2> SUFFICES ASSUME NEW x, Greatest(x) PROVE x = Len(s)
      OBVIOUS
    <2>1. x >= Len(s) /\ Len(s) >= x /\ x \in Nat
      BY <1>1
    <2> QED
      BY <2>1
  <1>3. Max(L) = CHOOSE x : Greatest(x)
    BY Zenon DEF Max
  <1> HIDE DEF Greatest
  <1>4. Max(L) = Len(s)
    BY <1>1, <1>2, <1>3, Zenon
  <1>5. s = SubSeq(t, 1, Len(s))
    BY DEF Agrees
  <1> QED
    BY <1>4, <1>5 DEF Longest

THEOREM Inductive == Spec => []IInv
  BY InitInv, NextInv, PTL DEF Spec

\* Types: used and rowUsed, the accounts of max_result_bytes, stay within int64
\* whatever the lengths of names and values, although scanRows adds before it
\* compares.
THEOREM TypeCorrect == Spec => []TypeOK
  BY Inductive, PTL DEF IInv, ReadInv

\* scanRows: an answer says that it is truncated exactly if a column or a row of
\* the result set is missing from it.
THEOREM TruncationTold == Spec => []TruncatedIffIncomplete
  <1>1. IInv => TruncatedIffIncomplete
    <2> SUFFICES ASSUME IInv PROVE TruncatedIffIncomplete
      OBVIOUS
    <2>1. /\ table.columns \in Seq(Column) /\ columns \in Seq(Column) /\ Agrees(columns, table.columns)
          /\ table.rows \in Seq(Seq(Cell)) /\ rows \in Seq(Seq(Cell)) /\ Agrees(rows, table.rows)
      BY ResultSetFacts DEF IInv, ReadInv, TypeOK, PrefixInv
    <2>2. Complete <=> columns = table.columns /\ rows = table.rows
      BY <2>1, AgreesEqual DEF Complete
    <2> QED
      BY <2>2 DEF IInv, ReadInv, MarkInv, TruncatedIffIncomplete
  <1> QED
    BY <1>1, Inductive, PTL

\* scanRows returns with the rows closed on each of its paths.
THEOREM ConnectionFreed == Spec => []RowsClosed
  <1>1. IInv => RowsClosed
    BY DEF IInv, ReadInv, OpenInv, RowsClosed
  <1> QED
    BY <1>1, Inductive, PTL

\* The driver is never asked for more than one row that is not returned.
THEOREM LookAhead == Spec => []BoundedFetch
  <1>1. IInv => BoundedFetch
    BY DEF IInv, ReadInv, FetchInv
  <1> QED
    BY <1>1, Inductive, PTL

\* scanRows, at its end: what it leaves out would pass a limit.
LEMMA LongestColumns ==
    ASSUME IInv, pc = "done"
    PROVE  columns = Longest(table.columns,
                             {m \in 1..Len(table.columns) : m <= limits.MaxColumns /\ Fits(m, 0)})
  <1> DEFINE good == {m \in 1..Len(table.columns) : m <= limits.MaxColumns /\ Fits(m, 0)}
  <1>1. /\ ReadInv /\ AccountInv /\ FitInv /\ StopInv /\ TypeOK
        /\ Len(columns) \in 0..Len(table.columns) /\ Len(rows) \in 0..Len(table.rows)
        /\ limits.MaxColumns \in Nat /\ limits.MaxResultBytes \in Nat
        /\ VisibleColumns \in Nat /\ Len(columns) <= VisibleColumns /\ VisibleColumns <= limits.MaxColumns
        /\ VisibleColumns = IF Wide THEN limits.MaxColumns ELSE Len(table.columns)
    BY ReadFacts, VisibleColumnsFacts DEF IInv, ReadInv, TypeOK, PrefixInv, VisibleColumns
  <1>2. Len(columns) \in {0} \cup good
    <2> SUFFICES ASSUME Len(columns) # 0 PROVE Len(columns) \in good
      OBVIOUS
    <2>1. Len(columns) \in 1..Len(table.columns) /\ Len(columns) <= limits.MaxColumns /\ columns # <<>>
      BY <1>1
    <2>2. used <= limits.MaxResultBytes /\ used = ResultBytes(Len(columns), Len(rows))
      BY <1>1, <2>1 DEF AccountInv, FitInv, Ending
    <2>3. /\ ResultBytes(Len(columns), 0) <= ResultBytes(Len(columns), Len(rows))
          /\ ResultBytes(Len(columns), 0) \in Nat /\ ResultBytes(Len(columns), Len(rows)) \in Nat
      <3>1. Len(columns) <= Len(columns) /\ 0 <= Len(rows) /\ 0 \in 0..Len(table.rows)
        BY <1>1
      <3> QED
        BY <1>1, <3>1, ResultBytesGrow
    <2>4. Fits(Len(columns), 0)
      BY <1>1, <2>2, <2>3 DEF Fits
    <2> QED
      BY <2>1, <2>4
  <1>3. ASSUME NEW m \in good
        PROVE  m <= Len(columns)
    <2> SUFFICES ASSUME ~(m <= Len(columns)) PROVE FALSE
      OBVIOUS
    <2>1. m \in 1..Len(table.columns) /\ m <= limits.MaxColumns /\ Fits(m, 0)
      OBVIOUS
    <2>2. Len(columns) < m /\ Len(columns) < Len(table.columns) /\ Len(columns) < limits.MaxColumns
          /\ Len(columns) < VisibleColumns
      BY <1>1, <2>1
    <2>3. reason = "max_result_bytes"
      <3>1. reason # "none" /\ columns # table.columns /\ reason \in Reasons
        BY <1>1, <2>2, ReadFacts DEF MarkInv, Complete, TypeOK
      <3>2. Told /\ reason \notin {"max_rows", "max_cell_bytes"}
        BY <1>1, <3>1 DEF StopInv, Ending
      <3>3. reason # "max_columns"
        BY <1>1, <2>2, <3>2 DEF Told
      <3> QED
        BY <3>1, <3>2, <3>3 DEF Reasons
    <2>4. ~Fits(Len(columns) + 1, 0)
      BY <1>1, <2>2, <2>3 DEF StopInv, Told, Ending
    <2>5. /\ Len(columns) + 1 \in 0..Len(table.columns) /\ m \in 0..Len(table.columns)
          /\ Len(columns) + 1 <= m /\ 0 \in 0..Len(table.rows) /\ 0 <= 0
      BY <1>1, <2>1, <2>2
    <2>6. /\ ResultBytes(Len(columns) + 1, 0) <= ResultBytes(m, 0)
          /\ ResultBytes(Len(columns) + 1, 0) \in Nat /\ ResultBytes(m, 0) \in Nat
      BY <1>1, <2>5, ResultBytesGrow
    <2> QED
      BY <1>1, <2>1, <2>4, <2>6 DEF Fits
  <1>4. good \subseteq Nat
    BY <1>1
  <1>5. Agrees(columns, table.columns) /\ columns \in Seq(Column) /\ table.columns \in Seq(Column)
    BY <1>1, ReadFacts DEF PrefixInv, TypeOK
  <1> HIDE DEF good
  <1>6. columns = Longest(table.columns, good)
    BY <1>2, <1>3, <1>4, <1>5, LongestIs
  <1> QED
    BY <1>6 DEF good

LEMMA LongestRows ==
    ASSUME IInv, pc = "done"
    PROVE  rows = Longest(table.rows, {n \in 1..Len(table.rows) :
                                          /\ columns = table.columns
                                          /\ n <= limit
                                          /\ \A i \in 1..n : CellsFit(table.rows[i])
                                          /\ Fits(Len(columns), n)})
  <1> DEFINE good == {n \in 1..Len(table.rows) : /\ columns = table.columns
                                                 /\ n <= limit
                                                 /\ \A i \in 1..n : CellsFit(table.rows[i])
                                                 /\ Fits(Len(columns), n)}
  <1>1. /\ ReadInv /\ AccountInv /\ FitInv /\ StopInv /\ TypeOK
        /\ Len(columns) \in 0..Len(table.columns) /\ Len(rows) \in 0..Len(table.rows)
        /\ Len(table.columns) \in Nat \ {0} /\ Len(table.rows) \in Nat
        /\ limits.MaxColumns \in Nat /\ limits.MaxResultBytes \in Nat /\ limit \in Nat
        /\ VisibleColumns \in Nat /\ VisibleColumns <= Len(table.columns)
        /\ Wide => limits.MaxColumns < Len(table.columns)
        /\ Agrees(rows, table.rows) /\ Len(rows) <= limit
    BY ReadFacts, VisibleColumnsFacts DEF IInv, ReadInv, TypeOK, PrefixInv
  <1>2. Len(rows) \in {0} \cup good
    <2> SUFFICES ASSUME Len(rows) # 0 PROVE Len(rows) \in good
      OBVIOUS
    <2>1. Len(rows) \in 1..Len(table.rows) /\ rows # <<>>
      BY <1>1
    <2>2. columns = table.columns /\ columns # <<>>
      BY <1>1, <2>1 DEF StopInv
    <2>3. used <= limits.MaxResultBytes /\ used = ResultBytes(Len(columns), Len(rows))
      BY <1>1, <2>2 DEF AccountInv, FitInv, Ending
    <2>4. \A i \in 1..Len(rows) : CellsFit(table.rows[i])
      BY <1>1 DEF FitInv, Agrees
    <2> QED
      BY <1>1, <2>1, <2>2, <2>3, <2>4 DEF Fits
  <1>3. ASSUME NEW n \in good
        PROVE  n <= Len(rows)
    <2> SUFFICES ASSUME ~(n <= Len(rows)) PROVE FALSE
      OBVIOUS
    <2>1. /\ n \in 1..Len(table.rows) /\ columns = table.columns /\ n <= limit
          /\ \A i \in 1..n : CellsFit(table.rows[i])
          /\ Fits(Len(columns), n)
      OBVIOUS
    <2>2. /\ Len(rows) < Len(table.rows) /\ Len(rows) < limit /\ Len(rows) + 1 <= n
          /\ Len(rows) + 1 \in 1..n /\ Len(rows) + 1 \in 0..Len(table.rows) /\ n \in 0..Len(table.rows)
      BY <1>1, <2>1
    <2>3. reason # "none" /\ reason \in Reasons /\ Told
      BY <1>1, <2>2, ReadFacts, SMTT(20) DEF MarkInv, Complete, TypeOK, StopInv, Ending
    <2>4. reason # "max_rows" /\ reason # "max_cell_bytes" /\ reason # "max_columns"
      <3>1. reason # "max_rows"
        BY <1>1, <2>2, <2>3 DEF Told
      <3>2. reason # "max_cell_bytes"
        BY <2>1, <2>2, <2>3 DEF Told
      <3>3. reason # "max_columns"
        BY <1>1, <2>1, <2>3 DEF Told
      <3> QED
        BY <3>1, <3>2, <3>3
    <2>5. reason = "max_result_bytes" /\ ~(Len(columns) < VisibleColumns)
      BY <1>1, <2>1, <2>3, <2>4 DEF Reasons
    <2>6. ~Fits(Len(columns), Len(rows) + 1)
      BY <2>3, <2>5 DEF Told
    <2>7. /\ ResultBytes(Len(columns), Len(rows) + 1) <= ResultBytes(Len(columns), n)
          /\ ResultBytes(Len(columns), Len(rows) + 1) \in Nat /\ ResultBytes(Len(columns), n) \in Nat
      <3>1. Len(columns) <= Len(columns)
        BY <1>1
      <3> QED
        BY <1>1, <2>2, <3>1, ResultBytesGrow
    <2> QED
      BY <1>1, <2>1, <2>6, <2>7 DEF Fits
  <1>4. good \subseteq Nat
    BY <1>1
  <1>5. Agrees(rows, table.rows) /\ rows \in Seq(Seq(Cell)) /\ table.rows \in Seq(Seq(Cell))
    BY <1>1, ReadFacts DEF TypeOK
  <1> HIDE DEF good
  <1>6. rows = Longest(table.rows, good)
    BY <1>2, <1>3, <1>4, <1>5, LongestIs
  <1> QED
    BY <1>6 DEF good

\* scanRows and its limits: the answer is the longest prefix of the result that
\* max_columns, max_rows, max_cell_bytes and max_result_bytes allow, whatever the
\* sizes of names and values.
THEOREM LongestAnswer == Spec => []LongestPrefix
  <1>1. IInv => LongestPrefix
    BY LongestColumns, LongestRows DEF LongestPrefix
  <1> QED
    BY <1>1, Inductive, PTL

\* The reason an answer gives (markTruncated) is the limit that the column or the
\* row behind its last one would pass.
THEOREM ReasonIsTold == Spec => []ReasonTold
  <1>1. IInv => ReasonTold
    BY DEF IInv, StopInv, Ending, ReasonTold
  <1> QED
    BY <1>1, Inductive, PTL
=============================================================================
