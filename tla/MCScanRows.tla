----------------------------- MODULE MCScanRows -----------------------------
(* An instance of ScanRows for TLC. *)
EXTENDS ScanRowsInv, TLC

\* Results of one, two and three columns, of at most three, two and one rows.
MCResultSets ==
    LET small  == [source |-> 1, encoded |-> 30, supported |-> TRUE]
        medium == [source |-> 3, encoded |-> 200, supported |-> TRUE]
        heavy  == [source |-> 100000000, encoded |-> 199999900, supported |-> TRUE]
        odd    == [source |-> 0, encoded |-> 0, supported |-> FALSE]
        Rows(w) == [1..w -> {small, medium, heavy, odd}]
    IN UNION {[columns : {[i \in 1..w |-> 40]}, rows : UNION {[1..h -> Rows(w)] : h \in 0..(4 - w)}]
               : w \in 1..3}

\* No row limit, the default, each number of rows, and one that is too large.
MCRequests == -1..3

\* The largest int64 scaled down, a row that just fits, columns that do not, a
\* budget below the fixed allowance, the defaults, and limits that are refused.
MCConfigs ==
    LET Config(r, c, v, b) == [MaxRows |-> r, MaxColumns |-> c, MaxCellBytes |-> v, MaxResultBytes |-> b]
    IN {Config(1, 0, 100000000, 200000000),
        Config(3, 2, 3, 560),
        Config(2, 1, 2, 600),
        Config(2, 1, 0, 200),
        Config(2, 2, 0, 300),
        Config(2, 1, 2, 100),
        Config(0, 0, 0, 0),
        Config(-1, 0, 0, 0)}
=============================================================================
