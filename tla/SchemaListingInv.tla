-------------------------- MODULE SchemaListingInv --------------------------
(***************************************************************************)
(* The invariant of a metadata call: what has been read of MySQL's rows is *)
(* the beginning of what may be listed, the list of the handler's loop is  *)
(* the beginning of the service's, and the patterns that have been tried   *)
(* on a schema do not match it.                                            *)
(***************************************************************************)
EXTENDS SchemaListing, SchemaFilterInv

\* s is the beginning of t.
Begins(s, t) == Len(s) <= Len(t) /\ \A k \in 1..Len(s) : s[k] = t[k]

\* Nothing has been read yet.
Unread == fetched = 0 /\ listed = <<>> /\ filtered = <<>>

\* What has been listed of the rows that have been read.
Reading ==
    /\ fetched <= Len(answer) /\ Len(listed) <= ServiceRows
    /\ op = "schemas" => listed = Admitted(answer)[fetched]
    /\ op # "schemas" => Begins(listed, answer) /\ Len(listed) = fetched

\* The service's list is complete, or as long as its bound.
Bounded ==
    /\ Begins(listed, Whole)
    /\ Len(listed) = IF Len(Whole) > ServiceRows THEN ServiceRows ELSE Len(Whole)

\* The service's list.
RowsInv ==
    /\ Len(answer) <= MaxInt
    /\ pc \in {"start", "identify", "table", "query"} => Unread
    /\ pc \in {"allows", "matching"} /\ op # "schemas" => Unread
    /\ pc \in {"allows", "matching"} /\ op = "schemas" => Bounded
    /\ pc = "rows" => Reading
    /\ pc \in {"err", "filter", "trim"} => Bounded
    /\ op = "schemas" => \A i \in 1..Len(listed) : Allowed(listed[i])

\* The handler's list: all that its loop has seen is allowed.
LoopInv ==
    /\ pc \in {"rows", "err"} => filtered = <<>>
    /\ pc = "filter" => Begins(filtered, listed) /\ Len(filtered) = fetched
    /\ pc \in {"allows", "matching"} /\ op = "schemas" =>
          /\ fetched \in 1..Len(listed) /\ subject = listed[fetched]
          /\ Begins(filtered, listed) /\ Len(filtered) = fetched - 1
    /\ pc = "trim" => filtered = listed

\* The loop over the patterns.
AllowsInv ==
    /\ pc \in {"allows", "matching"} =>
          /\ \A i \in 1..(IF pc = "matching" THEN tried - 1 ELSE tried) :
                ~Matches(filter.patterns[i], subject)
          /\ op # "schemas" => subject = schema
    /\ pc = "matching" =>
          tried > 0 /\ pattern = filter.patterns[tried] /\ name = subject
    /\ op # "schemas" /\ pc \in {"identify", "table"} => Allowed(schema)

IInv == RowsInv /\ LoopInv /\ AllowsInv /\ ListingExact
=============================================================================
