------------------------------ MODULE ScannerInv ------------------------------
(* The inductive invariant of the two scans: where a scan is among the       *)
(* lexical units of the text, and what it has left behind.                   *)
EXTENDS Scanner

\* A unit begins at k, or the text has ended there.
Frontier(t, k, esc) == k \in Starts(t, esc) \cup {Len(t) + 1}

\* At j the quotes that were opened at i are still open, and the character there
\* stands for itself.
Fresh(t, i, j, esc) ==
    j <= Len(t) => ~Escaped(t, i, j, esc) /\ ~OddRun(QuotesLike(t, i, esc), i + 1, j)
InQuotes(t, i, j, esc) ==
    /\ j \in (i + 1)..(Len(t) + 1)
    /\ Fresh(t, i, j, esc)
    /\ \A m \in Closings(t, i, esc) : m >= j

InLine(t, i, j) ==
    /\ j \in (i + 1)..(Len(t) + 1)
    /\ \A m \in (i + 1)..(j - 1) : t[m] \notin {Newline, "return"}

OpensBlockAt(t, i) == t[i] = "/" /\ Char(t, i + 1) = "*"
InBlock(t, i, j) ==
    /\ j \in (i + 2)..(Len(t) + 1)
    /\ \A m \in (i + 3)..j : m <= Len(t) => ~(t[m - 1] = "*" /\ t[m] = "/")

\* No unit that begins before k is an unsafe comment, or an ambiguous call.
SafeBefore(t, k, esc) == \A i \in Starts(t, esc) : i < k => ~OpensUnsafe(t, i)
Ambiguous(t, i, esc) == NameCall(t, Starts(t, esc), i) \/ QuotedCall(t, Starts(t, esc), i, esc)
PlainBefore(t, k, esc) == \A i \in Starts(t, esc) : i < k => ~Ambiguous(t, i, esc)

-----------------------------------------------------------------------------
\* scanUnsafeComment is at the begin of a unit, or within the unit that began at i.
AtUnit == state = "sql" /\ Frontier(text, at, escapes) /\ SafeBefore(text, at, escapes)
WithinUnit(i) ==
    /\ SafeBefore(text, i + 1, escapes)
    /\ \/ text[i] \in Quotes /\ state = text[i] /\ InQuotes(text, i, at, escapes)
       \/ OpensLine(text, i) /\ state = "line" /\ InLine(text, i, at)
       \/ OpensBlockAt(text, i) /\ state = "block" /\ InBlock(text, i, at)

UnsafeScanInv == scan = "unsafe" => AtUnit \/ \E i \in Starts(text, escapes) : WithinUnit(i)

\* scanAmbiguousBuiltinCall is always at the begin of a unit, and never in a name.
BuiltinScanInv ==
    scan = "builtin" =>
       /\ Frontier(text, at, escapes) /\ PlainBefore(text, at, escapes)
       /\ ~WithinName(text, Starts(text, escapes), at)

\* What the readings have shown that are over.
SafeText == \A esc \in BOOLEAN : ~HasUnsafeComment(text, esc)
ReadingsInv ==
    /\ scan = "idle" => escapes /\ at = 1 /\ state = "sql"
    /\ scan = "unsafe" /\ ~escapes => ~HasUnsafeComment(text, TRUE)
    /\ scan \in {"builtin", "clean"} => SafeText
    /\ scan = "builtin" /\ ~escapes => ~HasAmbiguousCall(text, TRUE)
    /\ scan = "clean" => \A esc \in BOOLEAN : ~HasAmbiguousCall(text, esc)
    /\ scan = "found" =>
          \/ found = "comment" /\ ~SafeText
          \/ found = "builtin" /\ SafeText /\ \E esc \in BOOLEAN : HasAmbiguousCall(text, esc)

ScanTypeOK ==
    /\ text \in Seq(STRING \ {"end"})
    /\ escapes \in BOOLEAN
    /\ scan \in {"idle", "unsafe", "builtin", "clean", "found", "over"}
    /\ scan # "found" => found = "none"

ScanInv == ScanTypeOK /\ UnsafeScanInv /\ BuiltinScanInv /\ ReadingsInv
=============================================================================
