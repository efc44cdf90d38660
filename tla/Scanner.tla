------------------------------- MODULE Scanner -------------------------------
(***************************************************************************)
(* The two scans of a statement's text that come before its parsing        *)
(* (internal/policy/scanner.go): for executable comments and optimizer     *)
(* hints, and for a built-in that MySQL would not take for one because it  *)
(* is not spelled together with its parenthesis. Each reads the text once  *)
(* with and once without the backslash as an escape, as NO_BACKSLASH_      *)
(* ESCAPES of a session's sql_mode decides.                                *)
(*                                                                         *)
(* A text is a sequence of characters; indices count from 1. Upper case,   *)
(* which the scan folds, is left out.                                      *)
(***************************************************************************)
EXTENDS Integers, SequencesExt, FiniteSetsExt

CONSTANTS
    Spaces,      \* isMySQLSpace, the newline among them
    Letters,     \* isMySQLIdentifierStart
    Digits,
    SymFn        \* whitespaceSensitiveBuiltinFunctions, names as sequences

VARIABLES
    text,        \* the statement
    escapes,     \* whether the backslash escapes in this reading
    at,          \* the next character
    state,       \* of scanUnsafeComment: "sql", an open quote, or a comment
    scan,        \* which scan it is, or how they ended
    found

scanVars == <<text, escapes, at, state, scan, found>>

Newline == "newline"
Quotes == {"quote", "double", "tick"}
NamePart == Letters \cup Digits
Marks == Quotes \cup {"#", "-", "/", "("}   \* what a unit that is no name begins with

\* isMySQLSpace and isMySQLIdentifierStart know none of the marks, a name has no
\* space in it, and "end" stands for the end of the text only.
ASSUME CharsAssumption ==
    /\ Spaces \cap (Marks \cup NamePart \cup {"end"}) = {}
    /\ NamePart \cap (Marks \cup {"end"}) = {}
    /\ SymFn \subseteq Seq(NamePart)

\* The k-th character of t, if there is one.
Char(t, k) == IF k <= Len(t) THEN t[k] ELSE "end"
InText == at <= Len(text)
Here == Char(text, at)
Ahead(k) == Char(text, at + k)

\* startsMySQLDashComment, at position k
StartsDash(t, k) == Char(t, k) = "-" /\ Char(t, k + 1) = "-" /\ Char(t, k + 2) \in Spaces \cup {"end"}

-----------------------------------------------------------------------------
(* Faults: definitions as a plausible mistake would have them. No            *)
(* specification uses them; each breaks a property when it replaces the      *)
(* definition it is named after.                                             *)

\* The second reading is left out.
ReadAgainNever ==
    /\ at > Len(text)
    /\ escapes' = TRUE
    /\ at' = 1 /\ state' = "sql"
    /\ scan' = IF scan = "unsafe" THEN "builtin" ELSE "clean"
    /\ UNCHANGED <<text, found>>

-----------------------------------------------------------------------------
ScanInit ==
    /\ text = <<>> /\ escapes = TRUE /\ at = 1
    /\ state = "sql" /\ scan = "idle" /\ found = "none"

StartScan(t) ==
    /\ scan = "idle"
    /\ text' = t
    /\ scan' = "unsafe"
    /\ UNCHANGED <<escapes, at, state, found>>

Found(what) ==
    /\ scan' = "found" /\ found' = what
    /\ UNCHANGED <<text, escapes, at, state>>

\* Reads on at k in state s.
Go(k, s) ==
    /\ at' = k /\ state' = s
    /\ UNCHANGED <<text, escapes, scan, found>>

-----------------------------------------------------------------------------
(* scanUnsafeComment, one character at a time.                               *)

InState(s) == scan = "unsafe" /\ InText /\ state = s

OpenQuote == InState("sql") /\ Here \in Quotes /\ Go(at + 1, Here)

OpenLine ==
    /\ InState("sql")
    /\ \/ Here = "#" /\ Go(at + 1, "line")
       \/ StartsDash(text, at) /\ Go(at + 2, "line")

OpensBlock == Here = "/" /\ Ahead(1) = "*"

UnsafeComment == InState("sql") /\ OpensBlock /\ Ahead(2) \in {"!", "+"} /\ Found("comment")

OpenBlock == InState("sql") /\ OpensBlock /\ Ahead(2) \notin {"!", "+"} /\ Go(at + 2, "block")

PlainSQL ==
    /\ InState("sql")
    /\ Here \notin Quotes \cup {"#"} /\ ~StartsDash(text, at) /\ ~OpensBlock
    /\ Go(at + 1, "sql")

InQuote == scan = "unsafe" /\ InText /\ state \in Quotes
EscapesHere == escapes /\ state # "tick" /\ Here = "backslash" /\ at < Len(text)

EscapedChar == InQuote /\ EscapesHere /\ Go(at + 2, state)
DoubledQuote == InQuote /\ Here = state /\ Ahead(1) = state /\ Go(at + 2, state)
CloseQuote == InQuote /\ Here = state /\ Ahead(1) # state /\ Go(at + 1, "sql")
QuotedChar == InQuote /\ ~EscapesHere /\ Here # state /\ Go(at + 1, state)

LineChar ==
    /\ InState("line")
    /\ Go(at + 1, IF Here \in {Newline, "return"} THEN "sql" ELSE "line")

BlockChar ==
    /\ InState("block")
    /\ IF Here = "*" /\ Ahead(1) = "/" THEN Go(at + 2, "sql") ELSE Go(at + 1, "block")

-----------------------------------------------------------------------------
(* scanAmbiguousBuiltinCall, one lexical unit at a time. The loops that skip *)
(* one are functions of the position: where the scan goes on.                *)

SkipLine(t, k) == Min({j \in k..(Len(t) + 1) : Char(t, j) \in {"end", Newline, "return"}})

SkipBlock(t, k) == Min({j + 2 : j \in {m \in k..(Len(t) - 1) : t[m] = "*" /\ t[m + 1] = "/"}} \cup {Len(t) + 1})

\* skipMySQLQuotedString and readBacktickIdentifier, from the opening quote at k;
\* one after the end of the text if the quote is open.
SkipQuoted(t, k, esc) ==
    LET skip[j \in 1..(Len(t) + 2)] ==
          IF j > Len(t) THEN Len(t) + 2
          ELSE IF esc /\ t[k] # "tick" /\ t[j] = "backslash" /\ j < Len(t) THEN skip[j + 2]
          ELSE IF t[j] # t[k] THEN skip[j + 1]
          ELSE IF Char(t, j + 1) = t[k] THEN skip[j + 2]
          ELSE j + 1
    IN skip[k + 1]

SkipTrivia(t, k) ==
    LET skip[j \in 1..(Len(t) + 1)] ==
          IF Char(t, j) \in Spaces THEN skip[j + 1]
          ELSE IF Char(t, j) = "#" THEN skip[SkipLine(t, j + 1)]
          ELSE IF StartsDash(t, j) THEN skip[SkipLine(t, j + 2)]
          ELSE IF Char(t, j) = "/" /\ Char(t, j + 1) = "*" THEN skip[SkipBlock(t, j + 2)]
          ELSE j
    IN skip[k]

SkipName(t, k) == Min({j \in k..(Len(t) + 1) : Char(t, j) \notin NamePart})

InBuiltin == scan = "builtin" /\ InText
Trivial == SkipTrivia(text, at) # at

Skip == InBuiltin /\ Trivial /\ Go(SkipTrivia(text, at), state)

SkipString ==
    /\ InBuiltin /\ Here \in {"quote", "double"}
    /\ Go(Min({SkipQuoted(text, at, escapes), Len(text) + 1}), state)

\* A doubled quote stands for one; no built-in has one in its name.
QuotedName ==
    /\ InBuiltin /\ Here = "tick"
    /\ LET next == SkipQuoted(text, at, escapes)
       IN IF next > Len(text) + 1 THEN Go(Len(text) + 1, state)
          ELSE IF SubSeq(text, at + 1, next - 2) \in SymFn /\ Char(text, SkipTrivia(text, next)) = "("
          THEN Found("builtin")
          ELSE Go(next, state)

Name ==
    /\ InBuiltin /\ Here \in Letters
    /\ LET next == SkipName(text, at)
           call == SkipTrivia(text, next)
       IN IF SubSeq(text, at, next - 1) \in SymFn /\ call # next /\ Char(text, call) = "("
          THEN Found("builtin")
          ELSE Go(next, state)

OtherChar ==
    /\ InBuiltin /\ ~Trivial /\ Here \notin Quotes \cup Letters
    /\ Go(at + 1, state)

-----------------------------------------------------------------------------
\* A reading has come to the end of the text.
ReadAgain ==
    /\ at > Len(text)
    /\ escapes' = ~escapes
    /\ at' = 1 /\ state' = "sql"
    /\ scan' = IF escapes THEN scan ELSE IF scan = "unsafe" THEN "builtin" ELSE "clean"
    /\ UNCHANGED <<text, found>>

EndOfText == scan \in {"unsafe", "builtin"} /\ ReadAgain

ScanStep ==
    \/ OpenQuote \/ OpenLine \/ UnsafeComment \/ OpenBlock \/ PlainSQL
    \/ EscapedChar \/ DoubledQuote \/ CloseQuote \/ QuotedChar \/ LineChar \/ BlockChar
    \/ Skip \/ SkipString \/ QuotedName \/ Name \/ OtherChar
    \/ EndOfText

-----------------------------------------------------------------------------
(* What the lexical units of a text are, without a scan: where each ends,    *)
(* and which positions begin one.                                            *)

\* Before j, and not before a, ends an odd run of positions of S.
OddRun(S, a, j) ==
    \E k \in a..(j - 1) :
       /\ k..(j - 1) \subseteq S
       /\ k = a \/ k - 1 \notin S
       /\ (j - k) % 2 = 1

\* The character before j is an escape: the last of an odd run of backslashes.
Escaped(t, i, j, esc) ==
    esc /\ t[i] # "tick" /\ OddRun({m \in DOMAIN t : t[m] = "backslash"}, i + 1, j)

\* The quotes like the opening one at i that are not escaped.
QuotesLike(t, i, esc) == {j \in (i + 1)..Len(t) : t[j] = t[i] /\ ~Escaped(t, i, j, esc)}

\* What is opened at i is closed by the last of an odd run of quotes.
Closings(t, i, esc) ==
    {j \in QuotesLike(t, i, esc) : Char(t, j + 1) # t[i] /\ OddRun(QuotesLike(t, i, esc), i + 1, j + 1)}

OpensLine(t, i) == t[i] = "#" \/ StartsDash(t, i)
OpensComment(t, i) == OpensLine(t, i) \/ (t[i] = "/" /\ Char(t, i + 1) = "*")
Separates(t, i) == t[i] \in Spaces \/ OpensComment(t, i)

UnitEnd(t, i, esc) ==
    LET ends == IF t[i] \in Quotes THEN Closings(t, i, esc)
                ELSE IF OpensLine(t, i) THEN {j \in i..Len(t) : Char(t, j + 1) \in {Newline, "return"}}
                ELSE IF OpensComment(t, i) THEN {j \in (i + 3)..Len(t) : t[j - 1] = "*" /\ t[j] = "/"}
                ELSE {i}
    IN Min(ends \cup {Len(t)})

Starts(t, esc) ==
    LET start[i \in 1..(Len(t) + 1)] ==
          i = 1 \/ \E j \in 1..(i - 1) : start[j] /\ UnitEnd(t, j, esc) = i - 1
    IN {i \in 1..Len(t) : start[i]}

\* An executable comment or a hint.
OpensUnsafe(t, i) == t[i] = "/" /\ Char(t, i + 1) = "*" /\ Char(t, i + 2) \in {"!", "+"}
HasUnsafeComment(t, esc) == \E i \in Starts(t, esc) : OpensUnsafe(t, i)

\* A name that began before i goes on there.
WithinName(t, starts, i) == \E h \in starts : h < i /\ t[h] \in Letters /\ \A m \in h..i : Char(t, m) \in NamePart

\* A name that is not in quotes takes the positions from i to j.
IsName(t, starts, i, j) ==
    /\ t[i] \in Letters
    /\ \A m \in i..j : t[m] \in NamePart
    /\ Char(t, j + 1) \notin NamePart
    /\ ~WithinName(t, starts, i)

\* After j nothing but spaces and comments come before a parenthesis.
CalledAfter(t, starts, j, apart) ==
    \E k \in starts :
       /\ t[k] = "(" /\ k > j /\ (apart => k > j + 1)
       /\ \A m \in starts : m > j /\ m < k => Separates(t, m)

\* A built-in of the class SYM_FN called apart from its parenthesis, or quoted.
NameCall(t, starts, i) ==
    \E j \in i..Len(t) :
       IsName(t, starts, i, j) /\ SubSeq(t, i, j) \in SymFn /\ CalledAfter(t, starts, j, TRUE)
QuotedCall(t, starts, i, esc) ==
    \E name \in SymFn :
       /\ t[i] = "tick" /\ i + Len(name) < Len(t)
       /\ SubSeq(t, i + 1, i + Len(name)) = name
       /\ i + Len(name) + 1 \in Closings(t, i, esc)
       /\ CalledAfter(t, starts, i + Len(name) + 1, FALSE)
HasAmbiguousCall(t, esc) ==
    \E i \in Starts(t, esc) : NameCall(t, Starts(t, esc), i) \/ QuotedCall(t, Starts(t, esc), i, esc)

\* The scans find an unsafe comment exactly if the lexical units of the text, in
\* one of the readings, have one, and else a call that MySQL and the parser may
\* take for different functions exactly if there is one.
ScansAgreeWithLexing ==
    scan \in {"clean", "found"} =>
       found = IF \E esc \in BOOLEAN : HasUnsafeComment(text, esc) THEN "comment"
               ELSE IF \E esc \in BOOLEAN : HasAmbiguousCall(text, esc) THEN "builtin"
               ELSE "none"
=============================================================================
