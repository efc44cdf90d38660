---------------------------- MODULE SchemaFilter ----------------------------
(***************************************************************************)
(* Which schemas an allow-list admits (internal/schemafilter): the loop of *)
(* Match, one action per iteration, and the LIKE pattern that a glob is    *)
(* translated to for MySQL.                                                *)
(*                                                                         *)
(* A name is a sequence of characters (runes). Indices count from 1, so    *)
(* that starIndex = 0 stands for Go's -1.                                  *)
(***************************************************************************)
EXTENDS Integers, SequencesExt

CONSTANTS
    Chars,          \* the characters of names and patterns
    MaxSchemaRunes  \* the longest name MySQL has, maxSchemaRunes

ASSUME MaxSchemaRunesAssumption == MaxSchemaRunes \in Nat

VARIABLES
    pattern, name,              \* the arguments of Match
    patternIndex, nameIndex,
    starIndex, starNameIndex,   \* the last star, and where its stretch of the name ends
    phase,                      \* where Match is
    result                      \* what it returns

filterVars == <<pattern, name, patternIndex, nameIndex, starIndex, starNameIndex, phase, result>>

Phases == {"idle", "match", "suffix", "done"}

Validate(p) == p # <<>> /\ Len(p) <= MaxSchemaRunes /\ "NUL" \notin {p[i] : i \in DOMAIN p}

-----------------------------------------------------------------------------
(* Faults: definitions as a plausible mistake would have them. No            *)
(* specification uses them; each breaks a property when it replaces the      *)
(* definition it is named after.                                             *)

\* The name is read on, instead of again from where the star's stretch now ends.
BacktrackForward ==
    /\ nameIndex' = nameIndex + 1
    /\ starNameIndex' = nameIndex + 1
    /\ patternIndex' = starIndex + 1
    /\ UNCHANGED <<pattern, name, starIndex, phase, result>>

\* The characters that LIKE gives a meaning are not escaped.
EscapedNever(c) == IF c = "*" THEN <<"%">> ELSE <<c>>

-----------------------------------------------------------------------------
FilterInit ==
    /\ pattern = <<>> /\ name = <<>>
    /\ patternIndex = 1 /\ nameIndex = 1
    /\ starIndex = 0 /\ starNameIndex = 0
    /\ phase = "idle"
    /\ result = FALSE

StartMatch(p, n) ==
    /\ phase \in {"idle", "done"}
    /\ pattern' = p /\ name' = n
    /\ patternIndex' = 1 /\ nameIndex' = 1
    /\ starIndex' = 0 /\ starNameIndex' = 0
    /\ phase' = IF Validate(p) THEN "match" ELSE "done"
    /\ result' = FALSE

AtStar == patternIndex <= Len(pattern) /\ pattern[patternIndex] = "*"
AtChar == patternIndex <= Len(pattern) /\ ~AtStar /\ pattern[patternIndex] = name[nameIndex]
InName == phase = "match" /\ nameIndex <= Len(name)

\* A star takes nothing of the name at first.
TakeStar ==
    /\ InName /\ AtStar
    /\ starIndex' = patternIndex
    /\ starNameIndex' = nameIndex
    /\ patternIndex' = patternIndex + 1
    /\ UNCHANGED <<pattern, name, nameIndex, phase, result>>

TakeChar ==
    /\ InName /\ AtChar
    /\ patternIndex' = patternIndex + 1
    /\ nameIndex' = nameIndex + 1
    /\ UNCHANGED <<pattern, name, starIndex, starNameIndex, phase, result>>

\* The last star takes one more character, and what follows it is tried again.
Backtrack ==
    /\ starNameIndex' = starNameIndex + 1
    /\ nameIndex' = starNameIndex + 1
    /\ patternIndex' = starIndex + 1
    /\ UNCHANGED <<pattern, name, starIndex, phase, result>>

Retry == InName /\ ~AtStar /\ ~AtChar /\ starIndex > 0 /\ Backtrack

Mismatch ==
    /\ InName /\ ~AtStar /\ ~AtChar /\ starIndex = 0
    /\ phase' = "done"
    /\ UNCHANGED <<pattern, name, patternIndex, nameIndex, starIndex, starNameIndex, result>>

NameEnds ==
    /\ phase = "match" /\ nameIndex > Len(name)
    /\ phase' = "suffix"
    /\ UNCHANGED <<pattern, name, patternIndex, nameIndex, starIndex, starNameIndex, result>>

SkipStar ==
    /\ phase = "suffix" /\ AtStar
    /\ patternIndex' = patternIndex + 1
    /\ UNCHANGED <<pattern, name, nameIndex, starIndex, starNameIndex, phase, result>>

PatternEnds ==
    /\ phase = "suffix" /\ ~AtStar
    /\ phase' = "done"
    /\ result' = (patternIndex = Len(pattern) + 1)
    /\ UNCHANGED <<pattern, name, patternIndex, nameIndex, starIndex, starNameIndex>>

MatchStep ==
    \/ TakeStar \/ TakeChar \/ Retry \/ Mismatch
    \/ NameEnds \/ SkipStar \/ PatternEnds

-----------------------------------------------------------------------------
\* ToSQLLike: '=' escapes what LIKE gives a meaning.
Escaped(c) ==
    CASE c = "*" -> <<"%">>
      [] c \in {"%", "_", "="} -> <<"=", c>>
      [] OTHER -> <<c>>

ToSQLLike(p) == FlattenSeq([i \in 1..Len(p) |-> Escaped(p[i])])

\* Where in n a match can begin with c, if it can go on at the positions next.
LikeOne(c, literally, n, next) ==
    IF c = "%" /\ ~literally THEN {j \in 1..(Len(n) + 1) : \E k \in next : j <= k}
    ELSE {j \in 1..Len(n) : j + 1 \in next /\ (n[j] = c \/ (c = "_" /\ ~literally))}

\* MySQL's "n LIKE like ESCAPE '='": rest[i] is where in n a match of like from i on
\* to both ends can begin.
Like(like, n) ==
    LET rest[i \in 1..(Len(like) + 1)] ==
          IF i > Len(like) THEN {Len(n) + 1}
          ELSE IF like[i] = "=" /\ i < Len(like) THEN LikeOne(like[i + 1], TRUE, n, rest[i + 2])
          ELSE LikeOne(like[i], FALSE, n, rest[i + 1])
    IN 1 \in rest[1]

FilterTypeOK ==
    /\ pattern \in Seq(Chars) /\ name \in Seq(Chars)
    /\ patternIndex \in 1..(Len(pattern) + 1)
    /\ nameIndex \in 1..(Len(name) + 1)
    /\ starIndex \in 0..Len(pattern)
    /\ starNameIndex \in (IF starIndex = 0 THEN 0 ELSE 1)..(Len(name) + 1)
    /\ phase \in Phases
    /\ result \in BOOLEAN

-----------------------------------------------------------------------------
(* What a glob means, without a loop: f[i] is the position in the name where *)
(* the i-th character of the pattern begins to match.                        *)

Fits(p, n, f, i) ==
    IF p[i] = "*" THEN f[i] <= f[i + 1]
    ELSE f[i] <= Len(n) /\ n[f[i]] = p[i] /\ f[i + 1] = f[i] + 1

\* The first i - 1 characters of p can match the first j - 1 of n.
Reaches(p, n, i, j) ==
    \E f \in [1..i -> 1..(Len(n) + 1)] :
       f[1] = 1 /\ f[i] = j /\ \A k \in 1..(i - 1) : Fits(p, n, f, k)

Matches(p, n) == Validate(p) /\ Reaches(p, n, Len(p) + 1, Len(n) + 1)

\* Match, which goes back to the last star only and never to an earlier one,
\* finds a match of the whole name exactly if there is one.
MatchesWholeName == phase = "done" => result = Matches(pattern, name)
=============================================================================
