-------------------------- MODULE SchemaFilterInv --------------------------
(***************************************************************************)
(* The invariant of Match: its prefix of the pattern matches its prefix of *)
(* the name, and going back to the last star only loses no match, because  *)
(* a match that gave an earlier star more could as well give it to the     *)
(* last one.                                                               *)
(***************************************************************************)
EXTENDS SchemaFilter

\* The matches of the whole name.
Full ==
    {f \in [1..(Len(pattern) + 1) -> 1..(Len(name) + 1)] :
       /\ f[1] = 1 /\ f[Len(pattern) + 1] = Len(name) + 1
       /\ \A k \in 1..Len(pattern) : Fits(pattern, name, f, k)}

\* What has been consumed since the last star.
AfterStar == patternIndex - (starIndex + 1)

\* What has been consumed matches, up to the last star and altogether.
Sound ==
    /\ Validate(pattern) /\ result = FALSE
    /\ Reaches(pattern, name, patternIndex, nameIndex)
    /\ starIndex > 0 =>
          /\ pattern[starIndex] = "*" /\ starIndex < patternIndex
          /\ starNameIndex <= nameIndex
          /\ \E j \in 1..starNameIndex : Reaches(pattern, name, starIndex, j)

\* Every match, if there is one, agrees with what has been consumed since the
\* last star but for its distance from there, and one has that star take at
\* least what it has taken.
Complete ==
    /\ starIndex = 0 => \A f \in Full : f[patternIndex] = nameIndex
    /\ starIndex > 0 =>
          /\ nameIndex = starNameIndex + AfterStar
          /\ \A f \in Full : f[patternIndex] = f[starIndex + 1] + AfterStar
          /\ Full # {} => \E f \in Full : f[starIndex + 1] >= starNameIndex

SuffixComplete ==
    /\ nameIndex = Len(name) + 1
    /\ Full # {} => \E f \in Full : f[patternIndex] = Len(name) + 1

FilterInv ==
    /\ phase \in {"match", "suffix"} => Sound
    /\ phase = "match" => Complete
    /\ phase = "suffix" => SuffixComplete
    /\ MatchesWholeName
=============================================================================
