------------------------ MODULE SchemaListingProofs ------------------------
(***************************************************************************)
(* For every allow-list and every schema: types; that Match finds a match  *)
(* of the whole name exactly if there is one, and so does MySQL's LIKE of  *)
(* the pattern's translation; and that a list is exactly what the          *)
(* allow-list admits, up to its bound.                                     *)
(***************************************************************************)
EXTENDS SchemaListingInv, Induction, SequenceTheorems

\* A match of a beginning goes on with one more character of the pattern.
LEMMA ReachesOn ==
    ASSUME NEW p \in Seq(Chars), NEW n \in Seq(Chars),
           NEW i \in 1..Len(p), NEW j \in 1..(Len(n) + 1), NEW k \in 1..(Len(n) + 1),
           Reaches(p, n, i, j),
           IF p[i] = "*" THEN j <= k ELSE j <= Len(n) /\ n[j] = p[i] /\ k = j + 1
    PROVE  Reaches(p, n, i + 1, k)
  <1>1. PICK f \in [1..i -> 1..(Len(n) + 1)] :
            f[1] = 1 /\ f[i] = j /\ \A m \in 1..(i - 1) : Fits(p, n, f, m)
    BY DEF Reaches
  <1> DEFINE g == [m \in 1..(i + 1) |-> IF m = i + 1 THEN k ELSE f[m]]
  <1>2. g \in [1..(i + 1) -> 1..(Len(n) + 1)]
    OBVIOUS
  <1>3. g[1] = 1 /\ g[i + 1] = k /\ g[i] = j
    BY <1>1
  <1>4. ASSUME NEW m \in 1..i PROVE Fits(p, n, g, m)
    <2>1. CASE m = i
      BY <2>1, <1>3 DEF Fits
    <2>2. CASE m < i
      <3>1. g[m] = f[m] /\ g[m + 1] = f[m + 1]
        BY <2>2
      <3>2. Fits(p, n, f, m)
        BY <1>1, <2>2
      <3> QED
        BY <3>1, <3>2 DEF Fits
    <2> QED
      BY <2>1, <2>2
  <1> HIDE DEF g
  <1>5. /\ g[1] = 1 /\ g[i + 1] = k
        /\ \A m \in 1..((i + 1) - 1) : Fits(p, n, g, m)
    BY <1>3, <1>4
  <1> QED
    BY <1>2, <1>5 DEF Reaches

\* Nothing of the pattern matches nothing of the name.
LEMMA ReachesNothing ==
    ASSUME NEW p \in Seq(Chars), NEW n \in Seq(Chars)
    PROVE  Reaches(p, n, 1, 1)
  <1> DEFINE g == [m \in 1..1 |-> 1]
  <1>1. g \in [1..1 -> 1..(Len(n) + 1)] /\ g[1] = 1
    OBVIOUS
  <1> HIDE DEF g
  <1>2. \A m \in 1..(1 - 1) : Fits(p, n, g, m)
    OBVIOUS
  <1> QED
    BY <1>1, <1>2 DEF Reaches

\* A name matches a pattern exactly if there is a match of the whole of it.
LEMMA MatchesFull ==
    ASSUME FilterTypeOK, Validate(pattern)
    PROVE  Matches(pattern, name) <=> Full # {}
  BY SMTT(20) DEF FilterTypeOK, Matches, Reaches, Full

\* What one character of the pattern says of a match of the whole name.
LEMMA FullFacts ==
    ASSUME FilterTypeOK, NEW f \in Full
    PROVE  /\ f \in [1..(Len(pattern) + 1) -> 1..(Len(name) + 1)]
           /\ f[1] = 1 /\ f[Len(pattern) + 1] = Len(name) + 1
           /\ \A i \in 1..Len(pattern) :
                 /\ pattern[i] = "*" => f[i] <= f[i + 1]
                 /\ pattern[i] # "*" => f[i] <= Len(name) /\ name[f[i]] = pattern[i] /\ f[i + 1] = f[i] + 1
  BY DEF Full, Fits

\* The same of the next character of the pattern, if there is one.
LEMMA FullAtIndex ==
    ASSUME FilterTypeOK, NEW f \in Full
    PROVE  /\ f[patternIndex] \in 1..(Len(name) + 1)
           /\ f[starIndex + 1] \in 1..(Len(name) + 1)
           /\ patternIndex = Len(pattern) + 1 => f[patternIndex] = Len(name) + 1
           /\ patternIndex <= Len(pattern) =>
                 /\ f[patternIndex + 1] \in 1..(Len(name) + 1)
                 /\ pattern[patternIndex] = "*" => f[patternIndex] <= f[patternIndex + 1]
                 /\ pattern[patternIndex] # "*" =>
                       /\ f[patternIndex] <= Len(name)
                       /\ name[f[patternIndex]] = pattern[patternIndex]
                       /\ f[patternIndex + 1] = f[patternIndex] + 1
  <1>1. /\ patternIndex \in 1..(Len(pattern) + 1) /\ starIndex + 1 \in 1..(Len(pattern) + 1)
        /\ patternIndex <= Len(pattern) => /\ patternIndex \in 1..Len(pattern)
                                           /\ patternIndex + 1 \in 1..(Len(pattern) + 1)
    BY DEF FilterTypeOK
  <1> QED
    BY <1>1, FullFacts

-----------------------------------------------------------------------------
(* One step of the loop.                                                     *)

LEMMA TakeStarKeeps ==
    ASSUME FilterTypeOK, FilterInv, TakeStar
    PROVE  FilterTypeOK' /\ FilterInv'
  <1> USE DEF TakeStar, InName, AtStar
  <1>1. FilterTypeOK'
    BY DEF FilterTypeOK, Phases
  <1>2. Full' = Full
    BY DEF Full, Fits
  <1>3. Sound'
    <2>1. Sound /\ Reaches(pattern, name, patternIndex, nameIndex)
      BY DEF FilterInv, Sound
    <2>2. Reaches(pattern, name, patternIndex + 1, nameIndex)
      BY <2>1, ReachesOn DEF FilterTypeOK
    <2> QED
      BY <2>1, <2>2 DEF Sound, FilterTypeOK
  <1>4. Complete'
    <2>1. Complete
      BY DEF FilterInv
    <2>2. ASSUME NEW f \in Full, starIndex > 0 => f[starIndex + 1] >= starNameIndex
          PROVE  f[patternIndex + 1] >= nameIndex
      <3>1. f[patternIndex] >= nameIndex
        <4>1. CASE starIndex = 0
          BY <2>1, <4>1 DEF Complete, FilterTypeOK
        <4>2. CASE starIndex > 0
          <5>1. /\ nameIndex = starNameIndex + AfterStar
                /\ f[patternIndex] = f[starIndex + 1] + AfterStar
            BY <2>1, <4>2 DEF Complete
          <5>2. f[patternIndex] \in Int /\ f[starIndex + 1] \in Int /\ AfterStar \in Int
            BY FullAtIndex DEF FilterTypeOK, AfterStar
          <5> QED
            BY <2>2, <4>2, <5>1, <5>2 DEF FilterTypeOK
        <4> QED
          BY <4>1, <4>2 DEF FilterTypeOK
      <3> QED
        BY <3>1, FullAtIndex DEF FilterTypeOK
    <2>3. Full # {} => \E f \in Full : f[patternIndex + 1] >= nameIndex
      BY <2>1, <2>2 DEF Complete, FilterTypeOK
    <2>4. \A f \in Full : f[patternIndex + 1] = f[patternIndex + 1] + 0
      BY FullAtIndex DEF FilterTypeOK
    <2> QED
      BY <1>2, <2>3, <2>4 DEF Complete, AfterStar, FilterTypeOK
  <1> QED
    BY <1>1, <1>3, <1>4 DEF FilterInv, MatchesWholeName, FilterTypeOK

LEMMA TakeCharKeeps ==
    ASSUME FilterTypeOK, FilterInv, TakeChar
    PROVE  FilterTypeOK' /\ FilterInv'
  <1> USE DEF TakeChar, InName, AtChar, AtStar
  <1>1. FilterTypeOK'
    BY DEF FilterTypeOK, Phases
  <1>2. Full' = Full
    BY DEF Full, Fits
  <1>3. Sound'
    <2>1. Sound /\ Reaches(pattern, name, patternIndex, nameIndex)
      BY DEF FilterInv, Sound
    <2>2. Reaches(pattern, name, patternIndex + 1, nameIndex + 1)
      BY <2>1, ReachesOn DEF FilterTypeOK
    <2> QED
      BY <2>1, <2>2 DEF Sound, FilterTypeOK
  <1>4. Complete'
    <2>1. Complete /\ (starIndex > 0 => starIndex < patternIndex)
      BY DEF FilterInv, Sound
    <2>2. \A f \in Full : /\ f[patternIndex + 1] = f[patternIndex] + 1
                          /\ f[patternIndex] \in 1..(Len(name) + 1)
                          /\ f[starIndex + 1] \in 1..(Len(name) + 1)
      BY FullAtIndex DEF FilterTypeOK
    <2>3. ASSUME starIndex > 0
          PROVE  /\ nameIndex + 1 = starNameIndex + ((patternIndex + 1) - (starIndex + 1))
                 /\ \A f \in Full : f[patternIndex + 1] = f[starIndex + 1] + ((patternIndex + 1) - (starIndex + 1))
      <3>1. /\ nameIndex = starNameIndex + AfterStar
            /\ \A f \in Full : f[patternIndex] = f[starIndex + 1] + AfterStar
        BY <2>1, <2>3 DEF Complete
      <3>2. ASSUME NEW f \in Full
            PROVE  f[patternIndex + 1] = f[starIndex + 1] + ((patternIndex + 1) - (starIndex + 1))
        <4>1. /\ f[patternIndex] = f[starIndex + 1] + AfterStar
              /\ f[patternIndex + 1] = f[patternIndex] + 1
              /\ f[patternIndex] \in 1..(Len(name) + 1)
              /\ f[starIndex + 1] \in 1..(Len(name) + 1)
          BY <2>2, <3>1
        <4> QED
          BY <4>1, SMTT(20) DEF AfterStar, FilterTypeOK
      <3> QED
        BY <3>1, <3>2 DEF AfterStar, FilterTypeOK
    <2> QED
      BY <1>2, <2>1, <2>2, <2>3 DEF Complete, AfterStar, FilterTypeOK
  <1> QED
    BY <1>1, <1>3, <1>4 DEF FilterInv, MatchesWholeName, FilterTypeOK

LEMMA RetryKeeps ==
    ASSUME FilterTypeOK, FilterInv, Retry
    PROVE  FilterTypeOK' /\ FilterInv'
  <1> USE DEF Retry, Backtrack, InName, AtChar, AtStar
  <1>0. Sound /\ Complete /\ starNameIndex <= nameIndex /\ starIndex < patternIndex
    BY DEF FilterInv, Sound
  <1>1. FilterTypeOK'
    BY <1>0 DEF FilterTypeOK, Phases
  <1>2. Full' = Full
    BY DEF Full, Fits
  <1>3. Sound'
    <2>1. PICK j \in 1..starNameIndex : Reaches(pattern, name, starIndex, j)
      BY <1>0 DEF Sound
    <2>2. Reaches(pattern, name, starIndex + 1, starNameIndex + 1)
      <3>1. /\ pattern \in Seq(Chars) /\ name \in Seq(Chars)
            /\ starIndex \in 1..Len(pattern)
            /\ j \in 1..(Len(name) + 1) /\ starNameIndex + 1 \in 1..(Len(name) + 1)
            /\ j <= starNameIndex + 1
        BY <1>0 DEF FilterTypeOK
      <3>2. pattern[starIndex] = "*"
        BY <1>0 DEF Sound
      <3> QED
        BY <2>1, <3>1, <3>2, ReachesOn
    <2>3. j \in 1..(starNameIndex + 1)
      BY DEF FilterTypeOK
    <2> QED
      BY <1>0, <2>1, <2>2, <2>3 DEF Sound, FilterTypeOK
  <1>4. Complete'
    <2>1. ASSUME NEW f \in Full, f[starIndex + 1] >= starNameIndex
          PROVE  f[starIndex + 1] >= starNameIndex + 1
      <3>1. SUFFICES ASSUME f[starIndex + 1] = starNameIndex PROVE FALSE
        BY <2>1, FullAtIndex DEF FilterTypeOK
      <3>2. f[patternIndex] = nameIndex
        BY <1>0, <3>1 DEF Complete, FilterTypeOK
      <3>3. CASE patternIndex = Len(pattern) + 1
        BY <3>2, <3>3, FullAtIndex DEF FilterTypeOK
      <3>4. CASE patternIndex <= Len(pattern)
        BY <3>2, <3>4, FullAtIndex DEF FilterTypeOK
      <3> QED
        BY <3>3, <3>4 DEF FilterTypeOK
    <2>2. Full # {} => \E f \in Full : f[starIndex + 1] >= starNameIndex + 1
      BY <1>0, <2>1 DEF Complete
    <2>3. \A f \in Full : f[starIndex + 1] = f[starIndex + 1] + 0
      BY FullAtIndex DEF FilterTypeOK
    <2> QED
      BY <1>2, <2>2, <2>3 DEF Complete, AfterStar, FilterTypeOK
  <1> QED
    BY <1>1, <1>3, <1>4 DEF FilterInv, MatchesWholeName, FilterTypeOK

LEMMA MismatchKeeps ==
    ASSUME FilterTypeOK, FilterInv, Mismatch
    PROVE  FilterTypeOK' /\ FilterInv'
  <1> USE DEF Mismatch, InName, AtChar, AtStar
  <1>1. FilterTypeOK'
    BY DEF FilterTypeOK, Phases
  <1>2. Validate(pattern) /\ Complete /\ result = FALSE
    BY DEF FilterInv, Sound
  <1>3. ASSUME NEW f \in Full PROVE FALSE
    <2>1. f[patternIndex] = nameIndex
      BY <1>2 DEF Complete
    <2>2. CASE patternIndex = Len(pattern) + 1
      BY <2>1, <2>2, FullAtIndex DEF FilterTypeOK
    <2>3. CASE patternIndex <= Len(pattern)
      BY <2>1, <2>3, FullAtIndex DEF FilterTypeOK
    <2> QED
      BY <2>2, <2>3 DEF FilterTypeOK
  <1>4. Matches(pattern, name) = FALSE
    <2>1. Full = {}
      BY <1>3
    <2>2. ~Matches(pattern, name)
      BY <1>2, <2>1, MatchesFull
    <2> QED
      BY <2>2 DEF Matches
  <1>5. result' = FALSE /\ pattern' = pattern /\ name' = name /\ phase' = "done"
    BY <1>2
  <1> QED
    BY <1>1, <1>4, <1>5 DEF FilterInv, MatchesWholeName

LEMMA NameEndsKeeps ==
    ASSUME FilterTypeOK, FilterInv, NameEnds
    PROVE  FilterTypeOK' /\ FilterInv'
  <1> USE DEF NameEnds
  <1>1. FilterTypeOK'
    BY DEF FilterTypeOK, Phases
  <1>2. Sound /\ Complete
    BY DEF FilterInv
  <1>3. Full' = Full
    BY DEF Full, Fits
  <1>4. Full # {} => \E f \in Full : f[patternIndex] = Len(name) + 1
    <2>1. ASSUME NEW f \in Full, starIndex > 0 => f[starIndex + 1] >= starNameIndex
          PROVE  f[patternIndex] = Len(name) + 1
      <3>1. f[patternIndex] \in 1..(Len(name) + 1) /\ f[starIndex + 1] \in 1..(Len(name) + 1)
        BY FullAtIndex
      <3>2. CASE starIndex = 0
        BY <1>2, <3>2 DEF Complete, FilterTypeOK
      <3>3. CASE starIndex > 0
        <4>1. /\ nameIndex = starNameIndex + AfterStar
              /\ f[patternIndex] = f[starIndex + 1] + AfterStar
          BY <1>2, <3>3 DEF Complete
        <4> QED
          BY <2>1, <3>1, <3>3, <4>1 DEF FilterTypeOK, AfterStar
      <3> QED
        BY <3>2, <3>3 DEF FilterTypeOK
    <2> QED
      BY <1>2, <2>1 DEF Complete, FilterTypeOK
  <1> QED
    BY <1>1, <1>2, <1>3, <1>4 DEF FilterInv, Sound, SuffixComplete, MatchesWholeName, FilterTypeOK

LEMMA SkipStarKeeps ==
    ASSUME FilterTypeOK, FilterInv, SkipStar
    PROVE  FilterTypeOK' /\ FilterInv'
  <1> USE DEF SkipStar, AtStar
  <1>1. FilterTypeOK'
    BY DEF FilterTypeOK, Phases
  <1>2. Sound /\ SuffixComplete
    BY DEF FilterInv
  <1>3. Full' = Full
    BY DEF Full, Fits
  <1>4. Sound'
    <2>1. Reaches(pattern, name, patternIndex + 1, nameIndex)
      BY <1>2, ReachesOn DEF Sound, FilterTypeOK
    <2> QED
      BY <1>2, <2>1 DEF Sound, FilterTypeOK
  <1>5. SuffixComplete'
    <2>1. ASSUME NEW f \in Full, f[patternIndex] = Len(name) + 1
          PROVE  f[patternIndex + 1] = Len(name) + 1
      BY <2>1, FullAtIndex DEF FilterTypeOK
    <2> QED
      BY <1>2, <1>3, <2>1 DEF SuffixComplete
  <1> QED
    BY <1>1, <1>4, <1>5 DEF FilterInv, MatchesWholeName

LEMMA PatternEndsKeeps ==
    ASSUME FilterTypeOK, FilterInv, PatternEnds
    PROVE  FilterTypeOK' /\ FilterInv'
  <1> USE DEF PatternEnds, AtStar
  <1>1. FilterTypeOK'
    BY DEF FilterTypeOK, Phases
  <1>2. Sound /\ SuffixComplete
    BY DEF FilterInv
  <1>3. CASE patternIndex = Len(pattern) + 1
    <2>1. Matches(pattern, name)
      BY <1>2, <1>3 DEF Sound, SuffixComplete, Matches
    <2> QED
      BY <1>1, <1>3, <2>1 DEF FilterInv, MatchesWholeName
  <1>4. CASE patternIndex <= Len(pattern)
    <2>1. ASSUME NEW f \in Full PROVE f[patternIndex] # Len(name) + 1
      BY <1>4, FullAtIndex DEF FilterTypeOK
    <2>2. Full = {}
      BY <1>2, <2>1 DEF SuffixComplete
    <2>3. Matches(pattern, name) = FALSE
      <3>1. ~Matches(pattern, name)
        BY <1>2, <2>2, MatchesFull DEF Sound
      <3> QED
        BY <3>1 DEF Matches
    <2>4. result' = (patternIndex = Len(pattern) + 1) /\ patternIndex # Len(pattern) + 1
      BY <1>4 DEF FilterTypeOK
    <2>5. result' = FALSE
      BY <2>4
    <2>6. pattern' = pattern /\ name' = name /\ phase' = "done"
      OBVIOUS
    <2> QED
      BY <1>1, <2>3, <2>5, <2>6 DEF FilterInv, MatchesWholeName
  <1> QED
    BY <1>3, <1>4 DEF FilterTypeOK

LEMMA MatchStepKeeps ==
    ASSUME FilterTypeOK, FilterInv, MatchStep
    PROVE  FilterTypeOK' /\ FilterInv'
  BY TakeStarKeeps, TakeCharKeeps, RetryKeeps, MismatchKeeps, NameEndsKeeps, SkipStarKeeps,
     PatternEndsKeeps DEF MatchStep

LEMMA StartMatchKeeps ==
    ASSUME FilterTypeOK, FilterInv, NEW p \in Seq(Chars), NEW n \in Seq(Chars), StartMatch(p, n)
    PROVE  FilterTypeOK' /\ FilterInv'
  <1> USE DEF StartMatch
  <1>0. Len(p) \in Nat /\ Len(n) \in Nat
    OBVIOUS
  <1>1. FilterTypeOK'
    <2>1. phase' \in Phases
      BY DEF Phases
    <2>2. starNameIndex' \in (IF starIndex' = 0 THEN 0 ELSE 1)..(Len(name') + 1)
      BY <1>0
    <2>3. /\ patternIndex' \in 1..(Len(pattern') + 1) /\ nameIndex' \in 1..(Len(name') + 1)
          /\ starIndex' \in 0..Len(pattern') /\ pattern' \in Seq(Chars) /\ name' \in Seq(Chars)
      BY <1>0
    <2>4. result' \in BOOLEAN
      OBVIOUS
    <2> QED
      BY <2>1, <2>2, <2>3, <2>4 DEF FilterTypeOK
  <1>2. CASE Validate(p)
    <2>1. Sound'
      BY <1>2, ReachesNothing DEF Sound
    <2>2. Complete'
      BY DEF Complete, Full
    <2> QED
      BY <1>1, <1>2, <2>1, <2>2 DEF FilterInv, MatchesWholeName
  <1>3. CASE ~Validate(p)
    BY <1>1, <1>3 DEF FilterInv, MatchesWholeName, Matches
  <1> QED
    BY <1>2, <1>3

\* Nothing of what the invariant is about changes.
LEMMA FilterUnchanged ==
    ASSUME FilterTypeOK, FilterInv, UNCHANGED filterVars
    PROVE  FilterTypeOK' /\ FilterInv'
  <1> USE DEF filterVars
  <1>1. FilterTypeOK'
    BY DEF FilterTypeOK
  <1>2. Full' = Full
    BY DEF Full, Fits
  <1> QED
    BY <1>1, <1>2 DEF FilterInv, Sound, Complete, SuffixComplete, AfterStar, MatchesWholeName

-----------------------------------------------------------------------------
(* The whole call.                                                           *)

\* A call has read nothing when its schema is chosen, and only the list of
\* schemas is filtered by its handler.
ListingInv ==
    /\ TypeOK
    /\ FilterInv
    /\ pc = "start" => op = "schemas" /\ answer = <<>> /\ listed = <<>> /\ filtered = <<>>
    /\ pc = "filter" => op = "schemas"

\* The types of what is not Match's.
ListTypeOK ==
    /\ filter \in Filters /\ maxRows \in MaxRows
    /\ pc \in PCs
    /\ op \in Ops /\ schema \in Seq(Chars)
    /\ subject \in Seq(Chars) /\ tried \in 0..Len(filter.patterns)
    /\ answer \in Seq(Row) /\ listed \in Seq(Row) /\ filtered \in Seq(Row)
    /\ fetched \in Nat
    /\ truncated \in BOOLEAN
    /\ pc = "start" => op = "schemas" /\ answer = <<>> /\ listed = <<>> /\ filtered = <<>>
    /\ pc = "filter" => op = "schemas"

LEMMA ListingInvSplit == ListingInv <=> FilterTypeOK /\ FilterInv /\ ListTypeOK
  BY DEF ListingInv, TypeOK, ListTypeOK

\* The patterns of an allow-list, which may be tried, are sequences of characters.
LEMMA FilterFacts ==
    ASSUME ListTypeOK
    PROVE  /\ Len(filter.patterns) \in Nat
           /\ \A i \in 1..Len(filter.patterns) : filter.patterns[i] \in Seq(Chars)
  <1> DEFINE Valid == {p \in Seq(Chars) : Validate(p)}
  <1>1. filter.patterns \in Seq(Valid)
    BY FiltersAssumption DEF ListTypeOK
  <1> HIDE DEF Valid
  <1>2. Len(filter.patterns) \in Nat /\ \A i \in 1..Len(filter.patterns) : filter.patterns[i] \in Valid
    BY <1>1
  <1> QED
    BY <1>2 DEF Valid

LEMMA InitEstablishes == Init => ListingInv
  <1> SUFFICES ASSUME Init PROVE ListingInv
    OBVIOUS
  <1>0. result \in BOOLEAN /\ truncated \in BOOLEAN
    BY DEF Init, FilterInit
  <1>1. FilterTypeOK
    <2>1. <<>> \in Seq(Chars) /\ Len(<<>>) = 0
      OBVIOUS
    <2> QED
      BY <1>0, <2>1 DEF Init, FilterInit, FilterTypeOK, Phases
  <1>2. FilterInv
    BY DEF Init, FilterInit, FilterInv, MatchesWholeName
  <1>3. Len(filter.patterns) \in Nat
    BY FiltersAssumption DEF Init
  <1>4. ListTypeOK
    <2>1. <<>> \in Seq(Chars) /\ <<>> \in Seq(Seq(Chars))
      OBVIOUS
    <2> QED
      BY <1>0, <1>3, <2>1 DEF Init, ListTypeOK, PCs, Ops, Row
  <1> QED
    BY <1>1, <1>2, <1>4, ListingInvSplit

\* The steps that leave Match alone.
LEMMA ListStepKeeps ==
    ASSUME ListTypeOK, Next,
           ~(Matching \/ TryPattern)
    PROVE  ListTypeOK' /\ UNCHANGED filterVars
  <1> USE DEF PCs, Ops
  <1>0. <<>> \in Seq(Seq(Chars)) /\ <<>> \in Seq(Rows) /\ <<>> \in Seq(Chars)
    OBVIOUS
  <1>1. CASE AskSchemas
    BY <1>1 DEF AskSchemas, ListTypeOK, Row, sourceVars, callVars, allowsVars, rowVars, listVars
  <1>2. ASSUME NEW o \in Ops \ {"schemas"}, NEW s \in Requested, AskInSchema(o, s)
        PROVE  ListTypeOK' /\ UNCHANGED filterVars
    <2>1. s \in Seq(Chars) /\ Len(filter.patterns) \in Nat
      BY RequestedAssumption, FilterFacts
    <2> QED
      BY <1>0, <1>2, <2>1 DEF AskInSchema, ListTypeOK, Row, sourceVars, rowVars, listVars
  <1>appended. op = "schemas" => Append(filtered, subject) \in Seq(Row)
    BY DEF ListTypeOK, Row
  <1>3. CASE AllowsAtOnce
    BY <1>3, <1>appended DEF AllowsAtOnce, Verdict, ListTypeOK, Row, sourceVars, callVars, allowsVars, rowVars
  <1>4. CASE Matched
    BY <1>4, <1>appended DEF Matched, Verdict, ListTypeOK, Row, sourceVars, callVars, allowsVars, rowVars
  <1>5. CASE Disallowed
    BY <1>5 DEF Disallowed, Verdict, ListTypeOK, Row, sourceVars, callVars, allowsVars, rowVars
  <1>6. ASSUME NEW from, NEW to \in PCs \ {"start", "filter"}, Move(from, to)
        PROVE  ListTypeOK' /\ UNCHANGED filterVars
    BY <1>6 DEF Move, ListTypeOK, Row, sourceVars, callVars, allowsVars, rowVars, listVars
  <1>7. CASE Query
    BY <1>7, ListsAssumption DEF Query, ListTypeOK, Row, sourceVars, callVars, allowsVars, listVars
  <1>8. CASE NextRow
    <2>1. answer[fetched'] \in Row
      BY <1>8 DEF NextRow, ListTypeOK
    <2>2. Append(listed, answer[fetched']) \in Seq(Row)
      BY <2>1 DEF ListTypeOK
    <2>3. listed' \in Seq(Row) /\ pc' \in {"rows", "err"}
      <3>1. listed' \in {listed, Append(listed, answer[fetched'])} /\ pc' \in {pc, "err"} /\ pc = "rows"
        BY <1>8 DEF NextRow
      <3> QED
        BY <2>2, <3>1 DEF ListTypeOK
    <2> QED
      BY <1>8, <2>3 DEF NextRow, ListTypeOK, Row, sourceVars, callVars, allowsVars
  <1>9. CASE Returned
    BY <1>9, FilterFacts DEF Returned, ListTypeOK, Row, sourceVars, callVars
  <1>10. CASE NextSchema
    <2>1. subject' \in Seq(Chars)
      BY <1>10 DEF NextSchema, ListTypeOK, Row
    <2> QED
      BY <1>10, <2>1, FilterFacts DEF NextSchema, ListTypeOK, Row, sourceVars, callVars, listVars
  <1>11. CASE Trim
    <2>1. Len(filtered) > maxRows => SubSeq(filtered, 1, maxRows) \in Seq(Row)
      BY SubSeqProperties, MaxRowsAssumption DEF ListTypeOK
    <2> QED
      BY <1>11, <2>1 DEF Trim, ListTypeOK, Row, sourceVars, callVars, allowsVars, rowVars
  <1> QED
    BY <1>1, <1>2, <1>3, <1>4, <1>5, <1>6, <1>7, <1>8, <1>9, <1>10, <1>11
       DEF Next, Identify, IdentifyFails, TableFound, TableFails, RowsEnd, Broken, SchemasEnd

LEMMA NextKeeps == ListingInv /\ [Next]_vars => ListingInv'
  <1> SUFFICES ASSUME ListingInv, [Next]_vars PROVE ListingInv'
    OBVIOUS
  <1>0. FilterTypeOK /\ FilterInv /\ ListTypeOK
    BY ListingInvSplit
  <1>1. CASE Next /\ ~(Matching \/ TryPattern)
    <2>1. ListTypeOK' /\ UNCHANGED filterVars
      BY <1>0, <1>1, ListStepKeeps
    <2>2. FilterTypeOK' /\ FilterInv'
      BY <1>0, <2>1, FilterUnchanged
    <2> QED
      BY <2>1, <2>2 DEF ListingInv, TypeOK, ListTypeOK, Row
  <1>2. CASE Matching
    <2>1. FilterTypeOK' /\ FilterInv'
      BY <1>0, <1>2, MatchStepKeeps DEF Matching
    <2>2. ListTypeOK'
      BY <1>0, <1>2 DEF Matching, ListTypeOK, Row, sourceVars, callVars, allowsVars, rowVars, listVars
    <2> QED
      BY <2>1, <2>2 DEF ListingInv, TypeOK, ListTypeOK, Row
  <1>3. CASE TryPattern
    <2>1. tried + 1 \in 1..Len(filter.patterns) /\ subject \in Seq(Chars)
      BY <1>0, <1>3, FilterFacts DEF TryPattern, ListTypeOK
    <2>2. filter.patterns[tried + 1] \in Seq(Chars)
      BY <1>0, <2>1, FilterFacts
    <2>3. FilterTypeOK' /\ FilterInv'
      BY <1>0, <1>3, <2>1, <2>2, StartMatchKeeps DEF TryPattern
    <2>4. ListTypeOK'
      BY <1>0, <1>3, <2>1 DEF TryPattern, ListTypeOK, Row, PCs, sourceVars, callVars, rowVars, listVars
    <2> QED
      BY <2>3, <2>4 DEF ListingInv, TypeOK, ListTypeOK, Row
  <1>4. CASE UNCHANGED vars
    <2>1. FilterTypeOK' /\ FilterInv'
      BY <1>0, <1>4, FilterUnchanged DEF vars
    <2>2. ListTypeOK'
      BY <1>0, <1>4 DEF vars, ListTypeOK, Row, sourceVars, callVars, allowsVars, rowVars, listVars
    <2> QED
      BY <2>1, <2>2 DEF ListingInv, TypeOK, ListTypeOK, Row
  <1> QED
    BY <1>1, <1>2, <1>3, <1>4

\* Every variable of a metadata call and of Match keeps its type: no index of
\* the loop leaves the pattern or the name (metadata_tools.go, schemafilter.go).
THEOREM TypeCorrect == Spec => []TypeOK
  <1>1. ListingInv => TypeOK
    BY DEF ListingInv
  <1> QED
    BY <1>1, InitEstablishes, NextKeeps, PTL DEF Spec

\* For all allow-lists and names, Match, which goes back to the last star only,
\* answers yes exactly if the whole name matches the pattern (schemafilter.go).
THEOREM MatchIsExact == Spec => []MatchesWholeName
  <1>1. ListingInv => MatchesWholeName
    BY DEF ListingInv, FilterInv
  <1> QED
    BY <1>1, InitEstablishes, NextKeeps, PTL DEF Spec

-----------------------------------------------------------------------------
(* A glob and its LIKE pattern.                                              *)

\* flat[i] is the first i of the texts, one after the other.
Flattens(V, N, texts, flat) ==
    /\ flat \in [0..N -> Seq(V)]
    /\ flat[0] = <<>> /\ flat[N] = FlattenSeq(texts)
    /\ \A i \in 1..N : flat[i] = flat[i - 1] \o texts[i]

\* The flattening of a sequence of texts, from its beginning on.
LEMMA FlattenDefined ==
    ASSUME NEW V, NEW N \in Nat, N # 0, NEW texts \in Seq(Seq(V)), Len(texts) = N
    PROVE  \E flat : Flattens(V, N, texts, flat)
  <1> DEFINE Is(f) == f = [i \in 1..Len(texts) |-> IF i = 1 THEN texts[i] ELSE f[i - 1] \o texts[i]]
             Texts == Seq(V)
             rank == [i \in 1..N |-> i]
             step == [i \in 1..N |-> [g \in [1..N -> Texts] |->
                         IF i = 1 THEN texts[i] ELSE g[i - 1] \o texts[i]]]
  <1>0. \A i \in 1..N : texts[i] \in Texts
    OBVIOUS
  <1>1. step \in Steps(1..N, Texts)
    <2>1. ASSUME NEW i \in 1..N, NEW g \in [1..N -> Texts]
          PROVE  (IF i = 1 THEN texts[i] ELSE g[i - 1] \o texts[i]) \in Texts
      <3>1. CASE i # 1
        <4>1. i - 1 \in 1..N
          BY <3>1
        <4>2. g[i - 1] \in Seq(V) /\ texts[i] \in Seq(V)
          BY <4>1, <1>0
        <4> QED
          BY <3>1, <4>2
      <3> QED
        BY <1>0, <3>1
    <2> HIDE DEF Texts
    <2> QED
      BY <2>1 DEF Steps
  <1>2. LooksBack(1..N, Texts, rank, step)
    <2> HIDE DEF Texts
    <2> SUFFICES ASSUME NEW i \in 1..N, NEW g \in [1..N -> Texts], NEW h \in [1..N -> Texts],
                        \A k \in 1..N : rank[k] < rank[i] => g[k] = h[k]
                 PROVE  step[i][g] = step[i][h]
      BY Zenon DEF LooksBack
    <2>1. i # 1 => i - 1 \in 1..N /\ i - 1 < i
      OBVIOUS
    <2> QED
      BY <2>1
  <1>3. PICK flat : Solves(1..N, Texts, step, flat)
    <2>1. <<>> \in Texts /\ rank \in [1..N -> 0..N] /\ N \in Nat
      OBVIOUS
    <2> HIDE DEF step, rank, Texts
    <2> QED
      BY <1>1, <1>2, <2>1, Recursion, Zenon
  <1>4. flat \in [1..N -> Texts] /\ \A i \in 1..N : flat[i] = IF i = 1 THEN texts[i] ELSE flat[i - 1] \o texts[i]
    <2> HIDE DEF Texts
    <2> QED
      BY <1>3 DEF Solves
  <1>5. Is(flat)
    BY <1>4
  <1>6. FlattenSeq(texts) = (CHOOSE f : Is(f))[Len(texts)]
    BY Len(texts) # 0 DEF FlattenSeq
  <1>7. DEFINE f == CHOOSE g : Is(g)
  <1>8. Is(f)
    <2> HIDE DEF Is
    <2> QED
      BY <1>5, Zenon
  <1> HIDE DEF f
  <1>9. f = [i \in 1..N |-> IF i = 1 THEN texts[i] ELSE f[i - 1] \o texts[i]]
    BY <1>8
  <1>10. f[1] = texts[1] /\ \A i \in 2..N : f[i] = f[i - 1] \o texts[i]
    <2>1. \A i \in 1..N : f[i] = IF i = 1 THEN texts[i] ELSE f[i - 1] \o texts[i]
      BY <1>9, Zenon
    <2>2. 1 \in 1..N /\ \A i \in 2..N : i \in 1..N /\ i # 1
      OBVIOUS
    <2> QED
      BY <2>1, <2>2, Zenon
  <1>11. \A i \in 1..N : f[i] \in Texts
    <2> DEFINE S == {k \in 0..(N - 1) : f[k + 1] \in Texts}
    <2> HIDE DEF Texts
    <2>1. 0 \in S
      BY <1>0, <1>10
    <2>2. \A k \in Nat : k < N - 1 /\ k \in S => k + 1 \in S
      <3> SUFFICES ASSUME NEW k \in Nat, k < N - 1, f[k + 1] \in Texts PROVE f[(k + 1) + 1] \in Texts
        OBVIOUS
      <3>1. (k + 1) + 1 \in 2..N /\ (k + 1) + 1 \in 1..N /\ ((k + 1) + 1) - 1 = k + 1
        OBVIOUS
      <3>2. f[(k + 1) + 1] = f[k + 1] \o texts[(k + 1) + 1]
        BY <1>10, <3>1
      <3> QED
        BY <1>0, <3>1, <3>2 DEF Texts
    <2>3. \A k \in 0..(N - 1) : k \in S
      <3>1. N - 1 \in Nat
        OBVIOUS
      <3> HIDE DEF S
      <3> QED
        BY <2>1, <2>2, <3>1, InductionTo, Zenon
    <2>4. ASSUME NEW i \in 1..N PROVE f[i] \in Texts
      <3>1. i - 1 \in 0..(N - 1) /\ (i - 1) + 1 = i
        OBVIOUS
      <3> QED
        BY <2>3, <3>1
    <2> QED
      BY <2>4
  <1>12. f \in [1..N -> Texts]
    BY <1>9, <1>11
  <1>13. FlattenSeq(texts) = f[N]
    BY <1>6 DEF f
  <1> DEFINE g == [i \in 0..N |-> IF i = 0 THEN <<>> ELSE f[i]]
  <1>14. g \in [0..N -> Texts]
    <2>1. <<>> \in Texts /\ \A i \in 0..N : i # 0 => i \in 1..N
      OBVIOUS
    <2> HIDE DEF Texts
    <2> QED
      BY <1>12, <2>1
  <1>15. g[0] = <<>> /\ \A i \in 1..N : g[i] = f[i]
    OBVIOUS
  <1>16. g[N] = FlattenSeq(texts)
    BY <1>13, <1>15
  <1>17. ASSUME NEW i \in 1..N PROVE g[i] = g[i - 1] \o texts[i]
    <2>1. CASE i = 1
      <3>1. <<>> \o texts[1] = texts[1] /\ 1 - 1 = 0
        BY <1>0
      <3> QED
        BY <2>1, <3>1, <1>10, <1>15
    <2>2. CASE i # 1
      <3>1. i - 1 \in 1..N /\ i \in 2..N
        BY <2>2
      <3> QED
        BY <3>1, <1>10, <1>15
    <2> QED
      BY <2>1, <2>2
  <1> HIDE DEF g
  <1> QED
    BY <1>14, <1>15, <1>16, <1>17 DEF Flattens

\* Of texts that grow, each is the beginning of the last.
LEMMA BeginningsGrow ==
    ASSUME NEW V, NEW N \in Nat, NEW g \in [0..N -> Seq(V)],
           \A i \in 1..N : Begins(g[i - 1], g[i])
    PROVE  \A i \in 0..N : Begins(g[i], g[N])
  <1> DEFINE S == {k \in 0..N : Begins(g[N - k], g[N])}
  <1>0. \A i \in 0..N : g[i] \in Seq(V) /\ Len(g[i]) \in Nat
    OBVIOUS
  <1>1. 0 \in S
    <2>1. N - 0 = N /\ Begins(g[N], g[N])
      BY <1>0 DEF Begins
    <2> QED
      BY <2>1
  <1>2. \A k \in Nat : k < N /\ k \in S => k + 1 \in S
    <2> SUFFICES ASSUME NEW k \in Nat, k < N, k \in S
                 PROVE  k + 1 \in S
      <3> HIDE DEF S
      <3> QED
        OBVIOUS
    <2>0. Begins(g[N - k], g[N])
      OBVIOUS
    <2>1. N - k \in 1..N /\ (N - k) - 1 = N - (k + 1) /\ N - (k + 1) \in 0..N /\ N - k \in 0..N
      OBVIOUS
    <2>2. Begins(g[N - (k + 1)], g[N - k])
      BY <2>1
    <2>3. Len(g[N - (k + 1)]) \in Nat /\ Len(g[N - k]) \in Nat /\ Len(g[N]) \in Nat
      BY <1>0, <2>1
    <2>4. Begins(g[N - (k + 1)], g[N])
      BY <2>0, <2>2, <2>3 DEF Begins
    <2>5. k + 1 \in 0..N
      OBVIOUS
    <2> QED
      BY <2>4, <2>5
  <1>3. \A k \in 0..N : k \in S
    <2> HIDE DEF S
    <2>1. N \in Nat
      OBVIOUS
    <2> QED
      BY <1>1, <1>2, <2>1, InductionTo, Zenon
  <1>4. ASSUME NEW i \in 0..N PROVE Begins(g[i], g[N])
    <2>1. N - i \in 0..N /\ N - (N - i) = i
      OBVIOUS
    <2> QED
      BY <1>3, <2>1
  <1> QED
    BY <1>4

\* The text of a LIKE pattern: the characters for p[i] begin at pos[i].
Written(p, like, pos) ==
    /\ pos \in [1..(Len(p) + 1) -> Nat \ {0}]
    /\ pos[1] = 1 /\ pos[Len(p) + 1] = Len(like) + 1
    /\ \A i \in 1..Len(p) :
          /\ pos[i + 1] = pos[i] + Len(Escaped(p[i]))
          /\ pos[i + 1] <= Len(like) + 1
          /\ \A k \in 1..Len(Escaped(p[i])) : like[pos[i] + (k - 1)] = Escaped(p[i])[k]

LikeChars == Chars \cup {"%", "="}

LEMMA EscapedFacts ==
    ASSUME NEW c \in Chars
    PROVE  /\ Escaped(c) \in Seq(LikeChars)
           /\ Len(Escaped(c)) = IF c \in {"%", "_", "="} THEN 2 ELSE 1
           /\ Escaped(c)[1] = IF c = "*" THEN "%" ELSE IF c \in {"%", "_", "="} THEN "=" ELSE c
           /\ c \in {"%", "_", "="} => Escaped(c)[2] = c
  <1>1. c \in LikeChars /\ "%" \in LikeChars /\ "=" \in LikeChars
    BY DEF LikeChars
  <1>2. CASE c = "*"
    BY <1>1, <1>2 DEF Escaped
  <1>3. CASE c \in {"%", "_", "="}
    <2>1. Escaped(c) = <<"=", c>>
      BY <1>3 DEF Escaped
    <2>2. <<"=", c>> \in Seq(LikeChars) /\ Len(<<"=", c>>) = 2 /\ <<"=", c>>[1] = "=" /\ <<"=", c>>[2] = c
      BY <1>1
    <2>3. c # "*"
      BY <1>3
    <2> QED
      BY <1>3, <2>1, <2>2, <2>3, Zenon
  <1>4. CASE c # "*" /\ c \notin {"%", "_", "="}
    <2>1. Escaped(c) = <<c>>
      BY <1>4 DEF Escaped
    <2>2. <<c>> \in Seq(LikeChars) /\ Len(<<c>>) = 1 /\ <<c>>[1] = c
      BY <1>1
    <2> QED
      BY <1>4, <2>1, <2>2, Zenon
  <1> QED
    BY <1>2, <1>3, <1>4

LEMMA LikeWritten ==
    ASSUME NEW p \in Seq(Chars), p # <<>>
    PROVE  /\ ToSQLLike(p) \in Seq(LikeChars)
           /\ \E pos : Written(p, ToSQLLike(p), pos)
  <1> DEFINE texts == [i \in 1..Len(p) |-> Escaped(p[i])]
             N == Len(p)
             like == ToSQLLike(p)
  <1>0. N \in Nat /\ N # 0
    OBVIOUS
  <1>1. \A i \in 1..N : p[i] \in Chars /\ texts[i] = Escaped(p[i]) /\ Escaped(p[i]) \in Seq(LikeChars)
    <2> SUFFICES ASSUME NEW i \in 1..N
                 PROVE  p[i] \in Chars /\ texts[i] = Escaped(p[i]) /\ Escaped(p[i]) \in Seq(LikeChars)
      OBVIOUS
    <2>1. p[i] \in Chars
      OBVIOUS
    <2> QED
      BY <2>1, EscapedFacts
  <1>2. texts \in Seq(Seq(LikeChars)) /\ Len(texts) = N
    <2> DEFINE T == Seq(LikeChars)
    <2>1. \A i \in 1..N : Escaped(p[i]) \in T
      BY <1>1
    <2> HIDE DEF T
    <2>2. texts \in Seq(T) /\ Len(texts) = N
      BY <1>0, <2>1
    <2> QED
      BY <2>2 DEF T
  <1>3. like = FlattenSeq(texts)
    BY DEF ToSQLLike
  <1> HIDE DEF texts, like, N
  <1>f. PICK flat : Flattens(LikeChars, N, texts, flat)
    BY <1>0, <1>2, FlattenDefined, Zenon
  <1>4. /\ flat \in [0..N -> Seq(LikeChars)]
        /\ flat[0] = <<>> /\ flat[N] = FlattenSeq(texts)
        /\ \A i \in 1..N : flat[i] = flat[i - 1] \o texts[i]
    BY <1>f DEF Flattens
  <1>5. \A i \in 0..N : flat[i] \in Seq(LikeChars) /\ Len(flat[i]) \in Nat
    BY <1>4
  <1>6. ASSUME NEW i \in 1..N
        PROVE  /\ Begins(flat[i - 1], flat[i])
               /\ Len(flat[i]) = Len(flat[i - 1]) + Len(Escaped(p[i]))
               /\ \A k \in 1..Len(Escaped(p[i])) : flat[i][Len(flat[i - 1]) + k] = Escaped(p[i])[k]
    <2>1. flat[i] = flat[i - 1] \o Escaped(p[i])
      BY <1>1, <1>4
    <2>2. i - 1 \in 0..N
      BY <1>0
    <2>3. flat[i - 1] \in Seq(LikeChars) /\ Escaped(p[i]) \in Seq(LikeChars)
      BY <1>1, <1>4, <2>2
    <2> DEFINE s == flat[i - 1]
               t == Escaped(p[i])
    <2>4. s \in Seq(LikeChars) /\ t \in Seq(LikeChars) /\ flat[i] = s \o t
      BY <2>1, <2>3
    <2> HIDE DEF s, t
    <2>5. Begins(s, flat[i]) /\ Len(flat[i]) = Len(s) + Len(t) /\ \A k \in 1..Len(t) : flat[i][Len(s) + k] = t[k]
      BY <2>4 DEF Begins
    <2> QED
      BY <2>5 DEF s, t
  <1>7. \A i \in 0..N : Begins(flat[i], flat[N])
    BY <1>0, <1>4, <1>6, BeginningsGrow
  <1> DEFINE pos == [i \in 1..(N + 1) |-> Len(flat[i - 1]) + 1]
  <1>8. pos \in [1..(N + 1) -> Nat \ {0}] /\ \A i \in 1..(N + 1) : pos[i] = Len(flat[i - 1]) + 1
    BY <1>0, <1>5
  <1> HIDE DEF pos
  <1>9. pos[1] = 1
    BY <1>0, <1>4, <1>8
  <1>10. pos[N + 1] = Len(like) + 1
    <2>1. N + 1 \in 1..(N + 1) /\ (N + 1) - 1 = N
      BY <1>0
    <2> QED
      BY <1>3, <1>4, <1>8, <2>1
  <1>11. ASSUME NEW i \in 1..N
         PROVE  /\ pos[i + 1] = pos[i] + Len(Escaped(p[i]))
                /\ pos[i + 1] <= Len(like) + 1
                /\ \A k \in 1..Len(Escaped(p[i])) : like[pos[i] + (k - 1)] = Escaped(p[i])[k]
    <2>0. /\ i + 1 \in 1..(N + 1) /\ (i + 1) - 1 = i /\ i \in 1..(N + 1) /\ i \in 0..N /\ i - 1 \in 0..N
          /\ N \in 0..N
      BY <1>0
    <2> DEFINE a == Len(flat[i - 1])
               b == Len(flat[i])
               c == Len(Escaped(p[i]))
               d == Len(flat[N])
    <2>1. a \in Nat /\ b \in Nat /\ c \in Nat /\ d \in Nat
      BY <1>1, <1>5, <2>0
    <2>2. pos[i + 1] = b + 1 /\ pos[i] = a + 1
      BY <1>8, <2>0
    <2>3. like = flat[N] /\ b <= d /\ \A k \in 1..b : flat[i][k] = flat[N][k]
      BY <1>3, <1>4, <1>7, <2>0 DEF Begins
    <2>5. b = a + c /\ \A k \in 1..c : flat[i][a + k] = Escaped(p[i])[k]
      BY <1>6
    <2>6. Len(like) = d /\ Len(Escaped(p[i])) = c
      BY <2>3
    <2> HIDE DEF a, b, c, d
    <2>4. ASSUME NEW k \in 1..c
          PROVE  like[pos[i] + (k - 1)] = Escaped(p[i])[k]
      <3>1. (a + 1) + (k - 1) = a + k /\ a + k \in 1..b
        BY <2>1, <2>5
      <3> QED
        BY <2>2, <2>3, <2>5, <3>1
    <2>7. pos[i + 1] = pos[i] + c /\ pos[i + 1] <= d + 1
      BY <2>1, <2>2, <2>3, <2>5
    <2> QED
      BY <2>4, <2>6, <2>7
  <1>12. Written(p, like, pos)
    BY <1>8, <1>9, <1>10, <1>11 DEF Written, N
  <1>13. like \in Seq(LikeChars)
    BY <1>0, <1>3, <1>4, <1>5
  <1> QED
    BY <1>12, <1>13 DEF like

\* rest[i] is where in n a match of the rest of a like pattern from i on can begin.
LikeRests(like, n, rest) ==
    /\ rest \in [1..(Len(like) + 1) -> SUBSET (1..(Len(n) + 1))]
    /\ \A i \in 1..(Len(like) + 1) :
          rest[i] = IF i > Len(like) THEN {Len(n) + 1}
                    ELSE IF like[i] = "=" /\ i < Len(like) THEN LikeOne(like[i + 1], TRUE, n, rest[i + 2])
                    ELSE LikeOne(like[i], FALSE, n, rest[i + 1])

LEMMA LikeOneType ==
    ASSUME NEW n \in Seq(Chars), NEW c, NEW literally, NEW next
    PROVE  LikeOne(c, literally, n, next) \in SUBSET (1..(Len(n) + 1))
  <1>1. 1..Len(n) \subseteq 1..(Len(n) + 1)
    OBVIOUS
  <1> QED
    BY <1>1 DEF LikeOne

LEMMA LikeDefined ==
    ASSUME NEW like \in Seq(LikeChars), NEW n \in Seq(Chars)
    PROVE  \E rest : LikeRests(like, n, rest) /\ (Like(like, n) <=> 1 \in rest[1])
  <1> DEFINE L == Len(like)
             D == 1..(L + 1)
             V == SUBSET (1..(Len(n) + 1))
             Body(i, g) == IF i > L THEN {Len(n) + 1}
                           ELSE IF like[i] = "=" /\ i < L THEN LikeOne(like[i + 1], TRUE, n, g[i + 2])
                           ELSE LikeOne(like[i], FALSE, n, g[i + 1])
             Is(f) == f = [i \in 1..(Len(like) + 1) |->
                             IF i > Len(like) THEN {Len(n) + 1}
                             ELSE IF like[i] = "=" /\ i < Len(like) THEN LikeOne(like[i + 1], TRUE, n, f[i + 2])
                             ELSE LikeOne(like[i], FALSE, n, f[i + 1])]
             rank == [i \in D |-> (L + 1) - i]
             step == [i \in D |-> [g \in [D -> V] |-> Body(i, g)]]
  <1>0. L \in Nat /\ Len(n) \in Nat
    OBVIOUS
  <1>1. \A i, g : Body(i, g) \in V
    <2>1. {Len(n) + 1} \in V
      BY <1>0
    <2> HIDE DEF V
    <2>2. \A c, g : LikeOne(c, TRUE, n, g) \in V /\ LikeOne(c, FALSE, n, g) \in V
      BY LikeOneType DEF V
    <2> HIDE DEF L
    <2> QED
      BY <2>1, <2>2
  <1>2. step \in Steps(D, V)
    <2> HIDE DEF Body, D, V
    <2> QED
      BY <1>1 DEF Steps
  <1>3. LooksBack(D, V, rank, step)
    <2> SUFFICES ASSUME NEW i \in D, NEW g \in [D -> V], NEW h \in [D -> V],
                        \A k \in D : rank[k] < rank[i] => g[k] = h[k]
                 PROVE  step[i][g] = step[i][h]
      BY Zenon DEF LooksBack
    <2>1. \A k \in D : i < k => g[k] = h[k]
      BY <1>0
    <2>2. i <= L => i + 1 \in D /\ i < i + 1
      BY <1>0
    <2>3. i < L => i + 2 \in D /\ i < i + 2
      BY <1>0
    <2>4. (i <= L => g[i + 1] = h[i + 1]) /\ (i < L => g[i + 2] = h[i + 2])
      BY <2>1, <2>2, <2>3
    <2>5. i > L \/ i <= L
      BY <1>0
    <2> HIDE DEF L, D, V
    <2>6. Body(i, g) = Body(i, h)
      BY <2>4, <2>5, Zenon
    <2> HIDE DEF Body
    <2> QED
      BY <2>6
  <1>4. PICK r : Solves(D, V, step, r)
    <2>1. {} \in V /\ rank \in [D -> 0..L]
      BY <1>0
    <2> HIDE DEF step, rank, D, V, L
    <2> QED
      BY <1>0, <1>2, <1>3, <2>1, Recursion, Zenon
  <1>5. Is(r)
    <2>1. r \in [D -> V] /\ \A i \in D : r[i] = step[i][r]
      BY <1>4, Zenon DEF Solves
    <2>2. \A i \in D : r[i] = Body(i, r)
      <3> HIDE DEF Body, D, V
      <3> QED
        BY <2>1
    <2> HIDE DEF V, step
    <2> QED
      BY <2>1, <2>2
  <1>6. Like(like, n) = (1 \in (CHOOSE f : Is(f))[1])
    BY Zenon DEF Like
  <1> DEFINE rest == CHOOSE f : Is(f)
  <1>7. Is(rest)
    <2> HIDE DEF Is
    <2> QED
      BY <1>5, Zenon
  <1> HIDE DEF rest
  <1>8. rest = [i \in D |-> Body(i, rest)]
    BY <1>7, Zenon
  <1>9. rest \in [D -> V] /\ \A i \in D : rest[i] = Body(i, rest)
    <2> HIDE DEF Body, V, D
    <2> QED
      BY <1>1, <1>8
  <1>10. LikeRests(like, n, rest)
    BY <1>9, Zenon DEF LikeRests
  <1> QED
    BY <1>6, <1>10, Zenon DEF rest

\* The pattern from i on can match the name from j on.
Rest(p, n, i, j) ==
    \E f \in [i..(Len(p) + 1) -> 1..(Len(n) + 1)] :
       f[i] = j /\ f[Len(p) + 1] = Len(n) + 1 /\ \A k \in i..Len(p) : Fits(p, n, f, k)

\* The character c of the pattern can match the name from j up to k.
Takes(c, n, j, k) == IF c = "*" THEN j <= k ELSE j <= Len(n) /\ n[j] = c /\ k = j + 1

LEMMA RestFirst ==
    ASSUME NEW p \in Seq(Chars), NEW n \in Seq(Chars)
    PROVE  Rest(p, n, 1, 1) <=> Reaches(p, n, Len(p) + 1, Len(n) + 1)
  <1>1. (Len(p) + 1) - 1 = Len(p)
    OBVIOUS
  <1> QED
    BY <1>1 DEF Rest, Reaches

LEMMA RestEnds ==
    ASSUME NEW p \in Seq(Chars), NEW n \in Seq(Chars), NEW j \in 1..(Len(n) + 1)
    PROVE  Rest(p, n, Len(p) + 1, j) <=> j = Len(n) + 1
  <1> DEFINE m == Len(p) + 1
             f == [i \in m..m |-> Len(n) + 1]
  <1>0. Len(p) \in Nat /\ Len(n) \in Nat
    OBVIOUS
  <1>1. f \in [m..m -> 1..(Len(n) + 1)] /\ f[m] = Len(n) + 1
    BY <1>0
  <1>2. m..Len(p) = {}
    BY <1>0
  <1> HIDE DEF f
  <1> QED
    BY <1>1, <1>2 DEF Rest

LEMMA RestOn ==
    ASSUME NEW p \in Seq(Chars), NEW n \in Seq(Chars), NEW i \in 1..Len(p), NEW j \in 1..(Len(n) + 1)
    PROVE  Rest(p, n, i, j) <=> \E k \in 1..(Len(n) + 1) : Takes(p[i], n, j, k) /\ Rest(p, n, i + 1, k)
  <1> DEFINE m == Len(p)
             J == 1..(Len(n) + 1)
  <1>0. m \in Nat /\ Len(n) \in Nat
    OBVIOUS
  <1>1. ASSUME Rest(p, n, i, j)
        PROVE  \E k \in J : Takes(p[i], n, j, k) /\ Rest(p, n, i + 1, k)
    <2>1. PICK f \in [i..(m + 1) -> J] :
             f[i] = j /\ f[m + 1] = Len(n) + 1 /\ \A k \in i..m : Fits(p, n, f, k)
      BY <1>1 DEF Rest
    <2> DEFINE g == [k \in (i + 1)..(m + 1) |-> f[k]]
    <2>2. (i + 1)..(m + 1) \subseteq i..(m + 1) /\ i + 1 \in (i + 1)..(m + 1) /\ m + 1 \in (i + 1)..(m + 1)
      BY <1>0
    <2>3. g \in [(i + 1)..(m + 1) -> J] /\ \A k \in (i + 1)..(m + 1) : g[k] = f[k]
      BY <2>2
    <2> HIDE DEF g
    <2>4. ASSUME NEW k \in (i + 1)..m PROVE Fits(p, n, g, k)
      <3>1. k \in i..m /\ k \in (i + 1)..(m + 1) /\ k + 1 \in (i + 1)..(m + 1)
        BY <1>0
      <3>2. Fits(p, n, f, k) /\ g[k] = f[k] /\ g[k + 1] = f[k + 1]
        BY <2>1, <2>3, <3>1
      <3> QED
        BY <3>2 DEF Fits
    <2>5. Rest(p, n, i + 1, f[i + 1])
      <3>1. g[i + 1] = f[i + 1] /\ g[m + 1] = Len(n) + 1
        BY <2>1, <2>2, <2>3
      <3> QED
        BY <2>3, <2>4, <3>1 DEF Rest
    <2>6. Takes(p[i], n, j, f[i + 1])
      <3>1. Fits(p, n, f, i)
        BY <1>0, <2>1
      <3> QED
        BY <2>1, <3>1 DEF Fits, Takes
    <2>7. f[i + 1] \in J
      BY <2>1, <2>2
    <2> QED
      BY <2>5, <2>6, <2>7
  <1>2. ASSUME NEW k \in J, Takes(p[i], n, j, k), Rest(p, n, i + 1, k)
        PROVE  Rest(p, n, i, j)
    <2>1. PICK g \in [(i + 1)..(m + 1) -> J] :
             g[i + 1] = k /\ g[m + 1] = Len(n) + 1 /\ \A l \in (i + 1)..m : Fits(p, n, g, l)
      BY <1>2 DEF Rest
    <2> DEFINE f == [l \in i..(m + 1) |-> IF l = i THEN j ELSE g[l]]
    <2>2. \A l \in i..(m + 1) : l # i => l \in (i + 1)..(m + 1)
      BY <1>0
    <2>3. f \in [i..(m + 1) -> J] /\ f[i] = j /\ \A l \in (i + 1)..(m + 1) : f[l] = g[l]
      BY <1>0, <2>2
    <2> HIDE DEF f
    <2>4. ASSUME NEW l \in i..m PROVE Fits(p, n, f, l)
      <3>1. CASE l = i
        <4>1. i + 1 \in (i + 1)..(m + 1)
          BY <1>0
        <4>2. f[i] = j /\ f[i + 1] = k
          BY <2>1, <2>3, <4>1
        <4> QED
          BY <1>2, <3>1, <4>2 DEF Fits, Takes
      <3>2. CASE l # i
        <4>1. l \in (i + 1)..m /\ l \in (i + 1)..(m + 1) /\ l + 1 \in (i + 1)..(m + 1)
          BY <1>0, <3>2
        <4>2. Fits(p, n, g, l) /\ f[l] = g[l] /\ f[l + 1] = g[l + 1]
          BY <2>1, <2>3, <4>1
        <4> QED
          BY <4>2 DEF Fits
      <3> QED
        BY <3>1, <3>2
    <2>5. f[m + 1] = Len(n) + 1
      <3>1. m + 1 \in (i + 1)..(m + 1)
        BY <1>0
      <3> QED
        BY <2>1, <2>3, <3>1
    <2> QED
      BY <2>3, <2>4, <2>5 DEF Rest
  <1> QED
    BY <1>1, <1>2

\* Where a match of the rest of a pattern from i on can begin.
Starts(p, n, i) == {j \in 1..(Len(n) + 1) : Rest(p, n, i, j)}

\* One character of a glob, and what it is written as for LIKE, match the same.
LEMMA LikeOneExact ==
    ASSUME NEW p \in Seq(Chars), NEW n \in Seq(Chars), NEW i \in 1..Len(p)
    PROVE  Starts(p, n, i) =
              IF p[i] = "*" THEN LikeOne("%", FALSE, n, Starts(p, n, i + 1))
              ELSE LikeOne(p[i], TRUE, n, Starts(p, n, i + 1))
  <1> DEFINE J == 1..(Len(n) + 1)
             next == Starts(p, n, i + 1)
  <1>0. Len(n) \in Nat
    OBVIOUS
  <1>1. \A j \in J : j \in Starts(p, n, i) <=> \E k \in next : Takes(p[i], n, j, k)
    BY RestOn DEF Starts
  <1>2. Starts(p, n, i) \subseteq J /\ next \subseteq J
    BY DEF Starts
  <1> HIDE DEF next
  <1>3. CASE p[i] = "*"
    <2>1. \A j \in J : j \in Starts(p, n, i) <=> \E k \in next : j <= k
      BY <1>1, <1>3 DEF Takes
    <2>2. LikeOne("%", FALSE, n, next) = {j \in J : \E k \in next : j <= k}
      BY DEF LikeOne
    <2>3. Starts(p, n, i) = LikeOne("%", FALSE, n, next)
      BY <1>2, <2>1, <2>2
    <2> QED
      BY <1>3, <2>3 DEF next
  <1>4. CASE p[i] # "*"
    <2>1. \A j \in J : j \in Starts(p, n, i) <=> j <= Len(n) /\ n[j] = p[i] /\ j + 1 \in next
      BY <1>1, <1>4 DEF Takes
    <2>2. LikeOne(p[i], TRUE, n, next) = {j \in 1..Len(n) : j + 1 \in next /\ n[j] = p[i]}
      BY DEF LikeOne
    <2>3. \A j : j \in 1..Len(n) <=> j \in J /\ j <= Len(n)
      BY <1>0
    <2>4. Starts(p, n, i) = LikeOne(p[i], TRUE, n, next)
      BY <1>2, <2>1, <2>2, <2>3
    <2> QED
      BY <1>4, <2>4 DEF next
  <1> QED
    BY <1>3, <1>4

\* What LIKE admits of a name from the text for p[i] on is what the glob admits from
\* p[i] on, if that is so for what follows.
LEMMA LikeStep ==
    ASSUME NEW p \in Seq(Chars), NEW n \in Seq(Chars), NEW like \in Seq(LikeChars), NEW pos, NEW rest,
           Written(p, like, pos), LikeRests(like, n, rest),
           NEW i \in 1..Len(p), rest[pos[i + 1]] = Starts(p, n, i + 1)
    PROVE  rest[pos[i]] = Starts(p, n, i)
  <1> DEFINE L == Len(like)
             c == p[i]
             a == pos[i]
             b == pos[i + 1]
             text == Escaped(c)
  <1>0. L \in Nat /\ c \in Chars /\ Len(p) \in Nat
    OBVIOUS
  <1>1. /\ a \in Nat /\ a # 0 /\ b \in Nat /\ b = a + Len(text) /\ b <= L + 1
        /\ \A k \in 1..Len(text) : like[a + (k - 1)] = text[k]
    <2>1. i \in 1..(Len(p) + 1) /\ i + 1 \in 1..(Len(p) + 1)
      BY <1>0
    <2> QED
      BY <2>1 DEF Written
  <1>2. \A k \in 1..(L + 1) :
           rest[k] = IF k > L THEN {Len(n) + 1}
                     ELSE IF like[k] = "=" /\ k < L THEN LikeOne(like[k + 1], TRUE, n, rest[k + 2])
                     ELSE LikeOne(like[k], FALSE, n, rest[k + 1])
    BY DEF LikeRests
  <1>3. Starts(p, n, i) = IF c = "*" THEN LikeOne("%", FALSE, n, rest[b]) ELSE LikeOne(c, TRUE, n, rest[b])
    BY LikeOneExact
  <1> HIDE DEF L, c, a, b, text
  <1>4. CASE c \in {"%", "_", "="}
    <2>1. Len(text) = 2 /\ text[1] = "=" /\ text[2] = c
      BY <1>0, <1>4, EscapedFacts DEF text
    <2>2. b = a + 2 /\ a \in 1..(L + 1) /\ a < L /\ ~(a > L) /\ a + (1 - 1) = a /\ a + (2 - 1) = a + 1
      BY <1>0, <1>1, <2>1
    <2>3. like[a] = "=" /\ like[a + 1] = c
      <3>1. 1 \in 1..Len(text) /\ 2 \in 1..Len(text)
        BY <2>1
      <3>2. like[a + (1 - 1)] = text[1] /\ like[a + (2 - 1)] = text[2]
        BY <1>1, <3>1
      <3> QED
        BY <2>1, <2>2, <3>2
    <2>4. rest[a] = LikeOne(c, TRUE, n, rest[b])
      BY <1>2, <2>2, <2>3
    <2>5. c # "*"
      BY <1>4
    <2> QED
      BY <1>3, <2>4, <2>5 DEF a
  <1>5. CASE c \notin {"%", "_", "="}
    <2>1. Len(text) = 1 /\ text[1] = (IF c = "*" THEN "%" ELSE c)
      BY <1>0, <1>5, EscapedFacts DEF text
    <2>2. b = a + 1 /\ a \in 1..(L + 1) /\ ~(a > L) /\ a + (1 - 1) = a
      BY <1>0, <1>1, <2>1
    <2>3. like[a] = IF c = "*" THEN "%" ELSE c
      <3>1. 1 \in 1..Len(text)
        BY <2>1
      <3>2. like[a + (1 - 1)] = text[1]
        BY <1>1, <3>1
      <3> QED
        BY <2>1, <2>2, <3>2
    <2>4. like[a] # "="
      BY <1>5, <2>3
    <2>5. rest[a] = LikeOne(like[a], FALSE, n, rest[b])
      BY <1>2, <2>2, <2>4
    <2>6. c # "*" => LikeOne(c, FALSE, n, rest[b]) = LikeOne(c, TRUE, n, rest[b])
      BY <1>5 DEF LikeOne
    <2>7. rest[a] = Starts(p, n, i)
      BY <1>3, <2>3, <2>5, <2>6
    <2> QED
      BY <2>7 DEF a
  <1> QED
    BY <1>4, <1>5

\* MySQL's LIKE admits the names that the glob matches from one end to the other.
LEMMA LikeExact ==
    ASSUME NEW p \in Seq(Chars), p # <<>>, NEW n \in Seq(Chars)
    PROVE  Like(ToSQLLike(p), n) <=> Reaches(p, n, Len(p) + 1, Len(n) + 1)
  <1> DEFINE like == ToSQLLike(p)
             m == Len(p)
  <1>0. m \in Nat /\ m # 0 /\ Len(n) \in Nat
    OBVIOUS
  <1>1. like \in Seq(LikeChars)
    BY LikeWritten
  <1>2. PICK pos : Written(p, like, pos)
    BY LikeWritten
  <1>3. PICK rest : LikeRests(like, n, rest) /\ (Like(like, n) <=> 1 \in rest[1])
    BY <1>1, LikeDefined
  <1> DEFINE S == {k \in 0..m : rest[pos[(m + 1) - k]] = Starts(p, n, (m + 1) - k)}
  <1> HIDE DEF like
  <1>4. 0 \in S
    <2>1. pos[m + 1] = Len(like) + 1 /\ Len(like) \in Nat
      BY <1>1, <1>2 DEF Written
    <2>2. rest[Len(like) + 1] = {Len(n) + 1}
      <3> DEFINE L == Len(like)
      <3>1. L + 1 \in 1..(L + 1) /\ L + 1 > L
        BY <2>1
      <3> QED
        BY <1>3, <3>1 DEF LikeRests
    <2>3. Starts(p, n, m + 1) = {Len(n) + 1}
      BY <1>0, RestEnds DEF Starts
    <2>4. (m + 1) - 0 = m + 1 /\ 0 \in 0..m
      BY <1>0
    <2> QED
      BY <2>1, <2>2, <2>3, <2>4
  <1>5. \A k \in Nat : k < m /\ k \in S => k + 1 \in S
    <2> SUFFICES ASSUME NEW k \in Nat, k < m, k \in S
                 PROVE  k + 1 \in S
      <3> HIDE DEF S
      <3> QED
        OBVIOUS
    <2> DEFINE i == m - k
    <2>1. i \in 1..m /\ (m + 1) - k = i + 1 /\ (m + 1) - (k + 1) = i /\ k + 1 \in 0..m
      BY <1>0, SMTT(20)
    <2>2. rest[pos[i + 1]] = Starts(p, n, i + 1)
      BY <2>1
    <2> HIDE DEF i
    <2>3. rest[pos[i]] = Starts(p, n, i)
      BY <1>1, <1>2, <1>3, <2>1, <2>2, LikeStep
    <2> QED
      BY <2>1, <2>3
  <1>6. \A k \in 0..m : k \in S
    <2> HIDE DEF S, m
    <2> QED
      BY <1>0, <1>4, <1>5, InductionTo, Zenon
  <1>7. rest[pos[1]] = Starts(p, n, 1)
    <2>1. m \in 0..m /\ (m + 1) - m = 1
      BY <1>0
    <2> QED
      BY <1>6, <2>1
  <1>8. rest[1] = Starts(p, n, 1)
    BY <1>2, <1>7 DEF Written
  <1>9. 1 \in Starts(p, n, 1) <=> Reaches(p, n, m + 1, Len(n) + 1)
    <2>1. 1 \in 1..(Len(n) + 1)
      BY <1>0
    <2> QED
      BY <2>1, RestFirst DEF Starts
  <1> QED
    BY <1>3, <1>8, <1>9 DEF like

\* What MySQL is asked for is what the allow-list admits.
LEMMA WhereIsAllowed ==
    ASSUME filter \in Filters, NEW n \in Seq(Chars)
    PROVE  Where(n) <=> Allowed(n)
  <1> DEFINE Valid == {p \in Seq(Chars) : Validate(p)}
  <1>1. filter.patterns \in Seq(Valid)
    BY FiltersAssumption
  <1>2. ASSUME NEW i \in DOMAIN filter.patterns
        PROVE  Like(ToSQLLike(filter.patterns[i]), n) <=> Matches(filter.patterns[i], n)
    <2>1. filter.patterns[i] \in Valid
      <3> HIDE DEF Valid
      <3> QED
        BY <1>1
    <2>2. filter.patterns[i] \in Seq(Chars) /\ Validate(filter.patterns[i]) /\ filter.patterns[i] # <<>>
      BY <2>1 DEF Validate
    <2> QED
      BY <2>2, LikeExact DEF Matches
  <1> QED
    BY <1>2 DEF Where, Allowed

-----------------------------------------------------------------------------
(* What may be listed.                                                       *)

LEMMA MaxRowsFacts ==
    ASSUME ListTypeOK
    PROVE  /\ MaxInt \in Nat /\ maxRows \in 1..MaxInt
           /\ ServiceRows \in Nat /\ ServiceRows = (IF maxRows < MaxInt THEN maxRows + 1 ELSE maxRows)
  BY MaxRowsAssumption DEF ListTypeOK, ServiceRows

\* What the allow-list admits of a list, by the number of schemas seen.
LEMMA AdmittedDefined ==
    ASSUME NEW s \in Seq(Seq(Chars))
    PROVE  /\ Admitted(s) \in [0..Len(s) -> Seq(Seq(Chars))]
           /\ Admitted(s)[0] = <<>>
           /\ \A i \in 1..Len(s) :
                 Admitted(s)[i] = IF Allowed(s[i]) THEN Append(Admitted(s)[i - 1], s[i])
                                  ELSE Admitted(s)[i - 1]
  <1> DEFINE N == Len(s)
             D == 0..N
             C == Seq(Chars)
             V == Seq(C)
             Body(i, g) == IF i = 0 THEN <<>>
                           ELSE IF Allowed(s[i]) THEN Append(g[i - 1], s[i]) ELSE g[i - 1]
             Is(f) == f = [i \in 0..Len(s) |->
                             IF i = 0 THEN <<>>
                             ELSE IF Allowed(s[i]) THEN Append(f[i - 1], s[i]) ELSE f[i - 1]]
             rank == [i \in D |-> i]
             step == [i \in D |-> [g \in [D -> V] |-> Body(i, g)]]
  <1>0. N \in Nat /\ \A i \in 1..N : s[i] \in C
    OBVIOUS
  <1>p. \A i \in D : i # 0 => i - 1 \in D /\ i - 1 < i /\ i \in 1..N
    BY <1>0
  <1>v. <<>> \in V /\ \A t \in V, c \in C : Append(t, c) \in V
    <2> HIDE DEF C
    <2> QED
      OBVIOUS
  <1>1. \A i \in D, g \in [D -> V] : Body(i, g) \in V
    <2> HIDE DEF V, C, D, N
    <2> SUFFICES ASSUME NEW i \in D, NEW g \in [D -> V] PROVE Body(i, g) \in V
      BY Zenon
    <2>1. i # 0 => g[i - 1] \in V /\ s[i] \in C
      BY <1>0, <1>p
    <2> QED
      BY <2>1, <1>v
  <1>2. step \in Steps(D, V)
    <2> HIDE DEF Body, D, V
    <2> QED
      BY <1>1 DEF Steps
  <1>3. LooksBack(D, V, rank, step)
    <2> SUFFICES ASSUME NEW i \in D, NEW g \in [D -> V], NEW h \in [D -> V],
                        \A k \in D : rank[k] < rank[i] => g[k] = h[k]
                 PROVE  step[i][g] = step[i][h]
      BY Zenon DEF LooksBack
    <2>1. i # 0 => g[i - 1] = h[i - 1]
      BY <1>p
    <2> HIDE DEF D, V
    <2>2. Body(i, g) = Body(i, h)
      BY <2>1, Zenon
    <2> HIDE DEF Body
    <2> QED
      BY <2>2
  <1>4. PICK r : Solves(D, V, step, r)
    <2>1. rank \in [D -> 0..N]
      OBVIOUS
    <2> HIDE DEF step, rank, D, V, N
    <2> QED
      BY <1>0, <1>v, <1>2, <1>3, <2>1, Recursion, Zenon
  <1>5. Is(r)
    <2>1. r \in [D -> V] /\ \A i \in D : r[i] = step[i][r]
      BY <1>4, Zenon DEF Solves
    <2>2. \A i \in D : r[i] = Body(i, r)
      <3> HIDE DEF Body, D, V
      <3> QED
        BY <2>1
    <2> HIDE DEF V, step
    <2> QED
      BY <2>1, <2>2
  <1>6. Admitted(s) = CHOOSE f : Is(f)
    BY Zenon DEF Admitted
  <1> DEFINE kept == CHOOSE f : Is(f)
  <1>7. Is(kept)
    <2> HIDE DEF Is
    <2> QED
      BY <1>5, Zenon
  <1> HIDE DEF kept
  <1>8. kept = [i \in D |-> Body(i, kept)]
    BY <1>7, Zenon
  <1>9. \A i \in D : kept[i] = Body(i, kept)
    <2> HIDE DEF Body, D
    <2> QED
      BY <1>8
  <1>10. kept[0] = <<>>
    BY <1>0, <1>9
  <1>11. \A i \in 1..N : kept[i] = IF Allowed(s[i]) THEN Append(kept[i - 1], s[i]) ELSE kept[i - 1]
    <2>1. \A i \in 1..N : i \in D /\ i # 0
      BY <1>0
    <2> HIDE DEF D, N
    <2> QED
      BY <1>9, <2>1, Zenon
  <1>12. \A i \in D : kept[i] \in V
    <2> DEFINE S == {i \in D : kept[i] \in V}
    <2>1. 0 \in S
      <3>1. 0 \in D
        BY <1>0
      <3> HIDE DEF V, D
      <3> QED
        BY <1>v, <1>10, <3>1
    <2>2. \A k \in Nat : k < N /\ k \in S => k + 1 \in S
      <3> SUFFICES ASSUME NEW k \in Nat, k < N, k \in S PROVE k + 1 \in S
        <4> HIDE DEF S
        <4> QED
          OBVIOUS
      <3>1. k + 1 \in 1..N /\ (k + 1) - 1 = k /\ k + 1 \in D /\ kept[k] \in V /\ s[k + 1] \in C
        BY <1>0
      <3> HIDE DEF V, D, C, N
      <3>2. kept[k + 1] \in V
        BY <1>11, <1>v, <3>1
      <3> QED
        BY <3>1, <3>2
    <2>3. \A i \in 0..N : i \in S
      <3> HIDE DEF S, N
      <3> QED
        BY <1>0, <2>1, <2>2, InductionTo, Zenon
    <2> QED
      BY <2>3
  <1>13. kept \in [D -> V]
    <2> HIDE DEF Body, V, D
    <2> QED
      BY <1>8, <1>12
  <1> QED
    BY <1>6, <1>10, <1>11, <1>13 DEF kept

\* No more is admitted than has been seen, and the rest comes after it.
LEMMA AdmittedFacts ==
    ASSUME NEW s \in Seq(Seq(Chars))
    PROVE  \A i \in 0..Len(s) :
              /\ Admitted(s)[i] \in Seq(Seq(Chars))
              /\ Len(Admitted(s)[i]) <= i
              /\ Begins(Admitted(s)[i], Admitted(s)[Len(s)])
  <1> DEFINE N == Len(s)
             g == Admitted(s)
             C == Seq(Chars)
  <1>0. N \in Nat /\ \A i \in 1..N : s[i] \in C
    OBVIOUS
  <1>1. /\ g \in [0..N -> Seq(C)] /\ g[0] = <<>>
        /\ \A i \in 1..N : g[i] = IF Allowed(s[i]) THEN Append(g[i - 1], s[i]) ELSE g[i - 1]
    BY AdmittedDefined
  <1> HIDE DEF N, g, C
  <1>2. \A i \in 0..N : g[i] \in Seq(C) /\ Len(g[i]) \in Nat
    BY <1>1
  <1>3. \A i \in 1..N : Begins(g[i - 1], g[i]) /\ Len(g[i]) <= Len(g[i - 1]) + 1
    <2> SUFFICES ASSUME NEW i \in 1..N
                 PROVE  Begins(g[i - 1], g[i]) /\ Len(g[i]) <= Len(g[i - 1]) + 1
      OBVIOUS
    <2>1. i - 1 \in 0..N /\ g[i - 1] \in Seq(C) /\ s[i] \in C /\ Len(g[i - 1]) \in Nat
      BY <1>0, <1>2
    <2>2. g[i] = Append(g[i - 1], s[i]) \/ g[i] = g[i - 1]
      BY <1>1
    <2> DEFINE t == g[i - 1]
               c == s[i]
    <2>3. t \in Seq(C) /\ c \in C /\ Len(t) \in Nat /\ (g[i] = Append(t, c) \/ g[i] = t)
      BY <2>1, <2>2
    <2> HIDE DEF t, c
    <2>4. Begins(t, g[i]) /\ Len(g[i]) <= Len(t) + 1
      <3>1. CASE g[i] = t
        BY <2>3, <3>1 DEF Begins
      <3>2. CASE g[i] = Append(t, c)
        <4>1. Len(Append(t, c)) = Len(t) + 1 /\ \A k \in 1..Len(t) : Append(t, c)[k] = t[k]
          BY <2>3
        <4> QED
          BY <2>3, <3>2, <4>1 DEF Begins
      <3> QED
        BY <2>3, <3>1, <3>2
    <2> QED
      BY <2>4 DEF t
  <1>4. \A i \in 0..N : Begins(g[i], g[N])
    BY <1>0, <1>1, <1>3, BeginningsGrow
  <1>5. \A i \in 0..N : Len(g[i]) <= i
    <2> DEFINE S == {i \in 0..N : Len(g[i]) <= i}
    <2>1. 0 \in S
      BY <1>0, <1>1
    <2>2. \A k \in Nat : k < N /\ k \in S => k + 1 \in S
      <3> SUFFICES ASSUME NEW k \in Nat, k < N, k \in S PROVE k + 1 \in S
        <4> HIDE DEF S
        <4> QED
          OBVIOUS
      <3>1. k + 1 \in 1..N /\ (k + 1) - 1 = k /\ k + 1 \in 0..N /\ k \in 0..N /\ Len(g[k]) <= k
        BY <1>0
      <3>2. Len(g[k + 1]) <= Len(g[k]) + 1 /\ Len(g[k]) \in Nat /\ Len(g[k + 1]) \in Nat
        BY <1>2, <1>3, <3>1
      <3> QED
        BY <3>1, <3>2
    <2>3. \A i \in 0..N : i \in S
      <3> HIDE DEF S
      <3> QED
        BY <1>0, <2>1, <2>2, InductionTo, Zenon
    <2> QED
      BY <2>3
  <1> QED
    BY <1>2, <1>4, <1>5 DEF N, g, C

\* What a call may list depends on its source, its tool and what MySQL answers.
LEMMA SameList ==
    ASSUME UNCHANGED <<filter, maxRows, op, answer>>
    PROVE  /\ Whole' = Whole /\ Admitted(answer)' = Admitted(answer) /\ ServiceRows' = ServiceRows
           /\ \A n : Allowed(n)' <=> Allowed(n)
           /\ \A k : Leading(k)' = Leading(k)
  <1>1. \A n : Allowed(n)' <=> Allowed(n)
    BY DEF Allowed, Restricted
  <1>2. Admitted(answer)' = Admitted(answer)
    BY ZenonT(30) DEF Admitted, Allowed, Restricted
  <1>3. Whole' = Whole
    BY <1>2 DEF Whole
  <1> QED
    BY <1>1, <1>2, <1>3 DEF ServiceRows, Leading

LEMMA SameRows ==
    ASSUME UNCHANGED <<filter, maxRows, op, answer, listed>>
    PROVE  Bounded' <=> Bounded
  BY SameList DEF Bounded, Begins

LEMMA WholeFacts ==
    ASSUME ListTypeOK, RowsInv
    PROVE  Whole \in Seq(Row) /\ Len(Whole) \in Nat /\ Len(Whole) <= MaxInt
  <1>0. Len(answer) \in Nat /\ Len(answer) <= MaxInt /\ MaxInt \in Nat
    BY MaxRowsFacts DEF ListTypeOK, RowsInv
  <1>1. CASE op = "schemas"
    <2>1. answer \in Seq(Seq(Chars)) /\ Whole = Admitted(answer)[Len(answer)]
      BY <1>1 DEF ListTypeOK, Row, Whole
    <2>2. Len(answer) \in 0..Len(answer)
      BY <1>0
    <2>3. Whole \in Seq(Seq(Chars)) /\ Len(Whole) <= Len(answer)
      BY <2>1, <2>2, AdmittedFacts
    <2>4. Len(Whole) \in Nat
      BY <2>3
    <2> QED
      BY <1>0, <1>1, <2>3, <2>4 DEF Row
  <1>2. CASE op # "schemas"
    BY <1>0, <1>2 DEF ListTypeOK, Whole
  <1> QED
    BY <1>1, <1>2

\* A sequence that begins another and is as long as it is the other.
LEMMA BeginsAll ==
    ASSUME NEW S, NEW s \in Seq(S), NEW t \in Seq(S), Begins(s, t), Len(s) = Len(t)
    PROVE  s = t
  BY DEF Begins

LEMMA BeginsAppend ==
    ASSUME NEW S, NEW s \in Seq(S), NEW t \in Seq(S), Begins(s, t), Len(s) < Len(t)
    PROVE  /\ Begins(Append(s, t[Len(s) + 1]), t)
           /\ Append(s, t[Len(s) + 1]) \in Seq(S)
           /\ Len(Append(s, t[Len(s) + 1])) = Len(s) + 1
  <1> DEFINE c == t[Len(s) + 1]
             u == Append(s, c)
  <1>1. Len(s) \in Nat /\ Len(t) \in Nat /\ c \in S
    OBVIOUS
  <1>2. /\ u \in Seq(S) /\ Len(u) = Len(s) + 1 /\ u[Len(s) + 1] = c
        /\ \A k \in 1..Len(s) : u[k] = s[k]
    BY <1>1
  <1> HIDE DEF u
  <1>3. Begins(u, t)
    <2>1. \A k \in 1..(Len(s) + 1) : k \in 1..Len(s) \/ k = Len(s) + 1
      BY <1>1
    <2> QED
      BY <1>1, <1>2, <2>1 DEF Begins
  <1> QED
    BY <1>2, <1>3 DEF u

LEMMA BeginsTransitive ==
    ASSUME NEW S, NEW s \in Seq(S), NEW t \in Seq(S), NEW u \in Seq(S), Begins(s, t), Begins(t, u)
    PROVE  Begins(s, u)
  <1>1. Len(s) \in Nat /\ Len(t) \in Nat /\ Len(u) \in Nat
    OBVIOUS
  <1>2. \A k \in 1..Len(s) : k \in 1..Len(t)
    BY <1>1 DEF Begins
  <1> QED
    BY <1>1, <1>2 DEF Begins

\* The first k of a sequence are its beginning of that length.
LEMMA BeginsSubSeq ==
    ASSUME NEW S, NEW s \in Seq(S), NEW k \in 0..Len(s)
    PROVE  /\ SubSeq(s, 1, k) \in Seq(S) /\ Len(SubSeq(s, 1, k)) = k
           /\ Begins(SubSeq(s, 1, k), s)
  <1>1. Len(s) \in Nat /\ k \in Nat /\ \A i \in 1..k : s[i] \in S
    OBVIOUS
  <1>2. /\ SubSeq(s, 1, k) \in Seq(S)
        /\ Len(SubSeq(s, 1, k)) = IF 1 <= k THEN k - 1 + 1 ELSE 0
        /\ \A i \in 1..(k - 1 + 1) : SubSeq(s, 1, k)[i] = s[1 + i - 1]
    BY <1>1, SubSeqProperties
  <1> DEFINE u == SubSeq(s, 1, k)
  <1>3. u \in Seq(S) /\ Len(u) = k
    BY <1>1, <1>2
  <1>4. \A i \in 1..k : u[i] = s[i]
    <2>1. k - 1 + 1 = k /\ \A i \in 1..k : 1 + i - 1 = i
      BY <1>1
    <2> QED
      BY <1>2, <2>1
  <1> HIDE DEF u
  <1>5. Begins(u, s)
    BY <1>1, <1>3, <1>4 DEF Begins
  <1> QED
    BY <1>3, <1>5 DEF u

\* Two beginnings of one sequence, of the same length.
LEMMA BeginsUnique ==
    ASSUME NEW S, NEW s \in Seq(S), NEW t \in Seq(S), NEW u \in Seq(S),
           Begins(s, u), Begins(t, u), Len(s) = Len(t)
    PROVE  s = t
  <1>1. Len(s) \in Nat /\ Len(u) \in Nat
    OBVIOUS
  <1>2. Begins(s, t)
    BY <1>1 DEF Begins
  <1> QED
    BY <1>2, BeginsAll

LEMMA MinFacts ==
    ASSUME NEW a \in Nat, NEW b \in Nat
    PROVE  Min({a, b}) = IF a > b THEN b ELSE a
  <1> DEFINE m == IF a > b THEN b ELSE a
  <1>1. m \in {a, b} /\ \A x \in {a, b} : m <= x
    OBVIOUS
  <1>2. \A y \in {a, b} : (\A x \in {a, b} : y <= x) => y = m
    OBVIOUS
  <1> HIDE DEF m
  <1>3. Min({a, b}) = m
    BY <1>1, <1>2 DEF Min
  <1> QED
    BY <1>3 DEF m

\* The first k of all that may be listed.
LEMMA LeadingFacts ==
    ASSUME ListTypeOK, RowsInv, NEW k \in Nat, NEW s \in Seq(Row), Begins(s, Whole),
           Len(s) = IF Len(Whole) > k THEN k ELSE Len(Whole)
    PROVE  s = Leading(k)
  <1> DEFINE w == Whole
             l == Len(Whole)
             n == Min({k, l})
  <1>1. w \in Seq(Row) /\ l \in Nat
    BY WholeFacts
  <1>2. n = IF l > k THEN k ELSE l
    <2> HIDE DEF l
    <2> QED
      BY <1>1, MinFacts
  <1>3. n \in 0..l /\ Len(s) = n
    BY <1>1, <1>2
  <1> HIDE DEF n
  <1>4. SubSeq(w, 1, n) \in Seq(Row) /\ Len(SubSeq(w, 1, n)) = n /\ Begins(SubSeq(w, 1, n), w)
    <2> HIDE DEF w
    <2>1. n \in 0..Len(w)
      BY <1>3 DEF w
    <2> QED
      BY <1>1, <2>1, BeginsSubSeq
  <1>5. s = SubSeq(w, 1, n)
    <2> HIDE DEF w
    <2>1. Begins(s, w)
      BY DEF w
    <2> QED
      BY <1>1, <1>3, <1>4, <2>1, BeginsUnique
  <1> QED
    BY <1>5 DEF Leading, n

-----------------------------------------------------------------------------
(* One step of a call.                                                       *)

\* The answer of SchemaAllowed ends the loop over the patterns.
LEMMA VerdictKeeps ==
    ASSUME ListTypeOK, IInv, pc \in {"allows", "matching"},
           NEW allowed \in BOOLEAN, allowed <=> Allowed(subject), Verdict(allowed),
           UNCHANGED <<sourceVars, callVars, allowsVars, rowVars, listed, truncated>>
    PROVE  IInv'
  <1> USE DEF sourceVars, callVars, allowsVars, rowVars
  <1>0. RowsInv /\ LoopInv /\ AllowsInv
    BY DEF IInv
  <1>1. /\ \A n : Allowed(n)' <=> Allowed(n)
        /\ Bounded' <=> Bounded
    BY SameList, SameRows
  <1>2. CASE op = "schemas"
    <2>1. /\ Bounded /\ fetched \in 1..Len(listed) /\ subject = listed[fetched]
          /\ Begins(filtered, listed) /\ Len(filtered) = fetched - 1
          /\ \A i \in 1..Len(listed) : Allowed(listed[i])
      BY <1>0, <1>2 DEF RowsInv, LoopInv
    <2>2. filtered' = Append(filtered, listed[fetched]) /\ pc' = "filter"
      BY <1>2, <2>1 DEF Verdict
    <2>3. Begins(filtered', listed) /\ Len(filtered') = fetched
      <3>1. /\ filtered \in Seq(Row) /\ listed \in Seq(Row) /\ Len(filtered) < Len(listed)
            /\ Len(filtered) + 1 = fetched
        BY <2>1 DEF ListTypeOK
      <3> QED
        BY <2>1, <2>2, <3>1, BeginsAppend
    <2>4. RowsInv'
      BY <1>0, <1>1, <2>1, <2>2 DEF RowsInv
    <2>5. LoopInv'
      BY <2>2, <2>3 DEF LoopInv, Begins
    <2>6. AllowsInv' /\ ListingExact'
      BY <1>2, <2>2 DEF AllowsInv, ListingExact
    <2> QED
      BY <2>4, <2>5, <2>6 DEF IInv
  <1>3. CASE op # "schemas"
    <2>1. Unread /\ subject = schema
      BY <1>0, <1>3 DEF RowsInv, AllowsInv
    <2>2. pc' = (IF allowed THEN "identify" ELSE "refused") /\ filtered' = filtered
      BY <1>3 DEF Verdict
    <2>3. RowsInv'
      BY <1>0, <1>3, <2>1, <2>2 DEF RowsInv, Unread
    <2>4. LoopInv'
      BY <2>2 DEF LoopInv
    <2>5. AllowsInv'
      BY <1>1, <2>1, <2>2 DEF AllowsInv
    <2>6. ListingExact'
      BY <1>1, <2>1, <2>2 DEF ListingExact
    <2> QED
      BY <2>3, <2>4, <2>5, <2>6 DEF IInv
  <1> QED
    BY <1>2, <1>3

LEMMA AllowsKeeps ==
    ASSUME ListTypeOK, FilterInv, IInv, AllowsAtOnce \/ Matched \/ Disallowed
    PROVE  IInv'
  <1>0. AllowsInv
    BY DEF IInv
  <1>1. CASE AllowsAtOnce
    <2>1. Allowed(subject)
      BY <1>1 DEF AllowsAtOnce, Allowed
    <2> QED
      BY <1>1, <2>1, VerdictKeeps DEF AllowsAtOnce
  <1>2. CASE Disallowed
    <2>1. ~Allowed(subject)
      <3>1. /\ Restricted /\ subject \notin filter.exact /\ tried = Len(filter.patterns)
            /\ \A i \in 1..tried : ~Matches(filter.patterns[i], subject)
        BY <1>0, <1>2 DEF Disallowed, AllowsInv
      <3>2. DOMAIN filter.patterns = 1..tried
        <4> DEFINE V == {p \in Seq(Chars) : Validate(p)}
        <4>1. filter.patterns \in Seq(V)
          BY FiltersAssumption DEF ListTypeOK
        <4> HIDE DEF V
        <4> QED
          BY <3>1, <4>1
      <3> QED
        BY <3>1, <3>2 DEF Allowed
    <2> QED
      BY <1>2, <2>1, VerdictKeeps DEF Disallowed
  <1>3. CASE Matched
    <2> USE DEF Matched
    <2>1. /\ tried > 0 /\ pattern = filter.patterns[tried] /\ name = subject
          /\ \A i \in 1..(tried - 1) : ~Matches(filter.patterns[i], subject)
          /\ op # "schemas" => subject = schema
          /\ result = Matches(pattern, name)
      BY <1>0, <1>3 DEF AllowsInv, FilterInv, MatchesWholeName
    <2>2. tried \in 1..Len(filter.patterns) /\ tried \in Nat
      BY <2>1, FilterFacts DEF ListTypeOK
    <2>3. CASE result
      <3>1. Allowed(subject)
        <4> DEFINE V == {p \in Seq(Chars) : Validate(p)}
        <4>1. filter.patterns \in Seq(V)
          BY FiltersAssumption DEF ListTypeOK
        <4> HIDE DEF V
        <4>2. tried \in DOMAIN filter.patterns
          BY <2>2, <4>1
        <4> QED
          BY <2>1, <2>3, <4>2 DEF Allowed
      <3> QED
        BY <1>3, <2>3, <3>1, VerdictKeeps
    <2>4. CASE ~result
      <3> USE DEF sourceVars, callVars, allowsVars, rowVars
      <3>1. pc = "matching" /\ pc' = "allows" /\ filtered' = filtered
        BY <1>3, <2>4
      <3>2. \A i \in 1..tried : ~Matches(filter.patterns[i], subject)
        <4>1. ~Matches(filter.patterns[tried], subject)
          BY <2>1, <2>4
        <4>2. \A i \in 1..tried : i \in 1..(tried - 1) \/ i = tried
          BY <2>2
        <4> QED
          BY <2>1, <4>1, <4>2
      <3>3. Bounded' <=> Bounded
        BY <1>3, SameRows
      <3>4. \A n : Allowed(n)' <=> Allowed(n)
        BY <1>3, SameList
      <3>5. RowsInv'
        BY <1>3, <3>1, <3>3, <3>4 DEF IInv, RowsInv, Unread
      <3>6. LoopInv'
        BY <1>3, <3>1 DEF IInv, LoopInv, Begins
      <3>7. AllowsInv'
        BY <1>3, <2>1, <3>1, <3>2 DEF AllowsInv, Matches
      <3>8. ListingExact'
        BY <3>1 DEF ListingExact
      <3> QED
        BY <3>5, <3>6, <3>7, <3>8 DEF IInv
    <2> QED
      BY <2>3, <2>4
  <1> QED
    BY <1>1, <1>2, <1>3

\* The loop of Match, and its call for the next pattern.
LEMMA MatchKeeps ==
    ASSUME ListTypeOK, IInv, Matching \/ TryPattern
    PROVE  IInv'
  <1> USE DEF sourceVars, callVars, allowsVars, rowVars, listVars
  <1>0. RowsInv /\ LoopInv /\ AllowsInv
    BY DEF IInv
  <1>1. /\ pc \in {"allows", "matching"} /\ pc' = "matching"
        /\ UNCHANGED <<filter, maxRows, op, schema, answer, fetched, listed, filtered, truncated, subject>>
    BY DEF Matching, TryPattern
  <1>2. Bounded' <=> Bounded
    BY <1>1, SameRows
  <1>3. \A n : Allowed(n)' <=> Allowed(n)
    BY <1>1, SameList
  <1>4. RowsInv'
    BY <1>0, <1>1, <1>2, <1>3 DEF RowsInv, Unread
  <1>5. LoopInv'
    BY <1>0, <1>1 DEF LoopInv, Begins
  <1>6. AllowsInv'
    <2>1. CASE Matching
      <3>1. UNCHANGED <<pattern, name, tried>> /\ pc = "matching"
        BY <2>1 DEF Matching, MatchStep, TakeStar, TakeChar, Retry, Backtrack, Mismatch, NameEnds,
                    SkipStar, PatternEnds
      <3> QED
        BY <1>0, <1>1, <3>1 DEF AllowsInv
    <2>2. CASE TryPattern
      <3>1. /\ pattern' = filter.patterns[tried + 1] /\ name' = subject /\ tried' = tried + 1
            /\ pc = "allows"
        BY <2>2 DEF TryPattern, StartMatch
      <3>2. tried \in Nat /\ (tried + 1) - 1 = tried /\ tried + 1 > 0
        BY FilterFacts DEF ListTypeOK
      <3> QED
        BY <1>0, <1>1, <3>1, <3>2 DEF AllowsInv
    <2> QED
      BY <2>1, <2>2
  <1>7. ListingExact'
    BY <1>1 DEF ListingExact
  <1> QED
    BY <1>4, <1>5, <1>6, <1>7 DEF IInv

LEMMA InitIInv == Init => IInv
  <1> SUFFICES ASSUME Init PROVE IInv
    OBVIOUS
  <1>1. Len(<<>>) = 0 /\ MaxInt \in Nat
    BY MaxRowsAssumption
  <1> QED
    BY <1>1 DEF Init, IInv, RowsInv, Unread, LoopInv, AllowsInv, ListingExact

LEMMA AskKeeps ==
    ASSUME ListTypeOK, IInv,
           AskSchemas \/ \E o \in Ops \ {"schemas"}, s \in Requested : AskInSchema(o, s)
    PROVE  IInv'
  <1>0. pc = "start" /\ op = "schemas" /\ Unread /\ Len(answer) <= MaxInt
    BY DEF AskSchemas, AskInSchema, IInv, RowsInv, ListTypeOK
  <1>1. CASE AskSchemas
    <2> USE DEF AskSchemas, sourceVars, callVars, allowsVars, rowVars, listVars
    <2>1. RowsInv'
      BY <1>0, <1>1 DEF RowsInv, Unread
    <2> QED
      BY <1>0, <1>1, <2>1 DEF IInv, LoopInv, AllowsInv, ListingExact
  <1>2. ASSUME NEW o \in Ops \ {"schemas"}, NEW s \in Requested, AskInSchema(o, s)
        PROVE  IInv'
    <2> USE DEF AskInSchema, sourceVars, rowVars, listVars
    <2>1. op' # "schemas" /\ pc' \in {"allows", "refused"} /\ schema' = s /\ subject' = s /\ tried' = 0
          /\ (pc' = "refused" => s = <<>>)
      BY <1>2
    <2>2. RowsInv'
      BY <1>0, <1>2, <2>1 DEF RowsInv, Unread
    <2>3. LoopInv' /\ AllowsInv' /\ ListingExact'
      BY <2>1 DEF LoopInv, AllowsInv, ListingExact
    <2> QED
      BY <2>2, <2>3 DEF IInv
  <1> QED
    BY <1>1, <1>2

\* The steps that change nothing but where the call is.
LEMMA MoveKeeps ==
    ASSUME ListTypeOK, IInv,
           Identify \/ IdentifyFails \/ TableFound \/ TableFails \/ RowsEnd \/ Broken \/ SchemasEnd
    PROVE  IInv'
  <1> USE DEF Move, sourceVars, callVars, allowsVars, rowVars, listVars
  <1>0. RowsInv /\ LoopInv /\ AllowsInv /\ ListingExact
    BY DEF IInv
  <1>1. UNCHANGED <<filter, maxRows, op, schema, answer, fetched, listed, filtered, truncated, subject>>
    BY DEF Identify, IdentifyFails, TableFound, TableFails, RowsEnd, Broken, SchemasEnd
  <1>2. (Bounded' <=> Bounded) /\ \A n : Allowed(n)' <=> Allowed(n)
    BY <1>1, SameRows, SameList
  <1>3. CASE Identify \/ TableFound
    <2>1. /\ pc \in {"identify", "table"} /\ pc' \in {"table", "query"}
      BY <1>3 DEF Identify, TableFound
    <2>2. RowsInv' /\ LoopInv' /\ AllowsInv' /\ ListingExact'
      BY <1>0, <1>1, <1>2, <2>1 DEF RowsInv, Unread, LoopInv, AllowsInv, ListingExact
    <2> QED
      BY <2>2 DEF IInv
  <1>4. CASE IdentifyFails \/ TableFails \/ Broken
    <2>1. pc' = "failed"
      BY <1>4 DEF IdentifyFails, TableFails, Broken
    <2>2. RowsInv' /\ LoopInv' /\ AllowsInv' /\ ListingExact'
      BY <1>0, <1>1, <1>2, <2>1 DEF RowsInv, LoopInv, AllowsInv, ListingExact
    <2> QED
      BY <2>2 DEF IInv
  <1>5. CASE RowsEnd
    <2>1. pc = "rows" /\ pc' = "err" /\ fetched = Len(answer) /\ Reading /\ filtered = <<>>
      BY <1>0, <1>5 DEF RowsEnd, RowsInv, LoopInv
    <2>2. Bounded
      <3>1. /\ Len(answer) \in Nat /\ Len(listed) \in Nat /\ ServiceRows \in Nat /\ Len(listed) <= ServiceRows
        BY <2>1, MaxRowsFacts DEF Reading, ListTypeOK
      <3>2. listed = Whole
        <4>1. CASE op = "schemas"
          BY <2>1, <4>1 DEF Reading, Whole
        <4>2. CASE op # "schemas"
          BY <2>1, <4>2, BeginsAll DEF Reading, Whole, ListTypeOK
        <4> QED
          BY <4>1, <4>2
      <3> QED
        BY <3>1, <3>2 DEF Bounded, Begins
    <2>3. RowsInv' /\ LoopInv' /\ AllowsInv' /\ ListingExact'
      BY <1>0, <1>1, <1>2, <2>1, <2>2 DEF RowsInv, LoopInv, AllowsInv, ListingExact
    <2> QED
      BY <2>3 DEF IInv
  <1>6. CASE SchemasEnd
    <2>1. /\ pc = "filter" /\ pc' = "trim" /\ fetched = Len(listed) /\ op = "schemas"
          /\ Begins(filtered, listed) /\ Len(filtered) = fetched /\ Bounded
      BY <1>0, <1>6 DEF SchemasEnd, RowsInv, LoopInv, ListTypeOK
    <2>2. filtered = listed
      BY <2>1, BeginsAll DEF ListTypeOK
    <2>3. RowsInv' /\ LoopInv' /\ AllowsInv' /\ ListingExact'
      BY <1>0, <1>1, <1>2, <2>1, <2>2 DEF RowsInv, LoopInv, AllowsInv, ListingExact
    <2> QED
      BY <2>3 DEF IInv
  <1> QED
    BY <1>3, <1>4, <1>5, <1>6

\* Of no rows, none is admitted.
LEMMA AdmittedNothing == answer \in Seq(Seq(Chars)) => Admitted(answer)[0] = <<>>
  BY AdmittedDefined

LEMMA QueryKeeps ==
    ASSUME ListTypeOK, IInv, Query
    PROVE  IInv'
  <1> USE DEF sourceVars, callVars, allowsVars, listVars
  <1>0. RowsInv /\ AllowsInv /\ ListingExact
    BY DEF IInv
  <1>1. /\ Unread /\ fetched' = 0 /\ listed' = <<>> /\ filtered' = <<>> /\ pc' = "rows"
        /\ pc = "query" /\ UNCHANGED <<op, schema, filter, maxRows>>
    BY <1>0 DEF Query, RowsInv, Unread
  <1>2. /\ Len(answer') \in Nat /\ Len(answer') <= MaxInt
        /\ op = "schemas" => answer' \in Seq(Seq(Chars))
    BY ListsAssumption DEF Query
  <1>3. (answer \in Seq(Seq(Chars)) => Admitted(answer)[0] = <<>>)'
    BY AdmittedNothing, PTL
  <1>4. Reading'
    <2>1. ServiceRows' \in Nat
      BY <1>1, MaxRowsFacts DEF ServiceRows
    <2>2. op = "schemas" => (Admitted(answer)[0])' = <<>>
      BY <1>2, <1>3
    <2> QED
      BY <1>1, <1>2, <2>1, <2>2 DEF Reading, Begins
  <1>5. RowsInv'
    BY <1>1, <1>2, <1>4 DEF RowsInv
  <1>6. LoopInv' /\ AllowsInv'
    BY <1>1 DEF LoopInv, AllowsInv
  <1>7. ListingExact'
    BY <1>0, <1>1 DEF ListingExact, Allowed, Restricted
  <1> QED
    BY <1>5, <1>6, <1>7 DEF IInv

LEMMA NextRowKeeps ==
    ASSUME ListTypeOK, IInv, NextRow
    PROVE  IInv'
  <1> USE DEF sourceVars, callVars, allowsVars
  <1> DEFINE c == answer[fetched + 1]
  <1>0. RowsInv /\ LoopInv /\ AllowsInv /\ ListingExact
    BY DEF IInv
  <1>1. /\ pc = "rows" /\ Reading /\ filtered = <<>> /\ filtered' = <<>>
        /\ fetched < Len(answer) /\ fetched' = fetched + 1
        /\ UNCHANGED <<op, schema, filter, maxRows, answer>>
    BY <1>0 DEF NextRow, RowsInv, LoopInv
  <1>2. /\ Whole' = Whole /\ Admitted(answer)' = Admitted(answer) /\ ServiceRows' = ServiceRows
        /\ \A n : Allowed(n)' <=> Allowed(n)
    BY <1>1, SameList
  <1>3. /\ Len(answer) \in Nat /\ Len(listed) \in Nat /\ ServiceRows \in Nat /\ fetched \in Nat
        /\ fetched + 1 \in 1..Len(answer) /\ fetched \in 0..Len(answer) /\ fetched + 1 \in 0..Len(answer)
        /\ (fetched + 1) - 1 = fetched
    BY <1>1, MaxRowsFacts DEF ListTypeOK
  <1>4. op = "schemas" => /\ answer \in Seq(Seq(Chars)) /\ c \in Seq(Chars) /\ listed \in Seq(Seq(Chars))
                          /\ Where(c) <=> Allowed(c)
                          /\ listed = Admitted(answer)[fetched]
                          /\ Begins(listed, Whole)
    <2> SUFFICES ASSUME op = "schemas"
                 PROVE  /\ answer \in Seq(Seq(Chars)) /\ c \in Seq(Chars) /\ listed \in Seq(Seq(Chars))
                        /\ Where(c) <=> Allowed(c)
                        /\ listed = Admitted(answer)[fetched]
                        /\ Begins(listed, Whole)
      OBVIOUS
    <2>1. answer \in Seq(Seq(Chars)) /\ listed \in Seq(Seq(Chars)) /\ filter \in Filters
      BY DEF ListTypeOK, Row
    <2> DEFINE C == Seq(Chars)
    <2>2. c \in C
      <3>1. answer \in Seq(C)
        BY <2>1
      <3> HIDE DEF C
      <3> QED
        BY <1>3, <3>1
    <2>3. Where(c) <=> Allowed(c)
      BY <2>1, <2>2, WhereIsAllowed
    <2>4. listed = Admitted(answer)[fetched]
      BY <1>1 DEF Reading
    <2>5. Begins(listed, Whole)
      BY <1>3, <2>1, <2>4, AdmittedFacts DEF Whole
    <2> QED
      BY <2>1, <2>2, <2>3, <2>4, <2>5
  <1>5. op # "schemas" => Begins(listed, answer) /\ Len(listed) = fetched /\ Whole = answer
    BY <1>1 DEF Reading, Whole
  <1>6. CASE op = "schemas" /\ ~Where(c)
    <2>1. listed' = listed /\ pc' = "rows"
      BY <1>1, <1>6 DEF NextRow
    <2>2. Admitted(answer)[fetched + 1] = Admitted(answer)[fetched]
      <3>1. Admitted(answer)[fetched + 1] = IF Allowed(c) THEN Append(Admitted(answer)[(fetched + 1) - 1], c)
                                            ELSE Admitted(answer)[(fetched + 1) - 1]
        BY <1>3, <1>4, <1>6, AdmittedDefined
      <3> QED
        BY <1>3, <1>4, <1>6, <3>1
    <2>3. Reading'
      BY <1>1, <1>2, <1>3, <1>4, <1>6, <2>1, <2>2 DEF Reading
    <2>4. RowsInv' /\ LoopInv' /\ AllowsInv' /\ ListingExact'
      BY <1>0, <1>1, <1>2, <1>6, <2>1, <2>3 DEF RowsInv, LoopInv, AllowsInv, ListingExact
    <2> QED
      BY <2>4 DEF IInv
  <1>7. CASE (op = "schemas" => Where(c)) /\ Len(listed) >= ServiceRows
    <2>1. listed' = listed /\ pc' = "err"
      BY <1>1, <1>7 DEF NextRow
    <2>2. Len(listed) = ServiceRows
      BY <1>1, <1>3, <1>7 DEF Reading
    <2>3. Bounded
      <3>1. Begins(listed, Whole)
        BY <1>4, <1>5
      <3>2. Len(Whole) \in Nat
        BY <1>0, WholeFacts
      <3> QED
        BY <1>3, <2>2, <3>1, <3>2 DEF Bounded, Begins
    <2>4. Bounded'
      BY <1>1, <2>1, <2>3, SameRows
    <2>5. RowsInv' /\ LoopInv' /\ AllowsInv' /\ ListingExact'
      BY <1>0, <1>1, <1>2, <2>1, <2>4 DEF RowsInv, LoopInv, AllowsInv, ListingExact
    <2> QED
      BY <2>5 DEF IInv
  <1>8. CASE (op = "schemas" => Where(c)) /\ ~(Len(listed) >= ServiceRows)
    <2>1. listed' = Append(listed, c) /\ pc' = "rows"
      BY <1>1, <1>8 DEF NextRow
    <2>2. c \in Row /\ listed \in Seq(Row)
      BY <1>3 DEF ListTypeOK
    <2>3. /\ Len(listed') = Len(listed) + 1 /\ listed'[Len(listed) + 1] = c
          /\ \A i \in 1..Len(listed) : listed'[i] = listed[i]
      BY <2>1, <2>2
    <2>4. CASE op = "schemas"
      <3>1. Admitted(answer)[fetched + 1] = Append(listed, c)
        <4>1. Admitted(answer)[fetched + 1] = IF Allowed(c) THEN Append(Admitted(answer)[(fetched + 1) - 1], c)
                                              ELSE Admitted(answer)[(fetched + 1) - 1]
          BY <1>3, <1>4, <2>4, AdmittedDefined
        <4> QED
          BY <1>3, <1>4, <1>8, <2>4, <4>1
      <3>2. Reading'
        BY <1>1, <1>2, <1>3, <1>8, <2>1, <2>3, <2>4, <3>1 DEF Reading
      <3>3. (\A i \in 1..Len(listed) : Allowed(listed[i]))'
        <4>1. \A i \in 1..Len(listed') : i \in 1..Len(listed) \/ i = Len(listed) + 1
          BY <1>3, <2>3
        <4>2. Allowed(c) /\ \A i \in 1..Len(listed) : Allowed(listed[i])
          BY <1>0, <1>4, <1>8, <2>4 DEF RowsInv
        <4> HIDE DEF c
        <4>3. ASSUME NEW i \in 1..Len(listed') PROVE Allowed(listed'[i])
          BY <2>3, <4>1, <4>2
        <4> QED
          BY <1>1, <4>3 DEF Allowed, Restricted
      <3>4. RowsInv' /\ LoopInv' /\ AllowsInv' /\ ListingExact'
        BY <1>0, <1>1, <1>2, <2>1, <2>4, <3>2, <3>3 DEF RowsInv, LoopInv, AllowsInv, ListingExact
      <3> QED
        BY <3>4 DEF IInv
    <2>5. CASE op # "schemas"
      <3>1. Begins(listed', answer) /\ Len(listed') = fetched + 1
        <4>1. Begins(listed, answer) /\ Len(listed) = fetched /\ Len(listed) < Len(answer)
              /\ answer \in Seq(Row)
          BY <1>1, <1>5, <2>5 DEF ListTypeOK
        <4> QED
          BY <2>1, <2>2, <2>3, <4>1, BeginsAppend
      <3>2. Reading'
        BY <1>1, <1>2, <1>3, <1>8, <2>3, <2>5, <3>1 DEF Reading, Begins
      <3>3. RowsInv' /\ LoopInv' /\ AllowsInv' /\ ListingExact'
        BY <1>0, <1>1, <1>2, <2>1, <2>5, <3>2 DEF RowsInv, LoopInv, AllowsInv, ListingExact
      <3> QED
        BY <3>3 DEF IInv
    <2> QED
      BY <2>4, <2>5
  <1> QED
    BY <1>6, <1>7, <1>8

\* The handler takes the list over, and its loop goes on.
LEMMA HandlerKeeps ==
    ASSUME ListTypeOK, IInv, Returned \/ NextSchema
    PROVE  IInv'
  <1> USE DEF sourceVars, callVars, listVars
  <1>0. RowsInv /\ LoopInv /\ AllowsInv /\ ListingExact
    BY DEF IInv
  <1>1. UNCHANGED <<op, schema, filter, maxRows, answer, listed>>
    BY DEF Returned, NextSchema
  <1>2. /\ Bounded' <=> Bounded
        /\ \A n : Allowed(n)' <=> Allowed(n)
    BY <1>1, SameRows, SameList
  <1>3. Len(listed) \in Nat /\ fetched \in Nat
    BY DEF ListTypeOK
  <1>4. CASE Returned
    <2>1. /\ pc = "err" /\ pc' \in {"filter", "trim"} /\ fetched' = 0 /\ filtered = <<>>
          /\ pc' = "filter" => filtered' = <<>>
          /\ pc' = "trim" => filtered' = listed
      BY <1>0, <1>4 DEF Returned, LoopInv
    <2>2. RowsInv'
      BY <1>0, <1>1, <1>2, <2>1 DEF RowsInv
    <2>3. LoopInv'
      BY <1>1, <1>3, <2>1 DEF LoopInv, Begins
    <2>4. AllowsInv' /\ ListingExact'
      BY <1>0, <1>1, <1>2, <2>1 DEF AllowsInv, ListingExact
    <2> QED
      BY <2>2, <2>3, <2>4 DEF IInv
  <1>5. CASE NextSchema
    <2>1. /\ pc = "filter" /\ op = "schemas" /\ pc' = "allows" /\ fetched' = fetched + 1
          /\ fetched < Len(listed) /\ subject' = listed[fetched + 1] /\ tried' = 0
          /\ filtered' = filtered /\ Begins(filtered, listed) /\ Len(filtered) = fetched
      BY <1>0, <1>5 DEF NextSchema, LoopInv, ListTypeOK
    <2>2. RowsInv'
      BY <1>0, <1>1, <1>2, <2>1 DEF RowsInv
    <2>3. LoopInv'
      <3>1. fetched + 1 \in 1..Len(listed) /\ (fetched + 1) - 1 = fetched
        BY <1>3, <2>1
      <3> QED
        BY <1>1, <2>1, <3>1 DEF LoopInv, Begins
    <2>4. AllowsInv' /\ ListingExact'
      BY <1>1, <2>1 DEF AllowsInv, ListingExact
    <2> QED
      BY <2>2, <2>3, <2>4 DEF IInv
  <1> QED
    BY <1>4, <1>5

\* The list of the handler is as much as the bound on its answer leaves of the
\* service's, which holds one row more than that whenever there is one.
LEMMA TrimKeeps ==
    ASSUME ListTypeOK, IInv, Trim
    PROVE  IInv'
  <1> USE DEF sourceVars, callVars, allowsVars, rowVars
  <1> DEFINE w == Whole
             l == Len(Whole)
             f == Len(filtered)
  <1>0. RowsInv /\ LoopInv /\ AllowsInv /\ ListingExact
    BY DEF IInv
  <1>1. /\ pc = "trim" /\ pc' = "done" /\ Bounded /\ filtered = listed
        /\ UNCHANGED <<op, schema, filter, maxRows, answer, listed>>
        /\ truncated' = (f > maxRows)
        /\ filtered' = IF f > maxRows THEN SubSeq(filtered, 1, maxRows) ELSE filtered
    BY <1>0 DEF Trim, RowsInv, LoopInv
  <1>2. /\ MaxInt \in Nat /\ maxRows \in 1..MaxInt /\ maxRows \in Nat
        /\ ServiceRows = (IF maxRows < MaxInt THEN maxRows + 1 ELSE maxRows)
    BY MaxRowsFacts
  <1>3. w \in Seq(Row) /\ l \in Nat /\ l <= MaxInt /\ filtered \in Seq(Row) /\ f \in Nat
    BY <1>0, WholeFacts DEF ListTypeOK
  <1>4. /\ Begins(filtered, w)
        /\ f = IF l > ServiceRows THEN ServiceRows ELSE l
    BY <1>1 DEF Bounded
  <1> HIDE DEF w, l, f
  <1>5. f > maxRows <=> l > maxRows
    BY <1>2, <1>3, <1>4
  <1>6. f <= maxRows => f = l
    BY <1>2, <1>3, <1>4
  <1>7. filtered' \in Seq(Row) /\ Begins(filtered', w)
        /\ Len(filtered') = IF l > maxRows THEN maxRows ELSE l
    <2>1. CASE f > maxRows
      <3>1. filtered' = SubSeq(filtered, 1, maxRows) /\ maxRows \in 0..Len(filtered)
        BY <1>1, <1>2, <1>3, <2>1 DEF f
      <3>2. filtered' \in Seq(Row) /\ Len(filtered') = maxRows /\ Begins(filtered', filtered)
        BY <1>3, <3>1, BeginsSubSeq
      <3>3. Begins(filtered', w)
        BY <1>3, <1>4, <3>2, BeginsTransitive
      <3> QED
        BY <1>5, <2>1, <3>2, <3>3
    <2>2. CASE ~(f > maxRows)
      <3>1. filtered' = filtered /\ f = l /\ ~(l > maxRows)
        BY <1>1, <1>2, <1>3, <1>5, <1>6, <2>2
      <3> QED
        BY <1>3, <1>4, <3>1 DEF f
    <2> QED
      BY <2>1, <2>2
  <1>8. filtered' = Leading(maxRows)
    BY <1>0, <1>2, <1>7, LeadingFacts DEF w, l
  <1>9. /\ Whole' = Whole /\ Leading(maxRows)' = Leading(maxRows)
        /\ \A n : Allowed(n)' <=> Allowed(n)
    <2>1. \A k : Leading(k)' = Leading(k)
      BY <1>1, SameList
    <2> QED
      BY <1>1, <2>1, SameList
  <1>10. ListingExact'
    <2>1. truncated' <=> Len(Whole') > maxRows'
      BY <1>1, <1>5, <1>9 DEF l
    <2>2. filtered' = Leading(maxRows)'
      BY <1>8, <1>9
    <2>3. op' # "schemas" => Allowed(schema)'
      BY <1>0, <1>1, <1>9 DEF ListingExact
    <2> QED
      BY <1>1, <2>1, <2>2, <2>3 DEF ListingExact
  <1>11. RowsInv' /\ LoopInv' /\ AllowsInv'
    BY <1>0, <1>1, <1>9 DEF RowsInv, LoopInv, AllowsInv
  <1> QED
    BY <1>10, <1>11 DEF IInv

LEMMA NextIInv == ListingInv /\ IInv /\ [Next]_vars => IInv'
  <1> SUFFICES ASSUME ListingInv, IInv, [Next]_vars PROVE IInv'
    OBVIOUS
  <1>0. ListTypeOK /\ FilterInv
    BY ListingInvSplit
  <1>1. CASE Next
    BY <1>0, <1>1, AskKeeps, AllowsKeeps, MatchKeeps, MoveKeeps, QueryKeeps, NextRowKeeps, HandlerKeeps, TrimKeeps
       DEF Next
  <1>2. CASE UNCHANGED vars
    <2> USE DEF vars, filterVars, sourceVars, callVars, allowsVars, rowVars, listVars
    <2>1. UNCHANGED <<filter, maxRows, op, answer, listed>>
      BY <1>2
    <2>2. /\ Whole' = Whole /\ Admitted(answer)' = Admitted(answer) /\ ServiceRows' = ServiceRows
          /\ \A n : Allowed(n)' <=> Allowed(n)
          /\ Leading(maxRows)' = Leading(maxRows)
      <3>1. \A k : Leading(k)' = Leading(k)
        BY <2>1, SameList
      <3> QED
        BY <2>1, <3>1, SameList
    <2>3. Bounded' <=> Bounded
      BY <2>1, SameRows
    <2>4. RowsInv'
      BY <1>2, <2>2, <2>3 DEF IInv, RowsInv, Reading, Unread, Begins
    <2>5. LoopInv' /\ AllowsInv'
      BY <1>2, <2>2 DEF IInv, LoopInv, AllowsInv, Begins, Matches
    <2>6. ListingExact'
      BY <1>2, <2>2 DEF IInv, ListingExact
    <2> QED
      BY <2>4, <2>5, <2>6 DEF IInv
  <1> QED
    BY <1>1, <1>2

\* For every allow-list, list of schemas and bound, a list that a client gets is
\* the first max_rows of what the allow-list admits and is marked as truncated
\* exactly if there is more, although MySQL filters by LIKE, the handler by Match,
\* and the bound of the service lies between; the other tools answer exactly for
\* the schemas it admits (metadata_tools.go, metadata.go:162-229).
THEOREM ListingIsExact == Spec => []ListingExact
  <1>1. Init => ListingInv /\ IInv
    BY InitEstablishes, InitIInv
  <1>2. ListingInv /\ IInv /\ [Next]_vars => (ListingInv /\ IInv)'
    BY NextKeeps, NextIInv
  <1>3. IInv => ListingExact
    BY DEF IInv
  <1> QED
    BY <1>1, <1>2, <1>3, PTL DEF Spec
=============================================================================
