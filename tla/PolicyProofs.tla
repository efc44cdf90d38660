---------------------------- MODULE PolicyProofs ----------------------------
(***************************************************************************)
(* For every set of texts, statements and sources: the two scans find      *)
(* exactly what the lexical units of the text have in them, an accepted    *)
(* statement reaches nothing but what is allowed, a statement is rejected  *)
(* for its schemas with cause, and an accepted statement calls nothing but *)
(* what its server has built in.                                           *)
(*                                                                         *)
(* First the units and the scans, then the tables, then the functions.     *)
(***************************************************************************)
EXTENDS PolicyInv, Induction, SequenceTheorems, TLAPS

(* Runs of positions, and what is between quotes.                            *)

\* Some run of S, which may be empty, ends before j.
LEMMA RunExists ==
    ASSUME NEW S, NEW a \in Nat, NEW j \in Nat, a <= j
    PROVE  \E k \in a..j : k..(j - 1) \subseteq S /\ (k = a \/ k - 1 \notin S)
<1> DEFINE T == {k \in a..j : k..(j - 1) \subseteq S}
<1>1. j \in T OBVIOUS
<1>2. T \subseteq Nat OBVIOUS
<1>3. PICK k \in T : \A m \in T : k <= m
  <2> HIDE DEF T
  <2> QED BY <1>1, <1>2, LeastElement
<1>4. k \in a..j /\ k..(j - 1) \subseteq S BY <1>3
<1>5. ASSUME k # a, k - 1 \in S PROVE FALSE
  <2>1. k - 1 \in a..j BY <1>4, <1>5
  <2>2. (k - 1)..(j - 1) \subseteq S BY <1>4, <1>5
  <2>3. k - 1 \in T BY <2>1, <2>2
  <2> QED BY <1>3, <1>4, <2>3
<1> QED BY <1>4, <1>5

\* There is one such run only.
LEMMA RunUnique ==
    ASSUME NEW S, NEW a \in Nat, NEW j \in Nat,
           NEW k \in a..j, k..(j - 1) \subseteq S, k = a \/ k - 1 \notin S,
           NEW h \in a..j, h..(j - 1) \subseteq S, h = a \/ h - 1 \notin S
    PROVE  h = k
<1>1. ASSUME NEW x \in a..j, NEW y \in a..j, x < y, x..(j - 1) \subseteq S, y = a \/ y - 1 \notin S
      PROVE  FALSE
  <2>1. y # a /\ y - 1 \in x..(j - 1) BY <1>1
  <2> QED BY <2>1, <1>1
<1> QED BY <1>1

\* The parity of the run before the next position.
LEMMA OddRunStep ==
    ASSUME NEW S, NEW a \in Nat, NEW j \in Nat, a <= j
    PROVE  /\ ~OddRun(S, a, a)
           /\ j \notin S => ~OddRun(S, a, j + 1)
           /\ j \in S => (OddRun(S, a, j + 1) <=> ~OddRun(S, a, j))
<1>1. ~OddRun(S, a, a) BY DEF OddRun
<1>2. ASSUME j \notin S, OddRun(S, a, j + 1) PROVE FALSE
  <2>1. PICK k \in a..(j + 1 - 1) : k..(j + 1 - 1) \subseteq S BY <1>2 DEF OddRun
  <2>2. j \in k..(j + 1 - 1) OBVIOUS
  <2> QED BY <2>1, <2>2, <1>2
<1>3. ASSUME j \in S PROVE OddRun(S, a, j + 1) <=> ~OddRun(S, a, j)
  <2>1. PICK k \in a..j : k..(j - 1) \subseteq S /\ (k = a \/ k - 1 \notin S) BY RunExists
  <2>2. k..j \subseteq S BY <2>1, <1>3
  <2>3. j + 1 - 1 = j OBVIOUS
  <2>4. OddRun(S, a, j) <=> (j - k) % 2 = 1
    <3>1. ASSUME OddRun(S, a, j) PROVE (j - k) % 2 = 1
      <4>1. PICK h \in a..(j - 1) : h..(j - 1) \subseteq S /\ (h = a \/ h - 1 \notin S) /\ (j - h) % 2 = 1
        BY <3>1 DEF OddRun
      <4>2. h \in a..j OBVIOUS
      <4>3. h = k BY <4>1, <4>2, <2>1, RunUnique
      <4> QED BY <4>1, <4>3
    <3>2. ASSUME (j - k) % 2 = 1 PROVE OddRun(S, a, j)
      <4>1. k # j BY <3>2
      <4>2. k \in a..(j - 1) BY <4>1
      <4> QED BY <2>1, <3>2, <4>2 DEF OddRun
    <3> QED BY <3>1, <3>2
  <2>5. OddRun(S, a, j + 1) <=> (j + 1 - k) % 2 = 1
    <3>1. ASSUME OddRun(S, a, j + 1) PROVE (j + 1 - k) % 2 = 1
      <4>1. PICK h \in a..j : h..j \subseteq S /\ (h = a \/ h - 1 \notin S) /\ (j + 1 - h) % 2 = 1
        BY <3>1, <2>3 DEF OddRun
      <4>2. h..(j - 1) \subseteq S BY <4>1
      <4>3. h = k BY <4>1, <4>2, <2>1, RunUnique
      <4> QED BY <4>1, <4>3
    <3>2. ASSUME (j + 1 - k) % 2 = 1 PROVE OddRun(S, a, j + 1)
      BY <2>1, <2>2, <2>3, <3>2 DEF OddRun
    <3> QED BY <3>1, <3>2
  <2>6. (j + 1 - k) % 2 = 1 <=> ~((j - k) % 2 = 1)
    <3>1. \A n \in Nat : ((n + 1) % 2 = 1) <=> ~(n % 2 = 1) OBVIOUS
    <3>2. j - k \in Nat /\ j + 1 - k = (j - k) + 1 OBVIOUS
    <3> QED BY <3>1, <3>2
  <2> QED BY <2>4, <2>5, <2>6
<1> QED BY <1>1, <1>2, <1>3

Character == STRING \ {"end"}

\* A character is never "end", which stands for the end of the text.
LEMMA CharFacts ==
    ASSUME NEW t \in Seq(Character)
    PROVE  /\ Len(t) \in Nat /\ DOMAIN t = 1..Len(t)
           /\ \A k \in 1..Len(t) : Char(t, k) = t[k] /\ t[k] # "end"
           /\ \A k \in Nat : k > Len(t) => Char(t, k) = "end"
           /\ \A k \in Nat : Char(t, k) # "end" => k <= Len(t)
<1>1. Len(t) \in Nat /\ DOMAIN t = 1..Len(t) OBVIOUS
<1>2. \A k \in 1..Len(t) : t[k] # "end" BY DEF Character
<1> QED BY <1>1, <1>2 DEF Char

\* The positions among which the unescaped quotes and the closing ones are.
LEMMA QuotesFacts ==
    ASSUME NEW t \in Seq(Character), NEW i \in 1..Len(t), NEW esc
    PROVE  /\ \A j \in QuotesLike(t, i, esc) : j \in (i + 1)..Len(t)
           /\ \A j \in Closings(t, i, esc) :
                 /\ j \in QuotesLike(t, i, esc) /\ Char(t, j + 1) # t[i]
                 /\ OddRun(QuotesLike(t, i, esc), i + 1, j + 1)
           /\ \A j \in (i + 1)..Len(t) : j \in QuotesLike(t, i, esc) <=> (t[j] = t[i] /\ ~Escaped(t, i, j, esc))
BY DEF QuotesLike, Closings

\* What one character means between quotes.
LEMMA QuoteStep ==
    ASSUME NEW t \in Seq(Character), NEW i \in 1..Len(t), NEW esc \in BOOLEAN, t[i] \in Quotes,
           NEW j \in (i + 1)..Len(t), InQuotes(t, i, j, esc)
    PROVE  /\ esc /\ t[i] # "tick" /\ t[j] = "backslash" /\ j < Len(t) => InQuotes(t, i, j + 2, esc)
           /\ t[j] = t[i] /\ Char(t, j + 1) = t[i] => InQuotes(t, i, j + 2, esc)
           /\ t[j] # t[i] /\ ~(esc /\ t[i] # "tick" /\ t[j] = "backslash" /\ j < Len(t))
                 => InQuotes(t, i, j + 1, esc)
           /\ t[j] = t[i] /\ Char(t, j + 1) # t[i] => j \in Closings(t, i, esc)
<1> DEFINE B == {m \in DOMAIN t : t[m] = "backslash"}
           Q == QuotesLike(t, i, esc)
           C == Closings(t, i, esc)
           slash == esc /\ t[i] # "tick"
<1>1. /\ Len(t) \in Nat /\ DOMAIN t = 1..Len(t)
      /\ \A k \in 1..Len(t) : Char(t, k) = t[k] /\ t[k] # "end"
      /\ \A k \in Nat : Char(t, k) # "end" => k <= Len(t)
  BY CharFacts
<1>2. t[i] # "backslash" /\ t[i] # "end" BY DEF Quotes
<1>3. \A m : Escaped(t, i, m, esc) <=> (slash /\ OddRun(B, i + 1, m)) BY DEF Escaped
<1>4. \A m : m \in B <=> (m \in 1..Len(t) /\ t[m] = "backslash") BY <1>1
<1>5. /\ \A m \in Q : m \in (i + 1)..Len(t)
      /\ \A m \in (i + 1)..Len(t) : m \in Q <=> (t[m] = t[i] /\ ~(slash /\ OddRun(B, i + 1, m)))
      /\ \A m \in C : m \in Q /\ Char(t, m + 1) # t[i]
  BY <1>3, QuotesFacts
<1>6. \A m : m \in C <=> (m \in Q /\ Char(t, m + 1) # t[i] /\ OddRun(Q, i + 1, m + 1)) BY DEF Closings
<1>7. \A m : InQuotes(t, i, m, esc) <=>
               /\ m \in (i + 1)..(Len(t) + 1)
               /\ m <= Len(t) => ~(slash /\ OddRun(B, i + 1, m)) /\ ~OddRun(Q, i + 1, m)
               /\ \A k \in C : k >= m
  BY <1>3 DEF InQuotes, Fresh
<1> HIDE DEF B, Q, C, slash
<1>8. i \in Nat /\ j \in Nat /\ i + 1 \in Nat /\ i + 1 <= j /\ i + 1 <= j + 1 /\ j + 1 \in Nat /\ j + 2 = (j + 1) + 1
      /\ j <= Len(t)
  BY <1>1
<1>9. \A S : /\ j \notin S => ~OddRun(S, i + 1, j + 1)
             /\ j \in S => (OddRun(S, i + 1, j + 1) <=> ~OddRun(S, i + 1, j))
             /\ j + 1 \notin S => ~OddRun(S, i + 1, j + 2)
             /\ j + 1 \in S => (OddRun(S, i + 1, j + 2) <=> ~OddRun(S, i + 1, j + 1))
  BY <1>8, OddRunStep
<1>10. ~(slash /\ OddRun(B, i + 1, j)) /\ ~OddRun(Q, i + 1, j) /\ \A k \in C : k >= j BY <1>7, <1>8
<1>16. ASSUME j \notin C, j + 1 \notin C PROVE \A k \in C : k >= j + 2
  <2> TAKE k \in C
  <2>1. k \in Nat BY <1>5, <1>8
  <2>2. k >= j /\ k # j /\ k # j + 1 BY <1>10, <1>16
  <2> QED BY <2>1, <2>2, <1>8
<1>11. ASSUME slash, t[j] = "backslash", j < Len(t) PROVE InQuotes(t, i, j + 2, esc)
  <2>1. j \in B /\ j \notin Q BY <1>11, <1>2, <1>4, <1>5, <1>8
  <2>2. OddRun(B, i + 1, j + 1) BY <2>1, <1>9, <1>10, <1>11
  <2>3. j + 1 \notin Q BY <2>2, <1>5, <1>11, <1>8
  <2>4. ~OddRun(Q, i + 1, j + 2) BY <2>3, <1>9
  <2>5. ~OddRun(B, i + 1, j + 2) BY <2>2, <1>9
  <2>6. j \notin C /\ j + 1 \notin C BY <2>1, <2>3, <1>6
  <2>7. \A k \in C : k >= j + 2 BY <2>6, <1>16
  <2>8. j + 2 \in (i + 1)..(Len(t) + 1) BY <1>8, <1>11, <1>1
  <2> QED BY <2>4, <2>5, <2>7, <2>8, <1>7
<1>12. ASSUME t[j] = t[i] PROVE j \in Q /\ j \notin B /\ OddRun(Q, i + 1, j + 1) /\ ~OddRun(B, i + 1, j + 1)
  <2>1. j \in Q /\ j \notin B BY <1>12, <1>2, <1>4, <1>5, <1>10
  <2> QED BY <2>1, <1>9, <1>10
<1>13. ASSUME t[j] = t[i], Char(t, j + 1) = t[i] PROVE InQuotes(t, i, j + 2, esc)
  <2>1. j + 1 <= Len(t) /\ t[j + 1] = t[i] BY <1>13, <1>1, <1>2, <1>8
  <2>2. j + 1 \in Q /\ j + 1 \notin B BY <2>1, <1>12, <1>13, <1>2, <1>4, <1>5, <1>8, <1>1
  <2>3. ~OddRun(Q, i + 1, j + 2) /\ ~OddRun(B, i + 1, j + 2) BY <2>2, <1>9, <1>12, <1>13
  <2>4. j \notin C /\ j + 1 \notin C
    <3>1. ~OddRun(Q, i + 1, (j + 1) + 1) BY <2>3, <1>8
    <3> QED BY <3>1, <1>6, <1>13
  <2>5. \A k \in C : k >= j + 2 BY <2>4, <1>16
  <2>6. j + 2 \in (i + 1)..(Len(t) + 1) BY <1>8, <2>1, <1>1
  <2> QED BY <2>3, <2>5, <2>6, <1>7
<1>14. ASSUME t[j] # t[i], ~(slash /\ t[j] = "backslash" /\ j < Len(t)) PROVE InQuotes(t, i, j + 1, esc)
  <2>1. j \notin Q /\ j \notin C BY <1>14, <1>5
  <2>2. ~OddRun(Q, i + 1, j + 1) BY <2>1, <1>9
  <2>3. j + 1 <= Len(t) => ~(slash /\ OddRun(B, i + 1, j + 1)) BY <1>14, <1>9, <1>4, <1>8, <1>1
  <2>4. \A k \in C : k >= j + 1 BY <2>1, <1>5, <1>10, <1>8
  <2>5. j + 1 \in (i + 1)..(Len(t) + 1) BY <1>8, <1>1
  <2> QED BY <2>2, <2>3, <2>4, <2>5, <1>7
<1>15. ASSUME t[j] = t[i], Char(t, j + 1) # t[i] PROVE j \in C BY <1>15, <1>12, <1>6
<1> QED BY <1>11, <1>13, <1>14, <1>15 DEF slash, C

\* Right after the opening quote.
LEMMA QuoteOpens ==
    ASSUME NEW t \in Seq(Character), NEW i \in 1..Len(t), NEW esc \in BOOLEAN
    PROVE  InQuotes(t, i, i + 1, esc)
<1>1. Len(t) \in Nat /\ i \in Nat /\ i + 1 \in Nat BY CharFacts
<1>2. \A S : ~OddRun(S, i + 1, i + 1) BY <1>1, OddRunStep
<1>3. \A j \in Closings(t, i, esc) : j \in (i + 1)..Len(t) BY QuotesFacts
<1> QED BY <1>1, <1>2, <1>3 DEF InQuotes, Fresh, Escaped

\* Min of FiniteSetsExt.
LEMMA MinFacts ==
    ASSUME NEW S, S \subseteq Nat, S # {}
    PROVE  Min(S) \in S /\ \A y \in S : Min(S) <= y
<1>1. \E m \in S : \A y \in S : m <= y BY LeastElement
<1> QED BY <1>1 DEF Min

\* What Min of FiniteSetsExt is, by what it has to be.
LEMMA MinIs ==
    ASSUME NEW S, S \subseteq Nat, NEW m \in S, \A y \in S : m <= y
    PROVE  Min(S) = m
<1>1. Min(S) \in S /\ Min(S) <= m BY MinFacts
<1>2. m <= Min(S) BY <1>1
<1>3. Min(S) \in Nat /\ m \in Nat BY <1>1
<1> QED BY <1>1, <1>2, <1>3

\* Where a unit may end, apart from the end of the text.
Ends(t, i, esc) ==
    IF t[i] \in Quotes THEN Closings(t, i, esc)
    ELSE IF OpensLine(t, i) THEN {j \in i..Len(t) : Char(t, j + 1) \in {Newline, "return"}}
    ELSE IF OpensComment(t, i) THEN {j \in (i + 3)..Len(t) : t[j - 1] = "*" /\ t[j] = "/"}
    ELSE {i}

\* A unit ends at the first position where it may, or with the text.
LEMMA EndsFacts ==
    ASSUME NEW t \in Seq(Character), NEW i \in 1..Len(t), NEW esc
    PROVE  /\ Ends(t, i, esc) \subseteq i..Len(t)
           /\ UnitEnd(t, i, esc) \in i..Len(t)
           /\ \A j \in Ends(t, i, esc) : UnitEnd(t, i, esc) <= j
           /\ UnitEnd(t, i, esc) = Len(t) \/ UnitEnd(t, i, esc) \in Ends(t, i, esc)
<1> DEFINE E == Ends(t, i, esc)
<1>1. Len(t) \in Nat /\ i \in Nat BY CharFacts
<1>2. E \subseteq i..Len(t)
  <2>1. Closings(t, i, esc) \subseteq i..Len(t)
    <3>1. \A j \in Closings(t, i, esc) : j \in (i + 1)..Len(t) BY QuotesFacts
    <3> QED BY <3>1, <1>1
  <2>2. {j \in (i + 3)..Len(t) : t[j - 1] = "*" /\ t[j] = "/"} \subseteq i..Len(t) BY <1>1
  <2>3. {j \in i..Len(t) : Char(t, j + 1) \in {Newline, "return"}} \subseteq i..Len(t) OBVIOUS
  <2>4. {i} \subseteq i..Len(t) BY <1>1
  <2> QED BY <2>1, <2>2, <2>3, <2>4 DEF Ends
<1>3. UnitEnd(t, i, esc) = Min(E \cup {Len(t)}) BY Zenon DEF UnitEnd, Ends
<1> HIDE DEF E
<1>4. E \cup {Len(t)} \subseteq Nat /\ E \cup {Len(t)} # {}
  <2>1. \A y \in E : y \in Nat BY <1>1, <1>2
  <2> QED BY <1>1, <2>1
<1>5. Min(E \cup {Len(t)}) \in E \cup {Len(t)} /\ \A y \in E \cup {Len(t)} : Min(E \cup {Len(t)}) <= y
  BY <1>4, MinFacts, Zenon
<1>6. Len(t) \in i..Len(t) BY <1>1
<1> QED BY <1>2, <1>3, <1>5, <1>6 DEF E

\* A unit that may end at j and nowhere before ends there.
LEMMA UnitEndIs ==
    ASSUME NEW t \in Seq(Character), NEW i \in 1..Len(t), NEW esc, NEW j \in i..Len(t),
           j \in Ends(t, i, esc) \/ j = Len(t), \A m \in Ends(t, i, esc) : j <= m
    PROVE  UnitEnd(t, i, esc) = j
<1>1. Len(t) \in Nat /\ i \in Nat /\ j \in Nat BY CharFacts
<1>2. /\ UnitEnd(t, i, esc) \in i..Len(t)
      /\ \A m \in Ends(t, i, esc) : UnitEnd(t, i, esc) <= m
      /\ UnitEnd(t, i, esc) = Len(t) \/ UnitEnd(t, i, esc) \in Ends(t, i, esc)
  BY EndsFacts
<1>3. UnitEnd(t, i, esc) <= j BY <1>1, <1>2
<1>4. j <= UnitEnd(t, i, esc) BY <1>1, <1>2
<1> QED BY <1>1, <1>2, <1>3, <1>4

\* The positions that begin a unit.
IsStart(t, esc, start) ==
    start = [i \in 1..(Len(t) + 1) |-> i = 1 \/ \E j \in 1..(i - 1) : start[j] /\ UnitEnd(t, j, esc) = i - 1]

\* The recursive definition has a solution: a position begins a unit exactly if it is the
\* first, or the one after the end of a unit.
LEMMA StartsDefined ==
    ASSUME NEW t \in Seq(Character), NEW esc
    PROVE  /\ Starts(t, esc) \subseteq 1..Len(t)
           /\ \A i \in 1..Len(t) :
                 i \in Starts(t, esc) <=> (i = 1 \/ \E j \in Starts(t, esc) : j < i /\ UnitEnd(t, j, esc) = i - 1)
<1> DEFINE D == 1..(Len(t) + 1)
           F == [D -> BOOLEAN]
           rank == [i \in D |-> i]
           step == [i \in D |-> [g \in F |-> i = 1 \/ \E j \in 1..(i - 1) : g[j] /\ UnitEnd(t, j, esc) = i - 1]]
           start == CHOOSE f : IsStart(t, esc, f)
<1>1. Len(t) \in Nat BY CharFacts
<1>2. \E f : Solves(D, BOOLEAN, step, f)
  <2>1. TRUE \in BOOLEAN /\ Len(t) + 1 \in Nat /\ rank \in [D -> 0..(Len(t) + 1)] BY <1>1
  <2>2. step \in Steps(D, BOOLEAN) BY DEF Steps
  <2>3. LooksBack(D, BOOLEAN, rank, step)
    <3> SUFFICES ASSUME NEW i \in D, NEW g \in F, NEW h \in F,
                        \A e \in D : rank[e] < rank[i] => g[e] = h[e]
                 PROVE  step[i][g] = step[i][h]
      BY Zenon DEF LooksBack
    <3>1. \A j \in 1..(i - 1) : g[j] = h[j]
      <4> TAKE j \in 1..(i - 1)
      <4>1. j \in D /\ j < i BY <1>1
      <4> QED BY <4>1
    <3>2. (\E j \in 1..(i - 1) : g[j] /\ UnitEnd(t, j, esc) = i - 1)
          <=> (\E j \in 1..(i - 1) : h[j] /\ UnitEnd(t, j, esc) = i - 1)
      BY <3>1, Zenon
    <3>3. step[i][g] = (i = 1 \/ \E j \in 1..(i - 1) : g[j] /\ UnitEnd(t, j, esc) = i - 1) BY Zenon
    <3>4. step[i][h] = (i = 1 \/ \E j \in 1..(i - 1) : h[j] /\ UnitEnd(t, j, esc) = i - 1) BY Zenon
    <3> QED BY <3>2, <3>3, <3>4, Zenon
  <2> HIDE DEF D, rank, step
  <2> QED BY <2>1, <2>2, <2>3, Recursion
<1>3. \E f : IsStart(t, esc, f)
  <2>1. PICK f : Solves(D, BOOLEAN, step, f) BY <1>2, Zenon
  <2>2. f \in F /\ \A i \in D : f[i] = step[i][f] BY <2>1, Zenon DEF Solves
  <2>3. \A i \in D : f[i] = (i = 1 \/ \E j \in 1..(i - 1) : f[j] /\ UnitEnd(t, j, esc) = i - 1)
    <3> TAKE i \in D
    <3>1. step[i][f] = (i = 1 \/ \E j \in 1..(i - 1) : f[j] /\ UnitEnd(t, j, esc) = i - 1) BY <2>2, Zenon
    <3> QED BY <2>2, <3>1, Zenon
  <2>4. f = [i \in D |-> f[i]] BY <2>2
  <2>5. f = [i \in D |-> i = 1 \/ \E j \in 1..(i - 1) : f[j] /\ UnitEnd(t, j, esc) = i - 1]
    BY <2>3, <2>4, Zenon
  <2>6. IsStart(t, esc, f) BY <2>5, Zenon DEF IsStart
  <2> QED BY <2>6, Zenon
<1>4. IsStart(t, esc, start)
  <2> HIDE DEF start
  <2> QED BY <1>3, Zenon DEF start
<1>5. Starts(t, esc) = {i \in 1..Len(t) : start[i]} BY Zenon DEF Starts, IsStart
<1> HIDE DEF start
<1>6. \A i \in D : start[i] = (i = 1 \/ \E j \in 1..(i - 1) : start[j] /\ UnitEnd(t, j, esc) = i - 1)
  BY <1>4, Zenon DEF IsStart
<1>7. ASSUME NEW i \in 1..Len(t)
      PROVE  i \in Starts(t, esc) <=> (i = 1 \/ \E j \in Starts(t, esc) : j < i /\ UnitEnd(t, j, esc) = i - 1)
  <2>1. i \in D BY <1>1
  <2>2. i \in Starts(t, esc) <=> start[i] BY <1>5
  <2>3. start[i] = (i = 1 \/ \E j \in 1..(i - 1) : start[j] /\ UnitEnd(t, j, esc) = i - 1)
    BY <2>1, <1>6, Zenon
  <2>4. \A j : (j \in 1..(i - 1) /\ start[j]) <=> (j \in Starts(t, esc) /\ j < i) BY <1>1, <1>5
  <2> QED BY <2>2, <2>3, <2>4, Zenon
<1> QED BY <1>5, <1>7

\* One unit begins after the other, and none within another.
LEMMA StartsFacts ==
    ASSUME NEW t \in Seq(Character), NEW esc
    PROVE  /\ Frontier(t, 1, esc)
           /\ \A i \in Starts(t, esc) :
                 /\ i \in 1..Len(t)
                 /\ UnitEnd(t, i, esc) \in i..Len(t)
                 /\ Frontier(t, UnitEnd(t, i, esc) + 1, esc)
                 /\ \A j \in Starts(t, esc) : i < j => UnitEnd(t, i, esc) < j
<1> DEFINE St == Starts(t, esc)
           end(i) == UnitEnd(t, i, esc)
<1>1. Len(t) \in Nat BY CharFacts
<1>2. /\ St \subseteq 1..Len(t)
      /\ \A i \in 1..Len(t) : i \in St <=> (i = 1 \/ \E j \in St : j < i /\ end(j) = i - 1)
  BY StartsDefined
<1>3. \A i \in 1..Len(t) : end(i) \in i..Len(t) BY EndsFacts
<1> HIDE DEF St, end
<1>4. 1 \in St \cup {Len(t) + 1}
  <2>1. CASE Len(t) = 0 BY <2>1
  <2>2. CASE Len(t) # 0
    <3>1. 1 \in 1..Len(t) BY <1>1, <2>2
    <3> QED BY <3>1, <1>2
  <2> QED BY <2>1, <2>2
<1>5. ASSUME NEW i \in St PROVE end(i) + 1 \in St \cup {Len(t) + 1}
  <2>1. i \in 1..Len(t) /\ end(i) \in i..Len(t) BY <1>2, <1>3
  <2>2. CASE end(i) = Len(t) BY <2>2
  <2>3. CASE end(i) # Len(t)
    <3> DEFINE k == end(i) + 1
    <3>1. k \in 1..Len(t) /\ i < k /\ end(i) = k - 1 BY <2>1, <2>3, <1>1
    <3> HIDE DEF k
    <3>2. \E j \in St : j < k /\ end(j) = k - 1 BY <3>1
    <3>3. k \in St BY <3>1, <3>2, <1>2
    <3> QED BY <3>3 DEF k
  <2> QED BY <2>2, <2>3
<1>8. \A k \in St : k \in Nat BY <1>1, <1>2
<1>6. ASSUME NEW i \in St, NEW j \in St, i < j PROVE end(i) < j
  <2> DEFINE T == {k \in St : \E h \in St : h < k /\ end(h) >= k}
  <2>1. T = {}
    <3> SUFFICES ASSUME T # {} PROVE FALSE OBVIOUS
    <3>1. T \subseteq Nat BY <1>8
    <3>2. PICK m \in T : \A k \in T : m <= k
      <4> HIDE DEF T
      <4> QED BY <3>1, LeastElement
    <3>3. m \in St /\ m \in 1..Len(t) BY <3>2, <1>2
    <3>4. PICK h \in St : h < m /\ end(h) >= m BY <3>2
    <3>5. h \in 1..Len(t) /\ end(h) \in h..Len(t) BY <1>2, <1>3
    <3>6. m # 1 BY <3>4, <3>5
    <3>7. PICK p \in St : p < m /\ end(p) = m - 1 BY <3>3, <3>6, <1>2
    <3>8. p \in 1..Len(t) BY <1>2
    <3>9. h # p BY <3>3, <3>4, <3>7
    <3>10. CASE h < p
      <4>1. end(h) >= p BY <3>3, <3>4, <3>5, <3>7, <3>8
      <4>2. p \in T BY <3>10, <4>1
      <4> QED BY <4>2, <3>2, <3>3, <3>7, <3>8
    <3>11. CASE p < h
      <4>1. end(p) >= h BY <3>3, <3>4, <3>5, <3>7
      <4>2. h \in T BY <3>11, <4>1
      <4> QED BY <4>2, <3>2, <3>3, <3>4, <3>5
    <3> QED BY <3>5, <3>8, <3>9, <3>10, <3>11
  <2>2. i \in 1..Len(t) /\ j \in 1..Len(t) /\ end(i) \in i..Len(t) BY <1>2, <1>3
  <2>3. ~(end(i) >= j) BY <2>1, <1>6
  <2> QED BY <2>2, <2>3
<1>7. \A i \in St : i \in 1..Len(t) /\ end(i) \in i..Len(t) BY <1>2, <1>3
<1> QED BY <1>4, <1>5, <1>6, <1>7 DEF Frontier, St, end

\* Before the end of a unit no other begins.
LEMMA UnitAlone ==
    ASSUME NEW t \in Seq(Character), NEW esc, NEW i \in Starts(t, esc),
           NEW j \in Starts(t, esc), j < UnitEnd(t, i, esc) + 1
    PROVE  j < i \/ j = i
<1>1. Len(t) \in Nat /\ i \in 1..Len(t) /\ j \in 1..Len(t) /\ UnitEnd(t, i, esc) \in i..Len(t)
      /\ (i < j => UnitEnd(t, i, esc) < j)
  BY StartsFacts, CharFacts
<1> QED BY <1>1

\* What a scan leaves behind with one unit.
LEMMA UnitDone ==
    ASSUME NEW t \in Seq(Character), NEW esc, NEW i \in Starts(t, esc)
    PROVE  /\ Frontier(t, UnitEnd(t, i, esc) + 1, esc)
           /\ SafeBefore(t, i + 1, esc) => SafeBefore(t, UnitEnd(t, i, esc) + 1, esc)
           /\ SafeBefore(t, i, esc) /\ ~OpensUnsafe(t, i) => SafeBefore(t, i + 1, esc)
           /\ PlainBefore(t, i, esc) /\ ~Ambiguous(t, i, esc) => PlainBefore(t, UnitEnd(t, i, esc) + 1, esc)
<1>1. /\ Frontier(t, UnitEnd(t, i, esc) + 1, esc)
      /\ \A j \in Starts(t, esc) : j \in Nat
      /\ i \in Nat
  BY StartsFacts, CharFacts
<1>2. \A j \in Starts(t, esc) : j < UnitEnd(t, i, esc) + 1 => j < i \/ j = i BY UnitAlone
<1>3. \A j \in Starts(t, esc) : j < i \/ j = i => j < i + 1 BY <1>1
<1>4. \A j \in Starts(t, esc) : j < i + 1 => j < i \/ j = i BY <1>1
<1>5. SafeBefore(t, i + 1, esc) => SafeBefore(t, UnitEnd(t, i, esc) + 1, esc)
  BY <1>2, <1>3 DEF SafeBefore
<1>6. SafeBefore(t, i, esc) /\ ~OpensUnsafe(t, i) => SafeBefore(t, i + 1, esc)
  BY <1>4 DEF SafeBefore
<1>7. PlainBefore(t, i, esc) /\ ~Ambiguous(t, i, esc) => PlainBefore(t, UnitEnd(t, i, esc) + 1, esc)
  BY <1>2 DEF PlainBefore
<1> QED BY <1>1, <1>5, <1>6, <1>7

\* How a unit of each kind ends.
LEMMA QuoteEnds ==
    ASSUME NEW t \in Seq(Character), NEW i \in 1..Len(t), NEW esc \in BOOLEAN, t[i] \in Quotes
    PROVE  /\ \A j \in (i + 1)..Len(t) : InQuotes(t, i, j, esc) /\ j \in Closings(t, i, esc) => UnitEnd(t, i, esc) = j
           /\ InQuotes(t, i, Len(t) + 1, esc) => Closings(t, i, esc) = {} /\ UnitEnd(t, i, esc) = Len(t)
<1>1. Len(t) \in Nat /\ i \in Nat BY CharFacts
<1>2. Ends(t, i, esc) = Closings(t, i, esc) BY DEF Ends
<1>3. \A j \in Closings(t, i, esc) : j \in (i + 1)..Len(t) BY QuotesFacts
<1>4. ASSUME NEW j \in (i + 1)..Len(t), InQuotes(t, i, j, esc), j \in Closings(t, i, esc)
      PROVE  UnitEnd(t, i, esc) = j
  <2>1. \A m \in Ends(t, i, esc) : j <= m BY <1>1, <1>2, <1>3, <1>4 DEF InQuotes
  <2>2. j \in i..Len(t) BY <1>1
  <2> QED BY <2>1, <2>2, <1>2, <1>4, UnitEndIs
<1>5. ASSUME InQuotes(t, i, Len(t) + 1, esc) PROVE Closings(t, i, esc) = {} /\ UnitEnd(t, i, esc) = Len(t)
  <2>1. \A m \in Closings(t, i, esc) : FALSE
    <3> SUFFICES ASSUME NEW m \in Closings(t, i, esc) PROVE FALSE OBVIOUS
    <3>1. m \in (i + 1)..Len(t) /\ m >= Len(t) + 1 BY <1>3, <1>5 DEF InQuotes
    <3> QED BY <3>1, <1>1
  <2>2. Len(t) \in i..Len(t) BY <1>1
  <2> QED BY <2>1, <2>2, <1>2, UnitEndIs
<1> QED BY <1>4, <1>5

\* A line comment ends before the next newline or carriage return, or with the text.
LEMMA LineEnds ==
    ASSUME NEW t \in Seq(Character), NEW i \in 1..Len(t), NEW esc, OpensLine(t, i),
           NEW j \in (i + 1)..(Len(t) + 1), InLine(t, i, j),
           Char(t, j) \in {"end", Newline, "return"}
    PROVE  UnitEnd(t, i, esc) = j - 1
<1>1. /\ Len(t) \in Nat /\ i \in Nat
      /\ \A k \in 1..Len(t) : Char(t, k) = t[k] /\ t[k] # "end"
      /\ Char(t, Len(t) + 1) = "end"
  BY CharFacts
<1>2. Ends(t, i, esc) = {k \in i..Len(t) : Char(t, k + 1) \in {Newline, "return"}}
  <2>1. t[i] \notin Quotes
    <3>1. Char(t, i) = t[i] BY <1>1
    <3> QED BY <3>1 DEF OpensLine, StartsDash, Quotes
  <2> QED BY <2>1 DEF Ends
<1>3. j - 1 \in i..Len(t) BY <1>1
<1>4. j - 1 \in Ends(t, i, esc) \/ j - 1 = Len(t)
  <2>1. CASE j = Len(t) + 1 BY <2>1, <1>1
  <2>2. CASE j # Len(t) + 1
    <3>1. j \in 1..Len(t) /\ j - 1 + 1 = j BY <2>2, <1>1
    <3>2. Char(t, j - 1 + 1) \in {Newline, "return"} BY <3>1, <1>1
    <3> QED BY <3>2, <1>2, <1>3
  <2> QED BY <2>1, <2>2
<1>5. ASSUME NEW m \in Ends(t, i, esc) PROVE j - 1 <= m
  <2>1. m \in i..Len(t) /\ Char(t, m + 1) \in {Newline, "return"} BY <1>2
  <2>2. ASSUME m < j - 1 PROVE FALSE
    <3>1. m + 1 \in (i + 1)..(j - 1) /\ m + 1 \in 1..Len(t) BY <2>1, <2>2, <1>1
    <3> QED BY <3>1, <2>1, <1>1 DEF InLine
  <2> QED BY <2>1, <2>2, <1>1
<1> QED BY <1>3, <1>4, <1>5, UnitEndIs

\* A block comment ends with the next closing mark, or with the text.
LEMMA BlockEnds ==
    ASSUME NEW t \in Seq(Character), NEW i \in 1..Len(t), NEW esc, OpensBlockAt(t, i)
    PROVE  /\ \A j \in (i + 2)..(Len(t) - 1) :
                 InBlock(t, i, j) /\ t[j] = "*" /\ t[j + 1] = "/" => UnitEnd(t, i, esc) = j + 1
           /\ InBlock(t, i, Len(t) + 1) => UnitEnd(t, i, esc) = Len(t)
<1>1. Len(t) \in Nat /\ i \in Nat BY CharFacts
<1>2. Ends(t, i, esc) = {j \in (i + 3)..Len(t) : t[j - 1] = "*" /\ t[j] = "/"}
  <2>1. Char(t, i) = t[i] BY CharFacts
  <2>2. t[i] \notin Quotes /\ ~OpensLine(t, i) /\ OpensComment(t, i)
    BY <2>1 DEF OpensBlockAt, OpensComment, OpensLine, StartsDash, Quotes
  <2> QED BY <2>2 DEF Ends
<1>3. ASSUME NEW j \in (i + 2)..(Len(t) - 1), InBlock(t, i, j), t[j] = "*", t[j + 1] = "/"
      PROVE  UnitEnd(t, i, esc) = j + 1
  <2>1. j + 1 \in (i + 3)..Len(t) /\ j + 1 - 1 = j /\ j + 1 \in i..Len(t) BY <1>1
  <2>2. j + 1 \in Ends(t, i, esc) BY <2>1, <1>2, <1>3
  <2>3. ASSUME NEW m \in Ends(t, i, esc) PROVE j + 1 <= m
    <3>1. m \in (i + 3)..Len(t) /\ t[m - 1] = "*" /\ t[m] = "/" BY <1>2
    <3>2. m \notin (i + 3)..j
      <4>1. m <= Len(t) BY <3>1, <1>1
      <4> QED BY <3>1, <4>1, <1>3 DEF InBlock
    <3> QED BY <3>1, <3>2, <1>1
  <2> QED BY <2>1, <2>2, <2>3, UnitEndIs
<1>4. ASSUME InBlock(t, i, Len(t) + 1) PROVE UnitEnd(t, i, esc) = Len(t)
  <2>1. ASSUME NEW m \in Ends(t, i, esc) PROVE FALSE
    <3>1. m \in (i + 3)..Len(t) /\ t[m - 1] = "*" /\ t[m] = "/" BY <1>2
    <3>2. m \in (i + 3)..(Len(t) + 1) /\ m <= Len(t) BY <3>1, <1>1
    <3> QED BY <3>1, <3>2, <1>4 DEF InBlock
  <2>2. Len(t) \in i..Len(t) BY <1>1
  <2> QED BY <2>1, <2>2, UnitEndIs
<1> QED BY <1>3, <1>4

\* A unit of any other kind is one character.
LEMMA OtherEnds ==
    ASSUME NEW t \in Seq(Character), NEW i \in 1..Len(t), NEW esc, t[i] \notin Quotes, ~OpensComment(t, i)
    PROVE  UnitEnd(t, i, esc) = i
<1>1. Len(t) \in Nat /\ i \in Nat BY CharFacts
<1>2. Ends(t, i, esc) = {i} BY DEF Ends, OpensComment
<1>3. i \in i..Len(t) /\ \A m \in {i} : i <= m BY <1>1
<1> QED BY <1>2, <1>3, UnitEndIs

-----------------------------------------------------------------------------
(* scanUnsafeComment.                                                        *)

\* What a step has to show that leaves the scan at k in state s.
LEMMA UnsafeGoes ==
    ASSUME NEW k, NEW s, Go(k, s)
    PROVE  /\ s = "sql" /\ Frontier(text, k, escapes) /\ SafeBefore(text, k, escapes) => UnsafeScanInv'
           /\ \A i \in Starts(text, escapes) :
                 /\ SafeBefore(text, i + 1, escapes)
                 /\ \/ text[i] \in Quotes /\ s = text[i] /\ InQuotes(text, i, k, escapes)
                    \/ OpensLine(text, i) /\ s = "line" /\ InLine(text, i, k)
                    \/ OpensBlockAt(text, i) /\ s = "block" /\ InBlock(text, i, k)
                 => UnsafeScanInv'
<1>1. at' = k /\ state' = s /\ text' = text /\ escapes' = escapes BY DEF Go
<1>2. ASSUME s = "sql", Frontier(text, k, escapes), SafeBefore(text, k, escapes) PROVE UnsafeScanInv'
  <2>1. AtUnit' BY <1>1, <1>2 DEF AtUnit
  <2> QED BY <2>1 DEF UnsafeScanInv
<1>3. ASSUME NEW i \in Starts(text, escapes), SafeBefore(text, i + 1, escapes),
             \/ text[i] \in Quotes /\ s = text[i] /\ InQuotes(text, i, k, escapes)
             \/ OpensLine(text, i) /\ s = "line" /\ InLine(text, i, k)
             \/ OpensBlockAt(text, i) /\ s = "block" /\ InBlock(text, i, k)
      PROVE  UnsafeScanInv'
  <2>1. (WithinUnit(i))' BY <1>1, <1>3 DEF WithinUnit
  <2>2. i \in Starts(text', escapes') BY <1>1
  <2> QED BY <2>1, <2>2 DEF UnsafeScanInv
<1> QED BY <1>2, <1>3

\* The scan at the begin of a unit.
LEMMA UnitBegins ==
    ASSUME ScanTypeOK, UnsafeScanInv, InState("sql")
    PROVE  /\ at \in Starts(text, escapes) /\ SafeBefore(text, at, escapes)
           /\ at \in 1..Len(text) /\ Here = text[at] /\ text \in Seq(Character) /\ Len(text) \in Nat
<1>1. text \in Seq(Character) BY DEF ScanTypeOK, Character
<1>2. AtUnit
  <2>1. ASSUME NEW i, WithinUnit(i) PROVE FALSE
    BY <2>1 DEF InState, WithinUnit, Quotes
  <2> QED BY <2>1 DEF UnsafeScanInv, InState
<1>3. at <= Len(text) BY DEF InState, InText
<1>4. Len(text) \in Nat /\ \A k \in 1..Len(text) : Char(text, k) = text[k] BY <1>1, CharFacts
<1>5. at \in Starts(text, escapes) BY <1>2, <1>3, <1>4 DEF AtUnit, Frontier
<1>6. at \in 1..Len(text) BY <1>1, <1>5, StartsFacts
<1> QED BY <1>1, <1>2, <1>4, <1>5, <1>6 DEF AtUnit, Here

\* The step that reads the first character of a unit, or all of it.
LEMMA UnitBeginsInv ==
    ASSUME ScanTypeOK, UnsafeScanInv, OpenQuote \/ OpenLine \/ OpenBlock \/ PlainSQL
    PROVE  UnsafeScanInv'
<1>1. InState("sql") BY DEF OpenQuote, OpenLine, OpenBlock, PlainSQL
<1>2. /\ at \in Starts(text, escapes) /\ SafeBefore(text, at, escapes)
      /\ at \in 1..Len(text) /\ Here = text[at] /\ text \in Seq(Character) /\ Len(text) \in Nat
  BY <1>1, UnitBegins
<1>3. escapes \in BOOLEAN BY DEF ScanTypeOK
<1>4. ~OpensUnsafe(text, at) => SafeBefore(text, at + 1, escapes) BY <1>2, UnitDone
<1>5. CASE OpenQuote
  <2>1. text[at] \in Quotes /\ Go(at + 1, text[at]) BY <1>2, <1>5 DEF OpenQuote
  <2>2. ~OpensUnsafe(text, at) BY <2>1 DEF OpensUnsafe, Quotes
  <2>3. InQuotes(text, at, at + 1, escapes) BY <1>2, <1>3, QuoteOpens
  <2> QED BY <2>1, <2>2, <2>3, <1>2, <1>4, UnsafeGoes
<1>6. CASE OpenLine
  <2>1. OpensLine(text, at) BY <1>2, <1>6 DEF OpenLine, OpensLine
  <2>2. ~OpensUnsafe(text, at)
    <3>1. Char(text, at) = text[at] BY <1>2, CharFacts
    <3> QED BY <2>1, <3>1 DEF OpensUnsafe, OpensLine, StartsDash
  <2>3. CASE Here = "#" /\ Go(at + 1, "line")
    <3>1. InLine(text, at, at + 1) BY <1>2 DEF InLine
    <3> QED BY <2>1, <2>2, <2>3, <3>1, <1>2, <1>4, UnsafeGoes
  <2>4. CASE StartsDash(text, at) /\ Go(at + 2, "line")
    <3>1. Char(text, at + 1) = "-" BY <2>4 DEF StartsDash
    <3>2. at + 1 <= Len(text) /\ text[at + 1] = "-" BY <3>1, <1>2, CharFacts
    <3>3. InLine(text, at, at + 2) BY <1>2, <3>2 DEF InLine, Newline
    <3> QED BY <2>1, <2>2, <2>4, <3>3, <1>2, <1>4, UnsafeGoes
  <2> QED BY <1>6, <2>3, <2>4 DEF OpenLine
<1>7. CASE OpenBlock
  <2>1. OpensBlockAt(text, at) /\ ~OpensUnsafe(text, at) /\ Go(at + 2, "block")
    BY <1>2, <1>7 DEF OpenBlock, OpensBlock, OpensBlockAt, OpensUnsafe, Ahead
  <2>2. at + 1 <= Len(text) BY <1>2, <2>1, CharFacts DEF OpensBlockAt
  <2>3. InBlock(text, at, at + 2) BY <1>2, <2>2 DEF InBlock
  <2> QED BY <2>1, <2>3, <1>2, <1>4, UnsafeGoes
<1>8. CASE PlainSQL
  <2>1. text[at] \notin Quotes /\ ~OpensComment(text, at) /\ Go(at + 1, "sql")
    BY <1>2, <1>8 DEF PlainSQL, OpensComment, OpensLine, OpensBlock, Ahead
  <2>2. ~OpensUnsafe(text, at) BY <2>1 DEF OpensUnsafe, OpensComment
  <2>3. UnitEnd(text, at, escapes) = at BY <1>2, <2>1, OtherEnds
  <2>4. Frontier(text, at + 1, escapes) BY <1>2, <2>3, UnitDone
  <2> QED BY <2>1, <2>2, <2>4, <1>2, <1>4, UnsafeGoes
<1> QED BY <1>5, <1>6, <1>7, <1>8

\* The scan within the unit that began at i.
LEMMA UnitGoesOn ==
    ASSUME ScanTypeOK, UnsafeScanInv, scan = "unsafe", InText, state # "sql"
    PROVE  /\ text \in Seq(Character) /\ Len(text) \in Nat
           /\ \E i \in Starts(text, escapes) : WithinUnit(i) /\ i \in 1..Len(text) /\ at \in (i + 1)..Len(text)
<1>1. text \in Seq(Character) BY DEF ScanTypeOK, Character
<1>2. Len(text) \in Nat BY <1>1, CharFacts
<1>3. PICK i \in Starts(text, escapes) : WithinUnit(i) BY DEF UnsafeScanInv, AtUnit
<1>4. i \in 1..Len(text) BY <1>1, StartsFacts
<1>5. at \in (i + 1)..(Len(text) + 1) BY <1>2, <1>3, <1>4 DEF WithinUnit, InQuotes, InLine, InBlock
<1>6. at \in (i + 1)..Len(text) BY <1>2, <1>4, <1>5 DEF InText
<1> QED BY <1>1, <1>2, <1>3, <1>4, <1>6

\* The steps between quotes.
LEMMA QuotesInv ==
    ASSUME ScanTypeOK, UnsafeScanInv, EscapedChar \/ DoubledQuote \/ CloseQuote \/ QuotedChar
    PROVE  UnsafeScanInv'
<1>1. scan = "unsafe" /\ InText /\ state \in Quotes
  BY DEF EscapedChar, DoubledQuote, CloseQuote, QuotedChar, InQuote
<1>2. escapes \in BOOLEAN /\ state # "sql" BY <1>1 DEF ScanTypeOK, Quotes
<1>3. text \in Seq(Character) /\ Len(text) \in Nat BY <1>1, <1>2, UnitGoesOn
<1>4. PICK i \in Starts(text, escapes) : WithinUnit(i) /\ i \in 1..Len(text) /\ at \in (i + 1)..Len(text)
  BY <1>1, <1>2, UnitGoesOn
<1>5. text[i] \in Quotes /\ state = text[i] /\ InQuotes(text, i, at, escapes) /\ SafeBefore(text, i + 1, escapes)
  BY <1>1, <1>4 DEF WithinUnit, Quotes
<1>6. Here = text[at] BY <1>3, <1>4, CharFacts DEF Here
<1>7. /\ escapes /\ text[i] # "tick" /\ text[at] = "backslash" /\ at < Len(text) => InQuotes(text, i, at + 2, escapes)
      /\ text[at] = text[i] /\ Char(text, at + 1) = text[i] => InQuotes(text, i, at + 2, escapes)
      /\ text[at] # text[i] /\ ~(escapes /\ text[i] # "tick" /\ text[at] = "backslash" /\ at < Len(text))
            => InQuotes(text, i, at + 1, escapes)
      /\ text[at] = text[i] /\ Char(text, at + 1) # text[i] => at \in Closings(text, i, escapes)
  BY <1>2, <1>3, <1>4, <1>5, QuoteStep
<1>8. ASSUME NEW k, Go(k, state), InQuotes(text, i, k, escapes) PROVE UnsafeScanInv'
  BY <1>4, <1>5, <1>8, UnsafeGoes
<1>9. CASE EscapedChar
  <2>1. InQuotes(text, i, at + 2, escapes) BY <1>5, <1>6, <1>7, <1>9 DEF EscapedChar, EscapesHere
  <2> QED BY <2>1, <1>8, <1>9 DEF EscapedChar
<1>10. CASE DoubledQuote
  <2>1. InQuotes(text, i, at + 2, escapes) BY <1>5, <1>6, <1>7, <1>10 DEF DoubledQuote, Ahead
  <2> QED BY <2>1, <1>8, <1>10 DEF DoubledQuote
<1>11. CASE QuotedChar
  <2>1. InQuotes(text, i, at + 1, escapes) BY <1>5, <1>6, <1>7, <1>11 DEF QuotedChar, EscapesHere
  <2> QED BY <2>1, <1>8, <1>11 DEF QuotedChar
<1>12. CASE CloseQuote
  <2>1. at \in Closings(text, i, escapes) BY <1>5, <1>6, <1>7, <1>12 DEF CloseQuote, Ahead
  <2>2. UnitEnd(text, i, escapes) = at BY <2>1, <1>2, <1>3, <1>4, <1>5, QuoteEnds
  <2>3. Frontier(text, at + 1, escapes) /\ SafeBefore(text, at + 1, escapes)
    BY <2>2, <1>3, <1>4, <1>5, UnitDone
  <2> QED BY <2>3, <1>12, UnsafeGoes DEF CloseQuote
<1> QED BY <1>9, <1>10, <1>11, <1>12

\* The steps within a comment.
LEMMA CommentsInv ==
    ASSUME ScanTypeOK, UnsafeScanInv, LineChar \/ BlockChar
    PROVE  UnsafeScanInv'
<1>1. scan = "unsafe" /\ InText /\ state \in {"line", "block"} BY DEF LineChar, BlockChar, InState
<1>2. state # "sql" BY <1>1
<1>3. text \in Seq(Character) /\ Len(text) \in Nat BY <1>1, <1>2, UnitGoesOn
<1>4. PICK i \in Starts(text, escapes) : WithinUnit(i) /\ i \in 1..Len(text) /\ at \in (i + 1)..Len(text)
  BY <1>1, <1>2, UnitGoesOn
<1>5. SafeBefore(text, i + 1, escapes) BY <1>4 DEF WithinUnit
<1>6. /\ Here = text[at] /\ Char(text, at) = text[at]
  BY <1>3, <1>4, CharFacts DEF Here
<1>7. ASSUME NEW k, UnitEnd(text, i, escapes) + 1 = k, Go(k, "sql") PROVE UnsafeScanInv'
  <2>1. Frontier(text, k, escapes) /\ SafeBefore(text, k, escapes) BY <1>3, <1>5, <1>7, UnitDone
  <2> QED BY <2>1, <1>7, UnsafeGoes
<1>8. CASE LineChar
  <2>1. state = "line" BY <1>8 DEF LineChar, InState
  <2>2. OpensLine(text, i) /\ InLine(text, i, at) BY <1>4, <2>1 DEF WithinUnit, Quotes
  <2>3. CASE Here \in {Newline, "return"}
    <3>1. UnitEnd(text, i, escapes) = at - 1 BY <1>3, <1>4, <1>6, <2>2, <2>3, LineEnds
    <3>2. Go(at + 1, "sql") BY <1>8, <2>3 DEF LineChar
    <3>3. Frontier(text, at, escapes) /\ SafeBefore(text, at, escapes)
      <4>1. Frontier(text, at - 1 + 1, escapes) /\ SafeBefore(text, at - 1 + 1, escapes)
        BY <3>1, <1>3, <1>5, UnitDone
      <4>2. at - 1 + 1 = at BY <1>4
      <4> QED BY <4>1, <4>2
    <3>4. at \in Starts(text, escapes) BY <3>3, <1>3, <1>4 DEF Frontier
    <3>5. text[at] \notin Quotes /\ ~OpensComment(text, at) /\ ~OpensUnsafe(text, at)
      BY <1>6, <2>3 DEF Quotes, OpensComment, OpensLine, OpensUnsafe, StartsDash, Newline
    <3>6. at \in 1..Len(text) BY <1>3, <1>4
    <3>7. UnitEnd(text, at, escapes) = at BY <1>3, <3>5, <3>6, OtherEnds
    <3>8. Frontier(text, at + 1, escapes) /\ SafeBefore(text, at + 1, escapes)
      BY <1>3, <3>3, <3>4, <3>5, <3>7, UnitDone
    <3> QED BY <3>2, <3>8, UnsafeGoes
  <2>4. CASE Here \notin {Newline, "return"}
    <3>1. Go(at + 1, "line") BY <1>8, <2>4 DEF LineChar
    <3>2. InLine(text, i, at + 1)
      <4>1. \A m \in (i + 1)..at : m \in (i + 1)..(at - 1) \/ m = at BY <1>4
      <4>2. at + 1 \in (i + 1)..(Len(text) + 1) /\ at + 1 - 1 = at BY <1>3, <1>4
      <4> QED BY <4>1, <4>2, <2>2, <2>4, <1>6 DEF InLine
    <3> QED BY <3>1, <3>2, <2>2, <1>4, <1>5, UnsafeGoes
  <2> QED BY <2>3, <2>4
<1>9. CASE BlockChar
  <2>1. state = "block" BY <1>9 DEF BlockChar, InState
  <2>2. OpensBlockAt(text, i) /\ InBlock(text, i, at) BY <1>4, <2>1 DEF WithinUnit, Quotes
  <2>3. at \in (i + 2)..Len(text) BY <2>2, <1>3, <1>4 DEF InBlock
  <2>4. CASE Here = "*" /\ Ahead(1) = "/"
    <3>1. at + 1 <= Len(text) /\ text[at + 1] = "/" BY <2>4, <1>3, <1>4, CharFacts DEF Ahead
    <3>2. at \in (i + 2)..(Len(text) - 1) BY <2>3, <3>1, <1>3
    <3>3. UnitEnd(text, i, escapes) = at + 1 BY <3>1, <3>2, <2>2, <2>4, <1>3, <1>4, <1>6, BlockEnds
    <3>4. Go(at + 2, "sql") BY <1>9, <2>4 DEF BlockChar
    <3>5. UnitEnd(text, i, escapes) + 1 = at + 2 BY <3>3, <1>4
    <3> QED BY <3>4, <3>5, <1>7
  <2>5. CASE ~(Here = "*" /\ Ahead(1) = "/")
    <3>1. Go(at + 1, "block") BY <1>9, <2>5, <2>1 DEF BlockChar
    <3>2. InBlock(text, i, at + 1)
      <4>1. ASSUME at + 1 <= Len(text) PROVE ~(text[at + 1 - 1] = "*" /\ text[at + 1] = "/")
        <5>1. at + 1 - 1 = at /\ at + 1 \in 1..Len(text) BY <1>3, <1>4, <4>1
        <5>2. Char(text, at + 1) = text[at + 1] BY <5>1, <1>3, CharFacts
        <5> QED BY <5>1, <5>2, <2>5, <1>6 DEF Ahead
      <4>2. \A m \in (i + 3)..(at + 1) : m \in (i + 3)..at \/ m = at + 1 BY <1>4
      <4>3. at + 1 \in (i + 2)..(Len(text) + 1) BY <2>3, <1>3, <1>4
      <4> QED BY <4>1, <4>2, <4>3, <2>2 DEF InBlock
    <3> QED BY <3>1, <3>2, <2>2, <1>4, <1>5, UnsafeGoes
  <2> QED BY <2>4, <2>5
<1> QED BY <1>8, <1>9

\* When a reading ends it has found no unsafe comment only if there is none.
LEMMA UnsafeReadingEnds ==
    ASSUME ScanTypeOK, UnsafeScanInv, scan = "unsafe", at > Len(text)
    PROVE  ~HasUnsafeComment(text, escapes)
<1>1. text \in Seq(Character) /\ escapes \in BOOLEAN BY DEF ScanTypeOK, Character
<1>2. Len(text) \in Nat /\ Char(text, Len(text) + 1) = "end" BY <1>1, CharFacts
<1>3. \A i \in Starts(text, escapes) : i \in 1..Len(text) BY <1>1, StartsFacts
<1>4. SafeBefore(text, Len(text) + 1, escapes)
  <2>1. CASE AtUnit
    <3>1. at = Len(text) + 1 BY <2>1, <1>2, <1>3 DEF AtUnit, Frontier
    <3> QED BY <2>1, <3>1 DEF AtUnit
  <2>2. ASSUME NEW i \in Starts(text, escapes), WithinUnit(i) PROVE SafeBefore(text, Len(text) + 1, escapes)
    <3>1. i \in 1..Len(text) BY <1>3
    <3>2. at = Len(text) + 1
      <4>1. at \in (i + 1)..(Len(text) + 1) BY <2>2, <3>1, <1>2 DEF WithinUnit, InQuotes, InLine, InBlock
      <4> QED BY <4>1, <3>1, <1>2
    <3>3. UnitEnd(text, i, escapes) = Len(text)
      <4>1. CASE text[i] \in Quotes /\ InQuotes(text, i, at, escapes) BY <4>1, <3>1, <3>2, <1>1, QuoteEnds
      <4>2. CASE OpensLine(text, i) /\ InLine(text, i, at)
        <5>1. at \in (i + 1)..(Len(text) + 1) /\ at - 1 = Len(text) BY <3>1, <3>2, <1>2
        <5> QED BY <4>2, <5>1, <3>1, <3>2, <1>1, <1>2, LineEnds
      <4>3. CASE OpensBlockAt(text, i) /\ InBlock(text, i, at) BY <4>3, <3>1, <3>2, <1>1, BlockEnds
      <4> QED BY <2>2, <4>1, <4>2, <4>3 DEF WithinUnit
    <3>4. SafeBefore(text, i + 1, escapes) BY <2>2 DEF WithinUnit
    <3> QED BY <3>3, <3>4, <1>1, UnitDone
  <2> QED BY <2>1, <2>2 DEF UnsafeScanInv
<1>5. \A i \in Starts(text, escapes) : i < Len(text) + 1 BY <1>2, <1>3
<1> QED BY <1>4, <1>5 DEF HasUnsafeComment, SafeBefore

-----------------------------------------------------------------------------
(* The loops of scanAmbiguousBuiltinCall.                                    *)

\* skipMySQLLineComment goes on where the line comment ends.
LEMMA SkipLineIs ==
    ASSUME NEW t \in Seq(Character), NEW i \in 1..Len(t), NEW esc, OpensLine(t, i),
           NEW k \in (i + 1)..(Len(t) + 1), InLine(t, i, k)
    PROVE  SkipLine(t, k) = UnitEnd(t, i, esc) + 1
<1> DEFINE S == {j \in k..(Len(t) + 1) : Char(t, j) \in {"end", Newline, "return"}}
           m == SkipLine(t, k)
<1>1. Len(t) \in Nat /\ i \in Nat /\ Char(t, Len(t) + 1) = "end"
      /\ \A j \in 1..Len(t) : Char(t, j) = t[j]
  BY CharFacts
<1>2. S \subseteq Nat /\ Len(t) + 1 \in S BY <1>1
<1>3. m \in S /\ \A y \in S : m <= y
  <2>1. m = Min(S) BY DEF SkipLine
  <2> HIDE DEF S, m
  <2> QED BY <1>2, <2>1, MinFacts
<1> HIDE DEF m
<1>4. m \in k..(Len(t) + 1) /\ m \in (i + 1)..(Len(t) + 1) /\ m \in Nat BY <1>1, <1>3
<1>5. InLine(t, i, m)
  <2> SUFFICES ASSUME NEW j \in (i + 1)..(m - 1) PROVE t[j] \notin {Newline, "return"}
    BY <1>4 DEF InLine
  <2>1. CASE j < k
    <3>1. j \in (i + 1)..(k - 1) BY <2>1, <1>4
    <3> QED BY <3>1 DEF InLine
  <2>2. CASE ~(j < k)
    <3>1. j \in k..(Len(t) + 1) /\ j \in 1..Len(t) /\ j \in Nat BY <2>2, <1>1, <1>4
    <3>2. j \notin S BY <3>1, <1>3, <1>4
    <3> QED BY <3>1, <3>2, <1>1
  <2> QED BY <2>1, <2>2
<1>6. UnitEnd(t, i, esc) = m - 1 BY <1>3, <1>4, <1>5, LineEnds
<1> QED BY <1>4, <1>6 DEF m

\* skipMySQLBlockComment goes on where the block comment ends.
LEMMA SkipBlockIs ==
    ASSUME NEW t \in Seq(Character), NEW i \in 1..Len(t), NEW esc, OpensBlockAt(t, i)
    PROVE  SkipBlock(t, i + 2) = UnitEnd(t, i, esc) + 1
<1> DEFINE R == {j \in (i + 2)..(Len(t) - 1) : t[j] = "*" /\ t[j + 1] = "/"}
           S == {j + 2 : j \in R} \cup {Len(t) + 1}
           m == SkipBlock(t, i + 2)
<1>1. Len(t) \in Nat /\ i \in Nat BY CharFacts
<1>2. i + 1 <= Len(t) BY <1>1, CharFacts DEF OpensBlockAt
<1>3. m \in S /\ \A y \in S : m <= y
  <2>1. m = Min(S) BY Zenon DEF SkipBlock
  <2>2. S \subseteq Nat /\ S # {} BY <1>1
  <2> HIDE DEF S, m
  <2> QED BY <2>1, <2>2, MinFacts
<1> HIDE DEF m
<1>4. m <= Len(t) + 1 /\ \A j \in R : m <= j + 2 BY <1>3
<1>5. m \in Nat BY <1>1, <1>3
<1>6. ASSUME NEW n \in (i + 3)..Len(t), t[n - 1] = "*", t[n] = "/" PROVE m <= n + 1
  <2>1. n - 1 \in (i + 2)..(Len(t) - 1) /\ n - 1 + 1 = n /\ n - 1 + 2 = n + 1 BY <1>1
  <2>2. n - 1 \in R BY <2>1, <1>6
  <2> QED BY <2>1, <2>2, <1>4
<1>7. CASE m = Len(t) + 1 /\ \A j \in R : m # j + 2
  <2>1. InBlock(t, i, Len(t) + 1)
    <3> SUFFICES ASSUME NEW n \in (i + 3)..(Len(t) + 1), n <= Len(t), t[n - 1] = "*", t[n] = "/" PROVE FALSE
      <4>1. Len(t) + 1 \in (i + 2)..(Len(t) + 1) BY <1>1, <1>2
      <4> QED BY <4>1 DEF InBlock
    <3>1. n = Len(t)
      <4>1. n \in (i + 3)..Len(t) BY <1>1
      <4>2. m <= n + 1 BY <4>1, <1>6
      <4> QED BY <4>1, <4>2, <1>7, <1>1
    <3>2. n - 1 \in (i + 2)..(Len(t) - 1) /\ n - 1 + 1 = n /\ n - 1 + 2 = m BY <1>1, <1>7, <3>1
    <3>3. n - 1 \in R BY <3>2
    <3> QED BY <3>2, <3>3, <1>7
  <2> QED BY <1>1, <1>7, <2>1, BlockEnds DEF m
<1>8. CASE ~(m = Len(t) + 1 /\ \A j \in R : m # j + 2)
  <2>1. PICK j \in R : m = j + 2 BY <1>3, <1>8
  <2>2. j \in (i + 2)..(Len(t) - 1) /\ t[j] = "*" /\ t[j + 1] = "/" BY <2>1
  <2>3. InBlock(t, i, j)
    <3> SUFFICES ASSUME NEW n \in (i + 3)..j, n <= Len(t), t[n - 1] = "*", t[n] = "/" PROVE FALSE
      <4>1. j \in (i + 2)..(Len(t) + 1) BY <2>2, <1>1
      <4> QED BY <4>1 DEF InBlock
    <3>1. n \in (i + 3)..Len(t) BY <1>1
    <3>2. m <= n + 1 BY <3>1, <1>6
    <3> QED BY <3>2, <2>1, <2>2, <1>1
  <2>4. UnitEnd(t, i, esc) = j + 1 BY <2>2, <2>3, BlockEnds
  <2> QED BY <2>1, <2>2, <2>4, <1>1 DEF m
<1> QED BY <1>7, <1>8

\* What one turn of the loop of skipMySQLQuotedString decides.
EscapedIn(t, i, j, esc) == esc /\ t[i] # "tick" /\ t[j] = "backslash" /\ j < Len(t)
QuotedStep(t, i, esc, j, skip) ==
    IF j > Len(t) THEN Len(t) + 2
    ELSE IF EscapedIn(t, i, j, esc) THEN skip[j + 2]
    ELSE IF t[j] # t[i] THEN skip[j + 1]
    ELSE IF Char(t, j + 1) = t[i] THEN skip[j + 2]
    ELSE j + 1
IsSkipQuoted(t, i, esc, f) ==
    f = [j \in 1..(Len(t) + 2) |->
           IF j > Len(t) THEN Len(t) + 2
           ELSE IF esc /\ t[i] # "tick" /\ t[j] = "backslash" /\ j < Len(t) THEN f[j + 2]
           ELSE IF t[j] # t[i] THEN f[j + 1]
           ELSE IF Char(t, j + 1) = t[i] THEN f[j + 2]
           ELSE j + 1]

\* The loop over what is quoted has a solution.
LEMMA SkipQuotedDefined ==
    ASSUME NEW t \in Seq(Character), NEW i \in 1..Len(t), NEW esc
    PROVE  \E skip : /\ SkipQuoted(t, i, esc) = skip[i + 1]
                     /\ \A j \in 1..(Len(t) + 2) : skip[j] = QuotedStep(t, i, esc, j, skip)
<1> DEFINE D == 1..(Len(t) + 2)
           F == [D -> Nat]
           rank == [j \in D |-> Len(t) + 2 - j]
           step == [j \in D |-> [g \in F |-> QuotedStep(t, i, esc, j, g)]]
           skip == CHOOSE f : IsSkipQuoted(t, i, esc, f)
<1>1. Len(t) \in Nat BY CharFacts
<1>2. \A j \in D : j <= Len(t) => j + 1 \in D /\ j + 2 \in D /\ rank[j + 1] < rank[j] /\ rank[j + 2] < rank[j]
  BY <1>1
<1>3. \E f : Solves(D, Nat, step, f)
  <2>1. 0 \in Nat /\ Len(t) + 2 \in Nat /\ rank \in [D -> 0..(Len(t) + 2)] BY <1>1
  <2>2. step \in Steps(D, Nat)
    <3> SUFFICES ASSUME NEW j \in D, NEW g \in F PROVE QuotedStep(t, i, esc, j, g) \in Nat BY DEF Steps
    <3>1. j <= Len(t) => g[j + 1] \in Nat /\ g[j + 2] \in Nat
      <4> HIDE DEF D, rank
      <4> QED BY <1>2
    <3>2. j + 1 \in Nat /\ Len(t) + 2 \in Nat /\ (j > Len(t) \/ j <= Len(t)) BY <1>1
    <3> QED BY <3>1, <3>2 DEF QuotedStep
  <2>3. LooksBack(D, Nat, rank, step)
    <3> SUFFICES ASSUME NEW j \in D, NEW g \in F, NEW h \in F,
                        \A e \in D : rank[e] < rank[j] => g[e] = h[e]
                 PROVE  step[j][g] = step[j][h]
      BY Zenon DEF LooksBack
    <3>1. j <= Len(t) => g[j + 1] = h[j + 1] /\ g[j + 2] = h[j + 2]
      <4> HIDE DEF D, rank
      <4> QED BY <1>2
    <3>2. step[j][g] = QuotedStep(t, i, esc, j, g) /\ step[j][h] = QuotedStep(t, i, esc, j, h) BY Zenon
    <3>3. j > Len(t) \/ j <= Len(t) BY <1>1
    <3>4. QuotedStep(t, i, esc, j, g) = QuotedStep(t, i, esc, j, h) BY <3>1, <3>3 DEF QuotedStep
    <3> QED BY <3>2, <3>4, Zenon
  <2> HIDE DEF D, rank, step
  <2> QED BY <2>1, <2>2, <2>3, Recursion
<1>4. \E f : IsSkipQuoted(t, i, esc, f)
  <2>1. PICK f : Solves(D, Nat, step, f) BY <1>3, Zenon
  <2>2. f \in F /\ \A j \in D : f[j] = step[j][f] BY <2>1, Zenon DEF Solves
  <2>3. \A j \in D : f[j] = QuotedStep(t, i, esc, j, f)
    <3> TAKE j \in D
    <3>1. step[j][f] = QuotedStep(t, i, esc, j, f) BY <2>2, Zenon
    <3> QED BY <2>2, <3>1, Zenon
  <2>4. f = [j \in D |-> f[j]] BY <2>2
  <2>5. f = [j \in D |-> QuotedStep(t, i, esc, j, f)] BY <2>3, <2>4, Zenon
  <2>6. IsSkipQuoted(t, i, esc, f) BY <2>5, Zenon DEF IsSkipQuoted, QuotedStep, EscapedIn
  <2> QED BY <2>6, Zenon
<1>5. IsSkipQuoted(t, i, esc, skip)
  <2> HIDE DEF skip
  <2> QED BY <1>4, Zenon DEF skip
<1>6. SkipQuoted(t, i, esc) = skip[i + 1] BY Zenon DEF SkipQuoted, IsSkipQuoted
<1> HIDE DEF skip
<1>7. \A j \in D : skip[j] = QuotedStep(t, i, esc, j, skip)
  BY <1>5, Zenon DEF IsSkipQuoted, QuotedStep, EscapedIn
<1> QED BY <1>6, <1>7

\* It ends after the closing quote, if there is one.
LEMMA SkipQuotedIs ==
    ASSUME NEW t \in Seq(Character), NEW i \in 1..Len(t), NEW esc \in BOOLEAN, t[i] \in Quotes
    PROVE  \/ /\ SkipQuoted(t, i, esc) = UnitEnd(t, i, esc) + 1
              /\ UnitEnd(t, i, esc) \in Closings(t, i, esc)
           \/ /\ SkipQuoted(t, i, esc) = Len(t) + 2
              /\ UnitEnd(t, i, esc) = Len(t)
              /\ Closings(t, i, esc) = {}
<1> DEFINE Right(n) == \/ n = UnitEnd(t, i, esc) + 1 /\ UnitEnd(t, i, esc) \in Closings(t, i, esc)
                       \/ n = Len(t) + 2 /\ UnitEnd(t, i, esc) = Len(t) /\ Closings(t, i, esc) = {}
<1>1. PICK skip : /\ SkipQuoted(t, i, esc) = skip[i + 1]
                  /\ \A j \in 1..(Len(t) + 2) : skip[j] = QuotedStep(t, i, esc, j, skip)
  BY SkipQuotedDefined
<1>2. Len(t) \in Nat /\ i \in Nat BY CharFacts
<1> DEFINE T == {n \in 0..(Len(t) + 1) : \E j \in (i + 1)..(Len(t) + 1) :
                   n = Len(t) + 1 - j /\ InQuotes(t, i, j, esc) /\ ~Right(skip[j])}
<1>3. T = {}
  <2> SUFFICES ASSUME T # {} PROVE FALSE OBVIOUS
  <2>1. PICK n \in T : \A k \in T : n <= k
    <3>1. T \subseteq Nat BY <1>2
    <3> HIDE DEF T
    <3> QED BY <3>1, LeastElement
  <2>2. PICK j \in (i + 1)..(Len(t) + 1) :
           n = Len(t) + 1 - j /\ InQuotes(t, i, j, esc) /\ ~Right(skip[j])
    BY <2>1
  <2>3. j \in 1..(Len(t) + 2) /\ j \in Nat BY <1>2
  <2>4. skip[j] = QuotedStep(t, i, esc, j, skip) BY <2>3, <1>1
  <2>5. ASSUME NEW k \in (i + 1)..(Len(t) + 1), k > j, InQuotes(t, i, k, esc), skip[j] = skip[k] PROVE FALSE
    <3>1. ~Right(skip[k]) BY <2>2, <2>5
    <3>2. Len(t) + 1 - k \in 0..(Len(t) + 1) BY <1>2
    <3>3. Len(t) + 1 - k \in T
      <4> HIDE DEF Right
      <4> QED BY <3>1, <3>2, <2>5
    <3>4. n <= Len(t) + 1 - k BY <2>1, <3>3
    <3> QED BY <3>4, <2>2, <2>5, <1>2
  <2>6. CASE j > Len(t)
    <3>1. j = Len(t) + 1 BY <2>6, <1>2
    <3>2. skip[j] = Len(t) + 2 BY <2>4, <2>6 DEF QuotedStep
    <3>3. Closings(t, i, esc) = {} /\ UnitEnd(t, i, esc) = Len(t) BY <2>2, <3>1, QuoteEnds
    <3> QED BY <3>2, <3>3, <2>2
  <2>7. CASE j <= Len(t)
    <3>1. j \in (i + 1)..Len(t) /\ ~(j > Len(t)) BY <2>7, <1>2
    <3>2. /\ EscapedIn(t, i, j, esc) => InQuotes(t, i, j + 2, esc)
          /\ t[j] = t[i] /\ Char(t, j + 1) = t[i] => InQuotes(t, i, j + 2, esc)
          /\ t[j] # t[i] /\ ~EscapedIn(t, i, j, esc) => InQuotes(t, i, j + 1, esc)
          /\ t[j] = t[i] /\ Char(t, j + 1) # t[i] => j \in Closings(t, i, esc)
      BY <3>1, <2>2, QuoteStep DEF EscapedIn
    <3>3. InQuotes(t, i, j + 2, esc) => j + 2 \in (i + 1)..(Len(t) + 1) /\ j + 2 > j BY <2>3 DEF InQuotes
    <3>4. InQuotes(t, i, j + 1, esc) => j + 1 \in (i + 1)..(Len(t) + 1) /\ j + 1 > j BY <2>3 DEF InQuotes
    <3>5. CASE EscapedIn(t, i, j, esc)
      <4>1. skip[j] = skip[j + 2] BY <2>4, <3>1, <3>5 DEF QuotedStep
      <4> QED BY <4>1, <3>2, <3>3, <3>5, <2>5
    <3>6. CASE ~EscapedIn(t, i, j, esc) /\ t[j] # t[i]
      <4>1. skip[j] = skip[j + 1] BY <2>4, <3>1, <3>6 DEF QuotedStep
      <4> QED BY <4>1, <3>2, <3>4, <3>6, <2>5
    <3>7. CASE ~EscapedIn(t, i, j, esc) /\ t[j] = t[i] /\ Char(t, j + 1) = t[i]
      <4>1. skip[j] = skip[j + 2] BY <2>4, <3>1, <3>7 DEF QuotedStep
      <4> QED BY <4>1, <3>2, <3>3, <3>7, <2>5
    <3>8. CASE ~EscapedIn(t, i, j, esc) /\ t[j] = t[i] /\ Char(t, j + 1) # t[i]
      <4>1. skip[j] = j + 1 BY <2>4, <3>1, <3>8 DEF QuotedStep
      <4>2. j \in Closings(t, i, esc) BY <3>2, <3>8
      <4>3. UnitEnd(t, i, esc) = j BY <4>2, <3>1, <2>2, QuoteEnds
      <4> QED BY <4>1, <4>2, <4>3, <2>2
    <3> QED BY <3>5, <3>6, <3>7, <3>8
  <2> QED BY <2>3, <2>6, <2>7, <1>2
<1>4. InQuotes(t, i, i + 1, esc) BY QuoteOpens
<1>5. i + 1 \in (i + 1)..(Len(t) + 1) /\ Len(t) + 1 - (i + 1) \in 0..(Len(t) + 1) BY <1>2
<1>6. Right(skip[i + 1])
  <2> HIDE DEF Right
  <2>1. Len(t) + 1 - (i + 1) \notin T BY <1>3
  <2> QED BY <2>1, <1>4, <1>5
<1> QED BY <1>1, <1>6

\* What the characters of names, the spaces and the marks are not.
LEMMA KindsFacts ==
    /\ \A c \in Spaces : c \notin Quotes /\ c \notin NamePart /\ c \notin {"#", "-", "/", "(", "end"}
    /\ \A c \in NamePart : c \notin Quotes /\ c \notin Spaces /\ c \notin {"#", "-", "/", "(", "end"}
    /\ \A c \in Letters : c \in NamePart
<1>1. {"#", "-", "/", "("} \subseteq Marks /\ Quotes \subseteq Marks BY DEF Marks
<1>2. Letters \subseteq NamePart BY DEF NamePart
<1> QED BY <1>1, <1>2, CharsAssumption

\* The loop of skipMySQLTrivia goes from unit to unit.
TriviaStep(t, j, skip) ==
    IF Char(t, j) \in Spaces THEN skip[j + 1]
    ELSE IF Char(t, j) = "#" THEN skip[SkipLine(t, j + 1)]
    ELSE IF StartsDash(t, j) THEN skip[SkipLine(t, j + 2)]
    ELSE IF Char(t, j) = "/" /\ Char(t, j + 1) = "*" THEN skip[SkipBlock(t, j + 2)]
    ELSE j
IsSkipTrivia(t, f) ==
    f = [j \in 1..(Len(t) + 1) |->
           IF Char(t, j) \in Spaces THEN f[j + 1]
           ELSE IF Char(t, j) = "#" THEN f[SkipLine(t, j + 1)]
           ELSE IF StartsDash(t, j) THEN f[SkipLine(t, j + 2)]
           ELSE IF Char(t, j) = "/" /\ Char(t, j + 1) = "*" THEN f[SkipBlock(t, j + 2)]
           ELSE j]

\* Where the loop over spaces and comments goes on after one of them: at the next unit.
LEMMA TriviaNext ==
    ASSUME NEW t \in Seq(Character), NEW esc, NEW skip
    PROVE  /\ \A j \in 1..Len(t) : TriviaStep(t, j, skip) = IF Separates(t, j) THEN skip[UnitEnd(t, j, esc) + 1] ELSE j
           /\ TriviaStep(t, Len(t) + 1, skip) = Len(t) + 1
<1>1. /\ Len(t) \in Nat
      /\ \A k \in 1..Len(t) : Char(t, k) = t[k] /\ t[k] # "end"
      /\ Char(t, Len(t) + 1) = "end"
      /\ \A k \in Nat : Char(t, k) # "end" => k <= Len(t)
  BY CharFacts
<1>2. TriviaStep(t, Len(t) + 1, skip) = Len(t) + 1 BY <1>1, KindsFacts DEF TriviaStep, StartsDash
<1>3. ASSUME NEW j \in 1..Len(t)
      PROVE  TriviaStep(t, j, skip) = IF Separates(t, j) THEN skip[UnitEnd(t, j, esc) + 1] ELSE j
  <2>1. Char(t, j) = t[j] BY <1>1
  <2>2. CASE t[j] \in Spaces
    <3>1. t[j] \notin Quotes /\ ~OpensComment(t, j)
      BY <2>1, <2>2, KindsFacts DEF OpensComment, OpensLine, StartsDash
    <3>2. UnitEnd(t, j, esc) = j BY <3>1, OtherEnds
    <3> QED BY <2>1, <2>2, <3>2 DEF TriviaStep, Separates
  <2>3. CASE t[j] = "#"
    <3>1. OpensLine(t, j) BY <2>3 DEF OpensLine
    <3>2. j + 1 \in (j + 1)..(Len(t) + 1) /\ InLine(t, j, j + 1) BY <1>1 DEF InLine
    <3>3. SkipLine(t, j + 1) = UnitEnd(t, j, esc) + 1 BY <3>1, <3>2, SkipLineIs
    <3>4. t[j] \notin Spaces BY <2>3, KindsFacts
    <3> QED BY <2>1, <2>3, <3>1, <3>3, <3>4 DEF TriviaStep, Separates, OpensComment
  <2>4. CASE StartsDash(t, j)
    <3>1. OpensLine(t, j) BY <2>4 DEF OpensLine
    <3>2. Char(t, j + 1) = "-" /\ t[j] = "-" BY <2>1, <2>4 DEF StartsDash
    <3>3. j + 1 <= Len(t) /\ t[j + 1] = "-" BY <3>2, <1>1
    <3>4. j + 2 \in (j + 1)..(Len(t) + 1) /\ InLine(t, j, j + 2) BY <1>1, <3>3 DEF InLine, Newline
    <3>5. SkipLine(t, j + 2) = UnitEnd(t, j, esc) + 1 BY <3>1, <3>4, SkipLineIs
    <3>6. t[j] \notin Spaces /\ t[j] # "#" BY <3>2, KindsFacts
    <3> QED BY <2>1, <2>4, <3>1, <3>5, <3>6 DEF TriviaStep, Separates, OpensComment
  <2>5. CASE OpensBlockAt(t, j)
    <3>1. SkipBlock(t, j + 2) = UnitEnd(t, j, esc) + 1 BY <2>5, SkipBlockIs
    <3>2. t[j] \notin Spaces /\ t[j] # "#" /\ ~StartsDash(t, j)
      BY <2>1, <2>5, KindsFacts DEF OpensBlockAt, StartsDash
    <3> QED BY <2>1, <2>5, <3>1, <3>2 DEF TriviaStep, Separates, OpensComment, OpensBlockAt
  <2> QED BY <2>1, <2>2, <2>3, <2>4, <2>5 DEF TriviaStep, Separates, OpensComment, OpensLine, OpensBlockAt
<1> QED BY <1>2, <1>3

\* The loop over spaces and comments has a solution.
LEMMA SkipTriviaDefined ==
    ASSUME NEW t \in Seq(Character), NEW esc
    PROVE  \E skip : /\ \A k : SkipTrivia(t, k) = skip[k]
                     /\ \A j \in 1..Len(t) : skip[j] = IF Separates(t, j) THEN skip[UnitEnd(t, j, esc) + 1] ELSE j
                     /\ skip[Len(t) + 1] = Len(t) + 1
<1> DEFINE D == 1..(Len(t) + 1)
           F == [D -> Nat]
           rank == [j \in D |-> Len(t) + 1 - j]
           step == [j \in D |-> [g \in F |-> TriviaStep(t, j, g)]]
           skip == CHOOSE f : IsSkipTrivia(t, f)
           next(j) == UnitEnd(t, j, esc) + 1
<1>1. Len(t) \in Nat BY CharFacts
<1>2. \A j \in 1..Len(t) : next(j) \in D /\ rank[next(j)] < rank[j]
  <2> TAKE j \in 1..Len(t)
  <2>1. UnitEnd(t, j, esc) \in j..Len(t) BY EndsFacts
  <2> QED BY <2>1, <1>1
<1>3. \A j \in D : j \in 1..Len(t) \/ j = Len(t) + 1 BY <1>1
<1>4. \A g : /\ \A j \in 1..Len(t) : TriviaStep(t, j, g) = IF Separates(t, j) THEN g[next(j)] ELSE j
             /\ TriviaStep(t, Len(t) + 1, g) = Len(t) + 1
  BY TriviaNext
<1> HIDE DEF next
<1>5. \E f : Solves(D, Nat, step, f)
  <2>1. 0 \in Nat /\ Len(t) + 1 \in Nat /\ rank \in [D -> 0..(Len(t) + 1)] BY <1>1
  <2>2. step \in Steps(D, Nat)
    <3> SUFFICES ASSUME NEW j \in D, NEW g \in F PROVE TriviaStep(t, j, g) \in Nat BY DEF Steps
    <3>1. j \in 1..Len(t) => g[next(j)] \in Nat
      <4> HIDE DEF D, rank
      <4> QED BY <1>2
    <3>2. j \in Nat /\ Len(t) + 1 \in Nat BY <1>1
    <3>3. CASE j \in 1..Len(t)
      <4>1. TriviaStep(t, j, g) = IF Separates(t, j) THEN g[next(j)] ELSE j BY <1>4, <3>3
      <4> QED BY <4>1, <3>1, <3>2, <3>3
    <3>4. CASE j = Len(t) + 1 BY <3>4, <1>4, <3>2
    <3> QED BY <3>3, <3>4, <1>3
  <2>3. LooksBack(D, Nat, rank, step)
    <3> SUFFICES ASSUME NEW j \in D, NEW g \in F, NEW h \in F,
                        \A e \in D : rank[e] < rank[j] => g[e] = h[e]
                 PROVE  step[j][g] = step[j][h]
      BY Zenon DEF LooksBack
    <3>1. j \in 1..Len(t) => g[next(j)] = h[next(j)]
      <4> HIDE DEF D, rank
      <4> QED BY <1>2
    <3>2. step[j][g] = TriviaStep(t, j, g) /\ step[j][h] = TriviaStep(t, j, h) BY Zenon
    <3>3. TriviaStep(t, j, g) = TriviaStep(t, j, h)
      <4>1. CASE j \in 1..Len(t)
        <5>1. /\ TriviaStep(t, j, g) = IF Separates(t, j) THEN g[next(j)] ELSE j
              /\ TriviaStep(t, j, h) = IF Separates(t, j) THEN h[next(j)] ELSE j
          BY <1>4, <4>1, Zenon
        <5> QED BY <5>1, <3>1, <4>1
      <4>2. CASE j = Len(t) + 1
        <5>1. TriviaStep(t, j, g) = Len(t) + 1 /\ TriviaStep(t, j, h) = Len(t) + 1 BY <1>4, <4>2, Zenon
        <5> QED BY <5>1
      <4> QED BY <4>1, <4>2, <1>3
    <3> QED BY <3>2, <3>3, Zenon
  <2> HIDE DEF D, rank, step
  <2> QED BY <2>1, <2>2, <2>3, Recursion
<1>6. \E f : IsSkipTrivia(t, f)
  <2>1. PICK f : Solves(D, Nat, step, f) BY <1>5, Zenon
  <2>2. f \in F /\ \A j \in D : f[j] = step[j][f] BY <2>1, Zenon DEF Solves
  <2>3. \A j \in D : f[j] = TriviaStep(t, j, f)
    <3> TAKE j \in D
    <3>1. step[j][f] = TriviaStep(t, j, f) BY <2>2, Zenon
    <3> QED BY <2>2, <3>1, Zenon
  <2>4. f = [j \in D |-> f[j]] BY <2>2
  <2>5. f = [j \in D |-> TriviaStep(t, j, f)] BY <2>3, <2>4, Zenon
  <2>6. IsSkipTrivia(t, f) BY <2>5, Zenon DEF IsSkipTrivia, TriviaStep
  <2> QED BY <2>6, Zenon
<1>7. IsSkipTrivia(t, skip)
  <2> HIDE DEF skip
  <2> QED BY <1>6, Zenon DEF skip
<1>8. \A k : SkipTrivia(t, k) = skip[k] BY Zenon DEF SkipTrivia, IsSkipTrivia
<1> HIDE DEF skip
<1>9. \A j \in D : skip[j] = TriviaStep(t, j, skip)
  BY <1>7, Zenon DEF IsSkipTrivia, TriviaStep
<1>10. \A j \in 1..Len(t) : skip[j] = IF Separates(t, j) THEN skip[next(j)] ELSE j
  <2> TAKE j \in 1..Len(t)
  <2>1. j \in D BY <1>1
  <2>2. skip[j] = TriviaStep(t, j, skip) BY <2>1, <1>9, Zenon
  <2>3. TriviaStep(t, j, skip) = IF Separates(t, j) THEN skip[next(j)] ELSE j BY <1>4, Zenon
  <2> QED BY <2>2, <2>3
<1>11. skip[Len(t) + 1] = Len(t) + 1
  <2>1. Len(t) + 1 \in D BY <1>1
  <2>2. skip[Len(t) + 1] = TriviaStep(t, Len(t) + 1, skip) BY <2>1, <1>9, Zenon
  <2> QED BY <2>2, <1>4
<1> QED BY <1>8, <1>10, <1>11 DEF next

\* From the begin of a unit it goes to the first one that is no space or comment.
LEMMA SkipTriviaIs ==
    ASSUME NEW t \in Seq(Character), NEW esc, NEW k, Frontier(t, k, esc)
    PROVE  /\ Frontier(t, SkipTrivia(t, k), esc)
           /\ k <= SkipTrivia(t, k)
           /\ \A m \in Starts(t, esc) : k <= m /\ m < SkipTrivia(t, k) => Separates(t, m)
           /\ SkipTrivia(t, k) <= Len(t) => ~Separates(t, SkipTrivia(t, k))
<1> DEFINE St == Starts(t, esc)
           Right(j, q) == /\ Frontier(t, q, esc) /\ j <= q
                          /\ \A m \in St : j <= m /\ m < q => Separates(t, m)
                          /\ q <= Len(t) => ~Separates(t, q)
<1>1. PICK skip : /\ \A j : SkipTrivia(t, j) = skip[j]
                  /\ \A j \in 1..Len(t) : skip[j] = IF Separates(t, j) THEN skip[UnitEnd(t, j, esc) + 1] ELSE j
                  /\ skip[Len(t) + 1] = Len(t) + 1
  BY SkipTriviaDefined
<1>2. /\ Len(t) \in Nat
      /\ \A j \in St : j \in 1..Len(t) /\ UnitEnd(t, j, esc) \in j..Len(t) /\ Frontier(t, UnitEnd(t, j, esc) + 1, esc)
  BY CharFacts, StartsFacts
<1>3. \A j : Frontier(t, j, esc) => j \in 1..(Len(t) + 1) BY <1>2 DEF Frontier
<1> DEFINE T == {n \in 0..Len(t) : \E j : n = Len(t) + 1 - j /\ Frontier(t, j, esc) /\ ~Right(j, skip[j])}
<1>4. T = {}
  <2> SUFFICES ASSUME T # {} PROVE FALSE OBVIOUS
  <2>1. PICK n \in T : \A m \in T : n <= m
    <3>1. T \subseteq Nat BY <1>2
    <3> HIDE DEF T
    <3> QED BY <3>1, LeastElement
  <2>2. PICK j : n = Len(t) + 1 - j /\ Frontier(t, j, esc) /\ ~Right(j, skip[j]) BY <2>1
  <2>3. j \in 1..(Len(t) + 1) BY <2>2, <1>3
  <2>4. \A m \in St : m \in Nat BY <1>2
  <2>5. CASE j = Len(t) + 1
    <3>1. skip[j] = j BY <2>5, <1>1
    <3>2. ~(j <= Len(t)) /\ j <= j BY <2>5, <1>2
    <3>3. \A m \in St : ~(j <= m /\ m < j) BY <2>3, <2>4
    <3> QED BY <3>1, <3>2, <3>3, <2>2
  <2>6. CASE j # Len(t) + 1 /\ ~Separates(t, j)
    <3>1. j \in 1..Len(t) BY <2>3, <2>6, <1>2
    <3>2. skip[j] = j BY <3>1, <2>6, <1>1
    <3>3. \A m \in St : ~(j <= m /\ m < j) BY <2>3, <2>4
    <3>4. j <= j BY <2>3
    <3> QED BY <3>2, <3>3, <3>4, <2>2, <2>6
  <2>7. CASE j # Len(t) + 1 /\ Separates(t, j)
    <3> DEFINE next == UnitEnd(t, j, esc) + 1
    <3>1. j \in St /\ j \in 1..Len(t) BY <2>2, <2>3, <2>7, <1>2 DEF Frontier
    <3>2. skip[j] = skip[next] BY <3>1, <2>7, <1>1
    <3>3. Frontier(t, next, esc) /\ next > j /\ next \in 1..(Len(t) + 1) BY <3>1, <1>2
    <3>4. \A m \in St : m < next => m < j \/ m = j BY <3>1, UnitAlone
    <3> HIDE DEF next
    <3>5. Right(next, skip[next])
      <4> SUFFICES ASSUME ~Right(next, skip[next]) PROVE FALSE OBVIOUS
      <4>1. Len(t) + 1 - next \in 0..Len(t) BY <3>3, <1>2
      <4>2. Len(t) + 1 - next \in T
        <5> HIDE DEF Right
        <5> QED BY <4>1, <3>3
      <4>3. n <= Len(t) + 1 - next BY <4>2, <2>1
      <4> QED BY <4>3, <2>2, <2>3, <3>3, <1>2
    <3>6. skip[next] \in 1..(Len(t) + 1) BY <3>5, <1>3
    <3>7. j <= skip[next] BY <3>3, <3>5, <3>6, <2>3
    <3>8. ASSUME NEW m \in St, j <= m, m < skip[next] PROVE Separates(t, m)
      <4>1. CASE m < next
        <5>1. m = j BY <4>1, <3>4, <3>8, <2>3, <2>4
        <5> QED BY <5>1, <2>7
      <4>2. CASE ~(m < next)
        <5>1. next <= m BY <4>2, <3>3, <2>4
        <5> QED BY <5>1, <3>5, <3>8
      <4> QED BY <4>1, <4>2
    <3>9. Right(j, skip[next]) BY <3>5, <3>7, <3>8
    <3> QED BY <3>2, <3>9, <2>2
  <2> QED BY <2>5, <2>6, <2>7
<1>5. Right(k, skip[k])
  <2> SUFFICES ASSUME ~Right(k, skip[k]) PROVE FALSE OBVIOUS
  <2>1. k \in 1..(Len(t) + 1) BY <1>3
  <2>2. Len(t) + 1 - k \in 0..Len(t) BY <2>1, <1>2
  <2>3. Len(t) + 1 - k \in T
    <3> HIDE DEF Right
    <3> QED BY <2>2
  <2> QED BY <2>3, <1>4
<1> QED BY <1>1, <1>5

\* After j a call follows exactly if what skipMySQLTrivia finds is a parenthesis.
LEMMA CalledAfterIs ==
    ASSUME NEW t \in Seq(Character), NEW esc, NEW j \in Nat, NEW gap \in BOOLEAN, Frontier(t, j + 1, esc)
    PROVE  CalledAfter(t, Starts(t, esc), j, gap)
           <=> Char(t, SkipTrivia(t, j + 1)) = "(" /\ (gap => SkipTrivia(t, j + 1) # j + 1)
<1> DEFINE St == Starts(t, esc)
           q == SkipTrivia(t, j + 1)
<1>1. /\ Frontier(t, q, esc) /\ j + 1 <= q
      /\ \A m \in St : j + 1 <= m /\ m < q => Separates(t, m)
      /\ q <= Len(t) => ~Separates(t, q)
  BY SkipTriviaIs
<1>2. /\ Len(t) \in Nat /\ \A m \in 1..Len(t) : Char(t, m) = t[m]
      /\ \A m \in St : m \in 1..Len(t)
      /\ Char(t, Len(t) + 1) = "end"
  BY CharFacts, StartsFacts
<1> HIDE DEF St, q
<1>3. q \in 1..(Len(t) + 1) /\ (q # Len(t) + 1 => q \in St /\ q \in 1..Len(t))
  BY <1>1, <1>2 DEF Frontier, St
<1>4. \A m \in St : t[m] = "(" => ~Separates(t, m)
  <2> TAKE m \in St
  <2>1. Char(t, m) = t[m] BY <1>2
  <2> QED BY <2>1, KindsFacts DEF Separates, OpensComment, OpensLine, StartsDash
<1>5. ASSUME CalledAfter(t, St, j, gap) PROVE Char(t, q) = "(" /\ (gap => q # j + 1)
  <2>1. PICK k \in St : /\ t[k] = "(" /\ k > j /\ (gap => k > j + 1)
                        /\ \A m \in St : m > j /\ m < k => Separates(t, m)
    BY <1>5 DEF CalledAfter
  <2>2. k \in 1..Len(t) /\ k \in Nat BY <1>2
  <2>3. ~(k < q)
    <3>1. j + 1 <= k BY <2>1, <2>2
    <3> QED BY <3>1, <2>1, <1>1, <1>4
  <2>4. ~(q < k)
    <3> SUFFICES ASSUME q < k PROVE FALSE OBVIOUS
    <3>1. q # Len(t) + 1 /\ q <= Len(t) /\ q > j BY <2>2, <1>1, <1>2, <1>3
    <3>2. q \in St BY <3>1, <1>3
    <3> QED BY <3>1, <3>2, <2>1, <1>1
  <2>5. k = q BY <2>2, <2>3, <2>4, <1>3
  <2>6. gap => q # j + 1 BY <2>1, <2>2, <2>5
  <2> QED BY <2>1, <2>2, <2>5, <2>6, <1>2
<1>6. ASSUME Char(t, q) = "(", gap => q # j + 1 PROVE CalledAfter(t, St, j, gap)
  <2>1. q # Len(t) + 1 BY <1>2, <1>6
  <2>2. q \in St /\ q \in 1..Len(t) /\ t[q] = "(" BY <2>1, <1>2, <1>3, <1>6
  <2>3. q > j /\ (gap => q > j + 1) BY <2>2, <1>1, <1>6
  <2>4. \A m \in St : m > j /\ m < q => Separates(t, m)
    <3> TAKE m \in St
    <3>1. m \in Nat /\ (m > j => j + 1 <= m) BY <1>2
    <3> QED BY <3>1, <1>1
  <2> QED BY <2>2, <2>3, <2>4 DEF CalledAfter
<1> QED BY <1>5, <1>6 DEF St, q

\* A unit that begins with neither a letter nor a backtick is no call.
LEMMA PlainUnit ==
    ASSUME NEW t, NEW i, NEW esc, t[i] \notin Letters, t[i] # "tick"
    PROVE  ~Ambiguous(t, i, esc)
BY DEF Ambiguous, NameCall, IsName, QuotedCall

\* After a unit that is not part of a name no name goes on.
LEMMA NameOver ==
    ASSUME NEW t \in Seq(Character), NEW esc, NEW k \in Starts(t, esc), NEW n, Frontier(t, n, esc), k < n,
           \A m \in Starts(t, esc) : k <= m /\ m < n => t[m] \notin NamePart
    PROVE  ~WithinName(t, Starts(t, esc), n)
<1> SUFFICES ASSUME NEW h \in Starts(t, esc), h < n, t[h] \in Letters, \A m \in h..n : Char(t, m) \in NamePart
             PROVE  FALSE
  BY DEF WithinName
<1>1. /\ Len(t) \in Nat /\ \A m \in 1..Len(t) : Char(t, m) = t[m]
      /\ h \in 1..Len(t) /\ k \in 1..Len(t) /\ \A m \in Starts(t, esc) : m \in 1..Len(t)
  BY CharFacts, StartsFacts
<1>2. n \in 1..(Len(t) + 1) BY <1>1 DEF Frontier
<1>3. CASE h < k
  <2>1. k \in h..n BY <1>1, <1>2, <1>3
  <2>2. t[k] \notin NamePart BY <1>1
  <2> QED BY <2>1, <2>2, <1>1
<1>4. CASE ~(h < k)
  <2>1. k <= h BY <1>1, <1>4
  <2> QED BY <2>1, KindsFacts
<1> QED BY <1>3, <1>4

\* The characters of a name are units of their own.
LEMMA NameUnits ==
    ASSUME NEW t \in Seq(Character), NEW esc, NEW k \in Starts(t, esc), NEW n \in k..(Len(t) + 1),
           \A m \in k..(n - 1) : t[m] \in NamePart
    PROVE  Frontier(t, n, esc)
<1>1. Len(t) \in Nat /\ k \in 1..Len(t) BY CharFacts, StartsFacts
<1> DEFINE T == {m \in k..n : ~Frontier(t, m, esc)}
<1>2. T = {}
  <2> SUFFICES ASSUME T # {} PROVE FALSE OBVIOUS
  <2>1. PICK m \in T : \A x \in T : m <= x
    <3>1. T \subseteq Nat BY <1>1
    <3> HIDE DEF T
    <3> QED BY <3>1, LeastElement
  <2>2. m \in k..n /\ ~Frontier(t, m, esc) BY <2>1
  <2>3. m # k BY <2>2 DEF Frontier
  <2>4. m - 1 \in k..n /\ m - 1 \in k..(n - 1) /\ m - 1 \in 1..Len(t) /\ m - 1 + 1 = m /\ ~(m <= m - 1)
    BY <2>2, <2>3, <1>1
  <2>5. Frontier(t, m - 1, esc) BY <2>1, <2>4
  <2>6. m - 1 \in Starts(t, esc) BY <2>4, <2>5, <1>1 DEF Frontier
  <2>7. t[m - 1] \in NamePart BY <2>4
  <2>8. Char(t, m - 1) = t[m - 1] BY <2>4, CharFacts
  <2>9. t[m - 1] \notin Quotes /\ ~OpensComment(t, m - 1)
    BY <2>7, <2>8, KindsFacts DEF OpensComment, OpensLine, StartsDash
  <2>10. UnitEnd(t, m - 1, esc) = m - 1 BY <2>4, <2>9, OtherEnds
  <2>11. Frontier(t, m - 1 + 1, esc) BY <2>6, <2>10, StartsFacts
  <2> QED BY <2>2, <2>4, <2>11
<1>3. n \in k..n BY <1>1
<1> QED BY <1>2, <1>3

\* The loop over a name goes on after it.
LEMMA SkipNameIs ==
    ASSUME NEW t \in Seq(Character), NEW k \in 1..Len(t), t[k] \in NamePart
    PROVE  /\ SkipName(t, k) \in (k + 1)..(Len(t) + 1)
           /\ \A m \in k..(SkipName(t, k) - 1) : t[m] \in NamePart
           /\ Char(t, SkipName(t, k)) \notin NamePart
<1> DEFINE S == {j \in k..(Len(t) + 1) : Char(t, j) \notin NamePart}
           n == SkipName(t, k)
<1>1. /\ Len(t) \in Nat /\ \A m \in 1..Len(t) : Char(t, m) = t[m]
      /\ Char(t, Len(t) + 1) = "end"
  BY CharFacts
<1>2. S \subseteq Nat /\ Len(t) + 1 \in S BY <1>1, KindsFacts
<1>3. n \in S /\ \A y \in S : n <= y
  <2>1. n = Min(S) BY DEF SkipName
  <2> HIDE DEF S, n
  <2> QED BY <1>2, <2>1, MinFacts
<1> HIDE DEF n
<1>4. n \in k..(Len(t) + 1) /\ Char(t, n) \notin NamePart BY <1>3
<1>5. n # k BY <1>1, <1>4
<1>6. \A m \in k..(n - 1) : t[m] \in NamePart
  <2> TAKE m \in k..(n - 1)
  <2>1. m \in k..(Len(t) + 1) /\ m \in 1..Len(t) /\ ~(n <= m) BY <1>1, <1>4
  <2>2. Char(t, m) \in NamePart BY <2>1, <1>3
  <2> QED BY <2>1, <2>2, <1>1
<1>7. n \in (k + 1)..(Len(t) + 1) BY <1>1, <1>4, <1>5
<1> QED BY <1>4, <1>6, <1>7 DEF n

\* Whether the name that begins at k is an ambiguous call.
LEMMA NameCallIs ==
    ASSUME NEW t \in Seq(Character), NEW esc, NEW k \in Starts(t, esc), t[k] \in Letters,
           ~WithinName(t, Starts(t, esc), k)
    PROVE  LET next == SkipName(t, k)
               call == SkipTrivia(t, next)
           IN  /\ Frontier(t, next, esc)
               /\ Ambiguous(t, k, esc) <=> SubSeq(t, k, next - 1) \in SymFn /\ call # next /\ Char(t, call) = "("
<1> DEFINE St == Starts(t, esc)
           next == SkipName(t, k)
           call == SkipTrivia(t, next)
<1>1. /\ Len(t) \in Nat /\ k \in 1..Len(t)
      /\ \A m \in 1..Len(t) : Char(t, m) = t[m]
      /\ \A m \in Nat : m > Len(t) => Char(t, m) = "end"
  BY CharFacts, StartsFacts
<1>2. t[k] \in NamePart /\ t[k] # "tick" BY KindsFacts DEF Quotes
<1>3. /\ next \in (k + 1)..(Len(t) + 1)
      /\ \A m \in k..(next - 1) : t[m] \in NamePart
      /\ Char(t, next) \notin NamePart
  BY <1>1, <1>2, SkipNameIs
<1> HIDE DEF St, next
<1>4. Frontier(t, next, esc)
  <2>1. next \in k..(Len(t) + 1) BY <1>1, <1>3
  <2> QED BY <2>1, <1>3, NameUnits
<1>5. next - 1 \in k..Len(t) /\ next - 1 + 1 = next /\ next - 1 \in Nat BY <1>1, <1>3
<1>6. IsName(t, St, k, next - 1) BY <1>3, <1>5 DEF IsName, St
<1>7. ASSUME NEW j \in k..Len(t), IsName(t, St, k, j) PROVE j = next - 1
  <2>1. ~(j < next - 1)
    <3> SUFFICES ASSUME j < next - 1 PROVE FALSE OBVIOUS
    <3>1. j + 1 \in k..(next - 1) /\ j + 1 \in 1..Len(t) BY <1>1, <1>3
    <3> QED BY <3>1, <1>1, <1>3, <1>7 DEF IsName
  <2>2. ~(next - 1 < j)
    <3> SUFFICES ASSUME next - 1 < j PROVE FALSE OBVIOUS
    <3>1. next \in k..j /\ next \in 1..Len(t) BY <1>1, <1>3
    <3> QED BY <3>1, <1>1, <1>3, <1>7 DEF IsName
  <2> QED BY <2>1, <2>2, <1>1, <1>3
<1>8. CalledAfter(t, St, next - 1, TRUE) <=> Char(t, call) = "(" /\ call # next
  <2>1. CalledAfter(t, St, next - 1, TRUE)
        <=> Char(t, SkipTrivia(t, next - 1 + 1)) = "(" /\ (TRUE => SkipTrivia(t, next - 1 + 1) # next - 1 + 1)
    BY <1>4, <1>5, CalledAfterIs DEF St
  <2> QED BY <2>1, <1>5
<1>9. NameCall(t, St, k) <=> SubSeq(t, k, next - 1) \in SymFn /\ call # next /\ Char(t, call) = "("
  BY <1>5, <1>6, <1>7, <1>8 DEF NameCall
<1>10. ~QuotedCall(t, St, k, esc) BY <1>2 DEF QuotedCall
<1> QED BY <1>4, <1>9, <1>10 DEF Ambiguous, St, next

\* What else begins within that name is none.
LEMMA WithinNameIsPlain ==
    ASSUME NEW t \in Seq(Character), NEW esc, NEW k \in Starts(t, esc), t[k] \in Letters,
           PlainBefore(t, k, esc), ~Ambiguous(t, k, esc)
    PROVE  PlainBefore(t, SkipName(t, k), esc) /\ ~WithinName(t, Starts(t, esc), SkipName(t, k))
<1> DEFINE St == Starts(t, esc)
           next == SkipName(t, k)
<1>1. /\ Len(t) \in Nat /\ k \in 1..Len(t) /\ \A m \in St : m \in 1..Len(t)
      /\ \A m \in 1..Len(t) : Char(t, m) = t[m]
  BY CharFacts, StartsFacts
<1>2. /\ next \in (k + 1)..(Len(t) + 1)
      /\ \A m \in k..(next - 1) : t[m] \in NamePart
      /\ Char(t, next) \notin NamePart
  BY <1>1, KindsFacts, SkipNameIs
<1> HIDE DEF next, St
<1>3. ASSUME NEW m \in St, k < m, m < next PROVE ~Ambiguous(t, m, esc)
  <2>1. m \in k..(next - 1) BY <1>1, <1>2, <1>3
  <2>2. t[m] # "tick" BY <2>1, <1>2, KindsFacts DEF Quotes
  <2>3. \A x \in k..m : Char(t, x) \in NamePart
    <3> TAKE x \in k..m
    <3>1. x \in k..(next - 1) /\ x \in 1..Len(t) BY <1>1, <1>2, <1>3
    <3> QED BY <3>1, <1>1, <1>2
  <2>4. WithinName(t, St, m) BY <2>3, <1>3 DEF WithinName, St
  <2> QED BY <2>2, <2>4 DEF Ambiguous, NameCall, IsName, QuotedCall, St
<1>4. PlainBefore(t, next, esc)
  <2> SUFFICES ASSUME NEW m \in St, m < next PROVE ~Ambiguous(t, m, esc) BY DEF PlainBefore, St
  <2>1. m < k \/ m = k \/ k < m BY <1>1
  <2> QED BY <2>1, <1>3 DEF PlainBefore, St
<1>5. ~WithinName(t, St, next)
  <2> SUFFICES ASSUME NEW h \in St, h < next, \A m \in h..next : Char(t, m) \in NamePart PROVE FALSE
    BY DEF WithinName
  <2>1. next \in h..next BY <1>1, <1>2
  <2> QED BY <2>1, <1>2
<1> QED BY <1>4, <1>5 DEF next, St

\* Whether the quoted name that begins at k is an ambiguous call.
LEMMA QuotedCallIs ==
    ASSUME NEW t \in Seq(Character), NEW esc \in BOOLEAN, NEW k \in Starts(t, esc), t[k] = "tick"
    PROVE  LET next == SkipQuoted(t, k, esc)
           IN  Ambiguous(t, k, esc)
               <=> /\ next <= Len(t) + 1
                   /\ SubSeq(t, k + 1, next - 2) \in SymFn
                   /\ Char(t, SkipTrivia(t, next)) = "("
<1> DEFINE St == Starts(t, esc)
           C == Closings(t, k, esc)
           next == SkipQuoted(t, k, esc)
           e == UnitEnd(t, k, esc)
<1>1. Len(t) \in Nat /\ k \in 1..Len(t) /\ e \in k..Len(t) /\ Frontier(t, e + 1, esc)
  BY CharFacts, StartsFacts
<1>2. t[k] \in Quotes /\ t[k] \notin Letters BY KindsFacts DEF Quotes
<1>3. \/ next = e + 1 /\ e \in C
      \/ next = Len(t) + 2 /\ C = {}
  BY <1>1, <1>2, SkipQuotedIs
<1>4. /\ \A j \in C : j \in (k + 1)..Len(t) /\ t[j] = "tick" /\ e <= j
  <2>1. \A j \in C : j \in (k + 1)..Len(t) /\ j \in QuotesLike(t, k, esc) BY <1>1, QuotesFacts
  <2>2. \A j \in C : t[j] = t[k] BY <2>1 DEF QuotesLike
  <2>3. Ends(t, k, esc) = C BY <1>2 DEF Ends
  <2>4. \A j \in C : e <= j BY <2>3, <1>1, EndsFacts
  <2> QED BY <2>1, <2>2, <2>4
<1>5. ~NameCall(t, St, k) BY <1>2 DEF NameCall, IsName
<1> HIDE DEF St, C, next, e
<1>6. QuotedCall(t, St, k, esc)
      <=> \E name \in SymFn : /\ k + Len(name) < Len(t)
                              /\ SubSeq(t, k + 1, k + Len(name)) = name
                              /\ k + Len(name) + 1 \in C
                              /\ CalledAfter(t, St, k + Len(name) + 1, FALSE)
  BY DEF QuotedCall, C
<1>7. CASE next = Len(t) + 2 /\ C = {}
  <2>1. ~(next <= Len(t) + 1) BY <1>1, <1>7
  <2>2. ~QuotedCall(t, St, k, esc) BY <1>6, <1>7
  <2> QED BY <2>1, <2>2, <1>5 DEF Ambiguous, St, next
<1>8. CASE next = e + 1 /\ e \in C
  <2>1. e \in (k + 1)..Len(t) /\ next <= Len(t) + 1 /\ next - 2 = e - 1 /\ e \in Nat BY <1>1, <1>4, <1>8
  <2>2. CalledAfter(t, St, e, FALSE) <=> Char(t, SkipTrivia(t, next)) = "("
    <3>1. CalledAfter(t, St, e, FALSE)
          <=> Char(t, SkipTrivia(t, e + 1)) = "(" /\ (FALSE => SkipTrivia(t, e + 1) # e + 1)
      BY <2>1, <1>1, CalledAfterIs DEF St
    <3> QED BY <3>1, <1>8
  <2>3. ASSUME SubSeq(t, k + 1, e - 1) \in SymFn, CalledAfter(t, St, e, FALSE)
        PROVE  QuotedCall(t, St, k, esc)
    <3> DEFINE name == SubSeq(t, k + 1, e - 1)
    <3>1. Len(name) = e - 1 - k
      <4>1. k + 1 \in 1..(Len(t) + 1) /\ e - 1 \in (k + 1 - 1)..Len(t) BY <2>1, <1>1
      <4>2. Len(name) = IF k + 1 <= e - 1 THEN (e - 1) - (k + 1) + 1 ELSE 0
        BY <4>1, SubSeqProperties
      <4> QED BY <4>2, <2>1, <1>1
    <3>2. k + Len(name) = e - 1 /\ k + Len(name) + 1 = e /\ k + Len(name) < Len(t) BY <3>1, <2>1, <1>1
    <3>3. name \in SymFn BY <2>3
    <3>4. SubSeq(t, k + 1, k + Len(name)) = name BY <3>2
    <3> HIDE DEF name
    <3> QED BY <3>2, <3>3, <3>4, <2>3, <1>6, <1>8
  <2>4. ASSUME NEW name \in SymFn, k + Len(name) < Len(t),
               SubSeq(t, k + 1, k + Len(name)) = name, k + Len(name) + 1 \in C
        PROVE  k + Len(name) + 1 = e
    <3>1. name \in Seq(NamePart) BY CharsAssumption
    <3>2. Len(name) \in Nat /\ \A m \in 1..Len(name) : name[m] \in NamePart BY <3>1
    <3>3. e <= k + Len(name) + 1 BY <1>4, <2>4
    <3>4. ASSUME e < k + Len(name) + 1 PROVE FALSE
      <4>1. e - k \in 1..Len(name) BY <3>2, <3>4, <2>1, <1>1
      <4>2. \A m \in 1..Len(name) : SubSeq(t, k + 1, k + Len(name))[m] = t[k + m]
        <5> DEFINE n == k + Len(name)
        <5>1. /\ k + 1 \in 1..(Len(t) + 1) /\ n \in (k + 1 - 1)..Len(t) /\ n - (k + 1) + 1 = Len(name)
          BY <3>2, <2>4, <1>1
        <5> HIDE DEF n
        <5>2. \A m \in 1..(n - (k + 1) + 1) : SubSeq(t, k + 1, n)[m] = t[k + 1 + m - 1]
          BY <5>1, SubSeqProperties, SMTT(20)
        <5>3. \A m \in 1..Len(name) : k + 1 + m - 1 = k + m BY <3>2, <1>1
        <5>4. \A m \in 1..Len(name) : SubSeq(t, k + 1, n)[m] = t[k + m] BY <5>1, <5>2, <5>3
        <5> QED BY <5>4 DEF n
      <4>3. name[e - k] = t[k + (e - k)] BY <4>1, <4>2, <2>4
      <4>4. k + (e - k) = e BY <2>1, <1>1
      <4>5. t[e] \in NamePart BY <4>1, <4>3, <4>4, <3>2
      <4>6. t[e] = "tick" BY <1>4, <1>8
      <4> QED BY <4>5, <4>6, KindsFacts DEF Quotes
    <3> QED BY <3>2, <3>3, <3>4, <2>1, <1>1
  <2>5. ASSUME QuotedCall(t, St, k, esc)
        PROVE  SubSeq(t, k + 1, e - 1) \in SymFn /\ CalledAfter(t, St, e, FALSE)
    <3>1. PICK name \in SymFn : /\ k + Len(name) < Len(t)
                                /\ SubSeq(t, k + 1, k + Len(name)) = name
                                /\ k + Len(name) + 1 \in C
                                /\ CalledAfter(t, St, k + Len(name) + 1, FALSE)
      BY <2>5, <1>6
    <3>2. k + Len(name) + 1 = e BY <3>1, <2>4
    <3>3. Len(name) \in Nat
      <4>1. name \in Seq(NamePart) BY CharsAssumption
      <4> QED BY <4>1
    <3>4. k + Len(name) = e - 1 BY <3>2, <3>3, <1>1
    <3> QED BY <3>1, <3>2, <3>4
  <2> QED BY <2>1, <2>2, <2>3, <2>5, <1>5 DEF Ambiguous, St, next
<1> QED BY <1>3, <1>7, <1>8

-----------------------------------------------------------------------------
(* scanAmbiguousBuiltinCall.                                                 *)

\* What a step has to show that leaves the scan at k.
LEMMA BuiltinGoes ==
    ASSUME NEW k, NEW s, Go(k, s), Frontier(text, k, escapes), PlainBefore(text, k, escapes),
           ~WithinName(text, Starts(text, escapes), k)
    PROVE  BuiltinScanInv'
<1>1. at' = k /\ text' = text /\ escapes' = escapes BY DEF Go
<1> QED BY <1>1 DEF BuiltinScanInv

\* The scan at the begin of a unit.
LEMMA BuiltinBegins ==
    ASSUME ScanTypeOK, BuiltinScanInv, InBuiltin
    PROVE  /\ at \in Starts(text, escapes) /\ PlainBefore(text, at, escapes) /\ Frontier(text, at, escapes)
           /\ ~WithinName(text, Starts(text, escapes), at)
           /\ at \in 1..Len(text) /\ Here = text[at] /\ text \in Seq(Character) /\ Len(text) \in Nat
           /\ escapes \in BOOLEAN
<1>1. text \in Seq(Character) BY DEF ScanTypeOK, Character
<1>2. Len(text) \in Nat /\ \A k \in 1..Len(text) : Char(text, k) = text[k] BY <1>1, CharFacts
<1>3. at <= Len(text) /\ scan = "builtin" BY DEF InBuiltin, InText
<1>4. at \in Starts(text, escapes) BY <1>2, <1>3 DEF BuiltinScanInv, Frontier
<1>5. at \in 1..Len(text) BY <1>1, <1>4, StartsFacts
<1> QED BY <1>1, <1>2, <1>3, <1>4, <1>5 DEF BuiltinScanInv, Here, ScanTypeOK

\* A unit that is no part of a name has been read.
LEMMA UnitRead ==
    ASSUME NEW t \in Seq(Character), NEW esc, NEW k \in Starts(t, esc), t[k] \notin NamePart,
           PlainBefore(t, k, esc), ~Ambiguous(t, k, esc)
    PROVE  LET n == UnitEnd(t, k, esc) + 1
           IN  Frontier(t, n, esc) /\ PlainBefore(t, n, esc) /\ ~WithinName(t, Starts(t, esc), n)
<1> DEFINE n == UnitEnd(t, k, esc) + 1
<1>1. Frontier(t, n, esc) /\ PlainBefore(t, n, esc) BY UnitDone
<1>2. k < n
  <2>1. Len(t) \in Nat /\ k \in 1..Len(t) /\ UnitEnd(t, k, esc) \in k..Len(t) BY CharFacts, StartsFacts
  <2> QED BY <2>1
<1>3. \A m \in Starts(t, esc) : k <= m /\ m < n => t[m] \notin NamePart
  <2> TAKE m \in Starts(t, esc)
  <2>1. m < n => m < k \/ m = k BY UnitAlone
  <2>2. k \in Nat /\ m \in Nat BY StartsFacts, CharFacts
  <2> QED BY <2>1, <2>2
<1> HIDE DEF n
<1>4. ~WithinName(t, Starts(t, esc), n) BY <1>1, <1>2, <1>3, NameOver
<1> QED BY <1>1, <1>4 DEF n

\* The step over spaces and comments.
LEMMA SkipInv ==
    ASSUME ScanTypeOK, BuiltinScanInv, Skip
    PROVE  BuiltinScanInv'
<1>1. InBuiltin /\ Trivial /\ Go(SkipTrivia(text, at), state) BY DEF Skip
<1>2. /\ at \in Starts(text, escapes) /\ PlainBefore(text, at, escapes) /\ Frontier(text, at, escapes)
      /\ at \in 1..Len(text) /\ text \in Seq(Character) /\ Len(text) \in Nat
  BY <1>1, BuiltinBegins
<1> DEFINE q == SkipTrivia(text, at)
<1>3. /\ Frontier(text, q, escapes) /\ at <= q
      /\ \A m \in Starts(text, escapes) : at <= m /\ m < q => Separates(text, m)
  BY <1>2, SkipTriviaIs
<1>4. \A m \in Starts(text, escapes) : m \in 1..Len(text) /\ Char(text, m) = text[m]
  BY <1>2, StartsFacts, CharFacts
<1>5. q \in Nat
  <2>1. q \in Starts(text, escapes) \/ q = Len(text) + 1 BY <1>3 DEF Frontier
  <2>2. CASE q \in Starts(text, escapes)
    <3>1. q \in 1..Len(text) BY <1>4, <2>2
    <3> HIDE DEF q
    <3> QED BY <3>1
  <2>3. CASE q = Len(text) + 1
    <3> HIDE DEF q
    <3> QED BY <1>2, <2>3
  <2> QED BY <2>1, <2>2, <2>3
<1>6. at < q BY <1>1, <1>2, <1>3, <1>5 DEF Trivial
<1> HIDE DEF q
<1>7. ASSUME NEW m \in Starts(text, escapes), at <= m, m < q
      PROVE  text[m] \notin NamePart /\ ~Ambiguous(text, m, escapes)
  <2>1. Separates(text, m) BY <1>3, <1>7
  <2>2. Char(text, m) = text[m] BY <1>4
  <2>3. text[m] \notin NamePart /\ text[m] # "tick"
    BY <2>1, <2>2, KindsFacts DEF Separates, OpensComment, OpensLine, StartsDash, Quotes
  <2>4. text[m] \notin Letters BY <2>3, KindsFacts
  <2> QED BY <2>3, <2>4, PlainUnit
<1>8. ~WithinName(text, Starts(text, escapes), q) BY <1>2, <1>3, <1>6, <1>7, NameOver
<1>9. PlainBefore(text, q, escapes)
  <2> SUFFICES ASSUME NEW m \in Starts(text, escapes), m < q PROVE ~Ambiguous(text, m, escapes)
    BY DEF PlainBefore
  <2>1. m < at \/ at <= m BY <1>2, <1>4
  <2> QED BY <2>1, <1>2, <1>7 DEF PlainBefore
<1> QED BY <1>1, <1>3, <1>8, <1>9, BuiltinGoes DEF q

\* The step over a string.
LEMMA SkipStringInv ==
    ASSUME ScanTypeOK, BuiltinScanInv, SkipString
    PROVE  BuiltinScanInv'
<1>1. InBuiltin /\ Here \in {"quote", "double"}
      /\ Go(Min({SkipQuoted(text, at, escapes), Len(text) + 1}), state)
  BY DEF SkipString
<1>2. /\ at \in Starts(text, escapes) /\ PlainBefore(text, at, escapes)
      /\ at \in 1..Len(text) /\ Here = text[at] /\ text \in Seq(Character) /\ Len(text) \in Nat
      /\ escapes \in BOOLEAN
  BY <1>1, BuiltinBegins
<1> DEFINE q == SkipQuoted(text, at, escapes)
           e == UnitEnd(text, at, escapes)
<1>3. text[at] \in Quotes /\ text[at] \notin NamePart /\ text[at] \notin Letters /\ text[at] # "tick"
  BY <1>1, <1>2, KindsFacts DEF Quotes
<1>4. e \in at..Len(text) BY <1>2, StartsFacts
<1>5. q = e + 1 \/ (q = Len(text) + 2 /\ e = Len(text)) BY <1>2, <1>3, SkipQuotedIs
<1> HIDE DEF q, e
<1>6. Min({q, Len(text) + 1}) = e + 1
  <2>1. e + 1 \in {q, Len(text) + 1} /\ {q, Len(text) + 1} \subseteq Nat
        /\ \A y \in {q, Len(text) + 1} : e + 1 <= y
    BY <1>2, <1>4, <1>5
  <2> QED BY <2>1, MinIs, SMTT(20)
<1>7. ~Ambiguous(text, at, escapes) BY <1>3, PlainUnit
<1>8. /\ Frontier(text, e + 1, escapes) /\ PlainBefore(text, e + 1, escapes)
      /\ ~WithinName(text, Starts(text, escapes), e + 1)
  BY <1>2, <1>3, <1>7, UnitRead DEF e
<1> QED BY <1>1, <1>6, <1>8, BuiltinGoes DEF q

\* The step over a character of no other kind.
LEMMA OtherCharInv ==
    ASSUME ScanTypeOK, BuiltinScanInv, OtherChar
    PROVE  BuiltinScanInv'
<1>1. InBuiltin /\ ~Trivial /\ Here \notin Quotes \cup Letters /\ Go(at + 1, state) BY DEF OtherChar
<1>2. /\ at \in Starts(text, escapes) /\ PlainBefore(text, at, escapes) /\ Frontier(text, at, escapes)
      /\ ~WithinName(text, Starts(text, escapes), at)
      /\ at \in 1..Len(text) /\ Here = text[at] /\ text \in Seq(Character) /\ Len(text) \in Nat
  BY <1>1, BuiltinBegins
<1>3. text[at] \notin Letters /\ text[at] # "tick" /\ text[at] \notin Quotes BY <1>1, <1>2 DEF Quotes
<1>4. ~Separates(text, at)
  <2>1. SkipTrivia(text, at) = at BY <1>1 DEF Trivial
  <2>2. SkipTrivia(text, at) <= Len(text) => ~Separates(text, SkipTrivia(text, at)) BY <1>2, SkipTriviaIs
  <2> QED BY <2>1, <2>2, <1>2
<1>5. UnitEnd(text, at, escapes) = at BY <1>2, <1>3, <1>4, OtherEnds DEF Separates
<1>6. ~Ambiguous(text, at, escapes) BY <1>3, PlainUnit
<1>7. Frontier(text, at + 1, escapes) /\ PlainBefore(text, at + 1, escapes) BY <1>2, <1>5, <1>6, UnitDone
<1>8. ~WithinName(text, Starts(text, escapes), at + 1)
  <2> SUFFICES ASSUME NEW h \in Starts(text, escapes), h < at + 1, text[h] \in Letters,
                      \A m \in h..(at + 1) : Char(text, m) \in NamePart
               PROVE  FALSE
    BY DEF WithinName
  <2>1. h \in 1..Len(text) BY <1>2, StartsFacts
  <2>2. h # at BY <1>3
  <2>3. h < at /\ \A m \in h..at : m \in h..(at + 1) BY <2>1, <2>2, <1>2
  <2> QED BY <2>3, <1>2 DEF WithinName
<1> QED BY <1>1, <1>7, <1>8, BuiltinGoes

\* The scan at a name, with or without quotes: it stops at an ambiguous call.
LEMMA NamesInv ==
    ASSUME ScanTypeOK, BuiltinScanInv, Name \/ QuotedName
    PROVE  \/ Found("builtin") /\ HasAmbiguousCall(text, escapes)
           \/ BuiltinScanInv' /\ scan' = scan /\ found' = found /\ text' = text /\ escapes' = escapes
<1>1. InBuiltin BY DEF Name, QuotedName
<1>2. /\ at \in Starts(text, escapes) /\ PlainBefore(text, at, escapes) /\ Frontier(text, at, escapes)
      /\ ~WithinName(text, Starts(text, escapes), at)
      /\ at \in 1..Len(text) /\ Here = text[at] /\ text \in Seq(Character) /\ Len(text) \in Nat
      /\ escapes \in BOOLEAN
  BY <1>1, BuiltinBegins
<1>3. Ambiguous(text, at, escapes) => HasAmbiguousCall(text, escapes)
  BY <1>2 DEF Ambiguous, HasAmbiguousCall
<1>4. \A k, s : Go(k, s) => scan' = scan /\ found' = found /\ text' = text /\ escapes' = escapes BY DEF Go
<1>5. CASE Name
  <2> DEFINE next == SkipName(text, at)
             call == SkipTrivia(text, next)
             bad == SubSeq(text, at, next - 1) \in SymFn /\ call # next /\ Char(text, call) = "("
  <2>1. text[at] \in Letters BY <1>2, <1>5 DEF Name
  <2>2. Frontier(text, next, escapes) /\ (Ambiguous(text, at, escapes) <=> bad)
    BY <1>2, <2>1, NameCallIs
  <2>3. IF bad THEN Found("builtin") ELSE Go(next, state) BY <1>5 DEF Name
  <2> HIDE DEF next, call, bad
  <2>4. CASE bad BY <2>2, <2>3, <2>4, <1>3
  <2>5. CASE ~bad
    <3>1. PlainBefore(text, next, escapes) /\ ~WithinName(text, Starts(text, escapes), next)
      BY <1>2, <2>1, <2>2, <2>5, WithinNameIsPlain DEF next
    <3>2. Go(next, state) BY <2>3, <2>5
    <3> QED BY <3>1, <3>2, <2>2, <1>4, BuiltinGoes
  <2> QED BY <2>4, <2>5
<1>6. CASE QuotedName
  <2> DEFINE next == SkipQuoted(text, at, escapes)
             e == UnitEnd(text, at, escapes)
             bad == SubSeq(text, at + 1, next - 2) \in SymFn /\ Char(text, SkipTrivia(text, next)) = "("
  <2>1. text[at] = "tick" /\ text[at] \in Quotes /\ text[at] \notin NamePart
    BY <1>2, <1>6, KindsFacts DEF QuotedName, Quotes
  <2>2. Ambiguous(text, at, escapes) <=> next <= Len(text) + 1 /\ bad
    BY <1>2, <2>1, QuotedCallIs
  <2>3. next = e + 1 \/ (next = Len(text) + 2 /\ e = Len(text)) BY <1>2, <2>1, SkipQuotedIs
  <2>4. e \in at..Len(text) BY <1>2, StartsFacts
  <2>5. IF next > Len(text) + 1 THEN Go(Len(text) + 1, state)
        ELSE IF bad THEN Found("builtin") ELSE Go(next, state)
    BY <1>6 DEF QuotedName
  <2> HIDE DEF next, bad, e
  <2>6. next \in Nat BY <2>3, <2>4, <1>2
  <2>7. CASE next <= Len(text) + 1 /\ bad
    <3>1. ~(next > Len(text) + 1) BY <2>6, <2>7, <1>2
    <3> QED BY <3>1, <2>2, <2>5, <2>7, <1>3
  <2>8. CASE ~(next <= Len(text) + 1 /\ bad)
    <3>1. Go(e + 1, state)
      <4>1. CASE next > Len(text) + 1
        <5>1. e = Len(text) BY <4>1, <2>3, <2>4, <1>2
        <5> QED BY <4>1, <5>1, <2>5
      <4>2. CASE ~(next > Len(text) + 1)
        <5>1. next <= Len(text) + 1 /\ next = e + 1 /\ ~bad BY <4>2, <2>3, <2>6, <2>8, <1>2
        <5> QED BY <4>2, <5>1, <2>5
      <4> QED BY <4>1, <4>2
    <3>2. /\ Frontier(text, e + 1, escapes) /\ PlainBefore(text, e + 1, escapes)
          /\ ~WithinName(text, Starts(text, escapes), e + 1)
      BY <1>2, <2>1, <2>2, <2>8, UnitRead DEF e
    <3> QED BY <3>1, <3>2, <1>4, BuiltinGoes
  <2> QED BY <2>7, <2>8
<1> QED BY <1>5, <1>6

\* When a reading ends it has found no call only if there is none.
LEMMA BuiltinReadingEnds ==
    ASSUME ScanTypeOK, BuiltinScanInv, scan = "builtin", at > Len(text)
    PROVE  ~HasAmbiguousCall(text, escapes)
<1>1. text \in Seq(Character) BY DEF ScanTypeOK, Character
<1>2. Len(text) \in Nat /\ \A i \in Starts(text, escapes) : i \in 1..Len(text)
  BY <1>1, CharFacts, StartsFacts
<1>3. at = Len(text) + 1 BY <1>2 DEF BuiltinScanInv, Frontier
<1>4. \A i \in Starts(text, escapes) : i < at BY <1>2, <1>3
<1> QED BY <1>4 DEF BuiltinScanInv, PlainBefore, Ambiguous, HasAmbiguousCall

-----------------------------------------------------------------------------
(* Both scans, and both readings.                                            *)

\* The next reading begins at the first unit.
LEMMA ReadingBegins ==
    ASSUME NEW t \in Seq(Character), NEW esc
    PROVE  Frontier(t, 1, esc) /\ SafeBefore(t, 1, esc) /\ PlainBefore(t, 1, esc)
           /\ ~WithinName(t, Starts(t, esc), 1)
<1>1. Frontier(t, 1, esc) /\ \A i \in Starts(t, esc) : i \in 1..Len(t) BY StartsFacts
<1>2. \A i \in Starts(t, esc) : ~(i < 1) BY <1>1, CharFacts
<1> QED BY <1>1, <1>2 DEF SafeBefore, PlainBefore, WithinName

\* The end of a reading, and of a scan.
LEMMA EndOfTextInv ==
    ASSUME ScanInv, EndOfText
    PROVE  ScanInv'
<1>1. /\ ScanTypeOK /\ UnsafeScanInv /\ BuiltinScanInv /\ ReadingsInv
      /\ text \in Seq(Character) /\ escapes \in BOOLEAN
  BY DEF ScanInv, ScanTypeOK, Character
<1>2. /\ scan \in {"unsafe", "builtin"} /\ at > Len(text)
      /\ escapes' = ~escapes /\ at' = 1 /\ state' = "sql" /\ text' = text /\ found' = found
      /\ scan' = IF escapes THEN scan ELSE IF scan = "unsafe" THEN "builtin" ELSE "clean"
  BY DEF EndOfText, ReadAgain
<1>3. /\ Frontier(text, 1, escapes') /\ SafeBefore(text, 1, escapes') /\ PlainBefore(text, 1, escapes')
      /\ ~WithinName(text, Starts(text, escapes'), 1)
  BY <1>1, ReadingBegins
<1>4. UnsafeScanInv'
  <2>1. AtUnit' BY <1>2, <1>3 DEF AtUnit
  <2> QED BY <2>1 DEF UnsafeScanInv
<1>5. BuiltinScanInv' BY <1>2, <1>3 DEF BuiltinScanInv
<1>6. ScanTypeOK' BY <1>1, <1>2 DEF ScanTypeOK
<1>7. scan = "unsafe" => ~HasUnsafeComment(text, escapes) BY <1>1, <1>2, UnsafeReadingEnds
<1>8. scan = "builtin" => ~HasAmbiguousCall(text, escapes) BY <1>1, <1>2, BuiltinReadingEnds
<1>9. ReadingsInv'
  <2>1. CASE escapes
    <3>1. escapes = TRUE /\ escapes' = FALSE /\ scan' = scan BY <1>1, <1>2, <2>1
    <3>2. scan = "builtin" => SafeText BY <1>1 DEF ReadingsInv
    <3>3. scan = "builtin" => SafeText' BY <3>2, <1>2 DEF SafeText
    <3>4. scan = "unsafe" => ~HasUnsafeComment(text, TRUE) BY <3>1, <1>7
    <3>5. scan = "builtin" => ~HasAmbiguousCall(text, TRUE) BY <3>1, <1>8
    <3> QED BY <3>1, <3>3, <3>4, <3>5, <1>2 DEF ReadingsInv
  <2>2. CASE ~escapes
    <3>1. escapes = FALSE /\ escapes' = TRUE BY <1>1, <1>2, <2>2
    <3>2. CASE scan = "unsafe"
      <4>1. scan' = "builtin" BY <3>2, <2>2, <1>2
      <4>2. ~HasUnsafeComment(text, TRUE) /\ ~HasUnsafeComment(text, FALSE)
        BY <3>1, <3>2, <2>2, <1>1, <1>7 DEF ReadingsInv
      <4>3. SafeText' BY <4>2, <1>2 DEF SafeText
      <4> QED BY <4>1, <4>3, <3>1 DEF ReadingsInv
    <3>3. CASE scan = "builtin"
      <4>1. scan' = "clean" BY <3>3, <2>2, <1>2
      <4>2. ~HasAmbiguousCall(text, TRUE) /\ ~HasAmbiguousCall(text, FALSE) /\ SafeText
        BY <3>1, <3>3, <2>2, <1>1, <1>8 DEF ReadingsInv
      <4>3. SafeText' /\ (\A esc \in BOOLEAN : ~HasAmbiguousCall(text, esc))' BY <4>2, <1>2 DEF SafeText
      <4> QED BY <4>1, <4>3, <3>1 DEF ReadingsInv
    <3> QED BY <3>2, <3>3, <1>2
  <2> QED BY <2>1, <2>2
<1> QED BY <1>4, <1>5, <1>6, <1>9 DEF ScanInv

\* Every step of a scan keeps the invariant.
LEMMA ScanStepInv ==
    ASSUME ScanInv, ScanStep
    PROVE  ScanInv'
<1>1. ScanTypeOK /\ UnsafeScanInv /\ BuiltinScanInv /\ ReadingsInv BY DEF ScanInv
<1>2. ASSUME NEW k, NEW s, Go(k, s), scan = "unsafe", UnsafeScanInv' PROVE ScanInv'
  <2>1. UNCHANGED <<text, escapes, scan, found>> BY <1>2 DEF Go
  <2>2. ScanTypeOK' BY <1>1, <2>1 DEF ScanTypeOK
  <2>3. BuiltinScanInv' BY <1>2, <2>1 DEF BuiltinScanInv
  <2>4. ReadingsInv' BY <1>1, <1>2, <2>1 DEF ReadingsInv
  <2> QED BY <2>2, <2>3, <2>4, <1>2 DEF ScanInv
<1>3. ASSUME UNCHANGED <<text, escapes, scan, found>>, scan = "builtin", BuiltinScanInv' PROVE ScanInv'
  <2>1. ScanTypeOK' BY <1>1, <1>3 DEF ScanTypeOK
  <2>2. UnsafeScanInv' BY <1>3 DEF UnsafeScanInv
  <2>3. ReadingsInv' BY <1>1, <1>3 DEF ReadingsInv, SafeText
  <2> QED BY <2>1, <2>2, <2>3, <1>3 DEF ScanInv
<1>4. CASE EndOfText BY <1>4, EndOfTextInv
<1>5. CASE OpenQuote \/ OpenLine \/ OpenBlock \/ PlainSQL
  <2>1. UnsafeScanInv' BY <1>1, <1>5, UnitBeginsInv
  <2> QED BY <2>1, <1>2, <1>5 DEF OpenQuote, OpenLine, OpenBlock, PlainSQL, InState
<1>6. CASE EscapedChar \/ DoubledQuote \/ CloseQuote \/ QuotedChar
  <2>1. UnsafeScanInv' BY <1>1, <1>6, QuotesInv
  <2> QED BY <2>1, <1>2, <1>6 DEF EscapedChar, DoubledQuote, CloseQuote, QuotedChar, InQuote
<1>7. CASE LineChar \/ BlockChar
  <2>1. UnsafeScanInv' BY <1>1, <1>7, CommentsInv
  <2>2. scan = "unsafe" /\ \E k, s : Go(k, s) BY <1>7 DEF LineChar, BlockChar, InState
  <2> QED BY <2>1, <2>2, <1>2
<1>8. CASE Skip \/ SkipString \/ OtherChar
  <2>1. BuiltinScanInv' BY <1>1, <1>8, SkipInv, SkipStringInv, OtherCharInv
  <2>2. scan = "builtin" /\ UNCHANGED <<text, escapes, scan, found>>
    BY <1>8 DEF Skip, SkipString, OtherChar, InBuiltin, Go
  <2> QED BY <2>1, <2>2, <1>3
<1>9. CASE UnsafeComment
  <2>1. InState("sql") /\ OpensBlock /\ Ahead(2) \in {"!", "+"} /\ Found("comment") BY <1>9 DEF UnsafeComment
  <2>2. at \in Starts(text, escapes) /\ Here = text[at] BY <1>1, <2>1, UnitBegins
  <2>3. OpensUnsafe(text, at) BY <2>1, <2>2 DEF OpensUnsafe, OpensBlock, Ahead
  <2>4. HasUnsafeComment(text, escapes) BY <2>2, <2>3 DEF HasUnsafeComment
  <2>5. ~SafeText BY <2>4, <1>1 DEF SafeText, ScanTypeOK
  <2>6. scan' = "found" /\ found' = "comment" /\ text' = text /\ escapes' = escapes BY <2>1 DEF Found
  <2>7. ScanTypeOK' BY <1>1, <2>6 DEF ScanTypeOK
  <2>8. UnsafeScanInv' /\ BuiltinScanInv' BY <2>6 DEF UnsafeScanInv, BuiltinScanInv
  <2>9. ReadingsInv' BY <2>5, <2>6 DEF ReadingsInv, SafeText
  <2> QED BY <2>7, <2>8, <2>9 DEF ScanInv
<1>10. CASE Name \/ QuotedName
  <2>1. scan = "builtin" BY <1>10 DEF Name, QuotedName, InBuiltin
  <2>2. CASE Found("builtin") /\ HasAmbiguousCall(text, escapes)
    <3>1. scan' = "found" /\ found' = "builtin" /\ text' = text /\ escapes' = escapes BY <2>2 DEF Found
    <3>2. SafeText /\ \E esc \in BOOLEAN : HasAmbiguousCall(text, esc)
      BY <1>1, <2>1, <2>2 DEF ReadingsInv, ScanTypeOK
    <3>3. ScanTypeOK' BY <1>1, <3>1 DEF ScanTypeOK
    <3>4. UnsafeScanInv' /\ BuiltinScanInv' BY <3>1 DEF UnsafeScanInv, BuiltinScanInv
    <3>5. ReadingsInv' BY <3>1, <3>2 DEF ReadingsInv, SafeText
    <3> QED BY <3>3, <3>4, <3>5 DEF ScanInv
  <2>3. CASE BuiltinScanInv' /\ scan' = scan /\ found' = found /\ text' = text /\ escapes' = escapes
    BY <2>1, <2>3, <1>3
  <2> QED BY <2>2, <2>3, <1>1, <1>10, NamesInv
<1> QED BY <1>4, <1>5, <1>6, <1>7, <1>8, <1>9, <1>10 DEF ScanStep

\* A statement is received, and the scans of it begin.
LEMMA StartScanInv ==
    ASSUME ScanInv, NEW t \in Seq(Character), StartScan(t)
    PROVE  ScanInv'
<1>1. /\ ScanTypeOK /\ ReadingsInv /\ scan = "idle" /\ escapes \in BOOLEAN
      /\ text' = t /\ scan' = "unsafe" /\ UNCHANGED <<escapes, at, state, found>>
  BY DEF ScanInv, ScanTypeOK, StartScan
<1>2. escapes /\ at = 1 /\ state = "sql" BY <1>1 DEF ReadingsInv
<1>3. Frontier(t, 1, escapes) /\ SafeBefore(t, 1, escapes) BY ReadingBegins
<1>4. AtUnit' BY <1>1, <1>2, <1>3 DEF AtUnit
<1>5. UnsafeScanInv' /\ BuiltinScanInv' BY <1>1, <1>4 DEF UnsafeScanInv, BuiltinScanInv
<1>6. ScanTypeOK' BY <1>1 DEF ScanTypeOK, Character
<1>7. ReadingsInv' BY <1>1, <1>2 DEF ReadingsInv
<1> QED BY <1>5, <1>6, <1>7 DEF ScanInv

\* What the readings have shown is what the property says.
LEMMA ReadingsAgree ==
    ASSUME ScanInv
    PROVE  ScansAgreeWithLexing
<1>1. ScanTypeOK /\ ReadingsInv BY DEF ScanInv
<1>2. CASE scan = "clean"
  <2>1. found = "none" BY <1>1, <1>2 DEF ScanTypeOK
  <2> QED BY <2>1, <1>1, <1>2 DEF ReadingsInv, SafeText, ScansAgreeWithLexing
<1>3. CASE scan = "found" BY <1>1, <1>3 DEF ReadingsInv, SafeText, ScansAgreeWithLexing
<1>4. CASE scan \notin {"clean", "found"} BY <1>4 DEF ScansAgreeWithLexing
<1> QED BY <1>2, <1>3, <1>4

\* The invariant of the scans is kept by every step of a statement's validation:
\* nothing but the scans writes what they have found.
LEMMA NextScanInv ==
    ASSUME ScanInv, [Next]_vars
    PROVE  ScanInv'
<1>1. ASSUME UNCHANGED scanVars PROVE ScanInv'
  <2>1. UNCHANGED <<text, escapes, at, state, scan, found>> BY <1>1 DEF scanVars
  <2>2. ScanTypeOK' /\ BuiltinScanInv' /\ ReadingsInv'
    BY <2>1 DEF ScanInv, ScanTypeOK, BuiltinScanInv, ReadingsInv, SafeText
  <2>3. UnsafeScanInv' BY <2>1 DEF ScanInv, UnsafeScanInv, AtUnit, WithinUnit
  <2> QED BY <2>2, <2>3 DEF ScanInv
<1>2. ASSUME NEW t \in Texts, Receive(t) PROVE ScanInv'
  <2>1. t \in Seq(Character) BY TextsAssumption DEF Character
  <2> QED BY <2>1, <1>2, StartScanInv DEF Receive
<1>3. CASE Scanning BY <1>3, ScanStepInv DEF Scanning
<1>4. CASE ScanClean
  <2>1. scan = "clean" /\ scan' = "over" /\ text' = <<>> /\ UNCHANGED <<escapes, found>> BY <1>4 DEF ScanClean
  <2>2. ScanTypeOK' BY <2>1 DEF ScanInv, ScanTypeOK
  <2>3. UnsafeScanInv' /\ BuiltinScanInv' /\ ReadingsInv' BY <2>1 DEF UnsafeScanInv, BuiltinScanInv, ReadingsInv
  <2> QED BY <2>2, <2>3 DEF ScanInv
<1>5. ASSUME NEW r \in Sources, OfSource(r) PROVE ScanInv' BY <1>1, <1>5 DEF OfSource
<1>6. ASSUME NEW s \in Statements, Parse(s) PROVE ScanInv' BY <1>1, <1>6 DEF Parse
<1>7. CASE BadInput \/ ScanFinds \/ ParseFails \/ KindWrong \/ NodeWrong \/ Disabled \/ TableFails
  BY <1>1, <1>7 DEF BadInput, ScanFinds, ParseFails, KindWrong, NodeWrong, Disabled, TableFails, Reject
<1>8. CASE KindFits \/ NodesEnd \/ Feature \/ Unrestricted \/ Restricted \/ TablesEnd
  BY <1>1, <1>8 DEF KindFits, NodesEnd, Feature, Unrestricted, Restricted, TablesEnd, Move
<1>9. CASE NodeFits \/ TablePasses \/ EnterBlock \/ UNCHANGED vars
  BY <1>1, <1>9 DEF NodeFits, TablePasses, EnterBlock, vars
<1> QED BY <1>2, <1>3, <1>4, <1>5, <1>6, <1>7, <1>8, <1>9 DEF Next

\* Before a statement is received nothing has been scanned.
LEMMA InitScanInv == Init => ScanInv
<1> SUFFICES ASSUME ScanInit PROVE ScanInv
  BY DEF Init
<1>1. ScanTypeOK BY DEF ScanInit, ScanTypeOK
<1>2. UnsafeScanInv /\ BuiltinScanInv /\ ReadingsInv
  BY DEF ScanInit, UnsafeScanInv, BuiltinScanInv, ReadingsInv
<1> QED BY <1>1, <1>2 DEF ScanInv

\* For every text, and with the backslash as an escape or without: where the
\* two scans are, and what they have shown.
THEOREM ScanIsInvariant == Spec => []ScanInv
<1>1. Init => ScanInv BY InitScanInv
<1>2. ScanInv /\ [Next]_vars => ScanInv' BY NextScanInv
<1> QED BY <1>1, <1>2, PTL DEF Spec

\* The scans find an unsafe comment, or a call that MySQL and the parser may take
\* for different functions, exactly if the lexical units of the text have one.
THEOREM ScansAgree == Spec => []ScansAgreeWithLexing
<1>1. ScanInv => ScansAgreeWithLexing BY ReadingsAgree
<1> QED BY <1>1, ScanIsInvariant, PTL

-----------------------------------------------------------------------------
(* The tables.                                                               *)

\* What the assumptions say of one source.
LEMMA SourceFacts ==
    ASSUME NEW r \in Sources
    PROVE  /\ r.version \in Nat
           /\ r.default \in r.allowed \cup {None}
           /\ ~r.restricted => Schemas \cup {None} \subseteq r.allowed
BY SourcesAssumption

\* What the assumptions say of the tables of one statement.
LEMMA TableFacts ==
    ASSUME NEW s \in Statements
    PROVE  /\ Len(s.parent) \in Nat
           /\ DOMAIN s.direct = 1..Len(s.direct)
           /\ \A i \in DOMAIN s.direct : s.direct[i] \in TableRef
           /\ \A b \in Blocks(s) : /\ Len(s.tables[b]) \in Nat
                                   /\ DOMAIN s.tables[b] = 1..Len(s.tables[b])
                                   /\ \A i \in DOMAIN s.tables[b] : s.tables[b][i] \in TableRef
<1>1. /\ s.parent \in Seq(Nat)
      /\ s.tables \in [Blocks(s) -> Seq(TableRef)]
      /\ s.direct \in Seq({t \in TableRef : t.kind # "from"})
  BY StatementsAssumption
<1>2. ASSUME NEW b \in Blocks(s)
      PROVE  /\ Len(s.tables[b]) \in Nat
             /\ DOMAIN s.tables[b] = 1..Len(s.tables[b])
             /\ \A i \in DOMAIN s.tables[b] : s.tables[b][i] \in TableRef
  <2> DEFINE q == s.tables[b]
  <2>1. q \in Seq(TableRef) BY <1>1
  <2> HIDE DEF q
  <2>2. Len(q) \in Nat /\ DOMAIN q = 1..Len(q) /\ \A i \in DOMAIN q : q[i] \in TableRef BY <2>1
  <2> QED BY <2>2 DEF q
<1>3. DOMAIN s.direct = 1..Len(s.direct) /\ \A i \in DOMAIN s.direct : s.direct[i] \in TableRef
  <2> DEFINE q == s.direct
             Direct == {t \in TableRef : t.kind # "from"}
  <2>1. q \in Seq(Direct) /\ Direct \subseteq TableRef BY <1>1
  <2> HIDE DEF q, Direct
  <2>2. DOMAIN q = 1..Len(q) /\ \A i \in DOMAIN q : q[i] \in TableRef BY <2>1
  <2> QED BY <2>2 DEF q
<1>4. Len(s.parent) \in Nat BY <1>1
<1> QED BY <1>2, <1>3, <1>4

\* What passes is inside, for a source of the configuration.
LEMMA PassesIsInside ==
    ASSUME source \in Sources, NEW t \in TableRef, NEW N, Passes(t, N)
    PROVE  IsInside(t)
<1>1. source.default \in source.allowed \cup {None} BY SourceFacts
<1>2. CASE t.schema = None BY <1>1, <1>2 DEF IsInside
<1>3. CASE t.schema # None BY <1>3 DEF Passes, IsInside
<1> QED BY <1>2, <1>3

\* What does not pass is outside, and it is no virtual table and no name of N.
LEMMA FailsIsOutside ==
    ASSUME source \in Sources, NEW t \in TableRef, NEW N, ~Passes(t, N)
    PROVE  /\ IsOutside(t)
           /\ t.kind # "from" \/ t.schema # None \/ (Lower[t.name] # Dual /\ Lower[t.name] \notin N)
<1>1. source.default \in source.allowed \cup {None} BY SourceFacts
<1>2. t.kind # "from" \/ t.schema # None \/ (Lower[t.name] # Dual /\ Lower[t.name] \notin N)
  BY DEF Passes
<1>3. (IF t.schema = None /\ t.kind # "database" THEN source.default ELSE t.schema) \notin source.allowed
  BY DEF Passes
<1>4. CASE t.schema # None BY <1>2, <1>3, <1>4 DEF IsOutside
<1>5. CASE t.schema = None /\ t.kind = "database" BY <1>2, <1>5 DEF IsOutside
<1>6. CASE t.schema = None /\ t.kind # "database"
  <2>1. source.default \notin source.allowed BY <1>3, <1>6
  <2>2. source.default = None BY <2>1, <1>1
  <2> QED BY <2>2, <1>2, <1>6 DEF IsOutside
<1> QED BY <1>2, <1>4, <1>5, <1>6

\* The scope that is cloned from the parent, with the names of the block, has
\* everything that MySQL sees in the block.
LEMMA ScopeIsEnough ==
    ASSUME NEW s \in Statements, NEW b \in Blocks(s), NEW scope,
           \A c \in 1..(b - 1) : \A n \in Seen(s, c) : Lower[n] \in scope[c],
           NEW m \in Seen(s, b)
    PROVE  Lower[m] \in {Lower[s.cte[c]] : c \in Bodies(s, b)} \cup
                        IF s.parent[b] = 0 THEN {} ELSE scope[s.parent[b]]
<1>1. b \in 1..Len(s.parent) /\ Len(s.parent) \in Nat BY TableFacts DEF Blocks
<1>2. CASE m \in {s.cte[c] : c \in Bodies(s, b)} BY <1>2
<1>3. CASE m \in s.outer[b]
  <2>1. b # 1 BY <1>3, StatementsAssumption
  <2>2. b \in 2..Len(s.parent) BY <2>1, <1>1
  <2>3. s.parent[b] \in 1..(b - 1) BY <2>2, StatementsAssumption
  <2>4. s.outer[b] = s.outer[s.parent[b]] \cup SeenInParent(s, b) BY <2>2, StatementsAssumption
  <2>5. m \in Seen(s, s.parent[b]) BY <2>4, <1>3 DEF Seen, SeenInParent
  <2>6. s.parent[b] # 0 BY <2>3
  <2>7. Lower[m] \in scope[s.parent[b]] BY <2>3, <2>5
  <2> QED BY <2>6, <2>7
<1> QED BY <1>2, <1>3 DEF Seen

\* A name of a statement is one of the names.
LEMMA BodyNames ==
    ASSUME NEW s \in Statements, NEW b, NEW c \in Bodies(s, b)
    PROVE  s.cte[c] \in Names /\ Lower[s.cte[c]] \in Names
<1>1. s.cte \in [Blocks(s) -> Names \cup {None}] BY StatementsAssumption
<1>2. c \in Blocks(s) /\ s.cte[c] # None BY DEF Bodies
<1>3. s.cte[c] \in Names BY <1>1, <1>2
<1> QED BY <1>3, NamesAssumption

-----------------------------------------------------------------------------
\* Initially nothing has been chosen.
LEMMA InitInv == Init => PolicyInvariant
BY DEF Init, PolicyInvariant, StationInv, ScopeInv, CheckedInv, ReachesOnlyAllowed, RejectedForCause,
       Stations, AfterScan, AfterSource, AfterParse, AfterNodes, AtTables

\* A rejection for another reason than the schemas.
LEMMA RejectInv ==
    ASSUME PolicyInvariant, NEW c, Reject(c), c # "schema_not_allowed"
    PROVE  PolicyInvariant'
BY DEF Reject, policyVars, PolicyInvariant, StationInv, ScopeInv, CheckedInv, ReachesOnlyAllowed, RejectedForCause,
       Stations, AfterScan, AfterSource, AfterParse, AfterNodes, AtTables

\* No code of the walk over the nodes, or of the kinds, is that of the schemas.
LEMMA OtherCodes ==
    /\ KindCode # "schema_not_allowed"
    /\ \A n : NodeCode(n) # "schema_not_allowed"
BY DEF KindCode, NodeCode, CallCode

\* The steps before the tables.
LEMMA BeforeTables ==
    ASSUME PolicyInvariant,
           pc' \in Stations \ {"tables", "accepted", "rejected"},
           pc \in Stations \ {"tables", "accepted", "rejected"},
           pc' \in AfterSource => source' \in Sources,
           pc' \in AfterParse => stmt' \in Statements,
           UNCHANGED <<visible, tables, code>>
    PROVE  PolicyInvariant'
BY DEF PolicyInvariant, StationInv, ScopeInv, CheckedInv, ReachesOnlyAllowed, RejectedForCause,
       Stations, AfterScan, AfterSource, AfterParse, AfterNodes, AtTables

\* The steps that look at the tables keep what has been found.
LEMMA TablePassesInv ==
    ASSUME PolicyInvariant, TablePasses
    PROVE  PolicyInvariant'
<1>1. pc = "tables" /\ pc' = "tables" /\ code' = code /\ code = "none"
  BY DEF TablePasses, PolicyInvariant, StationInv
<1>2. source \in Sources /\ stmt \in Statements /\ source.restricted /\ tables \in Nat
  BY <1>1 DEF PolicyInvariant, StationInv, CheckedInv, AfterSource, AfterParse, AfterNodes, AtTables
<1>3. UNCHANGED <<source, stmt, visible>> /\ tables' = tables + 1 BY DEF TablePasses
<1>4. StationInv'
  BY <1>1, <1>2, <1>3 DEF StationInv, Stations, AfterScan, AfterSource, AfterParse, AfterNodes, AtTables
<1>5. ScopeInv'
  <2>1. ScopeInv BY DEF PolicyInvariant
  <2> QED BY <2>1, <1>1, <1>3 DEF ScopeInv, Block, Seen, Bodies, Blocks
<1>6. CheckedInv'
  <2>1. CheckedInv /\ ScopeInv BY DEF PolicyInvariant
  <2>2. tables < Len(TablesHere) /\ Passes(TablesHere[tables + 1], NamesHere) BY DEF TablePasses
  <2>3. TablesHere[tables + 1] \in TableRef
    <3>1. Block \in Nat /\ Block <= Len(stmt.parent) BY <2>1, <1>1 DEF ScopeInv, Block
    <3>2. CASE Block = 0
      <4>1. TablesHere = stmt.direct BY <3>2 DEF TablesHere
      <4>2. Len(stmt.direct) \in Nat BY <1>2, StatementsAssumption
      <4> QED BY <4>1, <4>2, <2>2, <1>2, TableFacts
    <3>3. CASE Block # 0
      <4>1. TablesHere = stmt.tables[Block] BY <3>3 DEF TablesHere
      <4>2. Block \in Blocks(stmt) BY <3>1, <3>3, <1>2, TableFacts DEF Blocks
      <4> QED BY <4>1, <4>2, <2>2, <1>2, TableFacts
    <3> QED BY <3>2, <3>3
  <2>4. IsInside(TablesHere[tables + 1]) BY <2>2, <2>3, <1>2, PassesIsInside
  <2>5. \A i \in 1..tables : IsInside(TablesHere[i]) BY <2>1, <1>1 DEF CheckedInv
  <2>6. \A i \in 1..(tables + 1) : IsInside(TablesHere[i])
    <3>1. \A i \in 1..(tables + 1) : i \in 1..tables \/ i = tables + 1 BY <1>2
    <3> QED BY <3>1, <2>4, <2>5
  <2>7. TablesHere' = TablesHere /\ Block' = Block BY <1>3 DEF TablesHere, Block
  <2>8. \A t : IsInside(t)' <=> IsInside(t) BY <1>3 DEF IsInside
  <2> QED BY <2>1, <2>6, <2>7, <2>8, <1>1, <1>2, <1>3 DEF CheckedInv, IsInside
<1>7. ReachesOnlyAllowed' BY <1>1 DEF ReachesOnlyAllowed
<1>8. RejectedForCause' BY <1>1 DEF RejectedForCause
<1> QED BY <1>4, <1>5, <1>6, <1>7, <1>8 DEF PolicyInvariant

\* A block is entered with a scope that is enough.
LEMMA EnterBlockInv ==
    ASSUME PolicyInvariant, EnterBlock
    PROVE  PolicyInvariant'
<1>1. pc = "tables" /\ pc' = "tables" /\ code' = code /\ code = "none"
  BY DEF EnterBlock, PolicyInvariant, StationInv
<1>2. source \in Sources /\ stmt \in Statements /\ source.restricted
  BY <1>1 DEF PolicyInvariant, StationInv, AfterSource, AfterParse, AfterNodes, AtTables
<1>3. /\ UNCHANGED <<source, stmt>> /\ tables' = 0 /\ tables = Len(TablesHere)
      /\ visible' = Append(visible, VisibleIn(Block + 1)) /\ Block < Len(stmt.parent)
  BY DEF EnterBlock
<1> DEFINE b == Len(visible) + 1
           scope == VisibleIn(b)
<1>4. visible \in Seq(SUBSET Names) /\ Len(visible) <= Len(stmt.parent)
  BY <1>1 DEF PolicyInvariant, ScopeInv, Block
<1>5. b \in Blocks(stmt) /\ b \in Nat /\ b - 1 = Len(visible)
  BY <1>3, <1>4, <1>2, TableFacts DEF Blocks, Block
<1>6. scope \in SUBSET Names
  <2>1. \A c \in Bodies(stmt, b) : Lower[stmt.cte[c]] \in Names BY <1>2, BodyNames
  <2>2. stmt.parent[b] # 0 => visible[stmt.parent[b]] \in SUBSET Names
    <3>1. b = 1 => stmt.parent[b] = 0 BY <1>2, StatementsAssumption
    <3>2. b # 1 => b \in 2..Len(stmt.parent) BY <1>5, <1>2, TableFacts DEF Blocks
    <3>3. b # 1 => stmt.parent[b] \in 1..(b - 1) BY <3>2, <1>2, StatementsAssumption
    <3> QED BY <3>1, <3>3, <1>4, <1>5
  <2> QED BY <2>1, <2>2 DEF VisibleIn
<1>7. visible' = Append(visible, scope) BY <1>3 DEF Block
<1>8. \A n \in Seen(stmt, b) : Lower[n] \in scope
  <2>1. \A c \in 1..(b - 1) : \A n \in Seen(stmt, c) : Lower[n] \in visible[c]
    BY <1>1, <1>5 DEF PolicyInvariant, ScopeInv, Block
  <2> QED BY <2>1, <1>2, <1>5, ScopeIsEnough DEF VisibleIn
<1> HIDE DEF scope
<1>9. /\ visible' \in Seq(SUBSET Names) /\ Len(visible') = b
      /\ visible'[b] = scope
      /\ \A c \in 1..(b - 1) : visible'[c] = visible[c]
  BY <1>4, <1>5, <1>6, <1>7
<1>10. StationInv'
  BY <1>1, <1>2, <1>3 DEF StationInv, Stations, AfterScan, AfterSource, AfterParse, AfterNodes, AtTables
<1>11. ScopeInv'
  <2>1. \A c \in 1..(b - 1) : \A n \in Seen(stmt, c) : Lower[n] \in visible[c]
    BY <1>1, <1>5 DEF PolicyInvariant, ScopeInv, Block
  <2>2. ASSUME NEW c \in 1..b, NEW n \in Seen(stmt, c) PROVE Lower[n] \in visible'[c]
    <3>1. c = b \/ c \in 1..(b - 1) BY <1>5
    <3> QED BY <3>1, <2>1, <2>2, <1>8, <1>9
  <2>3. b <= Len(stmt.parent) BY <1>5, <1>2, TableFacts DEF Blocks
  <2>4. stmt' = stmt /\ Len(visible') = b BY <1>3, <1>9
  <2>5. \A c : Seen(stmt, c)' = Seen(stmt, c) BY <2>4 DEF Seen, Bodies, Blocks
  <2>6. \A c \in 1..b : \A n \in Seen(stmt', c) : Lower[n] \in visible'[c] BY <2>2, <2>4
  <2> QED BY <2>3, <2>4, <2>6, <1>9 DEF ScopeInv, Block
<1>12. CheckedInv'
  <2>1. CheckedInv BY DEF PolicyInvariant
  <2>2. \A i \in DOMAIN TablesHere : IsInside(TablesHere[i])
    <3>1. DOMAIN TablesHere = 1..Len(TablesHere)
      BY <1>2, <1>4, TableFacts DEF TablesHere, Block, Blocks
    <3> QED BY <3>1, <2>1, <1>1, <1>3 DEF CheckedInv
  <2>3. \A i \in DOMAIN stmt.direct : IsInside(stmt.direct[i])
    BY <2>1, <2>2, <1>1, <1>4 DEF CheckedInv, TablesHere, Block
  <2>4. ASSUME NEW c \in 1..Len(visible), NEW i \in DOMAIN stmt.tables[c]
        PROVE  IsInside(stmt.tables[c][i])
    <3>1. CASE c = Len(visible) BY <3>1, <2>2, <1>4 DEF TablesHere, Block
    <3>2. CASE c # Len(visible)
      <4>1. c \in 1..(Len(visible) - 1) BY <3>2, <1>4
      <4> QED BY <4>1, <2>1, <1>1 DEF CheckedInv, Block
    <3> QED BY <3>1, <3>2
  <2>5. Block' = b /\ stmt' = stmt /\ source' = source /\ tables' = 0 BY <1>3, <1>9 DEF Block
  <2>6. (\A i \in DOMAIN stmt.direct : IsInside(stmt.direct[i]))' BY <2>3, <2>5 DEF IsInside
  <2>7. (\A c \in 1..(Block - 1) : \A i \in DOMAIN stmt.tables[c] : IsInside(stmt.tables[c][i]))'
    BY <2>4, <2>5, <1>5 DEF IsInside
  <2>8. (\A i \in 1..tables : IsInside(TablesHere[i]))' BY <2>5
  <2> QED BY <2>5, <2>6, <2>7, <2>8 DEF CheckedInv
<1>13. ReachesOnlyAllowed' BY <1>1 DEF ReachesOnlyAllowed
<1>14. RejectedForCause' BY <1>1 DEF RejectedForCause
<1> QED BY <1>10, <1>11, <1>12, <1>13, <1>14 DEF PolicyInvariant

\* The last steps.
LEMMA TablesEndInv ==
    ASSUME PolicyInvariant, TablesEnd
    PROVE  PolicyInvariant'
<1>1. pc = "tables" /\ pc' = "accepted" /\ code' = code /\ code = "none"
  BY DEF TablesEnd, Move, PolicyInvariant, StationInv
<1>2. source \in Sources /\ stmt \in Statements
  BY <1>1 DEF PolicyInvariant, StationInv, AfterSource, AfterParse, AfterNodes, AtTables
<1>3. /\ UNCHANGED <<source, stmt, visible, tables>>
      /\ tables = Len(TablesHere) /\ Len(visible) = Len(stmt.parent)
  BY DEF TablesEnd, Move, policyVars, Block
<1>4. StationInv'
  BY <1>1, <1>2, <1>3 DEF StationInv, Stations, AfterScan, AfterSource, AfterParse, AfterNodes, AtTables
<1>5. ScopeInv' /\ CheckedInv' BY <1>1 DEF ScopeInv, CheckedInv
<1>6. ReachesOnlyAllowed'
  <2>1. CheckedInv BY DEF PolicyInvariant
  <2>2. Len(stmt.parent) \in Nat /\ Len(stmt.parent) > 0 /\ Block = Len(stmt.parent)
    <3>1. stmt.parent \in Seq(Nat) /\ stmt.parent # <<>> BY <1>2, StatementsAssumption
    <3> QED BY <3>1, <1>3 DEF Block
  <2>3. \A i \in DOMAIN stmt.direct : IsInside(stmt.direct[i]) BY <2>1, <2>2, <1>1 DEF CheckedInv
  <2>4. ASSUME NEW b \in Blocks(stmt), NEW i \in DOMAIN stmt.tables[b]
        PROVE  IsInside(stmt.tables[b][i])
    <3>1. CASE b = Block
      <4>1. TablesHere = stmt.tables[b] BY <3>1, <2>2 DEF TablesHere
      <4>2. i \in 1..tables BY <4>1, <1>2, <1>3, TableFacts
      <4> QED BY <4>1, <4>2, <2>1, <1>1 DEF CheckedInv
    <3>2. CASE b # Block
      <4>1. b \in 1..(Block - 1) BY <3>2, <2>2 DEF Blocks
      <4> QED BY <4>1, <2>1, <1>1 DEF CheckedInv
    <3> QED BY <3>1, <3>2
  <2>5. (\A i \in DOMAIN stmt.direct : IsInside(stmt.direct[i]))' BY <2>3, <1>3 DEF IsInside
  <2>6. (\A b \in Blocks(stmt) : \A i \in DOMAIN stmt.tables[b] : IsInside(stmt.tables[b][i]))'
    BY <2>4, <1>3 DEF IsInside, Blocks
  <2> QED BY <2>5, <2>6 DEF ReachesOnlyAllowed
<1>7. RejectedForCause' BY <1>1 DEF RejectedForCause
<1> QED BY <1>4, <1>5, <1>6, <1>7 DEF PolicyInvariant

\* Without a restriction every schema is allowed.
LEMMA UnrestrictedInv ==
    ASSUME PolicyInvariant, Unrestricted
    PROVE  PolicyInvariant'
<1>1. pc = "schemas" /\ pc' = "accepted" /\ code' = code /\ code = "none"
  BY DEF Unrestricted, Move, PolicyInvariant, StationInv
<1>2. source \in Sources /\ stmt \in Statements /\ ~source.restricted
  BY <1>1 DEF Unrestricted, PolicyInvariant, StationInv, AfterSource, AfterParse, AfterNodes
<1>3. UNCHANGED <<source, stmt>> BY DEF Unrestricted, Move, policyVars
<1>4. \A t \in TableRef : IsInside(t)
  <2>1. source.default \in source.allowed \cup {None} /\ Schemas \subseteq source.allowed
    BY <1>2, SourceFacts
  <2> QED BY <2>1 DEF IsInside, TableRef
<1>5. (\A i \in DOMAIN stmt.direct : IsInside(stmt.direct[i]))' BY <1>2, <1>3, <1>4, TableFacts DEF IsInside
<1>6. (\A b \in Blocks(stmt) : \A i \in DOMAIN stmt.tables[b] : IsInside(stmt.tables[b][i]))'
  <2>1. \A b \in Blocks(stmt) : \A i \in DOMAIN stmt.tables[b] : IsInside(stmt.tables[b][i])
    BY <1>2, <1>4, TableFacts
  <2> QED BY <2>1, <1>3 DEF IsInside, Blocks
<1>7. ReachesOnlyAllowed' BY <1>5, <1>6 DEF ReachesOnlyAllowed
<1>8. StationInv'
  BY <1>1, <1>2, <1>3 DEF StationInv, Stations, AfterScan, AfterSource, AfterParse, AfterNodes, AtTables
<1>9. ScopeInv' /\ CheckedInv' /\ RejectedForCause' BY <1>1 DEF ScopeInv, CheckedInv, RejectedForCause
<1> QED BY <1>7, <1>8, <1>9 DEF PolicyInvariant

\* A rejection for the schemas has its witness.
LEMMA TableFailsInv ==
    ASSUME PolicyInvariant, TableFails
    PROVE  PolicyInvariant'
<1>1. pc = "tables" /\ pc' = "rejected" /\ UNCHANGED <<source, stmt, visible, tables>>
  BY DEF TableFails, Reject, policyVars
<1>2. source \in Sources /\ stmt \in Statements /\ tables \in Nat
  BY <1>1 DEF PolicyInvariant, StationInv, CheckedInv, AfterSource, AfterParse, AfterNodes, AtTables
<1>3. tables < Len(TablesHere) /\ ~Passes(TablesHere[tables + 1], NamesHere) BY DEF TableFails
<1>4. Block \in Nat /\ Block <= Len(stmt.parent)
      /\ \A b \in 1..Block : \A n \in Seen(stmt, b) : Lower[n] \in visible[b]
  BY <1>1 DEF PolicyInvariant, ScopeInv, Block
<1> DEFINE t == TablesHere[tables + 1]
<1>5. ASSUME Block = 0 PROVE RejectedForCause'
  <2>1. TablesHere = stmt.direct BY <1>5 DEF TablesHere
  <2>2. Len(stmt.direct) \in Nat BY <1>2, StatementsAssumption
  <2>3. tables + 1 \in DOMAIN stmt.direct BY <2>1, <2>2, <1>2, <1>3, TableFacts
  <2>4. t \in TableRef BY <2>1, <2>3, <1>2, TableFacts
  <2>5. IsOutside(t) BY <2>4, <1>2, <1>3, FailsIsOutside
  <2>6. (\E i \in DOMAIN stmt.direct : IsOutside(stmt.direct[i]))'
    BY <2>1, <2>3, <2>5, <1>1 DEF IsOutside
  <2> QED BY <2>6 DEF RejectedForCause
<1>6. ASSUME Block # 0 PROVE RejectedForCause'
  <2>1. TablesHere = stmt.tables[Block] /\ NamesHere = visible[Block] BY <1>6 DEF TablesHere, NamesHere
  <2>2. Block \in Blocks(stmt) BY <1>4, <1>6, <1>2, TableFacts DEF Blocks
  <2>3. tables + 1 \in DOMAIN stmt.tables[Block] BY <2>1, <2>2, <1>2, <1>3, TableFacts
  <2>4. t \in TableRef BY <2>1, <2>2, <2>3, <1>2, TableFacts
  <2>5. IsOutside(t) BY <2>4, <1>2, <1>3, FailsIsOutside
  <2>6. t.kind # "from" \/ t.schema # None
        \/ (Lower[t.name] # Dual /\ Lower[t.name] \notin visible[Block])
    BY <2>1, <2>4, <1>2, <1>3, FailsIsOutside
  <2>7. \A m \in Seen(stmt, Block) : Lower[m] \in visible[Block] BY <1>4, <1>6
  <2>8. IsPhysical(Block, t)
    BY <2>6, <2>7 DEF IsPhysical, SameName, Seen
  <2>9. IsPhysical(Block, stmt.tables[Block][tables + 1]) /\ IsOutside(stmt.tables[Block][tables + 1])
    BY <2>1, <2>5, <2>8
  <2>10. \E b \in Blocks(stmt) : \E i \in DOMAIN stmt.tables[b] :
            IsPhysical(b, stmt.tables[b][i]) /\ IsOutside(stmt.tables[b][i])
    BY <2>2, <2>3, <2>9
  <2>11. \A b, u : (IsPhysical(b, u)' <=> IsPhysical(b, u)) /\ (IsOutside(u)' <=> IsOutside(u))
    BY <1>1 DEF IsPhysical, IsOutside, SameName, Bodies, Blocks
  <2>12. (\E b \in Blocks(stmt) : \E i \in DOMAIN stmt.tables[b] :
            IsPhysical(b, stmt.tables[b][i]) /\ IsOutside(stmt.tables[b][i]))'
    BY <2>10, <2>11, <1>1 DEF Blocks
  <2> QED BY <2>12 DEF RejectedForCause
<1>7. StationInv' /\ ScopeInv' /\ CheckedInv' /\ ReachesOnlyAllowed'
  BY <1>1 DEF StationInv, ScopeInv, CheckedInv, ReachesOnlyAllowed,
              Stations, AfterScan, AfterSource, AfterParse, AfterNodes, AtTables
<1> QED BY <1>5, <1>6, <1>7 DEF PolicyInvariant

\* Every step keeps the invariant.
LEMMA NextInv ==
    ASSUME PolicyInvariant, [Next]_vars
    PROVE  PolicyInvariant'
<1> USE DEF Stations, AfterScan, AfterSource, AfterParse, AfterNodes, AtTables
<1>1. StationInv BY DEF PolicyInvariant
<1>2. ASSUME NEW t \in Texts, Receive(t) PROVE PolicyInvariant'
  BY <1>1, <1>2, BeforeTables DEF Receive, policyVars, StationInv
<1>3. CASE BadInput BY <1>3, RejectInv DEF BadInput
<1>4. CASE Scanning BY <1>1, <1>4, BeforeTables DEF Scanning, policyVars, StationInv
<1>5. CASE ScanFinds
  <2>1. (IF found = "comment" THEN "unsafe_comment" ELSE "unapproved_function") # "schema_not_allowed" OBVIOUS
  <2> QED BY <1>5, <2>1, RejectInv DEF ScanFinds
<1>6. CASE ScanClean BY <1>1, <1>6, BeforeTables DEF ScanClean, StationInv
<1>7. ASSUME NEW r \in Sources, OfSource(r) PROVE PolicyInvariant'
  BY <1>1, <1>7, BeforeTables DEF OfSource, StationInv
<1>8. CASE ParseFails BY <1>8, RejectInv DEF ParseFails
<1>9. ASSUME NEW s \in Statements, Parse(s) PROVE PolicyInvariant'
  BY <1>1, <1>9, BeforeTables DEF Parse, StationInv
<1>10. CASE KindFits BY <1>1, <1>10, BeforeTables DEF KindFits, Move, policyVars, StationInv
<1>11. CASE KindWrong BY <1>11, RejectInv, OtherCodes DEF KindWrong
<1>12. CASE NodeFits BY <1>1, <1>12, BeforeTables DEF NodeFits, StationInv
<1>13. CASE NodeWrong BY <1>13, RejectInv, OtherCodes DEF NodeWrong
<1>14. CASE NodesEnd BY <1>1, <1>14, BeforeTables DEF NodesEnd, Move, policyVars, StationInv
<1>15. CASE Feature BY <1>1, <1>15, BeforeTables DEF Feature, Move, policyVars, StationInv
<1>16. CASE Disabled BY <1>16, RejectInv DEF Disabled
<1>17. CASE Unrestricted BY <1>17, UnrestrictedInv
<1>18. CASE Restricted
  <2>1. /\ pc = "schemas" /\ pc' = "tables" /\ source.restricted
        /\ UNCHANGED <<source, stmt, visible, tables, code>>
    BY <1>18 DEF Restricted, Move, policyVars
  <2>2. visible = <<>> /\ tables = 0 /\ stmt \in Statements BY <2>1, <1>1 DEF StationInv
  <2>3. 0 <= Len(stmt.parent) /\ Len(<<>>) = 0 BY <2>2, TableFacts
  <2>4. ScopeInv' BY <2>1, <2>2, <2>3 DEF ScopeInv, Block
  <2>5. CheckedInv' BY <2>1, <2>2, <2>3 DEF CheckedInv, Block
  <2>6. StationInv' /\ ReachesOnlyAllowed' /\ RejectedForCause'
    BY <1>1, <2>1 DEF StationInv, ReachesOnlyAllowed, RejectedForCause
  <2> QED BY <2>4, <2>5, <2>6 DEF PolicyInvariant
<1>19. CASE TablePasses BY <1>19, TablePassesInv
<1>20. CASE TableFails BY <1>20, TableFailsInv
<1>21. CASE EnterBlock BY <1>21, EnterBlockInv
<1>22. CASE TablesEnd BY <1>22, TablesEndInv
<1>23. CASE UNCHANGED vars
  <2>1. UNCHANGED <<source, pc, stmt, visible, tables, code>> BY <1>23 DEF vars
  <2> QED BY <2>1 DEF PolicyInvariant, StationInv, ScopeInv, CheckedInv, ReachesOnlyAllowed, RejectedForCause,
             IsInside, IsOutside, IsPhysical, SameName, Block, TablesHere, Seen, Bodies, Blocks
<1> QED
  BY <1>2, <1>3, <1>4, <1>5, <1>6, <1>7, <1>8, <1>9, <1>10, <1>11, <1>12, <1>13, <1>14, <1>15, <1>16,
     <1>17, <1>18, <1>19, <1>20, <1>21, <1>22, <1>23 DEF Next

\* The invariant of every reachable state.
THEOREM PolicyIsInvariant == Spec => []PolicyInvariant
<1>1. Init => PolicyInvariant BY InitInv
<1>2. PolicyInvariant /\ [Next]_vars => PolicyInvariant' BY NextInv
<1> QED BY <1>1, <1>2, PTL DEF Spec

\* Every table that MySQL reads or writes for an accepted statement is in an
\* allowed schema, for any nesting of blocks and any common table expressions.
THEOREM AcceptedReachesOnlyAllowed == Spec => []ReachesOnlyAllowed
<1>1. PolicyInvariant => ReachesOnlyAllowed BY DEF PolicyInvariant
<1> QED BY <1>1, PolicyIsInvariant, PTL

\* No reference to a common table expression is taken for a table outside.
THEOREM RejectedOnlyForCause == Spec => []RejectedForCause
<1>1. PolicyInvariant => RejectedForCause BY DEF PolicyInvariant
<1> QED BY <1>1, PolicyIsInvariant, PTL

-----------------------------------------------------------------------------
(* The functions of an accepted statement.                                   *)

\* No scan ends with a finding but by finding.
LEMMA ScanStepFinds ==
    ASSUME ScanStep, scan # "found" => found = "none"
    PROVE  scan' # "found" => found' = "none"
<1>1. scan \in {"unsafe", "builtin"}
  BY DEF ScanStep, OpenQuote, OpenLine, UnsafeComment, OpenBlock, PlainSQL, EscapedChar, DoubledQuote,
         CloseQuote, QuotedChar, LineChar, BlockChar, InState, InQuote, Skip, SkipString, QuotedName,
         Name, OtherChar, InBuiltin, EndOfText
<1>2. \A k, s : Go(k, s) => scan' = scan /\ found' = found BY DEF Go
<1>3. \A w : Found(w) => scan' = "found" BY DEF Found
<1>4. CASE EndOfText BY <1>1, <1>4 DEF EndOfText, ReadAgain
<1>5. CASE UnsafeComment BY <1>3, <1>5 DEF UnsafeComment
<1>6. CASE OpenQuote \/ OpenLine \/ OpenBlock \/ PlainSQL \/ EscapedChar \/ DoubledQuote \/ CloseQuote
           \/ QuotedChar
  BY <1>1, <1>2, <1>6 DEF OpenQuote, OpenLine, OpenBlock, PlainSQL, EscapedChar, DoubledQuote, CloseQuote,
                          QuotedChar
<1>7. CASE LineChar \/ BlockChar BY <1>1, <1>2, <1>7 DEF LineChar, BlockChar
<1>8. CASE Skip \/ SkipString \/ OtherChar BY <1>1, <1>2, <1>8 DEF Skip, SkipString, OtherChar
<1>9. CASE QuotedName BY <1>1, <1>2, <1>3, <1>9 DEF QuotedName
<1>10. CASE Name BY <1>1, <1>2, <1>3, <1>10 DEF Name
<1> QED BY <1>4, <1>5, <1>6, <1>7, <1>8, <1>9, <1>10 DEF ScanStep

\* What passes the walk is a function of the server, if it is spelled as one.
LEMMA NodeIsBuiltin ==
    ASSUME source \in Sources, NEW s \in Statements, NEW i \in DOMAIN s.nodes,
           NodeCode(s.nodes[i]) = "none", "apart" \notin s.nodes[i].marks
    PROVE  IsServerBuiltin(s.nodes[i])
<1> DEFINE n == s.nodes[i]
<1>1. /\ n.kind = "builtin" => n.name \in DOMAIN NodeSince
      /\ "over" \in n.marks => n.kind = "builtin" /\ n.name \in WindowFunctions
      /\ "qualified" \in n.marks => n.kind = "call"
  BY StatementsAssumption
<1>2. source.version \in Nat BY SourceFacts
<1>3. NodeCode(n) = "none" /\ "apart" \notin n.marks OBVIOUS
<1> HIDE DEF n
<1>4. n.kind = "call" => "qualified" \notin n.marks /\ Safe(n.name) BY <1>3 DEF NodeCode, CallCode
<1>5. ASSUME n.kind = "builtin"
      PROVE  /\ source.version >= NodeSince[n.name]
             /\ "over" \in n.marks => source.version >= WindowSince(n.name)
  <2>1. ~(source.version < MinimumVersion(n)) BY <1>3, <1>5 DEF NodeCode
  <2>2. CASE "over" \notin n.marks
    <3>1. NodeSince[n.name] \in Nat BY <1>1, <1>5 DEF NodeSince
    <3>2. MinimumVersion(n) = NodeSince[n.name] BY <1>5, <2>2 DEF MinimumVersion
    <3> QED BY <3>1, <3>2, <2>1, <2>2, <1>2
  <2>3. CASE "over" \in n.marks
    <3>1. n.name = "aggregate" \/ n.name = "json_arrayagg" BY <1>1, <2>3 DEF WindowFunctions
    <3>2. NodeSince["aggregate"] = 0 /\ NodeSince["json_arrayagg"] = 50722 BY DEF NodeSince
    <3>3. MinimumVersion(n) = WindowSince(n.name) BY <1>5, <2>3 DEF MinimumVersion
    <3>4. WindowSince(n.name) \in Nat /\ WindowSince(n.name) >= NodeSince[n.name] /\ NodeSince[n.name] \in Nat
      BY <3>1, <3>2 DEF WindowSince
    <3> QED BY <3>3, <3>4, <2>1, <1>2
  <2> QED BY <2>2, <2>3
<1>6. IsServerBuiltin(n) BY <1>1, <1>3, <1>4, <1>5 DEF IsServerBuiltin
<1> QED BY <1>6 DEF n

\* As the scans agree with the lexical units of the text, what comes after them
\* has no call that the server and the parser take for different functions.
LEMMA NextSpelling ==
    ASSUME StationInv, SpellingInv, ScansAgreeWithLexing, [Next]_vars
    PROVE  SpellingInv'
<1> USE DEF Stations, AfterScan, AfterSource, AfterParse, AfterNodes, AtTables
<1>1. ASSUME NEW t \in Texts, Receive(t) PROVE SpellingInv'
  BY <1>1 DEF Receive, StartScan, SpellingInv, policyVars
<1>2. ASSUME NEW c, Reject(c) PROVE SpellingInv'
  BY <1>2 DEF Reject, SpellingInv, scanVars, policyVars
<1>3. CASE Scanning
  <2>1. scan' # "found" => found' = "none" BY <1>3, ScanStepFinds DEF Scanning, SpellingInv
  <2> QED BY <2>1, <1>3 DEF Scanning, SpellingInv
<1>4. CASE ScanClean
  <2>1. PICK esc \in BOOLEAN : apart' = HasAmbiguousCall(text, esc) BY <1>4 DEF ScanClean
  <2>2. scan = "clean" /\ found = "none"
    BY <1>4 DEF ScanClean, SpellingInv
  <2>3. ~HasAmbiguousCall(text, esc)
    BY <2>1, <2>2 DEF ScansAgreeWithLexing
  <2>4. ~apart' BY <2>1, <2>3
  <2> QED BY <2>2, <2>4, <1>4 DEF ScanClean, SpellingInv
<1>5. ASSUME NEW r \in Sources, OfSource(r) PROVE SpellingInv'
  BY <1>5 DEF OfSource, SpellingInv, scanVars
<1>6. ASSUME NEW s \in Statements, Parse(s) PROVE SpellingInv'
  BY <1>6 DEF Parse, SpellingInv, scanVars
<1>7. ASSUME NEW to, NEW from \in AfterParse, to \in AfterParse, Move(from, to) PROVE SpellingInv'
  BY <1>7 DEF Move, SpellingInv, scanVars, policyVars
<1>8. CASE KindFits \/ NodesEnd \/ Feature \/ Unrestricted \/ Restricted \/ TablesEnd
  BY <1>7, <1>8 DEF KindFits, NodesEnd, Feature, Unrestricted, Restricted, TablesEnd
<1>9. CASE BadInput \/ ScanFinds \/ ParseFails \/ KindWrong \/ NodeWrong \/ Disabled \/ TableFails
  BY <1>2, <1>9 DEF BadInput, ScanFinds, ParseFails, KindWrong, NodeWrong, Disabled, TableFails
<1>10. CASE NodeFits \/ TablePasses \/ EnterBlock \/ UNCHANGED vars
  <2>1. UNCHANGED <<scan, found, pc, apart, stmt>>
    BY <1>10 DEF NodeFits, TablePasses, EnterBlock, vars, scanVars
  <2> QED BY <2>1 DEF SpellingInv
<1> QED BY <1>1, <1>3, <1>4, <1>5, <1>6, <1>8, <1>9, <1>10 DEF Next

\* Every node that has been walked over has passed.
LEMMA NextNodes ==
    ASSUME StationInv, NodesInv, [Next]_vars
    PROVE  NodesInv'
<1> USE DEF BeforeNodes, AfterNodes, AtTables
<1>1. ASSUME nodes' = nodes, pc' = "rejected" \/ (pc \in BeforeNodes /\ pc' \in BeforeNodes)
      PROVE  NodesInv'
  BY <1>1 DEF NodesInv
<1>2. ASSUME UNCHANGED <<nodes, source, stmt>>,
             pc' = pc \/ (pc \in AfterNodes /\ pc' \in AfterNodes)
      PROVE  NodesInv'
  BY <1>2 DEF NodesInv, NodeCode, MinimumVersion, CallCode, Safe
<1>3. CASE BadInput \/ ScanFinds \/ ParseFails \/ KindWrong \/ NodeWrong \/ Disabled \/ TableFails
  BY <1>1, <1>3 DEF BadInput, ScanFinds, ParseFails, KindWrong, NodeWrong, Disabled, TableFails, Reject,
                    policyVars
<1>4. ASSUME NEW t \in Texts, Receive(t) PROVE NodesInv' BY <1>1, <1>4 DEF Receive, policyVars
<1>5. ASSUME NEW r \in Sources, OfSource(r) PROVE NodesInv' BY <1>1, <1>5 DEF OfSource
<1>6. ASSUME NEW s \in Statements, Parse(s) PROVE NodesInv' BY <1>1, <1>6 DEF Parse
<1>7. CASE ScanClean BY <1>1, <1>7 DEF ScanClean
<1>8. CASE Scanning \/ TablePasses \/ EnterBlock \/ UNCHANGED vars
  BY <1>2, <1>8 DEF Scanning, TablePasses, EnterBlock, vars, policyVars
<1>9. CASE Feature \/ Unrestricted \/ Restricted \/ TablesEnd
  BY <1>2, <1>9 DEF Feature, Unrestricted, Restricted, TablesEnd, Move, policyVars
<1>10. CASE KindFits
  <2>1. pc = "kind" /\ pc' = "nodes" /\ nodes' = nodes BY <1>10 DEF KindFits, Move, policyVars
  <2>2. nodes' = 0 BY <2>1 DEF NodesInv
  <2> QED BY <2>1, <2>2 DEF NodesInv
<1>11. CASE NodeFits BY <1>11 DEF NodeFits, NodesInv, NodeCode, MinimumVersion, CallCode, Safe
<1>12. CASE NodesEnd
  <2>1. pc = "nodes" /\ pc' = "features" /\ nodes = Len(stmt.nodes) /\ UNCHANGED <<nodes, source, stmt>>
    BY <1>12 DEF NodesEnd, Move, policyVars
  <2>2. stmt \in Statements BY <2>1 DEF StationInv, AfterParse
  <2>3. stmt.nodes \in Seq(Node) BY <2>2, StatementsAssumption
  <2>4. DOMAIN stmt.nodes = 1..nodes
    <3> DEFINE q == stmt.nodes
    <3>1. q \in Seq(Node) BY <2>3
    <3> HIDE DEF q
    <3>2. DOMAIN q = 1..Len(q) BY <3>1
    <3> QED BY <3>2, <2>1 DEF q
  <2>5. \A i \in DOMAIN stmt.nodes : NodeCode(stmt.nodes[i]) = "none" BY <2>1, <2>4 DEF NodesInv
  <2> QED BY <2>1, <2>5 DEF NodesInv, NodeCode, MinimumVersion, CallCode, Safe
<1> QED
  BY <1>3, <1>4, <1>5, <1>6, <1>7, <1>8, <1>9, <1>10, <1>11, <1>12 DEF Next

\* Every function of an accepted statement is a built-in of the very server,
\* whatever its version and however its name is spelled.
THEOREM AcceptedCallsOnlyBuiltins == Spec => []OnlyServerBuiltins
<1>1. Init => SpellingInv /\ NodesInv
  BY DEF Init, ScanInit, SpellingInv, NodesInv, BeforeNodes, AfterScan, AfterSource, AfterParse, AfterNodes, AtTables
<1>2. StationInv /\ SpellingInv /\ NodesInv /\ ScansAgreeWithLexing /\ [Next]_vars
      => SpellingInv' /\ NodesInv'
  BY NextSpelling, NextNodes
<1>3. PolicyInvariant => StationInv BY DEF PolicyInvariant
<1>4. StationInv /\ SpellingInv /\ NodesInv => OnlyServerBuiltins
  <2> SUFFICES ASSUME StationInv, SpellingInv, NodesInv, pc = "accepted", NEW i \in DOMAIN stmt.nodes
               PROVE  IsServerBuiltin(stmt.nodes[i])
    BY DEF OnlyServerBuiltins
  <2>1. source \in Sources /\ stmt \in Statements
    BY DEF StationInv, AfterSource, AfterParse, AfterNodes, AtTables
  <2>2. "apart" \notin stmt.nodes[i].marks
    BY DEF SpellingInv, AfterScan, AfterSource, AfterParse, AfterNodes, AtTables
  <2>3. NodeCode(stmt.nodes[i]) = "none" BY DEF NodesInv, AfterNodes, AtTables
  <2> QED BY <2>1, <2>2, <2>3, NodeIsBuiltin
<1> QED BY <1>1, <1>2, <1>3, <1>4, PolicyIsInvariant, ScansAgree, PTL DEF Spec
=============================================================================
