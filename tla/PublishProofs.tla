---------------------------- MODULE PublishProofs ----------------------------
(***************************************************************************)
(* Proofs about Publish, for any number of releases, runs, moved tags and  *)
(* reruns.                                                                 *)
(***************************************************************************)
EXTENDS PublishInv, TLAPS

\* A verified alias is there: no commit is numbered 0.
LEMMA VerifiedExists ==
    ASSUME NEW r \in Releases, NEW v \in Revisions, Verified(r, v)
    PROVE  \A a \in Aliases : alias[r][a] # NoImage
  BY DEF Verified, NoImage, Revisions

\* Aliases that are only added keep what has been verified.
LEMMA VerifiedLasts ==
    ASSUME NEW r \in Releases, NEW v \in Revisions, Verified(r, v),
           \A a \in Aliases : alias[r][a] # NoImage => alias'[r][a] = alias[r][a]
    PROVE  Verified(r, v)' /\ \A a \in Aliases : alias'[r][a] = alias[r][a]
  BY VerifiedExists DEF Verified, Aliases

\* What the invariant says of a run depends on its own state, the aliases, the
\* releases and latest.
LEMMA OtherRun ==
    ASSUME NEW x \in Runs, DockerInv(x), JobInv(x), PromoteInv(x),
           pc'[x] = pc[x], job'[x] = job[x], rel'[x] = rel[x], rev'[x] = rev[x],
           seen'[x] = seen[x], image'[x] = image[x], tags'[x] = tags[x],
           view'[x] = view[x], highest'[x] = highest[x],
           alias' = alias, published' = published, latest' = latest
    PROVE  DockerInv(x)' /\ JobInv(x)' /\ PromoteInv(x)'
  BY DEF DockerInv, JobInv, PromoteInv, Promotable, Verified, IsHighest

\* What it says of the aliases and of latest depends on these and the releases.
LEMMA SameHub ==
    ASSUME \A r \in Releases : AliasInv(r), LatestIsPublished,
           alias' = alias, published' = published, latest' = latest
    PROVE  (\A r \in Releases : AliasInv(r)') /\ LatestIsPublished'
  BY DEF AliasInv, LatestIsPublished, Verified

\* What a job leaves when it ends is typed.
LEMMA ForgetTypes ==
    ASSUME NEW w \in Runs, TypeOK, Forget(w)
    PROVE  /\ seen' \in [Runs -> [Aliases -> Image \cup {NoImage}]]
           /\ image' \in [Runs -> Image \cup {NoImage}]
           /\ tags' \in [Runs -> [Releases -> Revisions]]
           /\ view' \in [Runs -> SUBSET Releases]
           /\ highest' \in [Runs -> Releases]
<1>1. 1 \in Releases /\ 1 \in Revisions
  BY NumReleasesAssumption, MaxRevisionAssumption DEF Releases, Revisions
<1>2. [a \in Aliases |-> NoImage] \in [Aliases -> Image \cup {NoImage}]
  OBVIOUS
<1>3. [r \in Releases |-> 1] \in [Releases -> Revisions]
  BY <1>1
<1>4. QED
  BY <1>1, <1>2, <1>3 DEF Forget, TypeOK

\* What a promotion has validated is the image of the highest release it lists.
LEMMA Validated ==
    ASSUME IInv, NEW w \in Runs, pc[w] \in {"compare", "advance", "confirm"}
    PROVE  image[w] # NoImage /\ image[w].rel = highest[w] /\ highest[w] \in Stable
<1>1. image[w] = alias[highest[w]]["v"] /\ image[w].rev \in Revisions
  BY DEF IInv, TypeOK, PromoteInv
<1>2. image[w] # NoImage
  BY <1>1 DEF NoImage, Revisions
<1>3. image[w].rel = highest[w]
  BY <1>1, <1>2 DEF IInv, TypeOK, AliasInv, Aliases
<1>4. highest[w] \in Stable
  BY DEF IInv, PromoteInv, IsHighest
<1>5. QED
  BY <1>2, <1>3, <1>4

\* A push writes an alias that was missing when it was inspected, and still is.
LEMMA PushAdds ==
    ASSUME IInv, NEW w \in Runs, NEW a \in Aliases, Push(w, a)
    PROVE  /\ alias[rel[w]][a] = NoImage
           /\ alias'[rel[w]] = [alias[rel[w]] EXCEPT ![a] = image[w]]
           /\ \A r \in Releases : r # rel[w] => alias'[r] = alias[r]
           /\ \A r \in Releases, c \in Aliases : alias[r][c] # NoImage => alias'[r][c] = alias[r][c]
<1>1. seen[w][a] = alias[rel[w]][a]
  BY DEF IInv, DockerInv, Push, Aliases
<1>2. rel[w] \in Releases /\ alias[rel[w]] \in [Aliases -> Image \cup {NoImage}]
  BY DEF IInv, TypeOK
<1>3. alias'[rel[w]] = [alias[rel[w]] EXCEPT ![a] = image[w]]
  BY <1>2 DEF IInv, TypeOK, Push
<1>4. \A r \in Releases : r # rel[w] => alias'[r] = alias[r]
  BY <1>2 DEF IInv, TypeOK, Push
<1>5. alias[rel[w]][a] = NoImage
  BY <1>1 DEF Push
<1>6. \A c \in Aliases : c # a => alias'[rel[w]][c] = alias[rel[w]][c]
  BY <1>2, <1>3
<1>7. QED
  BY <1>3, <1>4, <1>5, <1>6

\* So does a restored alias.
LEMMA RestoreAdds ==
    ASSUME IInv, NEW w \in Runs, NEW a \in Aliases, NEW b \in Aliases, Restore(w, a, b)
    PROVE  /\ alias[rel[w]][a] = NoImage
           /\ alias'[rel[w]] = [alias[rel[w]] EXCEPT ![a] = alias[rel[w]][b]]
           /\ \A r \in Releases : r # rel[w] => alias'[r] = alias[r]
           /\ \A r \in Releases, c \in Aliases : alias[r][c] # NoImage => alias'[r][c] = alias[r][c]
           /\ alias[rel[w]][b] # NoImage
<1>1. \A c \in Aliases : seen[w][c] = alias[rel[w]][c]
  BY DEF IInv, DockerInv, Restore, Aliases
<1>2. rel[w] \in Releases /\ alias[rel[w]] \in [Aliases -> Image \cup {NoImage}]
  BY DEF IInv, TypeOK
<1>3. alias'[rel[w]] = [alias[rel[w]] EXCEPT ![a] = alias[rel[w]][b]]
  BY <1>1, <1>2 DEF IInv, TypeOK, Restore
<1>4. \A r \in Releases : r # rel[w] => alias'[r] = alias[r]
  BY <1>2 DEF IInv, TypeOK, Restore
<1>5. alias[rel[w]][a] = NoImage /\ alias[rel[w]][b] # NoImage
  BY <1>1 DEF Restore
<1>6. \A c \in Aliases : c # a => alias'[rel[w]][c] = alias[rel[w]][c]
  BY <1>2, <1>3
<1>7. QED
  BY <1>3, <1>4, <1>5, <1>6

\* A release whose missing alias gets the image of the other stays consistent.
LEMMA AliasAdded ==
    ASSUME NEW q \in Releases, NEW a \in Aliases, AliasInv(q),
           NEW i, i.rel = q, \A c \in Aliases : alias[q][c] \in {NoImage, i},
           alias[q][a] = NoImage, alias[q] \in [Aliases -> Image \cup {NoImage}],
           alias'[q] = [alias[q] EXCEPT ![a] = i], published' = published
    PROVE  AliasInv(q)'
<1>1. \A c \in Aliases : /\ alias'[q][c] \in {NoImage, i}
                         /\ alias[q][c] # NoImage => alias'[q][c] = alias[q][c]
  OBVIOUS
<1>2. published[q] # 0 =>
        /\ \A c \in Aliases : alias'[q][c].rev = published[q] /\ alias'[q][c].rel = q
        /\ alias'[q]["v"].digest = alias'[q]["bare"].digest
  BY <1>1 DEF AliasInv, Verified, NoImage, Aliases
<1>3. QED
  BY <1>1, <1>2 DEF AliasInv, Verified, Aliases

\* The initial state satisfies the invariant.
LEMMA Start == Init => IInv
<1> SUFFICES ASSUME Init PROVE IInv
  OBVIOUS
<1>1. TypeOK
  BY NumReleasesAssumption, MaxRevisionAssumption, MaxRerunsAssumption
     DEF Init, TypeOK, Releases, Revisions, Aliases, PCs, Jobs
<1>2. GroupInv
  BY DEF Init, GroupInv, Running, Promoting
<1>3. \A r \in Releases : AliasInv(r)
  BY DEF Init, AliasInv, Aliases, Verified
<1>4. \A w \in Runs : DockerInv(w) /\ JobInv(w) /\ PromoteInv(w)
  BY DEF Init, DockerInv, JobInv, PromoteInv, Promotable
<1>5. LatestIsPublished
  BY DEF Init, LatestIsPublished
<1>6. QED
  BY <1>1, <1>2, <1>3, <1>4, <1>5 DEF IInv

\* The invariant is inductive: every step of a run, and every tag pushed or
\* moved, preserves what is known of the images, of the run and of the others.
THEOREM Inductive == IInv /\ [Next]_vars => IInv'
<1> SUFFICES ASSUME IInv, [Next]_vars PROVE IInv'
  OBVIOUS
<1> USE DEF IInv
<1>1. ASSUME NEW w \in Runs, NEW r \in Releases, Trigger(w, r) PROVE IInv'
  <2>1. TypeOK'
    BY <1>1 DEF Trigger, Goto, gitVars, hubVars, runVars, dockerVars,
       promoteVars, countVars, TypeOK, PCs, Jobs, Aliases, Running, Image,
       NoImage, Releases, Revisions, Stable, PromoteInv, AliasInv
  <2>2. GroupInv'
    BY <1>1 DEF Trigger, Goto, gitVars, hubVars, runVars, dockerVars,
       promoteVars, countVars, TypeOK, GroupInv, Running, Promoting
  <2>3. (\A q \in Releases : AliasInv(q)') /\ LatestIsPublished'
    BY <1>1, SameHub DEF Trigger, Goto, gitVars, hubVars, runVars,
       dockerVars, promoteVars, countVars
  <2>4. DockerInv(w)'
    BY <1>1 DEF Trigger, Goto, gitVars, hubVars, runVars, dockerVars,
       promoteVars, countVars, TypeOK, DockerInv, JobInv, Aliases, Running
  <2>5. JobInv(w)'
    BY <1>1 DEF Trigger, Goto, gitVars, hubVars, runVars, dockerVars,
       promoteVars, countVars, TypeOK, JobInv, DockerInv, Promotable,
       Verified, Running, Stable, AliasInv, Aliases, Jobs
  <2>6. PromoteInv(w)'
    BY <1>1 DEF Trigger, Goto, gitVars, hubVars, runVars, dockerVars,
       promoteVars, countVars, TypeOK, PromoteInv, JobInv, Promotable,
       IsHighest, Running, Verified, Stable
  <2>7. ASSUME NEW x \in Runs, x # w PROVE DockerInv(x)' /\ JobInv(x)' /\ PromoteInv(x)'
    BY <1>1, <2>7, OtherRun DEF Trigger, Goto, gitVars, hubVars, runVars,
       dockerVars, promoteVars, countVars, TypeOK
  <2>8. QED
    BY <2>1, <2>2, <2>3, <2>4, <2>5, <2>6, <2>7
<1>2. ASSUME NEW w \in Runs, Rerun(w) PROVE IInv'
  <2>1. TypeOK'
    <3>1. pc' \in [Runs -> PCs]
      BY <1>2 DEF Rerun, TypeOK, Goto, PCs
    <3>2. job' \in [Runs -> Jobs]
      BY <1>2 DEF Rerun, TypeOK, Jobs
    <3>3. reruns' \in 0..MaxReruns
      BY <1>2, MaxRerunsAssumption DEF Rerun, TypeOK
    <3>4. QED
      BY <1>2, <3>1, <3>2, <3>3 DEF Rerun, gitVars, hubVars, runVars, dockerVars,
         promoteVars, countVars, TypeOK
  <2>2. GroupInv'
    BY <1>2 DEF Rerun, Goto, gitVars, hubVars, runVars, dockerVars,
       promoteVars, countVars, TypeOK, GroupInv, Running, Promoting
  <2>3. (\A q \in Releases : AliasInv(q)') /\ LatestIsPublished'
    BY <1>2, SameHub DEF Rerun, Goto, gitVars, hubVars, runVars, dockerVars,
       promoteVars, countVars
  <2>4. DockerInv(w)'
    BY <1>2 DEF Rerun, Goto, gitVars, hubVars, runVars, dockerVars,
       promoteVars, countVars, TypeOK, DockerInv, JobInv, Aliases, Running
  <2>5. JobInv(w)'
    BY <1>2 DEF Rerun, Goto, gitVars, hubVars, runVars, dockerVars,
       promoteVars, countVars, TypeOK, JobInv, DockerInv, Promotable,
       Verified, Running, Stable, AliasInv, Aliases, Jobs
  <2>6. PromoteInv(w)'
    BY <1>2 DEF Rerun, Goto, gitVars, hubVars, runVars, dockerVars,
       promoteVars, countVars, TypeOK, PromoteInv, JobInv, Promotable,
       IsHighest, Running, Verified, Stable
  <2>7. ASSUME NEW x \in Runs, x # w PROVE DockerInv(x)' /\ JobInv(x)' /\ PromoteInv(x)'
    BY <1>2, <2>7, OtherRun DEF Rerun, Goto, gitVars, hubVars, runVars,
       dockerVars, promoteVars, countVars, TypeOK
  <2>8. QED
    BY <2>1, <2>2, <2>3, <2>4, <2>5, <2>6, <2>7
<1>3. ASSUME NEW w \in Runs, StartJob(w) PROVE IInv'
  <2>1. TypeOK'
    BY <1>3 DEF StartJob, Goto, gitVars, hubVars, runVars, dockerVars,
       promoteVars, countVars, TypeOK, PCs, Jobs, Aliases, Running, Image,
       NoImage, Releases, Revisions, Stable, PromoteInv, AliasInv
  <2>2. GroupInv'
    <3>1. pc'[w] \in {"inspectV", "release", "promote"}
      BY <1>3 DEF StartJob, Goto, TypeOK, Jobs
    <3>2. \A x \in Runs : x # w => pc'[x] = pc[x]
      BY <1>3 DEF StartJob, Goto, TypeOK
    <3>3. \A x \in Running : rel[x] # rel[w]
      BY <1>3 DEF StartJob
    <3>4. rel' = rel
      BY <1>3 DEF StartJob, runVars
    <3>5. QED
      BY <3>1, <3>2, <3>3, <3>4 DEF GroupInv, Running, Promoting
  <2>3. (\A q \in Releases : AliasInv(q)') /\ LatestIsPublished'
    BY <1>3, SameHub DEF StartJob, Goto, gitVars, hubVars, runVars,
       dockerVars, promoteVars, countVars
  <2>4. DockerInv(w)'
    BY <1>3, ZenonT(30) DEF StartJob, Goto, gitVars, hubVars, runVars, dockerVars,
       promoteVars, countVars, TypeOK, DockerInv, JobInv, Aliases, Running, Jobs
  <2>5. JobInv(w)'
    BY <1>3 DEF StartJob, Goto, gitVars, hubVars, runVars, dockerVars,
       promoteVars, countVars, TypeOK, JobInv, DockerInv, Promotable,
       Verified, Running, Stable, AliasInv, Aliases, Jobs
  <2>6. PromoteInv(w)'
    <3>1. pc'[w] \in {"inspectV", "release", "promote"}
      BY <1>3 DEF StartJob, Goto, TypeOK, Jobs
    <3>2. QED
      BY <3>1 DEF PromoteInv
  <2>7. ASSUME NEW x \in Runs, x # w PROVE DockerInv(x)' /\ JobInv(x)' /\ PromoteInv(x)'
    BY <1>3, <2>7, OtherRun DEF StartJob, Goto, gitVars, hubVars, runVars,
       dockerVars, promoteVars, countVars, TypeOK
  <2>8. QED
    BY <2>1, <2>2, <2>3, <2>4, <2>5, <2>6, <2>7
<1>4. ASSUME NEW w \in Runs, Abort(w) PROVE IInv'
  <2>1. TypeOK'
    <3>1. pc' \in [Runs -> PCs]
      BY <1>4 DEF Abort, TypeOK, Goto, PCs
    <3>2. QED
      BY <1>4, <3>1, ForgetTypes DEF Abort, gitVars, hubVars, runVars,
         dockerVars, promoteVars, countVars, TypeOK
  <2>2. GroupInv'
    BY <1>4 DEF Abort, Goto, Forget, gitVars, hubVars, runVars, dockerVars,
       promoteVars, countVars, TypeOK, GroupInv, Running, Promoting
  <2>3. (\A q \in Releases : AliasInv(q)') /\ LatestIsPublished'
    BY <1>4, SameHub DEF Abort, Goto, Forget, gitVars, hubVars, runVars,
       dockerVars, promoteVars, countVars
  <2>4. DockerInv(w)'
    BY <1>4 DEF Abort, Goto, Forget, gitVars, hubVars, runVars, dockerVars,
       promoteVars, countVars, TypeOK, DockerInv, JobInv, Aliases, Running
  <2>5. JobInv(w)'
    BY <1>4 DEF Abort, Goto, Forget, gitVars, hubVars, runVars, dockerVars,
       promoteVars, countVars, TypeOK, JobInv, DockerInv, Promotable,
       Verified, Running, Stable, AliasInv, Aliases, Jobs
  <2>6. PromoteInv(w)'
    BY <1>4 DEF Abort, Goto, Forget, gitVars, hubVars, runVars, dockerVars,
       promoteVars, countVars, TypeOK, PromoteInv, JobInv, Promotable,
       IsHighest, Running, Verified, Stable
  <2>7. ASSUME NEW x \in Runs, x # w PROVE DockerInv(x)' /\ JobInv(x)' /\ PromoteInv(x)'
    BY <1>4, <2>7, OtherRun DEF Abort, Goto, Forget, gitVars, hubVars,
       runVars, dockerVars, promoteVars, countVars, TypeOK
  <2>8. QED
    BY <2>1, <2>2, <2>3, <2>4, <2>5, <2>6, <2>7
<1>5. ASSUME NEW w \in Runs, InspectV(w) PROVE IInv'
  <2>1. TypeOK'
    <3>1. pc' \in [Runs -> PCs]
      BY <1>5 DEF InspectV, TypeOK, Goto, PCs
    <3>2. seen' \in [Runs -> [Aliases -> Image \cup {NoImage}]]
      BY <1>5 DEF InspectV, TypeOK, Aliases
    <3>3. QED
      BY <1>5, <3>1, <3>2 DEF InspectV, gitVars, hubVars, runVars,
         dockerVars, promoteVars, countVars, TypeOK
  <2>2. GroupInv'
    BY <1>5 DEF InspectV, Goto, BuiltFrom, gitVars, hubVars, runVars,
       dockerVars, promoteVars, countVars, TypeOK, GroupInv, Running,
       Promoting
  <2>3. (\A q \in Releases : AliasInv(q)') /\ LatestIsPublished'
    BY <1>5, SameHub DEF InspectV, Goto, BuiltFrom, gitVars, hubVars,
       runVars, dockerVars, promoteVars, countVars
  <2>4. DockerInv(w)'
    BY <1>5 DEF InspectV, Goto, BuiltFrom, gitVars, hubVars, runVars,
       dockerVars, promoteVars, countVars, TypeOK, DockerInv, JobInv,
       Aliases, Running
  <2>5. JobInv(w)'
    BY <1>5 DEF InspectV, Goto, BuiltFrom, gitVars, hubVars, runVars,
       dockerVars, promoteVars, countVars, TypeOK, JobInv, DockerInv,
       Promotable, Verified, Running, Stable, AliasInv, Aliases, Jobs
  <2>6. PromoteInv(w)'
    BY <1>5 DEF InspectV, Goto, BuiltFrom, gitVars, hubVars, runVars,
       dockerVars, promoteVars, countVars, TypeOK, PromoteInv, JobInv,
       Promotable, IsHighest, Running, Verified, Stable
  <2>7. ASSUME NEW x \in Runs, x # w PROVE DockerInv(x)' /\ JobInv(x)' /\ PromoteInv(x)'
    BY <1>5, <2>7, OtherRun DEF InspectV, Goto, BuiltFrom, gitVars, hubVars,
       runVars, dockerVars, promoteVars, countVars, TypeOK
  <2>8. QED
    BY <2>1, <2>2, <2>3, <2>4, <2>5, <2>6, <2>7
<1>6. ASSUME NEW w \in Runs, InspectBare(w) PROVE IInv'
  <2>1. TypeOK'
    <3>1. pc' \in [Runs -> PCs]
      BY <1>6 DEF InspectBare, TypeOK, Goto, PCs
    <3>2. seen' \in [Runs -> [Aliases -> Image \cup {NoImage}]]
      BY <1>6 DEF InspectBare, TypeOK, Aliases
    <3>3. QED
      BY <1>6, <3>1, <3>2 DEF InspectBare, gitVars, hubVars, runVars,
         dockerVars, promoteVars, countVars, TypeOK
  <2>2. GroupInv'
    BY <1>6 DEF InspectBare, Goto, BuiltFrom, gitVars, hubVars, runVars,
       dockerVars, promoteVars, countVars, TypeOK, GroupInv, Running,
       Promoting
  <2>3. (\A q \in Releases : AliasInv(q)') /\ LatestIsPublished'
    BY <1>6, SameHub DEF InspectBare, Goto, BuiltFrom, gitVars, hubVars,
       runVars, dockerVars, promoteVars, countVars
  <2>4. DockerInv(w)'
    BY <1>6 DEF InspectBare, Goto, BuiltFrom, gitVars, hubVars, runVars,
       dockerVars, promoteVars, countVars, TypeOK, DockerInv, JobInv,
       Aliases, Running
  <2>5. JobInv(w)'
    BY <1>6 DEF InspectBare, Goto, BuiltFrom, gitVars, hubVars, runVars,
       dockerVars, promoteVars, countVars, TypeOK, JobInv, DockerInv,
       Promotable, Verified, Running, Stable, AliasInv, Aliases, Jobs
  <2>6. PromoteInv(w)'
    BY <1>6 DEF InspectBare, Goto, BuiltFrom, gitVars, hubVars, runVars,
       dockerVars, promoteVars, countVars, TypeOK, PromoteInv, JobInv,
       Promotable, IsHighest, Running, Verified, Stable
  <2>7. ASSUME NEW x \in Runs, x # w PROVE DockerInv(x)' /\ JobInv(x)' /\ PromoteInv(x)'
    BY <1>6, <2>7, OtherRun DEF InspectBare, Goto, BuiltFrom, gitVars,
       hubVars, runVars, dockerVars, promoteVars, countVars, TypeOK
  <2>8. QED
    BY <2>1, <2>2, <2>3, <2>4, <2>5, <2>6, <2>7
<1>7. ASSUME NEW w \in Runs, Build(w) PROVE IInv'
  <2>1. TypeOK'
    <3>1. pc' \in [Runs -> PCs]
      BY <1>7 DEF Build, TypeOK, Goto, PCs
    <3>2. image' \in [Runs -> Image \cup {NoImage}]
      BY <1>7 DEF Build, TypeOK, Image
    <3>3. builds' \in Nat
      BY <1>7 DEF Build, TypeOK
    <3>4. QED
      BY <1>7, <3>1, <3>2, <3>3 DEF Build, gitVars, hubVars, runVars,
         dockerVars, promoteVars, countVars, TypeOK
  <2>2. GroupInv'
    BY <1>7 DEF Build, Goto, gitVars, hubVars, runVars, dockerVars,
       promoteVars, countVars, TypeOK, GroupInv, Running, Promoting
  <2>3. (\A q \in Releases : AliasInv(q)') /\ LatestIsPublished'
    BY <1>7, SameHub DEF Build, Goto, gitVars, hubVars, runVars, dockerVars,
       promoteVars, countVars
  <2>4. DockerInv(w)'
    BY <1>7 DEF Build, Goto, hubVars, runVars, TypeOK, DockerInv, Aliases,
       NoImage, Revisions
  <2>5. JobInv(w)'
    BY <1>7 DEF Build, Goto, gitVars, hubVars, runVars, dockerVars,
       promoteVars, countVars, TypeOK, JobInv, DockerInv, Promotable,
       Verified, Running, Stable, AliasInv, Aliases, Jobs
  <2>6. PromoteInv(w)'
    BY <1>7 DEF Build, Goto, gitVars, hubVars, runVars, dockerVars,
       promoteVars, countVars, TypeOK, PromoteInv, JobInv, Promotable,
       IsHighest, Running, Verified, Stable
  <2>7. ASSUME NEW x \in Runs, x # w PROVE DockerInv(x)' /\ JobInv(x)' /\ PromoteInv(x)'
    BY <1>7, <2>7, OtherRun DEF Build, Goto, gitVars, hubVars, runVars,
       dockerVars, promoteVars, countVars, TypeOK
  <2>8. QED
    BY <2>1, <2>2, <2>3, <2>4, <2>5, <2>6, <2>7
<1>8. ASSUME NEW w \in Runs, NEW a \in Aliases, Push(w, a) PROVE IInv'
  <2>1. TypeOK'
    <3>1. pc' \in [Runs -> PCs]
      BY <1>8 DEF Push, TypeOK, Goto, PCs
    <3>2. seen' \in [Runs -> [Aliases -> Image \cup {NoImage}]]
      BY <1>8 DEF Push, TypeOK
    <3>3. alias' \in [Releases -> [Aliases -> Image \cup {NoImage}]]
      BY <1>8 DEF Push, TypeOK
    <3>4. QED
      BY <1>8, <3>1, <3>2, <3>3 DEF Push, gitVars, hubVars, runVars,
         dockerVars, promoteVars, countVars, TypeOK
  <2>2. GroupInv'
    BY <1>8 DEF Push, Goto, gitVars, hubVars, runVars, dockerVars,
       promoteVars, countVars, TypeOK, GroupInv, Running, Promoting
  <2>3. \A r \in Releases, c \in Aliases : alias[r][c] # NoImage => alias'[r][c] = alias[r][c]
    BY <1>8, PushAdds
  <2>4. \A r \in Releases : r # rel[w] => alias'[r] = alias[r]
    BY <1>8, PushAdds
  <2>5. \A q \in Releases : AliasInv(q)'
    <3>1. published' = published /\ rel[w] \in Releases
      BY <1>8 DEF Push, gitVars, TypeOK
    <3>2. ASSUME NEW q \in Releases, q # rel[w] PROVE AliasInv(q)'
      BY <2>4, <3>1, <3>2 DEF AliasInv, Verified
    <3>3. image[w].rel = rel[w] /\ \A c \in Aliases : alias[rel[w]][c] \in {NoImage, image[w]}
      BY <1>8 DEF Push, DockerInv, Aliases
    <3>4. ASSUME NEW q \in Releases, q = rel[w] PROVE AliasInv(q)'
      <4>1. AliasInv(q) /\ alias[q] \in [Aliases -> Image \cup {NoImage}]
        BY DEF TypeOK
      <4>2. alias[q][a] = NoImage /\ alias'[q] = [alias[q] EXCEPT ![a] = image[w]]
        BY <1>8, <3>4, PushAdds
      <4>3. QED
        BY <3>1, <3>3, <3>4, <4>1, <4>2, AliasAdded
    <3>5. QED
      BY <3>2, <3>4
  <2>6. LatestIsPublished'
    BY <1>8, <2>3 DEF Push, Goto, gitVars, hubVars, runVars, dockerVars,
       promoteVars, countVars, TypeOK, LatestIsPublished, Image, NoImage,
       Aliases, Stable
  <2>7. DockerInv(w)'
    <3>1. seen'[w] = [seen[w] EXCEPT ![a] = image[w]] /\ image' = image /\ rel' = rel /\ rev' = rev
      BY <1>8 DEF Push, runVars, TypeOK
    <3>2. alias'[rel[w]] = [alias[rel[w]] EXCEPT ![a] = image[w]]
      BY <1>8, PushAdds
    <3>3. pc[w] = "push" /\ pc'[w] \in {"push", "verify"}
      BY <1>8 DEF Push, Goto, TypeOK
    <3>4. QED
      BY <3>1, <3>2, <3>3 DEF DockerInv, TypeOK, Aliases
  <2>8. JobInv(w)'
    BY <1>8 DEF Push, Goto, gitVars, hubVars, runVars, dockerVars,
       promoteVars, countVars, TypeOK, JobInv, Promotable
  <2>9. PromoteInv(w)'
    BY <1>8 DEF Push, Goto, gitVars, hubVars, runVars, dockerVars,
       promoteVars, countVars, TypeOK, PromoteInv, Promotable
  <2>10. ASSUME NEW x \in Runs, x # w PROVE DockerInv(x)'
    <3>1. pc'[x] = pc[x] /\ rel'[x] = rel[x] /\ rev'[x] = rev[x] /\ seen'[x] = seen[x] /\ image'[x] = image[x]
      BY <1>8, <2>10 DEF Push, Goto, runVars, TypeOK
    <3>2. pc[x] \in {"inspectBare", "build", "push", "restore"} => rel[x] # rel[w]
      BY <1>8, <2>10 DEF Push, GroupInv, Running
    <3>3. rel[x] \in Releases
      BY DEF TypeOK
    <3>4. pc[x] \in {"inspectBare", "build", "push", "restore"} => alias'[rel[x]] = alias[rel[x]]
      BY <2>4, <3>2, <3>3
    <3>5. DockerInv(x)
      OBVIOUS
    <3>6. QED
      BY <3>1, <3>4, <3>5 DEF DockerInv
  <2>11. ASSUME NEW x \in Runs, x # w PROVE JobInv(x)'
    BY <1>8, <2>11, <2>3, VerifiedLasts DEF Push, Goto, gitVars, hubVars,
       runVars, dockerVars, promoteVars, countVars, TypeOK, JobInv,
       Promotable
  <2>12. ASSUME NEW x \in Runs, x # w PROVE PromoteInv(x)'
    BY <1>8, <2>12, <2>3, SMTT(20) DEF Push, Goto, gitVars, hubVars, runVars,
       dockerVars, promoteVars, countVars, TypeOK, PromoteInv, IsHighest,
       NoImage, Revisions, Aliases
  <2>13. QED
    BY <2>1, <2>2, <2>3, <2>4, <2>5, <2>6, <2>7, <2>8, <2>9, <2>10, <2>11,
       <2>12
<1>9. ASSUME NEW w \in Runs, NEW a \in Aliases, NEW b \in Aliases, Restore(w, a, b) PROVE IInv'
  <2>1. TypeOK'
    <3>1. pc' \in [Runs -> PCs]
      BY <1>9 DEF Restore, TypeOK, Goto, PCs
    <3>2. alias' \in [Releases -> [Aliases -> Image \cup {NoImage}]]
      BY <1>9 DEF Restore, TypeOK
    <3>3. QED
      BY <1>9, <3>1, <3>2 DEF Restore, gitVars, hubVars, runVars,
         dockerVars, promoteVars, countVars, TypeOK
  <2>2. GroupInv'
    BY <1>9 DEF Restore, Goto, gitVars, hubVars, runVars, dockerVars,
       promoteVars, countVars, TypeOK, GroupInv, Running, Promoting
  <2>3. \A r \in Releases, c \in Aliases : alias[r][c] # NoImage => alias'[r][c] = alias[r][c]
    BY <1>9, RestoreAdds
  <2>4. \A r \in Releases : r # rel[w] => alias'[r] = alias[r]
    BY <1>9, RestoreAdds
  <2>5. \A q \in Releases : AliasInv(q)'
    <3>1. published' = published /\ rel[w] \in Releases
      BY <1>9 DEF Restore, gitVars, TypeOK
    <3>2. ASSUME NEW q \in Releases, q # rel[w] PROVE AliasInv(q)'
      BY <2>4, <3>1, <3>2 DEF AliasInv, Verified
    <3>3. ASSUME NEW q \in Releases, q = rel[w] PROVE AliasInv(q)'
      <4> DEFINE i == alias[q][b]
      <4>1. AliasInv(q) /\ alias[q] \in [Aliases -> Image \cup {NoImage}]
        BY DEF TypeOK
      <4>2. /\ alias[q][a] = NoImage /\ i # NoImage
            /\ alias'[q] = [alias[q] EXCEPT ![a] = i]
        BY <1>9, <3>3, RestoreAdds
      <4>3. i.rel = q /\ \A c \in Aliases : alias[q][c] \in {NoImage, i}
        BY <4>1, <4>2 DEF AliasInv, Aliases
      <4>4. QED
        BY <3>1, <4>1, <4>2, <4>3, AliasAdded
    <3>4. QED
      BY <3>2, <3>3
  <2>6. LatestIsPublished'
    BY <1>9, <2>3 DEF Restore, Goto, gitVars, hubVars, runVars, dockerVars,
       promoteVars, countVars, TypeOK, LatestIsPublished, Image, NoImage,
       Aliases, Stable
  <2>7. DockerInv(w)'
    BY <1>9 DEF Restore, Goto, gitVars, hubVars, runVars, dockerVars,
       promoteVars, countVars, TypeOK, DockerInv, JobInv, Aliases, Running
  <2>8. JobInv(w)'
    BY <1>9 DEF Restore, Goto, gitVars, hubVars, runVars, dockerVars,
       promoteVars, countVars, TypeOK, JobInv, Promotable
  <2>9. PromoteInv(w)'
    BY <1>9 DEF Restore, Goto, gitVars, hubVars, runVars, dockerVars,
       promoteVars, countVars, TypeOK, PromoteInv, Promotable
  <2>10. ASSUME NEW x \in Runs, x # w PROVE DockerInv(x)'
    <3>1. pc'[x] = pc[x] /\ UNCHANGED <<rel, rev, seen, image>>
      BY <1>9, <2>10 DEF Restore, Goto, runVars, dockerVars, TypeOK
    <3>2. x \in Running => rel[x] # rel[w]
      <4>1. w \in Running
        BY <1>9 DEF Restore, Running
      <4>2. QED
        BY <2>10, <4>1 DEF GroupInv
    <3>3. x \in Running => alias'[rel[x]] = alias[rel[x]]
      BY <2>4, <3>2 DEF TypeOK
    <3>4. DockerInv(x)
      OBVIOUS
    <3>5. QED
      BY <3>1, <3>3, <3>4 DEF DockerInv, Running
  <2>11. ASSUME NEW x \in Runs, x # w PROVE JobInv(x)'
    BY <1>9, <2>11, <2>3, VerifiedLasts DEF Restore, Goto, gitVars, hubVars,
       runVars, dockerVars, promoteVars, countVars, TypeOK, JobInv,
       Promotable
  <2>12. ASSUME NEW x \in Runs, x # w PROVE PromoteInv(x)'
    BY <1>9, <2>12, <2>3 DEF Restore, Goto, gitVars, hubVars, runVars,
       dockerVars, promoteVars, countVars, TypeOK, PromoteInv, IsHighest,
       NoImage, Revisions, Aliases
  <2>13. QED
    BY <2>1, <2>2, <2>3, <2>4, <2>5, <2>6, <2>7, <2>8, <2>9, <2>10, <2>11,
       <2>12
<1>10. ASSUME NEW w \in Runs, Verify(w) PROVE IInv'
  <2>1. TypeOK'
    <3>1. pc' \in [Runs -> PCs]
      BY <1>10 DEF Verify, TypeOK, Goto, PCs
    <3>2. job' \in [Runs -> Jobs]
      BY <1>10 DEF Verify, TypeOK, Jobs
    <3>3. QED
      BY <1>10, <3>1, <3>2, ForgetTypes DEF Verify, gitVars, hubVars,
         runVars, dockerVars, promoteVars, countVars, TypeOK
  <2>2. GroupInv'
    BY <1>10 DEF Verify, Goto, Forget, gitVars, hubVars, runVars,
       dockerVars, promoteVars, countVars, TypeOK, GroupInv, Running,
       Promoting
  <2>3. (\A q \in Releases : AliasInv(q)') /\ LatestIsPublished'
    BY <1>10, SameHub DEF Verify, Goto, Forget, gitVars, hubVars, runVars,
       dockerVars, promoteVars, countVars
  <2>4. DockerInv(w)'
    BY <1>10 DEF Verify, Goto, Forget, gitVars, hubVars, runVars,
       dockerVars, promoteVars, countVars, TypeOK, DockerInv, JobInv,
       Aliases, Running
  <2>5. JobInv(w)'
    BY <1>10 DEF Verify, Goto, Forget, gitVars, hubVars, runVars,
       dockerVars, promoteVars, countVars, TypeOK, JobInv, DockerInv,
       Promotable, Verified, Running, Stable, AliasInv, Aliases, Jobs
  <2>6. PromoteInv(w)'
    BY <1>10 DEF Verify, Goto, Forget, gitVars, hubVars, runVars,
       dockerVars, promoteVars, countVars, TypeOK, PromoteInv, JobInv,
       Promotable, IsHighest, Running, Verified, Stable
  <2>7. ASSUME NEW x \in Runs, x # w PROVE DockerInv(x)' /\ JobInv(x)' /\ PromoteInv(x)'
    BY <1>10, <2>7, OtherRun DEF Verify, Goto, Forget, gitVars, hubVars,
       runVars, dockerVars, promoteVars, countVars, TypeOK
  <2>8. QED
    BY <2>1, <2>2, <2>3, <2>4, <2>5, <2>6, <2>7
<1>11. ASSUME NEW w \in Runs, CreateRelease(w) PROVE IInv'
  <2>1. TypeOK'
    BY <1>11 DEF CreateRelease, Goto, gitVars, hubVars, runVars, dockerVars,
       promoteVars, countVars, TypeOK, PCs, Jobs, Aliases, Running, Image,
       NoImage, Releases, Revisions, Stable, PromoteInv, AliasInv
  <2>2. GroupInv'
    BY <1>11 DEF CreateRelease, Goto, gitVars, hubVars, runVars, dockerVars,
       promoteVars, countVars, TypeOK, GroupInv, Running, Promoting
  <2>3. \A q \in Releases : AliasInv(q)'
    <3>1. alias' = alias /\ published' = [published EXCEPT ![rel[w]] = rev[w]]
      BY <1>11 DEF CreateRelease, hubVars
    <3>2. Verified(rel[w], rev[w])
      BY <1>11 DEF CreateRelease, JobInv
    <3>3. QED
      BY <3>1, <3>2 DEF AliasInv, Verified, TypeOK
  <2>4. LatestIsPublished'
    BY <1>11 DEF CreateRelease, Goto, gitVars, hubVars, runVars, dockerVars,
       promoteVars, countVars, TypeOK, LatestIsPublished, Image, NoImage,
       Stable, Revisions
  <2>5. DockerInv(w)'
    BY <1>11 DEF CreateRelease, Goto, gitVars, hubVars, runVars, dockerVars,
       promoteVars, countVars, TypeOK, DockerInv
  <2>6. JobInv(w)'
    BY <1>11 DEF CreateRelease, Goto, gitVars, hubVars, runVars, dockerVars,
       promoteVars, countVars, TypeOK, JobInv, Promotable, Verified
  <2>7. PromoteInv(w)'
    BY <1>11 DEF CreateRelease, Goto, gitVars, hubVars, runVars, dockerVars,
       promoteVars, countVars, TypeOK, PromoteInv
  <2>8. ASSUME NEW x \in Runs, x # w PROVE DockerInv(x)' /\ PromoteInv(x)'
    BY <1>11, <2>8 DEF CreateRelease, Goto, gitVars, hubVars, runVars,
       dockerVars, promoteVars, countVars, TypeOK, DockerInv, PromoteInv,
       IsHighest, Revisions
  <2>9. ASSUME NEW x \in Runs, x # w PROVE JobInv(x)'
    BY <1>11, <2>9 DEF CreateRelease, Goto, gitVars, hubVars, runVars,
       dockerVars, promoteVars, countVars, TypeOK, JobInv, Promotable,
       Verified, Revisions
  <2>10. QED
    BY <2>1, <2>2, <2>3, <2>4, <2>5, <2>6, <2>7, <2>8, <2>9
<1>12. ASSUME NEW w \in Runs, VerifyRelease(w) PROVE IInv'
  <2>1. TypeOK'
    BY <1>12 DEF VerifyRelease, Goto, gitVars, hubVars, runVars, dockerVars,
       promoteVars, countVars, TypeOK, PCs, Jobs, Aliases, Running, Image,
       NoImage, Releases, Revisions, Stable, PromoteInv, AliasInv
  <2>2. GroupInv'
    BY <1>12 DEF VerifyRelease, Goto, gitVars, hubVars, runVars, dockerVars,
       promoteVars, countVars, TypeOK, GroupInv, Running, Promoting
  <2>3. (\A q \in Releases : AliasInv(q)') /\ LatestIsPublished'
    BY <1>12, SameHub DEF VerifyRelease, Goto, gitVars, hubVars, runVars,
       dockerVars, promoteVars, countVars
  <2>4. DockerInv(w)'
    BY <1>12 DEF VerifyRelease, Goto, gitVars, hubVars, runVars, dockerVars,
       promoteVars, countVars, TypeOK, DockerInv, JobInv, Aliases, Running
  <2>5. JobInv(w)'
    BY <1>12 DEF VerifyRelease, Goto, gitVars, hubVars, runVars, dockerVars,
       promoteVars, countVars, TypeOK, JobInv, DockerInv, Promotable,
       Verified, Running, Stable, AliasInv, Aliases, Jobs
  <2>6. PromoteInv(w)'
    BY <1>12 DEF VerifyRelease, Goto, gitVars, hubVars, runVars, dockerVars,
       promoteVars, countVars, TypeOK, PromoteInv, JobInv, Promotable,
       IsHighest, Running, Verified, Stable
  <2>7. ASSUME NEW x \in Runs, x # w PROVE DockerInv(x)' /\ JobInv(x)' /\ PromoteInv(x)'
    BY <1>12, <2>7, OtherRun DEF VerifyRelease, Goto, gitVars, hubVars,
       runVars, dockerVars, promoteVars, countVars, TypeOK
  <2>8. QED
    BY <2>1, <2>2, <2>3, <2>4, <2>5, <2>6, <2>7
<1>13. ASSUME NEW w \in Runs, ReleaseEnds(w) PROVE IInv'
  <2>1. TypeOK'
    <3>1. pc' \in [Runs -> PCs]
      <4>1. pc \in [Runs -> PCs]
        BY DEF TypeOK
      <4>2. \E p \in {"promote", "done"} : pc' = [pc EXCEPT ![w] = p]
        BY <1>13 DEF ReleaseEnds, Goto
      <4>3. QED
        BY <4>1, <4>2 DEF PCs
    <3>2. job' \in [Runs -> Jobs]
      BY <1>13 DEF ReleaseEnds, TypeOK, Jobs
    <3>3. UNCHANGED <<gitVars, hubVars, rel, rev, dockerVars, promoteVars, countVars>>
      BY <1>13 DEF ReleaseEnds
    <3>4. QED
      BY <3>1, <3>2, <3>3 DEF gitVars, hubVars, dockerVars, promoteVars, countVars, TypeOK
  <2>2. GroupInv'
    BY <1>13, ZenonT(30) DEF ReleaseEnds, Goto, gitVars, hubVars, runVars, dockerVars,
       promoteVars, countVars, TypeOK, GroupInv, Running, Promoting
  <2>3. (\A q \in Releases : AliasInv(q)') /\ LatestIsPublished'
    BY <1>13, SameHub DEF ReleaseEnds, Goto, gitVars, hubVars, runVars,
       dockerVars, promoteVars, countVars
  <2>4. DockerInv(w)'
    BY <1>13 DEF ReleaseEnds, Goto, gitVars, hubVars, runVars, dockerVars,
       promoteVars, countVars, TypeOK, DockerInv, JobInv, Aliases, Running
  <2>5. JobInv(w)'
    BY <1>13 DEF ReleaseEnds, Goto, gitVars, hubVars, runVars, dockerVars,
       promoteVars, countVars, TypeOK, JobInv, DockerInv, Promotable,
       Verified, Running, Stable, AliasInv, Aliases, Jobs
  <2>6. PromoteInv(w)'
    BY <1>13 DEF ReleaseEnds, Goto, gitVars, hubVars, runVars, dockerVars,
       promoteVars, countVars, TypeOK, PromoteInv, JobInv, Promotable,
       IsHighest, Running, Verified, Stable
  <2>7. ASSUME NEW x \in Runs, x # w PROVE DockerInv(x)' /\ JobInv(x)' /\ PromoteInv(x)'
    BY <1>13, <2>7, OtherRun DEF ReleaseEnds, Goto, gitVars, hubVars,
       runVars, dockerVars, promoteVars, countVars, TypeOK
  <2>8. QED
    BY <2>1, <2>2, <2>3, <2>4, <2>5, <2>6, <2>7
<1>14. ASSUME NEW w \in Runs, StartPromote(w) PROVE IInv'
  <2>1. TypeOK'
    BY <1>14 DEF StartPromote, Goto, gitVars, hubVars, runVars, dockerVars,
       promoteVars, countVars, TypeOK, PCs, Jobs, Aliases, Running, Image,
       NoImage, Releases, Revisions, Stable, PromoteInv, AliasInv
  <2>2. GroupInv'
    BY <1>14 DEF StartPromote, Goto, gitVars, hubVars, runVars, dockerVars,
       promoteVars, countVars, TypeOK, GroupInv, Running, Promoting
  <2>3. (\A q \in Releases : AliasInv(q)') /\ LatestIsPublished'
    BY <1>14, SameHub DEF StartPromote, Goto, gitVars, hubVars, runVars,
       dockerVars, promoteVars, countVars
  <2>4. DockerInv(w)'
    BY <1>14 DEF StartPromote, Goto, gitVars, hubVars, runVars, dockerVars,
       promoteVars, countVars, TypeOK, DockerInv, JobInv, Aliases, Running
  <2>5. JobInv(w)'
    BY <1>14 DEF StartPromote, Goto, gitVars, hubVars, runVars, dockerVars,
       promoteVars, countVars, TypeOK, JobInv, DockerInv, Promotable,
       Verified, Running, Stable, AliasInv, Aliases, Jobs
  <2>6. PromoteInv(w)'
    BY <1>14 DEF StartPromote, Goto, gitVars, hubVars, runVars, dockerVars,
       promoteVars, countVars, TypeOK, PromoteInv, JobInv, Promotable,
       IsHighest, Running, Verified, Stable
  <2>7. ASSUME NEW x \in Runs, x # w PROVE DockerInv(x)' /\ JobInv(x)' /\ PromoteInv(x)'
    BY <1>14, <2>7, OtherRun DEF StartPromote, Goto, gitVars, hubVars,
       runVars, dockerVars, promoteVars, countVars, TypeOK
  <2>8. QED
    BY <2>1, <2>2, <2>3, <2>4, <2>5, <2>6, <2>7
<1>15. ASSUME NEW w \in Runs, ListReleases(w) PROVE IInv'
  <2>1. TypeOK'
    <3>1. pc' \in [Runs -> PCs]
      BY <1>15 DEF ListReleases, TypeOK, Goto, PCs
    <3>2. view' \in [Runs -> SUBSET Releases] /\ highest' \in [Runs -> Releases]
      BY <1>15 DEF ListReleases, TypeOK, Stable
    <3>3. QED
      BY <1>15, <3>1, <3>2 DEF ListReleases, gitVars, hubVars, runVars,
         dockerVars, promoteVars, countVars, TypeOK
  <2>2. GroupInv'
    BY <1>15 DEF ListReleases, Goto, gitVars, hubVars, runVars, dockerVars,
       promoteVars, countVars, TypeOK, GroupInv, Running, Promoting
  <2>3. (\A q \in Releases : AliasInv(q)') /\ LatestIsPublished'
    BY <1>15, SameHub DEF ListReleases, Goto, gitVars, hubVars, runVars,
       dockerVars, promoteVars, countVars
  <2>4. DockerInv(w)'
    BY <1>15 DEF ListReleases, Goto, gitVars, hubVars, runVars, dockerVars,
       promoteVars, countVars, TypeOK, DockerInv, JobInv, Aliases, Running
  <2>5. JobInv(w)'
    BY <1>15 DEF ListReleases, Goto, gitVars, hubVars, runVars, dockerVars,
       promoteVars, countVars, TypeOK, JobInv, DockerInv, Promotable,
       Verified, Running, Stable, AliasInv, Aliases, Jobs
  <2>6. PromoteInv(w)'
    BY <1>15 DEF ListReleases, Goto, gitVars, hubVars, runVars, dockerVars,
       promoteVars, countVars, TypeOK, PromoteInv, JobInv, Promotable,
       IsHighest, Running, Verified, Stable
  <2>7. ASSUME NEW x \in Runs, x # w PROVE DockerInv(x)' /\ JobInv(x)' /\ PromoteInv(x)'
    BY <1>15, <2>7, OtherRun DEF ListReleases, Goto, gitVars, hubVars,
       runVars, dockerVars, promoteVars, countVars, TypeOK
  <2>8. QED
    BY <2>1, <2>2, <2>3, <2>4, <2>5, <2>6, <2>7
<1>16. ASSUME NEW w \in Runs, ValidateHighest(w) PROVE IInv'
  <2>1. TypeOK'
    <3>1. pc' \in [Runs -> PCs]
      BY <1>16 DEF ValidateHighest, TypeOK, Goto, PCs
    <3>2. image' \in [Runs -> Image \cup {NoImage}]
      BY <1>16 DEF ValidateHighest, TypeOK, Aliases
    <3>3. QED
      BY <1>16, <3>1, <3>2 DEF ValidateHighest, gitVars, hubVars, runVars,
         dockerVars, promoteVars, countVars, TypeOK
  <2>2. GroupInv'
    BY <1>16 DEF ValidateHighest, Goto, gitVars, hubVars, runVars,
       dockerVars, promoteVars, countVars, TypeOK, GroupInv, Running,
       Promoting
  <2>3. (\A q \in Releases : AliasInv(q)') /\ LatestIsPublished'
    BY <1>16, SameHub DEF ValidateHighest, Goto, gitVars, hubVars, runVars,
       dockerVars, promoteVars, countVars
  <2>4. DockerInv(w)'
    BY <1>16 DEF ValidateHighest, Goto, gitVars, hubVars, runVars,
       dockerVars, promoteVars, countVars, TypeOK, DockerInv, JobInv,
       Aliases, Running
  <2>5. JobInv(w)'
    BY <1>16 DEF ValidateHighest, Goto, gitVars, hubVars, runVars,
       dockerVars, promoteVars, countVars, TypeOK, JobInv, DockerInv,
       Promotable, Verified, Running, Stable, AliasInv, Aliases, Jobs
  <2>6. PromoteInv(w)'
    BY <1>16 DEF ValidateHighest, Goto, gitVars, hubVars, runVars,
       promoteVars, TypeOK, PromoteInv, IsHighest, Verified, Aliases
  <2>7. ASSUME NEW x \in Runs, x # w PROVE DockerInv(x)' /\ JobInv(x)' /\ PromoteInv(x)'
    BY <1>16, <2>7, OtherRun DEF ValidateHighest, Goto, gitVars, hubVars,
       runVars, dockerVars, promoteVars, countVars, TypeOK
  <2>8. QED
    BY <2>1, <2>2, <2>3, <2>4, <2>5, <2>6, <2>7
<1>17. ASSUME NEW w \in Runs, NeedsAdvance(w) PROVE IInv'
  <2>1. TypeOK'
    BY <1>17 DEF NeedsAdvance, Goto, gitVars, hubVars, runVars, dockerVars,
       promoteVars, countVars, TypeOK, PCs, Jobs, Aliases, Running, Image,
       NoImage, Releases, Revisions, Stable, PromoteInv, AliasInv
  <2>2. GroupInv'
    BY <1>17 DEF NeedsAdvance, Goto, gitVars, hubVars, runVars, dockerVars,
       promoteVars, countVars, TypeOK, GroupInv, Running, Promoting
  <2>3. (\A q \in Releases : AliasInv(q)') /\ LatestIsPublished'
    BY <1>17, SameHub DEF NeedsAdvance, Goto, gitVars, hubVars, runVars,
       dockerVars, promoteVars, countVars
  <2>4. DockerInv(w)'
    BY <1>17 DEF NeedsAdvance, Goto, gitVars, hubVars, runVars, dockerVars,
       promoteVars, countVars, TypeOK, DockerInv, JobInv, Aliases, Running
  <2>5. JobInv(w)'
    BY <1>17 DEF NeedsAdvance, Goto, gitVars, hubVars, runVars, dockerVars,
       promoteVars, countVars, TypeOK, JobInv, DockerInv, Promotable,
       Verified, Running, Stable, AliasInv, Aliases, Jobs
  <2>6. PromoteInv(w)'
    BY <1>17 DEF NeedsAdvance, Goto, gitVars, hubVars, runVars, dockerVars,
       promoteVars, countVars, TypeOK, PromoteInv, JobInv, Promotable,
       IsHighest, Running, Verified, Stable
  <2>7. ASSUME NEW x \in Runs, x # w PROVE DockerInv(x)' /\ JobInv(x)' /\ PromoteInv(x)'
    BY <1>17, <2>7, OtherRun DEF NeedsAdvance, Goto, gitVars, hubVars,
       runVars, dockerVars, promoteVars, countVars, TypeOK
  <2>8. QED
    BY <2>1, <2>2, <2>3, <2>4, <2>5, <2>6, <2>7
<1>18. ASSUME NEW w \in Runs, AlreadyLatest(w) PROVE IInv'
  <2>1. TypeOK'
    <3>1. pc' \in [Runs -> PCs]
      BY <1>18 DEF AlreadyLatest, TypeOK, Goto, PCs
    <3>2. QED
      BY <1>18, <3>1, ForgetTypes DEF AlreadyLatest, gitVars, hubVars,
         runVars, dockerVars, promoteVars, countVars, TypeOK
  <2>2. GroupInv'
    BY <1>18 DEF AlreadyLatest, Goto, Forget, gitVars, hubVars, runVars,
       dockerVars, promoteVars, countVars, TypeOK, GroupInv, Running,
       Promoting
  <2>3. (\A q \in Releases : AliasInv(q)') /\ LatestIsPublished'
    BY <1>18, SameHub DEF AlreadyLatest, Goto, Forget, gitVars, hubVars,
       runVars, dockerVars, promoteVars, countVars
  <2>4. DockerInv(w)'
    BY <1>18 DEF AlreadyLatest, Goto, Forget, gitVars, hubVars, runVars,
       dockerVars, promoteVars, countVars, TypeOK, DockerInv, JobInv,
       Aliases, Running
  <2>5. JobInv(w)'
    BY <1>18 DEF AlreadyLatest, Goto, Forget, gitVars, hubVars, runVars,
       dockerVars, promoteVars, countVars, TypeOK, JobInv, DockerInv,
       Promotable, Verified, Running, Stable, AliasInv, Aliases, Jobs
  <2>6. PromoteInv(w)'
    BY <1>18 DEF AlreadyLatest, Goto, Forget, gitVars, hubVars, runVars,
       dockerVars, promoteVars, countVars, TypeOK, PromoteInv, JobInv,
       Promotable, IsHighest, Running, Verified, Stable
  <2>7. ASSUME NEW x \in Runs, x # w PROVE DockerInv(x)' /\ JobInv(x)' /\ PromoteInv(x)'
    BY <1>18, <2>7, OtherRun DEF AlreadyLatest, Goto, Forget, gitVars,
       hubVars, runVars, dockerVars, promoteVars, countVars, TypeOK
  <2>8. QED
    BY <2>1, <2>2, <2>3, <2>4, <2>5, <2>6, <2>7
<1>19. ASSUME NEW w \in Runs, Advance(w) PROVE IInv'
  <2>1. TypeOK'
    <3>1. pc' \in [Runs -> PCs]
      BY <1>19 DEF Advance, TypeOK, Goto, PCs
    <3>2. latest' \in Image \cup {NoImage} /\ latest'.rel \in Stable
      BY <1>19, Validated DEF Advance, TypeOK
    <3>3. QED
      BY <1>19, <3>1, <3>2 DEF Advance, gitVars, hubVars, runVars,
         dockerVars, promoteVars, countVars, TypeOK
  <2>2. GroupInv'
    BY <1>19 DEF Advance, Goto, gitVars, hubVars, runVars, dockerVars,
       promoteVars, countVars, TypeOK, GroupInv, Running, Promoting
  <2>3. \A q \in Releases : AliasInv(q)'
    BY <1>19 DEF Advance, Goto, gitVars, hubVars, runVars, dockerVars,
       promoteVars, countVars, TypeOK, AliasInv, Verified
  <2>4. LatestIsPublished'
    BY <1>19 DEF Advance, Goto, gitVars, hubVars, runVars, dockerVars,
       promoteVars, countVars, TypeOK, LatestIsPublished, PromoteInv,
       AliasInv, Verified, Image, NoImage, Revisions, Aliases, IsHighest
  <2>5. DockerInv(w)'
    BY <1>19 DEF Advance, Goto, gitVars, hubVars, runVars, dockerVars,
       promoteVars, countVars, TypeOK, DockerInv
  <2>6. JobInv(w)'
    BY <1>19 DEF Advance, Goto, gitVars, hubVars, runVars, dockerVars,
       promoteVars, countVars, TypeOK, JobInv, Promotable, Verified
  <2>7. PromoteInv(w)'
    BY <1>19 DEF Advance, Goto, gitVars, hubVars, runVars, dockerVars,
       promoteVars, countVars, TypeOK, PromoteInv, IsHighest
  <2>8. ASSUME NEW x \in Runs, x # w PROVE DockerInv(x)' /\ JobInv(x)'
    BY <1>19, <2>8 DEF Advance, Goto, gitVars, hubVars, runVars, dockerVars,
       promoteVars, countVars, TypeOK, DockerInv, JobInv, Promotable,
       Verified
  <2>9. ASSUME NEW x \in Runs, x # w PROVE PromoteInv(x)'
    <3>1. x \notin Promoting
      BY <1>19, <2>9 DEF Advance, GroupInv, Promoting
    <3>2. latest'.rel = highest[w]
      BY <1>19, Validated DEF Advance
    <3>3. pc[x] = "done" /\ rel[x] \in Stable => latest'.rel >= rel[x]
      <4> HAVE pc[x] = "done" /\ rel[x] \in Stable
      <4>1. latest.rel >= rel[x] /\ rel[x] \in Nat \ {0} /\ highest[w] \in Nat
        BY DEF PromoteInv, TypeOK, Stable, Releases
      <4>2. latest # NoImage
        BY <4>1 DEF NoImage
      <4>3. latest.rel < highest[w] /\ latest.rel \in Nat
        BY <1>19, <4>2 DEF Advance, PromoteInv, TypeOK, Stable, Releases
      <4>4. QED
        BY <3>2, <4>1, <4>3
    <3>4. pc'[x] = pc[x] /\ rel' = rel
      BY <1>19, <2>9 DEF Advance, Goto, runVars, TypeOK
    <3>5. QED
      BY <3>1, <3>3, <3>4 DEF PromoteInv, Promoting
  <2>10. QED
    BY <2>1, <2>2, <2>3, <2>4, <2>5, <2>6, <2>7, <2>8, <2>9
<1>20. ASSUME NEW w \in Runs, Confirm(w) PROVE IInv'
  <2>1. TypeOK'
    <3>1. pc' \in [Runs -> PCs]
      BY <1>20 DEF Confirm, TypeOK, Goto, PCs
    <3>2. QED
      BY <1>20, <3>1, ForgetTypes DEF Confirm, gitVars, hubVars, runVars,
         dockerVars, promoteVars, countVars, TypeOK
  <2>2. GroupInv'
    BY <1>20 DEF Confirm, Goto, Forget, gitVars, hubVars, runVars,
       dockerVars, promoteVars, countVars, TypeOK, GroupInv, Running,
       Promoting
  <2>3. (\A q \in Releases : AliasInv(q)') /\ LatestIsPublished'
    BY <1>20, SameHub DEF Confirm, Goto, Forget, gitVars, hubVars, runVars,
       dockerVars, promoteVars, countVars
  <2>4. DockerInv(w)'
    BY <1>20 DEF Confirm, Goto, Forget, gitVars, hubVars, runVars,
       dockerVars, promoteVars, countVars, TypeOK, DockerInv, JobInv,
       Aliases, Running
  <2>5. JobInv(w)'
    BY <1>20 DEF Confirm, Goto, Forget, gitVars, hubVars, runVars,
       dockerVars, promoteVars, countVars, TypeOK, JobInv, DockerInv,
       Promotable, Verified, Running, Stable, AliasInv, Aliases, Jobs
  <2>6. PromoteInv(w)'
    BY <1>20 DEF Confirm, Goto, Forget, gitVars, hubVars, runVars,
       dockerVars, promoteVars, countVars, TypeOK, PromoteInv, JobInv,
       Promotable, IsHighest, Running, Verified, Stable
  <2>7. ASSUME NEW x \in Runs, x # w PROVE DockerInv(x)' /\ JobInv(x)' /\ PromoteInv(x)'
    BY <1>20, <2>7, OtherRun DEF Confirm, Goto, Forget, gitVars, hubVars,
       runVars, dockerVars, promoteVars, countVars, TypeOK
  <2>8. QED
    BY <2>1, <2>2, <2>3, <2>4, <2>5, <2>6, <2>7
<1>21. ASSUME NEW r \in Releases, Retag(r) PROVE IInv'
  <2>1. TypeOK'
    BY <1>21, MaxRevisionAssumption DEF Retag, TypeOK, Revisions, hubVars, runVars, dockerVars,
       promoteVars, countVars
  <2>2. GroupInv'
    BY <1>21 DEF Retag, GroupInv, Running, Promoting, runVars
  <2>3. (\A s \in Releases : AliasInv(s)') /\ LatestIsPublished'
    BY <1>21, SameHub DEF Retag, hubVars
  <2>4. ASSUME NEW x \in Runs PROVE DockerInv(x)' /\ JobInv(x)' /\ PromoteInv(x)'
    BY <1>21, <2>4, OtherRun DEF Retag, hubVars, runVars, dockerVars, promoteVars
  <2>5. QED
    BY <2>1, <2>2, <2>3, <2>4
<1>22. CASE UNCHANGED vars
  <2>1. TypeOK' /\ GroupInv'
    BY <1>22 DEF vars, gitVars, hubVars, runVars, dockerVars, promoteVars,
       countVars, TypeOK, GroupInv, Running, Promoting
  <2>2. (\A s \in Releases : AliasInv(s)') /\ LatestIsPublished'
    BY <1>22, SameHub DEF vars, gitVars, hubVars
  <2>3. ASSUME NEW x \in Runs PROVE DockerInv(x)' /\ JobInv(x)' /\ PromoteInv(x)'
    BY <1>22, <2>3, OtherRun DEF vars, gitVars, hubVars, runVars, dockerVars,
       promoteVars
  <2>4. QED
    BY <2>1, <2>2, <2>3
<1>23. QED
  BY <1>1, <1>2, <1>3, <1>4, <1>5, <1>6, <1>7, <1>8, <1>9, <1>10, <1>11,
     <1>12, <1>13, <1>14, <1>15, <1>16, <1>17, <1>18, <1>19, <1>20, <1>21,
     <1>22 DEF Next, RunStep, DockerStep, ReleaseStep, PromoteStep

\* The invariant holds in every reachable state.
THEOREM Invariance == Spec => []IInv
<1>1. QED
  BY Start, Inductive, PTL DEF Spec

\* The types, and that only stable releases become latest, hold throughout.
THEOREM TypeCorrect == Spec => []TypeOK
<1>1. IInv => TypeOK
  BY DEF IInv
<1>2. QED
  BY <1>1, Invariance, PTL

\* No release is published without both aliases of its one image.
THEOREM ReleasesComplete == Spec => []PublishedIsComplete
<1>1. IInv => PublishedIsComplete
  BY DEF IInv, AliasInv, PublishedIsComplete
<1>2. QED
  BY <1>1, Invariance, PTL

\* latest is always the image of a published stable release.
THEOREM LatestOfficial == Spec => []LatestIsPublished
<1>1. IInv => LatestIsPublished
  BY DEF IInv
<1>2. QED
  BY <1>1, Invariance, PTL

\* A run that ends well has promoted its release, or a higher one was.
THEOREM SuccessPromotes == Spec => []SucceededIsPromoted
<1>1. IInv => SucceededIsPromoted
  BY DEF IInv, PromoteInv, SucceededIsPromoted
<1>2. QED
  BY <1>1, Invariance, PTL

\* Aliases are written by the jobs that have found them missing, and nobody
\* else holds the group of their tag since.
THEOREM AliasesNeverMove == Spec => AliasesImmutable
<1>1. IInv /\ [Next]_vars =>
        [\A r \in Releases, a \in Aliases :
            alias[r][a] # NoImage => alias'[r][a] = alias[r][a]]_vars
  <2> SUFFICES ASSUME IInv, Next, NEW r \in Releases, NEW a \in Aliases,
                      alias[r][a] # NoImage
               PROVE  alias'[r][a] = alias[r][a]
    OBVIOUS
  <2>1. ASSUME NEW w \in Runs, NEW b \in Aliases, Push(w, b) PROVE alias'[r][a] = alias[r][a]
    BY <2>1, PushAdds
  <2>2. ASSUME NEW w \in Runs, NEW b \in Aliases, NEW c \in Aliases, Restore(w, b, c)
        PROVE  alias'[r][a] = alias[r][a]
    BY <2>2, RestoreAdds
  <2>3. CASE UNCHANGED alias
    BY <2>3
  <2>4. QED
    BY <2>1, <2>2, <2>3, ZenonT(30) DEF Next, RunStep, DockerStep, ReleaseStep, PromoteStep,
       Trigger, Rerun, Retag, StartJob, Abort, InspectV, InspectBare, Build,
       Verify, CreateRelease, VerifyRelease, ReleaseEnds, StartPromote,
       ListReleases, ValidateHighest, NeedsAdvance, AlreadyLatest, Advance,
       Confirm, hubVars
<1>2. QED
  BY <1>1, Invariance, PTL DEF Spec, AliasesImmutable

\* The promotion that moves latest has found it lower, and nobody has moved it
\* since.
THEOREM LatestNeverFallsBack == Spec => LatestMovesForward
<1>1. IInv /\ [Next]_vars =>
        [latest # NoImage => latest' = latest \/ latest'.rel > latest.rel]_vars
  <2> SUFFICES ASSUME IInv, Next, latest # NoImage
               PROVE  latest' = latest \/ latest'.rel > latest.rel
    OBVIOUS
  <2>1. ASSUME NEW w \in Runs, Advance(w) PROVE latest'.rel > latest.rel
    <3>1. /\ latest' = alias[highest[w]]["v"]
          /\ latest.rel < highest[w]
          /\ alias[highest[w]]["v"].rev = tags[w][highest[w]]
      BY <2>1 DEF IInv, PromoteInv, Advance
    <3>2. alias[highest[w]]["v"].rel = highest[w]
      BY <3>1 DEF IInv, TypeOK, AliasInv, Aliases, NoImage, Revisions
    <3>3. latest.rel \in Nat /\ highest[w] \in Nat
      BY DEF IInv, TypeOK, Stable, Releases
    <3>4. QED
      BY <3>1, <3>2, <3>3
  <2>2. CASE UNCHANGED latest
    BY <2>2
  <2>3. QED
    BY <2>1, <2>2, ZenonT(30) DEF Next, RunStep, DockerStep, ReleaseStep, PromoteStep,
       Trigger, Rerun, Retag, StartJob, Abort, InspectV, InspectBare, Build,
       Push, Restore, Verify, CreateRelease, VerifyRelease, ReleaseEnds,
       StartPromote, ListReleases, ValidateHighest, NeedsAdvance,
       AlreadyLatest, Confirm, hubVars
<1>2. QED
  BY <1>1, Invariance, PTL DEF Spec, LatestMovesForward
=============================================================================
