------------------------------- MODULE Publish -------------------------------
(***************************************************************************)
(* Publishing a release: .github/workflows/release.yml and its scripts     *)
(* verify-docker-release.sh and promote-docker-latest.sh.                  *)
(*                                                                         *)
(* Pushing a version tag starts a run of the workflow. Its jobs publish    *)
(* the Docker image under two immutable aliases, v1.2.3 and 1.2.3, create  *)
(* the GitHub Release, and move the Docker tag latest to the highest       *)
(* stable release. A run may fail at every step, be run again from any job *)
(* it reached, and meet a tag that was moved to another commit; runs for   *)
(* the same tag are serialised by GitHub, runs for different tags only     *)
(* while they move latest. Docker Hub and GitHub are external.             *)
(***************************************************************************)
EXTENDS Naturals

CONSTANTS
    NumReleases,   \* the version tags, numbered in the order of their versions
    Prereleases,   \* those that are not stable
    Runs,          \* the runs of the workflow
    MaxRevision,   \* bounds how often a tag is moved
    MaxReruns      \* bounds how often runs are run again

Releases == 1..NumReleases
Revisions == 1..MaxRevision
Stable == Releases \ Prereleases

ASSUME NumReleasesAssumption == NumReleases \in Nat \ {0}
ASSUME PrereleasesAssumption == Prereleases \subseteq Releases
ASSUME MaxRevisionAssumption == MaxRevision \in Nat \ {0}
ASSUME MaxRerunsAssumption == MaxReruns \in Nat

VARIABLES
    head,       \* the commit each version tag names
    alias,      \* the image each alias of a release names
    published,  \* the commit each GitHub Release was built from, 0 if none
    latest,     \* the image latest names
    pc,         \* where each run is
    job,        \* the job a run is in, waits for or failed in
    rel,        \* the tag a run was started for
    rev,        \* the commit it publishes (GITHUB_SHA)
    seen,       \* what it has found, or pushed, under each alias
    image,      \* the image it has built, restores, or promotes
    tags,       \* the version tags as its promotion has fetched them
    view,       \* the stable releases its promotion has listed
    highest,    \* the highest of them
    builds,     \* how many images were built
    reruns      \* how many times a run was run again

hubVars == <<alias, latest>>
gitVars == <<head, published>>
runVars == <<job, rel, rev>>
dockerVars == <<seen, image>>
promoteVars == <<tags, view, highest>>
countVars == <<builds, reruns>>
vars == <<gitVars, hubVars, pc, runVars, dockerVars, promoteVars, countVars>>

Aliases == {"v", "bare"}
Jobs == {"docker", "release", "promote"}

\* A digest names one build; rel and rev are the annotations of the image.
Image == [rel : Releases, rev : Revisions, digest : Nat \ {0}]
NoImage == [rel |-> 0, rev |-> 0, digest |-> 0]

-----------------------------------------------------------------------------
Init ==
    /\ head = [r \in Releases |-> 1]
    /\ alias = [r \in Releases |-> [a \in Aliases |-> NoImage]]
    /\ published = [r \in Releases |-> 0]
    /\ latest = NoImage
    /\ pc = [w \in Runs |-> "idle"]
    /\ job = [w \in Runs |-> "docker"]
    /\ rel = [w \in Runs |-> 1]
    /\ rev = [w \in Runs |-> 1]
    /\ seen = [w \in Runs |-> [a \in Aliases |-> NoImage]]
    /\ image = [w \in Runs |-> NoImage]
    /\ tags = [w \in Runs |-> [r \in Releases |-> 1]]
    /\ view = [w \in Runs |-> {}]
    /\ highest = [w \in Runs |-> 1]
    /\ builds = 0
    /\ reruns = 0

Goto(w, p) == pc' = [pc EXCEPT ![w] = p]

\* The runs that hold the concurrency group of their tag, and those that hold
\* the one of latest.
Promoting == {w \in Runs : pc[w] \in {"list", "validate", "compare", "advance", "confirm"}}
Running == {w \in Runs : pc[w] \notin {"idle", "queued", "failed", "done"}}

\* The image an alias must have to be reused by, or verified for, a commit.
BuiltFrom(i, v) == i # NoImage => i.rev = v

IsHighest(h, S) == h \in S /\ \A r \in S : r <= h

\* A job that ends takes its variables and its files with it.
Forget(w) ==
    /\ seen' = [seen EXCEPT ![w] = [a \in Aliases |-> NoImage]]
    /\ image' = [image EXCEPT ![w] = NoImage]
    /\ tags' = [tags EXCEPT ![w] = [r \in Releases |-> 1]]
    /\ view' = [view EXCEPT ![w] = {}]
    /\ highest' = [highest EXCEPT ![w] = 1]

-----------------------------------------------------------------------------
(* Faults: actions as a plausible mistake would have them. No specification  *)
(* uses them; each breaks a property stated below when it replaces the       *)
(* action it is named after.                                                 *)

\* The jobs do not wait for each other.
StartJobUnordered(w) ==
    /\ pc[w] = "queued"
    /\ \A x \in Running : rel[x] # rel[w]
    /\ \E p \in {"inspectV", "release"} : Goto(w, p)
    /\ UNCHANGED <<gitVars, hubVars, runVars, dockerVars, promoteVars, countVars>>

\* An error of the registry is taken for a missing alias.
InspectVFailOpen(w) ==
    /\ pc[w] = "inspectV"
    /\ \E i \in {alias[rel[w]]["v"], NoImage} :
          /\ BuiltFrom(i, rev[w])
          /\ seen' = [seen EXCEPT ![w]["v"] = i]
    /\ Goto(w, "inspectBare")
    /\ UNCHANGED <<gitVars, hubVars, runVars, image, promoteVars, countVars>>

\* The promotion runs outside its concurrency group.
StartPromoteUnlocked(w) ==
    /\ pc[w] = "promote"
    /\ tags' = [tags EXCEPT ![w] = head]
    /\ Goto(w, "list")
    /\ UNCHANGED <<gitVars, hubVars, runVars, dockerVars, view, highest, countVars>>

\* Releases are inferred from the version tags.
ListTags(w) ==
    /\ pc[w] = "list"
    /\ \E S \in SUBSET Stable, h \in Stable :
          /\ rel[w] \in S
          /\ IsHighest(h, S)
          /\ view' = [view EXCEPT ![w] = S]
          /\ highest' = [highest EXCEPT ![w] = h]
    /\ Goto(w, "validate")
    /\ UNCHANGED <<gitVars, hubVars, runVars, dockerVars, tags, countVars>>

\* The list is used although the release just published is not on it.
ListLagging(w) ==
    /\ pc[w] = "list"
    /\ \E S \in SUBSET {r \in Stable : published[r] # 0}, h \in Stable :
          /\ IsHighest(h, S)
          /\ view' = [view EXCEPT ![w] = S]
          /\ highest' = [highest EXCEPT ![w] = h]
    /\ Goto(w, "validate")
    /\ UNCHANGED <<gitVars, hubVars, runVars, dockerVars, tags, countVars>>

-----------------------------------------------------------------------------
(* The maintainers. *)

\* A version tag is pushed.
Trigger(w, r) ==
    /\ pc[w] = "idle"
    /\ rel' = [rel EXCEPT ![w] = r]
    /\ rev' = [rev EXCEPT ![w] = head[r]]
    /\ Goto(w, "queued")
    /\ UNCHANGED <<gitVars, hubVars, job, dockerVars, promoteVars, countVars>>

\* A version tag is moved to another commit.
Retag(r) ==
    /\ head[r] < MaxRevision
    /\ head' = [head EXCEPT ![r] = @ + 1]
    /\ UNCHANGED <<published, hubVars, pc, runVars, dockerVars, promoteVars, countVars>>

\* A failed run is run again, from the job that failed or from the first.
Rerun(w) ==
    /\ pc[w] = "failed"
    /\ reruns < MaxReruns
    /\ reruns' = reruns + 1
    /\ \E j \in {"docker", job[w]} : job' = [job EXCEPT ![w] = j]
    /\ Goto(w, "queued")
    /\ UNCHANGED <<gitVars, hubVars, rel, rev, dockerVars, promoteVars, builds>>

-----------------------------------------------------------------------------
(* The jobs of a run, and their end. *)

\* The run gets the concurrency group of its tag.
StartJob(w) ==
    /\ pc[w] = "queued"
    /\ \A x \in Running : rel[x] # rel[w]
    /\ Goto(w, IF job[w] = "docker" THEN "inspectV" ELSE job[w])
    /\ UNCHANGED <<gitVars, hubVars, runVars, dockerVars, promoteVars, countVars>>

\* A check fails, a service does not answer or answers ambiguously three
\* times, the job times out or is cancelled. The scripts have nothing to undo.
Abort(w) ==
    /\ w \in Running
    /\ Goto(w, "failed")
    /\ Forget(w)
    /\ UNCHANGED <<gitVars, hubVars, runVars, countVars>>

-----------------------------------------------------------------------------
(* The job docker: select, build, push or restore, and verify the aliases. *)

InspectV(w) ==
    /\ pc[w] = "inspectV"
    /\ BuiltFrom(alias[rel[w]]["v"], rev[w])
    /\ seen' = [seen EXCEPT ![w]["v"] = alias[rel[w]]["v"]]
    /\ Goto(w, "inspectBare")
    /\ UNCHANGED <<gitVars, hubVars, runVars, image, promoteVars, countVars>>

InspectBare(w) ==
    LET found == alias[rel[w]]["bare"]
        first == seen[w]["v"]
    IN  /\ pc[w] = "inspectBare"
        /\ BuiltFrom(found, rev[w])
        /\ first # NoImage /\ found # NoImage => first.digest = found.digest
        /\ seen' = [seen EXCEPT ![w]["bare"] = found]
        /\ Goto(w, IF first = NoImage /\ found = NoImage THEN "build"
                   ELSE IF first = NoImage \/ found = NoImage THEN "restore" ELSE "verify")
        /\ UNCHANGED <<gitVars, hubVars, runVars, image, promoteVars, countVars>>

Build(w) ==
    /\ pc[w] = "build"
    /\ image' = [image EXCEPT ![w] =
                   [rel |-> rel[w], rev |-> rev[w], digest |-> builds + 1]]
    /\ builds' = builds + 1
    /\ Goto(w, "push")
    /\ UNCHANGED <<gitVars, hubVars, runVars, seen, promoteVars, reruns>>

\* One tag is pushed after the other.
Push(w, a) ==
    /\ pc[w] = "push"
    /\ seen[w][a] = NoImage
    /\ alias' = [alias EXCEPT ![rel[w]][a] = image[w]]
    /\ seen' = [seen EXCEPT ![w][a] = image[w]]
    /\ Goto(w, IF \A b \in Aliases \ {a} : seen[w][b] # NoImage THEN "verify" ELSE "push")
    /\ UNCHANGED <<gitVars, latest, runVars, image, promoteVars, countVars>>

\* The alias that is missing gets the digest of the other.
Restore(w, a, b) ==
    /\ pc[w] = "restore"
    /\ seen[w][a] = NoImage
    /\ seen[w][b] # NoImage
    /\ alias' = [alias EXCEPT ![rel[w]][a] = seen[w][b]]
    /\ Goto(w, "verify")
    /\ UNCHANGED <<gitVars, latest, runVars, dockerVars, promoteVars, countVars>>

\* Both aliases name one image, annotated with the commit v and the version r.
Verified(r, v) ==
    /\ \A a \in Aliases : alias[r][a].rev = v /\ alias[r][a].rel = r
    /\ alias[r]["v"].digest = alias[r]["bare"].digest

Verify(w) ==
    /\ pc[w] = "verify"
    /\ Verified(rel[w], rev[w])
    /\ job' = [job EXCEPT ![w] = "release"]
    /\ Goto(w, "release")
    /\ Forget(w)
    /\ UNCHANGED <<gitVars, hubVars, rel, rev, countVars>>

-----------------------------------------------------------------------------
(* The job github-release. *)

\* There is no release (404): it is created from this run's archives.
CreateRelease(w) ==
    /\ pc[w] = "release"
    /\ published[rel[w]] = 0
    /\ published' = [published EXCEPT ![rel[w]] = rev[w]]
    /\ Goto(w, "released")
    /\ UNCHANGED <<head, hubVars, runVars, dockerVars, promoteVars, countVars>>

\* There is one (200), and its archives are those of this commit: the build is
\* reproducible, and one from another commit differs.
VerifyRelease(w) ==
    /\ pc[w] = "release"
    /\ published[rel[w]] = rev[w]
    /\ Goto(w, "released")
    /\ UNCHANGED <<gitVars, hubVars, runVars, dockerVars, promoteVars, countVars>>

\* The job succeeds; only a stable release goes on to latest.
ReleaseEnds(w) ==
    /\ pc[w] = "released"
    /\ IF rel[w] \in Stable
       THEN job' = [job EXCEPT ![w] = "promote"] /\ Goto(w, "promote")
       ELSE Goto(w, "done") /\ UNCHANGED job
    /\ UNCHANGED <<gitVars, hubVars, rel, rev, dockerVars, promoteVars, countVars>>

-----------------------------------------------------------------------------
(* The job promote-latest. *)

\* The run gets the concurrency group of latest and fetches the tags.
StartPromote(w) ==
    /\ pc[w] = "promote"
    /\ Promoting = {}
    /\ tags' = [tags EXCEPT ![w] = head]
    /\ Goto(w, "list")
    /\ UNCHANGED <<gitVars, hubVars, runVars, dockerVars, view, highest, countVars>>

\* GitHub may not list yet what has just been published; the script insists
\* on its own release only.
ListReleases(w) ==
    /\ pc[w] = "list"
    /\ \E S \in SUBSET {r \in Stable : published[r] # 0}, h \in Stable :
          /\ rel[w] \in S
          /\ IsHighest(h, S)
          /\ view' = [view EXCEPT ![w] = S]
          /\ highest' = [highest EXCEPT ![w] = h]
    /\ Goto(w, "validate")
    /\ UNCHANGED <<gitVars, hubVars, runVars, dockerVars, tags, countVars>>

ValidateHighest(w) ==
    /\ pc[w] = "validate"
    /\ Verified(highest[w], tags[w][highest[w]])
    /\ image' = [image EXCEPT ![w] = alias[highest[w]]["v"]]
    /\ Goto(w, "compare")
    /\ UNCHANGED <<gitVars, hubVars, runVars, seen, promoteVars, countVars>>

\* latest is missing, or an official release lower than the highest.
NeedsAdvance(w) ==
    /\ pc[w] = "compare"
    /\ latest # NoImage => latest.rel \in view[w] /\ latest.rel < highest[w]
    /\ Goto(w, "advance")
    /\ UNCHANGED <<gitVars, hubVars, runVars, dockerVars, promoteVars, countVars>>

\* latest is the highest release already, by digest and commit.
AlreadyLatest(w) ==
    /\ pc[w] = "compare"
    /\ latest # NoImage
    /\ latest.rel \in view[w]
    /\ latest.rel = highest[w]
    /\ latest.digest = image[w].digest
    /\ latest.rev = tags[w][highest[w]]
    /\ Goto(w, "done")
    /\ Forget(w)
    /\ UNCHANGED <<gitVars, hubVars, runVars, countVars>>

Advance(w) ==
    /\ pc[w] = "advance"
    /\ latest' = image[w]
    /\ Goto(w, "confirm")
    /\ UNCHANGED <<gitVars, alias, runVars, dockerVars, promoteVars, countVars>>

Confirm(w) ==
    /\ pc[w] = "confirm"
    /\ latest.digest = image[w].digest
    /\ latest.rev = tags[w][highest[w]]
    /\ latest.rel = highest[w]
    /\ Goto(w, "done")
    /\ Forget(w)
    /\ UNCHANGED <<gitVars, hubVars, runVars, countVars>>

-----------------------------------------------------------------------------
DockerStep(w) ==
    \/ InspectV(w) \/ InspectBare(w) \/ Build(w)
    \/ \E a \in Aliases : Push(w, a)
    \/ \E a, b \in Aliases : Restore(w, a, b)
    \/ Verify(w)

ReleaseStep(w) == CreateRelease(w) \/ VerifyRelease(w) \/ ReleaseEnds(w)

PromoteStep(w) ==
    \/ StartPromote(w) \/ ListReleases(w) \/ ValidateHighest(w)
    \/ NeedsAdvance(w) \/ AlreadyLatest(w) \/ Advance(w) \/ Confirm(w)

RunStep(w) == StartJob(w) \/ Abort(w) \/ DockerStep(w) \/ ReleaseStep(w) \/ PromoteStep(w)

Next ==
    \/ \E w \in Runs :
          \/ \E r \in Releases : Trigger(w, r)
          \/ Rerun(w)
          \/ RunStep(w)
    \/ \E r \in Releases : Retag(r)

Spec == Init /\ [][Next]_vars
-----------------------------------------------------------------------------
(* Correctness. *)

PCs == {"idle", "queued", "inspectV", "inspectBare", "build", "push", "restore", "verify",
        "release", "released", "promote", "list", "validate", "compare", "advance",
        "confirm", "failed", "done"}

\* Every variable keeps its type; no prerelease becomes latest.
TypeOK ==
    /\ head \in [Releases -> Revisions]
    /\ alias \in [Releases -> [Aliases -> Image \cup {NoImage}]]
    /\ published \in [Releases -> Revisions \cup {0}]
    /\ latest \in Image \cup {NoImage}
    /\ latest # NoImage => latest.rel \in Stable
    /\ pc \in [Runs -> PCs]
    /\ job \in [Runs -> Jobs]
    /\ rel \in [Runs -> Releases]
    /\ rev \in [Runs -> Revisions]
    /\ seen \in [Runs -> [Aliases -> Image \cup {NoImage}]]
    /\ image \in [Runs -> Image \cup {NoImage}]
    /\ tags \in [Runs -> [Releases -> Revisions]]
    /\ view \in [Runs -> SUBSET Releases]
    /\ highest \in [Runs -> Releases]
    /\ builds \in Nat
    /\ reruns \in 0..MaxReruns

\* An alias of a release never changes its image (release.yml:223-226),
\* although runs stop between two pushes, are run again, and find the tag on
\* another commit.
AliasesImmutable ==
    [][\A r \in Releases, a \in Aliases :
          alias[r][a] # NoImage => alias'[r][a] = alias[r][a]]_vars

\* A GitHub Release exists only with both aliases of its image, built from
\* the same commit: a stale or partial image is never part of a release
\* (verify-docker-release.sh:3-5).
PublishedIsComplete ==
    \A r \in Releases : published[r] # 0 => Verified(r, published[r])

\* latest is the very image of a published stable release.
LatestIsPublished ==
    latest # NoImage =>
        /\ published[latest.rel] = latest.rev
        /\ alias[latest.rel]["v"] = latest

\* Promotions, in whatever order they run and whatever GitHub lists, never move
\* latest to a lower release (release.yml:516-517).
LatestMovesForward ==
    [][latest # NoImage => latest' = latest \/ latest'.rel > latest.rel]_vars

\* A run that ends well has left latest at its stable release or a higher one.
SucceededIsPromoted ==
    \A w \in Runs : pc[w] = "done" /\ rel[w] \in Stable => latest.rel >= rel[w]
=============================================================================
