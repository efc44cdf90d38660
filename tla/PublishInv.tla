------------------------------ MODULE PublishInv ------------------------------
(***************************************************************************)
(* The inductive invariant of Publish: what the place of a run says of the *)
(* aliases it has inspected, verified or promoted.                         *)
(***************************************************************************)
EXTENDS Publish

Promotable(w) == pc[w] \in {"promote", "list", "validate", "compare", "advance", "confirm"}

\* The concurrency groups: one run per tag, one promotion.
GroupInv ==
    /\ \A w, x \in Running : rel[w] = rel[x] => w = x
    /\ \A w, x \in Promoting : w = x

\* The two aliases of a release, and the release itself.
AliasInv(r) ==
    /\ \A a \in Aliases : alias[r][a] # NoImage => alias[r][a].rel = r
    /\ alias[r]["v"] # NoImage /\ alias[r]["bare"] # NoImage => alias[r]["v"] = alias[r]["bare"]
    /\ published[r] # 0 => Verified(r, published[r])

\* What a run knows of the aliases stays true while it holds their group.
DockerInv(w) ==
    /\ pc[w] \in {"inspectBare", "build", "push", "restore"} =>
          /\ seen[w]["v"] = alias[rel[w]]["v"]
          /\ pc[w] # "inspectBare" => seen[w]["bare"] = alias[rel[w]]["bare"]
    /\ pc[w] = "build" => \A a \in Aliases : seen[w][a] = NoImage
    /\ pc[w] = "push" =>
          /\ image[w] # NoImage /\ image[w].rel = rel[w] /\ image[w].rev = rev[w]
          /\ \A a \in Aliases : seen[w][a] \in {NoImage, image[w]}

\* A job is entered after the jobs it needs, and what they established lasts.
JobInv(w) ==
    /\ pc[w] \in {"idle", "inspectV", "inspectBare", "build", "push", "restore", "verify"} =>
          job[w] = "docker"
    /\ pc[w] \in {"release", "released"} => job[w] = "release"
    /\ Promotable(w) \/ (pc[w] = "done" /\ rel[w] \in Stable) => job[w] = "promote"
    /\ job[w] # "docker" => Verified(rel[w], rev[w])
    /\ pc[w] = "released" \/ job[w] = "promote" => published[rel[w]] = rev[w]
    /\ job[w] = "promote" => rel[w] \in Stable

\* What a promotion has listed and validated, and latest while it holds it.
PromoteInv(w) ==
    /\ pc[w] \in {"validate", "compare", "advance", "confirm"} =>
          /\ \A r \in view[w] : r \in Stable /\ published[r] # 0
          /\ rel[w] \in view[w]
          /\ IsHighest(highest[w], view[w])
    /\ pc[w] \in {"compare", "advance", "confirm"} =>
          /\ image[w] = alias[highest[w]]["v"]
          /\ image[w].rev = tags[w][highest[w]]
    /\ pc[w] = "advance" /\ latest # NoImage => latest.rel < highest[w]
    /\ pc[w] = "confirm" => latest = image[w]
    /\ pc[w] = "done" /\ rel[w] \in Stable => latest.rel >= rel[w]

\* What every reachable state satisfies and every step preserves.
IInv ==
    /\ TypeOK
    /\ GroupInv
    /\ \A r \in Releases : AliasInv(r)
    /\ \A w \in Runs : DockerInv(w) /\ JobInv(w) /\ PromoteInv(w)
    /\ LatestIsPublished
=============================================================================
