--------------------------- MODULE MCBuildPipeline ---------------------------
(***************************************************************************)
(* Instances of BuildPipeline for TLC: repositories that name a branch, a  *)
(* branch the server lacks, a tag or nothing, a local one, and one whose   *)
(* list of platforms has a single element.                                 *)
(***************************************************************************)
EXTENDS BuildPipeline, TLC

main == <<"main">>
dev == <<"dev">>
gone == <<"gone">>
v1 == <<"v1">>

MCRefs == {main, dev, gone, v1, Unset}
MCBranches == {main, dev}
MCTags == {v1}

(* The only capitals there are.                                            *)
MCToLower(t) == [i \in DOMAIN t |-> IF t[i] = "App" THEN "app" ELSE t[i]]

App == <<<<"github.com">>, <<"App", ".git">>>>
(* Its images on main have the name of App's on dev.                       *)
AppDev == <<<<"gitea">>, <<"app", "-", "dev">>>>

Repository(url, auth, r, tag, platforms) ==
    [url |-> url, auth |-> auth, ref |-> r, tag |-> tag, platforms |-> platforms,
     dockerfileUser |-> Unset]

OnDev == Repository(App, "github", dev, Latest, {Amd64})
OnTag == Repository(App, "github", v1, Latest, {})
OnGone == Repository(App, "github", gone, Unset, {Amd64, "linux/arm64"})
OnNothing == Repository(AppDev, "gitea", Unset, Latest, {})
OnArm == Repository(App, "github", main, Latest, {"linux/arm64"})
Untagged == Repository(App, "github", main, Unset, {})
Local == [OnDev EXCEPT !.url = Unset, !.ref = main,
                       !.dockerfileUser = <<<<"tool">>, <<"Dockerfile">>>>]

MCEntries == {OnDev, OnTag, OnNothing, Local}
MCOnDev == {OnDev}
MCOnTag == {OnTag}
MCOnGone == {OnGone}
MCOnArm == {OnArm}
MCUntagged == {Untagged}
MCOnGitea == {OnNothing}
MCSameName == {OnDev, OnNothing}

Symmetry == Permutations(Builds) \cup Permutations(Dirs)

=============================================================================
