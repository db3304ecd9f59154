---------------------------- MODULE BuildPipeline ----------------------------
(***************************************************************************)
(* The inside of builder.BuildRepository: a fresh build directory, the     *)
(* question to the git server which branch to take, the clone, the         *)
(* Dockerfile, and "docker buildx build --push" under a name made of the   *)
(* repository, the branch and the tag.  Many builds run side by side, each *)
(* on a copy of its repository entry.  Seen from its callers a build is    *)
(* the one of BuildCall: ImplementsCall.                                   *)
(***************************************************************************)
EXTENDS Naturals, Sequences, FiniteSets

CONSTANTS
    Builds,         \* calls of BuildRepository
    Dirs,           \* names MkdirTemp can make up
    Entries,        \* repository entries, see EntryAssumption
    Refs,           \* what TagBranch can be: ...
    Branches, Tags, \* ... refs of the remote repositories, or neither
    DefaultBranch,  \* their default branch
    Amd64,          \* "linux/amd64"
    ToLower(_)      \* strings.ToLower

(* A text is the sequence of the words it is put together from, so that    *)
(* texts joined in different ways can come out the same.                   *)
Unset == <<>>
Main == {<<"main">>, <<"master">>}
Latest == <<"latest">>

(* What BuildRepository reads of a RepositoryConfig: the URL by the parts  *)
(* between its slashes, the path of the user's Dockerfile likewise.        *)
(* Repositories without URL are local and have the latter.                 *)
ASSUME EntryAssumption ==
    /\ Branches \cup Tags \cup {Unset} \subseteq Refs
    /\ DefaultBranch \in Branches /\ Branches \cap Tags = {} /\ Unset \notin Branches
    /\ Entries # {}
    /\ \A e \in Entries : /\ DOMAIN e = {"url", "auth", "ref", "tag", "platforms",
                                         "dockerfileUser"}
                          /\ e.auth \in {"github", "gitea"}
                          /\ e.ref \in Refs
                          /\ e.url # Unset \/ e.dockerfileUser # Unset

Remote(e) == e.url # Unset

VARIABLES
    alive,          \* the process runs
    giteaMade,      \* NewGiteaClient returned a client, not nil
    ctx,            \* the context of a build, as in BuildCall
    stage,          \* where in BuildRepository a build is
    entry,          \* the caller's repository entry
    section,        \* the configuration passed with it has a gitea section
    ref,            \* TagBranch of the copy of it BuildRepository works on
    branch,         \* what isBranchExist returned
    dir,            \* contextDir
    contents,       \* the directories that exist, and the sources in them
    leftBehind,     \* those of them RemoveAll did not get rid of
    registry        \* the images pushed, by name

setup == <<alive, giteaMade>>
locals == <<entry, section, ref, branch, dir>>
disk == <<contents, leftBehind>>
vars == <<setup, ctx, stage, locals, disk, registry>>

Stages == {"idle", "ready", "mkdir", "validate", "default", "clone", "cloning",
           "dockerfile", "build", "running", "pushed", "ok", "err"}

(* From MkdirTemp to the return.                                           *)
HasDir(b) == stage[b] \notin {"idle", "ready", "mkdir", "ok", "err"}

(* Sources are those of a repository at a ref; a fresh directory has none. *)
Sources == [repo : {e.url : e \in Entries}, ref : Refs]
NoSources == [repo |-> Unset, ref |-> Unset]

TrimSuffix(t, word) ==
    IF t # <<>> /\ t[Len(t)] = word THEN SubSeq(t, 1, Len(t) - 1) ELSE t
LastPart(url) == TrimSuffix(url[Len(url)], ".git")
ParentDir(path) == IF Len(path) > 1 THEN path[Len(path) - 1] ELSE <<".">>

GetRepoName(e) == IF Remote(e) THEN LastPart(e.url) ELSE ParentDir(e.dockerfileUser)

(* GetImageName, of one Docker Hub account: two repositories, or two       *)
(* branches, can have the same name.                                       *)
ImageName(e, r) ==
    ToLower(GetRepoName(e) \o (IF r \in Main THEN <<>> ELSE <<"-">> \o r)
              \o <<":">> \o (IF e.tag = Unset THEN Latest ELSE e.tag))

(* updateRepoImageName: the name notifications are sent with.              *)
NameImage(e) ==
    LET name == IF Remote(e) THEN LastPart(e.url) ELSE ParentDir(e.dockerfileUser)
    IN  ToLower(IF e.ref \in Main THEN name \o <<":">> \o e.tag
                                  ELSE name \o <<"-">> \o e.ref \o <<":">> \o e.tag)

(* The --platform argument of BuildImage.                                  *)
BuiltPlatforms(platforms) ==
    IF Cardinality(platforms) > 1 THEN platforms ELSE {Amd64}

TypeOK ==
    /\ alive \in BOOLEAN /\ giteaMade \in BOOLEAN
    /\ ctx \in [Builds -> {"none", "live", "canceled", "expired"}]
    /\ stage \in [Builds -> Stages]
    /\ entry \in [Builds -> Entries]
    /\ section \in [Builds -> BOOLEAN]
    /\ ref \in [Builds -> Refs]
    /\ branch \in [Builds -> Refs]
    /\ dir \in [Builds -> Dirs \cup {Unset}]
    /\ DOMAIN contents \subseteq Dirs
    /\ \A d \in DOMAIN contents : contents[d] \in Sources \cup {NoSources}
    /\ leftBehind \subseteq DOMAIN contents
    /\ \A n \in DOMAIN registry : registry[n].of \in Sources \cup {NoSources}

Init ==
    /\ alive = TRUE
    /\ giteaMade \in BOOLEAN
    /\ ctx = [b \in Builds |-> "none"]
    /\ stage = [b \in Builds |-> "idle"]
    /\ entry = [b \in Builds |-> CHOOSE e \in Entries : TRUE]
    /\ section = [b \in Builds |-> FALSE]
    /\ ref = [b \in Builds |-> Unset]
    /\ branch = [b \in Builds |-> Unset]
    /\ dir = [b \in Builds |-> Unset]
    /\ contents = [d \in {} |-> NoSources]
    /\ leftBehind = {}
    /\ registry = [n \in {} |-> NoSources]

Goto(b, from, to) == stage[b] = from /\ stage' = [stage EXCEPT ![b] = to]

ContextDone(b) == ctx[b] \in {"canceled", "expired"}

With(f, x, y) == [z \in DOMAIN f \cup {x} |-> IF z = x THEN y ELSE f[z]]
Without(f, x) == [z \in DOMAIN f \ {x} |-> f[z]]

-----------------------------------------------------------------------------
(* The caller makes the context, may cancel it, and its timer may fire.    *)

MakeContext(b) ==
    /\ Goto(b, "idle", "ready")
    /\ ctx' = [ctx EXCEPT ![b] = "live"]
    /\ UNCHANGED <<setup, locals, disk, registry>>

EndContext(b) ==
    /\ ctx[b] = "live"
    /\ \E how \in {"canceled", "expired"} : ctx' = [ctx EXCEPT ![b] = how]
    /\ UNCHANGED <<setup, stage, locals, disk, registry>>

(* BuildRepository receives the entry by value and a configuration ...     *)
BuildRepository(b, e) ==
    /\ Goto(b, "ready", "mkdir")
    /\ entry' = [entry EXCEPT ![b] = e]
    /\ \E has \in BOOLEAN : section' = [section EXCEPT ![b] = has]
    /\ ref' = [ref EXCEPT ![b] = e.ref]
    /\ UNCHANGED <<setup, ctx, branch, dir, disk, registry>>

AfterMkdir(b) == IF Remote(entry[b]) THEN "validate" ELSE "dockerfile"

(* Mutant: the error of MkdirTemp is ignored, the path is "".              *)
MakeDirUnchecked(b) ==
    /\ Goto(b, "mkdir", AfterMkdir(b))
    /\ \E d \in (Dirs \ DOMAIN contents) \cup {Unset} :
         /\ dir' = [dir EXCEPT ![b] = d]
         /\ contents' = With(contents, d, NoSources)
    /\ UNCHANGED <<setup, ctx, entry, section, ref, branch, leftBehind, registry>>

(* ... and makes a directory nobody else has.                              *)
MakeDir(b) ==
    /\ Goto(b, "mkdir", AfterMkdir(b))
    /\ \E d \in Dirs \ DOMAIN contents :
         /\ dir' = [dir EXCEPT ![b] = d]
         /\ contents' = With(contents, d, NoSources)
    /\ UNCHANGED <<setup, ctx, entry, section, ref, branch, leftBehind, registry>>

NoDir(b) ==
    /\ Goto(b, "mkdir", "err")
    /\ UNCHANGED <<setup, ctx, locals, disk, registry>>

(* Mutant: the directory is only removed after a success.                  *)
ReturnLeavesDir(b, result) ==
    /\ stage' = [stage EXCEPT ![b] = result]
    /\ contents' = IF result = "ok" THEN Without(contents, dir[b]) ELSE contents
    /\ UNCHANGED <<setup, ctx, locals, leftBehind, registry>>

(* Every return runs the deferred RemoveAll.  Its error is dropped: then   *)
(* the directory stays, whole or in part, and nobody comes back to it.     *)
Return(b, result) ==
    /\ stage' = [stage EXCEPT ![b] = result]
    /\ \/ contents' = Without(contents, dir[b]) /\ UNCHANGED leftBehind
       \/ leftBehind' = leftBehind \cup {dir[b]} /\ UNCHANGED contents
    /\ UNCHANGED <<setup, ctx, locals, registry>>

-----------------------------------------------------------------------------
(* CloneRepository and isBranchExist.  The map the clients come from has   *)
(* both keys; a *GiteaClient that is nil is a git.GitClient that is not,   *)
(* so the test for nil lets it pass.                                       *)

HasClient(b) == entry[b].auth = "github" \/ giteaMade

(* Mutant: the question fails, and the branch is taken for granted.        *)
ValidateBranchTrusting(b) ==
    /\ HasClient(b)
    /\ ref[b] # Unset
    /\ Goto(b, "validate", "clone")
    /\ branch' = [branch EXCEPT ![b] = ref[b]]
    /\ UNCHANGED <<setup, ctx, entry, section, ref, dir, disk, registry>>

(* GetBranch, which knows no tags, says yes ...                            *)
ValidateBranch(b) ==
    /\ HasClient(b)
    /\ ref[b] \in Branches
    /\ Goto(b, "validate", "clone")
    /\ branch' = [branch EXCEPT ![b] = ref[b]]
    /\ UNCHANGED <<setup, ctx, entry, section, ref, dir, disk, registry>>

(* ... or 404, or the request fails: the error is logged and dropped.      *)
BranchNotValid(b) ==
    /\ Goto(b, "validate", "default")
    /\ UNCHANGED <<setup, ctx, locals, disk, registry>>

(* Once the URL has been parsed, a method of a nil client dereferences it, *)
(* and nothing recovers in the goroutine of a build.                       *)
NilClient(b) ==
    /\ ~HasClient(b)
    /\ stage[b] = "validate"
    /\ alive' = FALSE
    /\ UNCHANGED <<giteaMade, ctx, stage, locals, disk, registry>>

GetDefaultBranch(b) ==
    /\ HasClient(b)
    /\ Goto(b, "default", "clone")
    /\ branch' = [branch EXCEPT ![b] = DefaultBranch]
    /\ UNCHANGED <<setup, ctx, entry, section, ref, dir, disk, registry>>

NoDefaultBranch(b) == stage[b] = "default" /\ Return(b, "err")

(* The credentials for a clone from Gitea are those of the configuration.  *)
HasCredentials(b) == entry[b].auth = "gitea" => section[b]

(* A configuration without gitea section, loaded since the client was      *)
(* made: cfg.Gitea is nil and dereferenced.                                *)
NilSection(b) ==
    /\ ~HasCredentials(b)
    /\ stage[b] = "clone"
    /\ alive' = FALSE
    /\ UNCHANGED <<giteaMade, ctx, stage, locals, disk, registry>>

(* Mutant: exec.Command in place of exec.CommandContext.                   *)
StartCloneAnyway(b) ==
    /\ HasCredentials(b)
    /\ Goto(b, "clone", "cloning")
    /\ UNCHANGED <<setup, ctx, locals, disk, registry>>

(* exec.CommandContext starts no process for a context that is over.       *)
StartClone(b) ==
    /\ HasCredentials(b)
    /\ ~ContextDone(b)
    /\ Goto(b, "clone", "cloning")
    /\ UNCHANGED <<setup, ctx, locals, disk, registry>>

(* Mutant: repo.TagBranch is not set to the branch that was cloned.        *)
ClonedKeepsRef(b) ==
    /\ Goto(b, "cloning", "dockerfile")
    /\ branch[b] \in Branches \cup Tags
    /\ contents[dir[b]] = NoSources
    /\ contents' = [contents EXCEPT ![dir[b]] = [repo |-> entry[b].url, ref |-> branch[b]]]
    /\ UNCHANGED <<setup, ctx, locals, leftBehind, registry>>

(* git clones a branch or a tag, and into an empty directory only.         *)
Cloned(b) ==
    /\ Goto(b, "cloning", "dockerfile")
    /\ branch[b] \in Branches \cup Tags
    /\ contents[dir[b]] = NoSources
    /\ contents' = [contents EXCEPT ![dir[b]] = [repo |-> entry[b].url, ref |-> branch[b]]]
    /\ ref' = [ref EXCEPT ![b] = branch[b]]
    /\ UNCHANGED <<setup, ctx, entry, section, branch, dir, leftBehind, registry>>

CloneFails(b) ==
    /\ stage[b] = "cloning" \/ (stage[b] = "clone" /\ HasCredentials(b))
    /\ Return(b, "err")

-----------------------------------------------------------------------------
(* copyDockerfile, then BuildImage.                                        *)

CopyDockerfile(b) ==
    /\ Goto(b, "dockerfile", "build")
    /\ UNCHANGED <<setup, ctx, locals, disk, registry>>

NoDockerfile(b) ==
    /\ stage[b] = "dockerfile" /\ entry[b].dockerfileUser # Unset
    /\ Return(b, "err")

StartBuildx(b) ==
    /\ ~ContextDone(b)
    /\ Goto(b, "build", "running")
    /\ UNCHANGED <<setup, ctx, locals, disk, registry>>

(* The registry keeps the last image pushed under a name.                  *)
Push(b) ==
    /\ Goto(b, "running", "pushed")
    /\ registry' = With(registry, ImageName(entry[b], ref[b]),
                        [entry |-> entry[b], of |-> contents[dir[b]],
                         platforms |-> BuiltPlatforms(entry[b].platforms)])
    /\ UNCHANGED <<setup, ctx, locals, disk>>

(* Killed while it built, or after it had pushed.                          *)
BuildxFails(b) ==
    /\ \/ stage[b] \in {"build", "running"}
       \/ stage[b] = "pushed" /\ ContextDone(b)
    /\ Return(b, "err")

BuildxDone(b) == stage[b] = "pushed" /\ Return(b, "ok")

-----------------------------------------------------------------------------

Step(b) ==
    \/ MakeDir(b) \/ NoDir(b)
    \/ ValidateBranch(b) \/ BranchNotValid(b) \/ NilClient(b)
    \/ GetDefaultBranch(b) \/ NoDefaultBranch(b)
    \/ NilSection(b) \/ StartClone(b) \/ Cloned(b) \/ CloneFails(b)
    \/ CopyDockerfile(b) \/ NoDockerfile(b)
    \/ StartBuildx(b) \/ Push(b) \/ BuildxFails(b) \/ BuildxDone(b)

Next ==
    /\ alive
    /\ \E b \in Builds : \/ MakeContext(b) \/ EndContext(b) \/ Step(b)
                         \/ \E e \in Entries : BuildRepository(b, e)

Spec == Init /\ [][Next]_vars

-----------------------------------------------------------------------------
(* A build in its callers' eyes.                                           *)
CallPhase(b) ==
    CASE stage[b] \in {"idle", "ready"} -> "idle"
      [] stage[b] = "mkdir" -> IF Remote(entry[b]) THEN "branch" ELSE "prepare"
      [] stage[b] \in {"validate", "default"} -> "branch"
      [] stage[b] = "clone" -> "fetch"
      [] stage[b] = "cloning" -> "clone"
      [] stage[b] \in {"dockerfile", "build"} -> "prepare"
      [] stage[b] \in {"running", "pushed"} -> "docker"
      [] OTHER -> stage[b]

Call == INSTANCE BuildCall WITH call <- [b \in Builds |-> CallPhase(b)]

(* The stages, their errors and the ends of the context are the phases of  *)
(* BuildCall, on which BuildControl and the scheduler's tasks rely: a      *)
(* context that is over lets neither a clone nor a docker process start.   *)
ImplementsCall == Call!CallSpec

(* An image holds the sources its name is made of: those of the repository *)
(* of its entry at the branch that was cloned, whatever branch was asked   *)
(* for and whichever builds ran beside it; that of a local build has none. *)
ImageHoldsItsSources ==
    \A n \in DOMAIN registry :
        LET e == registry[n].entry
            of == registry[n].of
        IN  IF Remote(e) THEN of.repo = e.url /\ n = ImageName(e, of.ref)
                         ELSE of = NoSources /\ n = ImageName(e, e.ref)

(* Images of remote repositories are of the branch asked for or of the     *)
(* default branch, and a tag is never built: the exact extent of what      *)
(* refutes DefaultIsForUnset and TagIsBuilt.                               *)
ImagesAreOfBranches ==
    \A n \in DOMAIN registry : Remote(registry[n].entry) =>
        /\ registry[n].of.ref \in Branches
        /\ registry[n].of.ref \in {registry[n].entry.ref, DefaultBranch}
        /\ registry[n].entry.ref \notin Branches => registry[n].of.ref = DefaultBranch

(* A build directory belongs to one build, which has not returned yet; one *)
(* that could not be removed belongs to none, and is not given out again.  *)
DirsHaveOwners ==
    \A d \in DOMAIN contents :
        LET Owners == {b \in Builds : HasDir(b) /\ dir[b] = d}
        IN  IF d \in leftBehind THEN Owners = {}
            ELSE \E b \in Builds : Owners = {b}

(* The default branch is built for repositories that name no branch ("如果 *)
(* 用户没有指定branch,则默认使用默认分支", builder.go).                    *)
DefaultIsForUnset ==
    \A b \in Builds : stage[b] = "cloning" /\ entry[b].ref # Unset => branch[b] = entry[b].ref

(* A repository that names a tag is built from it ("支持指定分支或 Tag     *)
(* 进行构建", README.md).                                                  *)
TagIsBuilt ==
    \A b \in Builds : stage[b] = "cloning" /\ entry[b].ref \in Tags => branch[b] = entry[b].ref

(* An image is built for the platforms the repository lists.               *)
PlatformsAreBuilt ==
    \A n \in DOMAIN registry :
        registry[n].entry.platforms # {} => registry[n].platforms = registry[n].entry.platforms

(* A build that returned no error has pushed the image the notifications   *)
(* about it name.                                                          *)
NamedImageIsPushed ==
    \A b \in Builds : stage[b] = "ok" => NameImage(entry[b]) \in DOMAIN registry

(* An image name is that of one repository.                                *)
NameIsOfOneRepository ==
    [][\A n \in DOMAIN registry :
         registry'[n].entry.url = registry[n].entry.url]_registry

(* A repository whose git client is nil fails to build, as isBranchExist   *)
(* says it does, and ends nothing else.                                    *)
NilClientIsAnError == alive

=============================================================================
