----------------------------- MODULE ConfigLoad ------------------------------
(***************************************************************************)
(* From a configuration as an operator writes or posts it to the one the   *)
(* program runs with: Validate and ToYAML in /config/update, LoadConfig    *)
(* with its loop over the repositories, and the start of main.  LoadConfig *)
(* writes defaults into the list, but works on a copy of each element and  *)
(* puts that copy back.                                                    *)
(***************************************************************************)
EXTENDS Naturals, Sequences

CONSTANTS
    Raws,           \* configurations that are posted or written
    Required        \* docker_hub and github fields: "github.token", ...

(* decodes: the JSON or the YAML can be read and decoded; missing: the     *)
(* required fields that are empty; gitea: the section is not there, has no *)
(* url, or has one.                                                        *)
Fields == {"url", "auth", "branch", "tag", "platforms", "dockerfileProject",
           "dockerfileUser", "nameRepo", "nameImage"}

ASSUME RawAssumption ==
    Raws \subseteq [decodes : BOOLEAN, webHttp : [ip : STRING, port : Nat],
                    missing : SUBSET Required, gitea : {"absent", "noUrl", "set"},
                    repositories : Seq([Fields -> STRING])]

VARIABLES
    phase,          \* what has come of the configuration
    posted,         \* it came through /config/update
    file,           \* the file
    cfg,            \* cfg in LoadConfig and in main
    i,              \* the loop's index
    repo            \* the loop's copy of an element

vars == <<phase, posted, file, cfg, i, repo>>

NoRepo == [f \in Fields |-> ""]

Phases == {"none", "written", "loop", "copied", "loaded", "running",
           "rejected", "refused", "panic", "exit"}

TypeOK ==
    /\ phase \in Phases /\ posted \in BOOLEAN
    /\ phase \in {"loop", "copied", "loaded", "running"} =>
         /\ Len(cfg.repositories) = Len(file.repositories)
         /\ i \in 1 .. Len(cfg.repositories) + 1
    /\ phase = "copied" => DOMAIN repo = Fields /\ i <= Len(cfg.repositories)

Init ==
    /\ phase = "none" /\ posted = FALSE
    /\ file \in Raws /\ cfg = file
    /\ i = 0 /\ repo = NoRepo

-----------------------------------------------------------------------------

(* Neither a URL nor a Dockerfile of the user's.                           *)
Nameless(e) == e.url = "" /\ e.dockerfileUser = ""

RequiredGiven(c) == c.missing = {} /\ Len(c.repositories) # 0 /\ c.gitea # "noUrl"

(* Mutant: the entries are not looked at, as in the comment in LoadConfig. *)
ValidateTopOnly(c) == RequiredGiven(c)

(* Mutant: a gitea section is asked for.                                   *)
ValidateWithGitea(c) ==
    /\ RequiredGiven(c) /\ c.gitea = "set"
    /\ \A j \in DOMAIN c.repositories : ~Nameless(c.repositories[j])

Validate(c) ==
    /\ RequiredGiven(c)
    /\ \A j \in DOMAIN c.repositories : ~Nameless(c.repositories[j])

(* ToYAML leaves out empty lists and the derived names.                    *)
ToYAML(c) ==
    [c EXCEPT !.repositories = [j \in DOMAIN c.repositories |->
        [c.repositories[j] EXCEPT
            !.platforms = IF @ = "empty" THEN "nil" ELSE @,
            !.nameRepo = "", !.nameImage = ""]]]

(* updateRepoImageName: the last part of the URL, or the directory of the  *)
(* user's Dockerfile.                                                      *)
RepoName(e) == IF e.url # "" THEN <<"url", e.url>> ELSE <<"dir", e.dockerfileUser>>

NameImage(e) ==
    <<RepoName(e), IF e.branch \in {"main", "master"} THEN "" ELSE "-" \o e.branch, e.tag>>

-----------------------------------------------------------------------------

(* UpdateConfig up to the write.                                           *)
Post ==
    /\ phase = "none"
    /\ IF file.decodes /\ Validate(file)
       THEN phase' = "written" /\ file' = ToYAML(file)
       ELSE phase' = "rejected" /\ UNCHANGED file
    /\ posted' = TRUE
    /\ UNCHANGED <<cfg, i, repo>>

(* An operator writes the file.                                            *)
Write ==
    /\ phase = "none"
    /\ phase' = "written"
    /\ UNCHANGED <<posted, file, cfg, i, repo>>

OrElse(v, unset, default) == IF v = unset THEN default ELSE v

(* The address the server listens on; unlike the entries' defaults this is *)
(* set in the configuration itself.                                        *)
Address(web) ==
    [ip |-> OrElse(web.ip, "", "0.0.0.0"), port |-> OrElse(web.port, 0, 8080)]

WithAddress(c) == [c EXCEPT !.webHttp = Address(@)]

(* LoadConfig up to the loop.                                              *)
LoadConfig ==
    /\ phase = "written"
    /\ IF file.decodes /\ RequiredGiven(file)
       THEN phase' = "loop" /\ i' = 1 /\ cfg' = WithAddress(file)
       ELSE phase' = "refused" /\ UNCHANGED <<i, cfg>>
    /\ UNCHANGED <<posted, file, repo>>

(* The URL is trimmed, too, to the same avail.                             *)
WithDefaults(e) ==
    [e EXCEPT !.auth = OrElse(@, "", IF e.url = "gitea" THEN "gitea" ELSE "github"),
              !.branch = OrElse(@, "", "main"),
              !.platforms = OrElse(@, "nil", "amd64"),
              !.dockerfileProject = OrElse(@, "", "Dockerfile")]

FillDefaults ==
    /\ phase = "loop" /\ i <= Len(cfg.repositories)
    /\ repo' = cfg.repositories[i]
    /\ cfg' = [cfg EXCEPT !.repositories[i] = WithDefaults(@)]
    /\ phase' = "copied"
    /\ UNCHANGED <<posted, file, i>>

(* updateRepoImageName refuses what has no name.                           *)
Refuse ==
    /\ phase = "copied" /\ Nameless(repo)
    /\ phase' = "refused"
    /\ UNCHANGED <<posted, file, cfg, i, repo>>

(* Mutant: only the first element is put back.                             *)
PutFirstBack ==
    /\ phase = "copied" /\ ~Nameless(repo)
    /\ cfg' = [cfg EXCEPT !.repositories[1] =
                 [repo EXCEPT !.nameRepo = RepoName(repo), !.nameImage = NameImage(repo)]]
    /\ i' = i + 1
    /\ phase' = "loop"
    /\ UNCHANGED <<posted, file, repo>>

(* Mutant: the index is left alone.                                        *)
PutBackEverywhere ==
    /\ phase = "copied" /\ ~Nameless(repo)
    /\ cfg' = [cfg EXCEPT !.repositories = Append(@, repo)]
    /\ i' = i + 1
    /\ phase' = "loop"
    /\ UNCHANGED <<posted, file, repo>>

PutBack ==
    /\ phase = "copied" /\ ~Nameless(repo)
    /\ cfg' = [cfg EXCEPT !.repositories[i] =
                 [repo EXCEPT !.nameRepo = RepoName(repo), !.nameImage = NameImage(repo)]]
    /\ i' = i + 1
    /\ phase' = "loop"
    /\ UNCHANGED <<posted, file, repo>>

Loaded ==
    /\ phase = "loop" /\ i > Len(cfg.repositories)
    /\ phase' = "loaded"
    /\ UNCHANGED <<posted, file, cfg, i, repo>>

(* main exits when it cannot make the docker client, and dereferences      *)
(* cfg.Gitea to make those of the git servers.                             *)
StartMain ==
    /\ phase = "loaded"
    /\ \/ phase' = "exit"
       \/ phase' = IF cfg.gitea = "absent" THEN "panic" ELSE "running"
    /\ UNCHANGED <<posted, file, cfg, i, repo>>

Next ==
    \/ Post \/ Write \/ LoadConfig \/ FillDefaults \/ Refuse \/ PutBack
    \/ Loaded \/ StartMain

Spec == Init /\ [][Next]_vars

-----------------------------------------------------------------------------
(* What /config/update accepts and saves, the watcher and the next start   *)
(* can load.                                                               *)
PostedIsLoadable == ~(posted /\ phase = "refused")

(* What LoadConfig loads, /config/update accepts: an operator can save the *)
(* configuration the program runs with.                                    *)
LoadedIsPostable == phase \in {"loaded", "running"} => Validate(file)

(* Loading keeps the order and the number of the entries, which the API's  *)
(* repository indices are, and everything the operator wrote into them.    *)
EntriesAreKept ==
    phase = "loaded" => \A j \in DOMAIN file.repositories :
        \A f \in Fields \ {"nameRepo", "nameImage"} :
            \/ cfg.repositories[j][f] = file.repositories[j][f]
            \/ file.repositories[j][f] \in {"", "nil"}

(* Fields left empty have their documented defaults: branch "main",        *)
(* Dockerfile "Dockerfile" (README.md), auth github (config.example.yaml). *)
DefaultsAreFilledIn ==
    phase = "loaded" => \A j \in DOMAIN cfg.repositories :
        LET e == cfg.repositories[j] IN
          e.branch # "" /\ e.dockerfileProject # "" /\ e.auth # ""

(* The example configuration of the repository is loaded.                  *)
ExampleIsLoaded == phase # "refused"

(* The program starts with the configuration README.md calls complete.     *)
CompleteExampleStarts == phase # "panic"

(* github.token may be left out ("否" under "必填", README.md).            *)
TokenIsOptional ==
    phase = "refused" => file.missing # {"github.token"}

=============================================================================
