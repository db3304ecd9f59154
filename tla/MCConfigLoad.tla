---------------------------- MODULE MCConfigLoad -----------------------------
(***************************************************************************)
(* Instances of ConfigLoad: every combination of the fields for one entry, *)
(* lists of two, and the configurations the repository's documents show.   *)
(***************************************************************************)
EXTENDS ConfigLoad

Entry(url, auth, branch, tag, platforms, project, user) ==
    [url |-> url, auth |-> auth, branch |-> branch, tag |-> tag, platforms |-> platforms,
     dockerfileProject |-> project, dockerfileUser |-> user, nameRepo |-> "", nameImage |-> ""]

AllEntries ==
    {Entry(url, auth, branch, tag, platforms, project, user) :
        url \in {"", "github", "gitea"}, auth \in {"", "gitea"}, branch \in {"", "main", "dev"},
        tag \in {"", "v1"}, platforms \in {"nil", "empty", "two"},
        project \in {"", "docker/Dockerfile"}, user \in {"", "go/Dockerfile"}}

Picoclaw == Entry("github", "github", "main", "latest", "two", "docker/Dockerfile", "")
Thrift == Entry("", "", "master", "latest", "two", "", "go-thrift/Dockerfile")
Readme == Entry("github", "", "", "", "two", "Dockerfile", "")
Bare == Entry("github", "", "", "", "nil", "", "")
Empty == Entry("", "", "dev", "v1", "nil", "", "")

Lists == {<<>>} \cup {<<e>> : e \in AllEntries}
         \cup [{1, 2} -> {Picoclaw, Bare, Empty}]

MCRequired == {"docker_hub.username", "docker_hub.password", "github.token", "github.username"}

(* A configuration that decodes, without an address.                       *)
Given(missing, gitea, repositories) ==
    [decodes |-> TRUE, webHttp |-> [ip |-> "", port |-> 0], missing |-> missing, gitea |-> gitea,
     repositories |-> repositories]

Torn == [Given({}, "set", <<Picoclaw>>) EXCEPT !.decodes = FALSE]

Local == [Given({}, "set", <<Picoclaw>>) EXCEPT
                !.webHttp = [ip |-> "127.0.0.1", port |-> 9000]]

MCRaws == {Given(missing, gitea, list) : missing \in {{}, {"github.token"}},
               gitea \in {"absent", "noUrl", "set"}, list \in Lists}
          \cup {Torn, Local, [Local EXCEPT !.webHttp.port = 0]}

(* config.example.yaml, whose gitea section has no url; the complete       *)
(* configuration of README.md, which has no such section and names the     *)
(* branch and the tag by keys that are not read; the same without its      *)
(* optional token; and a short one.                                        *)
Example == Given({}, "noUrl", <<Picoclaw, Thrift>>)
Complete == Given({}, "absent", <<Readme>>)
MCExample == {Example}
MCComplete == {Complete}
MCNoToken == {[Complete EXCEPT !.missing = {"github.token"}]}
MCShort == {Given({}, "set", <<Bare>>)}

=============================================================================
