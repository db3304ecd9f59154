---------------------------- MODULE MCBuildControl ----------------------------
(***************************************************************************)
(* Instances of BuildControl for TLC.                                      *)
(***************************************************************************)
EXTENDS BuildControl

CONSTANTS r1, r2

MCRepos == {r1, r2}

MCIndices == {0, 1}

(* Two entries, or only the second one: an index changes its repository    *)
(* or becomes invalid when one list replaces the other.                    *)
MCConfigs == {<<r1, r2>>, <<r2>>}

(* A single index, and its repository with and without a git client.       *)
MCIndex == {0}

MCSingleConfigs == {<<r1>>, <<r2>>}

=============================================================================
