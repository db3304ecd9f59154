-------------------------- MODULE RepositoryEntries --------------------------
(***************************************************************************)
(* What the scheduler reads of the entries of a configuration.             *)
(***************************************************************************)

CONSTANTS
    Entries,        \* repository entries
    Configs,        \* configurations: sets of them
    GitClients      \* keys of gitClients, the same map for the whole run

ASSUME EntriesAssumption ==
    /\ Configs \subseteq SUBSET Entries
    /\ \A e \in Entries : /\ DOMAIN e = {"repo", "enabled", "auth", "cron"}
                          /\ e.enabled \in {"unset", "true", "false"}
                          /\ e.cron \in {"", "valid", "malformed"}

(* Enabled is a pointer: nil counts as enabled.                            *)
Eligible(e) == e.enabled # "false" /\ e.auth \in GitClients

(* Built when the list is loaded, or when their time comes; AddFunc        *)
(* refuses what it cannot parse.                                           *)
Immediate(c) == {e \in c : Eligible(e) /\ e.cron = ""}
Timed(c) == {e \in c : Eligible(e) /\ e.cron = "valid"}

=============================================================================
