----------------------------- MODULE MCScheduler -----------------------------
(***************************************************************************)
(* Instances of Scheduler: two lists that move a repository from cron to   *)
(* at once and back, with disabled, unauthenticated and malformed entries. *)
(***************************************************************************)
EXTENDS Scheduler

Entry(repo, enabled, auth, when) ==
    [repo |-> repo, enabled |-> enabled, auth |-> auth, cron |-> when]

Hourly == Entry("app", "true", "github", "valid")
AtOnce == Entry("app", "unset", "github", "")
Nightly == Entry("tool", "unset", "gitea", "valid")
ToolNow == Entry("tool", "true", "gitea", "")
Disabled == Entry("tool", "false", "gitea", "valid")
NoAuth == Entry("lib", "true", "", "")
Malformed == Entry("lib", "true", "gitea", "malformed")

MCEntries == {Hourly, AtOnce, Nightly, ToolNow, Disabled, NoAuth, Malformed}
MCConfigs == {{Hourly, Nightly, NoAuth}, {AtOnce, ToolNow, Disabled, Malformed}}

=============================================================================
