------------------------------ MODULE MCIntake ------------------------------
(***************************************************************************)
(* Values for TLC: a pull request, which is hydrated, and a message from a *)
(* chat with a large number; two workers, of which one looks at what       *)
(* hydration adds and at that number; and secrets with which one of the    *)
(* two platforms is refused, or both are let in after a reload.            *)
(***************************************************************************)
EXTENDS Intake, TLC

CONSTANTS r1, r2

PullRequest ==
    [source |-> "github", secret |-> "s1", kind |-> "pull_request", action |-> "opened",
     id |-> "header", has |-> {"repository", "pull_request"}, large |-> {}]

Message ==
    [source |-> "telegram", secret |-> "s2", kind |-> "message", action |-> NoAction,
     id |-> "none", has |-> {"chat", "text"}, large |-> {"chat_id"}]

All == <<>>  \* a filter of no keys

OnGitHub(auto, filter, uses) ==
    [source |-> "github", on |-> {<<"pull_request", "opened">>}, auto |-> auto,
     filter |-> filter, uses |-> uses]

OnTelegram(filter) ==
    [source |-> "telegram", on |-> {<<"message">>}, auto |-> TRUE,
     filter |-> filter, uses |-> {"text"}]

MCRequest == {r1, r2}
MCDeliveries == {PullRequest, Message}
MCWorker == [bob |-> 1, eve |-> 2]

MCRegistries ==
    {[bob |-> <<OnGitHub(FALSE, All, {}), OnGitHub(TRUE, [title |-> "plain"], {"diff"}),
                OnTelegram([chat_id |-> "plain"])>>,
      eve |-> <<OnGitHub(TRUE, All, {"title"})>>],
     [bob |-> <<OnGitHub(TRUE, [diff_error |-> "plain"], {})>>,
      eve |-> <<OnGitHub(TRUE, [diff |-> "<nil>"], {}), OnTelegram([text |-> "plain"])>>]}

MCSecretFiles ==
    {[github |-> "s1", telegram |-> "s1"],
     [github |-> NoSource, telegram |-> "s2"]}

MCKey == {"github", "telegram"}

Symmetry == Permutations(MCRequest)
=============================================================================
