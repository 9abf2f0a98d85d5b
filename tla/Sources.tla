------------------------------ MODULE Sources ------------------------------
(***************************************************************************)
(* internal/source: what Parse makes of a webhook request, and Hydrate of  *)
(* its event.                                                              *)
(*                                                                         *)
(* A delivery is what a platform sends, once or several times: its source, *)
(* the secret it is signed with, its kind and action, how it is identified *)
(* and the objects its payload has (an object's parent is there too).      *)
(*                                                                         *)
(* Of an attribute only its key is kept and how its value prints: "plain", *)
(* or "exponent", which is how a number of a million or more prints once   *)
(* it is a float64 (1.23e+06).  These are the `large' keys of a delivery.  *)
(***************************************************************************)
CONSTANTS NoId, NoSecret, NoAction, NoKind

Delivery == [source : STRING, secret : STRING, kind : STRING \cup {NoKind},
             action : STRING \cup {NoAction},
             id : {"header", "request", "none"}, has : SUBSET STRING,
             large : SUBSET {"number", "from_id", "chat_id", "message_id"}]

-----------------------------------------------------------------------------
(* The attributes taken from each object of a payload.  The object with the *)
(* name of the kind stands for the one the kind cannot do without.          *)
GitHub == [pull_request  |-> [pull_request |-> {"number", "title", "body"},
                              head         |-> {"head_sha", "head_branch", "ref"},
                              base         |-> {"base_branch", "base_sha"},
                              labels       |-> {"labels"}],
           push          |-> [push |-> {"ref"}, after |-> {"head_sha"},
                              compare |-> {"compare_url"}, commits |-> {"commits"}],
           issues        |-> [issues |-> {"number", "title", "body"}],
           issue_comment |-> [issue |-> {"number", "title"}, comment |-> {"comment"}]]

GitLab == [merge_request |-> [merge_request |-> {"number", "title", "body"},
                              source_branch |-> {"head_branch"},
                              target_branch |-> {"base_branch"},
                              last_commit   |-> {"ref", "head_sha"}],
           push          |-> [push |-> {"ref"}, after |-> {"head_sha"},
                              commits |-> {"commits"}],
           tag_push      |-> [tag_push |-> {"ref"}, after |-> {"head_sha"},
                              commits |-> {"commits"}],
           note          |-> [object_attributes |-> {"comment"},
                              merge_request |-> {"number", "title"},
                              issue         |-> {"number", "title"}],
           issue         |-> [issue |-> {"number", "title", "body"}]]

(* Slack's events all have the same objects. *)
Slack == [channel |-> {"channel"}, text |-> {"text"}, thread_ts |-> {"thread_ts"},
          ts |-> {"ts"}, team_id |-> {"team_id"}]

TelegramMessage == [from |-> {"sender", "from_id"}, chat |-> {"chat_id"},
                    chat_type |-> {"chat_type"}, chat_title |-> {"chat_title"},
                    text |-> {"text"}, message_id |-> {"message_id"}]

Telegram == [message        |-> TelegramMessage,
             edited_message |-> TelegramMessage,
             callback_query |-> [from |-> {"sender"}, data |-> {"callback_data"},
                                 chat |-> {"chat_id"}],
             inline_query   |-> [from |-> {"sender"}, query |-> {"query"}]]

Repository == [repository |-> {"repo_owner", "repo_name"}]  \* full_name, path_with_namespace

-----------------------------------------------------------------------------
Taken(table, has) == UNION {table[o] : o \in has \cap DOMAIN table}

OfKind(tables, d) == IF d.kind \in DOMAIN tables THEN Taken(tables[d.kind], d.has) ELSE {}

Keys(d) ==
    CASE d.source = "github"   -> {"sender"} \cup Taken(Repository, d.has) \cup OfKind(GitHub, d)
      [] d.source = "gitlab"   -> {"sender"} \cup Taken(Repository, d.has) \cup OfKind(GitLab, d)
      [] d.source = "slack"    -> {"sender"} \cup Taken(Slack, d.has)
      [] d.source = "telegram" -> {"update_id"} \cup OfKind(Telegram, d)

(* Parse makes an int of every number it takes; the column attrs is JSON,   *)
(* and what is read back from it is a float64 (scanEvent).                  *)
Attrs(d) == [k \in Keys(d) |-> "plain"]

ReadBack(d, have) ==
    [k \in DOMAIN have |-> IF k \in d.large THEN "exponent" ELSE have[k]]

(* An action qualifies the kind of an event, where the platform has them. *)
Qualified(d) == \/ d.source = "github"
                \/ d.source = "gitlab" /\ d.kind \in {"merge_request", "issue"}
                \/ d.source = "slack"     \* there it is called a subtype

Type(d) == IF Qualified(d) /\ d.action # NoAction THEN <<d.kind, d.action>> ELSE <<d.kind>>

(* Parse refuses a request that is not signed with the source's secret, or *)
(* does not say what it is.  Telegram's are never without a kind.          *)
Parses(d, secret) == /\ secret \in {NoSecret, d.secret}
                     /\ d.kind # NoKind \/ d.source = "telegram"

(* DeliveryID.  Telegram's is a digest of the body; GitLab falls back to    *)
(* the id of the request, which a second delivery does not share.           *)
HasId(d) == d.id = "header" \/ d.source = "telegram"

IdOf(d, r) == CASE HasId(d)                                -> d
                [] d.id = "request" /\ d.source = "gitlab" -> r
                [] OTHER                                   -> NoId

(* Hydrate, for which a token is needed.  A request to GitHub that fails    *)
(* leaves the attribute empty, and says so in another one.                  *)
Hydrates(d, have) == d.source = "github" /\ d.kind = "pull_request" /\ "number" \in DOMAIN have

Added(have, keys) ==
    [k \in DOMAIN have \cup keys |-> IF k \in keys THEN "plain" ELSE have[k]]

Hydrations(d, have) ==
    {have} \cup IF Hydrates(d, have)
                THEN {Added(have, {"diff", "file_list"}),
                      Added(have, {"diff", "file_list", "diff_error"})}
                ELSE {}
=============================================================================
