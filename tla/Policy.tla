------------------------------- MODULE Policy -------------------------------
(***************************************************************************)
(* internal/policies: what of a worker's result may be written back.       *)
(*                                                                         *)
(* A result has a part for each section, Nil when the worker sent none: a  *)
(* comment is its length in runes, a commit the length of its diff, labels *)
(* are two lists, in which a label may occur more than once.  `output'     *)
(* says whether the result has a non-empty output.                         *)
(***************************************************************************)
EXTENDS Naturals, Sequences, FiniteSets

CONSTANTS Nil, Label,
          LowerCase,    \* strings.ToLower
          Suffix        \* length of truncationSuffix

Section == {"comment", "labels", "status", "commit", "metadata"}
ValidStatusStates == {"error", "failure", "pending", "success"}

Result == [output   : BOOLEAN,
           comment  : Nat \cup {Nil},
           labels   : [add : Seq(Label), remove : Seq(Label)] \cup {Nil},
           status   : STRING \cup {Nil},
           commit   : Nat \cup {Nil},
           metadata : BOOLEAN \cup {Nil}]

(* A section of the YAML is absent, something other than a mapping, or a    *)
(* mapping whose `allow' is absent, a boolean or neither.                   *)
SectionYaml == [kind    : {"absent", "other", "map"},
                allow   : {"absent", "true", "false", "other"},
                max     : Nat,
                allowed : SUBSET Label, blocked : SUBSET Label]

SectionRule == [allow : BOOLEAN, max : Nat, allowed : SUBSET Label, blocked : SUBSET Label]

ASSUME PolicyAssumption == /\ LowerCase \in [Label -> Label] /\ Suffix \in Nat
                           /\ Nil \notin SectionRule /\ Nil \notin ValidStatusStates

-----------------------------------------------------------------------------
(* ParseRules.  Limits and lists of a wrong type have been read as 0 and    *)
(* empty.                                                                   *)
Rule(s) == IF s.kind = "map"
           THEN [allow   |-> s.allow = "true", max |-> s.max,
                 allowed |-> s.allowed, blocked |-> s.blocked]
           ELSE Nil

AllowAll == [kind |-> "all",   rule |-> [x \in Section |-> Nil]]
DenyAll  == [kind |-> "none",  rule |-> [x \in Section |-> Nil]]

(* getWorkerPolicy: yaml is Nil without a worker or a policy key. *)
WorkerPolicy(yaml) ==
    CASE yaml = Nil \/ (\A x \in Section : yaml[x].kind = "absent") -> AllowAll
      [] \E x \in Section : yaml[x].kind = "map" /\ yaml[x].allow = "other" -> DenyAll
      [] OTHER -> [kind |-> "rules", rule |-> [x \in Section |-> Rule(yaml[x])]]

-----------------------------------------------------------------------------
Denies(p) == p # Nil /\ ~p.allow

TruncateFull(n, max) ==  \* a variant: the suffix is not counted
    IF max <= Suffix THEN max ELSE max + Suffix

(* Too small a limit leaves no room for the suffix. *)
Truncate(n, max) == IF max <= Suffix THEN max ELSE (max - Suffix) + Suffix

ApplyComment(n, p) ==
    IF n = Nil \/ Denies(p) THEN Nil
    ELSE IF p # Nil /\ p.max > 0 /\ n > p.max THEN Truncate(n, p.max) ELSE n

(* What is left of a list, each label under the place it had. *)
Keep(ls, P(_)) == [i \in {j \in DOMAIN ls : P(ls[j])} |-> ls[i]]

ExactLabelList(ls, p) ==  \* a variant: labels are compared as they are spelled
    Keep(ls, LAMBDA l : l \notin p.blocked /\ (p.allowed # {} => l \in p.allowed))

FilterLabelList(ls, p) ==
    LET In(l, list) == \E m \in list : LowerCase[m] = LowerCase[l]
    IN  Keep(ls, LAMBDA l : ~In(l, p.blocked) /\ (p.allowed # {} => In(l, p.allowed)))

ApplyLabels(ls, p) ==
    IF ls = Nil \/ Denies(p) THEN Nil
    ELSE IF p = Nil THEN ls
    ELSE LET left == [add    |-> FilterLabelList(ls.add, p),
                      remove |-> FilterLabelList(ls.remove, p)]
         IN  IF DOMAIN left.add \cup DOMAIN left.remove = {} THEN Nil ELSE left

ApplyStatus(s, p) == IF s = Nil \/ Denies(p) \/ s \notin ValidStatusStates \cup {""}
                     THEN Nil ELSE s

ApplyCommit(n, p) ==
    IF n = Nil \/ Denies(p) THEN Nil
    ELSE IF p # Nil /\ p.max > 0 /\ n > p.max THEN Nil ELSE n

ApplyMetadata(m, p) == IF Denies(p) THEN Nil ELSE m

(* Filter.Apply of the three filters; the output always goes through. *)
Apply(f, res) ==
    CASE f.kind = "all"   -> res
      [] f.kind = "none"  -> [x \in DOMAIN res |-> IF x = "output" THEN res[x] ELSE Nil]
      [] f.kind = "rules" ->
            [output   |-> res.output,
             comment  |-> ApplyComment(res.comment, f.rule["comment"]),
             labels   |-> ApplyLabels(res.labels, f.rule["labels"]),
             status   |-> ApplyStatus(res.status, f.rule["status"]),
             commit   |-> ApplyCommit(res.commit, f.rule["commit"]),
             metadata |-> ApplyMetadata(res.metadata, f.rule["metadata"])]
=============================================================================
