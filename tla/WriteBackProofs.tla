-------------------------- MODULE WriteBackProofs --------------------------
(***************************************************************************)
(* Proofs about WriteBack, for every set of results, targets, policy       *)
(* sections and events, and every number of attempts, faults and edits.    *)
(***************************************************************************)
EXTENDS WriteBack, FiniteSetTheorems, SequenceTheorems, TLAPS

-----------------------------------------------------------------------------
(* The inductive invariant, in parts.                                      *)

(* A plan is a sequence in which nothing occurs twice. *)
IsPlan(s) == s \in Seq(Range(s)) /\ IsInjective(s)

IsBag(b) == b = [a \in DOMAIN b |-> b[a]] /\ \A a \in DOMAIN b : b[a] \in Nat \ {0}

Attempting(e) == pc[e] \in {"first", "again"}

Shape ==
    /\ event \in [Event -> Events!EventRow]
    /\ result \in [Event -> Results \cup {Nil}]
    /\ target = [e \in Event |-> target[e]]
    /\ yaml \in Policies \cup {Nil}
    /\ pc \in [Event -> {"due", "first", "again", "idle"}]
    /\ plan = [e \in Event |-> plan[e]] /\ failed = [e \in Event |-> failed[e]]
    /\ rows \subseteq Event
    /\ faults \in Nat /\ edits \in Nat
    /\ posted = [e \in Event |-> posted[e]] /\ acked = [e \in Event |-> acked[e]]
    /\ under = [e \in Event |-> under[e]]
    /\ lost \in [Event -> Nat]

(* What the row of an event says at each place of its write-back. *)
Place(e) ==
    /\ pc[e] \in {"due", "first"} =>
          event[e].state \in {"dispatched", "failed"} /\ event[e].attempts = 0
    /\ pc[e] = "again" => /\ event[e].state \in {"write_back_failed", "failed"}
                          /\ event[e].attempts < MaxWriteBack
                          /\ rows \cap {e} = {}
    /\ e \in rows => /\ pc[e] = "idle"
                     /\ event[e].state \in {"write_back_failed", "failed"}
    /\ event[e].state = "completed" => pc[e] = "idle"
    /\ event[e].attempts <= MaxWriteBack

OneAtATime == \A d, e \in Event : pc[d] = "again" /\ pc[e] = "again" => d = e

Planned(e) ==
    /\ IsPlan(plan[e]) /\ IsBag(posted[e])
    /\ plan[e] # <<>> => Attempting(e)
    /\ acked[e] \subseteq DOMAIN posted[e]
    /\ \A a \in Range(plan[e]) : a[2] = "output" \/ Permits(under[e].yaml, a)
    /\ Range(plan[e]) \subseteq under[e].asked \ acked[e]
    /\ OutputAlone(under[e].asked)

(* Nothing that is asked gets lost between the plan and the answers. *)
Complete(e) ==
    /\ Attempting(e) => failed[e] \/ under[e].asked \subseteq Range(plan[e]) \cup acked[e]
    /\ event[e].state = "completed" => under[e].asked \subseteq acked[e]

(* How often an action has been or will be done, by what has been counted.  *)
Waiting(e) == \/ pc[e] = "due"
              \/ pc[e] = "idle" /\ (event[e].state = "write_back_failed" \/ e \in rows)
Counted(e) ==
    \A a \in DOMAIN posted[e] \cup Range(plan[e]) :
        LET n == Copies(a, posted[e]) + IF a \in Range(plan[e]) THEN 1 ELSE 0
        IN  /\ n <= event[e].attempts + lost[e] + 1
            /\ n <= MaxWriteBack + lost[e]
            /\ Waiting(e) => n <= event[e].attempts + lost[e]

IInv == Shape /\ OneAtATime
        /\ \A e \in Event : Place(e) /\ Planned(e) /\ Complete(e) /\ Counted(e)

-----------------------------------------------------------------------------
(* Plans, as sequences.                                                    *)
LEMMA PlanDomain ==
    ASSUME NEW s, IsPlan(s)
    PROVE  /\ Len(s) \in Nat /\ DOMAIN s = 1..Len(s)
           /\ \A i \in 1..Len(s) : s[i] \in Range(s)
           /\ \A i, j \in 1..Len(s) : s[i] = s[j] => i = j
BY LenProperties DEF IsPlan, IsInjective, Range

LEMMA EmptyPlan == IsPlan(<<>>) /\ Range(<<>>) = {}
<1>1. DOMAIN <<>> = {}
  OBVIOUS
<1>2. Range(<<>>) = {} /\ IsInjective(<<>>)
  BY <1>1 DEF Range, IsInjective
<1>3. QED  BY <1>2, EmptySeq DEF IsPlan

LEMMA SinglePlan == ASSUME NEW a PROVE IsPlan(<<a>>) /\ Range(<<a>>) = {a}
<1>1. DOMAIN <<a>> = {1} /\ <<a>>[1] = a
  OBVIOUS
<1>2. Range(<<a>>) = {a} /\ IsInjective(<<a>>)
  BY <1>1 DEF Range, IsInjective
<1>3. <<a>> \in Seq({a})
  OBVIOUS
<1>4. QED  BY <1>2, <1>3 DEF IsPlan

LEMMA ConcatPlan ==
    ASSUME NEW s, NEW t, IsPlan(s), IsPlan(t), Range(s) \cap Range(t) = {}
    PROVE  IsPlan(s \o t) /\ Range(s \o t) = Range(s) \cup Range(t)
<1> DEFINE S == Range(s) \cup Range(t)
           u == s \o t
<1>1. s \in Seq(S) /\ t \in Seq(S)
  BY SeqMonotonic DEF IsPlan
<1>2. /\ u \in Seq(S) /\ Len(u) = Len(s) + Len(t)
      /\ \A i \in 1..Len(s) + Len(t) : u[i] = IF i <= Len(s) THEN s[i] ELSE t[i - Len(s)]
  BY <1>1, ConcatProperties
<1>3. Len(s) \in Nat /\ Len(t) \in Nat /\ DOMAIN u = 1..Len(s) + Len(t)
  BY <1>2, PlanDomain, LenProperties
<1> HIDE DEF u
<1>4. Range(u) = S
  <2>1. ASSUME NEW i \in DOMAIN u PROVE u[i] \in S
    BY <1>2, <1>3, <2>1, PlanDomain
  <2>2. ASSUME NEW a \in Range(s) PROVE \E i \in DOMAIN u : u[i] = a
    <3>1. PICK i \in 1..Len(s) : s[i] = a
      BY <2>2, PlanDomain DEF Range
    <3>2. i \in DOMAIN u /\ u[i] = a
      BY <1>2, <1>3, <3>1
    <3>3. QED  BY <3>2
  <2>3. ASSUME NEW a \in Range(t) PROVE \E i \in DOMAIN u : u[i] = a
    <3>1. PICK i \in 1..Len(t) : t[i] = a
      BY <2>3, PlanDomain DEF Range
    <3>2. /\ i + Len(s) \in 1..Len(s) + Len(t) /\ ~(i + Len(s) <= Len(s))
          /\ (i + Len(s)) - Len(s) = i
      BY <1>3
    <3>3. u[i + Len(s)] = t[i]
      BY <1>2, <3>2
    <3>4. i + Len(s) \in DOMAIN u /\ u[i + Len(s)] = a
      BY <1>3, <3>1, <3>2, <3>3
    <3>5. QED  BY <3>4
  <2>4. QED  BY <2>1, <2>2, <2>3 DEF Range
<1>5. IsInjective(u)
  <2> SUFFICES ASSUME NEW i \in DOMAIN u, NEW j \in DOMAIN u, u[i] = u[j] PROVE i = j
    BY DEF IsInjective
  <2>1. CASE i <= Len(s) /\ j <= Len(s)
    BY <1>2, <1>3, <2>1, PlanDomain
  <2>2. CASE ~(i <= Len(s)) /\ ~(j <= Len(s))
    <3>1. i - Len(s) \in 1..Len(t) /\ j - Len(s) \in 1..Len(t)
      BY <1>3, <2>2
    <3>2. t[i - Len(s)] = t[j - Len(s)]
      BY <1>2, <1>3, <2>2
    <3>3. i - Len(s) = j - Len(s)
      BY <3>1, <3>2, PlanDomain
    <3>4. QED  BY <1>3, <3>3
  <2>3. ASSUME NEW k \in DOMAIN u, NEW l \in DOMAIN u, k <= Len(s), ~(l <= Len(s))
        PROVE  u[k] # u[l]
    <3>1. u[k] \in Range(s)
      BY <1>2, <1>3, <2>3, PlanDomain
    <3>2. l - Len(s) \in 1..Len(t) /\ u[l] = t[l - Len(s)]
      BY <1>2, <1>3, <2>3
    <3>3. u[l] \in Range(t)
      BY <3>2, PlanDomain
    <3>4. QED  BY <3>1, <3>3
  <2>4. QED  BY <1>3, <2>1, <2>2, <2>3
<1>6. QED  BY <1>2, <1>4, <1>5 DEF IsPlan, u

LEMMA TailPlan ==
    ASSUME NEW s, IsPlan(s), s # <<>>
    PROVE  /\ IsPlan(Tail(s))
           /\ Range(s) = Range(Tail(s)) \cup {Head(s)} /\ Head(s) \notin Range(Tail(s))
<1> DEFINE t == Tail(s)
<1>1. /\ t \in Seq(Range(s)) /\ Len(t) = Len(s) - 1
      /\ \A i \in 1..Len(t) : t[i] = s[i + 1]
  BY HeadTailProperties DEF IsPlan
<1>2. Len(s) \in Nat \ {0} /\ DOMAIN s = 1..Len(s) /\ Head(s) = s[1]
  BY EmptySeq, LenProperties DEF IsPlan
<1>3. DOMAIN t = 1..Len(t)
  BY <1>1, LenProperties
<1> HIDE DEF t
<1>4. \A i \in 1..Len(t) : i + 1 \in 1..Len(s) /\ i + 1 # 1
  BY <1>1, <1>2
<1>5. Range(s) = Range(t) \cup {Head(s)}
  <2>1. Range(t) \subseteq Range(s)
    BY <1>1, <1>2, <1>3, <1>4 DEF Range
  <2>2. ASSUME NEW i \in DOMAIN s, i # 1 PROVE s[i] \in Range(t)
    <3>1. i - 1 \in 1..Len(t) /\ t[i - 1] = s[i]
      BY <1>1, <1>2, <2>2
    <3>2. QED  BY <1>3, <3>1 DEF Range
  <2>3. 1 \in DOMAIN s /\ s[1] = Head(s)
    BY <1>2
  <2>4. \A a \in Range(s) : \E i \in DOMAIN s : a = s[i]
    BY DEF Range
  <2>5. Head(s) \in Range(s)
    BY <2>3 DEF Range
  <2>6. QED  BY <2>1, <2>2, <2>3, <2>4, <2>5
<1>6. Head(s) \notin Range(t)
  <2>1. ASSUME NEW i \in 1..Len(t) PROVE t[i] # Head(s)
    <3>1. i + 1 \in 1..Len(s) /\ 1 \in 1..Len(s) /\ i + 1 # 1
      BY <1>2, <1>4
    <3>2. s[i + 1] # s[1]
      BY <3>1, PlanDomain
    <3>3. QED  BY <1>1, <1>2, <3>2
  <2>2. QED  BY <1>3, <2>1 DEF Range
<1>7. IsInjective(t)
  BY <1>1, <1>2, <1>3, <1>4, PlanDomain DEF IsInjective
<1>8. t \in Seq(Range(t))
  <2>1. \A i \in 1..Len(t) : t[i] \in Range(t)
    BY <1>3 DEF Range
  <2>2. Len(t) \in Nat /\ t \in [1..Len(t) -> Range(t)]
    <3>1. t \in [1..Len(t) -> Range(s)]
      BY <1>1, LenProperties
    <3>2. QED  BY <1>1, <1>2, <2>1, <3>1
  <2>3. QED  BY <2>2
<1>9. QED  BY <1>5, <1>6, <1>7, <1>8 DEF IsPlan, t

(* SetToSeq lists the members of a finite set. *)
LEMMA SetPlan ==
    ASSUME NEW S, IsFiniteSet(S)
    PROVE  IsPlan(SetToSeq(S)) /\ Range(SetToSeq(S)) \subseteq S
<1> DEFINE n == Cardinality(S)
           s == SetToSeq(S)
<1>1. n \in Nat /\ ExistsBijection(1..n, S)
  BY FS_CardinalityType
<1>2. \E f \in [1..n -> S] : IsInjective(f)
  BY <1>1 DEF ExistsBijection, Bijection, Injection, IsInjective
<1>3. s \in [1..n -> S] /\ IsInjective(s)
  BY <1>2 DEF SetToSeq
<1> HIDE DEF s
<1>4. Range(s) \subseteq S
  BY <1>3 DEF Range
<1>5. s \in Seq(Range(s))
  <2>1. s = [i \in 1..n |-> s[i]] /\ \A i \in 1..n : s[i] \in Range(s)
    BY <1>3 DEF Range
  <2>2. QED  BY <1>1, <2>1, IsASeq
<1>6. QED  BY <1>3, <1>4, <1>5 DEF IsPlan, s

-----------------------------------------------------------------------------
(* What the filters let through.                                           *)
Yaml == [Section -> SectionYaml]
Configured(y) == y # Nil /\ \E s \in Section : y[s].kind # "absent"
Rules(y) == [x \in Section |-> Rule(y[x])]

(* The three filters. *)
LEMMA WhichPolicy ==
    ASSUME NEW y \in Yaml \cup {Nil}
    PROVE  \/ /\ WorkerPolicy(y) = AllowAll
              /\ ~Configured(y) /\ ~FailsClosed(y) /\ \A x \in Section : ~Mapping(y, x)
           \/ WorkerPolicy(y) = DenyAll
           \/ /\ WorkerPolicy(y) = [kind |-> "rules", rule |-> Rules(y)]
              /\ ~FailsClosed(y) /\ y \in Yaml
<1>1. CASE y = Nil \/ (\A x \in Section : y[x].kind = "absent")
  BY <1>1 DEF WorkerPolicy, Configured, FailsClosed, Mapping
<1>2. CASE /\ y # Nil /\ ~(\A x \in Section : y[x].kind = "absent")
           /\ \E x \in Section : y[x].kind = "map" /\ y[x].allow = "other"
  BY <1>2 DEF WorkerPolicy
<1>3. CASE /\ y # Nil /\ ~(\A x \in Section : y[x].kind = "absent")
           /\ ~ \E x \in Section : y[x].kind = "map" /\ y[x].allow = "other"
  <2>1. WorkerPolicy(y) = [kind |-> "rules", rule |-> Rules(y)]
    BY <1>3 DEF WorkerPolicy, Rules
  <2>2. ~FailsClosed(y) /\ y \in Yaml
    BY <1>3 DEF FailsClosed, Mapping
  <2>3. QED  BY <2>1, <2>2
<1>4. QED  BY <1>1, <1>2, <1>3

(* A section that is a mapping has a rule, and one that denies says so. *)
LEMMA RuleOf ==
    ASSUME NEW y \in Yaml, NEW x \in Section
    PROVE  LET p == Rules(y)[x]
           IN  /\ Mapping(y, x) => /\ p \in SectionRule /\ p # Nil
                                   /\ p.max = y[x].max /\ p.allowed = y[x].allowed
                                   /\ p.blocked = y[x].blocked
               /\ ~Denies(p) => (Mapping(y, x) => y[x].allow = "true")
<1>1. y[x] \in SectionYaml /\ Rules(y)[x] = Rule(y[x])
  BY DEF Yaml, Rules
<1>2. CASE y[x].kind = "map"
  <2>1. Rule(y[x]) = [allow   |-> y[x].allow = "true", max |-> y[x].max,
                      allowed |-> y[x].allowed, blocked |-> y[x].blocked]
    BY <1>2 DEF Rule
  <2>2. Rule(y[x]) \in SectionRule
    BY <1>1, <2>1 DEF SectionYaml, SectionRule
  <2>3. Rule(y[x]) # Nil
    BY <2>2, PolicyAssumption DEF PolicyAssumption
  <2>4. Rule(y[x]).allow = (y[x].allow = "true")
    BY <2>1
  <2>5. ~Denies(Rule(y[x])) => y[x].allow = "true"
    BY <2>3, <2>4, Zenon DEF Denies
  <2>6. /\ Rule(y[x]).max = y[x].max /\ Rule(y[x]).allowed = y[x].allowed
        /\ Rule(y[x]).blocked = y[x].blocked
    BY <2>1
  <2>7. QED  BY <1>1, <2>2, <2>3, <2>5, <2>6, <1>2 DEF Mapping
<1>3. CASE y[x].kind # "map"
  BY <1>1, <1>3 DEF Rule, Mapping
<1>4. QED  BY <1>2, <1>3

LEMMA Limits ==
    ASSUME NEW n \in Nat \cup {Nil}, NEW y \in Yaml, NEW x \in Section
    PROVE  LET p == Rules(y)[x]
           IN  /\ ApplyComment(n, p) # Nil =>
                     /\ Mapping(y, x) => y[x].allow = "true"
                     /\ Mapping(y, x) /\ y[x].max > 0 => ApplyComment(n, p) <= y[x].max
               /\ ApplyCommit(n, p) # Nil =>
                     /\ Mapping(y, x) => y[x].allow = "true"
                     /\ Mapping(y, x) /\ y[x].max > 0 => ApplyCommit(n, p) <= y[x].max
<1> DEFINE p == Rules(y)[x]
<1>1. n = Nil => ApplyComment(n, p) = Nil /\ ApplyCommit(n, p) = Nil
  BY DEF ApplyComment, ApplyCommit
<1>2. Denies(p) => ApplyComment(n, p) = Nil /\ ApplyCommit(n, p) = Nil
  BY DEF ApplyComment, ApplyCommit
<1>3. CASE ~Mapping(y, x)
  BY <1>3
<1>4. CASE Mapping(y, x) /\ n # Nil /\ ~Denies(p)
  <2>1. p # Nil /\ p.max = y[x].max /\ y[x].max \in Nat /\ y[x].allow = "true"
    BY <1>4, RuleOf DEF Yaml, SectionYaml
  <2> HIDE DEF p
  <2>2. p.max > 0 /\ ApplyComment(n, p) # Nil => ApplyComment(n, p) <= p.max
    <3>1. Truncate(n, p.max) = p.max
      BY <2>1, PolicyAssumption DEF Truncate, PolicyAssumption
    <3>2. QED  BY <1>4, <2>1, <3>1 DEF ApplyComment
  <2>3. p.max > 0 /\ ApplyCommit(n, p) # Nil => ApplyCommit(n, p) <= p.max
    BY <1>4, <2>1 DEF ApplyCommit
  <2>4. QED  BY <2>1, <2>2, <2>3 DEF p
<1>5. QED  BY <1>1, <1>2, <1>3, <1>4

(* A list of labels, all of it or what the filter has left of it. *)
IsLabelList(ls) == IsFiniteSet(DOMAIN ls)

LEMMA ListsOfResult ==
    ASSUME NEW ls \in [add : Seq(Label), remove : Seq(Label)]
    PROVE  IsLabelList(ls.add) /\ IsLabelList(ls.remove)
<1>1. ASSUME NEW s \in Seq(Label) PROVE IsLabelList(s)
  BY LenProperties, FS_Interval DEF IsLabelList
<1>2. QED  BY <1>1

LEMMA Labels ==
    ASSUME NEW ls \in [add : Seq(Label), remove : Seq(Label)] \cup {Nil}, NEW y \in Yaml
    PROVE  LET p == Rules(y)["labels"]
               k == ApplyLabels(ls, p)
           IN  k # Nil => /\ Mapping(y, "labels") => y["labels"].allow = "true"
                          /\ IsLabelList(k.add) /\ IsLabelList(k.remove)
                          /\ \A l \in Range(k.add) \cup Range(k.remove) : PermitsLabel(y, l)
<1> DEFINE p == Rules(y)["labels"]
           k == ApplyLabels(ls, p)
<1>0. "labels" \in Section
  BY DEF Section
<1> SUFFICES ASSUME k # Nil
             PROVE  /\ Mapping(y, "labels") => y["labels"].allow = "true"
                    /\ IsLabelList(k.add) /\ IsLabelList(k.remove)
                    /\ \A l \in Range(k.add) \cup Range(k.remove) : PermitsLabel(y, l)
  OBVIOUS
<1>1. ls # Nil /\ ~Denies(p) /\ IsLabelList(ls.add) /\ IsLabelList(ls.remove)
  <2>1. ls # Nil /\ ~Denies(p)
    BY DEF ApplyLabels
  <2>2. QED  BY <2>1, ListsOfResult
<1>2. Mapping(y, "labels") => /\ p # Nil /\ y["labels"].allow = "true"
                              /\ p.allowed = y["labels"].allowed
                              /\ p.blocked = y["labels"].blocked
  BY <1>0, <1>1, RuleOf
<1> HIDE DEF p
<1>3. CASE p = Nil
  <2>1. k = ls
    BY <1>1, <1>3 DEF ApplyLabels
  <2>2. QED  BY <1>1, <1>2, <1>3, <2>1 DEF PermitsLabel
<1>4. CASE p # Nil
  <2>1. k = [add    |-> FilterLabelList(ls.add, p), remove |-> FilterLabelList(ls.remove, p)]
    BY <1>1, <1>4 DEF ApplyLabels
  <2>2. ASSUME NEW m, IsLabelList(m)
        PROVE  LET left == FilterLabelList(m, p)
               IN  /\ IsLabelList(left)
                   /\ \A l \in Range(left) :
                         /\ ~ \E n \in p.blocked : LowerCase[n] = LowerCase[l]
                         /\ p.allowed = {} \/ \E n \in p.allowed : LowerCase[n] = LowerCase[l]
    <3> DEFINE left == FilterLabelList(m, p)
    <3>1. DOMAIN left \subseteq DOMAIN m
      BY DEF FilterLabelList, Keep
    <3>2. IsLabelList(left)
      BY <2>2, <3>1, FS_Subset DEF IsLabelList
    <3>3. \A i \in DOMAIN left :
             /\ ~ \E n \in p.blocked : LowerCase[n] = LowerCase[left[i]]
             /\ p.allowed = {} \/ \E n \in p.allowed : LowerCase[n] = LowerCase[left[i]]
      BY DEF FilterLabelList, Keep
    <3> HIDE DEF left
    <3>4. QED  BY <3>2, <3>3 DEF Range, left
  <2>3. /\ IsLabelList(k.add) /\ IsLabelList(k.remove)
        /\ \A l \in Range(k.add) \cup Range(k.remove) :
              /\ ~ \E n \in p.blocked : LowerCase[n] = LowerCase[l]
              /\ p.allowed = {} \/ \E n \in p.allowed : LowerCase[n] = LowerCase[l]
    BY <1>1, <2>1, <2>2
  <2>4. QED  BY <1>2, <2>3 DEF PermitsLabel, SomeSpelling
<1>5. QED  BY <1>3, <1>4

Passes(y, r) ==
    /\ r.comment # Nil => \A p : Permits(y, <<p, "comment", r.comment>>)
    /\ r.commit # Nil => \A p : Permits(y, <<p, "commit", r.commit>>)
    /\ r.status \notin {Nil, ""} => \A p : Permits(y, <<p, "status", r.status>>)
    /\ r.labels # Nil =>
          /\ IsLabelList(r.labels.add) /\ IsLabelList(r.labels.remove)
          /\ \A p : Permits(y, <<p, "labels", r.labels>>)
          /\ \A p : \A i \in DOMAIN r.labels.add :
                    Permits(y, <<p, "add", Listed(r.labels.add, i)>>)
          /\ \A p : \A i \in DOMAIN r.labels.remove :
                    Permits(y, <<p, "remove", Listed(r.labels.remove, i)>>)

(* When an action of each kind is permitted. *)
LEMMA PermitsLength ==
    ASSUME NEW y, ~FailsClosed(y), NEW x \in {"comment", "commit"},
           Mapping(y, x) => y[x].allow = "true",
           NEW n, Mapping(y, x) /\ y[x].max > 0 => n <= y[x].max, NEW p
    PROVE  Permits(y, <<p, x, n>>)
BY DEF Permits, SectionOf

LEMMA PermitsStatus ==
    ASSUME NEW y, ~FailsClosed(y), Mapping(y, "status") => y["status"].allow = "true",
           NEW s, Configured(y) => s \in ValidStatusStates, NEW p
    PROVE  Permits(y, <<p, "status", s>>)
BY DEF Permits, SectionOf, Configured

LEMMA PermitsBoth ==
    ASSUME NEW y, ~FailsClosed(y), Mapping(y, "labels") => y["labels"].allow = "true",
           NEW ls, \A l \in Range(ls.add) \cup Range(ls.remove) : PermitsLabel(y, l), NEW p
    PROVE  Permits(y, <<p, "labels", ls>>)
BY DEF Permits, SectionOf

LEMMA ListedOnce ==
    ASSUME NEW ls, NEW i \in DOMAIN ls, NEW j \in DOMAIN ls, Listed(ls, i) = Listed(ls, j)
    PROVE  i = j
<1>1. Listed(ls, i).at = i /\ Listed(ls, j).at = j
  BY DEF Listed
<1>2. QED  BY <1>1

LEMMA PermitsListed ==
    ASSUME NEW y, ~FailsClosed(y), Mapping(y, "labels") => y["labels"].allow = "true",
           NEW ls, \A l \in Range(ls) : PermitsLabel(y, l), NEW p, NEW i \in DOMAIN ls
    PROVE  Permits(y, <<p, "add", Listed(ls, i)>>) /\ Permits(y, <<p, "remove", Listed(ls, i)>>)
<1>1. PermitsLabel(y, ls[i])
  BY DEF Range
<1>2. QED  BY <1>1 DEF Permits, SectionOf, Listed

(* What the filter lets through of any result is permitted by the section   *)
(* of the worker's policy (RuleFilter.Apply, ParseRules): the comment and   *)
(* the commit within their lengths, no label that is blocked, a status that *)
(* is valid, and nothing of what is not allowed.                            *)
THEOREM FilterPermits ==
    ASSUME NEW y \in Yaml \cup {Nil}, NEW res \in Result
    PROVE  Passes(y, Apply(WorkerPolicy(y), res))
<1> DEFINE r == Apply(WorkerPolicy(y), res)
<1>1. CASE WorkerPolicy(y) = AllowAll
  <2>1. /\ ~Configured(y) /\ ~FailsClosed(y) /\ \A x \in Section : ~Mapping(y, x)
    BY <1>1, WhichPolicy DEF AllowAll, DenyAll
  <2>2. r = res
    BY <1>1 DEF Apply, AllowAll
  <2>3. res.labels # Nil => IsLabelList(res.labels.add) /\ IsLabelList(res.labels.remove)
    BY ListsOfResult DEF Result
  <2>4. \A l : PermitsLabel(y, l)
    BY <2>1 DEF PermitsLabel, Section
  <2>5. {"comment", "labels", "status", "commit"} \subseteq Section
    BY DEF Section
  <2> HIDE DEF r
  <2>6. /\ \A p : \A x \in {"comment", "commit"} : \A n : Permits(y, <<p, x, n>>)
        /\ \A p : \A n : Permits(y, <<p, "status", n>>)
    BY <2>1, <2>5, PermitsLength, PermitsStatus
  <2>7. res.labels # Nil =>
            /\ \A p : Permits(y, <<p, "labels", res.labels>>)
            /\ \A p : \A i \in DOMAIN res.labels.add :
                     Permits(y, <<p, "add", Listed(res.labels.add, i)>>)
            /\ \A p : \A i \in DOMAIN res.labels.remove :
                     Permits(y, <<p, "remove", Listed(res.labels.remove, i)>>)
    BY <2>1, <2>4, <2>5, PermitsBoth, PermitsListed
  <2>8. Passes(y, res)
    <3>1. \A p : /\ Permits(y, <<p, "comment", res.comment>>)
                 /\ Permits(y, <<p, "commit", res.commit>>)
      BY <2>6
    <3>2. QED  BY <2>3, <2>6, <2>7, <3>1, Zenon DEF Passes
  <2>9. QED  BY <2>2, <2>8 DEF r
<1>2. CASE WorkerPolicy(y) = DenyAll
  <2>1. r = [x \in DOMAIN res |-> IF x = "output" THEN res[x] ELSE Nil]
    BY <1>2 DEF Apply, DenyAll
  <2>2. {"comment", "labels", "status", "commit"} \subseteq DOMAIN res
    BY DEF Result
  <2>3. r.comment = Nil /\ r.labels = Nil /\ r.status = Nil /\ r.commit = Nil
    BY <2>1, <2>2
  <2> HIDE DEF r
  <2>4. QED  BY <2>3 DEF Passes, r
<1>3. CASE /\ WorkerPolicy(y) = [kind |-> "rules", rule |-> Rules(y)]
           /\ ~FailsClosed(y) /\ y \in Yaml
  <2>1. r = [output   |-> res.output,
             comment  |-> ApplyComment(res.comment, Rules(y)["comment"]),
             labels   |-> ApplyLabels(res.labels, Rules(y)["labels"]),
             status   |-> ApplyStatus(res.status, Rules(y)["status"]),
             commit   |-> ApplyCommit(res.commit, Rules(y)["commit"]),
             metadata |-> ApplyMetadata(res.metadata, Rules(y)["metadata"])]
    BY <1>3 DEF Apply
  <2> HIDE DEF r
  <2>2. {"comment", "labels", "status", "commit"} \subseteq Section
    BY DEF Section
  <2>3. /\ res.comment \in Nat \cup {Nil} /\ res.commit \in Nat \cup {Nil}
        /\ res.labels \in [add : Seq(Label), remove : Seq(Label)] \cup {Nil}
    BY DEF Result
  <2>4. r.comment # Nil => \A p : Permits(y, <<p, "comment", r.comment>>)
    BY <1>3, <2>1, <2>2, <2>3, Limits, PermitsLength
  <2>5. r.commit # Nil => \A p : Permits(y, <<p, "commit", r.commit>>)
    BY <1>3, <2>1, <2>2, <2>3, Limits, PermitsLength
  <2>6. r.status \notin {Nil, ""} => \A p : Permits(y, <<p, "status", r.status>>)
    <3>1. CASE r.status \notin {Nil, ""}
      <4>1. r.status = ApplyStatus(res.status, Rules(y)["status"])
        BY <2>1
      <4>2. r.status \in ValidStatusStates /\ ~Denies(Rules(y)["status"])
        BY <3>1, <4>1 DEF ApplyStatus
      <4>3. Mapping(y, "status") => y["status"].allow = "true"
        BY <1>3, <2>2, <4>2, RuleOf
      <4>4. QED  BY <1>3, <4>2, <4>3, PermitsStatus
    <3>2. QED  BY <3>1
  <2>7. r.labels # Nil =>
            /\ IsLabelList(r.labels.add) /\ IsLabelList(r.labels.remove)
            /\ Mapping(y, "labels") => y["labels"].allow = "true"
            /\ \A l \in Range(r.labels.add) \cup Range(r.labels.remove) : PermitsLabel(y, l)
    BY <1>3, <2>1, <2>3, Labels
  <2>8. r.labels # Nil =>
            /\ \A p : Permits(y, <<p, "labels", r.labels>>)
            /\ \A p : \A i \in DOMAIN r.labels.add :
                     Permits(y, <<p, "add", Listed(r.labels.add, i)>>)
            /\ \A p : \A i \in DOMAIN r.labels.remove :
                     Permits(y, <<p, "remove", Listed(r.labels.remove, i)>>)
    BY <1>3, <2>7, PermitsBoth, PermitsListed
  <2>9. QED  BY <2>4, <2>5, <2>6, <2>7, <2>8 DEF Passes, r
<1>4. QED  BY <1>1, <1>2, <1>3, WhichPolicy

-----------------------------------------------------------------------------
(* What the responders make of it: a plan of permitted actions, of kinds K. *)
Allowed(y, a) == a[2] = "output" \/ Permits(y, a)
Piece(y, s, K) == IsPlan(s) /\ \A a \in Range(s) : a[2] \in K /\ Allowed(y, a)

LEMMA WhenPiece ==
    ASSUME NEW y, NEW s, NEW K, NEW c, c => Piece(y, s, K)
    PROVE  Piece(y, When(c, s), K)
BY EmptyPlan DEF Piece, When

LEMMA OnePiece ==
    ASSUME NEW y, NEW p, NEW k, NEW x, Allowed(y, <<p, k, x>>)
    PROVE  Piece(y, <<<<p, k, x>>>>, {k})
BY SinglePlan DEF Piece

LEMMA ConcatPieces ==
    ASSUME NEW y, NEW s, NEW t, NEW K, NEW L, Piece(y, s, K), Piece(y, t, L), K \cap L = {}
    PROVE  Piece(y, s \o t, K \cup L)
<1>1. Range(s) \cap Range(t) = {}
  BY DEF Piece
<1>2. QED  BY <1>1, ConcatPlan DEF Piece

(* A list of labels, request by request: no two have the same place in it. *)
LEMMA EachPiece ==
    ASSUME NEW y, NEW k, NEW ls, IsLabelList(ls),
           \A i \in DOMAIN ls : Permits(y, <<"github", k, Listed(ls, i)>>)
    PROVE  Piece(y, SetToSeq({<<"github", k, Listed(ls, i)>> : i \in DOMAIN ls}), {k})
<1> DEFINE S == {<<"github", k, Listed(ls, i)>> : i \in DOMAIN ls}
<1>1. IsFiniteSet(S)
  <2> DEFINE f == [i \in DOMAIN ls |-> <<"github", k, Listed(ls, i)>>]
  <2>1. \A i, j \in DOMAIN ls : f[i] = f[j] => i = j
    <3>1. \A i, j \in DOMAIN ls : f[i] = f[j] => Listed(ls, i) = Listed(ls, j)
      OBVIOUS
    <3>2. QED  BY <3>1, ListedOnce
  <2>2. f \in Bijection(DOMAIN ls, S)
    BY <2>1 DEF Bijection, Injection, Surjection, IsInjective
  <2>3. ExistsBijection(DOMAIN ls, S)
    BY <2>2 DEF ExistsBijection
  <2>4. QED  BY <2>3, FS_Bijection DEF IsLabelList
<1>2. IsPlan(SetToSeq(S)) /\ Range(SetToSeq(S)) \subseteq S
  BY <1>1, SetPlan
<1>3. \A a \in S : a[2] = k /\ Permits(y, a)
  OBVIOUS
<1>4. QED  BY <1>2, <1>3 DEF Piece, Allowed

(* The GitHub client's list, part by part. *)
GitHubLabels(r) ==
    LET Each(what, ls) == SetToSeq({<<"github", what, Listed(ls, i)>> : i \in DOMAIN ls})
    IN  Each("add", r.labels.add) \o Each("remove", r.labels.remove)

LEMMA GitHubPieces ==
    ASSUME NEW y, NEW r, Passes(y, r), NEW t
    PROVE  Piece(y, GitHubPlan(t, r), {"comment", "status", "add", "remove", "commit"})
<1> DEFINE c == When(r.comment \notin {Nil, 0} /\ t.number, <<<<"github", "comment", r.comment>>>>)
           s == When(r.status \in ValidStatusStates /\ t.sha, <<<<"github", "status", r.status>>>>)
           l == When(r.labels # Nil /\ t.number, GitHubLabels(r))
           d == When(r.commit \notin {Nil, 0} /\ t.number, <<<<"github", "commit", r.commit>>>>)
<1>1. Piece(y, c, {"comment"})
  <2>1. r.comment # Nil => Piece(y, <<<<"github", "comment", r.comment>>>>, {"comment"})
    BY OnePiece DEF Passes, Allowed
  <2>2. QED  BY <2>1, WhenPiece
<1>2. Piece(y, s, {"status"})
  <2>1. r.status \in ValidStatusStates => r.status \notin {Nil, ""}
    BY PolicyAssumption DEF PolicyAssumption, ValidStatusStates
  <2>2. r.status \in ValidStatusStates =>
            Piece(y, <<<<"github", "status", r.status>>>>, {"status"})
    BY <2>1, OnePiece DEF Passes, Allowed
  <2>3. QED  BY <2>2, WhenPiece
<1>3. Piece(y, l, {"add", "remove"})
  <2>1. ASSUME r.labels # Nil PROVE Piece(y, GitHubLabels(r), {"add", "remove"})
    <3> DEFINE add == r.labels.add
               remove == r.labels.remove
    <3>1. /\ IsLabelList(add) /\ IsLabelList(remove)
          /\ \A i \in DOMAIN add    : Permits(y, <<"github", "add", Listed(add, i)>>)
          /\ \A i \in DOMAIN remove : Permits(y, <<"github", "remove", Listed(remove, i)>>)
      BY <2>1 DEF Passes
    <3>2. Piece(y, SetToSeq({<<"github", "add", Listed(add, i)>> : i \in DOMAIN add}),
                {"add"})
      BY <3>1, EachPiece
    <3>3. Piece(y, SetToSeq({<<"github", "remove", Listed(remove, i)>> : i \in DOMAIN remove}),
                {"remove"})
      BY <3>1, EachPiece
    <3>4. {"add"} \cap {"remove"} = {} /\ {"add"} \cup {"remove"} = {"add", "remove"}
      OBVIOUS
    <3>5. QED  BY <3>2, <3>3, <3>4, ConcatPieces DEF GitHubLabels
  <2>2. QED  BY <2>1, WhenPiece
<1>4. Piece(y, d, {"commit"})
  <2>1. r.commit # Nil => Piece(y, <<<<"github", "commit", r.commit>>>>, {"commit"})
    BY OnePiece DEF Passes, Allowed
  <2>2. QED  BY <2>1, WhenPiece
<1>5. GitHubPlan(t, r) = ((c \o s) \o l) \o d
  BY DEF GitHubPlan, GitHubLabels
<1> HIDE DEF c, s, l, d
<1>6. Piece(y, c \o s, {"comment"} \cup {"status"})
  BY <1>1, <1>2, ConcatPieces
<1>7. Piece(y, (c \o s) \o l, ({"comment"} \cup {"status"}) \cup {"add", "remove"})
  BY <1>3, <1>6, ConcatPieces
<1>8. Piece(y, ((c \o s) \o l) \o d,
            (({"comment"} \cup {"status"}) \cup {"add", "remove"}) \cup {"commit"})
  BY <1>4, <1>7, ConcatPieces
<1>9. QED  BY <1>5, <1>8 DEF Piece

(* GitLab shows a comment or an output, never both. *)
Shown(r) == IF r.comment \in {Nil, 0} THEN {"output"} ELSE {"comment"}

LEMMA GitLabPieces ==
    ASSUME NEW y, NEW r, Passes(y, r), NEW t
    PROVE  Piece(y, GitLabPlan(t, r), Shown(r) \cup {"status", "labels", "commit"})
<1> DEFINE c == When(r.comment \notin {Nil, 0} /\ t.number, <<<<"gitlab", "comment", r.comment>>>>)
           o == When(r.comment \in {Nil, 0} /\ r.output /\ t.number, <<<<"gitlab", "output", Nil>>>>)
           s == When(r.status \notin {Nil, ""} /\ t.sha, <<<<"gitlab", "status", r.status>>>>)
           l == When(/\ r.labels # Nil /\ t.number
                     /\ DOMAIN r.labels.add \cup DOMAIN r.labels.remove # {},
                     <<<<"gitlab", "labels", r.labels>>>>)
           d == When(r.commit \notin {Nil, 0} /\ t.number, <<<<"gitlab", "commit", r.commit>>>>)
<1>1. Piece(y, c, Shown(r) \ {"output"})
  <2>1. r.comment \notin {Nil, 0} => Piece(y, <<<<"gitlab", "comment", r.comment>>>>, {"comment"})
    BY OnePiece DEF Passes, Allowed
  <2>2. r.comment \notin {Nil, 0} => Shown(r) \ {"output"} = {"comment"}
    BY DEF Shown
  <2>3. QED  BY <2>1, <2>2, WhenPiece
<1>2. Piece(y, o, Shown(r) \ {"comment"})
  <2>1. Piece(y, <<<<"gitlab", "output", Nil>>>>, {"output"})
    BY OnePiece DEF Allowed
  <2>2. r.comment \in {Nil, 0} => Shown(r) \ {"comment"} = {"output"}
    BY DEF Shown
  <2>3. QED  BY <2>1, <2>2, WhenPiece
<1>3. Piece(y, s, {"status"})
  <2>1. r.status \notin {Nil, ""} =>
            Piece(y, <<<<"gitlab", "status", r.status>>>>, {"status"})
    BY OnePiece DEF Passes, Allowed
  <2>2. QED  BY <2>1, WhenPiece
<1>4. Piece(y, l, {"labels"})
  <2>1. r.labels # Nil => Piece(y, <<<<"gitlab", "labels", r.labels>>>>, {"labels"})
    BY OnePiece DEF Passes, Allowed
  <2>2. QED  BY <2>1, WhenPiece
<1>5. Piece(y, d, {"commit"})
  <2>1. r.commit # Nil => Piece(y, <<<<"gitlab", "commit", r.commit>>>>, {"commit"})
    BY OnePiece DEF Passes, Allowed
  <2>2. QED  BY <2>1, WhenPiece
<1>6. GitLabPlan(t, r) = (((c \o o) \o s) \o l) \o d
  BY DEF GitLabPlan
<1> HIDE DEF c, o, s, l, d
<1>7. Piece(y, c \o o, Shown(r))
  <2>1. /\ (Shown(r) \ {"output"}) \cap (Shown(r) \ {"comment"}) = {}
        /\ (Shown(r) \ {"output"}) \cup (Shown(r) \ {"comment"}) = Shown(r)
    BY DEF Shown
  <2>2. QED  BY <1>1, <1>2, <2>1, ConcatPieces
<1>8. Piece(y, (c \o o) \o s, Shown(r) \cup {"status"})
  BY <1>3, <1>7, ConcatPieces DEF Shown
<1>9. Piece(y, ((c \o o) \o s) \o l,
            (Shown(r) \cup {"status"}) \cup {"labels"})
  BY <1>4, <1>8, ConcatPieces DEF Shown
<1>10. Piece(y, (((c \o o) \o s) \o l) \o d,
            ((Shown(r) \cup {"status"}) \cup {"labels"}) \cup {"commit"})
  BY <1>5, <1>9, ConcatPieces DEF Shown
<1>11. QED  BY <1>6, <1>10 DEF Piece

(* The plan of an attempt under the policy section y. *)
LEMMA PlanAllowed ==
    ASSUME NEW y \in Yaml \cup {Nil}, NEW res \in Result, NEW e
    PROVE  LET r == Apply(WorkerPolicy(y), res)
               s == Plan(e, r)
           IN  /\ IsPlan(s) /\ \A a \in Range(s) : Allowed(y, a)
               /\ OutputAlone(Range(GitLabPlan(target[e], r)))
               /\ OutputAlone(Range(GitHubPlan(target[e], r)))
<1> DEFINE r == Apply(WorkerPolicy(y), res)
           K == {"comment", "output", "status", "labels", "add", "remove", "commit"}
<1>1. Passes(y, r)
  BY FilterPermits
<1> HIDE DEF r
<1>2. /\ Piece(y, GitLabPlan(target[e], r), Shown(r) \cup {"status", "labels", "commit"})
      /\ Piece(y, GitHubPlan(target[e], r), {"comment", "status", "add", "remove", "commit"})
  BY <1>1, GitLabPieces, GitHubPieces
<1>3. Piece(y, Plan(e, r), K)
  <2>1. Piece(y, GitLabPlan(target[e], r), K) /\ Piece(y, GitHubPlan(target[e], r), K)
    BY <1>2 DEF Piece, Shown
  <2>2. QED  BY <2>1, WhenPiece DEF Plan
<1>4. /\ OutputAlone(Range(GitLabPlan(target[e], r)))
      /\ OutputAlone(Range(GitHubPlan(target[e], r)))
  BY <1>2 DEF Piece, Shown, OutputAlone
<1>5. QED  BY <1>3, <1>4 DEF Piece, r

-----------------------------------------------------------------------------
(* Bags of actions.                                                        *)
Once(b, a) == b (+) SetToBag({a})

LEMMA Added ==
    ASSUME NEW b, IsBag(b), NEW a
    PROVE  /\ IsBag(Once(b, a)) /\ DOMAIN Once(b, a) = DOMAIN b \cup {a}
           /\ \A x : Copies(x, Once(b, a)) = Copies(x, b) + IF x = a THEN 1 ELSE 0
<1> DEFINE n == [x \in DOMAIN b \cup {a} |-> (IF x \in DOMAIN b THEN b[x] ELSE 0)
                                             + (IF x = a THEN 1 ELSE 0)]
<1>1. DOMAIN SetToBag({a}) = {a} /\ SetToBag({a})[a] = 1
  BY DEF SetToBag
<1>2. Once(b, a) = n
  BY <1>1 DEF (+), Once
<1>3. \A x \in DOMAIN b : b[x] \in Nat \ {0}
  BY DEF IsBag
<1>4. IsBag(n) /\ DOMAIN n = DOMAIN b \cup {a}
  BY <1>3 DEF IsBag
<1>5. \A x : Copies(x, n) = Copies(x, b) + IF x = a THEN 1 ELSE 0
  BY <1>3 DEF Copies, BagIn, BagToSet
<1> HIDE DEF n
<1>6. QED  BY <1>2, <1>4, <1>5

LEMMA CopiesType == ASSUME NEW b, IsBag(b), NEW x
                    PROVE  Copies(x, b) \in Nat /\ (x \notin DOMAIN b => Copies(x, b) = 0)
BY DEF IsBag, Copies, BagIn, BagToSet

LEMMA NoCopies == IsBag(EmptyBag) /\ DOMAIN EmptyBag = {} /\ \A x : Copies(x, EmptyBag) = 0
BY DEF IsBag, EmptyBag, SetToBag, Copies, BagIn, BagToSet

-----------------------------------------------------------------------------
(* What concerns one event, and the steps that leave it alone.             *)
Own(e) == Place(e) /\ Planned(e) /\ Complete(e) /\ Counted(e)

SameAt(e) ==
    /\ event'[e] = event[e] /\ pc'[e] = pc[e] /\ plan'[e] = plan[e] /\ failed'[e] = failed[e]
    /\ posted'[e] = posted[e] /\ acked'[e] = acked[e] /\ under'[e] = under[e]
    /\ lost'[e] = lost[e] /\ (e \in rows' <=> e \in rows)

LEMMA Frame == ASSUME NEW e, Own(e), SameAt(e), UNCHANGED inputVars PROVE Own(e)'
<1> USE DEF SameAt, inputVars, Own
<1>1. Place(e)'
  BY DEF Place
<1>2. Planned(e)'
  BY DEF Planned, Attempting
<1>3. under'[e].asked = under[e].asked
  BY DEF SameAt
<1>4. Complete(e)'
  BY <1>3 DEF Complete, Attempting
<1>5. Counted(e)'
  BY DEF Counted, Waiting
<1>6. QED  BY <1>1, <1>2, <1>4, <1>5

LEMMA Pieces == ASSUME IInv, NEW e \in Event
                PROVE  /\ Own(e) /\ IsPlan(plan[e]) /\ IsBag(posted[e])
                       /\ event[e] \in Events!EventRow /\ event[e].attempts \in Nat
                       /\ pc[e] \in {"due", "first", "again", "idle"} /\ lost[e] \in Nat
                       /\ faults \in Nat /\ edits \in Nat /\ MaxWriteBack \in Nat \ {0}
BY WriteBackAssumption DEF IInv, Own, Planned, Shape, Events!EventRow, WriteBackAssumption

(* A responder that is asked nothing has nothing to do. *)
LEMMA NothingAsked == ASSUME NEW t, NEW r, Nothing(r) PROVE Range(GitLabPlan(t, r)) = {}
<1>1. ~r.output /\ r.comment = Nil /\ r.labels = Nil /\ r.status = Nil /\ r.commit = Nil
  BY DEF Nothing
<1>2. \A s : When(FALSE, s) = <<>>
  BY DEF When
<1>3. <<>> \o <<>> = <<>>
  BY ConcatEmptySeq, EmptySeq
<1>4. GitLabPlan(t, r) = <<>> \o <<>> \o <<>> \o <<>> \o <<>>
  BY <1>1 DEF GitLabPlan, When
<1>5. QED  BY <1>3, <1>4, EmptyPlan

LEMMA BeginEffect ==
    ASSUME IInv, NEW e \in Event, NEW first \in BOOLEAN, Begin(e, first)
    PROVE  /\ IsPlan(plan'[e]) /\ \A a \in Range(plan'[e]) : Allowed(under'[e].yaml, a)
           /\ failed'[e] \/ under'[e].asked \subseteq Range(plan'[e])
           /\ Range(plan'[e]) \subseteq under'[e].asked /\ OutputAlone(under'[e].asked)
           /\ acked'[e] = {} /\ posted' = posted /\ lost' = lost /\ event' = event
           /\ pc'[e] = IF first THEN "first" ELSE "again"
           /\ faults' \in Nat
<1>1. /\ under'[e] = [yaml |-> yaml, asked |-> Asked(e)] /\ acked'[e] = {}
      /\ pc'[e] = IF first THEN "first" ELSE "again"
      /\ UNCHANGED <<event, inputVars, token, yaml, edits, posted, lost>>
  BY DEF Begin, IInv, Shape
<1>2. yaml \in Yaml \cup {Nil} /\ result[e] \in Result \cup {Nil}
  BY WriteBackAssumption DEF IInv, Shape, WriteBackAssumption, Yaml
<1> DEFINE r == Filtered(e)
           P == /\ IsPlan(plan'[e]) /\ \A a \in Range(plan'[e]) : Allowed(yaml, a)
                /\ failed'[e] \/ under'[e].asked \subseteq Range(plan'[e])
                /\ Range(plan'[e]) \subseteq under'[e].asked
<1>3. ASSUME plan'[e] = <<>>, failed'[e] = TRUE PROVE P
  <2>1. IsPlan(plan'[e]) /\ Range(plan'[e]) = {}
    BY <1>3, EmptyPlan
  <2>2. failed'[e]
    BY <1>3
  <2>3. QED  BY <2>1, <2>2
<1>4. ASSUME /\ plan'[e] = IF result[e] = Nil THEN <<>> ELSE Plan(e, r)
             /\ failed'[e] = (result[e] # Nil /\ NoTarget(e, r))
      PROVE  P
  <2>1. CASE result[e] = Nil
    <3>1. under'[e].asked = {}
      BY <1>1, <2>1 DEF Asked, inputVars
    <3>2. plan'[e] = <<>>
      BY <1>4, <2>1
    <3>3. QED  BY <3>1, <3>2, EmptyPlan
  <2>2. CASE result[e] # Nil
    <3>1. IsPlan(plan'[e]) /\ \A a \in Range(plan'[e]) : Allowed(yaml, a)
      BY <1>2, <1>4, <2>2, PlanAllowed DEF Filtered
    <3>2. /\ ~NoTarget(e, r) => under'[e].asked \subseteq Range(plan'[e])
          /\ Range(plan'[e]) \subseteq under'[e].asked
      <4>1. CASE ByGitLab(e)
        <5>1. under'[e].asked = Range(GitLabPlan(target[e], r))
          BY <1>1, <2>2, <4>1 DEF Asked, ByGitLab, Filtered, inputVars
        <5>2. plan'[e] = When(target[e].repo, GitLabPlan(target[e], r))
          BY <1>4, <2>2, <4>1 DEF Plan
        <5>3. ~NoTarget(e, r) => Nothing(r) \/ target[e].repo
          BY <4>1 DEF NoTarget
        <5>4. QED  BY <5>1, <5>2, <5>3, NothingAsked, EmptyPlan DEF When
      <4>2. CASE ~ByGitLab(e)
        <5>1. under'[e].asked = IF client /\ token THEN Range(GitHubPlan(target[e], r)) ELSE {}
          BY <1>1, <2>2, <4>2 DEF Asked, ByGitLab, Filtered, inputVars
        <5>2. plan'[e] = When(client /\ token, GitHubPlan(target[e], r))
          BY <1>4, <2>2, <4>2 DEF Plan
        <5>3. QED  BY <5>1, <5>2, EmptyPlan DEF When
      <4>3. QED  BY <4>1, <4>2
    <3>3. NoTarget(e, r) => failed'[e]
      BY <1>4, <2>2
    <3>4. QED  BY <3>1, <3>2, <3>3
  <2>3. QED  BY <2>1, <2>2
<1>5. faults' \in Nat
  BY DEF Begin, Fault, IInv, Shape
<1>6. P
  <2>1. CASE /\ plan' = [plan EXCEPT ![e] = IF result[e] = Nil THEN <<>> ELSE Plan(e, r)]
             /\ failed' = [failed EXCEPT ![e] = result[e] # Nil /\ NoTarget(e, r)]
    <3>1. /\ plan'[e] = IF result[e] = Nil THEN <<>> ELSE Plan(e, r)
          /\ failed'[e] = (result[e] # Nil /\ NoTarget(e, r))
      BY <2>1, Zenon DEF IInv, Shape
    <3>2. QED  BY <1>4, <3>1
  <2>2. CASE plan' = [plan EXCEPT ![e] = <<>>] /\ failed' = [failed EXCEPT ![e] = TRUE]
    BY <1>3, <2>2 DEF IInv, Shape
  <2>3. QED  BY <2>1, <2>2 DEF Begin
<1>7. OutputAlone(under'[e].asked)
  <2>1. OutputAlone({})
    BY DEF OutputAlone
  <2>2. result[e] # Nil => /\ OutputAlone(Range(GitLabPlan(target[e], r)))
                           /\ OutputAlone(Range(GitHubPlan(target[e], r)))
    BY <1>2, PlanAllowed DEF Filtered
  <2>3. Asked(e) \in {{}, Range(GitLabPlan(target[e], r)), Range(GitHubPlan(target[e], r))}
    BY DEF Asked, Filtered
  <2>4. result[e] = Nil => Asked(e) = {}
    BY DEF Asked
  <2>5. QED  BY <1>1, <2>1, <2>2, <2>3, <2>4
<1>8. QED  BY <1>1, <1>5, <1>6, <1>7

-----------------------------------------------------------------------------
(* Steps of one event.                                                     *)
LEMMA Assemble ==
    ASSUME IInv, NEW e \in Event, Own(e)', \A d \in Event \ {e} : SameAt(d),
           UNCHANGED inputVars, Shape', OneAtATime'
    PROVE  IInv'
<1>1. \A d \in Event : Own(d)'
  BY Frame DEF IInv, Own
<1>2. QED  BY <1>1 DEF IInv, Own

(* The statements on the table of events. *)
Statement(e, from, to, n) ==
    /\ event' \in [Event -> Events!EventRow]
    /\ \A d \in Event \ {e} : event'[d] = event[d]
    /\ event[e].state \in from => event'[e].state = to /\ event'[e].attempts = event[e].attempts + n
    /\ event[e].state \notin from => event'[e] = event[e]

LEMMA Statements ==
    ASSUME IInv, NEW e \in Event
    PROVE  /\ Events!SetFailed(e) => Statement(e, Events!EventState \ {"absent", "completed", "skipped"},
                                              "failed", 0)
           /\ Events!SetCompleted(e) => Statement(e, {"dispatched"}, "completed", 0)
           /\ Events!SetWriteBackCompleted(e) =>
                 Statement(e, {"write_back_failed"}, "completed", 0)
           /\ Events!SetWriteBackFailed(e) =>
                 Statement(e, {"dispatched", "write_back_failed"}, "write_back_failed", 1)
<1>1. ASSUME NEW from, NEW to \in Events!EventState, Events!Transition(e, from, to)
      PROVE  Statement(e, from, to, 0)
  BY <1>1 DEF IInv, Shape, Events!EventRow, Events!Transition, Statement
<1>2. {"failed", "completed"} \subseteq Events!EventState
  BY DEF Events!EventState
<1>3. ASSUME Events!SetWriteBackFailed(e)
      PROVE  Statement(e, {"dispatched", "write_back_failed"}, "write_back_failed", 1)
  BY <1>3 DEF IInv, Shape, Events!EventRow, Events!EventState, Events!SetWriteBackFailed,
              Statement
<1>4. QED
  BY <1>1, <1>2, <1>3 DEF Events!SetFailed, Events!SetCompleted, Events!SetWriteBackCompleted

LEMMA DeliverPreserves == ASSUME IInv, NEW e \in Event, Deliver(e) PROVE IInv'
<1>1. Begin(e, TRUE) /\ pc[e] = "due" /\ rows' = rows
  BY DEF Deliver
<1>2. /\ IsPlan(plan'[e]) /\ \A a \in Range(plan'[e]) : Allowed(under'[e].yaml, a)
      /\ failed'[e] \/ under'[e].asked \subseteq Range(plan'[e])
      /\ Range(plan'[e]) \subseteq under'[e].asked /\ OutputAlone(under'[e].asked)
      /\ acked'[e] = {} /\ posted' = posted /\ lost' = lost /\ event' = event
      /\ pc'[e] = "first" /\ faults' \in Nat
  BY <1>1, BeginEffect
<1>3. Place(e)'
  BY <1>1, <1>2, Pieces DEF Own, Place
<1>4. Planned(e)'
  BY <1>2, Pieces DEF Planned, Attempting, Allowed
<1>5. Complete(e)'
  BY <1>1, <1>2, Pieces DEF Complete, Attempting, Own, Place
<1>6. Counted(e)'
  <2>1. \A a : Copies(a, posted[e]) <= event[e].attempts + lost[e]
    BY <1>1, Pieces, CopiesType DEF Own, Counted, Waiting
  <2>2. event[e].attempts = 0
    BY <1>1, Pieces DEF Own, Place
  <2>3. QED  BY <1>2, <2>1, <2>2, Pieces, CopiesType DEF Counted, Waiting
<1>7. /\ UNCHANGED inputVars /\ \A d \in Event \ {e} : SameAt(d)
      /\ pc' = [pc EXCEPT ![e] = "first"]
  BY <1>1 DEF Begin, SameAt, IInv, Shape
<1>8. Shape'
  BY <1>1, <1>2, <1>7 DEF Begin, IInv, Shape, inputVars
<1>9. OneAtATime'
  BY <1>7 DEF IInv, Shape, OneAtATime
<1>10. QED  BY <1>3, <1>4, <1>5, <1>6, <1>7, <1>8, <1>9, Assemble DEF Own

LEMMA RetryPreserves == ASSUME IInv, NEW e \in Event, Retry(e) PROVE IInv'
<1>1. /\ Begin(e, FALSE) /\ e \in rows /\ rows' = rows \ {e}
      /\ event[e].attempts < MaxWriteBack /\ \A d \in Event : pc[d] # "again"
  BY DEF Retry, Take
<1>2. /\ IsPlan(plan'[e]) /\ \A a \in Range(plan'[e]) : Allowed(under'[e].yaml, a)
      /\ failed'[e] \/ under'[e].asked \subseteq Range(plan'[e])
      /\ Range(plan'[e]) \subseteq under'[e].asked /\ OutputAlone(under'[e].asked)
      /\ acked'[e] = {} /\ posted' = posted /\ lost' = lost /\ event' = event
      /\ pc'[e] = "again" /\ faults' \in Nat
  BY <1>1, BeginEffect
<1>3. Place(e)'
  BY <1>1, <1>2, Pieces DEF Own, Place
<1>4. Planned(e)'
  BY <1>2, Pieces DEF Planned, Attempting, Allowed
<1>5. Complete(e)'
  BY <1>1, <1>2, Pieces DEF Complete, Attempting, Own, Place
<1>6. Counted(e)'
  <2>1. Waiting(e)
    BY <1>1, Pieces DEF Own, Place, Waiting
  <2>2. \A a : Copies(a, posted[e]) <= event[e].attempts + lost[e]
    BY <2>1, Pieces, CopiesType DEF Own, Counted
  <2>3. QED  BY <1>1, <1>2, <2>2, Pieces, CopiesType DEF Counted, Waiting
<1>7. /\ UNCHANGED inputVars /\ \A d \in Event \ {e} : SameAt(d)
      /\ pc' = [pc EXCEPT ![e] = "again"]
  BY <1>1 DEF Begin, SameAt, IInv, Shape
<1>8. Shape'
  BY <1>1, <1>2, <1>7, ZenonT(40) DEF Begin, IInv, Shape, inputVars
<1>9. OneAtATime'
  BY <1>1, <1>7 DEF IInv, Shape, OneAtATime
<1>10. QED  BY <1>3, <1>4, <1>5, <1>6, <1>7, <1>8, <1>9, Assemble DEF Own

LEMMA PostPreserves ==
    ASSUME IInv, NEW e \in Event, NEW done \in BOOLEAN, NEW ok \in BOOLEAN, Post(e, done, ok)
    PROVE  IInv'
<1> DEFINE a == Head(plan[e])
<1>1. /\ Attempting(e) /\ plan[e] # <<>> /\ (ok => done)
      /\ plan' = [plan EXCEPT ![e] = Tail(plan[e])]
      /\ posted' = [posted EXCEPT ![e] = IF done THEN posted[e] (+) SetToBag({a}) ELSE posted[e]]
      /\ acked' = [acked EXCEPT ![e] = IF ok THEN acked[e] \cup {a} ELSE acked[e]]
      /\ failed' = [failed EXCEPT ![e] = failed[e] \/ ~ok]
      /\ UNCHANGED <<event, inputVars, token, yaml, pc, rows, faults, edits, under, lost>>
  BY DEF Post, Send, Attempting
<1>2. /\ IsPlan(Tail(plan[e])) /\ Range(plan[e]) = Range(Tail(plan[e])) \cup {a}
      /\ a \notin Range(Tail(plan[e]))
  BY <1>1, Pieces, TailPlan
<1>3. plan'[e] = Tail(plan[e])
  BY <1>1 DEF IInv, Shape
<1>4. /\ IsBag(posted'[e])
      /\ DOMAIN posted[e] \subseteq DOMAIN posted'[e]
      /\ DOMAIN posted'[e] \subseteq DOMAIN posted[e] \cup {a} /\ (ok => a \in DOMAIN posted'[e])
      /\ \A x : Copies(x, posted'[e]) <= Copies(x, posted[e]) + IF x = a THEN 1 ELSE 0
  <2>1. CASE done
    <3>1. posted'[e] = Once(posted[e], a)
      BY <1>1, <2>1 DEF IInv, Shape, Once
    <3>2. IsBag(posted[e])
      BY Pieces
    <3> HIDE DEF a
    <3>3. /\ IsBag(posted'[e]) /\ DOMAIN posted'[e] = DOMAIN posted[e] \cup {a}
          /\ \A x : Copies(x, posted'[e]) = Copies(x, posted[e]) + IF x = a THEN 1 ELSE 0
      <4>1. IsBag(posted'[e])
        BY <3>1, <3>2, Added, ZenonT(40)
      <4>2. DOMAIN posted'[e] = DOMAIN posted[e] \cup {a}
        BY <3>1, <3>2, Added
      <4>3. ASSUME NEW x PROVE Copies(x, posted'[e]) = Copies(x, posted[e]) + IF x = a THEN 1 ELSE 0
        <5>1. Copies(x, Once(posted[e], a)) = Copies(x, posted[e]) + IF x = a THEN 1 ELSE 0
          BY <3>2, Added
        <5>2. Copies(x, Once(posted[e], a)) = Copies(x, posted'[e])
          BY <3>1
        <5>3. QED BY <5>1, <5>2
      <4>4. QED BY <4>1, <4>2, <4>3
    <3>4. \A x : Copies(x, posted'[e]) \in Nat
      BY <3>3, CopiesType
    <3>5. QED  BY <3>3, <3>4
  <2>2. CASE ~done
    <3>1. posted'[e] = posted[e]
      BY <1>1, <2>2 DEF IInv, Shape
    <3>2. \A x : Copies(x, posted[e]) \in Nat
      BY Pieces, CopiesType
    <3>3. QED  BY <1>1, <2>2, <3>1, <3>2, Pieces
  <2>3. QED  BY <2>1, <2>2
<1>5. acked'[e] = IF ok THEN acked[e] \cup {a} ELSE acked[e]
  BY <1>1 DEF IInv, Shape
<1>6. failed'[e] \/ (ok /\ (failed[e] => failed'[e]))
  <2>1. failed'[e] = (failed[e] \/ ~ok)
    BY <1>1, Zenon DEF IInv, Shape
  <2>2. QED  BY <2>1, Zenon
<1> HIDE DEF a
<1>7. Place(e)'
  BY <1>1, Pieces DEF Own, Place
<1>8. Planned(e)'
  <2>1. /\ acked[e] \subseteq DOMAIN posted[e]
        /\ \A x \in Range(plan[e]) : x[2] = "output" \/ Permits(under[e].yaml, x)
        /\ OutputAlone(under[e].asked)
    BY Pieces DEF Own, Planned
  <2>2. acked'[e] \subseteq DOMAIN posted'[e]
    BY <1>4, <1>5, <2>1
  <2>3. under' = under /\ Attempting(e)'
    BY <1>1 DEF Attempting
  <2>4. \A x \in Range(plan'[e]) : x[2] = "output" \/ Permits(under'[e].yaml, x)
    BY <1>2, <1>3, <2>1, <2>3
  <2>5. Range(plan'[e]) \subseteq under'[e].asked \ acked'[e]
    BY <1>2, <1>3, <1>5, <2>3, Pieces DEF Own, Planned
  <2>6. OutputAlone(under[e].asked)'
    BY <2>1, <2>3 DEF OutputAlone
  <2>7. QED  BY <1>2, <1>3, <1>4, <2>2, <2>3, <2>4, <2>5, <2>6 DEF Planned
<1>9. Complete(e)'
  <2>1. under'[e].asked = under[e].asked
    BY <1>1
  <2>2. event[e].state # "completed"
    BY <1>1, Pieces DEF Own, Place, Attempting
  <2>3. failed[e] \/ under[e].asked \subseteq Range(plan[e]) \cup acked[e]
    BY <1>1, Pieces DEF Own, Complete
  <2>4. failed'[e] \/ under'[e].asked \subseteq Range(plan'[e]) \cup acked'[e]
    BY <1>2, <1>3, <1>5, <1>6, <2>1, <2>3
  <2>5. QED  BY <1>1, <2>2, <2>4 DEF Complete
<1>10. Counted(e)'
  <2> DEFINE n(x) == Copies(x, posted[e]) + IF x \in Range(plan[e]) THEN 1 ELSE 0
             m(x) == Copies(x, posted'[e]) + IF x \in Range(plan'[e]) THEN 1 ELSE 0
  <2>1. \A x : Copies(x, posted[e]) \in Nat /\ Copies(x, posted'[e]) \in Nat
    BY <1>4, Pieces, CopiesType
  <2>2. \A x : m(x) <= n(x) /\ m(x) \in Nat /\ n(x) \in Nat
    BY <1>2, <1>3, <1>4, <2>1
  <2>3. \A x \in DOMAIN posted'[e] \cup Range(plan'[e]) :
            x \in DOMAIN posted[e] \cup Range(plan[e])
    BY <1>2, <1>3, <1>4
  <2>4. \A x \in DOMAIN posted[e] \cup Range(plan[e]) :
            n(x) <= event[e].attempts + lost[e] + 1 /\ n(x) <= MaxWriteBack + lost[e]
    BY Pieces DEF Own, Counted
  <2>5. ~Waiting(e)'
    BY <1>1 DEF Waiting, Attempting
  <2> HIDE DEF n
  <2>6. \A x \in DOMAIN posted'[e] \cup Range(plan'[e]) :
            m(x) <= event[e].attempts + lost[e] + 1 /\ m(x) <= MaxWriteBack + lost[e]
    BY <2>2, <2>3, <2>4, Pieces
  <2>7. QED  BY <1>1, <2>5, <2>6 DEF Counted
<1>11. \A d \in Event \ {e} : SameAt(d)
  BY <1>1 DEF SameAt, IInv, Shape
<1>12. Shape' /\ OneAtATime'
  BY <1>1 DEF IInv, Shape, OneAtATime, inputVars
<1>13. QED  BY <1>1, <1>7, <1>8, <1>9, <1>10, <1>11, <1>12, Assemble DEF Own

(* What the end of an attempt records: each failure it tells of is counted, *)
(* and so is each outcome that is lost.                                     *)
LEMMA FinishEffect ==
    ASSUME IInv, NEW e \in Event, Finish(e)
    PROVE  /\ event' \in [Event -> Events!EventRow] /\ lost' \in [Event -> Nat] /\ faults' \in Nat
           /\ \A d \in Event \ {e} : event'[d] = event[d] /\ lost'[d] = lost[d]
           /\ event'[e].attempts \in Nat /\ lost'[e] \in Nat
           /\ event'[e].attempts >= event[e].attempts /\ lost'[e] >= lost[e]
           /\ event'[e].attempts <= MaxWriteBack
           /\ event'[e].state = "completed" => ~failed[e]
           /\ event'[e].state = "write_back_failed" =>
                 event'[e].attempts + lost'[e] >= event[e].attempts + lost[e] + 1
<1>1. /\ Attempting(e) /\ lost \in [Event -> Nat] /\ faults \in Nat
      /\ event[e].attempts < MaxWriteBack /\ event[e].state # "completed"
      /\ pc[e] = "first" => event[e].state # "write_back_failed"
  <2>1. Attempting(e) /\ lost \in [Event -> Nat] /\ faults \in Nat
    BY DEF Finish, Attempting, IInv, Shape
  <2>2. Place(e) /\ MaxWriteBack > 0
    BY Pieces DEF Own
  <2>3. QED  BY <2>1, <2>2 DEF Place, Attempting
<1>2. event' \in [Event -> Events!EventRow] => event'[e].attempts \in Nat
  BY DEF Events!EventRow
<1>3. CASE Settle(e) /\ UNCHANGED <<faults, lost>>
  <2>1. CASE failed[e]
    <3>1. Statement(e, {"dispatched", "write_back_failed"}, "write_back_failed", 1)
      <4>1. Events!SetWriteBackFailed(e)
        BY <1>3, <2>1, Zenon DEF Settle
      <4>2. QED  BY <4>1, Statements
    <3>2. event'[e].state = "write_back_failed" => event'[e].attempts = event[e].attempts + 1
      BY <3>1 DEF Statement
    <3>3. event'[e].state # "completed"
      BY <1>1, <3>1 DEF Statement
    <3>4. event'[e].attempts \in {event[e].attempts, event[e].attempts + 1}
      BY <3>1 DEF Statement
    <3>5. QED  BY <1>1, <1>2, <1>3, <3>1, <3>2, <3>3, <3>4, Pieces DEF Statement
  <2>2. CASE ~failed[e]
    <3>1. \E from : /\ pc[e] = "again" => from = {"write_back_failed"}
                    /\ Statement(e, from, "completed", 0)
      <4>1. CASE pc[e] = "first"
        BY <1>3, <2>2, <4>1, Statements DEF Settle
      <4>2. CASE pc[e] # "first"
        BY <1>3, <2>2, <4>2, Statements DEF Settle
      <4>3. QED  BY <4>1, <4>2
    <3>2. event'[e].attempts = event[e].attempts /\ event' \in [Event -> Events!EventRow]
      BY <3>1, Pieces DEF Statement
    <3>3. event'[e].state # "write_back_failed"
      BY <1>1, <3>1 DEF Statement, Attempting
    <3>4. \A d \in Event \ {e} : event'[d] = event[d]
      BY <3>1 DEF Statement
    <3>5. QED  BY <1>1, <1>2, <1>3, <2>2, <3>2, <3>3, <3>4, Pieces
  <2>3. QED  BY <2>1, <2>2
<1>4. CASE Fault /\ lost' = [lost EXCEPT ![e] = lost[e] + 1] /\ UNCHANGED event
  <2>1. lost' \in [Event -> Nat] /\ lost'[e] = lost[e] + 1 /\ faults' \in Nat
    BY <1>1, <1>4 DEF Fault
  <2>2. \A d \in Event \ {e} : lost'[d] = lost[d]
    BY <1>1, <1>4
  <2>3. QED  BY <1>1, <1>2, <1>4, <2>1, <2>2, Pieces DEF IInv, Shape
<1>5. QED  BY <1>3, <1>4 DEF Finish

LEMMA FinishPreserves == ASSUME IInv, NEW e \in Event, Finish(e) PROVE IInv'
<1>1. /\ Attempting(e) /\ plan[e] = <<>> /\ pc' = [pc EXCEPT ![e] = "idle"]
      /\ UNCHANGED <<inputVars, token, yaml, attemptVars, rows, edits, posted, under, acked>>
  BY DEF Finish, Attempting
<1>2. pc'[e] = "idle" /\ e \notin rows' /\ Range(plan[e]) = {}
  BY <1>1, Pieces, EmptyPlan DEF Own, Place, Attempting, IInv, Shape
<1>3. /\ event'[e].attempts \in Nat /\ lost'[e] \in Nat
      /\ event'[e].attempts >= event[e].attempts /\ lost'[e] >= lost[e]
      /\ event'[e].attempts <= MaxWriteBack
      /\ event'[e].state = "completed" => ~failed[e]
      /\ event'[e].state = "write_back_failed" =>
            event'[e].attempts + lost'[e] >= event[e].attempts + lost[e] + 1
  BY FinishEffect
<1>4. Place(e)'
  BY <1>2, <1>3 DEF Place
<1>5. Planned(e)'
  BY <1>1, Pieces DEF Own, Planned, attemptVars
<1>6. Complete(e)'
  <2>1. under'[e].asked = under[e].asked
    BY <1>1
  <2>2. ~failed[e] => under[e].asked \subseteq acked[e]
    BY <1>1, <1>2, Pieces DEF Own, Complete
  <2>3. QED  BY <1>1, <1>2, <1>3, <2>1, <2>2 DEF Complete, Attempting
<1>7. Counted(e)'
  <2>1. \A a \in DOMAIN posted[e] :
            /\ Copies(a, posted[e]) <= event[e].attempts + lost[e] + 1
            /\ Copies(a, posted[e]) <= MaxWriteBack + lost[e]
    BY <1>2, Pieces, CopiesType DEF Own, Counted
  <2>2. \A a : Copies(a, posted[e]) \in Nat
    BY Pieces, CopiesType
  <2>3. Waiting(e)' => event'[e].state = "write_back_failed"
    BY <1>2 DEF Waiting
  <2>4. posted' = posted /\ Range(plan'[e]) = {}
    BY <1>1, <1>2 DEF attemptVars
  <2>5. QED  BY <1>3, <2>1, <2>2, <2>3, <2>4, Pieces DEF Counted
<1>8. \A d \in Event \ {e} : SameAt(d)
  BY <1>1, FinishEffect DEF SameAt, attemptVars, IInv, Shape
<1>9. Shape' /\ OneAtATime'
  BY <1>1, FinishEffect DEF IInv, Shape, OneAtATime, inputVars, attemptVars
<1>10. QED  BY <1>1, <1>4, <1>5, <1>6, <1>7, <1>8, <1>9, Assemble DEF Own

(* An event that fails, or leaves the list of the scan, loses nothing. *)
LEMMA RowStep ==
    ASSUME IInv, NEW e \in Event, Events!SetFailed(e) \/ UNCHANGED event,
           rows' = rows \/ rows' = rows \ {e}, faults' \in Nat,
           UNCHANGED <<inputVars, token, yaml, pc, attemptVars, edits, history>>
    PROVE  IInv'
<1>1. /\ event' \in [Event -> Events!EventRow] /\ \A d \in Event \ {e} : event'[d] = event[d]
      /\ event'[e].attempts = event[e].attempts
      /\ event'[e].state = event[e].state \/ event'[e].state = "failed"
  <2>1. CASE Events!SetFailed(e)
    <3>1. Statement(e, Events!EventState \ {"absent", "completed", "skipped"}, "failed", 0)
      BY <2>1, Statements
    <3>2. event'[e].attempts = event[e].attempts
      BY <3>1, Pieces DEF Statement
    <3>3. QED  BY <3>1, <3>2 DEF Statement
  <2>2. CASE UNCHANGED event
    BY <2>2 DEF IInv, Shape
  <2>3. QED  BY <2>1, <2>2
<1>2. UNCHANGED <<result, target, responders, client, pc, plan, failed, posted, under, acked, lost>>
  BY DEF inputVars, attemptVars, history
<1>3. Place(e)'
  BY <1>1, <1>2, Pieces DEF Own, Place
<1>4. Planned(e)'
  BY <1>2, Pieces DEF Own, Planned, Attempting
<1>5. Complete(e)'
  <2>1. under'[e].asked = under[e].asked
    BY <1>2
  <2>2. QED  BY <1>1, <1>2, <2>1, Pieces DEF Own, Complete, Attempting
<1>6. Counted(e)'
  <2>1. Waiting(e)' => Waiting(e)
    BY <1>1, <1>2 DEF Waiting
  <2>2. QED  BY <1>1, <1>2, <2>1, Pieces DEF Own, Counted
<1>7. \A d \in Event \ {e} : SameAt(d)
  BY <1>1, <1>2 DEF SameAt
<1>8. Shape' /\ OneAtATime'
  BY <1>1, <1>2 DEF IInv, Shape, OneAtATime
<1>9. QED  BY <1>3, <1>4, <1>5, <1>6, <1>7, <1>8, Assemble DEF Own

LEMMA DeadLetterPreserves == ASSUME IInv, NEW e \in Event, DeadLetter(e) PROVE IInv'
<1>1. /\ rows' = rows \ {e}
      /\ Events!SetFailed(e) \/ UNCHANGED event
      /\ UNCHANGED <<inputVars, token, yaml, pc, attemptVars, edits, history>>
  BY DEF DeadLetter, Take
<1>2. faults' \in Nat
  BY Pieces DEF DeadLetter, Fault
<1>3. QED  BY <1>1, <1>2, RowStep

LEMMA RefusePreserves == ASSUME IInv, NEW e \in Event, Refuse(e) PROVE IInv'
<1>1. /\ Events!SetFailed(e) /\ rows' = rows
      /\ UNCHANGED <<inputVars, token, yaml, pc, attemptVars, edits, history>>
  BY DEF Refuse
<1>2. faults' \in Nat
  BY Pieces DEF Refuse, Fault
<1>3. QED  BY <1>1, <1>2, RowStep

-----------------------------------------------------------------------------
(* Steps of the server and of its operator.                                *)
LEMMA ScanPreserves == ASSUME IInv, Scan PROVE IInv'
<1>1. /\ rows' = {e \in Event : event[e].state = "write_back_failed"}
      /\ \A e \in Event : pc[e] # "again"
      /\ UNCHANGED <<event, inputVars, token, yaml, pc, attemptVars, faults, edits, history>>
  BY DEF Scan, Pausing
<1>2. UNCHANGED <<result, target, responders, client, plan, failed, posted, under, acked, lost>>
  BY <1>1 DEF inputVars, attemptVars, history
<1>3. ASSUME NEW e \in Event PROVE Own(e)'
  <2>1. Place(e)'
    BY <1>1, <1>2, Pieces DEF Own, Place
  <2>2. Planned(e)'
    BY <1>1, <1>2, Pieces DEF Own, Planned, Attempting
  <2>3. Complete(e)'
    <3>1. under'[e].asked = under[e].asked
      BY <1>2
    <3>2. QED  BY <1>1, <1>2, <3>1, Pieces DEF Own, Complete, Attempting
  <2>4. Counted(e)'
    <3>1. Waiting(e)' => Waiting(e)
      BY <1>1, <1>2 DEF Waiting
    <3>2. QED  BY <1>1, <1>2, <3>1, Pieces DEF Own, Counted
  <2>5. QED  BY <2>1, <2>2, <2>3, <2>4 DEF Own
<1>4. Shape' /\ OneAtATime'
  BY <1>1, <1>2 DEF IInv, Shape, OneAtATime
<1>5. QED  BY <1>3, <1>4 DEF IInv, Own

LEMMA RestartPreserves == ASSUME IInv, Restart PROVE IInv'
<1>1. /\ pc' = [e \in Event |-> "idle"] /\ plan' = [e \in Event |-> <<>>] /\ rows' = {}
      /\ lost' = [e \in Event |-> lost[e] + IF pc[e] \in {"first", "again"} THEN 1 ELSE 0]
      /\ UNCHANGED <<event, result, target, responders, client, token, yaml, failed, edits,
                     posted, under, acked>>
  BY DEF Restart, inputVars
<1>2. faults' \in Nat
  BY DEF Restart, Fault, IInv, Shape
<1>3. ASSUME NEW e \in Event PROVE Own(e)'
  <2>1. /\ pc'[e] = "idle" /\ plan'[e] = <<>> /\ e \notin rows' /\ Range(plan'[e]) = {}
        /\ lost'[e] = lost[e] + IF Attempting(e) THEN 1 ELSE 0
    BY <1>1, EmptyPlan DEF Attempting
  <2>2. Place(e)'
    BY <1>1, <2>1, Pieces DEF Own, Place
  <2>3. Planned(e)'
    BY <1>1, <2>1, Pieces, EmptyPlan DEF Own, Planned, Attempting
  <2>4. Complete(e)'
    <3>1. under'[e].asked = under[e].asked
      BY <1>1
    <3>2. QED  BY <1>1, <2>1, <3>1, Pieces DEF Own, Complete, Attempting
  <2>5. Counted(e)'
    <3>1. \A a \in DOMAIN posted[e] :
              /\ Copies(a, posted[e]) <= event[e].attempts + lost[e] + 1
              /\ Copies(a, posted[e]) <= MaxWriteBack + lost[e]
              /\ Waiting(e) => Copies(a, posted[e]) <= event[e].attempts + lost[e]
      <4>1. ASSUME NEW a PROVE Copies(a, posted[e]) \in Nat
        BY Pieces, CopiesType
      <4>2. QED  BY <4>1, Pieces DEF Own, Counted
    <3>2. Waiting(e)' => Waiting(e) \/ Attempting(e)
      BY <1>1, <2>1, Pieces DEF Own, Place, Waiting, Attempting
    <3>3. \A a : Copies(a, posted[e]) \in Nat
      BY Pieces, CopiesType
    <3>4. posted' = posted /\ event' = event
      BY <1>1
    <3>5. QED  BY <2>1, <3>1, <3>2, <3>3, <3>4, Pieces, SMTT(30) DEF Counted
  <2>6. QED  BY <2>2, <2>3, <2>4, <2>5 DEF Own
<1>4. lost' \in [Event -> Nat]
  BY <1>1 DEF IInv, Shape
<1>5. Shape' /\ OneAtATime'
  BY <1>1, <1>2, <1>4 DEF IInv, Shape, OneAtATime
<1>6. QED  BY <1>3, <1>5 DEF IInv, Own

LEMMA OperatorPreserves == ASSUME IInv, EditWorker \/ UpdateToken PROVE IInv'
<1>1. /\ yaml' \in Policies \cup {Nil} /\ edits' \in Nat
      /\ UNCHANGED <<event, inputVars, pc, attemptVars, rows, faults, history>>
  BY DEF EditWorker, UpdateToken, Edit, IInv, Shape
<1>2. UNCHANGED <<result, target, responders, client, plan, failed, posted, under, acked, lost>>
  BY <1>1 DEF inputVars, attemptVars, history
<1>3. \A e \in Event : SameAt(e)
  BY <1>1, <1>2 DEF SameAt
<1>4. \A e \in Event : Own(e)'
  BY <1>1, <1>3, Frame DEF IInv, Own
<1>5. Shape' /\ OneAtATime'
  BY <1>1, <1>2 DEF IInv, Shape, OneAtATime
<1>6. QED  BY <1>4, <1>5 DEF IInv, Own

LEMMA InitIInv == ASSUME Init PROVE IInv
<1>1. \A e \in Event : /\ event[e] = [state |-> "dispatched", attempts |-> 0]
                       /\ pc[e] = "due" /\ plan[e] = <<>> /\ posted[e] = EmptyBag
                       /\ acked[e] = {} /\ lost[e] = 0 /\ under[e].asked = {}
  BY DEF Init
<1>2. ASSUME NEW e \in Event PROVE Own(e)
  <2>1. Place(e)
    BY <1>1, WriteBackAssumption DEF Init, Place, WriteBackAssumption
  <2>2. Planned(e)
    BY <1>1, EmptyPlan, NoCopies DEF Planned, OutputAlone
  <2>3. Complete(e)
    BY <1>1 DEF Complete, Attempting
  <2>4. Counted(e)
    BY <1>1, EmptyPlan, NoCopies DEF Counted
  <2>5. QED  BY <2>1, <2>2, <2>3, <2>4 DEF Own
<1>3. event \in [Event -> Events!EventRow]
  BY DEF Init, Events!EventRow, Events!EventState
<1>4. target = [e \in Event |-> target[e]]
  BY DEF Init
<1>5. Shape /\ OneAtATime
  BY <1>3, <1>4 DEF Init, Shape, OneAtATime
<1>6. QED  BY <1>2, <1>5 DEF IInv, Own

LEMMA Stuttering == ASSUME IInv, UNCHANGED vars PROVE IInv'
<1>1. /\ UNCHANGED <<event, inputVars, yaml, pc, rows, faults, edits>>
      /\ UNCHANGED <<result, target, responders, client, plan, failed, posted, under, acked, lost>>
  BY DEF vars, inputVars, attemptVars, history
<1>2. \A e \in Event : SameAt(e)
  BY <1>1 DEF SameAt
<1>3. \A e \in Event : Own(e)'
  BY <1>1, <1>2, Frame DEF IInv, Own
<1>4. Shape' /\ OneAtATime'
  BY <1>1 DEF IInv, Shape, OneAtATime
<1>5. QED  BY <1>3, <1>4 DEF IInv, Own

LEMMA Inductive == IInv /\ [Next]_vars => IInv'
<1> SUFFICES ASSUME IInv, [Next]_vars PROVE IInv'
  OBVIOUS
<1>1. CASE Scan
  BY <1>1, ScanPreserves
<1>2. CASE Restart
  BY <1>2, RestartPreserves
<1>3. CASE EditWorker \/ UpdateToken
  BY <1>3, OperatorPreserves
<1>4. ASSUME NEW e \in Event, Deliver(e) PROVE IInv'
  BY <1>4, DeliverPreserves
<1>5. ASSUME NEW e \in Event, Finish(e) PROVE IInv'
  BY <1>5, FinishPreserves
<1>6. ASSUME NEW e \in Event, Retry(e) PROVE IInv'
  BY <1>6, RetryPreserves
<1>7. ASSUME NEW e \in Event, DeadLetter(e) PROVE IInv'
  BY <1>7, DeadLetterPreserves
<1>8. ASSUME NEW e \in Event, Refuse(e) PROVE IInv'
  BY <1>8, RefusePreserves
<1>9. ASSUME NEW e \in Event, NEW done \in BOOLEAN, NEW ok \in BOOLEAN, Post(e, done, ok)
      PROVE  IInv'
  BY <1>9, PostPreserves
<1>10. CASE UNCHANGED vars
  BY <1>10, Stuttering
<1>11. QED
  BY <1>1, <1>2, <1>3, <1>4, <1>5, <1>6, <1>7, <1>8, <1>9, <1>10 DEF Next

LEMMA Invariant == Spec => []IInv
BY InitIInv, Inductive, PTL DEF Spec

-----------------------------------------------------------------------------
(* The shape of the state, and one retry at a time. *)
THEOREM TypeCorrect == Spec => []TypeOK
<1>1. ASSUME IInv PROVE TypeOK
  <2>1. ASSUME NEW e \in Event
        PROVE  /\ plan[e] # <<>> => pc[e] \in {"first", "again"}
               /\ event[e].attempts <= MaxWriteBack
               /\ acked[e] \subseteq BagToSet(posted[e])
    BY <1>1, Pieces DEF Own, Planned, Place, Attempting, BagToSet
  <2> DEFINE Again == {e \in Event : pc[e] = "again"}
  <2>2. Cardinality(Again) <= 1
    <3>1. CASE Again = {}
      BY <3>1, FS_EmptySet
    <3>2. CASE Again # {}
      <4>1. PICK d : d \in Again
        BY <3>2
      <4>2. Again = {d}
        BY <1>1, <4>1 DEF IInv, OneAtATime
      <4>3. QED  BY <4>2, FS_Singleton
    <3>3. QED  BY <3>1, <3>2
  <2>3. QED  BY <1>1, <2>1, <2>2 DEF IInv, Shape, TypeOK
<1>2. QED  BY <1>1, Invariant, PTL

(* An event counts as completed only when the platform has acknowledged     *)
(* all that its filtered result asked, in the attempt that completed it     *)
(* (dispatch_policy.go, writeback_retry.go).                                *)
THEOREM WrittenOnCompletion == Spec => []WrittenWhenCompleted
<1>1. IInv => WrittenWhenCompleted
  BY DEF IInv, Complete, WrittenWhenCompleted
<1>2. QED  BY <1>1, Invariant, PTL

(* However often attempts are repeated, cut short by a restart or have      *)
(* their outcome lost, what one entry of the result asks for is done no     *)
(* more often than these account for; a label that is listed twice is two   *)
(* entries, each sent in every attempt (writeback.go:94-105,                *)
(* writeback_retry.go).                                                     *)
THEOREM RepeatsAreCounted == Spec => []RepeatsAccountedFor
<1>1. ASSUME IInv PROVE RepeatsAccountedFor
  <2>1. ASSUME NEW e \in Event, NEW a \in BagToSet(posted[e])
        PROVE  /\ Copies(a, posted[e]) <= event[e].attempts + 1 + lost[e]
               /\ Copies(a, posted[e]) <= MaxWriteBack + lost[e]
    <3>1. Copies(a, posted[e]) \in Nat /\ a \in DOMAIN posted[e]
      BY <1>1, Pieces, CopiesType DEF BagToSet
    <3>2. LET n == Copies(a, posted[e]) + IF a \in Range(plan[e]) THEN 1 ELSE 0
          IN  n <= event[e].attempts + lost[e] + 1 /\ n <= MaxWriteBack + lost[e]
      BY <1>1, <3>1, Pieces DEF Own, Counted
    <3>3. QED  BY <1>1, <3>1, <3>2, Pieces
  <2>2. QED  BY <2>1 DEF RepeatsAccountedFor
<1>2. QED  BY <1>1, Invariant, PTL

(* What a step has the platform do, the policy that was in force when the   *)
(* attempt began permits; there a section that is absent restricts nothing. *)
(* GitLab's output is the one thing no section speaks of: it is done only   *)
(* in an attempt that was to show it, for want of a comment                 *)
(* (policies/rules.go, dispatch_policy.go, gitlab_respond.go).              *)
THEOREM PolicyIsKept == Spec => PolicyKept
<1> DEFINE May(e, a) == IF a[2] = "output"
                        THEN a \in under[e].asked /\ OutputAlone(under[e].asked)
                        ELSE Permits(under[e].yaml, a)
           Kept(e) == \A a \in BagToSet(posted'[e]) :
                         Copies(a, posted'[e]) > Copies(a, posted[e]) => May(e, a)
<1>1. ASSUME IInv, [Next]_vars, NEW e \in Event PROVE Kept(e)
  <2>1. CASE posted'[e] = posted[e]
    <3>1. \A a : Copies(a, posted[e]) \in Nat
      BY <1>1, Pieces, CopiesType
    <3>2. QED  BY <2>1, <3>1
  <2>2. ASSUME NEW d \in Event, NEW done \in BOOLEAN, NEW ok \in BOOLEAN, Post(d, done, ok)
        PROVE  Kept(e)
    <3> DEFINE a == Head(plan[d])
    <3>1. plan[d] # <<>> /\ a \in Range(plan[d])
      BY <1>1, <2>2, Pieces, TailPlan DEF Post, Send
    <3>2. May(d, a)
      BY <1>1, <3>1, Pieces DEF Own, Planned
    <3>3. posted'[e] = posted[e] \/ (d = e /\ posted'[e] = Once(posted[e], a))
      BY <1>1, <2>2 DEF Post, Send, IInv, Shape, Once
    <3>4. CASE d = e /\ posted'[e] = Once(posted[e], a)
      <4>1. \A x : x # a => Copies(x, posted'[e]) = Copies(x, posted[e])
        <5>1. IsBag(posted[e])
          BY <1>1, Pieces
        <5> HIDE DEF a
        <5>2. ASSUME NEW x, x # a PROVE Copies(x, posted'[e]) = Copies(x, posted[e])
          <6>1. Copies(x, Once(posted[e], a)) = Copies(x, posted[e]) + IF x = a THEN 1 ELSE 0
            BY <5>1, Added
          <6>2. Copies(x, Once(posted[e], a)) = Copies(x, posted'[e])
            BY <3>4
          <6>3. QED  BY <5>1, <5>2, <6>1, <6>2, CopiesType
        <5>3. QED  BY <5>2
      <4>2. \A x : Copies(x, posted[e]) \in Nat
        BY <1>1, Pieces, CopiesType
      <4> HIDE DEF a
      <4>3. QED  BY <3>2, <3>4, <4>1, <4>2
    <3>5. QED  BY <2>1, <3>3, <3>4
  <2>3. CASE UNCHANGED posted
    BY <2>1, <2>3
  <2>4. UNCHANGED posted \/ \E d \in Event : \E done, ok \in BOOLEAN : Post(d, done, ok)
    BY <1>1 DEF Next, vars, history, Scan, Restart, EditWorker, UpdateToken, Deliver, Begin,
                Finish, Retry, DeadLetter, Refuse
  <2>5. QED  BY <2>2, <2>3, <2>4
<1>2. IInv /\ [Next]_vars => [\A e \in Event : Kept(e)]_vars
  BY <1>1
<1>3. QED  BY <1>2, Invariant, PTL DEF Spec, PolicyKept

-----------------------------------------------------------------------------
(* WriteBack implements Delivery: how each step looks from there.          *)
LEMMA CourierStays ==
    ASSUME UNCHANGED <<event, pc, under, acked, posted, lost>>
    PROVE  UNCHANGED Courier!deliveryVars
BY DEF Courier!deliveryVars, Outcome, Trying, Missing, Recorded

LEMMA OneChanges ==
    ASSUME NEW f, NEW g, f = [d \in Event |-> f[d]], g = [d \in Event |-> g[d]],
           NEW e \in Event, \A d \in Event \ {e} : g[d] = f[d]
    PROVE  g = [f EXCEPT ![e] = g[e]]
OBVIOUS

LEMMA CourierDomains == /\ Outcome = [d \in Event |-> Outcome[d]]
                        /\ Outcome' = [d \in Event |-> Outcome'[d]]
                        /\ Missing = [d \in Event |-> Missing[d]]
                        /\ Missing' = [d \in Event |-> Missing'[d]]
<1>1. Outcome = [d \in Event |-> Outcome[d]] /\ Outcome' = [d \in Event |-> Outcome'[d]]
  BY Zenon DEF Outcome
<1>2. Missing = [d \in Event |-> Missing[d]] /\ Missing' = [d \in Event |-> Missing'[d]]
  BY DEF Missing
<1>3. QED  BY <1>1, <1>2

LEMMA CourierRow ==
    ASSUME NEW e \in Event
    PROVE  /\ e \in Trying <=> Attempting(e)
           /\ Missing[e] = IF Attempting(e) THEN under[e].asked \ acked[e] ELSE {}
           /\ Recorded[e] = event[e].attempts
           /\ Outcome[e] = "written" <=> event[e].state = "completed"
           /\ Outcome[e] = "dropped" <=> event[e].state = "failed"
           /\ Outcome[e] = "owed" <=> event[e].state \notin {"completed", "failed"}
BY DEF Trying, Attempting, Missing, Recorded, Outcome

LEMMA BeginTries ==
    ASSUME IInv, NEW e \in Event, Deliver(e) \/ Retry(e) PROVE Courier!Try(e)
<1>1. PICK first \in BOOLEAN :
         /\ Begin(e, first)
         /\ pc[e] = "due" \/ (e \in rows /\ event[e].attempts < MaxWriteBack)
  BY DEF Deliver, Retry, Take
<1>2. /\ event' = event /\ posted' = posted /\ lost' = lost
      /\ pc' = [pc EXCEPT ![e] = IF first THEN "first" ELSE "again"]
  BY <1>1 DEF Begin
<1>3. ~Attempting(e) /\ event[e].state # "completed" /\ event[e].attempts < MaxWriteBack
  BY <1>1, Pieces DEF Own, Place, Attempting
<1>4. Attempting(e)'
  BY <1>2 DEF Attempting, IInv, Shape
<1>5. \A d \in Event \ {e} : /\ pc'[d] = pc[d] /\ acked'[d] = acked[d]
                             /\ under'[d] = under[d]
  BY <1>1 DEF Begin, IInv, Shape
<1>6. Trying' = Trying \cup {e}
  BY <1>4, <1>5 DEF Trying, Attempting
<1>7. Missing' = [Missing EXCEPT ![e] = Missing'[e]]
  <2>1. \A d \in Event \ {e} : Missing'[d] = Missing[d]
    BY <1>5 DEF Missing, Trying
  <2>2. QED  BY <2>1 DEF Missing
<1>8. Outcome' = Outcome /\ Recorded' = Recorded
  BY <1>2 DEF Outcome, Recorded
<1>9. QED  BY <1>2, <1>3, <1>6, <1>7, <1>8, CourierRow DEF Courier!Try

(* The two ways to put one more of a thing into a bag. *)
LEMMA OneMore == ASSUME NEW b, IsBag(b), NEW a PROVE Once(b, a) = Courier!BagAdd(b, a)
<1> DEFINE n == [x \in DOMAIN b \cup {a} |-> (IF x \in DOMAIN b THEN b[x] ELSE 0)
                                             + (IF x = a THEN 1 ELSE 0)]
<1>1. DOMAIN SetToBag({a}) = {a} /\ SetToBag({a})[a] = 1
  BY DEF SetToBag
<1>2. Once(b, a) = n
  BY <1>1 DEF (+), Once
<1>3. \A x \in DOMAIN b : b[x] \in Nat \ {0}
  BY DEF IsBag
<1>4. n = Courier!BagAdd(b, a)
  <2>1. CASE a \in DOMAIN b
    BY <1>3, <2>1 DEF Courier!BagAdd
  <2>2. CASE a \notin DOMAIN b
    BY <1>3, <2>2 DEF Courier!BagAdd
  <2>3. QED  BY <2>1, <2>2
<1>5. QED  BY <1>2, <1>4

LEMMA PostPerforms ==
    ASSUME IInv, NEW e \in Event, NEW done \in BOOLEAN, NEW ok \in BOOLEAN, Post(e, done, ok)
    PROVE  Courier!Perform(e) \/ UNCHANGED Courier!deliveryVars
<1> DEFINE a == Head(plan[e])
<1>1. /\ Attempting(e) /\ plan[e] # <<>> /\ (ok => done)
      /\ posted' = [posted EXCEPT ![e] = IF done THEN posted[e] (+) SetToBag({a}) ELSE posted[e]]
      /\ acked' = [acked EXCEPT ![e] = IF ok THEN acked[e] \cup {a} ELSE acked[e]]
      /\ UNCHANGED <<event, pc, under, lost>>
  BY DEF Post, Send, Attempting
<1>2. a \in Range(plan[e])
  BY <1>1, Pieces, TailPlan
<1> HIDE DEF a
<1>3. CASE ~done
  <2>1. posted' = posted /\ acked' = acked
    BY <1>1, <1>3 DEF IInv, Shape
  <2>2. QED  BY <1>1, <2>1, CourierStays
<1>4. CASE done
  <2>1. posted' = [posted EXCEPT ![e] = Courier!BagAdd(posted[e], a)]
    BY <1>1, <1>4, Pieces, OneMore DEF Once
  <2>2. a \in Missing[e]
    BY <1>1, <1>2, Pieces, CourierRow DEF Own, Planned
  <2>3. /\ Copies(a, posted[e]) + 1 <= event[e].attempts + lost[e] + 1
        /\ Copies(a, posted[e]) + 1 <= MaxWriteBack + lost[e]
    BY <1>2, Pieces DEF Own, Counted
  <2>4. Courier!Times(e, a) = Copies(a, posted[e]) /\ Copies(a, posted[e]) \in Nat
    BY Pieces, CopiesType DEF Courier!Times, Copies, BagIn, BagToSet
  <2>5. /\ Courier!Times(e, a) < Recorded[e] + lost[e] + 1
        /\ Courier!Times(e, a) < MaxWriteBack + lost[e]
    <3>1. /\ Recorded[e] = event[e].attempts /\ event[e].attempts \in Nat
          /\ lost[e] \in Nat /\ MaxWriteBack \in Nat
      BY Pieces, CourierRow
    <3>2. QED  BY <2>3, <2>4, <3>1
  <2>6. UNCHANGED <<Outcome, Trying, Recorded>>
    BY <1>1 DEF Outcome, Trying, Recorded
  <2>7. acked'[e] = IF ok THEN acked[e] \cup {a} ELSE acked[e]
    BY <1>1 DEF IInv, Shape
  <2>8. Missing' = IF ok THEN [Missing EXCEPT ![e] = Missing[e] \ {a}] ELSE Missing
    <3>1. \A d \in Event \ {e} : Missing'[d] = Missing[d]
      <4>1. \A d \in Event \ {e} : acked'[d] = acked[d]
        BY <1>1 DEF IInv, Shape
      <4>2. Trying' = Trying /\ under' = under
        BY <1>1, <2>6
      <4>3. QED  BY <4>1, <4>2 DEF Missing
    <3>2. Missing'[e] = IF ok THEN Missing[e] \ {a} ELSE Missing[e]
      <4>1. Missing[e] = under[e].asked \ acked[e]
        BY <1>1, CourierRow
      <4>2. Missing'[e] = under[e].asked \ acked'[e]
        BY <1>1, <2>6, CourierRow DEF Missing
      <4>3. QED  BY <2>7, <4>1, <4>2
    <3>3. QED  BY <3>1, <3>2, CourierDomains, OneChanges
  <2>9. QED
    BY <1>1, <2>1, <2>2, <2>5, <2>6, <2>8, CourierRow DEF Courier!Perform
<1>5. QED  BY <1>3, <1>4

(* The end of an attempt, as Delivery sees it. *)
LEMMA FinishEnds ==
    ASSUME IInv, NEW e \in Event, Finish(e)
    PROVE  Courier!End({e}) /\ posted' = posted /\ Attempting(e)
           /\ (failed[e] \/ Missing[e] = {})
<1>1. /\ Attempting(e) /\ plan[e] = <<>> /\ pc' = [pc EXCEPT ![e] = "idle"]
      /\ UNCHANGED <<posted, under, acked>>
  BY DEF Finish, Attempting
<1>2. pc'[e] = "idle" /\ \A d \in Event \ {e} : pc'[d] = pc[d]
  BY <1>1 DEF IInv, Shape
<1>3. Trying' = Trying \ {e}
  BY <1>2 DEF Trying
<1>4. Missing' = [d \in Event |-> IF d \in {e} THEN {} ELSE Missing[d]]
  BY <1>1, <1>3 DEF Missing
<1>5. failed[e] \/ under[e].asked \subseteq acked[e]
  BY <1>1, Pieces, EmptyPlan DEF Own, Complete
<1>6. QED  BY <1>1, <1>3, <1>4, <1>5, CourierRow DEF Courier!End

LEMMA FinishSteps ==
    ASSUME IInv, NEW e \in Event, Finish(e)
    PROVE  Courier!Write(e) \/ Courier!Fail(e) \/ Courier!Abandon(e)
           \/ (e \in Trying /\ Courier!Forget({e}))
<1>1. /\ Courier!End({e}) /\ posted' = posted /\ Attempting(e) /\ e \in Trying
      /\ failed[e] \/ Missing[e] = {}
      /\ event[e].state # "completed"
      /\ pc[e] = "first" => event[e].state \in {"dispatched", "failed"}
      /\ pc[e] = "again" => event[e].state \in {"write_back_failed", "failed"}
  BY FinishEnds, CourierRow, Pieces DEF Own, Place, Attempting
<1>2. CASE Fault /\ lost' = [lost EXCEPT ![e] = lost[e] + 1] /\ UNCHANGED event
  <2>1. lost' = [d \in Event |-> lost[d] + IF d \in {e} THEN 1 ELSE 0]
    <3>1. lost \in [Event -> Nat] /\ lost'[e] = lost[e] + 1
      BY <1>2 DEF IInv, Shape
    <3>2. \A d \in Event : lost'[d] = lost[d] + IF d \in {e} THEN 1 ELSE 0
      BY <1>2, <3>1
    <3>3. lost' = [d \in Event |-> lost'[d]]
      BY <1>2, <3>1
    <3>4. QED  BY <3>2, <3>3
  <2>2. Outcome' = Outcome /\ Recorded' = Recorded
    BY <1>2 DEF Outcome, Recorded
  <2>3. QED  BY <1>1, <2>1, <2>2 DEF Courier!Forget
<1>3. ASSUME NEW from, NEW to, NEW n, Statement(e, from, to, n)
      PROVE  /\ Outcome' = [Outcome EXCEPT ![e] = Outcome'[e]]
             /\ Recorded' = [Recorded EXCEPT ![e] = event'[e].attempts]
  <2>1. \A d \in Event \ {e} : event'[d] = event[d]
    BY <1>3 DEF Statement
  <2>2. \A d \in Event \ {e} : Outcome'[d] = Outcome[d]
    BY <2>1 DEF Outcome
  <2>3. Outcome' = [Outcome EXCEPT ![e] = Outcome'[e]]
    BY <2>2, CourierDomains, OneChanges
  <2>4. QED  BY <2>1, <2>3 DEF Recorded
<1>4. CASE Settle(e) /\ UNCHANGED <<faults, lost>>
  <2>1. CASE event[e].state = "failed"
    <3>1. event'[e] = event[e] /\ \A d \in Event \ {e} : event'[d] = event[d]
      BY <1>4, <2>1, Statements, Zenon DEF Settle, Statement
    <3>2. Outcome' = Outcome /\ Recorded' = Recorded
      BY <3>1 DEF Outcome, Recorded
    <3>3. QED  BY <1>1, <1>4, <2>1, <3>2, CourierRow DEF Courier!Abandon
  <2>2. CASE event[e].state # "failed" /\ failed[e]
    <3>1. Statement(e, {"dispatched", "write_back_failed"}, "write_back_failed", 1)
      BY <1>4, <2>2, Statements, Zenon DEF Settle
    <3>2. event'[e].state = "write_back_failed" /\ event'[e].attempts = event[e].attempts + 1
      BY <1>1, <2>2, <3>1 DEF Statement, Attempting
    <3>3. Recorded' = [Recorded EXCEPT ![e] = Recorded[e] + 1]
      BY <1>3, <3>1, <3>2, CourierRow
    <3>4. Outcome'[e] = "owed" /\ Outcome[e] = "owed"
      BY <1>1, <2>2, <3>2 DEF Outcome
    <3>5. Outcome' = Outcome
      BY <1>3, <3>1, <3>4 DEF Outcome
    <3>6. QED  BY <1>1, <1>4, <3>3, <3>4, <3>5 DEF Courier!Fail
  <2>3. CASE event[e].state # "failed" /\ ~failed[e]
    <3>1. Statement(e, {event[e].state}, "completed", 0)
      <4>1. CASE pc[e] = "first"
        BY <1>1, <1>4, <2>3, <4>1, Statements DEF Settle
      <4>2. CASE pc[e] = "again"
        BY <1>1, <1>4, <2>3, <4>2, Statements DEF Settle
      <4>3. QED  BY <1>1, <4>1, <4>2 DEF Attempting
    <3>2. event'[e].state = "completed" /\ event'[e].attempts = event[e].attempts
      BY <3>1, Pieces DEF Statement
    <3>3. Outcome'[e] = "written" /\ Outcome[e] = "owed"
      BY <1>1, <2>3, <3>2 DEF Outcome
    <3>4. Outcome' = [Outcome EXCEPT ![e] = "written"]
      BY <1>3, <3>1, <3>3
    <3>5. Recorded' = Recorded
      BY <1>3, <3>1, <3>2 DEF Recorded
    <3>6. QED  BY <1>1, <1>4, <2>3, <3>3, <3>4, <3>5 DEF Courier!Write
  <2>4. QED  BY <2>1, <2>2, <2>3
<1>5. QED  BY <1>2, <1>4 DEF Finish

LEMMA RowDrops ==
    ASSUME IInv, NEW e \in Event, Events!SetFailed(e) \/ UNCHANGED event,
           UNCHANGED <<pc, under, acked, posted, lost>>
    PROVE  Courier!Drop(e) \/ UNCHANGED Courier!deliveryVars
<1>1. /\ \A d \in Event \ {e} : event'[d] = event[d]
      /\ event'[e].attempts = event[e].attempts
      /\ event'[e] = event[e] \/ (event'[e].state = "failed" /\ event[e].state # "completed")
  <2>1. CASE Events!SetFailed(e)
    <3>1. Statement(e, Events!EventState \ {"absent", "completed", "skipped"}, "failed", 0)
      BY <2>1, Statements
    <3>2. event'[e].attempts = event[e].attempts
      BY <3>1, Pieces DEF Statement
    <3>3. QED  BY <3>1, <3>2 DEF Statement
  <2>2. CASE UNCHANGED event
    BY <2>2 DEF IInv, Shape
  <2>3. QED  BY <2>1, <2>2
<1>2. UNCHANGED <<Trying, Missing>>
  BY DEF Trying, Missing
<1>3. Recorded' = Recorded
  BY <1>1 DEF Recorded
<1>4. CASE event'[e] = event[e] \/ event[e].state = "failed"
  <2>1. Outcome' = Outcome
    BY <1>1, <1>4 DEF Outcome
  <2>2. QED  BY <1>2, <1>3, <2>1 DEF Courier!deliveryVars
<1>5. CASE event'[e].state = "failed" /\ event[e].state \notin {"failed", "completed"}
  <2>1. Outcome' = [Outcome EXCEPT ![e] = "dropped"] /\ Outcome[e] = "owed"
    BY <1>1, <1>5 DEF Outcome
  <2>2. QED  BY <1>2, <1>3, <2>1 DEF Courier!Drop
<1>6. QED  BY <1>1, <1>4, <1>5

LEMMA RestartForgets == ASSUME IInv, Restart PROVE Courier!Forget(Trying)
<1>1. /\ pc' = [e \in Event |-> "idle"] /\ UNCHANGED <<event, posted>>
      /\ lost' = [e \in Event |-> lost[e] + IF pc[e] \in {"first", "again"} THEN 1 ELSE 0]
  BY DEF Restart
<1>2. lost' = [e \in Event |-> lost[e] + IF e \in Trying THEN 1 ELSE 0]
  BY <1>1 DEF Trying
<1>3. Trying' = Trying \ Trying
  BY <1>1 DEF Trying
<1>4. Missing' = [e \in Event |-> IF e \in Trying THEN {} ELSE Missing[e]]
  BY <1>3 DEF Missing
<1>5. Outcome' = Outcome /\ Recorded' = Recorded
  BY <1>1 DEF Outcome, Recorded
<1>6. QED  BY <1>1, <1>2, <1>3, <1>4, <1>5 DEF Courier!Forget, Courier!End

LEMMA CourierStep == IInv /\ [Next]_vars => [Courier!Next]_(Courier!deliveryVars)
<1> SUFFICES ASSUME IInv, [Next]_vars PROVE Courier!Next \/ UNCHANGED Courier!deliveryVars
  OBVIOUS
<1>1. CASE Restart
  BY <1>1, RestartForgets DEF Courier!Next
<1>2. CASE Scan \/ EditWorker \/ UpdateToken \/ UNCHANGED vars
  BY <1>2, CourierStays DEF Scan, EditWorker, UpdateToken, vars, history
<1>3. ASSUME NEW e \in Event, Deliver(e) \/ Retry(e) PROVE Courier!Next
  BY <1>3, BeginTries DEF Courier!Next
<1>4. ASSUME NEW e \in Event, Finish(e) PROVE Courier!Next
  <2>1. e \in Trying => {e} \in SUBSET Trying
    OBVIOUS
  <2>2. QED  BY <1>4, <2>1, FinishSteps DEF Courier!Next
<1>5. ASSUME NEW e \in Event, DeadLetter(e) \/ Refuse(e)
      PROVE  Courier!Next \/ UNCHANGED Courier!deliveryVars
  <2>1. Events!SetFailed(e) \/ UNCHANGED event
    BY <1>5 DEF DeadLetter, Refuse
  <2>2. UNCHANGED <<pc, under, acked, posted, lost>>
    BY <1>5 DEF DeadLetter, Refuse, history
  <2>3. QED  BY <2>1, <2>2, RowDrops DEF Courier!Next
<1>6. ASSUME NEW e \in Event, NEW done \in BOOLEAN, NEW ok \in BOOLEAN, Post(e, done, ok)
      PROVE  Courier!Next \/ UNCHANGED Courier!deliveryVars
  BY <1>6, PostPerforms DEF Courier!Next
<1>7. QED  BY <1>1, <1>2, <1>3, <1>4, <1>5, <1>6 DEF Next

(* Write-back is at-least-once delivery of the entries of a result, where a *)
(* label listed twice is two: an attempt asks only for what it still        *)
(* misses, ends in one way, and is told of, counted or lost; nothing is     *)
(* asked of a platform again once the event is completed                    *)
(* (dispatch_policy.go, writeback_retry.go, writeback.go:72-113).           *)
THEOREM WriteBackDelivers == Spec => ImplementsDelivery
<1>1. Init => Courier!Init
  BY DEF Init, Courier!Init, Outcome, Trying, Missing, Recorded, EmptyBag, SetToBag
<1>2. QED  BY <1>1, CourierStep, Invariant, PTL DEF Spec, ImplementsDelivery, Courier!Spec
=============================================================================
