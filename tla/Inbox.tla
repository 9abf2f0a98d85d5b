-------------------------------- MODULE Inbox --------------------------------
(***************************************************************************)
(* What the webhook intake promises a platform and the workers: an item    *)
(* that can be told from others is filed once, whoever is told that it is  *)
(* known can rely on it, an entry is given to one worker at most, and it   *)
(* is dispatched only with a worker and closed only without one            *)
(* (internal/serve/webhook.go:67-194).  Nothing filed, given or promised   *)
(* is ever taken back.  Intake implements this.                            *)
(***************************************************************************)
CONSTANTS Entry, Item,
          Keyed,   \* items that carry their own id
          Worker, NoItem

VARIABLES item,    \* what each entry was filed for
          stage,   \* how far it has come
          taker,   \* the workers it was given to
          promised \* the items somebody was told are known

inboxVars == <<item, stage, taker, promised>>

Init == /\ item = [r \in Entry |-> NoItem]
        /\ stage = [r \in Entry |-> "absent"]
        /\ taker = [r \in Entry |-> {}]
        /\ promised = {}

File(r, i) == /\ item[r] = NoItem
              /\ i \in Keyed => \A q \in Entry : item[q] # i
              /\ item' = [item EXCEPT ![r] = i]
              /\ stage' = [stage EXCEPT ![r] = "open"]
              /\ UNCHANGED <<taker, promised>>

Promise(i) == /\ \E r \in Entry : item[r] = i
              /\ promised' = promised \cup {i}
              /\ UNCHANGED <<item, stage, taker>>

Give(r, w) == /\ stage[r] = "open" /\ taker[r] = {}
              /\ taker' = [taker EXCEPT ![r] = {w}]
              /\ UNCHANGED <<item, stage, promised>>

Dispatch(r) == /\ stage[r] = "open" /\ taker[r] # {}
               /\ stage' = [stage EXCEPT ![r] = "dispatched"]
               /\ UNCHANGED <<item, taker, promised>>

Close(r) == /\ stage[r] = "open" /\ taker[r] = {}
            /\ \E s \in {"skipped", "failed"} : stage' = [stage EXCEPT ![r] = s]
            /\ UNCHANGED <<item, taker, promised>>

Next == \/ \E r \in Entry : \/ \E i \in Item : File(r, i)
                            \/ \E w \in Worker : Give(r, w)
                            \/ Dispatch(r) \/ Close(r)
        \/ \E i \in Item : Promise(i)

Spec == Init /\ [][Next]_inboxVars
=============================================================================
