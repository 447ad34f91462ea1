---------------------------- MODULE AnswerStore ----------------------------
(***************************************************************************)
(* What the PR cache promises to those who read it (src/cache/mod.rs,      *)
(* src/cache/retention.rs): an entry appears whole or not at all, only     *)
(* ever holds an answer that was obtained for its own key, and goes away   *)
(* only once it is past a TTL some caller asked for.                       *)
(***************************************************************************)
EXTENDS Naturals

CONSTANTS Keys, Values, Ttls

VARIABLES
    store,     \* the entry each key holds
    answers,   \* the values obtained for each key so far
    clock

Entries == [body : {"entry"}, value : Values, stamp : Nat]
Nothing == [body |-> "none", value |-> "", stamp |-> 0]

StoreInit ==
    /\ store = [k \in Keys |-> Nothing]
    /\ answers = [k \in Keys |-> {}]
    /\ clock \in Nat

\* An answer for k arrives.
Obtain(k, v) ==
    /\ answers' = [answers EXCEPT ![k] = @ \cup {v}]
    /\ UNCHANGED <<store, clock>>

\* An answer already obtained for k becomes its entry, stamped no later than now.
Keep(k, v, t) ==
    /\ v \in answers[k]
    /\ store' = [store EXCEPT ![k] = [body |-> "entry", value |-> v, stamp |-> t]]
    /\ UNCHANGED <<answers, clock>>

\* An entry past a TTL is reclaimed.
Forget(k, ttl) ==
    /\ store[k].body = "entry" /\ store[k].stamp + ttl < clock
    /\ store' = [store EXCEPT ![k] = Nothing]
    /\ UNCHANGED <<answers, clock>>

Pass == clock' > clock /\ UNCHANGED <<store, answers>>

StoreNext ==
    \/ \E k \in Keys, v \in Values : Obtain(k, v) \/ \E t \in 0..clock : Keep(k, v, t)
    \/ \E k \in Keys, ttl \in Ttls : Forget(k, ttl)
    \/ Pass

StoreSpec == StoreInit /\ [][StoreNext]_<<store, answers, clock>>
=============================================================================
