----------------------------- MODULE AtLeastOnce -----------------------------
(***************************************************************************)
(* What the outbox promises the subscribers of its events, without rows,   *)
(* attempts, backoff, batches, timestamps or crashes.  An event is open    *)
(* until a sender that holds it settles it, and then it stays settled.  It  *)
(* may arrive any number of times, but only at subscriptions it matches and *)
(* that some sender saw switched on.  A sender counts it as delivered only  *)
(* once it has arrived at every subscription it matches of those that were  *)
(* on when the sender began.                                               *)
(***************************************************************************)
CONSTANTS Event, Target, Sender,
          Matches   \* Matches[e]: the subscriptions event e is for

VARIABLES state,    \* state[e]: "none", "open", "delivered" or "dead"
          held,     \* the events some sender holds
          taken,    \* taken[e]: the subscriptions event e has arrived at
          on,       \* the subscriptions switched on
          view      \* view[s]: those that were on when sender s began, or {}

vars == <<state, held, taken, on, view>>

Init == /\ state = [e \in Event |-> "none"] /\ held = {}
        /\ taken = [e \in Event |-> {}]
        /\ on = Target /\ view = [s \in Sender |-> {}]

Enqueue(e) ==
    /\ state[e] = "none" /\ state' = [state EXCEPT ![e] = "open"]
    /\ UNCHANGED <<held, taken, on, view>>

\* Subscriptions are switched on and off by people and by their own failures.
Switch ==
    /\ on' \in SUBSET Target
    /\ UNCHANGED <<state, held, taken, view>>

Begin(s) ==
    /\ view[s] = {} /\ on # {}
    /\ view' = [view EXCEPT ![s] = on]
    /\ UNCHANGED <<state, held, taken, on>>

\* A sender is done, or dies.
End(s) ==
    /\ view' = [view EXCEPT ![s] = {}]
    /\ UNCHANGED <<state, held, taken, on>>

Hold(e) ==
    /\ state[e] = "open" /\ held' = held \cup {e}
    /\ UNCHANGED <<state, taken, on, view>>

\* Also after the event was settled: a sender may be late.
Arrive(s, e, t) ==
    /\ state[e] # "none" /\ t \in Matches[e] \cap view[s]
    /\ taken' = [taken EXCEPT ![e] = @ \cup {t}]
    /\ UNCHANGED <<state, held, on, view>>

\* The sender settles the event, or puts it back to be tried again.
Settle(s, e, verdict) ==
    /\ state[e] = "open" /\ e \in held /\ view[s] # {}
    /\ verdict = "delivered" => Matches[e] \cap view[s] \subseteq taken[e]
    /\ verdict = "dead" => Matches[e] \cap view[s] # {}
    /\ state' = [state EXCEPT ![e] = verdict] /\ held' = held \ {e}
    /\ UNCHANGED <<taken, on, view>>

Next == \/ \E e \in Event : Enqueue(e) \/ Hold(e)
        \/ Switch
        \/ \E s \in Sender : \/ Begin(s) \/ End(s)
                             \/ \E e \in Event : \/ \E t \in Target : Arrive(s, e, t)
                                                 \/ \E v \in {"open", "delivered", "dead"} : Settle(s, e, v)

Spec == Init /\ [][Next]_vars
=============================================================================
