-------------------------------- MODULE Lease --------------------------------
(***************************************************************************)
(* What the execution lease of a work item promises the rest of the        *)
(* system, without sessions, tokens, clocks, transactions or sweeps: one   *)
(* lease stands at a time, a lease that ended never stands again, work is  *)
(* begun and advanced only under a standing lease, a completion ends the   *)
(* lease, and what is finished stays as it is.  The one thing done without *)
(* a lease is to file a completion after the fact, and afterwards nobody   *)
(* holds the work.                                                         *)
(***************************************************************************)
CONSTANTS Id,     \* names of leases
          Work,   \* names of executions
          None

VARIABLES lease,  \* the standing lease, or None
          used,   \* the leases there have been
          exec    \* exec[x]: "none", "open", "COMPLETED" or "FAILED"

vars == <<lease, used, exec>>

Init == lease = None /\ used = {} /\ exec = [x \in Work |-> "none"]

\* Executions still open may fail with the lease they ran under.
Dropped(e) == \E failed \in SUBSET {x \in Work : e[x] = "open"} :
                  exec' = [x \in Work |-> IF x \in failed THEN "FAILED" ELSE e[x]]

Grant(id) ==
    /\ id \in Id \ used
    /\ lease' = id /\ used' = used \cup {id}
    /\ Dropped(exec)

End ==
    /\ lease # None
    /\ lease' = None
    /\ Dropped(exec)
    /\ UNCHANGED used

\* An execution begins or goes on; completing it ends the lease.
Advance(x, s) ==
    /\ lease # None
    /\ exec[x] \in {"none", "open"}
    /\ exec' = [exec EXCEPT ![x] = s]
    /\ lease' = IF s = "COMPLETED" THEN None ELSE lease
    /\ UNCHANGED used

FileLate(x) ==
    /\ exec[x] = "none"
    /\ exec' = [exec EXCEPT ![x] = "COMPLETED"]
    /\ lease' = None
    /\ UNCHANGED used

Next == \/ \E id \in Id : Grant(id)
        \/ End
        \/ \E x \in Work : FileLate(x) \/ \E s \in {"open", "COMPLETED", "FAILED"} : Advance(x, s)

Spec == Init /\ [][Next]_vars
=============================================================================
