----------------------------- MODULE JobLedger -----------------------------
(***************************************************************************)
(* What the job engine promises the clients that poll job_status: job ids  *)
(* are handed out in order and never again, a pending job gets at most one *)
(* result, and a result stays.  A job may also be withdrawn without a      *)
(* result, when a restart or an ignore-dependencies start takes its place. *)
(***************************************************************************)
EXTENDS Naturals

VARIABLES
  last,     \* the last id handed out
  pending,  \* ids job_status calls "pending"
  result    \* id -> whether the job succeeded: "done"

ledger == <<last, pending, result>>

Init ==
  /\ last = 0
  /\ pending = {}
  /\ result = [id \in {} |-> TRUE]

Submit ==
  /\ last' = last + 1
  /\ pending' = pending \cup {last'}
  /\ UNCHANGED result

Resolve(id, ok) ==
  /\ id \in pending
  /\ pending' = pending \ {id}
  /\ result' = [i \in DOMAIN result \cup {id} |-> IF i = id THEN ok ELSE result[i]]
  /\ UNCHANGED last

Withdraw(id) ==
  /\ id \in pending
  /\ pending' = pending \ {id}
  /\ UNCHANGED <<last, result>>

\* A new job takes the place of a pending one
Replace(id) ==
  /\ id \in pending
  /\ last' = last + 1
  /\ pending' = (pending \ {id}) \cup {last'}
  /\ UNCHANGED result

Next ==
  \/ Submit
  \/ \E id \in pending : \/ Resolve(id, TRUE) \/ Resolve(id, FALSE)
                          \/ Withdraw(id) \/ Replace(id)

Spec == Init /\ [][Next]_ledger

\* Ids are handed out before they are used, and a job is pending or done, not
\* both.
Disjoint ==
  /\ pending \cup DOMAIN result \subseteq 1 .. last
  /\ pending \cap DOMAIN result = {}

\* What job_status said of a job that is done, it says for ever.
Final ==
  [][\A id \in DOMAIN result :
       /\ id \in DOMAIN result' /\ result'[id] = result[id]
       /\ id \notin pending']_ledger
=============================================================================
