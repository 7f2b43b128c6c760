----------------------------- MODULE DesignLease -----------------------------
(***************************************************************************)
(* A design session whose logo is replaced: a request looks at the session,*)
(* imports the logo with the worker, takes the session's lease, has the    *)
(* design rendered again, and gives the lease back with the result.        *)
(*                                                                         *)
(* One row and the requests for it.  A request keeps the row it read first *)
(* in its database session; a later SELECT ... FOR UPDATE waits for the row*)
(* lock but does not refresh what is in memory, and neither does a commit  *)
(* (expire_on_commit=False).  Only a rollback does.                        *)
(***************************************************************************)
EXTENDS FiniteSets

CONSTANTS
  Requests,   \* requests, each the run it starts
  None        \* no run

VARIABLES
  lease,      \* active_generation_id
  age,        \* how long ago it was taken: "fresh", or "old" after 75 minutes
  design,     \* the run whose result is the current intent
  turns,      \* terminal turns: <<run, how it ended>>
  req         \* [Requests -> [at, freed, base]]: freed is the stale run it recovers,
              \* base the design it saw and will render again

vars == <<lease, age, design, turns, req>>

Ends == {"succeeded", "error"}

Init ==
  /\ lease = None /\ age = "fresh" /\ design = None /\ turns = {}
  /\ req = [q \in Requests |-> [at |-> "idle", freed |-> None, base |-> None]]

Ended(run) == \E e \in Ends : <<run, e>> \in turns

\* place_design_logo reads the session: a stale lease is recovered, in memory yet, and
\* any other lease is answered with generation_in_progress.
Reads(q) ==
  /\ req[q].at = "idle"
  /\ \/ /\ lease = None \/ age = "old"
        /\ req' = [req EXCEPT ![q] = [at |-> "importing", freed |-> lease, base |-> design]]
     \/ /\ lease # None /\ age = "fresh"
        /\ req' = [req EXCEPT ![q].at = "refused"]
  /\ UNCHANGED <<lease, age, design, turns>>

\* import_user_motif commits what the session holds, the recovery included.
Imported(q) ==
  /\ req[q].at = "importing"
  /\ req' = [req EXCEPT ![q].at = "imported", ![q].freed = None]
  /\ IF req[q].freed = None THEN UNCHANGED <<lease, turns>>
     ELSE /\ lease' = None
          /\ turns' = IF Ended(req[q].freed) THEN turns
                      ELSE turns \union {<<req[q].freed, "error">>}
  /\ UNCHANGED <<age, design>>

\* _activate_motif_slot waits for the account's lock and for the row, then tests the
\* lease that the request read before the import.
Takes(q) ==
  /\ req[q].at = "imported"
  /\ lease' = q /\ age' = "fresh"
  /\ req' = [req EXCEPT ![q].at = "rendering"]
  /\ UNCHANGED <<design, turns>>

\* 75 minutes pass.
LeaseAges ==
  /\ lease # None /\ age' = "old"
  /\ UNCHANGED <<lease, design, turns, req>>

\* _finish_generation_success: in its memory the lease is still its own.
Succeeds(q) ==
  /\ req[q].at = "rendering"
  /\ lease' = None /\ design' = q
  /\ turns' = turns \union {<<q, "succeeded">>}
  /\ req' = [req EXCEPT ![q].at = "done"]
  /\ UNCHANGED age

\* _finish_generation_failure rolls back first, and so sees the row as it is.
Fails(q) ==
  /\ req[q].at = "rendering"
  /\ lease' = IF lease = q THEN None ELSE lease
  /\ turns' = IF Ended(q) THEN turns ELSE turns \union {<<q, "error">>}
  /\ req' = [req EXCEPT ![q].at = "done"]
  /\ UNCHANGED <<age, design>>

\* The process dies: the lease stays for the next request to recover.
Dies(q) ==
  /\ req[q].at \in {"importing", "imported", "rendering"}
  /\ req' = [req EXCEPT ![q].at = "dead"]
  /\ UNCHANGED <<lease, age, design, turns>>

Next ==
  \/ LeaseAges
  \/ \E q \in Requests :
       Reads(q) \/ Imported(q) \/ Takes(q) \/ Succeeds(q) \/ Fails(q) \/ Dies(q)

Spec == Init /\ [][Next]_vars

\* While a design is rendered again no other rendering of the session begins, unless
\* the lease is overdue: "one per session" is what the lease is for
\* (src/db/src/db/models/design.py:5).
OneRenderPerSession ==
  [][\A q \in Requests :
       (req[q].at # "rendering" /\ req'[q].at = "rendering" /\ age = "fresh")
       => \A p \in Requests : req[p].at # "rendering"]_vars
=============================================================================
