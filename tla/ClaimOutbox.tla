----------------------------- MODULE ClaimOutbox -----------------------------
(***************************************************************************)
(* The notification outbox of one claim.  A final edit of the claim        *)
(* inserts a pending row for its new status in the same transaction; a     *)
(* background task, or an operator's retry, then locks the row, sends the  *)
(* message and commits what became of it.  The claim itself is not locked  *)
(* while the message is on its way.                                        *)
(***************************************************************************)
EXTENDS ClaimStatus, Naturals

CONSTANTS
  Type,      \* claims.type
  Workers    \* deliveries under way at the same time

ASSUME OutboxAssumption == Type \in ClaimTypes

Final == {"completed", "rejected"}

VARIABLES
  status,   \* claims.status, or "deleted"
  row,      \* claim_notification_logs.delivery_status by status, or "none"
  told,     \* messages the customer received by status; 2 is "more"
  tasks,    \* background tasks that were scheduled and have not started
  worker    \* what each delivery is doing, and for which row

vars == <<status, row, told, tasks, worker>>

Idle == [at |-> "idle", for |-> "completed", fresh |-> FALSE]

TypeOK ==
  /\ status \in ClaimStatuses \union {"deleted"}
  /\ row \in [Final -> {"none", "pending", "sent", "failed", "skipped"}]
  /\ told \in [Final -> 0 .. 2]
  /\ tasks \in 0 .. 2
  /\ worker \in [Workers -> [at : {"idle", "read", "sending", "sent"},
                         for : Final, fresh : BOOLEAN]]

Init ==
  /\ status = "received"
  /\ row = [s \in Final |-> "none"]
  /\ told = [s \in Final |-> 0]
  /\ tasks = 0
  /\ worker = [w \in Workers |-> Idle]

\* A worker holds the row for status s FOR UPDATE.
Locked(s) == \E w \in Workers : worker[w].for = s /\ worker[w].at \in {"sending", "sent"}

-----------------------------------------------------------------------------
\* Mutant: the pending row is left to the background task.
UpdateWithoutRow(new, isRollback) ==
  /\ ValidClaimEdit(Type, status, new, isRollback)
  /\ status' = new
  /\ tasks' = IF ~isRollback /\ new \in Final /\ tasks < 2 THEN tasks + 1 ELSE tasks
  /\ UNCHANGED <<row, told, worker>>

\* admin_update_status, and the background task its route schedules.  At most
\* two tasks are counted.
UpdateStatus(new, isRollback) ==
  LET final == ~isRollback /\ new \in Final IN
  /\ status # "deleted"
  /\ ValidClaimEdit(Type, status, new, isRollback)
  /\ status' = new
  /\ row' = IF final /\ row[new] = "none" THEN [row EXCEPT ![new] = "pending"]
                                          ELSE row
  /\ tasks' = IF final /\ tasks < 2 THEN tasks + 1 ELSE tasks
  /\ UNCHANGED <<told, worker>>

\* cancel_claim: the outbox rows go with the claim, when nobody holds them.
Delete ==
  /\ status = "received" /\ \A s \in Final : ~Locked(s)
  /\ status' = "deleted"
  /\ row' = [s \in Final |-> "none"]
  /\ UNCHANGED <<told, tasks, worker>>

\* notify_status: the row of the status the claim has now, if it is final; it
\* is inserted when the edit left none, as edits before the outbox did.
\* The session keeps this read of the claim, so the comparison made later
\* under the row lock is not fresh.
StartTask(w) ==
  /\ tasks > 0 /\ worker[w] = Idle
  /\ tasks' = tasks - 1
  /\ worker' = IF status \in Final
                 THEN [worker EXCEPT ![w] = [at |-> "read", for |-> status,
                                           fresh |-> FALSE]]
                 ELSE worker
  /\ row' = IF status \in Final /\ row[status] = "none"
              THEN [row EXCEPT ![status] = "pending"] ELSE row
  /\ UNCHANGED <<status, told>>

\* An operator retries a row of the queue.
Retry(w, s) ==
  /\ worker[w] = Idle /\ row[s] # "none"
  /\ worker' = [worker EXCEPT ![w] = [at |-> "read", for |-> s,
                                      fresh |-> TRUE]]
  /\ UNCHANGED <<status, row, told, tasks>>

\* Mutant: a skipped or sent row is delivered again.
LockAnyRow(w) ==
  LET s == worker[w].for IN
  /\ worker[w].at = "read" /\ ~Locked(s)
  /\ IF worker[w].fresh => status = s
       THEN /\ worker' = [worker EXCEPT ![w].at = "sending"]
            /\ UNCHANGED row
       ELSE /\ worker' = [worker EXCEPT ![w] = Idle]
            /\ row' = [row EXCEPT ![s] = "skipped"]
  /\ UNCHANGED <<status, told, tasks>>

\* deliver_notification up to the send: sent and skipped rows are left alone,
\* a row the claim has moved away from is skipped, and so is a customer who
\* opted out.
LockRow(w) ==
  LET s == worker[w].for IN
  /\ worker[w].at = "read" /\ ~Locked(s)
  /\ \/ /\ row[s] \in {"none", "sent", "skipped"}
        /\ worker' = [worker EXCEPT ![w] = Idle]
        /\ UNCHANGED row
     \/ /\ row[s] \in {"pending", "failed"}
        /\ row' = [row EXCEPT ![s] = "skipped"]
        /\ worker' = [worker EXCEPT ![w] = Idle]
     \/ /\ row[s] \in {"pending", "failed"}
        /\ worker[w].fresh => status = s
        /\ worker' = [worker EXCEPT ![w].at = "sending"]
        /\ UNCHANGED row
  /\ UNCHANGED <<status, told, tasks>>

\* The provider takes the message.
Send(w) ==
  LET s == worker[w].for IN
  /\ worker[w].at = "sending"
  /\ told' = [told EXCEPT ![s] = IF @ < 2 THEN @ + 1 ELSE @]
  /\ worker' = [worker EXCEPT ![w].at = "sent"]
  /\ UNCHANGED <<status, row, tasks>>

\* Mutant: the outcome of the send is not looked at.
RecordSent(w) ==
  /\ worker[w].at \in {"sending", "sent"}
  /\ row' = [row EXCEPT ![worker[w].for] = "sent"]
  /\ worker' = [worker EXCEPT ![w] = Idle]
  /\ UNCHANGED <<status, told, tasks>>

\* The commit of a delivery.  A reply that does not arrive in time is a
\* failure, although the provider may have taken the message.
Record(w) ==
  /\ worker[w].at \in {"sending", "sent"}
  /\ \E outcome \in {"sent", "failed"} :
       /\ outcome = "sent" => worker[w].at = "sent"
       /\ row' = [row EXCEPT ![worker[w].for] = outcome]
  /\ worker' = [worker EXCEPT ![w] = Idle]
  /\ UNCHANGED <<status, told, tasks>>

\* The process of a delivery dies: nothing is committed, the lock is gone.
Crash(w) ==
  /\ worker[w].at # "idle"
  /\ worker' = [worker EXCEPT ![w] = Idle]
  /\ UNCHANGED <<status, row, told, tasks>>

\* Background tasks live in the process that scheduled them.
LoseTasks ==
  /\ tasks > 0 /\ tasks' = 0
  /\ UNCHANGED <<status, row, told, worker>>

Next ==
  \/ \E new \in ClaimStatuses, isRollback \in BOOLEAN : UpdateStatus(new, isRollback)
  \/ Delete
  \/ \E w \in Workers : StartTask(w)
  \/ \E w \in Workers, s \in Final : Retry(w, s)
  \/ \E w \in Workers : LockRow(w) \/ Send(w) \/ Record(w) \/ Crash(w)
  \/ LoseTasks

Spec == Init /\ [][Next]_vars

-----------------------------------------------------------------------------
(* Properties *)

\* A claim that an operator completed or rejected has an outbox row for that
\* status, whatever happens to the background tasks: the notice can always be
\* found and retried.
FinalHasRow == status \in Final => row[status] # "none"

\* A row recorded as sent stands for a message the provider took.
SentMeansTold == \A s \in Final : row[s] = "sent" => told[s] > 0

\* sent and skipped are final: no retry and no second task sends the message
\* again or changes the row, even if they waited for its lock while it was
\* being sent.
SettledIsFinal ==
  [][\A s \in Final : row[s] \in {"sent", "skipped"} =>
       told'[s] = told[s] /\ row'[s] \in {row[s], "none"}]_vars
=============================================================================
