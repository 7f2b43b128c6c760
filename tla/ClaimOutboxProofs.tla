-------------------------- MODULE ClaimOutboxProofs --------------------------
(***************************************************************************)
(* Theorems about ClaimOutbox, for every type of claim and any number of   *)
(* deliveries under way.                                                   *)
(***************************************************************************)
EXTENDS ClaimOutbox, TLAPS

\* Nobody but its holder has the row of a status: a lock is exclusive.
LockIsExclusive ==
  \A v, w \in Workers :
    (/\ worker[v].at \in {"sending", "sent"} /\ worker[w].at \in {"sending", "sent"}
     /\ worker[v].for = worker[w].for) => v = w

\* A row that is held is one that was not settled when it was taken.
HeldIsOpen ==
  \A w \in Workers :
    worker[w].at \in {"sending", "sent"} => row[worker[w].for] \in {"pending", "failed"}

\* A delivery past its send has told the customer.
PastSendTold == \A w \in Workers : worker[w].at = "sent" => told[worker[w].for] > 0

IInv == TypeOK /\ FinalHasRow /\ SentMeansTold /\ LockIsExclusive /\ HeldIsOpen /\ PastSendTold

Workings == [at : {"idle", "read", "sending", "sent"}, for : Final, fresh : BOOLEAN]

-----------------------------------------------------------------------------
\* A rollback never completes or rejects a claim, and every edit is one of the tables'.
LEMMA RollbackIsOpen ==
  ASSUME NEW new \in Final, ValidClaimEdit(Type, status, new, TRUE)
  PROVE  FALSE
  BY OutboxAssumption DEF ValidClaimEdit, ROLLBACK_CLAIM, ClaimTypes, Final

\* At first the invariant holds.
LEMMA InitIInv == Init => IInv
  BY DEF Init, IInv, TypeOK, FinalHasRow, SentMeansTold, LockIsExclusive, HeldIsOpen,
         PastSendTold, Idle, Final, ClaimStatuses

\* An edit of the claim, and its deletion.
LEMMA ClaimStepIInv ==
  ASSUME IInv,
         Delete \/ \E new \in ClaimStatuses, isRollback \in BOOLEAN : UpdateStatus(new, isRollback)
  PROVE  IInv'
  <1>1. CASE Delete
    <2>1. \A w \in Workers : worker[w].at \notin {"sending", "sent"}
      BY <1>1 DEF Delete, Locked, IInv, TypeOK
    <2> QED BY <1>1, <2>1 DEF Delete, IInv, TypeOK, FinalHasRow, SentMeansTold, LockIsExclusive,
                              HeldIsOpen, PastSendTold, Final, ClaimStatuses
  <1>2. ASSUME NEW new \in ClaimStatuses, NEW isRollback \in BOOLEAN, UpdateStatus(new, isRollback)
        PROVE  IInv'
    <2>1. TypeOK'
      BY <1>2 DEF UpdateStatus, IInv, TypeOK, Final
    <2>2. FinalHasRow'
      <3>1. CASE new \in Final /\ ~ isRollback
        BY <1>2, <3>1 DEF UpdateStatus, IInv, TypeOK, FinalHasRow
      <3>2. CASE new \notin Final
        BY <1>2, <3>2 DEF UpdateStatus, FinalHasRow
      <3>3. CASE new \in Final /\ isRollback
        BY <1>2, <3>3, RollbackIsOpen DEF UpdateStatus
      <3> QED BY <3>1, <3>2, <3>3
    <2>3. SentMeansTold'
      BY <1>2 DEF UpdateStatus, IInv, TypeOK, SentMeansTold
    <2>4. LockIsExclusive' /\ PastSendTold'
      BY <1>2 DEF UpdateStatus, IInv, LockIsExclusive, PastSendTold
    <2>5. HeldIsOpen'
      BY <1>2 DEF UpdateStatus, IInv, TypeOK, HeldIsOpen, Final
    <2> QED BY <2>1, <2>2, <2>3, <2>4, <2>5 DEF IInv
  <1> QED BY <1>1, <1>2

\* A delivery begins, dies, or its task with the process.
LEMMA DeliveryComesAndGoesIInv ==
  ASSUME IInv,
         \/ LoseTasks
         \/ \E w \in Workers : StartTask(w) \/ Crash(w) \/ \E s \in Final : Retry(w, s)
  PROVE  IInv'
  <1>1. CASE LoseTasks
    BY <1>1 DEF LoseTasks, IInv, TypeOK, FinalHasRow, SentMeansTold, LockIsExclusive,
                HeldIsOpen, PastSendTold
  <1>2. ASSUME NEW w \in Workers, StartTask(w) PROVE IInv'
    <2>1. TypeOK'
      BY <1>2 DEF StartTask, IInv, TypeOK, Final, Idle
    <2>2. \A v \in Workers : worker'[v].at \in {"sending", "sent"} => worker'[v] = worker[v]
      BY <1>2 DEF StartTask, IInv, TypeOK
    <2>3. \A s \in Final : /\ row[s] # "none" => row'[s] = row[s]
                           /\ row[s] = "none" => row'[s] \in {"none", "pending"}
      BY <1>2 DEF StartTask, IInv, TypeOK
    <2> QED BY <1>2, <2>1, <2>2, <2>3 DEF StartTask, IInv, TypeOK, FinalHasRow, SentMeansTold,
                                          LockIsExclusive, HeldIsOpen, PastSendTold
  <1>3. ASSUME NEW w \in Workers, Crash(w) PROVE IInv'
    <2>1. TypeOK'
      BY <1>3 DEF Crash, IInv, TypeOK, Final, Idle
    <2>2. \A v \in Workers : worker'[v].at \in {"sending", "sent"} => worker'[v] = worker[v]
      BY <1>3 DEF Crash, IInv, TypeOK, Idle
    <2> QED BY <1>3, <2>1, <2>2 DEF Crash, IInv, FinalHasRow, SentMeansTold, LockIsExclusive,
                                    HeldIsOpen, PastSendTold
  <1>4. ASSUME NEW w \in Workers, NEW s \in Final, Retry(w, s) PROVE IInv'
    <2>1. TypeOK'
      BY <1>4 DEF Retry, IInv, TypeOK
    <2>2. \A v \in Workers : worker'[v].at \in {"sending", "sent"} => worker'[v] = worker[v]
      BY <1>4 DEF Retry, IInv, TypeOK
    <2> QED BY <1>4, <2>1, <2>2 DEF Retry, IInv, FinalHasRow, SentMeansTold, LockIsExclusive,
                                    HeldIsOpen, PastSendTold
  <1> QED BY <1>1, <1>2, <1>3, <1>4

\* The row is locked; the lock was free.
LEMMA LockRowIInv == ASSUME IInv, NEW w \in Workers, LockRow(w) PROVE IInv'
  <1> DEFINE s == worker[w].for
  <1>0. worker[w] \in Workings /\ s \in Final /\ worker[w].at = "read" /\ ~ Locked(s)
    BY DEF LockRow, IInv, TypeOK, Workings
  <1>1. UNCHANGED <<status, told, tasks>>
    BY DEF LockRow
  <1>2. CASE row' = row /\ worker' = [worker EXCEPT ![w].at = "sending"]
               /\ row[s] \in {"pending", "failed"}
    <2>1. \A v \in Workers : v # w => worker'[v] = worker[v]
      BY <1>2 DEF IInv, TypeOK
    <2>2. worker'[w].at = "sending" /\ worker'[w].for = s
      BY <1>2, <1>0 DEF IInv, TypeOK
    <2>3. \A v \in Workers : worker[v].at \in {"sending", "sent"} => worker[v].for # s
      BY <1>0 DEF Locked
    <2>4. TypeOK'
      BY <1>0, <1>1, <1>2 DEF IInv, TypeOK
    <2> HIDE DEF s
    <2> QED BY <1>1, <1>2, <2>1, <2>2, <2>3, <2>4 DEF IInv, FinalHasRow, SentMeansTold,
                                   LockIsExclusive, HeldIsOpen, PastSendTold
  <1>3. CASE worker' = [worker EXCEPT ![w] = Idle] /\ row' \in {row, [row EXCEPT ![s] = "skipped"]}
    <2>1. \A v \in Workers : worker'[v].at \in {"sending", "sent"} =>
             worker'[v] = worker[v] /\ worker[v].for # s
      BY <1>0, <1>3 DEF IInv, TypeOK, Idle, Locked
    <2>2. \A r \in Final : row'[r] \in {row[r], "skipped"} /\ (r # s => row'[r] = row[r])
      BY <1>0, <1>3 DEF IInv, TypeOK
    <2>3. \A v \in Workers : worker[v].for \in Final
      BY DEF IInv, TypeOK
    <2>4. TypeOK'
      BY <1>0, <1>1, <1>3 DEF IInv, TypeOK, Idle, Final
    <2> HIDE DEF s
    <2> QED BY <1>1, <2>1, <2>2, <2>3, <2>4 DEF IInv, FinalHasRow, SentMeansTold,
                             LockIsExclusive, HeldIsOpen, PastSendTold
  <1> QED BY <1>2, <1>3, <1>0 DEF LockRow

\* The message goes out, and what became of it is committed.
LEMMA SendIInv == ASSUME IInv, NEW w \in Workers, Send(w) PROVE IInv'
  <1>0. worker[w] \in Workings /\ worker[w].at = "sending" /\ told[worker[w].for] \in 0 .. 2
    BY DEF Send, IInv, TypeOK, Workings
  <1>1. TypeOK'
    BY <1>0 DEF Send, IInv, TypeOK, Workings
  <1>2. /\ \A v \in Workers : v # w => worker'[v] = worker[v]
        /\ worker'[w].at = "sent" /\ worker'[w].for = worker[w].for
    BY <1>0 DEF Send, IInv, TypeOK
  <1>3. told'[worker[w].for] > 0 /\ \A s \in Final : told[s] > 0 => told'[s] > 0
    BY <1>0 DEF Send, IInv, TypeOK, Workings
  <1>4. \A v \in Workers : worker[v].for \in Final
    BY DEF IInv, TypeOK
  <1> QED BY <1>0, <1>1, <1>2, <1>3, <1>4 DEF Send, IInv, FinalHasRow, SentMeansTold,
                                 LockIsExclusive, HeldIsOpen, PastSendTold

\* A delivery that records its outcome keeps the invariant.
LEMMA RecordIInv == ASSUME IInv, NEW w \in Workers, Record(w) PROVE IInv'
  <1> DEFINE s == worker[w].for
  <1>0. worker[w] \in Workings /\ s \in Final /\ worker[w].at \in {"sending", "sent"}
    BY DEF Record, IInv, TypeOK, Workings
  <1>1. PICK outcome \in {"sent", "failed"} :
          (outcome = "sent" => worker[w].at = "sent") /\ row' = [row EXCEPT ![s] = outcome]
    BY DEF Record
  <1>2. TypeOK'
    BY <1>0, <1>1 DEF Record, IInv, TypeOK, Idle, Final
  <1>3. \A v \in Workers : worker'[v].at \in {"sending", "sent"} =>
           worker'[v] = worker[v] /\ worker[v].for # s
    BY <1>0 DEF Record, IInv, TypeOK, Idle, LockIsExclusive
  <1>4. \A r \in Final : (r # s => row'[r] = row[r]) /\ (r = s => row'[r] = outcome)
    BY <1>0, <1>1 DEF IInv, TypeOK
  <1>5. (\A v \in Workers : worker[v].for \in Final) /\ (outcome = "sent" => told[s] > 0)
    BY <1>1 DEF IInv, TypeOK, PastSendTold
  <1>6. FinalHasRow' /\ SentMeansTold'
    BY <1>4, <1>5 DEF Record, IInv, FinalHasRow, SentMeansTold
  <1> HIDE DEF s
  <1>7. LockIsExclusive' /\ HeldIsOpen' /\ PastSendTold'
    BY <1>3, <1>4, <1>5 DEF Record, IInv, LockIsExclusive, HeldIsOpen, PastSendTold
  <1> QED BY <1>2, <1>6, <1>7 DEF IInv

\* Every step keeps the invariant.
LEMMA NextIInv == IInv /\ [Next]_vars => IInv'
  <1> SUFFICES ASSUME IInv, [Next]_vars PROVE IInv'
    OBVIOUS
  <1>1. CASE UNCHANGED vars
    BY <1>1 DEF vars, IInv, TypeOK, FinalHasRow, SentMeansTold, LockIsExclusive, HeldIsOpen,
                PastSendTold
  <1>2. CASE Next
    BY <1>2, ClaimStepIInv, DeliveryComesAndGoesIInv, LockRowIInv, SendIInv, RecordIInv DEF Next
  <1> QED BY <1>1, <1>2

\* The invariant holds in every state of every behaviour.
LEMMA Inductive == Spec => []IInv
  BY InitIInv, NextIInv, PTL DEF Spec

-----------------------------------------------------------------------------
(* Theorems *)

\* A claim that is completed or rejected has its notification row: admin_update_status
\* inserts it with the edit, and no delivery takes it away (FinalHasRow).
THEOREM NoticeCanBeFound == Spec => []FinalHasRow
  <1>1. IInv => FinalHasRow
    BY DEF IInv
  <1> QED BY <1>1, Inductive, PTL

\* A row recorded as sent stands for a message that the provider took, whatever the
\* deliveries that compete for the row and die with it (SentMeansTold).
THEOREM SentWasTold == Spec => []SentMeansTold
  <1>1. IInv => SentMeansTold
    BY DEF IInv
  <1> QED BY <1>1, Inductive, PTL

\* A settled row is never sent again nor changed: whoever holds a row took it before it
\* was settled, and there is one holder (SettledIsFinal).
THEOREM SettledStaysSettled == Spec => SettledIsFinal
  <1> DEFINE A == \A s \in Final : row[s] \in {"sent", "skipped"} =>
                    told'[s] = told[s] /\ row'[s] \in {row[s], "none"}
  <1>1. IInv /\ [Next]_vars => A
    <2> SUFFICES ASSUME IInv, [Next]_vars, NEW s \in Final, row[s] \in {"sent", "skipped"}
                 PROVE  told'[s] = told[s] /\ row'[s] \in {row[s], "none"}
      OBVIOUS
    <2>0. /\ \A w \in Workers : worker[w].at \in {"sending", "sent"} => worker[w].for # s
          /\ row \in [Final -> {"none", "pending", "sent", "failed", "skipped"}]
          /\ told \in [Final -> 0 .. 2]
          /\ \A w \in Workers : worker[w].for \in Final
      BY DEF IInv, HeldIsOpen, TypeOK
    <2>1. ASSUME NEW new \in ClaimStatuses, NEW isRollback \in BOOLEAN, UpdateStatus(new, isRollback)
          PROVE  told'[s] = told[s] /\ row'[s] \in {row[s], "none"}
      BY <2>0, <2>1 DEF UpdateStatus
    <2>2. CASE Delete \/ LoseTasks \/ UNCHANGED vars
      BY <2>0, <2>2 DEF Delete, LoseTasks, vars
    <2>3. ASSUME NEW w \in Workers,
                 StartTask(w) \/ Crash(w) \/ \E r \in Final : Retry(w, r)
          PROVE  told'[s] = told[s] /\ row'[s] \in {row[s], "none"}
      BY <2>0, <2>3 DEF StartTask, Crash, Retry
    <2>4. ASSUME NEW w \in Workers, LockRow(w) \/ Send(w) \/ Record(w)
          PROVE  told'[s] = told[s] /\ row'[s] \in {row[s], "none"}
      BY <2>0, <2>4 DEF LockRow, Send, Record
    <2> QED BY <2>1, <2>2, <2>3, <2>4 DEF Next
  <1>2. IInv /\ [Next]_vars => [A]_vars
    BY <1>1
  <1> QED BY <1>2, Inductive, PTL DEF Spec, SettledIsFinal
=============================================================================
