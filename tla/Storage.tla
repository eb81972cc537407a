------------------------------- MODULE Storage -------------------------------
(***************************************************************************)
(* What the database keeps, as the handlers see it (accounts) and as a     *)
(* file (backups).  The two share no variable; a behaviour of this module  *)
(* is one of either, with the other at rest.                               *)
(***************************************************************************)
EXTENDS Accounts, Backups

VARIABLE focus   \* the component that runs

accountState == <<users, pins, life, call, exported, had>>
backupState  == <<file, txn, up, restore, bucket, disturbed>>
storageVars  == <<accountState, backupState, work, focus>>

AccountsRun == focus = "accounts" /\ AccountsNext /\ UNCHANGED <<backupState, focus>>
BackupsRun  == focus = "backups" /\ BackupsNext /\ UNCHANGED <<accountState, focus>>

StorageInit == focus \in {"accounts", "backups"} /\ AccountsInit /\ BackupsInit
StorageNext == AccountsRun \/ BackupsRun

\* Requests go on (their statements do not wait for one another for ever), and
\* the clock does.
StorageFair ==
  /\ WF_accountVars(focus = "accounts" /\ TokenTick)
  /\ \A c \in Caller : WF_accountVars(focus = "accounts" /\ CallStep(c))

StorageSpec == StorageInit /\ [][StorageNext]_storageVars /\ StorageFair

\* Types.
StorageTypeOK == AccountsTypeOK /\ BackupsTypeOK
=============================================================================
