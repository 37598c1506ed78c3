------------------------------ MODULE StateStore ------------------------------
(***************************************************************************)
(* The SQLite state store under its users: several YAC processes, a chat   *)
(* and the `yac auth` commands, each with an OpenAiAuthStore on a          *)
(* connection of its own.  SQLite (external) lets one connection write at  *)
(* a time and shows the others what was last committed; the table's        *)
(* primary key holds a NULL profile_id, which SQLite never finds equal to  *)
(* another, so only the transaction of a save keeps the credential single. *)
(*                                                                         *)
(* A statement may fail, with the lock of another connection held for      *)
(* 5000 ms or with a disk error, and a process may end between any two.    *)
(***************************************************************************)
EXTENDS Naturals, Sequences

CONSTANTS Users,      \* processes that keep a store
          MaxSaves,   \* bound: sign-ins and refreshes to save
          MaxFailures \* bound: crashes and failed statements

VARIABLES version,    \* PRAGMA user_version
          rows,       \* the committed rows of provider_credentials, in order
          disabled,   \* app_state holds kLegacyImportDisabledKey
          legacy,     \* the keychain or the file holds a credential
          writer,     \* the connection that holds the write lock
          draft,      \* what its transaction has made of rows
          user, saves, failures

tables == <<version, rows, disabled>>
vars == <<tables, legacy, writer, draft, user, saves, failures>>

Legacy == 0                       \* the credential of an earlier version
Credentials == 0..MaxSaves
None == MaxSaves + 1
Unread == MaxSaves + 2            \* cached_auth_ before the first Load
NoOne == "no one"

Writing == {"begin", "delete", "insert", "commit"}
Phases == {"version", "migrate", "create", "idle", "disabled?", "read back", "enable",
           "erase", "disable"} \cup Writing

TypeOK ==
  /\ version \in {0, 1} /\ disabled \in BOOLEAN /\ legacy \in BOOLEAN
  /\ \A i \in DOMAIN rows : rows[i] \in Credentials
  /\ \A i \in DOMAIN draft : draft[i] \in Credentials
  /\ writer \in Users \cup {NoOne}
  /\ \A u \in Users : user[u].at \in Phases /\ user[u].import \in BOOLEAN
       /\ user[u].secret \in Credentials /\ user[u].cache \in Credentials \cup {Unread, None}
  /\ saves \in 0..MaxSaves /\ failures \in 0..MaxFailures

\* import: the save runs inside Load, which answers even when the save fails.
Started == [at |-> "version", secret |-> 0, import |-> FALSE, cache |-> Unread]

Init ==
  /\ version = 0 /\ rows = <<>> /\ disabled = FALSE /\ legacy \in BOOLEAN
  /\ writer = NoOne /\ draft = <<>> /\ user = [u \in Users |-> Started]
  /\ saves = 0 /\ failures = 0

At(u, phase) == user[u].at = phase
Goes(u, phase) == user' = [user EXCEPT ![u].at = phase]
Answers(u, cached) == user' = [user EXCEPT ![u].at = "idle", ![u].cache = cached]

-----------------------------------------------------------------------------
(* SQLite.                                                                 *)

\* What a connection reads: its own transaction, else the last commit.
Seen(u) == IF writer = u THEN draft ELSE rows

\* Inside its transaction a statement changes the draft; outside, it is a
\* transaction by itself, and waits for the lock.
Run(u, result) ==
  \/ /\ writer = u /\ draft' = result /\ UNCHANGED rows
  \/ /\ writer = NoOne /\ rows' = result /\ UNCHANGED draft

BeginImmediate(u) == writer = NoOne /\ writer' = u /\ draft' = rows

Ends(u) == IF writer = u THEN writer' = NoOne /\ draft' = <<>>
           ELSE UNCHANGED <<writer, draft>>

Commit(u) == rows' = Seen(u) /\ Ends(u)

Rollback(u) == Ends(u) /\ UNCHANGED rows

-----------------------------------------------------------------------------
(* The constructor: Migrate reads the version outside its transaction.     *)

ReadVersion(u) ==
  /\ At(u, "version")
  /\ Goes(u, IF version = 1 THEN "idle" ELSE "migrate")
  /\ UNCHANGED <<tables, legacy, writer, draft, saves, failures>>

BeginMigration(u) ==
  /\ At(u, "migrate") /\ BeginImmediate(u) /\ Goes(u, "create")
  /\ UNCHANGED <<tables, legacy, saves, failures>>

\* CREATE TABLE IF NOT EXISTS: a table another process made in between stays.
CreateSchema(u) ==
  /\ At(u, "create") /\ Commit(u) /\ version' = 1 /\ Goes(u, "idle")
  /\ UNCHANGED <<disabled, legacy, saves, failures>>

-----------------------------------------------------------------------------
(* OpenAiAuthStore: one call at a time, under cache_mutex_.                *)

Load(u) ==
  /\ At(u, "idle") /\ user[u].cache = Unread
  /\ IF Seen(u) # <<>> THEN Answers(u, Head(Seen(u))) ELSE Goes(u, "disabled?")
  /\ UNCHANGED <<tables, legacy, writer, draft, saves, failures>>

\* LoadLegacyAuth saves what it finds, the SQLite row of this moment unseen.
ImportLegacy(u) ==
  /\ At(u, "disabled?")
  /\ IF disabled \/ ~legacy THEN Answers(u, None)
     ELSE user' = [user EXCEPT ![u].at = "begin", ![u].secret = Legacy, ![u].import = TRUE]
  /\ UNCHANGED <<tables, legacy, writer, draft, saves, failures>>

Save(u) ==
  /\ At(u, "idle") /\ saves < MaxSaves /\ saves' = saves + 1
  /\ user' = [user EXCEPT ![u].at = "begin", ![u].secret = saves', ![u].import = FALSE]
  /\ UNCHANGED <<tables, legacy, writer, draft, failures>>

\* Mutant: the save without its transaction.
BeginNothing(u) ==
  /\ At(u, "begin") /\ Goes(u, "delete")
  /\ UNCHANGED <<tables, legacy, writer, draft, saves, failures>>

BeginSave(u) ==
  /\ At(u, "begin") /\ BeginImmediate(u) /\ Goes(u, "delete")
  /\ UNCHANGED <<tables, legacy, saves, failures>>

DeleteRow(u) ==
  /\ At(u, "delete") /\ Run(u, <<>>) /\ Goes(u, "insert")
  /\ UNCHANGED <<version, disabled, legacy, writer, saves, failures>>

InsertRow(u) ==
  /\ At(u, "insert") /\ Run(u, Append(Seen(u), user[u].secret)) /\ Goes(u, "commit")
  /\ UNCHANGED <<version, disabled, legacy, writer, saves, failures>>

CommitSave(u) ==
  /\ At(u, "commit") /\ Commit(u) /\ Goes(u, "read back")
  /\ UNCHANGED <<version, disabled, legacy, saves, failures>>

\* An exception out of a save: Load answers with what it had found, and Save
\* passes it on, the memory of the store as it was.
Thrown(u) ==
  user' = [user EXCEPT ![u].at = "idle", ![u].cache = IF user[u].import THEN Legacy ELSE @]

\* Another process may have saved between the commit and this.
ReadBack(u) ==
  /\ At(u, "read back")
  /\ IF Seen(u) # <<>> /\ Head(Seen(u)) = user[u].secret THEN Goes(u, "enable") ELSE Thrown(u)
  /\ UNCHANGED <<tables, legacy, writer, draft, saves, failures>>

EnableImport(u) ==
  /\ At(u, "enable") /\ writer = NoOne /\ disabled' = FALSE
  /\ Answers(u, user[u].secret)
  /\ UNCHANGED <<version, rows, legacy, writer, draft, saves, failures>>

Erase(u) ==
  /\ At(u, "idle") /\ Goes(u, "erase")
  /\ UNCHANGED <<tables, legacy, writer, draft, saves, failures>>

EraseRow(u) ==
  /\ At(u, "erase") /\ Run(u, <<>>) /\ Goes(u, "disable")
  /\ UNCHANGED <<version, disabled, legacy, writer, saves, failures>>

DisableImport(u) ==
  /\ At(u, "disable") /\ writer = NoOne /\ disabled' = TRUE /\ Answers(u, None)
  /\ UNCHANGED <<version, rows, legacy, writer, draft, saves, failures>>

-----------------------------------------------------------------------------
(* What goes wrong.                                                        *)

May == failures < MaxFailures /\ failures' = failures + 1

\* BEGIN IMMEDIATE stands before the try: nothing is rolled back, nothing held.
SaveFails(u) ==
  /\ May /\ user[u].at \in Writing \cup {"enable"}
  /\ Rollback(u) /\ Thrown(u)
  /\ UNCHANGED <<version, disabled, legacy, saves>>

EraseFails(u) ==
  /\ May /\ user[u].at \in {"erase", "disable"} /\ Goes(u, "idle")
  /\ UNCHANGED <<tables, legacy, writer, draft, saves>>

\* A failed constructor ends the command; a process may end by itself.
Crash(u) ==
  /\ May /\ Rollback(u) /\ user' = [user EXCEPT ![u] = Started]
  /\ UNCHANGED <<version, disabled, legacy, saves>>

Next ==
  \E u \in Users :
    \/ ReadVersion(u) \/ BeginMigration(u) \/ CreateSchema(u)
    \/ Load(u) \/ ImportLegacy(u)
    \/ Save(u) \/ BeginSave(u) \/ DeleteRow(u) \/ InsertRow(u) \/ CommitSave(u)
    \/ ReadBack(u) \/ EnableImport(u)
    \/ Erase(u) \/ EraseRow(u) \/ DisableImport(u)
    \/ SaveFails(u) \/ EraseFails(u) \/ Crash(u)

Spec == Init /\ [][Next]_vars

-----------------------------------------------------------------------------
(* Whoever looks at the credential finds the old one or the new one, never *)
(* none and never two: the committed rows change to exactly one, but by    *)
(* the delete of an erase (SaveProviderCredential, Erase).                 *)
ReplacedWhole ==
  rows' # rows =>
    \/ Len(rows') = 1
    \/ rows' = <<>> /\ \E u \in Users : At(u, "erase") /\ user'[u].at = "disable"
=============================================================================
