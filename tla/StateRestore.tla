----------------------------- MODULE StateRestore -----------------------------
(***************************************************************************)
(* A backup restored while the server runs: the barrier that requests and  *)
(* the restore share (backend/services/maintenance.py), the handler that   *)
(* closes the consumers of the files, promotes the backup and reopens them *)
(* (backend/api/handlers/backup.py), the files it promotes and rolls back  *)
(* (backend/storage/backup_manifest.py), and the session store that        *)
(* requests open and use (backend/services/agent_factory.py).              *)
(*                                                                         *)
(* Positions of a request, which the middleware counts until its handler   *)
(* returns, and of a coroutine nobody counts (a stream whose headers are   *)
(* sent, a background run):                                                *)
(*   idle, inside   before and behind the barrier                          *)
(*   waiting        in wait_until_available, called by get_session_store   *)
(*   opening        past it, in _ensure_infra                              *)
(*   using          has the SessionStore                                   *)
(*   holding        has a connection of its pool                           *)
(*   detached, stray   as using and holding, of a pool that was closed     *)
(*   answered       has written, and returns next                          *)
(*   over                                                                  *)
(* and of a restore:                                                       *)
(*   idle, entering      the window is announced, operations run           *)
(*   closing, promoting, reopening                                         *)
(*   undoing, rolling, recovering   the except clause                      *)
(*   leaving, over                                                         *)
(*                                                                         *)
(* Abstractions.  Of the categories there are the threads, in a database   *)
(* with a write-ahead log, and the artifacts, a tree of files; a message   *)
(* is named by who writes it.  The condition is held across no await but   *)
(* its own wait.  What SQLite makes of a file replaced under an open       *)
(* connection is not followed: mixed says that it happened.  A rollback    *)
(* that fails, and the requests nobody waits for, are left out.            *)
(***************************************************************************)
EXTENDS Integers, FiniteSets

CONSTANTS
  Requests, Outside, Restores,
  Selected,      \* the categories a restore names
  Unnamed,       \* no category was named
  Archived,      \* the messages of the backup
  Stored,        \* the messages of the first state
  MaxFaults,     \* bound on the steps of restores that fail
  MaxCrashes     \* bound on the crashes of the process

Categories == {"threads", "artifacts"}
Users == Requests \cup Outside
Messages == Users \cup {Archived, Stored}

Parameters ==
  /\ Selected \in [Restores -> (SUBSET Categories) \cup {Unnamed}]
  /\ Unnamed \notin Restores /\ \A named \in SUBSET Categories : named # Unnamed
  /\ Users \cap (Restores \cup {Archived, Stored}) = {} /\ Requests \cap Outside = {}
  /\ IsFiniteSet(Requests)
  /\ {MaxFaults, MaxCrashes} \subseteq Nat

VARIABLES
  active,      \* _maintenance_active
  operations,  \* _active_operations
  owner,       \* who has _restore_lock
  at,
  pool,        \* whether the pool of the session store is open
  strays,      \* coroutines with a connection of a pool that was closed
  main, wal,   \* the messages in sessions.db and in its log
  artifacts,
  snapshot,    \* of each restore, the files when it entered
  before,      \* and what they meant then: a history variable
  result, mixed, failed, crashed

gate == <<active, operations, owner>>
files == <<main, wal, artifacts, mixed>>
handles == <<pool, strays>>
told == <<snapshot, before, result>>
faults == <<failed, crashed>>
vars == <<gate, at, handles, files, told, faults>>

Nobody == Unnamed

UserAt ==
  {"idle", "inside", "waiting", "opening", "using", "holding", "detached", "stray",
   "answered", "over"}
RestoreAt ==
  {"idle", "entering", "closing", "promoting", "reopening", "undoing", "rolling",
   "recovering", "leaving", "over"}
Files == [threads : SUBSET Messages, artifacts : {"before", "archived", "none"}]

TypeOK ==
  /\ active \in BOOLEAN /\ operations \in 0..Cardinality(Requests)
  /\ owner \in Restores \cup {Nobody}
  /\ at \in [Users \cup Restores -> UserAt \cup RestoreAt]
  /\ pool \in BOOLEAN /\ strays \subseteq Outside
  /\ main \subseteq Messages /\ wal \subseteq Messages
  /\ artifacts \in {"before", "archived", "none"}
  /\ snapshot \in [Restores -> Files] /\ before \in [Restores -> Files]
  /\ result \in [Restores -> {"none", "ok", "failed"}]
  /\ mixed \in BOOLEAN /\ failed \in 0..MaxFaults /\ crashed \in 0..MaxCrashes

NoFiles == [threads |-> {}, artifacts |-> "none"]

Init ==
  /\ active = FALSE /\ operations = 0 /\ owner = Nobody
  /\ at = [a \in Users \cup Restores |-> "idle"]
  /\ pool = FALSE /\ strays = {}
  /\ main = {Stored} /\ wal = {} /\ artifacts = "before"
  /\ snapshot = [r \in Restores |-> NoFiles] /\ before = [r \in Restores |-> NoFiles]
  /\ result = [r \in Restores |-> "none"]
  /\ mixed = FALSE /\ failed = 0 /\ crashed = 0

Go(a, from, to) == at[a] = from /\ at' = [at EXCEPT ![a] = to]

-----------------------------------------------------------------------------
(* Requests, and those nobody counts.                                      *)

\* storage_operation: the middleware waits for the end of a window and counts.
Begin(q) ==
  /\ Go(q, "idle", "inside") /\ ~active
  /\ operations' = operations + 1
  /\ UNCHANGED <<active, owner, handles, files, told, faults>>

\* A handler asks for the session store.
Ask(u) ==
  /\ Go(u, IF u \in Requests THEN "inside" ELSE "idle", "waiting")
  /\ UNCHANGED <<gate, handles, files, told, faults>>

\* wait_until_available returns.
Pass(u) ==
  /\ Go(u, "waiting", "opening") /\ ~active
  /\ UNCHANGED <<gate, handles, files, told, faults>>

\* _ensure_infra opens the pool, if nobody has.
Open(u) ==
  /\ Go(u, "opening", "using")
  /\ pool' = TRUE
  /\ UNCHANGED <<gate, strays, files, told, faults>>

\* A connection of the pool, which one that was closed opens again.
Acquire(u) ==
  /\ \/ Go(u, "using", "holding") /\ UNCHANGED strays
     \/ Go(u, "detached", "stray") /\ strays' = strays \cup {u}
  /\ UNCHANGED <<gate, pool, files, told, faults>>

\* A message is committed to the log, and the connection goes back to its pool.
Commit(u) ==
  /\ at[u] \in {"holding", "stray"}
  /\ at' = [at EXCEPT ![u] = IF u \in Requests THEN "answered" ELSE "over"]
  /\ wal' = wal \cup {u}
  /\ UNCHANGED <<gate, handles, main, artifacts, mixed, told, faults>>

\* The handler returns.
End(q) ==
  /\ at[q] \in {"inside", "using", "answered"}
  /\ at' = [at EXCEPT ![q] = "over"]
  /\ operations' = operations - 1
  /\ UNCHANGED <<active, owner, handles, files, told, faults>>

\* SQLite moves the log into the file.
Checkpoint ==
  /\ pool /\ wal # {}
  /\ main' = main \cup wal /\ wal' = {}
  /\ UNCHANGED <<gate, at, handles, artifacts, mixed, told, faults>>

-----------------------------------------------------------------------------
(* Restores.                                                               *)

\* What is captured for a rollback, what the rollback cleans, and what is promoted.
Captured(r) == IF Selected[r] \in {Unnamed, {}} THEN {"threads"} ELSE Selected[r]
Cleaned(r) == Selected[r] = Unnamed \/ "artifacts" \in Selected[r]
Promoted(r) == IF Selected[r] = Unnamed THEN Categories ELSE Selected[r]

\* _restore_lock, then maintenance_window: no operation begins from here on.
Announce(r) ==
  /\ Go(r, "idle", "entering") /\ owner = Nobody
  /\ owner' = r /\ active' = TRUE
  /\ UNCHANGED <<operations, handles, files, told, faults>>

\* The last operation is over.  snapshot_targets reads the file, not its log.
Enter(r) ==
  /\ Go(r, "entering", "closing") /\ operations = 0
  /\ snapshot' = [snapshot EXCEPT ![r] = [threads |-> main, artifacts |-> artifacts]]
  /\ before' = [before EXCEPT ![r] = [threads |-> main \cup wal, artifacts |-> artifacts]]
  /\ UNCHANGED <<gate, handles, files, result, faults>>

\* aclose, close_db: the idle connections of the pool, of which the last one leaves
\* no log behind.  A connection in use stays open, in a pool that nobody finds again.
Close(r) ==
  /\ at[r] \in {"closing", "undoing"}
  /\ at' = [a \in DOMAIN at |->
              CASE a = r -> IF at[r] = "closing" THEN "promoting" ELSE "rolling"
                [] at[a] = "using" -> "detached"
                [] at[a] = "holding" -> "stray"
                [] OTHER -> at[a]]
  /\ pool' = FALSE
  /\ strays' = strays \cup {u \in Users : at[u] = "holding"}
  /\ IF pool /\ strays' = {} THEN main' = main \cup wal /\ wal' = {} ELSE UNCHANGED <<main, wal>>
  /\ UNCHANGED <<gate, artifacts, mixed, told, faults>>

\* The database is replaced while a connection or a log of the former one is there.
Mixes == pool \/ strays # {} \/ wal # {}

\* restore_backup, which gives all back when it fails.
Promote(r) ==
  /\ Go(r, "promoting", "reopening")
  /\ main' = IF "threads" \in Promoted(r) THEN {Archived} ELSE main
  /\ artifacts' = IF "artifacts" \in Promoted(r) THEN "archived" ELSE artifacts
  /\ mixed' = (mixed \/ ("threads" \in Promoted(r) /\ Mixes))
  /\ UNCHANGED <<gate, handles, wal, told, faults>>

\* reopen_consumers, with the bypass of the barrier.
Reopen(r) ==
  /\ Go(r, "reopening", "leaving")
  /\ pool' = TRUE
  /\ result' = [result EXCEPT ![r] = "ok"]
  /\ UNCHANGED <<gate, strays, files, snapshot, before, faults>>

\* A step raises: the last one perhaps after it opened the pool.
Fails(r) ==
  /\ failed < MaxFaults /\ failed' = failed + 1
  /\ at[r] \in {"closing", "promoting", "reopening"}
  /\ at' = [at EXCEPT ![r] = "undoing"]
  /\ pool' \in {pool, pool \/ at[r] = "reopening"}
  /\ UNCHANGED <<gate, strays, files, told, crashed>>

\* restore_snapshots writes what was captured and removes the artifacts that were not.
Undo(r) ==
  /\ Go(r, "rolling", "recovering")
  /\ main' = IF "threads" \in Captured(r) THEN snapshot[r].threads ELSE main
  /\ artifacts' = CASE "artifacts" \in Captured(r) -> snapshot[r].artifacts
                    [] Cleaned(r) /\ "artifacts" \notin Captured(r) -> "none"
                    [] OTHER -> artifacts
  /\ mixed' = (mixed \/ ("threads" \in Captured(r) /\ Mixes))
  /\ UNCHANGED <<gate, handles, wal, told, faults>>

\* reopen_consumers again, whatever becomes of it.
Recover(r) ==
  /\ Go(r, "recovering", "leaving")
  /\ pool' \in {pool, TRUE}
  /\ result' = [result EXCEPT ![r] = "failed"]
  /\ UNCHANGED <<gate, strays, files, snapshot, before, faults>>

\* The window is over, and everybody who waits is woken.
Leave(r) ==
  /\ Go(r, "leaving", "over")
  /\ active' = FALSE /\ owner' = Nobody
  /\ UNCHANGED <<operations, handles, files, told, faults>>

\* The process ends, perhaps between two files that restore_backup promotes.
Crash ==
  /\ crashed < MaxCrashes /\ crashed' = crashed + 1
  /\ at' = [a \in DOMAIN at |-> IF at[a] = "idle" THEN "idle" ELSE "over"]
  /\ active' = FALSE /\ operations' = 0 /\ owner' = Nobody
  /\ pool' = FALSE /\ strays' = {}
  /\ \/ UNCHANGED files
     \/ \E r \in Restores : \E done \in SUBSET Promoted(r) :
          /\ at[r] = "promoting"
          /\ main' = IF "threads" \in done THEN {Archived} ELSE main
          /\ artifacts' = IF "artifacts" \in done THEN "archived" ELSE artifacts
          /\ mixed' = (mixed \/ ("threads" \in done /\ Mixes))
          /\ UNCHANGED wal
  /\ UNCHANGED <<told, failed>>

-----------------------------------------------------------------------------

UserStep(u) == Pass(u) \/ Open(u) \/ Acquire(u) \/ Commit(u) \/ (u \in Requests /\ End(u))

RestoreStep(r) ==
  \/ Enter(r) \/ Close(r) \/ Promote(r) \/ Reopen(r) \/ Undo(r) \/ Recover(r) \/ Leave(r)

Next ==
  \/ \E q \in Requests : Begin(q)
  \/ \E u \in Users : Ask(u) \/ UserStep(u)
  \/ Checkpoint
  \/ \E r \in Restores : Announce(r) \/ RestoreStep(r) \/ Fails(r)
  \/ Crash

Spec == Init /\ [][Next]_vars

\* Coroutines that can go on do; nothing is assumed of requests, faults and crashes.
Fairness ==
  /\ \A u \in Users : WF_vars(UserStep(u))
  /\ \A r \in Restores : WF_vars(Announce(r)) /\ WF_vars(RestoreStep(r))

-----------------------------------------------------------------------------
(* Properties.                                                             *)

\* The messages that are in the database for who opens it, but for those of coroutines
\* that the barrier does not hold up.
Content(m, w) == (m \cup w) \ Outside

InWindow(r) == at[r] \notin {"idle", "entering", "over"}

\* While files are promoted or rolled back no counted request is behind the barrier
\* (storage_operation, maintenance_window).
WindowIsExclusive ==
  \A r \in Restores : InWindow(r) =>
    /\ active /\ owner = r
    /\ \A q \in Requests : at[q] \in {"idle", "over"}

\* A restore that answers ok has left what the backup holds in what it was asked for,
\* and what was there in the rest, with its log.
RestoredIsArchive ==
  \A r \in Restores : at[r] = "leaving" /\ result[r] = "ok" /\ ~mixed =>
    /\ Content(main, wal) =
         IF "threads" \in Promoted(r) THEN {Archived} ELSE before[r].threads \ Outside
    /\ artifacts = IF "artifacts" \in Promoted(r) THEN "archived" ELSE before[r].artifacts

\* A restore that fails takes away no more than the log of the database and, when no
\* category was named, the artifacts.
FailureLosesLittle ==
  \A r \in Restores : at[r] = "leaving" /\ result[r] = "failed" /\ ~mixed =>
    /\ snapshot[r].threads \subseteq main \cup wal
    /\ Content(main, wal) \subseteq before[r].threads
    /\ artifacts = before[r].artifacts \/ (Selected[r] = Unnamed /\ artifacts = "none")

\* "volta todos os arquivos ao snapshot anterior": a restore that fails leaves all as it
\* was when its window opened.
FailureKeepsAll ==
  \A r \in Restores : at[r] = "leaving" /\ result[r] = "failed" =>
    main \cup wal = before[r].threads /\ artifacts = before[r].artifacts

\* A database is replaced with no connection to the former one, and none of its log.
PromotedAlone == ~mixed

\* A restore waits for operations that wait for its window.
Deadlocked(r) == at[r] = "entering" /\ \E q \in Requests : at[q] = "waiting"

\* A restore that has begun ends, unless it waits for such an operation.
RestoreOver(r) ==
  \/ at[r] = "over" \/ Deadlocked(r)
  \/ at[r] = "idle" /\ owner # Nobody /\ Deadlocked(owner)

\* A restore ends ("pytest: await operation; await window").
NobodyWaitsForEachOther == \A r \in Restores : ~Deadlocked(r)
=============================================================================
