-------------------------- MODULE DuckCoordinator --------------------------
(***************************************************************************)
(* Exclusive leases on local DuckDB files (internal/web/duckcoord).        *)
(*                                                                         *)
(* A caller takes its files one after the other in the order of their      *)
(* canonical paths.  For each it first refers to the entry of the path in  *)
(* its process's registry and takes the entry's token (a channel of one    *)
(* slot), then locks a file that every process of the user sees.  A wait   *)
(* that is cancelled, or an error of the lock file, gives back what the    *)
(* call had taken so far.  The operating system drops the file locks of a  *)
(* process that dies.                                                      *)
(***************************************************************************)
EXTENDS Naturals, FiniteSets

CONSTANTS
  Name,          \* database paths as callers write them
  Path,          \* canonical absolute paths
  NoFile,        \* what CanonicalPath says of :memory: and MotherDuck
  Unresolved,    \* CanonicalPath failed
  Canonical,     \* CanonicalPath
  Rank,          \* the sorting order of paths
  Process,       \* Renart processes of one user
  Caller,        \* goroutines that call Acquire
  Home,          \* the process of a caller
  Entry,         \* localEntry objects
  NoEntry, NoCaller, NoPath

ASSUME CoordinatorAssumption ==
  /\ Canonical \in [Name -> Path \cup {NoFile, Unresolved}]
  /\ NoFile \notin Path /\ Unresolved \notin Path /\ NoPath \notin Path
  /\ Rank \in [Path -> Nat]
  /\ \A p, q \in Path : Rank[p] = Rank[q] => p = q
  /\ Home \in [Caller -> Process]
  /\ IsFiniteSet(Caller)
  /\ NoEntry \notin Entry /\ NoCaller \notin Caller

VARIABLES
  entries,       \* processLocks.entries of every process
  refs,          \* localEntry.refs
  token,         \* who fills the slot of localEntry.token
  flock,         \* who locks the lock file of a path
  at,            \* where each caller is in Acquire or Release
  left,          \* the paths Acquire has not reached
  current,       \* the path it is at
  mine,          \* localLease.entry of each path it refers to
  acquired,      \* lease.acquired
  cancelled      \* its context has ended

registry == <<entries, refs, token, mine>>
vars == <<entries, refs, token, flock, at, left, current, mine, acquired,
          cancelled>>

Where == {"idle", "refer", "token", "file", "held", "unwind", "untoken",
          "drop"}

TypeOK ==
  /\ entries \in [Process -> [Path -> Entry \cup {NoEntry}]]
  /\ refs \in [Entry -> Nat]
  /\ token \in [Entry -> Caller \cup {NoCaller}]
  /\ flock \in [Path -> Caller \cup {NoCaller}]
  /\ at \in [Caller -> Where]
  /\ left \in [Caller -> SUBSET Path]
  /\ current \in [Caller -> Path \cup {NoPath}]
  /\ mine \in [Caller -> [Path -> Entry \cup {NoEntry}]]
  /\ acquired \in [Caller -> SUBSET Path]
  /\ cancelled \in [Caller -> BOOLEAN]

Init ==
  /\ entries = [h \in Process |-> [p \in Path |-> NoEntry]]
  /\ refs = [e \in Entry |-> 0]
  /\ token = [e \in Entry |-> NoCaller]
  /\ flock = [p \in Path |-> NoCaller]
  /\ at = [c \in Caller |-> "idle"]
  /\ left = [c \in Caller |-> {}]
  /\ current = [c \in Caller |-> NoPath]
  /\ mine = [c \in Caller |-> [p \in Path |-> NoEntry]]
  /\ acquired = [c \in Caller |-> {}]
  /\ cancelled = [c \in Caller |-> FALSE]

----------------------------------------------------------------------------
\* canonicalSortedPaths: a set, walked from its least element.
Requested(names) == {Canonical[n] : n \in names} \ {NoFile}
(* Mutant: paths are taken in any order.                                  *)
AnyOf(p, ps) == p \in ps

Least(p, ps) == p \in ps /\ \A q \in ps : Rank[p] <= Rank[q]

Greatest(p, ps) == p \in ps /\ \A q \in ps : Rank[q] <= Rank[p]

\* An object nobody refers to, as the allocator returns one.
Fresh(e) ==
  /\ \A h \in Process, p \in Path : entries[h][p] # e
  /\ \A c \in Caller, p \in Path : mine[c][p] # e
  /\ refs[e] = 0 /\ token[e] = NoCaller

Entered(c) == mine[c][current[c]]

Step(c, from, to) == at[c] = from /\ at' = [at EXCEPT ![c] = to]

----------------------------------------------------------------------------
(***************************************************************************)
(* Acquire is called.  A path that cannot be resolved refuses the call     *)
(* before anything is taken; without a local file the lease is empty.      *)
(***************************************************************************)
Acquire(c, names) ==
  /\ Unresolved \notin Requested(names)
  /\ Step(c, "idle", IF Requested(names) = {} THEN "held" ELSE "refer")
  /\ left' = [left EXCEPT ![c] = Requested(names)]
  /\ UNCHANGED <<registry, flock, current, acquired, cancelled>>

\* localRegistry.acquire up to r.mu.Unlock.
Reference(c) ==
  \E p \in Path, e \in Entry :
    LET h == Home[c] IN
    /\ Step(c, "refer", "token")
    /\ Least(p, left[c])
    /\ IF entries[h][p] = NoEntry THEN Fresh(e) ELSE e = entries[h][p]
    /\ entries' = [entries EXCEPT ![h][p] = e]
    /\ refs' = [refs EXCEPT ![e] = @ + 1]
    /\ mine' = [mine EXCEPT ![c][p] = e]
    /\ current' = [current EXCEPT ![c] = p]
    /\ left' = [left EXCEPT ![c] = @ \ {p}]
    /\ UNCHANGED <<token, flock, acquired, cancelled>>

\* entry.token <- struct{}{}, at once or after a wait.
TakeToken(c) ==
  /\ Step(c, "token", "file")
  /\ token[Entered(c)] = NoCaller
  /\ token' = [token EXCEPT ![Entered(c)] = c]
  /\ UNCHANGED <<entries, refs, flock, left, current, mine, acquired,
                 cancelled>>

(* Mutant: the reference is dropped here and by the caller again.         *)
AbandonTokenDropsTwice(c) ==
  /\ Step(c, "token", "drop")
  /\ cancelled[c]
  /\ refs' = [refs EXCEPT ![Entered(c)] = @ - 1]
  /\ UNCHANGED <<entries, token, mine, flock, left, current, acquired,
                 cancelled>>

(* Mutant: the token is taken out of the channel as well.                 *)
AbandonTokenOfAnother(c) ==
  /\ Step(c, "token", "untoken")
  /\ cancelled[c]
  /\ UNCHANGED <<registry, flock, left, current, acquired, cancelled>>

(***************************************************************************)
(* The wait for the token ends with the context.  When the token is free   *)
(* as well the select may take either; only the first, non-blocking try    *)
(* would always take the token.                                            *)
(***************************************************************************)
AbandonToken(c) ==
  /\ Step(c, "token", "drop")
  /\ cancelled[c]
  /\ UNCHANGED <<registry, flock, left, current, acquired, cancelled>>

(* Mutant: the answer of TryLock is not looked at.                        *)
LockFileUnchecked(c) ==
  /\ Step(c, "file", IF left[c] = {} THEN "held" ELSE "refer")
  /\ flock' = [flock EXCEPT ![current[c]] = c]
  /\ acquired' = [acquired EXCEPT ![c] = @ \cup {current[c]}]
  /\ current' = [current EXCEPT ![c] = NoPath]
  /\ UNCHANGED <<registry, left, cancelled>>

\* fileLock.TryLock, or one of the polls of TryLockContext, succeeds.
LockFile(c) ==
  /\ Step(c, "file", IF left[c] = {} THEN "held" ELSE "refer")
  /\ flock[current[c]] = NoCaller
  /\ flock' = [flock EXCEPT ![current[c]] = c]
  /\ acquired' = [acquired EXCEPT ![c] = @ \cup {current[c]}]
  /\ current' = [current EXCEPT ![c] = NoPath]
  /\ UNCHANGED <<registry, left, cancelled>>

(* Mutant: local.Release is forgotten on the error path.                  *)
AbandonFileKeepsToken(c) ==
  /\ Step(c, "file", "unwind")
  /\ UNCHANGED <<registry, flock, left, current, acquired, cancelled>>

\* The lock file cannot be opened or locked, or the context has ended while
\* another process holds it.
AbandonFile(c) ==
  /\ Step(c, "file", "untoken")
  /\ UNCHANGED <<registry, flock, left, current, acquired, cancelled>>

----------------------------------------------------------------------------
\* Lease.Release by the owner of the lease.
Release(c) ==
  /\ Step(c, "held", "unwind")
  /\ UNCHANGED <<registry, flock, left, current, acquired, cancelled>>

\* One turn of the loop of Lease.Release: the file, ...
Unlock(c) ==
  \E p \in Path :
    /\ Step(c, "unwind", "untoken")
    /\ Greatest(p, acquired[c])
    /\ flock' = [flock EXCEPT ![p] = NoCaller]
    /\ acquired' = [acquired EXCEPT ![c] = @ \ {p}]
    /\ current' = [current EXCEPT ![c] = p]
    /\ UNCHANGED <<registry, left, cancelled>>

\* ... the token (localLease.Release), ...
GiveToken(c) ==
  /\ Step(c, "untoken", "drop")
  /\ token' = [token EXCEPT ![Entered(c)] = NoCaller]
  /\ UNCHANGED <<entries, refs, flock, left, current, mine, acquired,
                 cancelled>>

(* Mutant: the entry is deleted whoever else refers to it.                *)
DropReferenceDeletes(c) ==
  LET e == Entered(c)
      p == current[c]
      h == Home[c]
  IN
  /\ Step(c, "drop", "unwind")
  /\ refs' = [refs EXCEPT ![e] = @ - 1]
  /\ entries' = [entries EXCEPT ![h][p] = NoEntry]
  /\ mine' = [mine EXCEPT ![c][p] = NoEntry]
  /\ current' = [current EXCEPT ![c] = NoPath]
  /\ UNCHANGED <<token, flock, left, acquired, cancelled>>

(* Mutant: the entry is never deleted.                                    *)
DropReferenceKeeps(c) ==
  LET e == Entered(c)
      p == current[c]
      h == Home[c]
  IN
  /\ Step(c, "drop", "unwind")
  /\ refs' = [refs EXCEPT ![e] = @ - 1]
  /\ entries' = entries
  /\ mine' = [mine EXCEPT ![c][p] = NoEntry]
  /\ current' = [current EXCEPT ![c] = NoPath]
  /\ UNCHANGED <<token, flock, left, acquired, cancelled>>

\* ... and the reference (dropReference).
DropReference(c) ==
  LET e == Entered(c)
      p == current[c]
      h == Home[c]
  IN
  /\ Step(c, "drop", "unwind")
  /\ refs' = [refs EXCEPT ![e] = @ - 1]
  /\ entries' = IF refs[e] = 1 /\ entries[h][p] = e
                THEN [entries EXCEPT ![h][p] = NoEntry] ELSE entries
  /\ mine' = [mine EXCEPT ![c][p] = NoEntry]
  /\ current' = [current EXCEPT ![c] = NoPath]
  /\ UNCHANGED <<token, flock, left, acquired, cancelled>>

\* Release, or the Acquire that failed, returns.
Return(c) ==
  /\ Step(c, "unwind", "idle")
  /\ acquired[c] = {}
  /\ left' = [left EXCEPT ![c] = {}]
  /\ cancelled' = [cancelled EXCEPT ![c] = FALSE]
  /\ UNCHANGED <<registry, flock, current, acquired>>

----------------------------------------------------------------------------
\* The context a caller gave to Acquire ends; Release does not look at it.
Cancel(c) ==
  /\ at[c] \in {"refer", "token", "file"}
  /\ ~cancelled[c]
  /\ cancelled' = [cancelled EXCEPT ![c] = TRUE]
  /\ UNCHANGED <<registry, flock, at, left, current, acquired>>

\* A process is killed: its memory is gone, the system drops its file locks.
Crash(h) ==
  LET dead == {c \in Caller : Home[c] = h}
      gone == {entries[h][p] : p \in Path}
      Fall(f, v) == [c \in Caller |-> IF c \in dead THEN v ELSE f[c]]
  IN
  /\ entries' = [entries EXCEPT ![h] = [p \in Path |-> NoEntry]]
  /\ refs' = [e \in Entry |-> IF e \in gone THEN 0 ELSE refs[e]]
  /\ token' = [e \in Entry |-> IF e \in gone THEN NoCaller ELSE token[e]]
  /\ flock' = [p \in Path |-> IF flock[p] \in dead THEN NoCaller
                              ELSE flock[p]]
  /\ at' = Fall(at, "idle")
  /\ left' = Fall(left, {})
  /\ current' = Fall(current, NoPath)
  /\ mine' = Fall(mine, [p \in Path |-> NoEntry])
  /\ acquired' = Fall(acquired, {})
  /\ cancelled' = Fall(cancelled, FALSE)

CallerNext(c) ==
  \/ \E names \in SUBSET Name : Acquire(c, names)
  \/ Reference(c) \/ TakeToken(c) \/ AbandonToken(c)
  \/ LockFile(c) \/ AbandonFile(c)
  \/ Release(c) \/ Unlock(c) \/ GiveToken(c) \/ DropReference(c) \/ Return(c)
  \/ Cancel(c)

Next ==
  \/ \E c \in Caller : CallerNext(c)
  \/ \E h \in Process : Crash(h)

Spec == Init /\ [][Next]_vars

(***************************************************************************)
(* One process whose goroutines run: whoever owns a lease releases it in   *)
(* the end, and a caller that waits for a token gets it when it is given   *)
(* again and again, since Go serves the senders of a channel in order.     *)
(* Locks of other processes are only polled for; nothing bounds that wait. *)
(***************************************************************************)
OneProcess == \E c \in Caller : CallerNext(c)

Fairness ==
  \A c \in Caller :
    /\ WF_vars(Reference(c)) /\ SF_vars(TakeToken(c)) /\ WF_vars(LockFile(c))
    /\ WF_vars(Release(c)) /\ WF_vars(Unlock(c)) /\ WF_vars(GiveToken(c))
    /\ WF_vars(DropReference(c)) /\ WF_vars(Return(c))

FairSpec == Init /\ [][OneProcess]_vars /\ Fairness

----------------------------------------------------------------------------
(***************************************************************************)
(* All the goroutines of a process that are at a path meet at one entry,   *)
(* the one in the registry.  Were an entry deleted while someone refers to *)
(* it (dropReference), the next caller would make another, with a token of *)
(* its own.                                                                *)
(***************************************************************************)
OneEntryPerFile ==
  \A c \in Caller, p \in Path :
    mine[c][p] # NoEntry => entries[Home[c]][p] = mine[c][p]

(***************************************************************************)
(* The registry forgets a path exactly when nobody is at it: cancelled and *)
(* failed waits drop their reference on every way out of Acquire.          *)
(***************************************************************************)
RegistryIsTidy ==
  \A h \in Process, p \in Path :
    entries[h][p] # NoEntry =>
      \E c \in Caller : Home[c] = h /\ mine[c][p] # NoEntry

(***************************************************************************)
(* A call that has returned without a lease, or whose lease was released,  *)
(* keeps nothing: no token, no file lock, no reference, also when it       *)
(* failed after it had taken some of its files (Acquire, Lease.Release).   *)
(***************************************************************************)
NothingKept ==
  \A c \in Caller : at[c] = "idle" =>
    /\ \A e \in Entry : token[e] # c
    /\ \A p \in Path : flock[p] # c /\ mine[c][p] = NoEntry

(***************************************************************************)
(* A caller waits only for files that come after all those it holds, so    *)
(* loads that read one database and write another cannot block each other  *)
(* (the comment of Acquire).                                               *)
(***************************************************************************)
WaitsAscend ==
  \A c \in Caller, p \in Path :
    at[c] \in {"token", "file"} /\ p \in acquired[c] =>
      Rank[p] < Rank[current[c]]

(***************************************************************************)
(* A token is filled by the one caller that is past it, and within a       *)
(* process the file lock never makes anyone wait who has the token.        *)
(***************************************************************************)
TokenBeforeFile ==
  \A c \in Caller, p \in Path :
    flock[p] = c => mine[c][p] # NoEntry /\ token[mine[c][p]] = c

\* Every call of Acquire ends, with or without a lease.
AcquireEnds ==
  \A c \in Caller :
    at[c] \in {"refer", "token", "file"} ~> at[c] \in {"held", "idle"}

(***************************************************************************)
(* The coordinator implements DuckLease: the files of a caller become its  *)
(* own at the one step where Acquire returns.                              *)
(***************************************************************************)
leased == [c \in Caller |-> IF at[c] = "held" THEN acquired[c] ELSE {}]

Lease == INSTANCE DuckLease WITH lease <- leased

ImplementsLease == Lease!Spec
=============================================================================
