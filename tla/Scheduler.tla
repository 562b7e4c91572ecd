----------------------------- MODULE Scheduler -----------------------------
(***************************************************************************)
(* Job leases of scheduler.py: the row of one job in scheduler_locks, and  *)
(* the processes that run the job through run_job or hold its lease and    *)
(* renew it.                                                               *)
(***************************************************************************)
EXTENDS Clock

CONSTANTS
  Run,        \* processes
  NoRun,      \* NULL in the lease_token column
  Ttl         \* LOCK_STALE_SECONDS, in ticks

ASSUME SchedulerAssumption ==
  /\ NoRun \notin Run
  /\ Ttl \in Nat \ {0}

VARIABLES
  lock,     \* the row: locked, lease_token, ticks to lease_expires_at
  runPc,    \* where each process is in acquire_lease, fn, renew_lease, release_lease
  age,      \* ticks since the process read the clock for the statement it is at
  lease,    \* ticks to expires_at of the SyncLease the process holds
  success   \* whether fn returned (TRUE) or raised

schedulerVars == <<lock, runPc, age, lease, success>>

\* A lease token is a fresh uuid. The process it was made for stands for it: a
\* process holds one lease at a time, and a token of an earlier one, lost in a
\* crash, leaves the row before the process can get another.
Unlocked == [locked |-> FALSE, token |-> NoRun, left |-> 0]

\* A job locked by a version that had no leases: the columns _ensure_scheduler_table
\* adds are NULL. Token and expiry are set and cleared together, so a token that is
\* NULL stands for both, and left says nothing.
LockedWithoutLease == [locked |-> TRUE, token |-> NoRun, left |-> Ttl]

SchedulerInit ==
  /\ lock \in {Unlocked, LockedWithoutLease}
  /\ runPc = [p \in Run |-> "idle"]
  /\ age = [p \in Run |-> 0]
  /\ lease = [p \in Run |-> 0]
  /\ success = [p \in Run |-> FALSE]

----------------------------------------------------------------------------

RunAt(p, step) == runPc[p] = step
RunGoto(p, step) == runPc' = [runPc EXCEPT ![p] = step]

\* The process ends, or its caller goes on without a lease.
StopRun(p) ==
  /\ RunGoto(p, "idle")
  /\ age' = [age EXCEPT ![p] = 0]
  /\ lease' = [lease EXCEPT ![p] = 0]
  /\ success' = [success EXCEPT ![p] = FALSE]

\* run_job calls acquire_lease, which reads the clock.
StartRun(p) ==
  /\ RunAt(p, "idle")
  /\ RunGoto(p, "acquire")
  /\ UNCHANGED <<lock, age, lease, success>>

\* Wrong: only an unlocked job is taken.
TakeableWhenUnlocked(d) == ~lock.locked \/ lock.token = NoRun

\* Wrong: a lease that ends some time after the clock was read is taken over.
TakeableEarly(d) == ~lock.locked \/ lock.token = NoRun \/ lock.left <= 1 - d

\* The WHERE clause of the upsert.
Takeable(d) == ~lock.locked \/ lock.token = NoRun \/ Over(lock.left, d)

\* The upsert: one statement, committed at once. Without a row changed, the run
\* is skipped.
Acquire(p) ==
  /\ RunAt(p, "acquire")
  /\ IF Takeable(age[p])
     THEN /\ lock' = [locked |-> TRUE, token |-> p, left |-> Ttl - age[p]]
          /\ lease' = [lease EXCEPT ![p] = Ttl - age[p]]
          /\ age' = [age EXCEPT ![p] = 0]
          /\ RunGoto(p, "run")
          /\ UNCHANGED success
     ELSE StopRun(p) /\ UNCHANGED lock

\* fn() returns or raises.
EndRun(p, ok) ==
  /\ RunAt(p, "run")
  /\ success' = [success EXCEPT ![p] = ok]
  /\ RunGoto(p, "release")
  /\ UNCHANGED <<lock, age, lease>>

\* The ownership test in the WHERE clauses of release_lease and renew_lease.
Holds(p) == lock.locked /\ lock.token = p

\* release_lease: without a row changed, the lease was lost and the run is
\* reported as an error.
Release(p) ==
  /\ RunAt(p, "release")
  /\ lock' = IF Holds(p) THEN Unlocked ELSE lock
  /\ StopRun(p)

\* A caller of renew_lease, which run_job is not, reads the clock.
StartRenew(p) ==
  /\ RunAt(p, "run")
  /\ RunGoto(p, "renew")
  /\ UNCHANGED <<lock, age, lease, success>>

\* The UPDATE of renew_lease. Without a row changed the lease is lost, and its
\* caller stops.
Renew(p) ==
  /\ RunAt(p, "renew")
  /\ IF Holds(p) /\ ~Over(lock.left, age[p])
     THEN /\ lock' = [lock EXCEPT !.left = Ttl - age[p]]
          /\ lease' = [lease EXCEPT ![p] = Ttl - age[p]]
          /\ age' = [age EXCEPT ![p] = 0]
          /\ RunGoto(p, "run")
          /\ UNCHANGED success
     ELSE StopRun(p) /\ UNCHANGED lock

----------------------------------------------------------------------------
(* What may go wrong: the process dies, or SQLite gives up waiting for the *)
(* write lock (OperationalError).                                          *)

CrashRun(p) ==
  /\ runPc[p] # "idle"
  /\ StopRun(p)
  /\ UNCHANGED lock

\* acquire_lease raises: run_job has nothing to release.
AcquireRaises(p) ==
  /\ RunAt(p, "acquire")
  /\ StopRun(p)
  /\ UNCHANGED lock

\* release_lease raises. Inside the try, the handler calls it again for a
\* failure; from the handler itself, the lease stays until it expires.
ReleaseRaises(p) ==
  /\ RunAt(p, "release")
  /\ IF success[p]
     THEN success' = [success EXCEPT ![p] = FALSE] /\ UNCHANGED <<lock, runPc, age, lease>>
     ELSE StopRun(p) /\ UNCHANGED lock

\* One tick passes. No statement waits longer than MaxDelay after the clock was
\* read for it.
Timed(p) == runPc[p] \in {"acquire", "renew"}

TickLeases ==
  /\ \A p \in Run : Timed(p) => age[p] < MaxDelay
  /\ age' = [p \in Run |-> IF Timed(p) THEN age[p] + 1 ELSE age[p]]
  /\ lock' = IF lock.token # NoRun THEN [lock EXCEPT !.left = Later(@)] ELSE lock
  /\ lease' = [p \in Run |-> IF runPc[p] \in {"run", "renew", "release"} THEN Later(lease[p])
                             ELSE lease[p]]
  /\ UNCHANGED <<runPc, success>>

SchedulerNext ==
  \/ \E p \in Run :
       \/ StartRun(p) \/ Acquire(p) \/ Release(p) \/ StartRenew(p) \/ Renew(p)
       \/ \E ok \in BOOLEAN : EndRun(p, ok)
       \/ CrashRun(p) \/ AcquireRaises(p) \/ ReleaseRaises(p)
  \/ TickLeases

SchedulerSpec == SchedulerInit /\ [][SchedulerNext]_schedulerVars

----------------------------------------------------------------------------
(* Properties.                                                             *)

HasLease(p) == runPc[p] \in {"run", "renew", "release"}

SchedulerTypeOK ==
  /\ lock \in [locked : BOOLEAN, token : Run \cup {NoRun}, left : -MaxDelay .. Ttl]
  /\ runPc \in [Run -> {"idle", "acquire", "run", "renew", "release"}]
  /\ age \in [Run -> 0 .. MaxDelay]
  /\ lease \in [Run -> -MaxDelay .. Ttl]
  /\ success \in [Run -> BOOLEAN]

\* A lease excludes all others until it expires: of two processes that run the
\* job at the same time, at most one has a lease that is not over, crashes,
\* late statements and failed releases included.
OneLiveLease ==
  \A p, q \in Run :
    HasLease(p) /\ HasLease(q) /\ lease[p] > 0 /\ lease[q] > 0 => p = q

\* "Release only the exact lease owner; stale owners cannot unlock a job": the
\* job is unlocked only by the process whose token is in the row.
OwnerUnlocks ==
  [][lock.locked /\ ~lock'.locked =>
       \E p \in Run : lock.token = p /\ runPc[p] = "release" /\ runPc'[p] = "idle"]_schedulerVars
============================================================================
