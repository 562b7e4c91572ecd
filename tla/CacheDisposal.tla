--------------------------- MODULE CacheDisposal ---------------------------
(***************************************************************************)
(* The recurring disposal of selected text: run_cache_disposal_job runs    *)
(* cache_evict_expired under the lease of its job, again and again and     *)
(* maybe in several processes, while the cache is written and read, and    *)
(* processes die or find the database busy.                                *)
(*                                                                         *)
(* run_job never renews its lease: StartRenew and Renew have no part here. *)
(***************************************************************************)
EXTENDS Scheduler, TextCache

CONSTANT MaxTroubles    \* bound: crashes and exceptions of the job in a behaviour

ASSUME DisposalAssumption == MaxTroubles \in Nat

VARIABLES
  sweep,     \* what each run's SELECT found, and how long ago (0 or 1 record)
  troubles   \* how many crashes and exceptions there were

vars == <<lock, runPc, age, lease, success, row, log, reading, sweep, troubles>>

DisposalInit ==
  /\ SchedulerInit
  /\ CacheInit
  /\ sweep = [p \in Run |-> {}]
  /\ troubles = 0

----------------------------------------------------------------------------
(* The job.                                                                *)

\* A step of run_job itself.
LeaseStep(p) ==
  /\ Acquire(p) \/ Release(p)
  /\ UNCHANGED <<cacheVars, sweep, troubles>>

\* fn(), first half: cache_evict_expired reads the clock and lists rows.
SelectExpired(p) ==
  /\ RunAt(p, "run")
  /\ sweep[p] = {}
  /\ sweep' = [sweep EXCEPT ![p] = {[rows |-> ExpiredRows, age |-> 0]}]
  /\ UNCHANGED <<schedulerVars, cacheVars, troubles>>

\* Its second half, the savepoint: run_job goes on to release the lease.
DisposeExpired(p) ==
  /\ \E s \in sweep[p] : Sweep(s.rows, s.age)
  /\ EndRun(p, TRUE)
  /\ sweep' = [sweep EXCEPT ![p] = {}]
  /\ UNCHANGED <<reading, troubles>>

Trouble ==
  /\ troubles < MaxTroubles
  /\ troubles' = troubles + 1

\* An exception leaves cache_evict_expired: everything is rolled back, or it came
\* after the commit, from enforce_owner_only_database_files.
SweepRaises(p) ==
  /\ Trouble
  /\ \/ \E s \in sweep[p] : Sweep(s.rows, s.age)
     \/ UNCHANGED <<row, log>>
  /\ EndRun(p, FALSE)
  /\ sweep' = [sweep EXCEPT ![p] = {}]
  /\ UNCHANGED reading

\* The process dies at any step, or a statement on the lease raises.
JobDisrupted(p) ==
  /\ Trouble
  /\ \/ CrashRun(p) /\ sweep' = [sweep EXCEPT ![p] = {}]
     \/ (AcquireRaises(p) \/ ReleaseRaises(p)) /\ UNCHANGED sweep
  /\ UNCHANGED cacheVars

----------------------------------------------------------------------------
(* Those who write and read the cache, and time.                           *)

\* cache_write with any ttl it accepts, executed up to MaxDelay after it read the
\* clock.
Written(l) == \E ttl \in 0 .. MaxTtl, d \in 0 .. MaxDelay : WriteText(l, ttl, d)

CacheStep ==
  /\ \/ \E l \in Locator : Written(l)
     \/ \E r \in Reader : DisposeRead(r) \/ \E l \in Locator : ReadExpired(r, l)
  /\ UNCHANGED <<schedulerVars, sweep, troubles>>

\* The savepoint of a sweep, too, is at most MaxDelay after its clock.
Tick ==
  /\ \A p \in Run : \A s \in sweep[p] : s.age < MaxDelay
  /\ TickLeases
  /\ TickRows
  /\ sweep' = [p \in Run |-> {[s EXCEPT !.age = @ + 1] : s \in sweep[p]}]
  /\ UNCHANGED troubles

\* The scheduler that calls run_cache_disposal_job.
StartJob(p) == StartRun(p) /\ UNCHANGED <<cacheVars, sweep, troubles>>

ContinueJob(p) == LeaseStep(p) \/ SelectExpired(p) \/ DisposeExpired(p)

DisposalNext ==
  \/ \E p \in Run : StartJob(p) \/ ContinueJob(p) \/ SweepRaises(p) \/ JobDisrupted(p)
  \/ CacheStep
  \/ Tick

\* The job is started again and again, a started run goes on unless something
\* stops it, and time passes.
DisposalSpec ==
  /\ DisposalInit /\ [][DisposalNext]_vars
  /\ \A p \in Run : WF_vars(StartJob(p)) /\ WF_vars(ContinueJob(p))
  /\ WF_vars(Tick)

----------------------------------------------------------------------------
(* Properties.                                                             *)

DisposalTypeOK ==
  /\ SchedulerTypeOK
  /\ CacheTypeOK
  /\ sweep \in [Run -> SUBSET [rows : SUBSET Locator, age : 0 .. MaxDelay]]
  /\ troubles \in 0 .. MaxTroubles

\* A sweep overwrites no text but expired text, even if the entry it listed as
\* expired was written again before it came to dispose of it, and even if two
\* sweeps overlap because a lease ran out. (A reader may: cache_read does not look
\* at the expiry again.)
SweepDisposesOnlyExpired ==
  [][\A l \in Locator :
       row[l].text = "selected" /\ row'[l] = DisposedRow(row[l])
         => Expired(l, 0) \/ \E r \in Reader : l \in reading[r] /\ reading'[r] = {}]_vars

\* Expired text does not stay in the cache, though nobody reads it again: unless it
\* is written again and again, a sweep overwrites it, even when processes die with
\* the lease in hand.
ExpiredTextIsDisposed ==
  \A l \in Locator :
    <>[][~Written(l)]_vars => (Disposable(l) /\ Expired(l, 0) ~> ~Disposable(l))
============================================================================
