------------------------ MODULE CacheDisposal_proofs ------------------------
(***************************************************************************)
(* Proofs about Scheduler, for any set of processes, any lease time and    *)
(* any bound on how late a statement may be; and about CacheDisposal: the  *)
(* job uses its lease as Scheduler allows, so what is proved of leases     *)
(* holds of it, and what its sweeps and the readers do to the cache, for   *)
(* any number of processes and messages.                                   *)
(***************************************************************************)
EXTENDS CacheDisposal, SequenceTheorems, TLAPS

----------------------------------------------------------------------------
(* Scheduler.                                                              *)

\* Why leases exclude each other: a live lease is the one in the row, and the row
\* expires when it does. So the row is not taken over before, and two processes
\* with live leases would both be named by the one token.
LiveLeaseIsRecorded ==
  \A p \in Run : HasLease(p) /\ lease[p] > 0 => Holds(p) /\ lock.left = lease[p]

LeaseInv == SchedulerTypeOK /\ LiveLeaseIsRecorded

----------------------------------------------------------------------------

\* A tick keeps a point in time within its range, and brings it closer.
LEMMA LaterInRange ==
  ASSUME NEW t \in -MaxDelay .. Ttl
  PROVE  /\ Later(t) \in -MaxDelay .. Ttl
         /\ t > 0 => Later(t) = t - 1
         /\ Later(t) > 0 => t > 0
BY SchedulerAssumption, ClockAssumption DEF Later

LEMMA InitLeaseInv == SchedulerInit => LeaseInv
<1> SUFFICES ASSUME SchedulerInit PROVE LeaseInv
  OBVIOUS
<1>1. lock \in [locked : BOOLEAN, token : Run \cup {NoRun}, left : -MaxDelay .. Ttl]
  <2>1. 0 \in -MaxDelay .. Ttl /\ Ttl \in -MaxDelay .. Ttl
    BY SchedulerAssumption, ClockAssumption
  <2>2. CASE lock = Unlocked
    BY <2>1, <2>2 DEF Unlocked
  <2>3. CASE lock = LockedWithoutLease
    BY <2>1, <2>3 DEF LockedWithoutLease
  <2> QED BY <2>2, <2>3 DEF SchedulerInit
<1> QED
  BY <1>1, SchedulerAssumption, ClockAssumption
  DEF SchedulerInit, LeaseInv, SchedulerTypeOK, LiveLeaseIsRecorded, HasLease

\* What a process leaves behind when it gives up its lease, whatever the row says.
LEMMA StopLeaseInv ==
  ASSUME LeaseInv, NEW p \in Run, StopRun(p),
         \/ UNCHANGED lock
         \/ Holds(p) /\ lock' = Unlocked
  PROVE  LeaseInv'
<1>1. SchedulerTypeOK'
  <2>1. lock' \in [locked : BOOLEAN, token : Run \cup {NoRun}, left : -MaxDelay .. Ttl]
    <3>1. 0 \in -MaxDelay .. Ttl
      BY SchedulerAssumption, ClockAssumption
    <3>2. CASE UNCHANGED lock
      BY <3>2 DEF LeaseInv, SchedulerTypeOK
    <3>3. CASE lock' = Unlocked
      BY <3>1, <3>3 DEF Unlocked
    <3> QED BY <3>2, <3>3
  <2>2. /\ runPc' \in [Run -> {"idle", "acquire", "run", "renew", "release"}]
        /\ age' \in [Run -> 0 .. MaxDelay]
        /\ lease' \in [Run -> -MaxDelay .. Ttl]
    BY SchedulerAssumption, ClockAssumption
    DEF LeaseInv, SchedulerTypeOK, StopRun, RunGoto
  <2>3. success' \in [Run -> BOOLEAN]
    BY DEF LeaseInv, SchedulerTypeOK, StopRun
  <2> QED BY <2>1, <2>2, <2>3 DEF SchedulerTypeOK
<1>2. LiveLeaseIsRecorded'
  <2>1. SUFFICES ASSUME NEW q \in Run, HasLease(q)', lease'[q] > 0
                 PROVE  Holds(q)' /\ lock'.left = lease'[q]
    BY DEF LiveLeaseIsRecorded
  <2>2. q # p
    BY <2>1 DEF HasLease, StopRun, RunGoto, LeaseInv, SchedulerTypeOK
  <2>3. HasLease(q) /\ lease[q] > 0 /\ lease'[q] = lease[q]
    BY <2>1, <2>2 DEF HasLease, StopRun, RunGoto, LeaseInv, SchedulerTypeOK
  <2>4. Holds(q) /\ lock.left = lease[q]
    BY <2>3 DEF LeaseInv, LiveLeaseIsRecorded
  <2>5. UNCHANGED lock
    BY <2>2, <2>4 DEF Holds
  <2> QED BY <2>3, <2>4, <2>5 DEF Holds
<1> QED BY <1>1, <1>2 DEF LeaseInv

\* A process that gets hold of the row, by taking it over or by renewing its lease,
\* while nobody else has a live lease.
LEMMA HoldLeaseInv ==
  ASSUME LeaseInv, NEW p \in Run,
         \A q \in Run \ {p} : HasLease(q) => ~(lease[q] > 0),
         lock' = [locked |-> TRUE, token |-> p, left |-> Ttl - age[p]],
         lease' = [lease EXCEPT ![p] = Ttl - age[p]],
         age' = [age EXCEPT ![p] = 0],
         RunGoto(p, "run"),
         UNCHANGED success
  PROVE  LeaseInv'
<1>1. Ttl - age[p] \in -MaxDelay .. Ttl
  BY SchedulerAssumption, ClockAssumption DEF LeaseInv, SchedulerTypeOK
<1>2. SchedulerTypeOK'
  BY <1>1, SchedulerAssumption, ClockAssumption DEF LeaseInv, SchedulerTypeOK, RunGoto
<1>3. LiveLeaseIsRecorded'
  <2>1. SUFFICES ASSUME NEW q \in Run, HasLease(q)', lease'[q] > 0
                 PROVE  Holds(q)' /\ lock'.left = lease'[q]
    BY DEF LiveLeaseIsRecorded
  <2>2. CASE q # p
    BY <2>1, <2>2 DEF HasLease, RunGoto, LeaseInv, SchedulerTypeOK
  <2>3. CASE q = p
    BY <2>3 DEF Holds, LeaseInv, SchedulerTypeOK
  <2> QED BY <2>2, <2>3
<1> QED BY <1>2, <1>3 DEF LeaseInv

----------------------------------------------------------------------------
(* One lemma for the steps that only move a process on, one for each of    *)
(* the steps that change the row, and one for time.                        *)

LEMMA MoveLeaseInv ==
  ASSUME LeaseInv, NEW p \in Run,
         \/ StartRun(p) \/ StartRenew(p) \/ \E ok \in BOOLEAN : EndRun(p, ok)
         \/ RunAt(p, "release") /\ success' = [success EXCEPT ![p] = FALSE]
              /\ UNCHANGED <<lock, runPc, age, lease>>
  PROVE  LeaseInv'
<1>1. SchedulerTypeOK'
  BY DEF LeaseInv, SchedulerTypeOK, StartRun, StartRenew, EndRun, RunGoto
<1>2. lock' = lock /\ lease' = lease /\ \A q \in Run : HasLease(q)' => HasLease(q)
  BY DEF LeaseInv, SchedulerTypeOK, StartRun, StartRenew, EndRun, RunGoto, RunAt, HasLease
<1>3. LiveLeaseIsRecorded'
  BY <1>2 DEF LeaseInv, LiveLeaseIsRecorded, Holds
<1> QED BY <1>1, <1>3 DEF LeaseInv

LEMMA AcquireLeaseInv ==
  ASSUME LeaseInv, NEW p \in Run, Acquire(p)
  PROVE  LeaseInv'
<1>1. CASE Takeable(age[p])
  <2>1. \A q \in Run : HasLease(q) => ~(lease[q] > 0)
    BY <1>1, ClockAssumption, SchedulerAssumption
    DEF Takeable, Over, LeaseInv, LiveLeaseIsRecorded, Holds, SchedulerTypeOK
  <2> QED BY <1>1, <2>1, HoldLeaseInv DEF Acquire
<1>2. CASE ~Takeable(age[p])
  BY <1>2, StopLeaseInv DEF Acquire
<1> QED BY <1>1, <1>2

LEMMA RenewLeaseInv ==
  ASSUME LeaseInv, NEW p \in Run, Renew(p)
  PROVE  LeaseInv'
<1>1. CASE Holds(p) /\ ~Over(lock.left, age[p])
  <2>1. \A q \in Run \ {p} : HasLease(q) => ~(lease[q] > 0)
    BY <1>1 DEF LeaseInv, LiveLeaseIsRecorded, Holds
  <2>2. lock' = [locked |-> TRUE, token |-> p, left |-> Ttl - age[p]]
    BY <1>1 DEF Renew, Holds, LeaseInv, SchedulerTypeOK
  <2> QED BY <1>1, <2>1, <2>2, HoldLeaseInv DEF Renew
<1>2. CASE ~(Holds(p) /\ ~Over(lock.left, age[p]))
  BY <1>2, StopLeaseInv DEF Renew
<1> QED BY <1>1, <1>2

LEMMA TickLeaseInv ==
  ASSUME LeaseInv, TickLeases
  PROVE  LeaseInv'
<1>1. /\ lock.left \in -MaxDelay .. Ttl
      /\ \A q \in Run : lease[q] \in -MaxDelay .. Ttl
  BY DEF LeaseInv, SchedulerTypeOK
<1>2. SchedulerTypeOK'
  <2>1. lock' \in [locked : BOOLEAN, token : Run \cup {NoRun}, left : -MaxDelay .. Ttl]
    BY <1>1, LaterInRange DEF LeaseInv, SchedulerTypeOK, TickLeases
  <2>2. age' \in [Run -> 0 .. MaxDelay]
    BY ClockAssumption DEF LeaseInv, SchedulerTypeOK, TickLeases
  <2>3. lease' \in [Run -> -MaxDelay .. Ttl]
    BY <1>1, LaterInRange DEF LeaseInv, SchedulerTypeOK, TickLeases
  <2> QED BY <2>1, <2>2, <2>3 DEF LeaseInv, SchedulerTypeOK, TickLeases
<1>3. LiveLeaseIsRecorded'
  <2>1. SUFFICES ASSUME NEW q \in Run, HasLease(q)', lease'[q] > 0
                 PROVE  Holds(q)' /\ lock'.left = lease'[q]
    BY DEF LiveLeaseIsRecorded
  <2>2. HasLease(q) /\ lease'[q] = Later(lease[q])
    BY <2>1 DEF HasLease, TickLeases
  <2>3. lease[q] > 0
    BY <1>1, <2>1, <2>2, LaterInRange
  <2>4. Holds(q) /\ lock.left = lease[q]
    BY <2>2, <2>3 DEF LeaseInv, LiveLeaseIsRecorded
  <2>5. lock'.left = Later(lock.left) /\ lock'.locked /\ lock'.token = q
    BY <2>4, SchedulerAssumption DEF Holds, TickLeases, LeaseInv, SchedulerTypeOK
  <2> QED BY <2>2, <2>4, <2>5 DEF Holds
<1> QED BY <1>2, <1>3 DEF LeaseInv

LEMMA NextLeaseInv == LeaseInv /\ [SchedulerNext]_schedulerVars => LeaseInv'
<1> SUFFICES ASSUME LeaseInv, [SchedulerNext]_schedulerVars PROVE LeaseInv'
  OBVIOUS
<1>1. ASSUME NEW p \in Run,
             \/ StartRun(p) \/ Acquire(p) \/ Release(p) \/ StartRenew(p) \/ Renew(p)
             \/ \E ok \in BOOLEAN : EndRun(p, ok)
             \/ CrashRun(p) \/ AcquireRaises(p) \/ ReleaseRaises(p)
      PROVE  LeaseInv'
  <2>1. CASE StartRun(p) \/ StartRenew(p) \/ \E ok \in BOOLEAN : EndRun(p, ok)
    BY <2>1, MoveLeaseInv
  <2>2. CASE Acquire(p)
    BY <2>2, AcquireLeaseInv
  <2>3. CASE Renew(p)
    BY <2>3, RenewLeaseInv
  <2>4. CASE Release(p)
    BY <2>4, StopLeaseInv DEF Release
  <2>5. CASE CrashRun(p) \/ AcquireRaises(p)
    BY <2>5, StopLeaseInv DEF CrashRun, AcquireRaises
  <2>6. CASE ReleaseRaises(p)
    <3>1. CASE success[p]
      BY <2>6, <3>1, MoveLeaseInv DEF ReleaseRaises
    <3>2. CASE ~success[p]
      BY <2>6, <3>2, StopLeaseInv DEF ReleaseRaises
    <3> QED BY <3>1, <3>2
  <2> QED BY <1>1, <2>1, <2>2, <2>3, <2>4, <2>5, <2>6
<1>2. CASE TickLeases
  BY <1>2, TickLeaseInv
<1>3. CASE UNCHANGED schedulerVars
  BY <1>3 DEF schedulerVars, LeaseInv, SchedulerTypeOK, LiveLeaseIsRecorded, HasLease, Holds
<1> QED BY <1>1, <1>2, <1>3 DEF SchedulerNext

----------------------------------------------------------------------------

\* Leases exclude each other until they expire, with any number of processes that
\* crash, renew, are late, or fail to release (acquire_lease, renew_lease,
\* release_lease).
THEOREM LeasesExclude == SchedulerSpec => []OneLiveLease
<1>1. LeaseInv => OneLiveLease
  BY DEF LeaseInv, LiveLeaseIsRecorded, OneLiveLease, Holds
<1> QED BY <1>1, InitLeaseInv, NextLeaseInv, PTL DEF SchedulerSpec

\* Only the process whose token is in the row unlocks the job (release_lease).
THEOREM OnlyOwnerUnlocks == SchedulerSpec => OwnerUnlocks
<1> DEFINE OwnerStep ==
      lock.locked /\ ~lock'.locked =>
        \E p \in Run : lock.token = p /\ runPc[p] = "release" /\ runPc'[p] = "idle"
<1>1. LeaseInv /\ [SchedulerNext]_schedulerVars => [OwnerStep]_schedulerVars
  <2> SUFFICES ASSUME LeaseInv, SchedulerNext, lock.locked, ~lock'.locked
               PROVE  \E p \in Run : /\ lock.token = p
                                     /\ runPc[p] = "release" /\ runPc'[p] = "idle"
    BY DEF schedulerVars
  <2>1. PICK p \in Run : Release(p) /\ lock' # lock
    BY DEF SchedulerNext, StartRun, Acquire, Release, StartRenew, Renew, EndRun, CrashRun,
       AcquireRaises, ReleaseRaises, TickLeases, LeaseInv, SchedulerTypeOK, Holds
  <2> QED BY <2>1 DEF Release, StopRun, RunGoto, RunAt, Holds, LeaseInv, SchedulerTypeOK
<1> QED BY <1>1, InitLeaseInv, NextLeaseInv, PTL DEF SchedulerSpec, OwnerUnlocks

----------------------------------------------------------------------------
(* The job and its lease.                                                  *)

LEMMA NextUsesScheduler == [DisposalNext]_vars => [SchedulerNext]_schedulerVars
<1> SUFFICES ASSUME [DisposalNext]_vars PROVE [SchedulerNext]_schedulerVars
  OBVIOUS
<1>1. ASSUME NEW p \in Run, StartJob(p) \/ ContinueJob(p) \/ SweepRaises(p) \/ JobDisrupted(p)
      PROVE  [SchedulerNext]_schedulerVars
  BY <1>1 DEF StartJob, ContinueJob, LeaseStep, SelectExpired, DisposeExpired, SweepRaises,
     JobDisrupted, SchedulerNext
<1>2. CASE CacheStep
  BY <1>2 DEF CacheStep
<1>3. CASE Tick
  BY <1>3 DEF Tick, SchedulerNext
<1>4. CASE UNCHANGED vars
  BY <1>4 DEF vars, schedulerVars
<1> QED BY <1>1, <1>2, <1>3, <1>4 DEF DisposalNext

\* run_cache_disposal_job uses its lease as Scheduler says a process may.
THEOREM JobUsesScheduler == DisposalSpec => SchedulerSpec
<1>1. DisposalInit => SchedulerInit
  BY DEF DisposalInit
<1> QED BY <1>1, NextUsesScheduler, PTL DEF DisposalSpec, SchedulerSpec

\* No two runs of the disposal job have a live lease (run_job).
THEOREM JobLeasesExclude == DisposalSpec => []OneLiveLease
BY JobUsesScheduler, LeasesExclude, PTL

----------------------------------------------------------------------------
(* The cache: types.                                                       *)

CacheInv == CacheTypeOK /\ LogExplainsRow

SweepTypeOK == sweep \in [Run -> SUBSET [rows : SUBSET Locator, age : 0 .. MaxDelay]]

\* Each row by itself: what its type and its log allow.
Disposal == <<"cache_expiry", "cache_disposal">>

Undisposed(old) == IF old.legacy THEN <<>> ELSE <<"cache_write">>
Disposed(old) == Undisposed(old) \o Disposal

RowOK(old, history) ==
  \/ old.text = "absent" /\ ~old.disposed /\ history = <<>>
  \/ old.text = "selected" /\ ~old.disposed /\ history = Undisposed(old)
  \/ /\ old.text = "" /\ old.disposed
     /\ \/ history = Disposed(old)
        \/ old.legacy /\ history = <<"cache_disposal">>

LEMMA RowFields ==
  ASSUME NEW old \in Row
  PROVE  /\ old.left \in -MaxDelay .. MaxTtl
         /\ old.left \in Int
         /\ old.text \in {"absent", "selected", ""}
         /\ old.disposed \in BOOLEAN
         /\ old.legacy \in BOOLEAN
<1>1. /\ old.left \in -MaxDelay .. MaxTtl
      /\ old.text \in {"absent", "selected", ""}
      /\ old.disposed \in BOOLEAN
      /\ old.legacy \in BOOLEAN
  BY DEF Row
<1>2. \A t \in -MaxDelay .. MaxTtl : t \in Int
  BY CacheAssumption, ClockAssumption
<1> QED BY <1>1, <1>2, Zenon

LEMMA DisposedRowFields ==
  ASSUME NEW old \in Row
  PROVE  /\ DisposedRow(old) \in Row
         /\ DisposedRow(old).text = "" /\ DisposedRow(old).disposed
         /\ DisposedRow(old).left = old.left /\ DisposedRow(old).legacy = old.legacy
         /\ RowOK(DisposedRow(old), Disposed(old))
<1>1. /\ DisposedRow(old) \in Row
      /\ DisposedRow(old).text = "" /\ DisposedRow(old).disposed
      /\ DisposedRow(old).left = old.left /\ DisposedRow(old).legacy = old.legacy
  BY DEF DisposedRow, Row
<1>2. Disposed(DisposedRow(old)) = Disposed(old)
  BY <1>1 DEF Disposed, Undisposed
<1>3. RowOK(DisposedRow(old), Disposed(old))
  BY <1>1, <1>2, Zenon DEF RowOK
<1> QED BY <1>1, <1>3

LEMMA LogExplainsRowIffRowOK ==
  ASSUME CacheTypeOK
  PROVE  LogExplainsRow <=> \A l \in Locator : RowOK(row[l], log[l])
<1> DEFINE Explained(l) ==
      CASE row[l].text = "absent"   -> log[l] = <<>> /\ ~row[l].disposed
        [] row[l].text = "selected" -> log[l] = Undisposed(row[l]) /\ ~row[l].disposed
        [] row[l].text = ""         ->
             /\ \/ log[l] = Disposed(row[l])
                \/ row[l].legacy /\ log[l] = <<"cache_disposal">>
             /\ row[l].disposed
<1>1. LogExplainsRow <=> \A l \in Locator : Explained(l)
  BY Zenon DEF LogExplainsRow, Undisposed, Disposed, Disposal
<1>2. ASSUME NEW l \in Locator PROVE Explained(l) <=> RowOK(row[l], log[l])
  <2>1. /\ row[l].text \in {"absent", "selected", ""}
        /\ row[l].disposed \in BOOLEAN /\ row[l].legacy \in BOOLEAN
    BY RowFields DEF CacheTypeOK
  <2> QED BY <2>1 DEF RowOK
<1> HIDE DEF Explained
<1> QED BY <1>1, <1>2

LEMMA LogsAreSequences ==
  /\ <<>> \in Seq(Event) /\ <<"cache_disposal">> \in Seq(Event)
  /\ \A old : Undisposed(old) \in Seq(Event) /\ Disposed(old) \in Seq(Event)
<1>1. /\ <<>> \in Seq(Event) /\ <<"cache_disposal">> \in Seq(Event)
      /\ <<"cache_write">> \in Seq(Event) /\ Disposal \in Seq(Event)
  BY DEF Event, Disposal
<1>2. ASSUME NEW old PROVE Undisposed(old) \in Seq(Event) /\ Disposed(old) \in Seq(Event)
  <2>1. Undisposed(old) \in Seq(Event)
    BY <1>1 DEF Undisposed
  <2> QED BY <1>1, <2>1, ConcatProperties, Zenon DEF Disposed
<1> QED BY <1>1, <1>2

LEMMA CacheInvIff ==
  CacheInv <=> /\ row \in [Locator -> Row]
               /\ log \in [Locator -> Seq(Event)]
               /\ reading \in [Reader -> SUBSET Locator]
               /\ \A l \in Locator : RowOK(row[l], log[l])
BY LogExplainsRowIffRowOK DEF CacheInv, CacheTypeOK

----------------------------------------------------------------------------
(* The cache: steps.                                                       *)

LEMMA DisposeCacheInv ==
  ASSUME CacheInv, NEW L \in SUBSET Locator, DisposeEntries(L),
         reading' \in [Reader -> SUBSET Locator]
  PROVE  CacheInv'
<1>1. ASSUME NEW l \in Locator
      PROVE  row'[l] \in Row /\ log'[l] \in Seq(Event) /\ RowOK(row'[l], log'[l])
  <2>1. CASE l \in L /\ Disposable(l)
    <3>1. row[l] \in Row /\ log[l] = Undisposed(row[l])
      BY <2>1, CacheInvIff DEF Disposable, Cached, RowOK
    <3>2. row'[l] = DisposedRow(row[l]) /\ log'[l] = Disposed(row[l])
      BY <2>1, <3>1 DEF DisposeEntries, Disposed, Disposal
    <3> QED BY <3>1, <3>2, LogsAreSequences, DisposedRowFields
  <2>2. CASE ~(l \in L /\ Disposable(l))
    <3>1. row'[l] = row[l] /\ log'[l] = log[l]
      BY <2>2 DEF DisposeEntries
    <3> QED BY <3>1, CacheInvIff
  <2> QED BY <2>1, <2>2
<1>2. /\ row' = [l \in Locator |-> row'[l]]
      /\ log' = [l \in Locator |-> log'[l]]
  BY DEF DisposeEntries
<1>3. row' \in [Locator -> Row] /\ log' \in [Locator -> Seq(Event)]
  BY <1>1, <1>2
<1> QED
  <2>1. CacheTypeOK' /\ \A l \in Locator : RowOK(row'[l], log'[l])
    BY <1>1, <1>3 DEF CacheTypeOK
  <2>2. LogExplainsRow'
    BY <2>1 DEF CacheTypeOK, Row, LogExplainsRow, RowOK, Undisposed, Disposed, Disposal
  <2> QED BY <2>1, <2>2 DEF CacheInv

\* Text that expires at once: its events are those of a write and a disposal.
LEMMA LogOfShortLived ==
  <<"cache_write">> \o Disposal = <<"cache_write", "cache_expiry", "cache_disposal">>
<1> DEFINE start == <<"cache_write">>
           all == <<"cache_write", "cache_expiry", "cache_disposal">>
<1>1. /\ start \in Seq(Event) /\ Disposal \in Seq(Event) /\ all \in Seq(Event)
      /\ Len(start) = 1 /\ Len(Disposal) = 2 /\ Len(all) = 3
  BY DEF Disposal, Event
<1>2. \A i \in 1 .. 3 : all[i] = IF i <= 1 THEN start[i] ELSE Disposal[i - 1]
  BY DEF Disposal
<1> HIDE DEF start, all
<1>3. /\ start \o Disposal \in Seq(Event)
      /\ Len(start \o Disposal) = 3
      /\ \A i \in 1 .. 3 : (start \o Disposal)[i] =
                            IF i <= 1 THEN start[i] ELSE Disposal[i - 1]
  <2>1. /\ start \o Disposal \in Seq(Event)
        /\ Len(start \o Disposal) = Len(start) + Len(Disposal)
        /\ \A i \in 1 .. Len(start) + Len(Disposal) : (start \o Disposal)[i] =
              IF i <= Len(start) THEN start[i] ELSE Disposal[i - Len(start)]
    BY <1>1, ConcatProperties, ZenonT(30)
  <2> QED BY <1>1, <2>1
<1>4. start \o Disposal = all
  BY <1>1, <1>2, <1>3, SeqEqual
<1> QED BY <1>4 DEF start, all

LEMMA WriteCacheInv ==
  ASSUME CacheInv, NEW l \in Locator, NEW ttl \in 0 .. MaxTtl, NEW d \in 0 .. MaxDelay,
         WriteText(l, ttl, d)
  PROVE  CacheInv'
<1> DEFINE new == [text |-> "selected", disposed |-> FALSE, legacy |-> FALSE, left |-> ttl - d]
<1>1. new \in Row /\ DisposedRow(new) \in Row
  <2>1. ttl - d \in -MaxDelay .. MaxTtl
    BY CacheAssumption, ClockAssumption
  <2>2. new \in Row
    BY <2>1 DEF Row
  <2> QED BY <2>2, DisposedRowFields
<1>2. row'[l] \in Row /\ log'[l] \in Seq(Event) /\ RowOK(row'[l], log'[l])
  <2>1. row'[l] = IF ttl = 0 THEN DisposedRow(new) ELSE new
    BY CacheInvIff DEF WriteText
  <2>2. log'[l] = IF ttl = 0 THEN Disposed(new) ELSE Undisposed(new)
    <3>1. Undisposed(new) = <<"cache_write">>
      BY DEF Undisposed
    <3>2. Disposed(new) = <<"cache_write", "cache_expiry", "cache_disposal">>
      BY <3>1, LogOfShortLived DEF Disposed
    <3> HIDE DEF new
    <3> QED BY <3>1, <3>2, CacheInvIff DEF WriteText
  <2>3. RowOK(new, Undisposed(new)) /\ RowOK(DisposedRow(new), Disposed(new))
    BY <1>1, DisposedRowFields DEF RowOK
  <2> HIDE DEF new
  <2> QED BY <1>1, <2>1, <2>2, <2>3, LogsAreSequences
<1>3. \A m \in Locator \ {l} : row'[m] = row[m] /\ log'[m] = log[m]
  BY CacheInvIff DEF WriteText
<1>4. CacheTypeOK'
  BY <1>2, <1>3, CacheInvIff DEF CacheTypeOK, WriteText
<1>5. \A m \in Locator : RowOK(row'[m], log'[m])
  BY <1>2, <1>3, CacheInvIff
<1>6. LogExplainsRow'
  BY <1>4, <1>5 DEF CacheTypeOK, Row, LogExplainsRow, RowOK, Undisposed, Disposed, Disposal
<1> QED BY <1>4, <1>6 DEF CacheInv

LEMMA TickCacheInv ==
  ASSUME CacheInv, TickRows
  PROVE  CacheInv'
<1>1. ASSUME NEW l \in Locator
      PROVE  /\ row'[l] \in Row
             /\ row'[l].text = row[l].text /\ row'[l].disposed = row[l].disposed
             /\ row'[l].legacy = row[l].legacy
  <2>1. /\ row[l] \in Row
        /\ row'[l] = IF Cached(l) THEN [row[l] EXCEPT !.left = Later(@)] ELSE row[l]
    BY CacheInvIff DEF TickRows
  <2>2. row[l].left \in -MaxDelay .. MaxTtl /\ Later(row[l].left) \in -MaxDelay .. MaxTtl
    <3>1. row[l].left \in -MaxDelay .. MaxTtl
      BY <2>1, RowFields
    <3> QED BY <3>1, CacheAssumption, ClockAssumption DEF Later
  <2> QED BY <2>1, <2>2 DEF Row
<1>2. CacheTypeOK'
  BY <1>1, CacheInvIff DEF CacheTypeOK, TickRows
<1>3. LogExplainsRow'
  BY <1>1, CacheInvIff DEF LogExplainsRow, TickRows, CacheInv
<1> QED BY <1>2, <1>3 DEF CacheInv

LEMMA SweepCacheInv ==
  ASSUME CacheInv, SweepTypeOK, NEW p \in Run, NEW s \in sweep[p], Sweep(s.rows, s.age),
         UNCHANGED reading
  PROVE  CacheInv'
BY DisposeCacheInv, CacheInvIff DEF Sweep, SweepTypeOK

----------------------------------------------------------------------------

DisposalInv == CacheInv /\ SweepTypeOK /\ troubles \in 0 .. MaxTroubles

\* What migration 005 leaves of the rows it finds.
LEMMA LegacyEntryOK ==
  ASSUME NEW e \in LegacyEntry
  PROVE  e.row \in Row /\ e.log \in Seq(Event) /\ RowOK(e.row, e.log)
<1>1. ASSUME NEW t \in 0 .. MaxTtl
      PROVE  /\ LegacyRow(t) \in Row /\ RowOK(LegacyRow(t), <<>>)
             /\ DisposedRow(LegacyRow(t)) \in Row
             /\ RowOK(DisposedRow(LegacyRow(t)), <<"cache_disposal">>)
             /\ RowOK(DisposedRow(LegacyRow(t)), Disposal)
  <2>1. t \in -MaxDelay .. MaxTtl
    BY CacheAssumption, ClockAssumption
  <2>2. /\ LegacyRow(t) \in Row /\ LegacyRow(t).text = "selected"
        /\ ~LegacyRow(t).disposed /\ LegacyRow(t).legacy
    BY <2>1 DEF LegacyRow, Row
  <2>3. /\ DisposedRow(LegacyRow(t)) \in Row /\ DisposedRow(LegacyRow(t)).text = ""
        /\ DisposedRow(LegacyRow(t)).disposed /\ DisposedRow(LegacyRow(t)).legacy
    BY <2>2, DisposedRowFields
  <2>4. RowOK(LegacyRow(t), <<>>)
    BY <2>2, Zenon DEF RowOK, Undisposed
  <2>5. RowOK(DisposedRow(LegacyRow(t)), <<"cache_disposal">>)
    BY <2>3, Zenon DEF RowOK
  <2>6. Disposed(DisposedRow(LegacyRow(t))) = Disposal
    <3>1. <<>> \o Disposal = Disposal
      <4>1. Disposal \in Seq(Event)
        BY DEF Disposal, Event
      <4> QED BY <4>1, ConcatEmptySeq, Zenon
    <3> QED BY <2>3, <3>1 DEF Disposed, Undisposed
  <2>7. RowOK(DisposedRow(LegacyRow(t)), Disposal)
    BY <2>3, <2>6, Zenon DEF RowOK
  <2> QED BY <2>2, <2>3, <2>4, <2>5, <2>7
<1>2. CASE e = [row |-> DisposedRow(LegacyRow(0)), log |-> Disposal]
  BY <1>1, <1>2, CacheAssumption, LogsAreSequences DEF Disposal, Event
<1>3. CASE \E t \in 1 .. MaxTtl : e = [row |-> LegacyRow(t), log |-> <<>>]
  BY <1>1, <1>3, CacheAssumption, LogsAreSequences
<1>4. CASE \E t \in 1 .. MaxTtl :
             e = [row |-> DisposedRow(LegacyRow(t)), log |-> <<"cache_disposal">>]
  BY <1>1, <1>4, CacheAssumption, LogsAreSequences
<1> QED BY <1>2, <1>3, <1>4 DEF LegacyEntry, Disposal

LEMMA InitDisposalInv == DisposalInit => DisposalInv
<1> SUFFICES ASSUME DisposalInit PROVE DisposalInv
  OBVIOUS
<1>1. CacheTypeOK /\ LogExplainsRow
  <2>1. NoRow \in Row /\ RowOK(NoRow, <<>>)
    BY CacheAssumption, ClockAssumption DEF NoRow, Row, RowOK
  <2>2. ASSUME NEW e \in LegacyEntry
        PROVE  e.row \in Row /\ e.log \in Seq(Event) /\ RowOK(e.row, e.log)
    BY LegacyEntryOK
  <2>3. PICK entry \in [Locator -> LegacyEntry \cup {[row |-> NoRow, log |-> <<>>]}] :
          /\ row = [l \in Locator |-> entry[l].row]
          /\ log = [l \in Locator |-> entry[l].log]
    BY DEF DisposalInit, CacheInit
  <2>4. ASSUME NEW l \in Locator
        PROVE  row[l] \in Row /\ log[l] \in Seq(Event) /\ RowOK(row[l], log[l])
    <3>1. entry[l] \in LegacyEntry \/ entry[l] = [row |-> NoRow, log |-> <<>>]
      BY <2>3
    <3>2. row[l] = entry[l].row /\ log[l] = entry[l].log
      BY <2>3
    <3>3. CASE entry[l] \in LegacyEntry
      BY <2>2, <3>2, <3>3
    <3>4. CASE entry[l] = [row |-> NoRow, log |-> <<>>]
      BY <2>1, <3>2, <3>4, LogsAreSequences
    <3> QED BY <3>1, <3>3, <3>4
  <2>5. CacheTypeOK
    BY <2>3, <2>4 DEF DisposalInit, CacheInit, CacheTypeOK
  <2> QED BY <2>4, <2>5, LogExplainsRowIffRowOK
<1> QED BY <1>1, DisposalAssumption DEF DisposalInit, DisposalInv, CacheInv, SweepTypeOK

LEMMA NextDisposalInv == DisposalInv /\ [DisposalNext]_vars => DisposalInv'
<1> SUFFICES ASSUME DisposalInv, [DisposalNext]_vars PROVE DisposalInv'
  OBVIOUS
<1>1. CacheInv'
  <2>1. ASSUME UNCHANGED cacheVars PROVE CacheInv'
    BY <2>1 DEF DisposalInv, cacheVars, CacheInv, CacheTypeOK, LogExplainsRow
  <2>2. ASSUME NEW p \in Run, NEW s \in sweep[p], Sweep(s.rows, s.age), UNCHANGED reading
        PROVE  CacheInv'
    BY <2>2, SweepCacheInv DEF DisposalInv
  <2>3. ASSUME NEW p \in Run, DisposeExpired(p) \/ SweepRaises(p) PROVE CacheInv'
    BY <2>1, <2>2, <2>3 DEF DisposeExpired, SweepRaises, cacheVars
  <2>4. CASE CacheStep
    <3>1. ASSUME NEW l \in Locator, Written(l) PROVE CacheInv'
      BY <3>1, WriteCacheInv DEF Written, DisposalInv
    <3>2. ASSUME NEW r \in Reader, DisposeRead(r) PROVE CacheInv'
      <4>1. reading[r] \in SUBSET Locator /\ reading' \in [Reader -> SUBSET Locator]
        BY <3>2, CacheInvIff DEF DisposalInv, DisposeRead
      <4> QED BY <3>2, <4>1, DisposeCacheInv DEF DisposalInv, DisposeRead
    <3>3. ASSUME NEW r \in Reader, NEW l \in Locator, ReadExpired(r, l) PROVE CacheInv'
      BY <3>3 DEF ReadExpired, DisposalInv, CacheInv, CacheTypeOK, LogExplainsRow
    <3> QED BY <2>4, <3>1, <3>2, <3>3 DEF CacheStep
  <2>5. CASE Tick
    BY <2>5, TickCacheInv DEF Tick, DisposalInv
  <2> QED BY <2>1, <2>3, <2>4, <2>5
          DEF DisposalNext, StartJob, ContinueJob, LeaseStep, SelectExpired, JobDisrupted,
              vars, cacheVars
<1>2. SweepTypeOK'
  <2>1. ASSUME NEW p \in Run, SelectExpired(p) PROVE SweepTypeOK'
    <3>1. [rows |-> ExpiredRows, age |-> 0] \in [rows : SUBSET Locator, age : 0 .. MaxDelay]
      BY ClockAssumption DEF ExpiredRows
    <3> QED BY <2>1, <3>1 DEF DisposalInv, SweepTypeOK, SelectExpired
  <2>2. CASE Tick
    <3>1. ASSUME NEW p \in Run, NEW s \in sweep[p]
          PROVE  [s EXCEPT !.age = @ + 1] \in [rows : SUBSET Locator, age : 0 .. MaxDelay]
      BY <2>2, ClockAssumption DEF Tick, DisposalInv, SweepTypeOK
    <3> QED BY <2>2, <3>1 DEF Tick, SweepTypeOK
  <2>3. ASSUME \/ UNCHANGED sweep
               \/ \E p \in Run : sweep' = [sweep EXCEPT ![p] = {}]
        PROVE  SweepTypeOK'
    BY <2>3 DEF DisposalInv, SweepTypeOK
  <2> QED BY <2>1, <2>2, <2>3
          DEF DisposalNext, StartJob, ContinueJob, LeaseStep, DisposeExpired, SweepRaises,
              JobDisrupted, CacheStep, vars
<1>3. (troubles \in 0 .. MaxTroubles)'
  <2>1. UNCHANGED troubles \/ Trouble
    BY DEF DisposalNext, StartJob, ContinueJob, LeaseStep, SelectExpired, DisposeExpired,
       SweepRaises, JobDisrupted, CacheStep, Tick, vars
  <2> QED BY <2>1, DisposalAssumption DEF Trouble, DisposalInv
<1> QED BY <1>1, <1>2, <1>3 DEF DisposalInv

\* The types of everything the job and the cache keep.
THEOREM DisposalTypesHold == DisposalSpec => []DisposalTypeOK
<1>1. DisposalInv /\ LeaseInv => DisposalTypeOK
  BY DEF DisposalInv, CacheInv, SweepTypeOK, LeaseInv, DisposalTypeOK
<1>2. DisposalInit => LeaseInv
  BY InitLeaseInv DEF DisposalInit
<1>3. LeaseInv /\ [DisposalNext]_vars => LeaseInv'
  BY NextUsesScheduler, NextLeaseInv
<1> QED BY <1>1, <1>2, <1>3, InitDisposalInv, NextDisposalInv, PTL DEF DisposalSpec

\* However many sweeps and readers meet on an entry, and in whatever order they
\* come, its text and its lifecycle events agree (_privacy_operation,
\* _dispose_entry).
THEOREM LogExplains == DisposalSpec => []LogExplainsRow
<1>1. DisposalInv => LogExplainsRow
  BY DEF DisposalInv, CacheInv
<1> QED BY <1>1, InitDisposalInv, NextDisposalInv, PTL DEF DisposalSpec

\* A sweep never overwrites text that was refreshed after it listed the entry
\* (cache_evict_expired).
THEOREM SweepsSpareFreshText == DisposalSpec => SweepDisposesOnlyExpired
<1> DEFINE Disposes(l) == row[l].text = "selected" /\ row'[l] = DisposedRow(row[l])
           ByReader(l) == \E r \in Reader : l \in reading[r] /\ reading'[r] = {}
           Careful == \A l \in Locator : Disposes(l) => Expired(l, 0) \/ ByReader(l)
<1>1. ASSUME DisposalInv, [DisposalNext]_vars PROVE [Careful]_vars
  <2> SUFFICES ASSUME NEW l \in Locator, Disposes(l), DisposalNext
               PROVE  Expired(l, 0) \/ ByReader(l)
    BY <1>1
  <2> USE <1>1
  <2>1. /\ row[l] \in Row /\ row[l].text = "selected"
        /\ row'[l].text = "" /\ row'[l].left = row[l].left /\ row'[l] # row[l]
    <3>1. row[l] \in Row
      BY CacheInvIff DEF DisposalInv
    <3> QED BY <3>1, DisposedRowFields
  <2>2. ASSUME NEW p \in Run, NEW s \in sweep[p], Sweep(s.rows, s.age) PROVE Expired(l, 0)
    <3>1. Expired(l, s.age)
      BY <2>1, <2>2 DEF Sweep, DisposeEntries
    <3>2. s.age \in 0 .. MaxDelay /\ row[l].left \in Int
      <4>1. s \in [rows : SUBSET Locator, age : 0 .. MaxDelay] /\ row[l] \in Row
        BY <2>2, CacheInvIff DEF DisposalInv, SweepTypeOK
      <4> QED BY <4>1, RowFields
    <3> QED BY <3>1, <3>2, ClockAssumption DEF Expired, Over
  <2>3. ASSUME NEW p \in Run, DisposeExpired(p) \/ SweepRaises(p) PROVE Expired(l, 0)
    BY <2>1, <2>2, <2>3 DEF DisposeExpired, SweepRaises
  <2>4. CASE CacheStep
    <3>1. ASSUME NEW m \in Locator, NEW ttl \in 0 .. MaxTtl, NEW d \in 0 .. MaxDelay,
                 WriteText(m, ttl, d)
          PROVE  Expired(l, 0)
      <4>1. m = l
        BY <2>1, <3>1, CacheInvIff DEF WriteText, DisposalInv
      <4>2. row'[l].left = ttl - d /\ (ttl # 0 => row'[l].text = "selected")
        BY <3>1, <4>1, CacheInvIff DEF WriteText, DisposalInv, DisposedRow
      <4>3. row[l].left = 0 - d
        <5>1. ttl = 0
          BY <2>1, <4>2
        <5> QED BY <5>1, <2>1, <4>2, Zenon
      <4> QED BY <4>3, ClockAssumption DEF Expired, Over
    <3>2. ASSUME NEW r \in Reader, DisposeRead(r) PROVE ByReader(l)
      <4>1. l \in reading[r] /\ reading'[r] = {}
        BY <2>1, <3>2, CacheInvIff DEF DisposeRead, DisposeEntries, DisposalInv
      <4> QED BY <4>1
    <3> QED BY <2>1, <2>4, <3>1, <3>2 DEF CacheStep, Written, ReadExpired
  <2>5. CASE Tick
    <3>1. row'[l] = IF Cached(l) THEN [row[l] EXCEPT !.left = Later(@)] ELSE row[l]
      BY <2>5 DEF Tick, TickRows
    <3>2. row'[l].text = row[l].text
      BY <2>1, <3>1 DEF Row
    <3> QED BY <2>1, <3>2
  <2> QED BY <2>1, <2>3, <2>4, <2>5
          DEF DisposalNext, StartJob, ContinueJob, LeaseStep, SelectExpired, JobDisrupted,
              cacheVars
<1> QED BY <1>1, InitDisposalInv, NextDisposalInv, PTL
        DEF DisposalSpec, SweepDisposesOnlyExpired
============================================================================
