----------------------------- MODULE TextCache -----------------------------
(***************************************************************************)
(* The selected-text cache of cache.py: rows of text_cache, with the       *)
(* lifecycle events of text_cache_events that follow the last write of     *)
(* each row, and the processes that read the cache.                        *)
(*                                                                         *)
(* A mutation and its events are in one savepoint (_privacy_operation), so *)
(* each is one step. cache_read and cache_evict_expired look at the rows   *)
(* before they open it: what they saw may be outdated when they write.     *)
(* Denied requests change no row, and are left out with their validation.  *)
(***************************************************************************)
EXTENDS Clock, Sequences

CONSTANTS
  Locator,    \* locators of messages
  Reader,     \* processes that call cache_read
  MaxTtl      \* MAX_TTL_SECONDS, in ticks

ASSUME CacheAssumption == MaxTtl \in Nat

VARIABLES
  row,       \* text_cache: the row of each locator
  log,       \* lifecycle events of the row since its last cache_write
  reading    \* the locator each reader found expired and is about to dispose of, if any

cacheVars == <<row, log, reading>>

\* cached_text is "selected" or the empty value; "absent" means no row. A row is
\* legacy until it is written by this version.
Row == [text : {"absent", "selected", ""}, disposed : BOOLEAN, legacy : BOOLEAN,
        left : -MaxDelay .. MaxTtl]

NoRow == [text |-> "absent", disposed |-> FALSE, legacy |-> FALSE, left |-> -MaxDelay]

Event == {"cache_write", "cache_expiry", "cache_disposal"}

DisposedRow(old) == [old EXCEPT !.text = "", !.disposed = TRUE]

LegacyRow(left) == [text |-> "selected", disposed |-> FALSE, legacy |-> TRUE, left |-> left]

\* A row of before migration 005 and the events of the migration: text that was
\* neither expired nor evicted is kept, without any event.
LegacyEntry ==
  LET kept(t)    == [row |-> LegacyRow(t), log |-> <<>>]
      evicted(t) == [row |-> DisposedRow(LegacyRow(t)), log |-> <<"cache_disposal">>]
      expired    == [row |-> DisposedRow(LegacyRow(0)),
                     log |-> <<"cache_expiry", "cache_disposal">>]
  IN {expired} \cup {kept(t) : t \in 1 .. MaxTtl} \cup {evicted(t) : t \in 1 .. MaxTtl}

CacheInit ==
  /\ \E entry \in [Locator -> LegacyEntry \cup {[row |-> NoRow, log |-> <<>>]}] :
       /\ row = [l \in Locator |-> entry[l].row]
       /\ log = [l \in Locator |-> entry[l].log]
  /\ reading = [r \in Reader |-> {}]

----------------------------------------------------------------------------

Cached(l) == row[l].text # "absent"

\* expires_at <= a clock that was read d ticks ago.
Expired(l, d) == Over(row[l].left, d)

\* Wrong: a row that is disposed of already is disposed of again.
DisposableAgain(l) == Cached(l)

\* disposed_at IS NULL in the WHERE clause of _dispose_entry.
Disposable(l) == Cached(l) /\ ~row[l].disposed

\* _dispose_entry for all the rows in L: overwrite the text and record it, unless
\* the WHERE clause finds the row disposed of already.
DisposeEntries(L) ==
  LET hit == {l \in L : Disposable(l)} IN
  /\ row' = [l \in Locator |-> IF l \in hit THEN DisposedRow(row[l]) ELSE row[l]]
  /\ log' = [l \in Locator |->
               IF l \in hit THEN log[l] \o <<"cache_expiry", "cache_disposal">> ELSE log[l]]

\* cache_write of an allowed request, d ticks after it read the clock: the upsert
\* revives a disposed row. Text that expires at once is disposed of in the same
\* savepoint.
WriteText(l, ttl, d) ==
  LET new == [text |-> "selected", disposed |-> FALSE, legacy |-> FALSE, left |-> ttl - d] IN
  /\ row' = [row EXCEPT ![l] = IF ttl = 0 THEN DisposedRow(new) ELSE new]
  /\ log' = [log EXCEPT ![l] =
               IF ttl = 0 THEN <<"cache_write", "cache_expiry", "cache_disposal">>
               ELSE <<"cache_write">>]
  /\ UNCHANGED reading

\* The first half of cache_read, up to its SELECT: a row that is expired will be
\* disposed of; the other results (a miss or the text) change no row.
ReadExpired(r, l) ==
  /\ reading[r] = {}
  /\ Disposable(l)
  /\ Expired(l, 0)
  /\ reading' = [reading EXCEPT ![r] = {l}]
  /\ UNCHANGED <<row, log>>

\* The second half, which does not look at expires_at again (no expires_before).
DisposeRead(r) ==
  /\ reading[r] # {}
  /\ DisposeEntries(reading[r])
  /\ reading' = [reading EXCEPT ![r] = {}]

\* What the SELECT of cache_evict_expired finds.
ExpiredRows == {l \in Locator : Disposable(l) /\ Expired(l, 0)}

\* Wrong: what was expired when it was listed is taken to be expired still.
SweepAsListed(L, d) == DisposeEntries(L)

\* The savepoint of cache_evict_expired, d ticks after the rows L were listed: with
\* expires_before, a row that was refreshed in the meantime is left alone.
Sweep(L, d) == DisposeEntries({l \in L : Expired(l, d)})

TickRows ==
  /\ row' = [l \in Locator |->
               IF Cached(l) THEN [row[l] EXCEPT !.left = Later(@)] ELSE row[l]]
  /\ UNCHANGED <<log, reading>>

----------------------------------------------------------------------------
(* Properties.                                                             *)

CacheTypeOK ==
  /\ row \in [Locator -> Row]
  /\ log \in [Locator -> Seq(Event)]
  /\ reading \in [Reader -> SUBSET Locator]

\* Each row's text and disposal mark are what its lifecycle events say: text is
\* there exactly between a write, of this version or of one before it, and its
\* disposal, and a disposal is recorded once, however many readers and sweeps meet
\* on the row. (Of a legacy row, the write is not recorded, and if it was evicted
\* before it expired, neither is an expiry.)
LogExplainsRow ==
  \A l \in Locator :
    LET written == IF row[l].legacy THEN <<>> ELSE <<"cache_write">> IN
    CASE row[l].text = "absent"   -> log[l] = <<>> /\ ~row[l].disposed
      [] row[l].text = "selected" -> log[l] = written /\ ~row[l].disposed
      [] row[l].text = ""         ->
           /\ \/ log[l] = written \o <<"cache_expiry", "cache_disposal">>
              \/ row[l].legacy /\ log[l] = <<"cache_disposal">>
           /\ row[l].disposed
============================================================================
