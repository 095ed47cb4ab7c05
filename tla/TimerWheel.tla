---------------------------- MODULE TimerWheel ----------------------------
(***************************************************************************)
(* The timers of the event loop: class TimerWheel (event/TimerWheel.cxx)   *)
(* and the timers it holds, class CoarseTimerEvent.                        *)
(*                                                                         *)
(* Time is a number of ticks.  The wheel has N_BUCKETS lists, one for each *)
(* RESOLUTION ticks of a span, and a list of timers that were due when     *)
(* they were inserted.  Run() is split where it calls back: the event loop *)
(* takes one timer at a time, and a callback may insert and cancel timers  *)
(* in the middle of the sweep.                                             *)
(***************************************************************************)
EXTENDS Integers, SequencesExt

CONSTANTS
  Timers,       \* the CoarseTimerEvent objects
  RESOLUTION,   \* ticks of a bucket (the source: one second)
  N_BUCKETS     \* buckets of the wheel (the source: 120)

ASSUME WheelAssumption ==
  RESOLUTION \in Nat \ {0} /\ N_BUCKETS \in Nat \ {0, 1}

VARIABLES
  due,          \* when each timer is due; only valid while it is pending
  buckets,      \* the lists of the wheel
  ready,        \* timers which were due when they were inserted
  last_time,    \* start of the bucket Run() saw last
  empty,        \* if TRUE, all buckets are empty
  tmp,          \* the bucket Run(List) has taken for itself
  sweep         \* the buckets Run() has still to visit

wheelVars == <<due, buckets, ready, last_time, empty, tmp, sweep>>

SPAN == N_BUCKETS * RESOLUTION
NoTimeout == -1

Buckets == 0 .. N_BUCKETS - 1
BucketIndexAt(t) == (t \div RESOLUTION) % N_BUCKETS
GetBucketStartTime(t) == t - (t % RESOLUTION)

WheelInit ==
  /\ due = [t \in Timers |-> 0]
  /\ buckets = [i \in Buckets |-> <<>>]
  /\ ready = <<>>
  /\ last_time = 0
  /\ empty = TRUE
  /\ tmp = <<>>
  /\ sweep = <<>>

IsPending(t) ==
  \/ Contains(ready, t)
  \/ Contains(tmp, t)
  \/ \E i \in Buckets : Contains(buckets[i], t)

WheelIsEmpty == ready = <<>> /\ \A i \in Buckets : buckets[i] = <<>>

\* Cancel(): the hook unlinks the timer from whichever list it is in, the list
\* of a sweep in progress included.
CancelTimer(t) ==
  /\ buckets' = [i \in Buckets |-> Remove(buckets[i], t)]
  /\ ready' = Remove(ready, t)
  /\ tmp' = Remove(tmp, t)
  /\ UNCHANGED <<due, last_time, empty, sweep>>

Insert_KeepsEmpty(t, d, now) ==
  /\ buckets' = [i \in Buckets |->
       IF d > now /\ i = BucketIndexAt(d)
         THEN Append(Remove(buckets[i], t), t) ELSE Remove(buckets[i], t)]
  /\ ready' = IF d > now THEN Remove(ready, t) ELSE Append(Remove(ready, t), t)
  /\ tmp' = Remove(tmp, t)
  /\ empty' = empty

\* TimerWheel::Insert(), on a timer that Schedule() has unlinked.
Insert(t, d, now) ==
  /\ buckets' = [i \in Buckets |->
       IF d > now /\ i = BucketIndexAt(d)
         THEN Append(Remove(buckets[i], t), t) ELSE Remove(buckets[i], t)]
  /\ ready' = IF d > now THEN Remove(ready, t) ELSE Append(Remove(ready, t), t)
  /\ tmp' = Remove(tmp, t)
  /\ empty' = FALSE

ScheduleTimer(t, d, now) ==
  /\ due' = [due EXCEPT ![t] = d]
  /\ Insert(t, d, now)
  /\ UNCHANGED <<last_time, sweep>>

\* ScheduleEarlier() leaves a timer alone that is due earlier.
ScheduleTimerEarlier(t, d, now) ==
  /\ ~(IsPending(t) /\ d >= due[t])
  /\ ScheduleTimer(t, d, now)

----------------------------------------------------------------------------
\* The end of the first bucket that is not empty, from the bucket of now on.
GetNextDue(now) ==
  LET ahead == {k \in Buckets : buckets[(BucketIndexAt(now) + k) % N_BUCKETS] # <<>>}
  IN  IF ahead = {} THEN NoTimeout
                    ELSE GetBucketStartTime(now) + (Min(ahead) + 1) * RESOLUTION

\* How long the loop may sleep.  The list of ready timers is not looked at.
GetSleep(now) ==
  IF empty \/ GetNextDue(now) = NoTimeout THEN NoTimeout ELSE GetNextDue(now) - now

\* The buckets Run() visits: from the one of last_time up to, not including,
\* the current one; all of them when nearly a whole span has passed.
SweepRange_NoWrap(now) ==
  LET start == BucketIndexAt(last_time)
      n == (BucketIndexAt(now) - start) % N_BUCKETS
  IN  [k \in 1 .. n |-> (start + k - 1) % N_BUCKETS]

SweepRange(now) ==
  LET start == BucketIndexAt(last_time)
      n == IF now < last_time \/ now >= last_time + SPAN - RESOLUTION
             THEN N_BUCKETS
             ELSE (BucketIndexAt(now) - start) % N_BUCKETS
  IN  [k \in 1 .. n |-> (start + k - 1) % N_BUCKETS]

\* Run(), once the ready list is empty.
BeginSweep(now) ==
  /\ sweep' = SweepRange(now)
  /\ last_time' = IF SweepRange(now) = <<>> THEN last_time ELSE GetBucketStartTime(now)
  /\ UNCHANGED <<due, buckets, ready, empty, tmp>>

SweepIsOver == \A k \in DOMAIN sweep : buckets[sweep[k]] = <<>>

\* Run(List) of the next bucket that is not empty: it is emptied into a
\* temporary list ...
TakeBucket ==
  LET k == Min({j \in DOMAIN sweep : buckets[sweep[j]] # <<>>}) IN
  /\ buckets' = [buckets EXCEPT ![sweep[k]] = <<>>]
  /\ tmp' = buckets[sweep[k]]
  /\ sweep' = SubSeq(sweep, k, Len(sweep))
  /\ UNCHANGED <<due, ready, last_time, empty>>

\* ... a timer of it that is not due goes back ...
PutBack ==
  /\ buckets' = [buckets EXCEPT ![Head(sweep)] = Append(@, Head(tmp))]
  /\ tmp' = Tail(tmp)
  /\ UNCHANGED <<due, ready, last_time, empty, sweep>>

\* ... one that is due is unlinked, and its callback is invoked.
PopDue ==
  /\ tmp' = Tail(tmp)
  /\ UNCHANGED <<due, buckets, ready, last_time, empty, sweep>>

\* The next bucket.
NextBucket ==
  /\ sweep' = Tail(sweep)
  /\ UNCHANGED <<due, buckets, ready, last_time, empty, tmp>>

PopReady ==
  /\ ready' = Tail(ready)
  /\ UNCHANGED <<due, buckets, last_time, empty, tmp, sweep>>

\* The sweep is over: GetSleep() notes when all buckets are empty.
EndSweep(now) ==
  /\ empty' = (empty \/ GetNextDue(now) = NoTimeout)
  /\ sweep' = <<>>
  /\ UNCHANGED <<due, buckets, ready, last_time, tmp>>

============================================================================
