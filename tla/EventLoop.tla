----------------------------- MODULE EventLoop -----------------------------
(***************************************************************************)
(* The single-threaded event loop (event/Loop.cxx) with everything that    *)
(* can wake it: timers (module TimerWheel), deferred calls (DeferEvent)    *)
(* and sockets (SocketEvent).  One action per step of EventLoop::Run(); a  *)
(* callback is a phase in which the program may call any method of any     *)
(* event, and of the loop, before it returns.                              *)
(*                                                                         *)
(* The kernel is external: which events a socket has (level-triggered, as  *)
(* epoll reports them) and the clock, which runs while callbacks run and   *)
(* while the loop sleeps.                                                  *)
(***************************************************************************)
EXTENDS TimerWheel, FiniteSets

CONSTANTS
  Defers,       \* the DeferEvent objects
  Sockets,      \* the SocketEvent objects
  Interests,    \* the events sockets are scheduled for: of READ and WRITE
  Durations,    \* the durations timers are scheduled with
  StartTimes,   \* the clock when the program starts
  Nobody,       \* no callback is running
  MaxTime,      \* bound: the clock stops here, timers are due before it
  MaxOps        \* bound: calls that callbacks make, and events that sockets get

VARIABLES
  pc,           \* where Run() is
  ret,          \* where it continues after the callback
  running,      \* the event whose callback is running
  ops,          \* calls made and events received so far
  clock,        \* the steady clock of the system
  steady,       \* steady_clock_cache; 0 when it is flushed
  now,          \* the time HandleTimers() works with
  timeout,      \* what HandleTimers() returned
  wake,         \* when the wait in progress times out
  again, quit,
  defer, idle, next,            \* lists of DeferEvents
  sockets, ready_sockets,       \* lists of SocketEvents
  fd,           \* the descriptor of each SocketEvent; 0 is undefined
  scheduled_flags, ready_flags,
  kernel,       \* what happens on the descriptor of each SocketEvent
  seen          \* the descriptor on which the ready flags were reported

loopVars == <<pc, ret, running, ops, clock, steady, now, timeout, wake, again, quit>>
deferVars == <<defer, idle, next>>
socketVars == <<sockets, ready_sockets, fd, scheduled_flags, ready_flags, kernel, seen>>
vars == <<wheelVars, loopVars, deferVars, socketVars>>

IMPLICIT == "IMPLICIT"       \* ERROR and HANGUP, which epoll always reports

\* ClockCache::now(): the clock is read once after each flush.
SteadyNow == IF steady = 0 THEN clock ELSE steady

\* main() has opened and scheduled sockets; it may schedule more events before
\* it calls Run().
Init ==
  /\ WheelInit
  /\ pc = "callback" /\ ret = "top" /\ running = Nobody
  /\ ops = 0
  /\ clock \in StartTimes
  /\ steady = 0 /\ now = 0 /\ timeout = NoTimeout /\ wake = NoTimeout
  /\ again = FALSE /\ quit = FALSE
  /\ defer = <<>> /\ idle = <<>> /\ next = <<>>
  /\ sockets = SetToSeq(Sockets) /\ ready_sockets = <<>>
  /\ fd = [s \in Sockets |-> 1]
  /\ scheduled_flags = [s \in Sockets |-> Interests \cup {IMPLICIT}]
  /\ ready_flags = [s \in Sockets |-> {}]
  /\ kernel = [s \in Sockets |-> {}]
  /\ seen = [s \in Sockets |-> 0]

----------------------------------------------------------------------------
\* What a callback may do.

InCallback == pc = "callback" /\ ops < MaxOps /\ ops' = ops + 1

TimerSchedule(t, d) ==
  /\ InCallback
  /\ SteadyNow + d + RESOLUTION <= MaxTime
  /\ ScheduleTimer(t, SteadyNow + d, SteadyNow)
  /\ steady' = SteadyNow
  /\ again' = TRUE
  /\ UNCHANGED <<pc, ret, running, clock, now, timeout, wake, quit, deferVars, socketVars>>

TimerScheduleEarlier(t, d) ==
  /\ InCallback
  /\ SteadyNow + d + RESOLUTION <= MaxTime
  /\ ScheduleTimerEarlier(t, SteadyNow + d, SteadyNow)
  /\ steady' = SteadyNow
  /\ again' = TRUE
  /\ UNCHANGED <<pc, ret, running, clock, now, timeout, wake, quit, deferVars, socketVars>>

TimerCancel(t) ==
  /\ InCallback
  /\ IsPending(t)
  /\ CancelTimer(t)
  /\ UNCHANGED <<pc, ret, running, clock, steady, now, timeout, wake, again, quit,
                 deferVars, socketVars>>

IsDeferPending(e) == Contains(defer, e) \/ Contains(idle, e) \/ Contains(next, e)

\* Schedule(), ScheduleIdle() and ScheduleNext() do nothing while it is pending.
DeferSchedule(e) ==
  /\ InCallback
  /\ ~IsDeferPending(e)
  /\ \/ defer' = Append(defer, e) /\ UNCHANGED <<idle, next>>
     \/ idle' = Append(idle, e) /\ UNCHANGED <<defer, next>>
     \/ next' = Append(next, e) /\ UNCHANGED <<defer, idle>>
  /\ UNCHANGED <<pc, ret, running, clock, steady, now, timeout, wake, again, quit,
                 wheelVars, socketVars>>

DeferCancel(e) ==
  /\ InCallback
  /\ IsDeferPending(e)
  /\ defer' = Remove(defer, e) /\ idle' = Remove(idle, e) /\ next' = Remove(next, e)
  /\ UNCHANGED <<pc, ret, running, clock, steady, now, timeout, wake, again, quit,
                 wheelVars, socketVars>>

\* AddFD(), RemoveFD() and ModifyFD().  A socket that is in ready_sockets stays
\* there when its flags are modified.
UpdateFD(s, flags) ==
  /\ sockets' = IF scheduled_flags[s] = {} THEN Append(sockets, s)
                ELSE IF flags = {} THEN Remove(sockets, s) ELSE sockets
  /\ ready_sockets' = IF flags = {} THEN Remove(ready_sockets, s) ELSE ready_sockets

SocketSchedule(s, f) ==
  LET flags == IF f = {} THEN {} ELSE f \cup {IMPLICIT} IN
  /\ InCallback
  /\ fd[s] # 0
  /\ flags # scheduled_flags[s]
  /\ scheduled_flags' = [scheduled_flags EXCEPT ![s] = flags]
  /\ UpdateFD(s, flags)
  /\ UNCHANGED <<pc, ret, running, clock, steady, now, timeout, wake, again, quit,
                 wheelVars, deferVars, fd, ready_flags, kernel, seen>>

SocketClose_StaysReady(s) ==
  /\ InCallback
  /\ fd[s] # 0
  /\ fd' = [fd EXCEPT ![s] = 0]
  /\ scheduled_flags' = [scheduled_flags EXCEPT ![s] = {}]
  /\ sockets' = Remove(sockets, s)
  /\ kernel' = [kernel EXCEPT ![s] = {}]
  /\ UNCHANGED <<pc, ret, running, clock, steady, now, timeout, wake, again, quit,
                 wheelVars, deferVars, ready_sockets, ready_flags, seen>>

\* SocketEvent::Close(): it leaves the list it is in; ready_flags is kept.
SocketClose(s) ==
  /\ InCallback
  /\ fd[s] # 0
  /\ fd' = [fd EXCEPT ![s] = 0]
  /\ scheduled_flags' = [scheduled_flags EXCEPT ![s] = {}]
  /\ sockets' = Remove(sockets, s)
  /\ ready_sockets' = Remove(ready_sockets, s)
  /\ kernel' = [kernel EXCEPT ![s] = {}]
  /\ UNCHANGED <<pc, ret, running, clock, steady, now, timeout, wake, again, quit,
                 wheelVars, deferVars, ready_flags, seen>>

\* SocketEvent::Open() with a new descriptor.
SocketOpen(s) ==
  /\ InCallback
  /\ fd[s] = 0
  /\ fd' = [fd EXCEPT ![s] = 2]
  /\ UNCHANGED <<pc, ret, running, clock, steady, now, timeout, wake, again, quit,
                 wheelVars, deferVars, sockets, ready_sockets, scheduled_flags,
                 ready_flags, kernel, seen>>

\* EventLoop::Break().
Break ==
  /\ InCallback
  /\ quit' = TRUE
  /\ UNCHANGED <<pc, ret, running, clock, steady, now, timeout, wake, again,
                 wheelVars, deferVars, socketVars>>

CallbackReturns ==
  /\ pc = "callback"
  /\ pc' = ret /\ ret' = "none" /\ running' = Nobody
  /\ UNCHANGED <<ops, clock, steady, now, timeout, wake, again, quit, wheelVars,
                 deferVars, socketVars>>

Invoke(e, where) == pc' = "callback" /\ ret' = where /\ running' = e

----------------------------------------------------------------------------
\* EventLoop::Run().  main() enters it from the set-up phase.

BeginIteration ==
  /\ pc = "top"
  /\ IF quit THEN pc' = "done" /\ UNCHANGED <<again, now, steady>>
             ELSE pc' = "ready" /\ again' = FALSE /\ now' = SteadyNow /\ steady' = SteadyNow
  /\ UNCHANGED <<ret, running, ops, clock, timeout, wake, quit, wheelVars, deferVars,
                 socketVars>>

\* TimerWheel::Run(): the ready list is run until it is empty.
RunReady ==
  /\ pc = "ready"
  /\ IF ready # <<>>
       THEN PopReady /\ Invoke(Head(ready), "ready")
       ELSE BeginSweep(now) /\ pc' = "sweep" /\ UNCHANGED <<ret, running>>
  /\ UNCHANGED <<ops, clock, steady, now, timeout, wake, again, quit, deferVars, socketVars>>

Sweep ==
  /\ pc = "sweep"
  /\ IF SweepIsOver THEN EndSweep(now) /\ pc' = "deferred" /\ timeout' = GetSleep(now)
                    ELSE TakeBucket /\ pc' = "bucket" /\ UNCHANGED timeout
  /\ UNCHANGED <<ret, running, ops, clock, steady, now, wake, again, quit, deferVars,
                 socketVars>>

\* A bucket whose time has passed may hold timers of a later round.
IsDue_BucketPassed(t) == TRUE
IsDue(t) == due[t] <= now

RunBucket ==
  /\ pc = "bucket"
  /\ \/ tmp = <<>> /\ NextBucket /\ pc' = "sweep" /\ UNCHANGED <<ret, running>>
     \/ tmp # <<>> /\ IsDue(Head(tmp)) /\ PopDue /\ Invoke(Head(tmp), "bucket")
     \/ tmp # <<>> /\ ~IsDue(Head(tmp)) /\ PutBack /\ UNCHANGED <<pc, ret, running>>
  /\ UNCHANGED <<ops, clock, steady, now, timeout, wake, again, quit, deferVars, socketVars>>

\* RunDeferred(): one call after the other until none is left, or quit.
RunDeferred ==
  /\ pc = "deferred"
  /\ \/ quit /\ pc' = "done" /\ UNCHANGED <<defer, ret, running>>
     \/ ~quit /\ defer # <<>> /\ defer' = Tail(defer) /\ Invoke(Head(defer), "deferred")
  /\ UNCHANGED <<ops, clock, steady, now, timeout, wake, again, quit, wheelVars, idle, next,
                 socketVars>>

\* RunOneIdle(), and everything again after it; otherwise all timers again
\* when one was inserted since they were looked at.
RunOneIdle ==
  /\ pc = "deferred" /\ ~quit /\ defer = <<>>
  /\ \/ idle # <<>> /\ idle' = Tail(idle) /\ Invoke(Head(idle), "top")
     \/ idle = <<>> /\ again /\ pc' = "top" /\ UNCHANGED <<idle, ret, running>>
  /\ UNCHANGED <<ops, clock, steady, now, timeout, wake, again, quit, wheelVars, defer, next,
                 socketVars>>

\* Nothing but the wait is left to do.
MayWait_TimersForgotten == pc = "deferred" /\ ~quit /\ defer = <<>> /\ idle = <<>>
MayWait == pc = "deferred" /\ ~quit /\ defer = <<>> /\ idle = <<>> /\ ~again

IsEmpty ==
  /\ WheelIsEmpty
  /\ defer = <<>> /\ idle = <<>> /\ next = <<>>
  /\ sockets = <<>> /\ ready_sockets = <<>>

\* When epoll_wait() times out.
ExportTimeout(d) == IF d = NoTimeout THEN NoTimeout ELSE clock + d

\* The loop ends when it has nothing to wait for, and skips the wait when
\* sockets are ready that it has not dispatched.
BeginWait ==
  /\ MayWait
  /\ \/ /\ IsEmpty
        /\ pc' = "done"
        /\ UNCHANGED <<timeout, steady, wake>>
     \/ /\ ~IsEmpty /\ ready_sockets # <<>>
        /\ pc' = "dispatch"
        /\ UNCHANGED <<timeout, steady, wake>>
     \/ /\ ~IsEmpty /\ ready_sockets = <<>>
        /\ timeout' = IF next # <<>> THEN 0 ELSE timeout
        /\ steady' = 0
        /\ wake' = ExportTimeout(timeout')
        /\ pc' = "wait"
  /\ UNCHANGED <<ret, running, ops, clock, now, again, quit, wheelVars, deferVars,
                 socketVars>>

\* What epoll_wait() has to report of a socket.
Reported(s) == kernel[s] \cap scheduled_flags[s]

MoveNext == idle' = idle \o next /\ next' = <<>>

\* Poll(): epoll_wait() returns when the timeout has passed or something is
\* ready.  All sockets with events move to ready_sockets.  Then the calls
\* deferred to after the wait become idle calls.
Poll ==
  LET hit == {s \in Sockets : Reported(s) # {}} IN
  /\ pc = "wait"
  /\ hit # {} \/ (wake # NoTimeout /\ clock >= wake)
  /\ ready_flags' = [s \in Sockets |-> IF s \in hit THEN Reported(s) ELSE ready_flags[s]]
  /\ seen' = [s \in Sockets |-> IF s \in hit THEN fd[s] ELSE seen[s]]
  /\ sockets' = SelectSeq(sockets, LAMBDA s : s \notin hit)
  /\ ready_sockets' = ready_sockets \o SelectSeq(sockets, LAMBDA s : s \in hit)
  /\ MoveNext
  /\ pc' = "dispatch" /\ timeout' = NoTimeout /\ wake' = NoTimeout
  /\ UNCHANGED <<ret, running, ops, clock, steady, now, again, quit,
                 wheelVars, defer, fd, scheduled_flags, kernel>>

Requeue_DropsRest(s) == ready_sockets' = <<>> /\ sockets' = Append(sockets, s)
Requeue(s) == ready_sockets' = Tail(ready_sockets) /\ sockets' = Append(sockets, s)

\* The sockets that are ready, one after the other.
Dispatch ==
  /\ pc = "dispatch"
  /\ IF ready_sockets = <<>> \/ quit
       THEN /\ pc' = "top"
            /\ UNCHANGED <<ret, running, sockets, ready_sockets, ready_flags>>
       ELSE LET s == Head(ready_sockets) IN
            /\ Requeue(s)
            /\ ready_flags' = [ready_flags EXCEPT ![s] = {}]
            /\ IF ready_flags[s] \cap scheduled_flags[s] # {}
                 THEN Invoke(s, "dispatch")
                 ELSE UNCHANGED <<pc, ret, running>>
  /\ UNCHANGED <<ops, clock, steady, now, timeout, wake, again, quit, wheelVars, deferVars,
                 fd, scheduled_flags, kernel, seen>>

----------------------------------------------------------------------------
\* The kernel.

\* Time passes in callbacks and while the loop waits, up to the bound or to the
\* end of the wait; the set-up takes none.
Tick ==
  /\ \/ pc = "callback" /\ running # Nobody /\ clock < MaxTime
     \/ pc = "wait" /\ clock < Max({wake, MaxTime})
  /\ clock' = clock + 1
  /\ UNCHANGED <<pc, ret, running, ops, steady, now, timeout, wake, again, quit, wheelVars,
                 deferVars, socketVars>>

\* Data arrives, buffer space is freed, the peer hangs up.
SocketEventArrives(s) ==
  /\ pc = "wait" /\ ops < MaxOps /\ ops' = ops + 1
  /\ fd[s] # 0
  /\ \E f \in (Interests \cup {IMPLICIT}) \ kernel[s] : kernel' = [kernel EXCEPT ![s] = @ \cup {f}]
  /\ UNCHANGED <<wheelVars, pc, ret, running, clock, steady, now, timeout, wake, again, quit,
                 deferVars, sockets, ready_sockets, fd, scheduled_flags, ready_flags, seen>>

\* The callback of a socket receives its data or fills its buffer.
SocketConsumed(s) ==
  /\ pc = "callback" /\ running = s
  /\ \E f \in kernel[s] \ {IMPLICIT} : kernel' = [kernel EXCEPT ![s] = @ \ {f}]
  /\ UNCHANGED <<wheelVars, loopVars, deferVars, sockets, ready_sockets, fd,
                 scheduled_flags, ready_flags, seen>>

Calls ==
  \/ \E t \in Timers : TimerCancel(t) \/ \E d \in Durations :
                         TimerSchedule(t, d) \/ TimerScheduleEarlier(t, d)
  \/ \E e \in Defers : DeferSchedule(e) \/ DeferCancel(e)
  \/ \E s \in Sockets : SocketClose(s) \/ SocketOpen(s) \/ SocketConsumed(s)
                        \/ \E f \in SUBSET Interests : SocketSchedule(s, f)
  \/ Break

Run ==
  \/ CallbackReturns
  \/ BeginIteration
  \/ RunReady
  \/ Sweep
  \/ RunBucket
  \/ RunDeferred
  \/ RunOneIdle
  \/ BeginWait
  \/ Poll
  \/ Dispatch

Next ==
  \/ Calls
  \/ Run
  \/ Tick
  \/ \E s \in Sockets : SocketEventArrives(s)

\* The thread of the loop keeps running, and time passes (in a loop that is busy
\* too, where a tick is possible only now and then).
Spec == Init /\ [][Next]_vars /\ WF_vars(Run) /\ SF_vars(Tick)
----------------------------------------------------------------------------
\* Properties.

Occurrences(s, x) == Cardinality({i \in DOMAIN s : s[i] = x})

\* Every hook is in at most one list, once, whatever callbacks schedule and
\* cancel in the middle of a sweep or of the dispatch; and a socket is in a
\* list exactly while it is registered with epoll (AddFD, RemoveFD, Poll).
ListedOnce ==
  /\ \A t \in Timers :
       Occurrences(ready \o tmp, t) + SumFunction([i \in Buckets |-> Occurrences(buckets[i], t)]) <= 1
  /\ \A e \in Defers : Occurrences(defer \o idle \o next, e) <= 1
  /\ \A s \in Sockets :
       Occurrences(sockets \o ready_sockets, s) = IF scheduled_flags[s] = {} THEN 0 ELSE 1

\* No timer is left behind: outside of a sweep, each one in the wheel is in the
\* bucket of its due time, and that bucket has not been passed (TimerWheel::Run
\* looks only at the buckets between last_time and now).
NoneLeftBehind ==
  \A i \in Buckets : \A t \in ToSet(buckets[i]) :
    /\ BucketIndexAt(due[t]) = i
    /\ sweep = <<>> => due[t] >= last_time

\* "If this flag is true, then all buckets are guaranteed to be empty."
EmptyFlagTrue == empty => \A i \in Buckets : buckets[i] = <<>>

\* No event is lost between the lists of the loop and the buckets of the wheel,
\* whatever callbacks do while TimerWheel::Run() or the dispatch walks them.
NothingLost == ListedOnce /\ NoneLeftBehind /\ EmptyFlagTrue

\* The loop never sleeps over work: when it waits, nothing is deferred or
\* ready, and the timeout ends with the bucket of the earliest timer at the
\* latest, the timers included that callbacks inserted after the timeout had
\* been computed (the flag "again").
NeverSleepsOverWork ==
  pc = "wait" =>
    /\ ready = <<>> /\ defer = <<>> /\ idle = <<>> /\ ready_sockets = <<>>
    /\ next # <<>> => timeout = 0
    /\ \A t \in Timers : IsPending(t) =>
         timeout # NoTimeout /\ now + timeout <= GetBucketStartTime(due[t]) + RESOLUTION

\* A socket is dispatched only with events of the descriptor it has now: one
\* that is closed and opened again by another callback has left ready_sockets.
ReadyIsCurrent ==
  \A s \in ToSet(ready_sockets) :
    fd[s] # 0 /\ seen[s] = fd[s] /\ ready_flags[s] # {}

\* The callback of a timer is never invoked before it is due.
TimerNeverEarly ==
  [][running = Nobody /\ running' \in Timers => due[running'] <= clock]_vars

\* Every pending timer and every deferred, idle and next call is made or
\* cancelled, unless the loop is told to quit: far timers in passed buckets and
\* those inserted during a sweep too.
CallbacksMade ==
  /\ \A t \in Timers : IsPending(t) ~> (~IsPending(t) \/ pc = "done")
  /\ \A e \in Defers : IsDeferPending(e) ~> (~IsDeferPending(e) \/ pc = "done")

\* A socket with an event it is scheduled for gets its callback.
SocketsServed ==
  \A s \in Sockets : Reported(s) # {} ~> (Reported(s) = {} \/ running = s \/ pc = "done")
============================================================================
