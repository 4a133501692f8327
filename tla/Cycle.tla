-------------------------------- MODULE Cycle --------------------------------
(***************************************************************************)
(* The POSIX cycle scheduler (runtime-c/src/cycle_posix.c, interface       *)
(* cycle.h): one thread runs jx_cycle_run, any thread or signal handler    *)
(* may call jx_cycle_stop, signals interrupt nanosleep, and the kernel     *)
(* preempts the loop between any two of its steps.                         *)
(*                                                                         *)
(* CLOCK_MONOTONIC is the variable now; it advances by itself. A step of   *)
(* the model is the code from one point where the clock or the stop flag   *)
(* is read to the next.                                                    *)
(***************************************************************************)
EXTENDS Integers, Sequences, FiniteSets

CONSTANTS
  Periods,      \* periods jx_cycle_init is called with (0 is refused)
  TickCodes,    \* what the tick callback may return (0 means go on)
  MaxTime,      \* bound: the clock, and every tick target, stays below it
  MaxRuns,      \* bound: calls of jx_cycle_run
  Rerun         \* may jx_cycle_run be called again without jx_cycle_init?

ASSUME CycleAssumption ==
  /\ Periods \subseteq Nat
  /\ TickCodes \subseteq Int /\ 0 \in TickCodes
  /\ MaxTime \in Nat
  /\ MaxRuns \in Nat
  /\ Rerun \in BOOLEAN

VARIABLES
  now,             \* CLOCK_MONOTONIC
  period_ns, stats, stop_requested, initialised,   \* struct jx_cycle
  pc,              \* where jx_cycle_run is
  start, tick_target, rc,                          \* its locals
  wake,            \* when the pending nanosleep is due
  ret,             \* what jx_cycle_run last returned
  runs,            \* calls of jx_cycle_run since jx_cycle_init
  ticked,          \* history: begin and end of each tick body of this run, and
                   \* the clock read after it
  grace            \* history: bodies that may still begin after a stop

struct == <<period_ns, stats, stop_requested, initialised>>
locals == <<start, tick_target, rc, wake>>
vars == <<now, struct, pc, locals, ret, runs, ticked, grace>>

Running == pc # "idle"
Counters == {"ticks", "overruns", "slack_sum_ns", "slack_max_ns", "jitter_sum_ns", "jitter_max_ns"}
ZeroStats == [c \in Counters |-> 0]
Unended == -1
Distance(a, b) == IF a > b THEN a - b ELSE b - a
Larger(a, b) == IF a > b THEN a ELSE b

(***************************************************************************)
(* Life of the struct.                                                     *)
(***************************************************************************)

\* Fresh arena memory, taken as zeroed (the assumption of the unit tests).
Init ==
  /\ now = 0
  /\ period_ns = 0 /\ stats = ZeroStats /\ stop_requested = FALSE /\ initialised = FALSE
  /\ pc = "idle"
  /\ start = 0 /\ tick_target = 0 /\ rc = 0 /\ wake = 0
  /\ ret = 0
  /\ runs = 0
  /\ ticked = <<>>
  /\ grace = 0

\* jx_cycle_init, never called while the loop runs.
InitCycle(p) ==
  /\ ~ Running
  /\ IF p = 0
     THEN UNCHANGED <<struct, runs, ticked, grace>>
     ELSE /\ period_ns' = p
          /\ stats' = ZeroStats
          /\ stop_requested' = FALSE
          /\ initialised' = TRUE
          /\ runs' = 0
          /\ ticked' = <<>>
          /\ grace' = 0
  /\ UNCHANGED <<now, pc, locals, ret>>

\* jx_cycle_stop, from another thread, a signal handler or the tick itself.
\* (grace: a loop that has already tested the flag still begins one body.)
Stop ==
  /\ ~ stop_requested
  /\ stop_requested' = TRUE
  /\ grace' = IF pc = "stamp" THEN 1 ELSE 0
  /\ UNCHANGED <<now, period_ns, stats, initialised, pc, locals, ret, runs, ticked>>

(***************************************************************************)
(* jx_cycle_run.                                                           *)
(***************************************************************************)

\* Deviation: a target relative to the tick's own start drifts
SlotDrifting(k) == IF k = stats.ticks THEN start + k * period_ns ELSE now + period_ns

\* The absolute end of the k-th period since start.
Slot(k) == start + k * period_ns

Return(code) == pc' = "idle" /\ ret' = code

\* Entry: an uninitialised struct is refused, otherwise the loop's origin in
\* time is read. Neither the stop flag nor the counters are touched.
Enter ==
  /\ ~ Running
  /\ runs < MaxRuns
  /\ runs > 0 => Rerun
  /\ IF ~ initialised
     THEN Return(-1) /\ UNCHANGED <<start, runs, ticked>>
     ELSE /\ start' = now
          /\ pc' = "test"
          /\ runs' = runs + 1
          /\ ticked' = <<>>
          /\ UNCHANGED ret
  /\ UNCHANGED <<now, struct, tick_target, rc, wake, grace>>

\* Deviation: the loop never looks at the stop flag
TestNothing ==
  /\ pc = "test"
  /\ Slot(stats.ticks + 1) <= MaxTime
  /\ pc' = "stamp"
  /\ UNCHANGED <<now, struct, locals, ret, runs, ticked, grace>>

\* while (!cycle->stop_requested)
TestStop ==
  /\ pc = "test"
  /\ \/ stop_requested /\ Return(0)
     \/ /\ ~ stop_requested
        /\ Slot(stats.ticks + 1) <= MaxTime
        /\ pc' = "stamp" /\ UNCHANGED ret
  /\ UNCHANGED <<now, struct, locals, runs, ticked, grace>>

\* Deviation: only a late start is jitter
JitterWhenLate == IF stats.ticks > 0 /\ now > Slot(stats.ticks) THEN now - Slot(stats.ticks) ELSE 0

\* How far the tick starts from its slot; the first one has none.
Jitter == IF stats.ticks > 0 THEN Distance(now, Slot(stats.ticks)) ELSE 0

\* Deviation: the last jitter instead of the worst
LastJitter(worst, jitter) == jitter

WorstJitter(worst, jitter) == Larger(worst, jitter)

\* tick_target and tick_start are read, jitter is accounted, the body begins.
BeginTick ==
  /\ pc = "stamp"
  /\ tick_target' = Slot(stats.ticks + 1)
  /\ stats' = [stats EXCEPT !.jitter_sum_ns = @ + Jitter,
                            !.jitter_max_ns = WorstJitter(@, Jitter)]
  /\ pc' = "body"
  /\ ticked' = Append(ticked, [began |-> now, ended |-> Unended, after |-> Unended])
  /\ grace' = 0
  /\ UNCHANGED <<now, period_ns, stop_requested, initialised, start, rc, wake, ret, runs>>

\* The callback returns; the tick is counted.
EndTick(code) ==
  /\ pc = "body"
  /\ rc' = code
  /\ stats' = [stats EXCEPT !.ticks = @ + 1]
  /\ ticked' = [ticked EXCEPT ![Len(ticked)].ended = now]
  /\ pc' = "account"
  /\ UNCHANGED <<now, period_ns, stop_requested, initialised, start, tick_target, wake, ret,
                 runs, grace>>

\* Deviation: the difference without the test
SlackSigned == tick_target - now

\* What is left of the period after the body.
Slack == IF now < tick_target THEN tick_target - now ELSE 0

\* Deviation: the target is computed after the tick is counted, a period too late
OverranNextTarget == now > Slot(stats.ticks + 1)

\* The tick finished after its absolute target.
Overran == now > tick_target

\* `after` is read: slack and overruns, then return, sleep or go round.
Account ==
  /\ pc = "account"
  /\ stats' = [stats EXCEPT !.slack_sum_ns = @ + Slack,
                            !.slack_max_ns = Larger(@, Slack),
                            !.overruns = IF Overran THEN @ + 1 ELSE @]
  /\ \/ rc # 0 /\ Return(rc)
     \/ rc = 0 /\ now < tick_target /\ pc' = "remainder" /\ UNCHANGED ret
     \/ rc = 0 /\ now >= tick_target /\ pc' = "test" /\ UNCHANGED ret
  /\ ticked' = [ticked EXCEPT ![Len(ticked)].after = now]
  /\ UNCHANGED <<now, period_ns, stop_requested, initialised, locals, runs, grace>>

(***************************************************************************)
(* sleep_until_ns.                                                         *)
(***************************************************************************)

\* Deviation: an interrupted sleep starts over with a whole period
RemainderWhole ==
  /\ pc = "remainder"
  /\ IF now >= tick_target
     THEN pc' = "test" /\ UNCHANGED wake
     ELSE pc' = "nap" /\ wake' = now + period_ns
  /\ UNCHANGED <<now, struct, start, tick_target, rc, ret, runs, ticked, grace>>

\* One round of the loop: done, or nanosleep for what is left of the time.
Remainder ==
  /\ pc = "remainder"
  /\ IF now >= tick_target
     THEN pc' = "test" /\ UNCHANGED wake
     ELSE pc' = "nap" /\ wake' = now + (tick_target - now)
  /\ UNCHANGED <<now, struct, start, tick_target, rc, ret, runs, ticked, grace>>

\* nanosleep returns 0: at its due time or, preempted, later.
Wake ==
  /\ pc = "nap"
  /\ now >= wake
  /\ pc' = "test"
  /\ UNCHANGED <<now, struct, locals, ret, runs, ticked, grace>>

\* Deviation: a signal ends the sleep
InterruptEndsSleep ==
  /\ pc = "nap"
  /\ pc' = "test"
  /\ UNCHANGED <<now, struct, locals, ret, runs, ticked, grace>>

\* nanosleep fails with EINTR, the only error it has for a valid timespec: round
\* again with the remainder.
Interrupt ==
  /\ pc = "nap"
  /\ pc' = "remainder"
  /\ UNCHANGED <<now, struct, locals, ret, runs, ticked, grace>>

\* Time passes, whatever the loop is doing.
Advance ==
  /\ Running
  /\ now < MaxTime
  /\ now' = now + 1
  /\ UNCHANGED <<struct, pc, locals, ret, runs, ticked, grace>>

LoopStep ==
  \/ TestStop
  \/ BeginTick
  \/ \E code \in TickCodes : EndTick(code)
  \/ Account
  \/ Remainder
  \/ Wake

Next ==
  \/ \E p \in Periods : InitCycle(p)
  \/ Enter
  \/ LoopStep
  \/ Interrupt
  \/ Stop
  \/ Advance

Spec == Init /\ [][Next]_vars

\* The control thread is scheduled, its callback returns (one solver step) and
\* the clock runs; nobody has to call stop, and signals may or may not come.
FairSpec == Spec /\ WF_vars(LoopStep) /\ WF_vars(Advance)

(***************************************************************************)
(* Properties.                                                             *)
(***************************************************************************)

\* The scheduler's struct, the locals of its loop and the history have their
\* types; the counters never go negative.
TypeOK ==
  /\ now \in 0 .. MaxTime
  /\ period_ns \in Periods \union {0}
  /\ stats \in [Counters -> Nat]
  /\ stop_requested \in BOOLEAN /\ initialised \in BOOLEAN
  /\ pc \in {"idle", "test", "stamp", "body", "account", "remainder", "nap"}
  /\ {start, tick_target, wake} \subseteq Nat
  /\ rc \in TickCodes
  /\ ret \in TickCodes \union {-1, 0}
  /\ runs \in 0 .. MaxRuns
  /\ ticked \in Seq([began : Nat, ended : Nat \union {Unended}, after : Nat \union {Unended}])
  /\ grace \in {0, 1}

\* The scheduler keeps the contract of cycle.h as PeriodicLoop states it, with
\* signals, preemption and stop requests at any point.
Promise == INSTANCE PeriodicLoop WITH
  clock <- now, period <- period_ns, epoch <- start,
  phase <- CASE pc = "idle" -> "stopped"
             [] pc \in {"body", "account"} -> "body"
             [] OTHER -> "waiting",
  begun <- Len(ticked), stop <- stop_requested, owed <- grace, result <- ret

KeepsPromise == Promise!Spec

\* Drift correction: the loop lies down only when it has caught up with every
\* slot that has come due, and is then woken exactly at the end of a whole
\* number of periods since start, whatever overran before.
PhaseLocked ==
  [][pc' = "nap" => /\ now < start + Len(ticked) * period_ns
                    /\ wake' = start + Len(ticked) * period_ns]_pc

\* "Sleeping the remainder of each cycle" (cycle.h): a sleep is due at the
\* latest one period after the tick before it began.
SleepsRemainder ==
  pc = "nap" => wake <= ticked[Len(ticked)].began + period_ns

\* The bodies that are over and accounted for.
Accounted == {k \in DOMAIN ticked : ticked[k].after # Unended}
Deadline(k) == start + k * period_ns
RanLong(k) == ticked[k].ended - ticked[k].began > period_ns
MissedDeadline(k) == ticked[k].ended > Deadline(k)

\* cycle.h: overruns is the "number of ticks whose body ran longer than the
\* period - the load-bearing soft-real-time failure signal". Neither a body that
\* ran longer than the period nor one that missed its deadline escapes it, also
\* when late ticks follow each other. (It is a bound, since the code counts more
\* than the header says: a short body that ends late after a long one, and a body
\* in time after which the loop is preempted before it reads the clock.)
MissedDeadlinesCounted ==
  Cardinality({k \in Accounted : RanLong(k) \/ MissedDeadline(k)}) <= stats.overruns

\* jitter_max_ns is the worst distance of a tick start from its slot.
JitterIsDistance ==
  LET off == {Distance(ticked[k].began, Deadline(k - 1)) : k \in 2 .. Len(ticked)} IN
  /\ \A d \in off : d <= stats.jitter_max_ns
  /\ stats.jitter_max_ns \in off \union {0}

\* A stop request ends the run, whenever it comes and however many signals
\* interrupt the sleep.
StopReturns == (Running /\ stop_requested) ~> ~ Running
==============================================================================
