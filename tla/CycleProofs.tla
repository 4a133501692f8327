------------------------------ MODULE CycleProofs ------------------------------
(***************************************************************************)
(* The scheduler's promises for every set of periods and tick codes, every *)
(* length of the clock and every number of runs: its steps implement the   *)
(* contract, sleeps end on a slot, and the counters tell the truth.        *)
(***************************************************************************)
EXTENDS Cycle, FiniteSetTheorems, TLAPS

(***************************************************************************)
(* Arithmetic of slots. Products are dealt with here and nowhere else.     *)
(***************************************************************************)

LEMMA Products ==
  ASSUME NEW m \in Nat, NEW n \in Nat
  PROVE  /\ m * n \in Nat
         /\ (m + 1) * n = m * n + n
         /\ \A k \in Nat : k <= m => k * n <= m * n
<1>1. m * n \in Nat /\ (m + 1) * n = m * n + n
  BY SMT
<1>2. ASSUME NEW k \in Nat, k <= m PROVE k * n <= m * n
  BY <1>2, SMT
<1> QED BY <1>1, <1>2

LEMMA Numbers ==
  ASSUME TypeOK
  PROVE  /\ now \in Nat /\ start \in Nat /\ period_ns \in Nat /\ tick_target \in Nat /\ wake \in Nat
         /\ \A c \in Counters : stats[c] \in Nat
         /\ stats.ticks \in Nat /\ stats.overruns \in Nat /\ stats.slack_sum_ns \in Nat
         /\ stats.slack_max_ns \in Nat /\ stats.jitter_sum_ns \in Nat /\ stats.jitter_max_ns \in Nat
         /\ Len(ticked) \in Nat
BY CycleAssumption DEF TypeOK, Counters

LEMMA Slots ==
  ASSUME TypeOK, NEW m \in Nat
  PROVE  /\ Slot(m) \in Nat
         /\ Slot(m + 1) = Slot(m) + period_ns
         /\ \A k \in Nat : k <= m => Slot(k) <= Slot(m)
         /\ Slot(0) = start
<1>1. start \in Nat /\ period_ns \in Nat
  BY Numbers
<1> DEFINE x == m * period_ns
<1>2. x \in Nat /\ (m + 1) * period_ns = x + period_ns
  BY <1>1, Products
<1>3. \A k \in Nat : k * period_ns \in Nat /\ (k <= m => k * period_ns <= x)
  BY <1>1, Products
<1>4. 0 * period_ns = 0
  BY <1>1, SMT
<1> HIDE DEF x
<1>5. Slot(m) = start + x /\ Slot(m + 1) = start + (x + period_ns)
  BY <1>2 DEF Slot, x
<1>6. ASSUME NEW k \in Nat, k <= m PROVE Slot(k) <= Slot(m)
  <2> DEFINE y == k * period_ns
  <2>1. y \in Nat /\ y <= x
    BY <1>3, <1>6
  <2> HIDE DEF y
  <2>2. Slot(k) = start + y
    BY DEF Slot, y
  <2> QED BY <1>1, <1>2, <1>5, <2>1, <2>2, SMT
<1>7. Slot(0) = start
  BY <1>1, <1>4 DEF Slot
<1> QED BY <1>1, <1>2, <1>5, <1>6, <1>7

LEMMA SlotZero == TypeOK => Slot(0) = start
BY Slots

(***************************************************************************)
(* The history of tick bodies.                                             *)
(***************************************************************************)
Body == [began : Nat, ended : Nat \union {Unended}, after : Nat \union {Unended}]

LEMMA SeqExcept ==
  ASSUME NEW s \in Seq(Body), NEW e \in Body, Len(s) > 0,
         NEW r, r = [s EXCEPT ![Len(s)] = e]
  PROVE  /\ r \in Seq(Body) /\ Len(r) = Len(s) /\ DOMAIN r = DOMAIN s
         /\ r[Len(s)] = e
         /\ \A k \in DOMAIN s : k # Len(s) => r[k] = s[k]
OBVIOUS

LEMMA BodyEnds ==
  ASSUME NEW s \in Seq(Body), NEW t \in Nat, Len(s) > 0,
         NEW r, r = [s EXCEPT ![Len(s)].ended = t]
  PROVE  /\ r \in Seq(Body) /\ Len(r) = Len(s) /\ DOMAIN r = DOMAIN s
         /\ r[Len(s)].began = s[Len(s)].began /\ r[Len(s)].ended = t
         /\ r[Len(s)].after = s[Len(s)].after
         /\ \A k \in DOMAIN s : k # Len(s) => r[k] = s[k]
<1> DEFINE e == [s[Len(s)] EXCEPT !.ended = t]
<1>1. s[Len(s)] \in Body
  OBVIOUS
<1>2. e \in Body /\ e.ended = t /\ e.began = s[Len(s)].began /\ e.after = s[Len(s)].after
  BY <1>1 DEF Body
<1>3. r = [s EXCEPT ![Len(s)] = e]
  OBVIOUS
<1> HIDE DEF e
<1> QED BY <1>2, <1>3, SeqExcept

LEMMA BodyAccounted ==
  ASSUME NEW s \in Seq(Body), NEW t \in Nat, Len(s) > 0,
         NEW r, r = [s EXCEPT ![Len(s)].after = t]
  PROVE  /\ r \in Seq(Body) /\ Len(r) = Len(s) /\ DOMAIN r = DOMAIN s
         /\ r[Len(s)].began = s[Len(s)].began /\ r[Len(s)].ended = s[Len(s)].ended
         /\ r[Len(s)].after = t
         /\ \A k \in DOMAIN s : k # Len(s) => r[k] = s[k]
<1> DEFINE e == [s[Len(s)] EXCEPT !.after = t]
<1>1. s[Len(s)] \in Body
  OBVIOUS
<1>2. e \in Body /\ e.after = t /\ e.began = s[Len(s)].began /\ e.ended = s[Len(s)].ended
  BY <1>1 DEF Body
<1>3. r = [s EXCEPT ![Len(s)] = e]
  OBVIOUS
<1> HIDE DEF e
<1> QED BY <1>2, <1>3, SeqExcept

(***************************************************************************)
(* The invariant.                                                          *)
(***************************************************************************)

\* Slots of the ticks done or under way.
Done == IF pc = "body" THEN stats.ticks + 1 ELSE stats.ticks

TickOpen == pc \in {"body", "account", "remainder", "nap"}

Settled ==
  /\ initialised <=> period_ns # 0
  /\ Running => initialised /\ runs > 0
  /\ runs = 0 => stats = ZeroStats /\ ticked = <<>>
  /\ pc = "stamp" /\ stop_requested => grace = 1

Counts ==
  Running => Len(ticked) <= Done /\ (~ Rerun => Len(ticked) = Done)

Bodies ==
  /\ TickOpen => Len(ticked) > 0
  /\ pc = "body" => ticked[Len(ticked)].ended = Unended
  /\ pc = "account" => ticked[Len(ticked)].ended \in 0 .. now
  /\ pc \in {"body", "account"} => ticked[Len(ticked)].after = Unended

Targets ==
  /\ TickOpen => tick_target = Slot(Done)
  /\ TickOpen /\ ~ Rerun => tick_target <= ticked[Len(ticked)].began + period_ns
  /\ pc = "nap" => wake = tick_target
  /\ pc \in {"test", "stamp"} => Slot(Len(ticked)) <= now

LoopInv == TypeOK /\ Settled /\ Counts /\ Bodies /\ Targets

LEMMA LoopInvInit == Init => LoopInv
<1> SUFFICES ASSUME Init PROVE LoopInv
  OBVIOUS
<1>1. stats \in [Counters -> Nat]
  BY DEF Init, ZeroStats
<1>2. ticked \in Seq(Body) /\ ticked = <<>>
  BY DEF Init
<1>3. now \in 0 .. MaxTime /\ runs \in 0 .. MaxRuns
  BY CycleAssumption DEF Init
<1>4. rc \in TickCodes /\ ret \in TickCodes \union {-1, 0}
  BY CycleAssumption DEF Init
<1>5. {start, tick_target, wake} \subseteq Nat
  BY DEF Init
<1>6. TypeOK
  BY <1>1, <1>2, <1>3, <1>4, <1>5 DEF Init, TypeOK, Body
<1>7. Settled /\ Counts /\ Bodies /\ Targets
  BY DEF Init, Settled, Counts, Bodies, Targets, TickOpen, Running
<1> QED BY <1>6, <1>7 DEF LoopInv

(***************************************************************************)
(* Steps that leave the loop's arithmetic alone.                           *)
(***************************************************************************)

\* A slot is where it was as long as the run and its period are the same.
LEMMA SameSlots ==
  ASSUME UNCHANGED <<start, period_ns>>
  PROVE  \A k : Slot(k)' = Slot(k)
BY DEF Slot

LEMMA Configures ==
  ASSUME LoopInv, NEW p \in Periods, InitCycle(p)
  PROVE  LoopInv'
<1>1. CASE p = 0
  <2>1. UNCHANGED vars
    BY <1>1 DEF InitCycle, vars
  <2> QED BY <2>1 DEF LoopInv, TypeOK, Settled, Counts, Bodies, Targets, TickOpen, Running, Done,
          Slot, vars, struct, locals
<1>2. CASE p # 0
  <2>1. /\ period_ns' = p /\ stats' = ZeroStats /\ stop_requested' = FALSE /\ initialised' = TRUE
        /\ runs' = 0 /\ ticked' = <<>> /\ grace' = 0
        /\ UNCHANGED <<now, pc, start, tick_target, rc, wake, ret>> /\ pc = "idle"
    BY <1>2 DEF InitCycle, locals, Running
  <2>2. TypeOK'
    <3>1. stats' \in [Counters -> Nat]
      BY <2>1 DEF ZeroStats
    <3>2. runs' \in 0 .. MaxRuns
      BY <2>1, CycleAssumption
    <3>3. ticked' \in Seq(Body) /\ period_ns' \in Periods
      BY <2>1
    <3> QED BY <2>1, <3>1, <3>2, <3>3 DEF LoopInv, TypeOK, Body
  <2>3. (Settled /\ Counts /\ Bodies /\ Targets)'
    BY <1>2, <2>1 DEF Settled, Counts, Bodies, Targets, TickOpen, Running
  <2> QED BY <2>2, <2>3 DEF LoopInv
<1> QED BY <1>1, <1>2

LEMMA Enters ==
  ASSUME LoopInv, Enter
  PROVE  LoopInv'
<1>1. CASE ~ initialised
  <2>1. pc' = "idle" /\ pc = "idle" /\ ret' = -1
        /\ UNCHANGED <<now, struct, start, tick_target, rc, wake, runs, ticked, grace>>
    BY <1>1 DEF Enter, Return, Running
  <2> QED BY <2>1 DEF LoopInv, TypeOK, Settled, Counts, Bodies, Targets, TickOpen, Running, struct
<1>2. CASE initialised
  <2>1. /\ start' = now /\ pc' = "test" /\ runs' = runs + 1 /\ ticked' = <<>> /\ pc = "idle"
        /\ UNCHANGED <<now, period_ns, stats, stop_requested, initialised, tick_target, rc, wake,
                       ret, grace>>
        /\ runs < MaxRuns /\ (runs > 0 => Rerun)
    BY <1>2 DEF Enter, Running, struct
  <2>2. TypeOK'
    <3>1. runs' \in 0 .. MaxRuns /\ now \in Nat
      BY <2>1, CycleAssumption DEF LoopInv, TypeOK
    <3>2. {start', tick_target', wake'} \subseteq Nat
      BY <2>1, <3>1 DEF LoopInv, TypeOK
    <3> QED BY <2>1, <3>1, <3>2 DEF LoopInv, TypeOK
  <2>3. runs' > 0 /\ runs' # 0
    BY <2>1, CycleAssumption DEF LoopInv, TypeOK
  <2>4. Settled'
    BY <1>2, <2>1, <2>3 DEF LoopInv, Settled, Running
  <2>5. Counts'
    <3>1. ~ Rerun => runs = 0 /\ stats.ticks = 0
      <4>1. ~ Rerun => runs = 0
        BY <2>1, CycleAssumption DEF LoopInv, TypeOK
      <4> QED BY <4>1 DEF LoopInv, Settled, ZeroStats, Counters
    <3>2. stats.ticks \in Nat
      BY Numbers DEF LoopInv
    <3> QED BY <2>1, <3>1, <3>2 DEF Counts, Done
  <2>6. Targets'
    <3>1. (Slot(0) = start)'
      BY <2>2, SlotZero, PTL
    <3>2. now \in Nat
      BY Numbers DEF LoopInv
    <3> QED BY <2>1, <3>1, <3>2 DEF Targets, TickOpen
  <2> QED BY <2>1, <2>2, <2>4, <2>5, <2>6 DEF LoopInv, Bodies, TickOpen
<1> QED BY <1>1, <1>2

LEMMA Stops ==
  ASSUME LoopInv, Stop
  PROVE  LoopInv'
<1>1. TypeOK'
  BY DEF Stop, LoopInv, TypeOK, locals
<1>2. Settled' /\ Counts' /\ Bodies'
  BY DEF Stop, LoopInv, Settled, Counts, Bodies, TickOpen, Done, Running, locals
<1>3. Targets'
  BY SameSlots DEF Stop, LoopInv, Targets, TickOpen, Done, locals
<1> QED BY <1>1, <1>2, <1>3 DEF LoopInv

LEMMA Advances ==
  ASSUME LoopInv, Advance
  PROVE  LoopInv'
<1>0. /\ UNCHANGED <<period_ns, stats, stop_requested, initialised, pc, start, tick_target, rc, wake,
                     ret, runs, ticked, grace>>
      /\ now' = now + 1 /\ now < MaxTime /\ now \in Nat /\ now' \in Nat
  BY Numbers DEF Advance, struct, locals, LoopInv
<1>1. TypeOK'
  <2>1. now' \in 0 .. MaxTime
    BY <1>0, CycleAssumption
  <2> QED BY <1>0, <2>1 DEF LoopInv, TypeOK
<1>2. Settled' /\ Counts' /\ Bodies'
  BY <1>0 DEF LoopInv, Settled, Counts, Bodies, TickOpen, Done, Running
<1>3. Targets'
  <2>1. Slot(Len(ticked)) \in Nat
    BY Numbers, Slots DEF LoopInv
  <2> QED BY <1>0, <2>1, SameSlots DEF LoopInv, Targets, TickOpen, Done
<1> QED BY <1>1, <1>2, <1>3 DEF LoopInv

(***************************************************************************)
(* The steps of the loop.                                                  *)
(***************************************************************************)

\* A step that moves pc only, between places where the loop is between two bodies.
LEMMA Moves ==
  ASSUME LoopInv, Running, pc # "body", pc # "account", pc # "stamp",
         pc' \in {"idle", "test", "stamp", "remainder", "nap"},
         UNCHANGED <<now, struct, start, tick_target, rc, runs, ticked, grace>>,
         wake' \in Nat, ret' \in {ret, 0},
         pc' = "stamp" => ~ stop_requested,
         pc' \in {"remainder", "nap"} => TickOpen,
         pc' = "nap" => wake' = tick_target,
         pc' \in {"test", "stamp"} => Slot(Len(ticked)) <= now
  PROVE  LoopInv'
<1>1. TypeOK'
  BY DEF LoopInv, TypeOK, struct
<1>2. Settled'
  BY DEF LoopInv, Settled, Running, struct
<1>3. Counts' /\ Bodies'
  BY DEF LoopInv, Counts, Bodies, TickOpen, Running, Done, struct
<1>4. Targets'
  BY SameSlots DEF LoopInv, Targets, TickOpen, Done, struct
<1> QED BY <1>1, <1>2, <1>3, <1>4 DEF LoopInv

\* Where a sleep is over, the slot of the next tick has come.
LEMMA SlotReached ==
  ASSUME LoopInv, pc \in {"account", "remainder", "nap"}, now >= tick_target
  PROVE  Slot(Len(ticked)) <= now
<1>1. Len(ticked) \in Nat /\ stats.ticks \in Nat /\ now \in Nat
  BY Numbers DEF LoopInv
<1>2. Len(ticked) <= stats.ticks /\ tick_target = Slot(stats.ticks)
  BY DEF LoopInv, Counts, Targets, TickOpen, Done, Running
<1>3. Slot(Len(ticked)) <= Slot(stats.ticks) /\ Slot(Len(ticked)) \in Nat /\ Slot(stats.ticks) \in Nat
  BY <1>1, <1>2, Slots DEF LoopInv
<1> QED BY <1>1, <1>2, <1>3

LEMMA Tests == ASSUME LoopInv, TestStop PROVE LoopInv'
<1>1. Slot(Len(ticked)) <= now
  BY DEF TestStop, LoopInv, Targets
<1>2. wake \in Nat
  BY Numbers DEF LoopInv
<1> QED BY <1>1, <1>2, Moves DEF TestStop, Return, locals, Running

LEMMA Sleeps == ASSUME LoopInv, Remainder PROVE LoopInv'
<1>0. now \in Nat /\ tick_target \in Nat /\ wake \in Nat
  BY Numbers DEF LoopInv
<1>1. CASE now >= tick_target
  BY <1>0, <1>1, SlotReached, Moves DEF Remainder, Running
<1>2. CASE ~ (now >= tick_target)
  <2>1. wake' = tick_target /\ pc' = "nap"
    BY <1>0, <1>2 DEF Remainder
  <2> QED BY <1>0, <2>1, Moves DEF Remainder, Running, TickOpen
<1> QED BY <1>1, <1>2

LEMMA Wakes == ASSUME LoopInv, Wake \/ Interrupt PROVE LoopInv'
<1>0. now \in Nat /\ tick_target \in Nat /\ wake \in Nat
  BY Numbers DEF LoopInv
<1>1. CASE Wake
  <2>1. wake = tick_target
    BY <1>1 DEF LoopInv, Targets, Wake
  <2>2. Slot(Len(ticked)) <= now
    BY <1>0, <1>1, <2>1, SlotReached DEF Wake
  <2> QED BY <1>0, <1>1, <2>2, Moves DEF Wake, Running, locals
<1>2. CASE Interrupt
  BY <1>0, <1>2, Moves DEF Interrupt, Running, locals, TickOpen
<1> QED BY <1>1, <1>2

\* What the body's beginning does, in numbers.
LEMMA BeginsEffect ==
  ASSUME LoopInv, BeginTick
  PROVE  /\ Jitter \in Nat
         /\ stats' \in [Counters -> Nat]
         /\ stats'.ticks = stats.ticks /\ stats'.overruns = stats.overruns
         /\ stats'.jitter_max_ns = WorstJitter(stats.jitter_max_ns, Jitter)
         /\ ticked' \in Seq(Body) /\ Len(ticked') = Len(ticked) + 1
         /\ ticked'[Len(ticked')] = [began |-> now, ended |-> Unended, after |-> Unended]
         /\ \A k \in 1 .. Len(ticked) : ticked'[k] = ticked[k]
<1>1. /\ now \in Nat /\ stats.ticks \in Nat
      /\ stats.jitter_sum_ns \in Nat /\ stats.jitter_max_ns \in Nat
  BY Numbers DEF LoopInv
<1>2. Slot(stats.ticks) \in Nat
  BY <1>1, Slots DEF LoopInv
<1>3. Jitter \in Nat
  BY <1>1, <1>2 DEF Jitter, Distance
<1> DEFINE a == stats.jitter_sum_ns + Jitter
           b == WorstJitter(stats.jitter_max_ns, Jitter)
<1>4. a \in Nat /\ b \in Nat
  BY <1>1, <1>3 DEF WorstJitter, Larger
<1>5. stats' = [stats EXCEPT !.jitter_sum_ns = a, !.jitter_max_ns = b]
  BY DEF BeginTick
<1>6. stats \in [Counters -> Nat]
  BY DEF LoopInv, TypeOK
<1> HIDE DEF a, b
<1>7. /\ stats' \in [Counters -> Nat] /\ stats'.ticks = stats.ticks
      /\ stats'.overruns = stats.overruns /\ stats'.jitter_max_ns = b
  BY <1>4, <1>5, <1>6 DEF Counters
<1> DEFINE new == [began |-> now, ended |-> Unended, after |-> Unended]
<1>8. new \in Body /\ ticked \in Seq(Body) /\ ticked' = Append(ticked, new)
  BY <1>1 DEF Body, BeginTick, LoopInv, TypeOK
<1> HIDE DEF new
<1>9. /\ ticked' \in Seq(Body) /\ Len(ticked') = Len(ticked) + 1 /\ ticked'[Len(ticked')] = new
      /\ \A k \in 1 .. Len(ticked) : ticked'[k] = ticked[k]
  BY <1>8
<1> QED BY <1>3, <1>7, <1>9 DEF b, new

LEMMA Begins == ASSUME LoopInv, BeginTick PROVE LoopInv'
<1>1. /\ stats' \in [Counters -> Nat] /\ stats'.ticks = stats.ticks
      /\ ticked' \in Seq(Body) /\ Len(ticked') = Len(ticked) + 1
      /\ ticked'[Len(ticked')] = [began |-> now, ended |-> Unended, after |-> Unended]
  BY BeginsEffect
<1>2. /\ pc = "stamp" /\ pc' = "body" /\ tick_target' = Slot(stats.ticks + 1) /\ grace' = 0
      /\ UNCHANGED <<now, period_ns, stop_requested, initialised, start, rc, wake, ret, runs>>
  BY DEF BeginTick
<1>3. /\ now \in Nat /\ stats.ticks \in Nat /\ Len(ticked) \in Nat /\ period_ns \in Nat
  BY Numbers DEF LoopInv
<1>4. /\ Slot(stats.ticks + 1) = Slot(stats.ticks) + period_ns /\ Slot(stats.ticks) \in Nat
      /\ Slot(stats.ticks + 1) \in Nat
  <2>1. /\ Slot(stats.ticks + 1) = Slot(stats.ticks) + period_ns
        /\ Slot(stats.ticks) \in Nat
    BY <1>3, Slots DEF LoopInv
  <2> QED BY <1>3, <2>1
<1>5. TypeOK'
  BY <1>1, <1>2, <1>4 DEF LoopInv, TypeOK, Body
<1>6. Settled' /\ Bodies'
  BY <1>1, <1>2, <1>3 DEF LoopInv, Settled, Bodies, TickOpen, Running
<1>7. Counts'
  BY <1>1, <1>2, <1>3 DEF LoopInv, Counts, Running, Done
<1>8. Targets'
  <2>1. Slot(stats.ticks + 1)' = Slot(stats.ticks + 1)
    BY <1>1, <1>2 DEF Slot
  <2>2. ~ Rerun => tick_target' <= now + period_ns
    <3>1. Slot(Len(ticked)) <= now /\ (~ Rerun => Len(ticked) = stats.ticks)
      BY <1>2 DEF LoopInv, Targets, Counts, Running, Done
    <3> QED BY <1>2, <1>3, <1>4, <3>1
  <2> QED BY <1>1, <1>2, <2>1, <2>2 DEF Targets, TickOpen, Done
<1> QED BY <1>5, <1>6, <1>7, <1>8 DEF LoopInv

LEMMA EndsEffect ==
  ASSUME LoopInv, NEW code \in TickCodes, EndTick(code)
  PROVE  /\ stats' \in [Counters -> Nat] /\ stats'.ticks = stats.ticks + 1
         /\ stats'.overruns = stats.overruns /\ stats'.jitter_max_ns = stats.jitter_max_ns
         /\ Len(ticked) > 0
         /\ ticked' \in Seq(Body) /\ Len(ticked') = Len(ticked) /\ DOMAIN ticked' = DOMAIN ticked
         /\ ticked'[Len(ticked)].began = ticked[Len(ticked)].began
         /\ ticked'[Len(ticked)].ended = now
         /\ ticked'[Len(ticked)].after = ticked[Len(ticked)].after
         /\ \A k \in DOMAIN ticked : k # Len(ticked) => ticked'[k] = ticked[k]
<1>1. now \in Nat /\ stats.ticks \in Nat
  BY Numbers DEF LoopInv
<1>2. /\ stats' \in [Counters -> Nat] /\ stats'.ticks = stats.ticks + 1
      /\ stats'.overruns = stats.overruns /\ stats'.jitter_max_ns = stats.jitter_max_ns
  <2> DEFINE n == stats.ticks + 1
  <2>1. n \in Nat /\ stats \in [Counters -> Nat] /\ stats' = [stats EXCEPT !.ticks = n]
    BY <1>1 DEF EndTick, LoopInv, TypeOK
  <2> HIDE DEF n
  <2>2. /\ stats' \in [Counters -> Nat] /\ stats'.ticks = n
        /\ stats'.overruns = stats.overruns /\ stats'.jitter_max_ns = stats.jitter_max_ns
    BY <2>1 DEF Counters
  <2> QED BY <2>2 DEF n
<1>3. ticked \in Seq(Body) /\ Len(ticked) > 0
  BY DEF LoopInv, TypeOK, Bodies, TickOpen, EndTick, Body
<1>4. ticked' = [ticked EXCEPT ![Len(ticked)].ended = now]
  BY DEF EndTick
<1>5. /\ ticked' \in Seq(Body) /\ Len(ticked') = Len(ticked) /\ DOMAIN ticked' = DOMAIN ticked
      /\ ticked'[Len(ticked)].began = ticked[Len(ticked)].began
      /\ ticked'[Len(ticked)].ended = now
      /\ ticked'[Len(ticked)].after = ticked[Len(ticked)].after
      /\ \A k \in DOMAIN ticked : k # Len(ticked) => ticked'[k] = ticked[k]
  BY <1>1, <1>3, <1>4, BodyEnds
<1> QED BY <1>2, <1>3, <1>5

LEMMA Finishes == ASSUME LoopInv, NEW code \in TickCodes, EndTick(code) PROVE LoopInv'
<1>1. /\ stats' \in [Counters -> Nat] /\ stats'.ticks = stats.ticks + 1
      /\ Len(ticked) > 0 /\ ticked' \in Seq(Body) /\ Len(ticked') = Len(ticked)
      /\ ticked'[Len(ticked)].began = ticked[Len(ticked)].began
      /\ ticked'[Len(ticked)].ended = now
      /\ ticked'[Len(ticked)].after = ticked[Len(ticked)].after
  BY EndsEffect
<1>2. /\ pc = "body" /\ pc' = "account" /\ rc' = code
      /\ UNCHANGED <<now, period_ns, stop_requested, initialised, start, tick_target, wake, ret, runs,
                     grace>>
  BY DEF EndTick
<1>3. now \in Nat
  BY Numbers DEF LoopInv
<1>4. TypeOK'
  BY <1>1, <1>2 DEF LoopInv, TypeOK, Body
<1>5. Settled'
  BY <1>1, <1>2 DEF LoopInv, Settled, Running
<1>6. Counts'
  BY <1>1, <1>2 DEF LoopInv, Counts, Running, Done
<1>7. Bodies'
  BY <1>1, <1>2, <1>3 DEF LoopInv, Bodies, TickOpen
<1>8. Targets'
  BY <1>1, <1>2, SameSlots DEF LoopInv, Targets, TickOpen, Done
<1> QED BY <1>4, <1>5, <1>6, <1>7, <1>8 DEF LoopInv

LEMMA AccountsEffect ==
  ASSUME LoopInv, Account
  PROVE  /\ stats' \in [Counters -> Nat] /\ stats'.ticks = stats.ticks
         /\ stats'.overruns = (IF Overran THEN stats.overruns + 1 ELSE stats.overruns)
         /\ stats'.jitter_max_ns = stats.jitter_max_ns
         /\ Len(ticked) > 0
         /\ ticked' \in Seq(Body) /\ Len(ticked') = Len(ticked) /\ DOMAIN ticked' = DOMAIN ticked
         /\ ticked'[Len(ticked)].began = ticked[Len(ticked)].began
         /\ ticked'[Len(ticked)].ended = ticked[Len(ticked)].ended
         /\ \A k \in DOMAIN ticked : k # Len(ticked) => ticked'[k] = ticked[k]
<1>1. /\ now \in Nat /\ tick_target \in Nat /\ stats.slack_sum_ns \in Nat
      /\ stats.slack_max_ns \in Nat /\ stats.overruns \in Nat
  BY Numbers DEF LoopInv
<1> DEFINE a == stats.slack_sum_ns + Slack
           b == Larger(stats.slack_max_ns, Slack)
           c == IF Overran THEN stats.overruns + 1 ELSE stats.overruns
<1>2. a \in Nat /\ b \in Nat /\ c \in Nat
  BY <1>1 DEF Slack, Larger
<1>3. stats' = [stats EXCEPT !.slack_sum_ns = a, !.slack_max_ns = b, !.overruns = c]
  BY DEF Account
<1>4. stats \in [Counters -> Nat]
  BY DEF LoopInv, TypeOK
<1> HIDE DEF a, b, c
<1>5. /\ stats' \in [Counters -> Nat] /\ stats'.ticks = stats.ticks /\ stats'.overruns = c
      /\ stats'.jitter_max_ns = stats.jitter_max_ns
  BY <1>2, <1>3, <1>4 DEF Counters
<1>6. ticked \in Seq(Body) /\ Len(ticked) > 0
  BY DEF LoopInv, TypeOK, Bodies, TickOpen, Account, Body
<1>7. ticked' = [ticked EXCEPT ![Len(ticked)].after = now]
  BY DEF Account
<1> QED BY <1>1, <1>5, <1>6, <1>7, BodyAccounted, SMTT(30) DEF c

LEMMA Accounts == ASSUME LoopInv, Account PROVE LoopInv'
<1>1. /\ stats' \in [Counters -> Nat] /\ stats'.ticks = stats.ticks
      /\ Len(ticked) > 0 /\ ticked' \in Seq(Body) /\ Len(ticked') = Len(ticked)
      /\ ticked'[Len(ticked)].began = ticked[Len(ticked)].began
  BY AccountsEffect
<1>2. /\ pc = "account"
      /\ \/ pc' = "idle" /\ ret' = rc
         \/ pc' = "remainder" /\ ret' = ret
         \/ pc' = "test" /\ ret' = ret /\ now >= tick_target
      /\ UNCHANGED <<now, period_ns, stop_requested, initialised, start, tick_target, rc, wake, runs,
                     grace>>
  BY DEF Account, Return, locals
<1>3. TypeOK'
  BY <1>1, <1>2 DEF LoopInv, TypeOK, Body
<1>4. Settled'
  BY <1>1, <1>2 DEF LoopInv, Settled, Running
<1>5. Counts'
  BY <1>1, <1>2 DEF LoopInv, Counts, Running, Done
<1>6. Bodies'
  BY <1>1, <1>2 DEF LoopInv, Bodies, TickOpen
<1>7. Targets'
  <2>1. pc' = "test" => Slot(Len(ticked)) <= now
    BY <1>2, SlotReached
  <2> QED BY <1>1, <1>2, <2>1, SameSlots DEF LoopInv, Targets, TickOpen, Done
<1> QED BY <1>3, <1>4, <1>5, <1>6, <1>7 DEF LoopInv

LEMMA LoopInvNext == LoopInv /\ [Next]_vars => LoopInv'
<1> SUFFICES ASSUME LoopInv, [Next]_vars PROVE LoopInv'
  OBVIOUS
<1>1. CASE LoopStep \/ Interrupt
  BY <1>1, Tests, Begins, Finishes, Accounts, Sleeps, Wakes DEF LoopStep
<1>2. ASSUME NEW p \in Periods, InitCycle(p) PROVE LoopInv'
  BY <1>2, Configures
<1>3. CASE Enter \/ Stop \/ Advance
  BY <1>3, Enters, Stops, Advances
<1>4. CASE UNCHANGED vars
  BY <1>4, SameSlots DEF LoopInv, TypeOK, Settled, Counts, Bodies, Targets, TickOpen, Running, Done,
     vars, struct, locals
<1> QED BY <1>1, <1>2, <1>3, <1>4 DEF Next

LEMMA LoopInvariance == Spec => []LoopInv
BY LoopInvInit, LoopInvNext, PTL DEF Spec

(***************************************************************************)
(* The theorems.                                                           *)
(***************************************************************************)

\* The struct, the locals and the counters keep their types, for every clock.
THEOREM TypeCorrect == Spec => []TypeOK
<1>1. LoopInv => TypeOK
  BY DEF LoopInv
<1> QED BY <1>1, LoopInvariance, PTL

\* A scheduler that is run once after each jx_cycle_init sleeps no longer than the rest of
\* the cycle, whatever overran before and however often a signal wakes it.
THEOREM SleepsSound == ASSUME ~ Rerun PROVE Spec => []SleepsRemainder
<1>1. LoopInv => SleepsRemainder
  <2> SUFFICES ASSUME LoopInv, pc = "nap" PROVE wake <= ticked[Len(ticked)].began + period_ns
    BY DEF SleepsRemainder
  <2> QED BY DEF LoopInv, Targets, TickOpen
<1> QED BY <1>1, LoopInvariance, PTL

\* It wakes at the end of a whole number of periods since its start, whatever overran.
THEOREM PhaseSound == ASSUME ~ Rerun PROVE Spec => PhaseLocked
<1>1. LoopInv /\ [Next]_vars =>
        [pc' = "nap" => /\ now < start + Len(ticked) * period_ns
                        /\ wake' = start + Len(ticked) * period_ns]_pc
  <2> SUFFICES ASSUME LoopInv, [Next]_vars, pc' # pc, pc' = "nap"
               PROVE  now < Slot(Len(ticked)) /\ wake' = Slot(Len(ticked))
    BY DEF Slot
  <2>1. Remainder
    BY DEF Next, LoopStep, InitCycle, Enter, Return, TestStop, BeginTick, EndTick, Account, Wake,
       Interrupt, Stop, Advance, vars
  <2>2. ~ (now >= tick_target) /\ wake' = now + (tick_target - now)
    BY <2>1 DEF Remainder
  <2>3. tick_target = Slot(Len(ticked)) /\ tick_target \in Nat /\ now \in Nat
    BY <2>1, Numbers DEF LoopInv, Targets, Counts, TickOpen, Done, Running, Remainder
  <2> QED BY <2>2, <2>3
<1> QED BY <1>1, LoopInvariance, PTL DEF Spec, PhaseLocked

(***************************************************************************)
(* The implementation of the contract.                                     *)
(***************************************************************************)
LEMMA PromiseInit == Init => Promise!Init
BY DEF Init, Promise!Init

\* Every step is one of the contract or changes nothing that the contract sees.
LEMMA PromiseStep == LoopInv /\ [Next]_vars => [Promise!Next]_(Promise!loopVars)
<1> SUFFICES ASSUME LoopInv, [Next]_vars PROVE [Promise!Next]_(Promise!loopVars)
  OBVIOUS
<1>0. /\ now \in Nat /\ Len(ticked) \in Nat /\ period_ns \in Nat /\ Slot(Len(ticked)) \in Nat
      /\ Slot(Len(ticked)) = start + Len(ticked) * period_ns
  BY Numbers, Slots DEF LoopInv, Slot
<1> USE DEF Promise!Next, Promise!loopVars
<1>1. ASSUME NEW p \in Periods, InitCycle(p) PROVE [Promise!Next]_(Promise!loopVars)
  <2>1. CASE p = 0
    BY <1>1, <2>1 DEF InitCycle, struct, locals
  <2>2. CASE p # 0
    <3>1. Len(ticked') = 0
      BY <1>1, <2>2 DEF InitCycle
    <3>2. Promise!Configure(p)
      BY <1>1, <2>2, <3>1 DEF InitCycle, locals, Running, Promise!Configure
    <3> QED BY <3>2
  <2> QED BY <2>1, <2>2
<1>2. CASE Enter
  <2>1. CASE ~ initialised
    <3>1. Promise!Refuse
      BY <1>2, <2>1 DEF Enter, Return, struct, Running, LoopInv, Settled, Promise!Refuse
    <3> QED BY <3>1
  <2>2. CASE initialised
    <3>1. Len(ticked') = 0
      BY <1>2, <2>2 DEF Enter
    <3>2. Promise!Begin
      BY <1>2, <2>2, <3>1 DEF Enter, struct, Running, LoopInv, Settled, Promise!Begin
    <3> QED BY <3>2
  <2> QED BY <2>1, <2>2
<1>3. CASE Stop
  <2>1. Promise!RequestStop
    BY <1>3 DEF Stop, locals, Promise!RequestStop
  <2> QED BY <2>1
<1>4. CASE Advance
  <2>1. now' > now
    BY <1>0, <1>4 DEF Advance
  <2>2. Promise!Pass
    BY <1>4, <2>1 DEF Advance, struct, locals, Promise!Pass
  <2> QED BY <2>2
<1>5. CASE TestStop
  <2>1. CASE stop_requested
    <3>1. Promise!Quit
      BY <1>5, <2>1 DEF TestStop, Return, struct, locals, Promise!Quit
    <3> QED BY <3>1
  <2>2. CASE ~ stop_requested
    BY <1>5, <2>2 DEF TestStop, struct, locals
  <2> QED BY <2>1, <2>2
<1>6. CASE BeginTick
  <2>1. Len(ticked') = Len(ticked) + 1
    BY <1>6, BeginsEffect
  <2>2. now >= start + Len(ticked) * period_ns /\ (stop_requested => grace = 1)
    BY <1>0, <1>6 DEF BeginTick, LoopInv, Targets, Settled
  <2>3. Promise!Fire
    BY <1>6, <2>1, <2>2 DEF BeginTick, Promise!Fire
  <2> QED BY <2>3
<1>7. ASSUME NEW code \in TickCodes, EndTick(code) PROVE [Promise!Next]_(Promise!loopVars)
  <2>1. Len(ticked') = Len(ticked)
    BY <1>7, EndsEffect
  <2> QED BY <1>7, <2>1 DEF EndTick
<1>8. CASE Account
  <2>1. Len(ticked') = Len(ticked)
    BY <1>8, AccountsEffect
  <2>2. rc \in TickCodes
    BY DEF LoopInv, TypeOK
  <2>3. Promise!Finish(rc)
    BY <1>8, <2>1 DEF Account, Return, locals, Promise!Finish
  <2> QED BY <2>2, <2>3
<1>9. CASE Remainder \/ Wake \/ Interrupt
  BY <1>9 DEF Remainder, Wake, Interrupt, struct, locals
<1>10. CASE UNCHANGED vars
  BY <1>10 DEF vars, struct, locals
<1> QED BY <1>1, <1>2, <1>3, <1>4, <1>5, <1>6, <1>7, <1>8, <1>9, <1>10 DEF Next, LoopStep

\* The scheduler implements PeriodicLoop, whatever the bounds, also when it is run again
\* without jx_cycle_init.
THEOREM CycleImplements == Spec => KeepsPromise
BY LoopInvariance, PromiseInit, PromiseStep, PTL DEF Spec, KeepsPromise, Promise!Spec

(***************************************************************************)
(* The counters.                                                           *)
(***************************************************************************)

Late == {k \in Accounted : RanLong(k) \/ MissedDeadline(k)}

LEMMA LateFinite == TypeOK => IsFiniteSet(Late) /\ IsFiniteSet(DOMAIN ticked)
<1> SUFFICES ASSUME TypeOK PROVE IsFiniteSet(Late) /\ IsFiniteSet(DOMAIN ticked)
  OBVIOUS
<1>1. DOMAIN ticked = 1 .. Len(ticked) /\ Len(ticked) \in Nat
  BY DEF TypeOK
<1>2. IsFiniteSet(1 .. Len(ticked))
  BY <1>1, FS_Interval
<1>3. Late \subseteq 1 .. Len(ticked)
  BY <1>1 DEF Late, Accounted
<1> QED BY <1>1, <1>2, <1>3, FS_Subset

\* A step after which no more bodies are late, and no fewer overruns counted.
LEMMA LateKept ==
  ASSUME TypeOK, TypeOK', MissedDeadlinesCounted, Late' \subseteq Late,
         stats'.overruns = stats.overruns
  PROVE  MissedDeadlinesCounted'
<1>1. IsFiniteSet(Late) /\ stats.overruns \in Nat
  BY LateFinite, Numbers
<1>2. /\ Cardinality(Late') <= Cardinality(Late)
      /\ Cardinality(Late') \in Nat /\ Cardinality(Late) \in Nat
  BY <1>1, FS_Subset, FS_CardinalityType
<1> QED BY <1>1, <1>2 DEF MissedDeadlinesCounted, Late

LEMMA CountsMissed ==
  ASSUME ~ Rerun, LoopInv, LoopInv', MissedDeadlinesCounted, [Next]_vars
  PROVE  MissedDeadlinesCounted'
<1>0. TypeOK /\ TypeOK'
  BY DEF LoopInv
<1>1. CASE UNCHANGED <<ticked, stats, start, period_ns>>
  BY <1>1 DEF MissedDeadlinesCounted, Accounted, Deadline, RanLong, MissedDeadline
<1>2. CASE ticked' = <<>>
  <2>1. Late' = {}
    BY <1>2 DEF Late, Accounted
  <2>2. stats'.overruns \in Nat
    BY <1>0 DEF TypeOK, Counters
  <2>3. Cardinality(Late') = 0
    BY <2>1, FS_EmptySet
  <2> QED BY <2>2, <2>3 DEF MissedDeadlinesCounted, Late
<1>3. CASE BeginTick
  <2>1. UNCHANGED <<start, period_ns>>
    BY <1>3 DEF BeginTick
  <2>2. /\ stats'.overruns = stats.overruns
        /\ ticked' \in Seq(Body) /\ Len(ticked') = Len(ticked) + 1
        /\ ticked'[Len(ticked')] = [began |-> now, ended |-> Unended, after |-> Unended]
        /\ \A k \in 1 .. Len(ticked) : ticked'[k] = ticked[k]
    BY <1>3, BeginsEffect
  <2>3. DOMAIN ticked = 1 .. Len(ticked) /\ Len(ticked) \in Nat /\ DOMAIN ticked' = 1 .. Len(ticked')
    BY <1>0 DEF TypeOK
  <2>4. ASSUME NEW k \in Late' PROVE k \in Late
    <3>1. k \in 1 .. Len(ticked') /\ ticked'[k].after # Unended /\ (RanLong(k) \/ MissedDeadline(k))'
      BY <2>3 DEF Late, Accounted
    <3>2. k # Len(ticked')
      BY <2>2, <3>1
    <3>3. k \in 1 .. Len(ticked) /\ ticked'[k] = ticked[k]
      BY <2>2, <2>3, <3>1, <3>2
    <3> QED BY <2>1, <2>3, <3>1, <3>3 DEF Late, Accounted, Deadline, RanLong, MissedDeadline
  <2> QED BY <1>0, <2>2, <2>4, LateKept
<1>4. ASSUME NEW code \in TickCodes, EndTick(code) PROVE MissedDeadlinesCounted'
  <2>1. UNCHANGED <<start, period_ns>> /\ ticked[Len(ticked)].after = Unended
    BY <1>4 DEF EndTick, LoopInv, Bodies
  <2>2. /\ stats'.overruns = stats.overruns /\ DOMAIN ticked' = DOMAIN ticked
        /\ ticked'[Len(ticked)].after = Unended
        /\ \A k \in DOMAIN ticked : k # Len(ticked) => ticked'[k] = ticked[k]
    BY <1>4, <2>1, EndsEffect
  <2>3. ASSUME NEW k \in Late' PROVE k \in Late
    <3>1. k \in DOMAIN ticked /\ ticked'[k].after # Unended /\ (RanLong(k) \/ MissedDeadline(k))'
      BY <2>2 DEF Late, Accounted
    <3>2. ticked'[k] = ticked[k]
      BY <2>2, <3>1
    <3> QED BY <2>1, <3>1, <3>2 DEF Late, Accounted, Deadline, RanLong, MissedDeadline
  <2> QED BY <1>0, <2>2, <2>3, LateKept
<1>5. CASE Account
  <2>1. UNCHANGED <<start, period_ns>>
    BY <1>5 DEF Account, locals
  <2>2. /\ stats'.overruns = (IF Overran THEN stats.overruns + 1 ELSE stats.overruns)
        /\ DOMAIN ticked' = DOMAIN ticked
        /\ ticked'[Len(ticked)].ended = ticked[Len(ticked)].ended
        /\ ticked'[Len(ticked)].began = ticked[Len(ticked)].began
        /\ \A k \in DOMAIN ticked : k # Len(ticked) => ticked'[k] = ticked[k]
    BY <1>5, AccountsEffect
  <2>3. ASSUME NEW k \in Late', k # Len(ticked) PROVE k \in Late
    <3>1. k \in DOMAIN ticked /\ ticked'[k].after # Unended /\ (RanLong(k) \/ MissedDeadline(k))'
      BY <2>2 DEF Late, Accounted
    <3> QED BY <2>1, <2>2, <2>3, <3>1 DEF Late, Accounted, Deadline, RanLong, MissedDeadline
  <2>4. CASE ~ Overran
    <3>1. Len(ticked) \notin Late'
      <4>1. /\ ticked[Len(ticked)].ended \in 0 .. now /\ tick_target = Slot(Len(ticked))
            /\ now \in Nat /\ tick_target \in Nat
        BY <1>5, Numbers DEF Account, LoopInv, Bodies, Targets, Counts, TickOpen, Done, Running
      <4>2. ticked'[Len(ticked)].ended <= tick_target /\ ticked'[Len(ticked)].ended \in Nat
        BY <2>2, <2>4, <4>1 DEF Overran
      <4>3. Deadline(Len(ticked)) = tick_target
        BY <4>1 DEF Deadline, Slot
      <4>4. TickOpen /\ pc = "account" /\ Len(ticked) > 0 /\ TypeOK
        BY <1>5 DEF Account, LoopInv, Bodies, TickOpen, Running
      <4>5. ticked[Len(ticked)].began \in Nat /\ period_ns \in Nat
        <5>1. ticked \in Seq(Body) /\ Len(ticked) \in 1 .. Len(ticked)
          BY <4>4 DEF TypeOK, Body
        <5>2. ticked[Len(ticked)] \in Body
          BY <5>1
        <5> QED BY <4>4, <5>2, Numbers DEF Body
      <4>6. tick_target <= ticked[Len(ticked)].began + period_ns
        BY <4>4 DEF LoopInv, Targets
      <4>7. ASSUME NEW k \in Late', k = Len(ticked) PROVE FALSE
        <5>1. (RanLong(k))' \/ (MissedDeadline(k))'
          BY <4>7 DEF Late
        <5>2. ~ (RanLong(k))'
          BY <2>1, <2>2, <4>1, <4>2, <4>5, <4>6, <4>7 DEF RanLong
        <5>3. ~ (MissedDeadline(k))'
          <6>1. (Deadline(k))' = tick_target
            BY <2>1, <4>3, <4>7 DEF Deadline
          <6> QED BY <4>1, <4>2, <4>7, <6>1 DEF MissedDeadline
        <5> QED BY <5>1, <5>2, <5>3
      <4> QED BY <4>7
    <3> QED BY <1>0, <2>2, <2>3, <2>4, <3>1, LateKept
  <2>5. CASE Overran
    <3>1. IsFiniteSet(Late) /\ IsFiniteSet(Late \union {Len(ticked)}) /\ stats.overruns \in Nat
      BY <1>0, LateFinite, Numbers, FS_AddElement
    <3>2. Late' \subseteq Late \union {Len(ticked)}
      BY <2>3
    <3>3. /\ Cardinality(Late') <= Cardinality(Late \union {Len(ticked)})
          /\ Cardinality(Late \union {Len(ticked)}) <= Cardinality(Late) + 1
          /\ Cardinality(Late') \in Nat /\ Cardinality(Late) \in Nat
          /\ Cardinality(Late \union {Len(ticked)}) \in Nat
      BY <3>1, <3>2, FS_Subset, FS_AddElement, FS_CardinalityType
    <3>4. Cardinality(Late) <= stats.overruns /\ stats'.overruns = stats.overruns + 1
      BY <2>2, <2>5 DEF MissedDeadlinesCounted, Late
    <3>5. Cardinality(Late') <= stats'.overruns
      BY <3>1, <3>3, <3>4
    <3> QED BY <3>5 DEF MissedDeadlinesCounted, Late
  <2> QED BY <2>4, <2>5
<1> QED
  <2>1. ASSUME NEW p \in Periods, InitCycle(p)
        PROVE  ticked' = <<>> \/ UNCHANGED <<ticked, stats, start, period_ns>>
    <3>1. CASE p = 0
      BY <2>1, <3>1 DEF InitCycle, struct, locals
    <3> QED BY <2>1, <3>1 DEF InitCycle
  <2>2. ASSUME Enter PROVE ticked' = <<>> \/ UNCHANGED <<ticked, stats, start, period_ns>>
    BY <2>2 DEF Enter, struct
  <2>3. ASSUME TestStop \/ Remainder \/ Wake \/ Interrupt \/ Stop \/ Advance \/ UNCHANGED vars
        PROVE  UNCHANGED <<ticked, stats, start, period_ns>>
    BY <2>3 DEF TestStop, Remainder, Wake, Interrupt, Stop, Advance, vars, struct, locals
  <2> QED BY <1>1, <1>2, <1>3, <1>4, <1>5, <2>1, <2>2, <2>3 DEF Next, LoopStep

\* No missed deadline escapes the overrun counter of a scheduler that is run once after
\* each jx_cycle_init.
THEOREM MissedCounted == ASSUME ~ Rerun PROVE Spec => []MissedDeadlinesCounted
<1>1. Init => MissedDeadlinesCounted
  <2> SUFFICES ASSUME Init PROVE MissedDeadlinesCounted
    OBVIOUS
  <2>1. Late = {} /\ stats.overruns = 0
    BY DEF Init, Late, Accounted, ZeroStats, Counters
  <2> QED BY <2>1, FS_EmptySet DEF MissedDeadlinesCounted, Late
<1>2. LoopInv /\ LoopInv' /\ MissedDeadlinesCounted /\ [Next]_vars => MissedDeadlinesCounted'
  BY CountsMissed
<1> QED BY <1>1, <1>2, LoopInvariance, PTL DEF Spec

\* How far the k-th body of a run began from its slot.
Off(bodies, origin, length, k) == Distance(bodies[k].began, origin + (k - 1) * length)

\* The worst distance, and one of them.
Worst(worst, bodies, origin, length) ==
  /\ \A k \in 2 .. Len(bodies) : Off(bodies, origin, length, k) <= worst
  /\ worst = 0 \/ \E k \in 2 .. Len(bodies) : worst = Off(bodies, origin, length, k)

LEMMA OffIsNat ==
  ASSUME TypeOK, NEW k \in 2 .. Len(ticked)
  PROVE  Off(ticked, start, period_ns, k) \in Nat
<1>1. k \in 1 .. Len(ticked) /\ ticked \in Seq(Body)
  BY DEF TypeOK, Body
<1>2. k - 1 \in Nat /\ ticked[k].began \in Nat
  <2>1. Len(ticked) \in Nat /\ k \in 2 .. Len(ticked)
    BY <1>1
  <2>2. k - 1 \in Nat
    BY <2>1
  <2>3. ticked[k] \in Body
    BY <1>1
  <2> QED BY <2>2, <2>3 DEF Body
<1>3. start + (k - 1) * period_ns \in Nat
  BY <1>2, Slots DEF Slot
<1> DEFINE slot == start + (k - 1) * period_ns
<1>4. slot \in Nat
  BY <1>3
<1> HIDE DEF slot
<1>5. Distance(ticked[k].began, slot) \in Nat
  BY <1>2, <1>4 DEF Distance
<1> QED BY <1>5 DEF Off, slot

LEMMA JitterForm ==
  /\ JitterIsDistance <=> Worst(stats.jitter_max_ns, ticked, start, period_ns)
  /\ JitterIsDistance' <=> Worst(stats'.jitter_max_ns, ticked', start', period_ns')
BY DEF JitterIsDistance, Deadline, Off, Worst

LEMMA JitterKept ==
  ASSUME JitterIsDistance, Len(ticked') = Len(ticked), UNCHANGED <<start, period_ns>>,
         stats'.jitter_max_ns = stats.jitter_max_ns,
         \A k \in 2 .. Len(ticked) : ticked'[k].began = ticked[k].began
  PROVE  JitterIsDistance'
<1>1. \A k \in 2 .. Len(ticked) :
        Off(ticked', start', period_ns', k) = Off(ticked, start, period_ns, k)
  BY DEF Off
<1> QED BY <1>1, JitterForm DEF Worst

\* The first body has no slot to be off from, each later one has its predecessor's end.
LEMMA JitterOf ==
  ASSUME ~ Rerun, LoopInv, BeginTick
  PROVE  /\ Len(ticked) = stats.ticks
         /\ Len(ticked) = 0 => Jitter = 0
         /\ Len(ticked) > 0 => Jitter = Distance(now, start + Len(ticked) * period_ns)
<1>1. Len(ticked) = stats.ticks /\ Len(ticked) \in Nat
  BY Numbers DEF LoopInv, Counts, Running, Done, BeginTick
<1> QED BY <1>1 DEF Jitter, Slot

LEMMA BeginsJitter ==
  ASSUME ~ Rerun, LoopInv, JitterIsDistance, BeginTick
  PROVE  JitterIsDistance'
<1> DEFINE n == Len(ticked)
           w == stats.jitter_max_ns
<1>1. /\ Jitter \in Nat /\ Len(ticked') = n + 1
      /\ stats'.jitter_max_ns = Larger(w, Jitter)
      /\ ticked'[n + 1].began = now
      /\ \A k \in 1 .. n : ticked'[k] = ticked[k]
      /\ UNCHANGED <<start, period_ns>> /\ n \in Nat /\ w \in Nat
  <2>1. n \in Nat /\ w \in Nat
    BY Numbers DEF LoopInv
  <2> QED BY <2>1, BeginsEffect DEF BeginTick, WorstJitter
<1>2. \A k \in 2 .. n : Off(ticked', start', period_ns', k) = Off(ticked, start, period_ns, k)
  BY <1>1 DEF Off
<1>3. n > 0 => Off(ticked', start', period_ns', n + 1) = Jitter
  BY <1>1, JitterOf DEF Off
<1>4. n = 0 => Jitter = 0
  BY JitterOf
<1> HIDE DEF n, w
<1>5. Worst(w, ticked, start, period_ns)
  BY JitterForm DEF w
<1>6. Worst(Larger(w, Jitter), ticked', start', period_ns')
  <2>1. \A k \in 2 .. n : Off(ticked, start, period_ns, k) \in Nat
    BY OffIsNat DEF LoopInv, n
  <2>2. ASSUME NEW k \in 2 .. n + 1
        PROVE  Off(ticked', start', period_ns', k) <= Larger(w, Jitter)
    <3>1. CASE k = n + 1
      BY <1>1, <1>3, <2>2, <3>1 DEF Larger
    <3>2. CASE k # n + 1
      <4>1. k \in 2 .. n
        BY <1>1, <2>2, <3>2
      <4> QED BY <1>1, <1>2, <1>5, <2>1, <4>1 DEF Worst, Larger, n
    <3> QED BY <3>1, <3>2
  <2>3. \/ Larger(w, Jitter) = 0
        \/ \E k \in 2 .. n + 1 : Larger(w, Jitter) = Off(ticked', start', period_ns', k)
    <3>1. CASE Jitter >= w /\ n > 0
      <4>1. n + 1 \in 2 .. n + 1 /\ Larger(w, Jitter) = Jitter
        BY <1>1, <3>1 DEF Larger
      <4> QED BY <1>3, <3>1, <4>1
    <3>2. CASE ~ (Jitter >= w /\ n > 0)
      <4>1. Larger(w, Jitter) = w
        BY <1>1, <1>4, <3>2 DEF Larger
      <4>2. w = 0 \/ \E k \in 2 .. n : w = Off(ticked, start, period_ns, k)
        BY <1>5 DEF Worst, n
      <4> QED BY <1>1, <1>2, <4>1, <4>2
    <3> QED BY <3>1, <3>2
  <2> QED BY <1>1, <2>2, <2>3 DEF Worst
<1> QED BY <1>1, <1>6, JitterForm

LEMMA CountsJitter ==
  ASSUME ~ Rerun, LoopInv, LoopInv', JitterIsDistance, [Next]_vars
  PROVE  JitterIsDistance'
<1>0. TypeOK /\ TypeOK' /\ Len(ticked) \in Nat /\ DOMAIN ticked = 1 .. Len(ticked)
  BY DEF LoopInv, TypeOK
<1>1. CASE UNCHANGED <<ticked, stats, start, period_ns>>
  BY <1>1, JitterKept
<1>2. CASE ticked' = <<>> /\ stats'.jitter_max_ns = 0
  BY <1>2, JitterForm DEF Worst
<1>3. CASE BeginTick
  BY <1>3, BeginsJitter
<1>4. ASSUME NEW code \in TickCodes, EndTick(code) PROVE JitterIsDistance'
  <2>1. /\ Len(ticked') = Len(ticked) /\ stats'.jitter_max_ns = stats.jitter_max_ns
        /\ \A k \in 2 .. Len(ticked) : ticked'[k].began = ticked[k].began
    BY <1>0, <1>4, EndsEffect
  <2> QED BY <1>4, <2>1, JitterKept DEF EndTick
<1>5. CASE Account
  <2>1. /\ Len(ticked') = Len(ticked) /\ stats'.jitter_max_ns = stats.jitter_max_ns
        /\ \A k \in 2 .. Len(ticked) : ticked'[k].began = ticked[k].began
    BY <1>0, <1>5, AccountsEffect
  <2> QED BY <1>5, <2>1, JitterKept DEF Account, locals
<1> QED
  <2>1. ASSUME NEW p \in Periods, InitCycle(p)
        PROVE  \/ ticked' = <<>> /\ stats'.jitter_max_ns = 0
               \/ UNCHANGED <<ticked, stats, start, period_ns>>
    <3>1. CASE p = 0
      BY <2>1, <3>1 DEF InitCycle, struct, locals
    <3> QED BY <2>1, <3>1 DEF InitCycle, ZeroStats, Counters
  <2>2. ASSUME Enter
        PROVE  \/ ticked' = <<>> /\ stats'.jitter_max_ns = 0
               \/ UNCHANGED <<ticked, stats, start, period_ns>>
    <3>1. runs = 0 /\ stats' = stats
      BY <2>2, <1>0, CycleAssumption DEF Enter, TypeOK, struct
    <3>2. stats.jitter_max_ns = 0
      BY <3>1 DEF LoopInv, Settled, ZeroStats, Counters
    <3> QED BY <2>2, <3>1, <3>2 DEF Enter, struct
  <2>3. ASSUME TestStop \/ Remainder \/ Wake \/ Interrupt \/ Stop \/ Advance \/ UNCHANGED vars
        PROVE  UNCHANGED <<ticked, stats, start, period_ns>>
    BY <2>3 DEF TestStop, Remainder, Wake, Interrupt, Stop, Advance, vars, struct, locals
  <2> QED BY <1>1, <1>2, <1>3, <1>4, <1>5, <2>1, <2>2, <2>3 DEF Next, LoopStep

\* The reported worst jitter is the worst distance of a body's beginning from its slot.
THEOREM JitterSound == ASSUME ~ Rerun PROVE Spec => []JitterIsDistance
<1>1. Init => JitterIsDistance
  BY DEF Init, JitterIsDistance, ZeroStats, Counters
<1>2. LoopInv /\ LoopInv' /\ JitterIsDistance /\ [Next]_vars => JitterIsDistance'
  BY CountsJitter
<1> QED BY <1>1, <1>2, LoopInvariance, PTL DEF Spec
==============================================================================
