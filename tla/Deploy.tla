-------------------------------- MODULE Deploy --------------------------------
(***************************************************************************)
(* The on-target launcher, jx_deploy_run (runtime-c/src/deploy_posix.c),   *)
(* with the thread placement it asks of rt_posix.c. It is the composition  *)
(* of the runtime's parts: its arena is the one of module Arena, shared    *)
(* with the controller, and its control loop is the PeriodicLoop that      *)
(* module Cycle is shown to implement.                                     *)
(*                                                                         *)
(* The controller is a shared object written by someone else: its init and *)
(* each of its steps may use the arena and return any code.                *)
(***************************************************************************)
EXTENDS Integers, FiniteSets

CONSTANTS
  Platforms,     \* among "linux", "apple" and "baremetal" (neither of the two)
  Paths,         \* cfg->so_path, "NULL" or a path
  Cores,         \* cfg->core, negative for no pinning
  Priorities,    \* cfg->priority, negative for no raise
  Online,        \* _SC_NPROCESSORS_ONLN, -1 if sysconf cannot tell
  FifoPriorities,  \* sched_get_priority_min .. sched_get_priority_max (linux)
  StepCodes,     \* what jx_controller_step may return
  InitCodes,     \* what jx_controller_init may return
  Periods,       \* what jx_controller_period_ns may return
  CtxSize,       \* sizeof(jx_deploy_tick_ctx_t)
  CycleSize,     \* jx_cycle_struct_size()
  Bases, Capacities, Sizes, Aligns, Width, DefaultAlign, MaxSaved,  \* the arena's
  MaxOps,        \* bound: arena calls of one controller call
  MaxTicks,      \* bound: ticks of the loop
  MaxTime        \* bound: the clock

VARIABLES
  platform, cfg,                           \* where and how the launcher is started
  pc,                                      \* where jx_deploy_run is
  base, capacity, used, live, saved, call, \* its arena (module Arena)
  handle,                                  \* dlopen handle: "none", "open", "closed"
  tick_ctx, cycle,                         \* its two arena pointers
  clock, period, epoch, phase, begun, stop, owed, result,  \* its loop (PeriodicLoop)
  declared,                                \* the period the controller declared
  ops,                                     \* arena calls of the current controller call
  mine,                                    \* checkpoints saved in the current step
  cause,                                   \* history: what ended the run
  ret                                      \* what jx_deploy_run returned

arena == <<base, capacity, used, live, saved, call>>
loop  == <<clock, period, epoch, phase, begun, stop, owed, result>>
launch == <<platform, cfg>>
vars == <<launch, pc, arena, handle, tick_ctx, cycle, loop, declared, ops, mine, cause, ret>>

A == INSTANCE Arena
\* The arena is one of module Arena, the launcher's two requests are words, and
\* cores, priorities and codes are numbers.
ASSUME LauncherAssumption ==
  /\ A!WidthAssumption /\ A!RequestAssumption
  /\ {CtxSize, CycleSize} \subseteq A!Word
  /\ Cores \union Priorities \union StepCodes \union {Online} \subseteq Int

L == INSTANCE PeriodicLoop WITH TickCodes <- StepCodes

Null == 0

OK           == 0
ERR_CONFIG   == -1
ERR_RT_ARG   == -2
ERR_DLOPEN   == -3
ERR_DLSYM    == -4
ERR_INIT     == -5
ERR_PERIOD   == -6
ERR_CYCLE    == -7
ERR_UNSUPPORTED == -8

RT_OK == 0
RT_ERR_ARG == -1
RT_ERR_UNSUPPORTED == -2
RT_ERR_PRIVILEGE == -3
RT_ERR_SYSTEM == -4

(***************************************************************************)
(* rt_posix.c: the codes a placement call may return. Off Linux only a     *)
(* negative core is looked at.                                             *)
(***************************************************************************)

pin_to_core(core) ==
  IF core < 0 THEN {RT_ERR_ARG}
  ELSE IF platform # "linux" THEN {RT_ERR_UNSUPPORTED}
  ELSE IF Online > 0 /\ core >= Online THEN {RT_ERR_ARG}
  ELSE {RT_OK, RT_ERR_PRIVILEGE, RT_ERR_SYSTEM}

\* Deviation: only the upper end of the range is tested
set_realtime_priorityNoMin(priority) ==
  IF platform # "linux" THEN {RT_ERR_UNSUPPORTED}
  ELSE IF \A p \in FifoPriorities : priority > p THEN {RT_ERR_ARG}
  ELSE {RT_OK, RT_ERR_PRIVILEGE, RT_ERR_SYSTEM}

set_realtime_priority(priority) ==
  IF platform # "linux" THEN {RT_ERR_UNSUPPORTED}
  ELSE IF priority \notin FifoPriorities THEN {RT_ERR_ARG}
  ELSE {RT_OK, RT_ERR_PRIVILEGE, RT_ERR_SYSTEM}

(***************************************************************************)
(* Start.                                                                  *)
(***************************************************************************)

Init ==
  /\ platform \in Platforms
  /\ cfg \in [so_path : Paths, core : Cores, priority : Priorities,
              arena_base : Bases, arena_capacity : Capacities]
  /\ A!SlabExists(cfg.arena_base, cfg.arena_capacity)
  /\ pc = "config"
  /\ A!Init
  /\ handle = "none"
  /\ tick_ctx = Null /\ cycle = Null
  /\ L!Init
  /\ declared = 0 /\ ops = 0 /\ mine = {}
  /\ cause = "none"
  /\ ret = OK

\* Return, unloading the controller first when the code path does so.
Return(code, why, h) ==
  /\ pc' = "returned"
  /\ ret' = code
  /\ cause' = why
  /\ handle' = h

Goto(next) == pc' = next /\ UNCHANGED <<ret, cause, handle>>

\* Argument check and jx_arena_init over the caller's slab.
CheckConfig ==
  /\ pc = "config"
  /\ IF platform = "baremetal"
     THEN Return(ERR_UNSUPPORTED, "platform", handle) /\ UNCHANGED arena
     ELSE IF cfg.so_path = "NULL" \/ cfg.arena_base = Null \/ cfg.arena_capacity = 0
     THEN Return(ERR_CONFIG, "config", handle) /\ UNCHANGED arena
     ELSE A!InitArena(cfg.arena_base, cfg.arena_capacity) /\ Goto("pin")
  /\ UNCHANGED <<launch, tick_ctx, cycle, loop, declared, ops, mine>>

\* jx_deploy_place_thread, the two halves: only a bad argument is fatal.
Pin ==
  /\ pc = "pin"
  /\ \/ cfg.core < 0 /\ Goto("raise")
     \/ /\ cfg.core >= 0
        /\ \E rc \in pin_to_core(cfg.core) :
             IF rc = RT_ERR_ARG THEN Return(ERR_RT_ARG, "rt", handle) ELSE Goto("raise")
  /\ UNCHANGED <<launch, arena, tick_ctx, cycle, loop, declared, ops, mine>>

Raise ==
  /\ pc = "raise"
  /\ \/ cfg.priority < 0 /\ Goto("dlopen")
     \/ /\ cfg.priority >= 0
        /\ \E rc \in set_realtime_priority(cfg.priority) :
             IF rc = RT_ERR_ARG THEN Return(ERR_RT_ARG, "rt", handle) ELSE Goto("dlopen")
  /\ UNCHANGED <<launch, arena, tick_ctx, cycle, loop, declared, ops, mine>>

\* dlopen succeeds or not.
Load ==
  /\ pc = "dlopen"
  /\ \/ Return(ERR_DLOPEN, "dlopen", handle)
     \/ handle' = "open" /\ pc' = "dlsym" /\ UNCHANGED <<ret, cause>>
  /\ UNCHANGED <<launch, arena, tick_ctx, cycle, loop, declared, ops, mine>>

\* Deviation: the handle leaks when a symbol is missing
ResolveLeaking ==
  /\ pc = "dlsym"
  /\ \/ Return(ERR_DLSYM, "dlsym", handle)
     \/ Goto("init")
  /\ UNCHANGED <<launch, arena, tick_ctx, cycle, loop, declared, ops, mine>>

\* dlsym of the three symbols: one may be missing.
Resolve ==
  /\ pc = "dlsym"
  /\ \/ Return(ERR_DLSYM, "dlsym", "closed")
     \/ Goto("init")
  /\ UNCHANGED <<launch, arena, tick_ctx, cycle, loop, declared, ops, mine>>

(***************************************************************************)
(* The controller, as far as the launcher's state goes.                    *)
(***************************************************************************)

\* Inside jx_controller_init the arena is the controller's: it may allocate,
\* undo and start over.
InitOp ==
  /\ pc = "init"
  /\ ops < MaxOps
  /\ ops' = ops + 1
  /\ \/ \E size \in Sizes, align \in Aligns : A!AllocAligned(size, align)
     \/ A!Save
     \/ \E s \in saved : A!Restore(s)
     \/ A!Reset
  /\ UNCHANGED <<launch, pc, handle, tick_ctx, cycle, loop, declared, mine, cause, ret>>

\* jx_controller_init returns.
InitReturns ==
  /\ pc = "init"
  /\ ops' = 0
  /\ \E code \in InitCodes :
       IF code # 0 THEN Return(ERR_INIT, "init", "closed") ELSE Goto("period")
  /\ UNCHANGED <<launch, arena, tick_ctx, cycle, loop, declared, mine>>

\* jx_controller_period_ns.
AskPeriod ==
  /\ pc = "period"
  /\ \E p \in Periods :
       /\ declared' = p
       /\ IF p = 0 THEN Return(ERR_PERIOD, "period", "closed") ELSE Goto("alloc ctx")
  /\ UNCHANGED <<launch, arena, tick_ctx, cycle, loop, ops, mine>>

(***************************************************************************)
(* The loop.                                                               *)
(***************************************************************************)

\* The tick context, then the scheduler struct, from what the controller's
\* init has left of the arena.
AllocCtx ==
  /\ pc = "alloc ctx"
  /\ A!Alloc(CtxSize)
  /\ tick_ctx' = call'.ret
  /\ Goto("alloc cycle")
  /\ UNCHANGED <<launch, cycle, loop, declared, ops, mine>>

\* Deviation: only the tick context is tested
AllocCycleUnchecked ==
  /\ pc = "alloc cycle"
  /\ A!Alloc(CycleSize)
  /\ cycle' = call'.ret
  /\ IF tick_ctx = Null THEN Return(ERR_CYCLE, "memory", "closed") ELSE Goto("cycle init")
  /\ UNCHANGED <<launch, tick_ctx, loop, declared, ops, mine>>

AllocCycle ==
  /\ pc = "alloc cycle"
  /\ A!Alloc(CycleSize)
  /\ cycle' = call'.ret
  /\ IF tick_ctx = Null \/ cycle' = Null
     THEN Return(ERR_CYCLE, "memory", "closed")
     ELSE Goto("cycle init")
  /\ UNCHANGED <<launch, tick_ctx, loop, declared, ops, mine>>

\* jx_cycle_init, which here has nothing left to refuse.
InitCycle ==
  /\ pc = "cycle init"
  /\ L!Configure(declared)
  /\ Goto("run")
  /\ UNCHANGED <<launch, arena, tick_ctx, cycle, declared, ops, mine>>

\* jx_cycle_run is entered; nobody outside holds the scheduler's address, so
\* no jx_cycle_stop comes.
StartLoop ==
  /\ pc = "run"
  /\ L!Begin
  /\ Goto("loop")
  /\ UNCHANGED <<launch, arena, tick_ctx, cycle, declared, ops, mine>>

\* jx_deploy_tick calls jx_controller_step.
StepBegins ==
  /\ pc = "loop"
  /\ begun < MaxTicks
  /\ L!Fire
  /\ UNCHANGED <<launch, pc, arena, handle, tick_ctx, cycle, declared, ops, mine, cause, ret>>

\* A step may allocate, and undo what it did itself.
StepOp ==
  /\ pc = "loop" /\ phase = "body"
  /\ ops < MaxOps
  /\ ops' = ops + 1
  /\ \/ \E size \in Sizes, align \in Aligns : A!AllocAligned(size, align) /\ UNCHANGED mine
     \/ A!Save /\ mine' = mine \union (saved' \ saved)
     \/ \E s \in mine : A!Restore(s) /\ mine' = mine \intersect saved'
  /\ UNCHANGED <<launch, pc, handle, tick_ctx, cycle, loop, declared, cause, ret>>

StepReturns ==
  /\ pc = "loop"
  /\ \E code \in StepCodes :
       /\ L!Finish(code)
       /\ IF code # 0 THEN Goto("unload") ELSE Goto("loop")
  /\ ops' = 0 /\ mine' = {}
  /\ UNCHANGED <<launch, arena, tick_ctx, cycle, declared>>

\* Deviation: any non-zero code of the loop is taken for a fault
RunResultAnyCode(rc) == IF rc # 0 THEN ERR_CYCLE ELSE OK

\* (run_rc < 0) ? JX_DEPLOY_ERR_CYCLE : JX_DEPLOY_OK
RunResult(rc) == IF rc < 0 THEN ERR_CYCLE ELSE OK

\* dlclose and return.
Unload ==
  /\ pc = "unload"
  /\ Return(RunResult(result), "step", "closed")
  /\ UNCHANGED <<launch, arena, tick_ctx, cycle, loop, declared, ops, mine>>

Tick ==
  /\ pc = "loop"
  /\ clock < MaxTime
  /\ clock' = clock + 1
  /\ UNCHANGED <<launch, pc, arena, handle, tick_ctx, cycle, period, epoch, phase, begun, stop,
                 owed, result, declared, ops, mine, cause, ret>>

Next ==
  \/ CheckConfig \/ Pin \/ Raise \/ Load \/ Resolve
  \/ InitOp \/ InitReturns \/ AskPeriod
  \/ AllocCtx \/ AllocCycle \/ InitCycle \/ StartLoop
  \/ StepBegins \/ StepOp \/ StepReturns \/ Unload
  \/ Tick

Spec == Init /\ [][Next]_vars


(***************************************************************************)
(* Properties.                                                             *)
(***************************************************************************)

\* On every path out of jx_deploy_run, also the five that fail after the
\* controller was loaded, the shared object is unloaded; and none of its code
\* is entered while it is not loaded.
LoadedWhileUsed ==
  /\ pc = "returned" => handle # "open"
  /\ pc \in {"init", "period"} \/ phase = "body" => handle = "open"

\* While the loop runs, its scheduler struct and tick context are two live
\* blocks of the arena, inside the slab and disjoint from everything the
\* controller allocates in init and in its steps.
SchedulerIntact ==
  pc \in {"cycle init", "run", "loop"} =>
    \E t, c \in live :
      /\ t.addr = tick_ctx /\ t.size = CtxSize
      /\ c.addr = cycle /\ c.size = CycleSize
      /\ t # c
      /\ A!BlocksInSlab
      /\ \A b \in live, own \in {t, c} :
           b # own => A!End(b) <= own.addr \/ A!End(own) <= b.addr

\* deploy.h: the run yields JX_DEPLOY_OK exactly when the controller's step
\* ended it ("a non-zero return is always a ... setup failure").
CleanStopIsOk == pc = "returned" => (ret = OK <=> cause = "step")

BadCore == cfg.core >= 0 /\ Online > 0 /\ cfg.core >= Online
BadPriority == cfg.priority >= 0 /\ cfg.priority \notin FifoPriorities

\* deploy.h, on Linux: a bad core or priority is fatal before any controller
\* code is loaded, and nothing else about the placement is: a denied privilege
\* or a failing system call leaves the loop to run.
PlacementVerdict ==
  /\ platform = "linux" /\ handle # "none" => ~ BadCore /\ ~ BadPriority
  /\ ret = ERR_RT_ARG => BadCore \/ BadPriority
==============================================================================
