----------------------------- MODULE DeployProofs -----------------------------
(***************************************************************************)
(* The launcher's safety for every slab, controller, placement and period: *)
(* the controller is loaded while it is used, the scheduler's memory is    *)
(* its own as long as the loop runs, and the verdict tells what happened.  *)
(* What the arena does in each call is taken from ArenaProofs.             *)
(***************************************************************************)
EXTENDS Deploy, TLAPS

AP == INSTANCE ArenaProofs

(***************************************************************************)
(* The launcher's arena is the one ArenaProofs is about.                   *)
(***************************************************************************)

LEMMA SameWords == A!Word = AP!Word /\ A!Null = AP!Null /\ A!Modulus = AP!Modulus
BY DEF A!Word, AP!Word, A!Modulus, AP!Modulus, A!Null, AP!Null

LEMMA ArenaAssumptions == AP!WidthAssumption /\ AP!RequestAssumption
BY LauncherAssumption DEF A!WidthAssumption, AP!WidthAssumption, A!RequestAssumption,
  AP!RequestAssumption, A!Word, AP!Word, A!Modulus, AP!Modulus

LEMMA SameAlloc ==
  ASSUME NEW size, NEW align, A!AllocAligned(size, align)
  PROVE  AP!AllocAligned(size, align)
BY Zenon DEF A!AllocAligned, AP!AllocAligned, A!Report, AP!Report, A!Exhausted, AP!Exhausted,
  A!is_power_of_two, AP!is_power_of_two, A!AlignedUsed, AP!AlignedUsed, A!align_up, AP!align_up,
  A!Modulus, AP!Modulus, A!Null, AP!Null

LEMMA SameReset == ASSUME A!Reset PROVE AP!Reset
BY Zenon DEF A!Reset, AP!Reset, A!Report, AP!Report, A!Null, AP!Null

LEMMA SameSave == ASSUME A!Save PROVE AP!Save
BY DEF A!Save, AP!Save, A!Report, AP!Report, A!Null, AP!Null, A!Cardinality, AP!Cardinality

LEMMA SameRestore == ASSUME NEW s, A!Restore(s) PROVE AP!Restore(s)
BY Zenon DEF A!Restore, AP!Restore, A!Report, AP!Report, A!Null, AP!Null

LEMMA SameInitArena == ASSUME NEW b, NEW c, A!InitArena(b, c) PROVE AP!InitArena(b, c)
BY Zenon DEF A!InitArena, AP!InitArena, A!Report, AP!Report, A!SlabExists, AP!SlabExists,
  A!Modulus, AP!Modulus, A!Null, AP!Null

LEMMA SameInit == ASSUME A!Init PROVE AP!Init
BY Zenon DEF A!Init, AP!Init, A!Null, AP!Null

(***************************************************************************)
(* The inductive invariant.                                                *)
(***************************************************************************)
Before == {"config", "pin", "raise", "dlopen"}
Setup  == {"dlsym", "init", "period", "alloc ctx", "alloc cycle"}
Looping == {"cycle init", "run", "loop"}

Places ==
  /\ pc \in Before \union Setup \union Looping \union {"unload", "returned"}
  /\ pc \in Before => handle = "none"
  /\ pc \in Setup \union Looping \union {"unload"} => handle = "open"
  /\ pc = "returned" => handle \in {"none", "closed"}
  /\ pc # "loop" => phase = "stopped" /\ mine = {}

Ends ==
  /\ pc = "unload" => result \in StepCodes \ {0}
  /\ pc # "returned" => ret = OK
  /\ pc = "returned" =>
       IF cause = "step" THEN StepCodes \subseteq Nat => ret = OK ELSE ret # OK

Verdict ==
  /\ cfg.core \in Cores /\ cfg.priority \in Priorities
  /\ cfg.arena_base \in Bases /\ cfg.arena_capacity \in Capacities
  /\ A!SlabExists(cfg.arena_base, cfg.arena_capacity)
  /\ platform = "linux" /\ pc \notin {"config", "pin", "returned"} => ~ BadCore
  /\ platform = "linux" /\ (pc \notin {"config", "pin", "raise", "returned"} \/ handle # "none") =>
       ~ BadCore /\ ~ BadPriority
  /\ ret = ERR_RT_ARG => BadCore \/ BadPriority

\* The scheduler's two blocks are among the blocks given.
Holds(blocks) ==
  \E t, c \in blocks :
    t.addr = tick_ctx /\ t.size = CtxSize /\ c.addr = cycle /\ c.size = CycleSize /\ t # c

Memory ==
  /\ pc = "alloc cycle" =>
       tick_ctx = Null \/ \E t \in live : t.addr = tick_ctx /\ t.size = CtxSize
  /\ pc \in Looping => Holds(live)
  /\ mine \subseteq saved
  /\ \A s \in mine : Holds(s.kept)

Control == Places /\ Ends /\ Verdict

DeployInv == AP!IInv /\ Control /\ Memory

LEMMA DeployInit == Init => DeployInv
<1> SUFFICES ASSUME Init PROVE DeployInv
  OBVIOUS
<1>1. AP!IInv
  BY SameInit, ArenaAssumptions, AP!InitIInv DEF Init
<1>2. Places /\ Verdict /\ Memory /\ Ends
  BY DEF Init, L!Init, Places, Verdict, Memory, Ends, Before, Setup, Looping, OK, ERR_RT_ARG
<1> QED BY <1>1, <1>2 DEF DeployInv, Control

(***************************************************************************)
(* Control: where the launcher is, what it has loaded, how it ends.        *)
(***************************************************************************)
LEMMA CodesDiffer ==
  /\ OK \notin {ERR_CONFIG, ERR_RT_ARG, ERR_DLOPEN, ERR_DLSYM, ERR_INIT, ERR_PERIOD, ERR_CYCLE,
                ERR_UNSUPPORTED}
  /\ ERR_RT_ARG \notin {OK, ERR_CONFIG, ERR_DLOPEN, ERR_DLSYM, ERR_INIT, ERR_PERIOD, ERR_CYCLE,
                        ERR_UNSUPPORTED}
  /\ RT_ERR_ARG \notin {RT_OK, RT_ERR_UNSUPPORTED, RT_ERR_PRIVILEGE, RT_ERR_SYSTEM}
BY SMT DEF OK, ERR_CONFIG, ERR_RT_ARG, ERR_DLOPEN, ERR_DLSYM, ERR_INIT, ERR_PERIOD, ERR_CYCLE,
  ERR_UNSUPPORTED, RT_OK, RT_ERR_ARG, RT_ERR_UNSUPPORTED, RT_ERR_PRIVILEGE, RT_ERR_SYSTEM

LEMMA ControlKept ==
  ASSUME Control, [Next]_vars
  PROVE  Control'
<1> USE CodesDiffer DEF Control, Places, Ends, Verdict, Before, Setup, Looping, Goto, Return,
    launch, loop, BadCore, BadPriority
<1>1. CASE CheckConfig
  <2>1. Places'
    BY <1>1 DEF CheckConfig
  <2>2. Ends'
    BY <1>1 DEF CheckConfig
  <2>3. Verdict'
    BY <1>1 DEF CheckConfig
  <2> QED BY <2>1, <2>2, <2>3
<1>2. CASE Pin
  <2>1. Places'
    BY <1>2, LauncherAssumption DEF Pin, pin_to_core
  <2>2. Ends'
    BY <1>2, LauncherAssumption DEF Pin, pin_to_core
  <2>3. Verdict'
    BY <1>2, LauncherAssumption DEF Pin, pin_to_core
  <2> QED BY <2>1, <2>2, <2>3
<1>3. CASE Raise
  <2>1. Places'
    BY <1>3, LauncherAssumption DEF Raise, set_realtime_priority
  <2>2. Ends'
    BY <1>3, LauncherAssumption DEF Raise, set_realtime_priority
  <2>3. Verdict'
    BY <1>3, LauncherAssumption DEF Raise, set_realtime_priority
  <2> QED BY <2>1, <2>2, <2>3
<1>4. CASE Load
  <2>1. Places'
    BY <1>4 DEF Load
  <2>2. Ends'
    BY <1>4 DEF Load
  <2>3. Verdict'
    BY <1>4 DEF Load
  <2> QED BY <2>1, <2>2, <2>3
<1>5. CASE Resolve
  <2>1. Places'
    BY <1>5 DEF Resolve
  <2>2. Ends'
    BY <1>5 DEF Resolve
  <2>3. Verdict'
    BY <1>5 DEF Resolve
  <2> QED BY <2>1, <2>2, <2>3
<1>6. CASE InitOp
  BY <1>6 DEF InitOp
<1>7. CASE InitReturns
  <2>1. /\ pc \in Setup /\ UNCHANGED <<platform, cfg, phase, result, mine>>
        /\ \/ pc' = "returned" /\ ret' = ERR_INIT /\ cause' = "init" /\ handle' = "closed"
           \/ pc' = "period" /\ UNCHANGED <<ret, cause, handle>>
    BY <1>7 DEF InitReturns
  <2>2. Places'
    BY <2>1
  <2>3. Ends'
    BY <2>1
  <2>4. Verdict'
    BY <2>1
  <2> QED BY <2>2, <2>3, <2>4
<1>8. CASE AskPeriod
  <2>1. /\ pc \in Setup /\ UNCHANGED <<platform, cfg, phase, result, mine>>
        /\ \/ pc' = "returned" /\ ret' = ERR_PERIOD /\ cause' = "period" /\ handle' = "closed"
           \/ pc' = "alloc ctx" /\ UNCHANGED <<ret, cause, handle>>
    BY <1>8 DEF AskPeriod
  <2>2. Places'
    BY <2>1
  <2>3. Ends'
    BY <2>1
  <2>4. Verdict'
    BY <2>1
  <2> QED BY <2>2, <2>3, <2>4
<1>9. CASE AllocCtx
  BY <1>9 DEF AllocCtx
<1>10. CASE AllocCycle
  <2>1. /\ pc \in Setup /\ UNCHANGED <<platform, cfg, phase, result, mine>>
        /\ \/ pc' = "returned" /\ ret' = ERR_CYCLE /\ cause' = "memory" /\ handle' = "closed"
           \/ pc' = "cycle init" /\ UNCHANGED <<ret, cause, handle>>
    BY <1>10 DEF AllocCycle
  <2>2. Places'
    BY <2>1
  <2>3. Ends'
    BY <2>1
  <2>4. Verdict'
    BY <2>1
  <2> QED BY <2>2, <2>3, <2>4
<1>11. CASE InitCycle
  BY <1>11 DEF InitCycle, L!Configure
<1>12. CASE StartLoop
  BY <1>12 DEF StartLoop, L!Begin
<1>13. CASE StepBegins
  BY <1>13 DEF StepBegins, L!Fire
<1>14. CASE StepOp
  BY <1>14 DEF StepOp
<1>15. CASE StepReturns
  BY <1>15 DEF StepReturns, L!Finish
<1>16. CASE Unload
  <2>1. result \in StepCodes \ {0} /\ StepCodes \subseteq Int
    BY <1>16, LauncherAssumption DEF Unload
  <2> QED BY <1>16, <2>1 DEF Unload, RunResult, OK
<1>17. CASE Tick \/ UNCHANGED vars
  BY <1>17 DEF Tick, vars
<1> QED BY <1>1, <1>2, <1>3, <1>4, <1>5, <1>6, <1>7, <1>8, <1>9, <1>10, <1>11, <1>12, <1>13,
    <1>14, <1>15, <1>16, <1>17 DEF Next

(***************************************************************************)
(* The arena under the launcher's steps.                                   *)
(***************************************************************************)

\* An allocation hands out nothing, or a block that was not handed out before.
LEMMA AllocGives ==
  ASSUME AP!IInv, NEW size \in AP!Word, NEW align \in AP!Word, A!AllocAligned(size, align)
  PROVE  /\ AP!IInv'
         /\ live \subseteq live' /\ saved' = saved
         /\ call'.ret = Null \/ \E b \in live' \ live : b.addr = call'.ret /\ b.size = size
<1>1. AP!AllocAligned(size, align)
  BY SameAlloc
<1>2. AP!IInv'
  BY <1>1, ArenaAssumptions, AP!AllocIInv
<1>3. CASE size = 0 \/ ~ AP!is_power_of_two(align) \/ AP!Exhausted(size, align)
  BY <1>1, <1>2, <1>3 DEF AP!AllocAligned, AP!Report, AP!Null, Null
<1>4. CASE ~ (size = 0 \/ ~ AP!is_power_of_two(align) \/ AP!Exhausted(size, align))
  <2>1. PICK addr \in AP!Word \ {0} :
          /\ base + used <= addr
          /\ live' = live \union {[addr |-> addr, size |-> size, align |-> align]}
          /\ call' = [op |-> "alloc", size |-> size, align |-> align, ret |-> addr]
          /\ UNCHANGED saved
    BY <1>1, <1>4, ArenaAssumptions, AP!AllocEffect
  <2> DEFINE new == [addr |-> addr, size |-> size, align |-> align]
  <2>2. new.addr = addr /\ new.size = size /\ call'.ret = addr
    BY <2>1
  <2>3. new \notin live
    <3>1. /\ base \in Nat /\ used \in Nat /\ addr \in Nat /\ size \in Nat /\ size > 0
      BY <1>4, <2>1, ArenaAssumptions, SMT
         DEF AP!IInv, AP!TypeOK, AP!Word, AP!WidthAssumption
    <3>2. \A b \in live : b.addr + b.size <= base + used
      BY DEF AP!IInv, AP!BlocksInSlab, AP!End
    <3>3. addr + size > base + used
      BY <2>1, <3>1, SMT
    <3> QED BY <2>2, <3>1, <3>2, <3>3
  <2> HIDE DEF new
  <2>4. live' = live \union {new}
    BY <2>1 DEF new
  <2> QED BY <1>2, <2>1, <2>2, <2>3, <2>4
<1> QED BY <1>3, <1>4

LEMMA ArenaKept ==
  ASSUME DeployInv, [Next]_vars
  PROVE  AP!IInv'
<1>0. AP!IInv /\ Control /\ mine \subseteq saved
  BY DEF DeployInv, Memory
<1>1. ASSUME UNCHANGED arena PROVE AP!IInv'
  BY <1>0, <1>1, ArenaAssumptions, AP!StutterIInv DEF arena, AP!vars
<1>2. CASE CheckConfig
  <2>1. ASSUME A!InitArena(cfg.arena_base, cfg.arena_capacity) PROVE AP!IInv'
    <3>1. cfg.arena_base \in AP!Word /\ cfg.arena_capacity \in AP!Word
      BY <1>0, LauncherAssumption, SameWords DEF Control, Verdict, A!RequestAssumption
    <3> QED BY <1>0, <2>1, <3>1, SameInitArena, ArenaAssumptions, AP!InitArenaIInv
  <2> QED BY <1>1, <1>2, <2>1 DEF CheckConfig
<1>3. ASSUME NEW size \in Sizes, NEW align \in Aligns, A!AllocAligned(size, align) PROVE AP!IInv'
  BY <1>0, <1>3, AllocGives, LauncherAssumption, SameWords DEF A!RequestAssumption
<1>4. ASSUME A!Save PROVE AP!IInv'
  BY <1>0, <1>4, SameSave, ArenaAssumptions, AP!SaveIInv
<1>5. ASSUME NEW s \in saved, A!Restore(s) PROVE AP!IInv'
  BY <1>0, <1>5, SameRestore, ArenaAssumptions, AP!RestoreIInv
<1>6. ASSUME A!Reset PROVE AP!IInv'
  BY <1>0, <1>6, SameReset, ArenaAssumptions, AP!ResetIInv
<1>7. CASE InitOp
  BY <1>7, <1>3, <1>4, <1>5, <1>6 DEF InitOp
<1>8. CASE AllocCtx \/ AllocCycle
  BY <1>0, <1>8, AllocGives, LauncherAssumption, SameWords
     DEF AllocCtx, AllocCycle, A!Alloc, A!RequestAssumption
<1>9. CASE StepOp
  BY <1>0, <1>9, <1>3, <1>4, <1>5 DEF StepOp
<1>10. CASE ~ (CheckConfig \/ InitOp \/ AllocCtx \/ AllocCycle \/ StepOp)
  <2>1. UNCHANGED arena
    BY <1>10 DEF Next, Pin, Raise, Load, Resolve, InitReturns, AskPeriod, InitCycle, StartLoop,
       StepBegins, StepReturns, Unload, Tick, vars
  <2> QED BY <1>1, <2>1
<1> QED BY <1>2, <1>7, <1>8, <1>9, <1>10

\* The scheduler's memory stays its own: no step takes one of its blocks, and a
\* checkpoint that a step may write back keeps both.
LEMMA MemoryKept ==
  ASSUME DeployInv, [Next]_vars
  PROVE  Memory'
<1>0. AP!IInv /\ Control /\ Memory
  BY DEF DeployInv
<1> USE DEF Memory, Looping, Goto, Return
<1>1. CASE CheckConfig \/ Pin \/ Raise \/ Load \/ Resolve \/ InitOp \/ InitReturns \/ AskPeriod
  <2>1. pc' \notin Looping \union {"alloc cycle"} /\ mine' = {}
    BY <1>0, <1>1 DEF CheckConfig, Pin, Raise, Load, Resolve, InitOp, InitReturns, AskPeriod, Control, Places
  <2> QED BY <2>1
<1>2. CASE AllocCtx
  <2>1. CtxSize \in AP!Word /\ DefaultAlign \in AP!Word
    BY LauncherAssumption, SameWords DEF A!RequestAssumption
  <2>2. A!AllocAligned(CtxSize, DefaultAlign)
    BY <1>2 DEF AllocCtx, A!Alloc
  <2>3. call'.ret = Null \/ \E b \in live' : b.addr = call'.ret /\ b.size = CtxSize
    BY <1>0, <2>1, <2>2, AllocGives
  <2>4. tick_ctx' = call'.ret /\ pc' = "alloc cycle" /\ mine' = {}
    BY <1>0, <1>2 DEF AllocCtx, Control, Places
  <2> QED BY <2>3, <2>4
<1>3. CASE AllocCycle
  <2>1. CycleSize \in AP!Word /\ DefaultAlign \in AP!Word
    BY LauncherAssumption, SameWords DEF A!RequestAssumption
  <2>2. A!AllocAligned(CycleSize, DefaultAlign)
    BY <1>3 DEF AllocCycle, A!Alloc
  <2>3. /\ live \subseteq live'
        /\ call'.ret = Null \/ \E b \in live' \ live : b.addr = call'.ret /\ b.size = CycleSize
    BY <1>0, <2>1, <2>2, AllocGives
  <2>4. /\ pc = "alloc cycle" /\ cycle' = call'.ret /\ tick_ctx' = tick_ctx /\ mine' = {}
        /\ pc' = "returned" \/ (pc' = "cycle init" /\ tick_ctx # Null /\ call'.ret # Null)
    BY <1>0, <1>3 DEF AllocCycle, Control, Places
  <2>5. pc' = "cycle init" => Holds(live)'
    BY <1>0, <2>3, <2>4 DEF Holds
  <2> QED BY <2>4, <2>5
<1>4. CASE InitCycle \/ StartLoop \/ StepBegins \/ Tick \/ UNCHANGED vars
  <2>1. /\ UNCHANGED <<live, saved, tick_ctx, cycle, mine>>
        /\ pc' = pc \/ (pc \in Looping /\ pc' \in Looping)
    BY <1>4 DEF InitCycle, StartLoop, StepBegins, Tick, arena, vars
  <2> QED BY <1>0, <2>1 DEF Holds
<1>5. CASE StepReturns
  <2>1. /\ UNCHANGED <<live, saved, tick_ctx, cycle>> /\ mine' = {}
        /\ pc = "loop" /\ pc' \in {"loop", "unload"}
    BY <1>5 DEF StepReturns, arena
  <2> QED BY <1>0, <2>1 DEF Holds
<1>6. CASE Unload
  <2>1. pc' = "returned" /\ mine' = {}
    BY <1>0, <1>6 DEF Unload, Control, Places
  <2> QED BY <2>1
<1>7. CASE StepOp
  <2>1. pc = "loop" /\ pc' = "loop" /\ UNCHANGED <<tick_ctx, cycle>>
    BY <1>7 DEF StepOp
  <2>2. Holds(live) /\ mine \subseteq saved /\ \A s \in mine : Holds(s.kept)
    BY <1>0, <2>1
  <2>3. ASSUME NEW size \in Sizes, NEW align \in Aligns, A!AllocAligned(size, align), UNCHANGED mine
        PROVE  Memory'
    <3>1. live \subseteq live' /\ saved' = saved
      BY <1>0, <2>3, AllocGives, LauncherAssumption, SameWords DEF A!RequestAssumption
    <3> QED BY <2>1, <2>2, <2>3, <3>1 DEF Holds
  <2>4. ASSUME A!Save, mine' = mine \union (saved' \ saved) PROVE Memory'
    <3>1. live' = live /\ saved' = saved \union {[mark |-> used, kept |-> live]}
      BY <2>4 DEF A!Save
    <3>2. \A s \in mine' : s \in mine \/ s.kept = live
      BY <2>4, <3>1
    <3>3. \A s \in mine' : Holds(s.kept)'
      BY <2>1, <2>2, <3>2 DEF Holds
    <3> QED BY <2>1, <2>2, <2>4, <3>1, <3>3 DEF Holds
  <2>5. ASSUME NEW s \in mine, A!Restore(s), mine' = mine \intersect saved' PROVE Memory'
    <3>1. live' = s.kept
      BY <2>5 DEF A!Restore
    <3> QED BY <2>1, <2>2, <2>5, <3>1 DEF Holds
  <2> QED BY <1>7, <2>3, <2>4, <2>5 DEF StepOp
<1> QED BY <1>1, <1>2, <1>3, <1>4, <1>5, <1>6, <1>7 DEF Next

LEMMA DeployNext == DeployInv /\ [Next]_vars => DeployInv'
<1> SUFFICES ASSUME DeployInv, [Next]_vars PROVE DeployInv'
  OBVIOUS
<1>1. Control
  BY DEF DeployInv
<1> QED BY <1>1, ControlKept, ArenaKept, MemoryKept DEF DeployInv

LEMMA DeployInvariance == Spec => []DeployInv
BY DeployInit, DeployNext, PTL DEF Spec

(***************************************************************************)
(* The theorems.                                                           *)
(***************************************************************************)

\* The controller's code is entered only while it is loaded, and every way out of the
\* launcher, the failing ones too, has unloaded it.
THEOREM ControllerLoaded == Spec => []LoadedWhileUsed
<1>1. DeployInv => LoadedWhileUsed
  BY DEF DeployInv, Control, Places, LoadedWhileUsed, Before, Setup, Looping
<1> QED BY <1>1, DeployInvariance, PTL

\* For every slab, every controller and every sequence of its arena calls, the scheduler
\* and its tick context are disjoint from all the controller holds while the loop runs.
THEOREM SchedulerSafe == Spec => []SchedulerIntact
<1>1. DeployInv => SchedulerIntact
  <2> SUFFICES ASSUME DeployInv, pc \in {"cycle init", "run", "loop"}
               PROVE  \E t, c \in live :
                        /\ t.addr = tick_ctx /\ t.size = CtxSize
                        /\ c.addr = cycle /\ c.size = CycleSize
                        /\ t # c
                        /\ A!BlocksInSlab
                        /\ \A b \in live, own \in {t, c} :
                             b # own => A!End(b) <= own.addr \/ A!End(own) <= b.addr
    BY DEF SchedulerIntact
  <2>1. PICK t \in live, c \in live :
          t.addr = tick_ctx /\ t.size = CtxSize /\ c.addr = cycle /\ c.size = CycleSize /\ t # c
    BY DEF DeployInv, Memory, Looping, Holds
  <2>2. A!BlocksInSlab
    BY DEF DeployInv, AP!IInv, AP!BlocksInSlab, A!BlocksInSlab, AP!Available, A!Available,
       AP!Modulus, A!Modulus, AP!End, A!End
  <2>3. \A b, d \in live : b # d => A!End(b) <= d.addr \/ A!End(d) <= b.addr
    BY DEF DeployInv, AP!IInv, AP!BlocksDisjoint, AP!End, A!End
  <2>4. \A b \in live, own \in {t, c} :
          b # own => A!End(b) <= own.addr \/ A!End(own) <= b.addr
    BY <2>3
  <2> QED BY <2>1, <2>2, <2>4
<1> QED BY <1>1, DeployInvariance, PTL

\* A controller that never ends its step with a negative code leaves no doubt about the
\* launcher's verdict: OK exactly when the step ended the run.
THEOREM CleanStop == ASSUME StepCodes \subseteq Nat PROVE Spec => []CleanStopIsOk
<1>1. DeployInv => CleanStopIsOk
  BY DEF DeployInv, Control, Ends, CleanStopIsOk
<1> QED BY <1>1, DeployInvariance, PTL

\* A bad core or priority stops the launcher before controller code is loaded, and only
\* such a value is reported as one, for every core, priority and platform.
THEOREM PlacementSound == Spec => []PlacementVerdict
<1>1. DeployInv => PlacementVerdict
  BY DEF DeployInv, Control, Verdict, PlacementVerdict
<1> QED BY <1>1, DeployInvariance, PTL
==============================================================================
