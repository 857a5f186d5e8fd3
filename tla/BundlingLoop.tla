---------------------------- MODULE BundlingLoop ----------------------------
(***************************************************************************)
(* When bundling passes run (src/src/executor/executorManager.ts,          *)
(* autoScalingBundling): each pass schedules the next, later the more ops  *)
(* the last minute bundled, for as long as the mode is "auto".  The debug  *)
(* endpoint changes the mode.  What a pass does is Mempool's subject.      *)
(***************************************************************************)
EXTENDS Clock, FiniteSets, Sequences

CONSTANTS
  Loops,               \* chains of passes; only the debug endpoint starts a second
  MinBundleInterval, MaxBundleInterval, ScaleFactor,
  RpmWindow,           \* 60 s
  MaxOpsOfPass, MaxModeCalls, MaxLoopTime      \* bounds

ASSUME BundlingLoopAssumption ==
  /\ MinBundleInterval \in Nat /\ MaxBundleInterval \in Nat \ {0} /\ ScaleFactor \in Nat
  /\ RpmWindow \in Nat /\ MaxOpsOfPass \in Nat /\ MaxModeCalls \in Nat
  /\ MaxLoopTime \in Nat

VARIABLES
  bundlingMode,
  loop,         \* what each chain does: nothing, a pass, or waiting for a timer
  opsCount,     \* when the ops of the last passes were bundled
  modeCalls,    \* calls of setBundlingMode("manual"), and when each is answered
  modeChanges,  \* bound
  failed,       \* a pass threw: the process shuts down
  quiet         \* history: a call was answered and the mode has not changed since

loopVars == <<bundlingMode, loop, opsCount, modeCalls, modeChanges, failed, quiet>>

NoLoop == [doing |-> "none", due |-> 0]

Pass == [doing |-> "pass", due |-> 0]

\* With bundle mode "auto" the first pass starts with the executor manager.
LoopInit ==
  /\ clock = 0
  /\ bundlingMode \in {"auto", "manual"}
  /\ \E first \in Loops :
       loop = [l \in Loops |-> IF bundlingMode = "auto" /\ l = first THEN Pass ELSE NoLoop]
  /\ opsCount = <<>>
  /\ modeCalls = {} /\ modeChanges = 0
  /\ failed = FALSE /\ quiet = FALSE

\* The filter of the times within the window; they ascend, so it drops the first.
Recent(times) ==
  LET expired == { i \in DOMAIN times : clock - times[i] >= RpmWindow }
  IN SubSeq(times, Cardinality(expired) + 1, Len(times))

\* autoScalingBundling, to its first await.
BeginPass(l) ==
  /\ loop' = [loop EXCEPT ![l] = Pass]
  /\ opsCount' = Recent(opsCount)

\* scheduleNextTick's timer: it does not look at the mode.
NextTick(l) ==
  /\ ~failed
  /\ loop[l].doing = "waiting" /\ loop[l].due = clock
  /\ BeginPass(l)
  /\ UNCHANGED <<clock, bundlingMode, modeCalls, modeChanges, failed, quiet>>

\* Mutant: the interval grows without a limit.
NextIntervalUncapped(rpm) == MinBundleInterval + rpm * ScaleFactor

NextInterval(rpm) ==
  IF MinBundleInterval + rpm * ScaleFactor < MaxBundleInterval
  THEN MinBundleInterval + rpm * ScaleFactor ELSE MaxBundleInterval

\* The pass bundled n ops.
EndPass(l, n) ==
  /\ ~failed
  /\ loop[l].doing = "pass"
  /\ opsCount' = opsCount \o [i \in 1 .. n |-> clock]
  /\ loop' = [loop EXCEPT ![l] =
       IF bundlingMode = "auto"
       THEN [doing |-> "waiting", due |-> clock + NextInterval(Len(opsCount'))]
       ELSE NoLoop]
  /\ UNCHANGED <<clock, bundlingMode, modeCalls, modeChanges, failed, quiet>>

\* getBundles throws, and nothing catches it.
FailPass(l) ==
  /\ ~failed
  /\ loop[l].doing = "pass"
  /\ failed' = TRUE
  /\ UNCHANGED <<clock, bundlingMode, loop, opsCount, modeCalls, modeChanges, quiet>>

\* setBundlingMode("manual") waits for two intervals before it answers, ...
SetManual ==
  /\ ~failed
  /\ modeChanges < MaxModeCalls
  /\ modeChanges' = modeChanges + 1
  /\ bundlingMode' = "manual"
  /\ modeCalls' = modeCalls \cup {clock + 2 * MaxBundleInterval}
  /\ UNCHANGED <<clock, loop, opsCount, failed, quiet>>

AnswerManual(due) ==
  /\ ~failed
  /\ due \in modeCalls /\ due = clock
  /\ modeCalls' = modeCalls \ {due}
  /\ quiet' = TRUE
  /\ UNCHANGED <<clock, bundlingMode, loop, opsCount, modeChanges, failed>>

\* ... and setBundlingMode("auto") starts a chain, whether or not one goes on.
\* The calls under way are answered all the same, which is nothing to rely on.
SetAuto(l) ==
  /\ ~failed
  /\ modeChanges < MaxModeCalls
  /\ modeChanges' = modeChanges + 1
  /\ loop[l] = NoLoop
  /\ bundlingMode' = "auto"
  /\ BeginPass(l)
  /\ modeCalls' = {}
  /\ quiet' = FALSE
  /\ UNCHANGED <<clock, failed>>

LoopTick ==
  /\ ~failed
  /\ Advance(MaxLoopTime, FALSE, modeCalls \cup { loop[l].due : l \in { k \in Loops : loop[k].doing = "waiting" } })
  /\ UNCHANGED <<bundlingMode, loop, opsCount, modeCalls, modeChanges, failed, quiet>>

LoopNext ==
  \/ LoopTick \/ SetManual \/ \E due \in modeCalls : AnswerManual(due)
  \/ \E l \in Loops : \/ NextTick(l) \/ FailPass(l) \/ SetAuto(l)
                      \/ \E n \in 0 .. MaxOpsOfPass : EndPass(l, n)

LoopSpec == LoopInit /\ [][LoopNext]_<<clock, loopVars>>

-----------------------------------------------------------------------------

\* Once setBundlingMode("manual") is answered, no pass starts by itself, however
\* many ops were bundled and however long the passes took.
ManualIsQuiet ==
  [][ quiet => \A l \in Loops : loop[l].doing = "waiting" => loop'[l].doing # "pass" ]_loopVars
=============================================================================
