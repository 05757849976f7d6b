------------------------------ MODULE MCAttempt ------------------------------
(***************************************************************************)
(* What an attempt on the device leaves behind: the command line and its   *)
(* output file (CommandLine), the run of a rewritten pipeline              *)
(* (ResidentContext), or the translation of a file (TranslationLanes).  A  *)
(* behaviour is that of the one chosen in its first state, while the       *)
(* others rest.                                                            *)
(***************************************************************************)
EXTENDS CommandLine, ResidentContext, TranslationLanes

CONSTANTS
    MaxFilters,     \* the filters of a pipeline
    RunsTried       \* "all", or "twoPredicates"

VARIABLE attempt

attemptVars ==
    <<attempt, sinkVars, commandVars, runVars, translationVars>>

ASSUME AttemptAssumption ==
    /\ CommandAssumption /\ ProgramAssumption
    /\ RunsAssumption
    /\ TranslationsAssumption /\ CarriedAssumption

MCCommands ==
    {CommandOf(executor, cuda, filtersPoints) :
        executor \in {"writer", "direct", "late"}, cuda \in BOOLEAN,
        filtersPoints \in BOOLEAN}
    \cup {CommandOf("translate", cuda, FALSE) : cuda \in BOOLEAN}

Stage(role, executor, predicate, remakes) ==
    [role |-> role, native |-> TRUE, device |-> executor # "none",
     grid |-> executor \in {"smrf", "pmf"}, predicate |-> predicate,
     inputs |-> {}, reads |-> {}, writes |-> {},
     executor |-> executor, remakes |-> remakes, region |-> None]

Filters ==
    {Stage("filter", executor, FALSE, FALSE) : executor \in Executors}
    \cup {Stage("filter", executor, TRUE, FALSE) : executor \in {"none", "point"}}
    \cup {Stage("filter", "none", FALSE, TRUE)}

ChainOf(filters) ==
    Planned([i \in 1 .. Len(filters) + 2 |->
        [(CASE i = 1 -> Stage("reader", "none", FALSE, FALSE)
            [] i = Len(filters) + 2 -> Stage("writer", "none", FALSE, FALSE)
            [] OTHER -> filters[i - 1])
         EXCEPT !.inputs = IF i = 1 THEN {} ELSE {i - 1}]])

Regions(p) == {p[i].region : i \in Stages(p)} \ {None}

\* Four filters are enough for a bridge between two producers and a host stage
\* between two regions; of the longest chains only some are needed.
Chains ==
    {ChainOf(filters) :
        filters \in UNION {[1 .. n -> Filters] : n \in 1 .. MaxFilters - 1}}
    \cup
    {ChainOf(filters) :
        filters \in [1 .. MaxFilters ->
            {f \in Filters : f.executor \in {"point", "neighbors"} /\ ~f.predicate}]}

\* Every chain, with any of its regions selected.
AllRuns == UNION {{RunOf(p, sel) : sel \in SUBSET Regions(p)} : p \in Chains}

\* Two predicates, both on the device, with a stage of the host between them.
TwoPredicates ==
    LET predicate == Stage("filter", "point", TRUE, FALSE)
        p == ChainOf(<<predicate, Stage("filter", "none", FALSE, TRUE), predicate>>)
    IN  {RunOf(p, Regions(p))}

MCRuns == IF RunsTried = "all" THEN AllRuns ELSE TwoPredicates

\* Two or three lanes, all of them reused, and a chunk of which nothing is left.
MCTranslations ==
    LET Some == Predicated({1, 2, 5})
        TwoOfThree == Decimation(15, 1, Unlimited)
    IN  {TranslationOf(FALSE, <<>>, "streaming", 5, 2, 2),
         TranslationOf(FALSE, <<>>, "streaming", 4, 1, 3),
         TranslationOf(FALSE, <<>>, "streaming", 0, 1, 3),
         TranslationOf(TRUE, <<>>, "streaming", 5, 2, 2),
         TranslationOf(TRUE, <<Some>>, "streaming", 5, 1, 3),
         TranslationOf(TRUE, <<Predicated({}), Some>>, "streaming", 3, 1, 2),
         TranslationOf(TRUE, <<TwoOfThree, Some>>, "streaming", 7, 2, 2),
         TranslationOf(TRUE, <<TwoOfThree, EndOfInput("tail", 2, FALSE)>>,
                       "standard", 7, 3, 2)}

Init ==
    \/ /\ attempt = "command"
       /\ CommandInit
       /\ RunIdle
       /\ TranslationIdle
    \/ /\ attempt = "run"
       /\ RunInit
       /\ CommandIdle
       /\ TranslationIdle
    \/ /\ attempt = "translation"
       /\ TranslationInit
       /\ CommandIdle
       /\ RunIdle

Of(a) ==
    /\ attempt = a
    /\ UNCHANGED attempt
    /\ a # "command" => UNCHANGED <<sinkVars, commandVars>>
    /\ a # "run" => UNCHANGED runVars
    /\ a # "translation" => UNCHANGED translationVars

Next ==
    \/ Of("command") /\ OtherCreates
    \/ Of("command") /\ StrayTemporary
    \/ Of("command") /\ ResidentDeclines
    \/ Of("command") /\ ResidentAccepts
    \/ Of("command") /\ ResidentThrows
    \/ Of("command") /\ ResidentWrites
    \/ Of("command") /\ ResidentInspects
    \/ Of("command") /\ Validate
    \/ Of("command") /\ NativeDeclines
    \/ Of("command") /\ NativeMaps
    \/ Of("command") /\ NativeAccepts
    \/ Of("command") /\ TranslatesOnDevice
    \/ Of("command") /\ OpenSink
    \/ Of("command") /\ Sunk
    \/ Of("command") /\ DeviceFailed
    \/ Of("command") /\ ChoosesHost
    \/ Of("command") /\ CreateTemporary
    \/ Of("command") /\ FillTemporary
    \/ Of("command") /\ Link
    \/ Of("command") /\ Unlink
    \/ Of("command") /\ Caught
    \/ Of("command") /\ HybridDeclines
    \/ Of("command") /\ WriterRuns
    \/ Of("command") /\ OracleMissing
    \/ Of("command") /\ Exited
    \/ Of("command") /\ Sinking /\ NextWrite
    \/ Of("command") /\ Sinking /\ Translated
    \/ Of("command") /\ Sinking /\ WaitForBuffer
    \/ Of("command") /\ Sinking /\ TakeBuffer
    \/ Of("command") /\ Sinking /\ QueueBlock
    \/ Of("command") /\ Sinking /\ CopyFails
    \/ Of("command") /\ Sinking /\ NotifyWriter
    \/ Of("command") /\ Sinking /\ StopWorker
    \/ Of("command") /\ Sinking /\ NotifyStop
    \/ Of("command") /\ Sinking /\ SinkCloses
    \/ Of("command") /\ Sinking /\ CloseFails
    \/ Of("command") /\ Sinking /\ CheckPending
    \/ Of("command") /\ Sinking /\ WriteDirect
    \/ Of("command") /\ Sinking /\ WriteFails
    \/ Of("command") /\ Sinking /\ Recycle
    \/ Of("command") /\ Sinking /\ NotifyFree
    \/ Of("command") /\ Sinking /\ SpuriousWakeup
    \/ Of("run") /\ Rewrite
    \/ Of("run") /\ Accept
    \/ Of("run") /\ Reject
    \/ Of("run") /\ Upload
    \/ Of("run") /\ Spill
    \/ Of("run") /\ Tiled
    \/ Of("run") /\ Wrapper
    \/ Of("run") /\ Bridge
    \/ Of("run") /\ HostItem
    \/ Of("run") /\ ItemFails
    \/ Of("run") /\ RunEnded
    \/ Of("translation") /\ FinishLane
    \/ Of("translation") /\ FillLane
    \/ Of("translation") /\ Operate
    \/ Of("translation") /\ QueueResults
    \/ Of("translation") /\ FinishPending
    \/ Of("translation") /\ WriteHeader
    \/ Of("translation") /\ QueueFails
    \/ Of("translation") /\ TranslationFails
    \/ Of("translation") /\ DestroyLane
    \/ Of("translation") /\ TranslationReturns
    \/ Of("translation") /\ TranslationOver
    \/ Of("translation") /\ DeviceWorks

Fairness ==
    /\ WF_attemptVars(Of("command") /\ CommandStep)
    /\ WF_attemptVars(Of("command") /\ Sinking /\ SinkCallerStep)
    /\ WF_attemptVars(Of("command") /\ Sinking /\ SinkWorkerStep)
    /\ WF_attemptVars(Of("run") /\ RunStep)
    /\ WF_attemptVars(Of("translation") /\ TranslationCallerStep)
    /\ WF_attemptVars(Of("translation") /\ DeviceWorks)

Spec == Init /\ [][Next]_attemptVars /\ Fairness

-----------------------------------------------------------------------------
\* The state of the command, of the run and of the translation has its type.
AttemptTypeOK ==
    CASE attempt = "command" -> CommandTypeOK
      [] attempt = "run" -> RunTypeOK
      [] attempt = "translation" -> TranslationTypeOK

\* TranslationRight: the records of a translated file are in place and counted
\* once, and no buffer of a lane changes or goes while the device may use it.
TranslationRight == TranslatedWhole /\ BuffersIntact

Going ==
    CASE attempt = "command" -> status = Running
      [] attempt = "run" -> runner \notin {"done", "failed"}
      [] attempt = "translation" -> caller \notin {"returned", "threw"}

\* AttemptReturns: a command ends, whether its sink fails, waits for a buffer
\* or for a write, or its region is handed back; so does a run, and so does a
\* translation, whatever of it fails.
AttemptReturns == Going ~> ~Going
=============================================================================
