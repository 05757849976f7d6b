---------------------------- MODULE CommandLine ----------------------------
(***************************************************************************)
(* One run of the program (main in src/src/cli/main.cpp) on a pipeline     *)
(* file, or on a file to translate: the resident executor, the native one  *)
(* and the hybrid one are tried in turn, and PDAL runs what none of them   *)
(* takes.  Followed are the file at the output's path, the temporary files *)
(* the first two publish from, and who may still be asked.                 *)
(*                                                                         *)
(* Any executor may refuse a command for reasons of its own.  Another      *)
(* program may create the output, or a file of a temporary's name.  The    *)
(* environment variables that forbid a fallback are not set.               *)
(***************************************************************************)
EXTENDS PositionedOutput

CONSTANT CommandCases   \* the commands the program is given

VARIABLES
    command,    \* the command: see CommandOf
    route,      \* the executor that is asked
    step,       \* where it is
    status,     \* Running, or what the program returned
    committed,  \* the resident executor may not hand over any more
    output,     \* the file at the output's path: who wrote it, and if whole
    taken,      \* history: another program created the output
    temporary,  \* whose file has the name of each executor's temporary
    strays,     \* history: the temporary names another program took
    temporaryOwned,
    filled,     \* the temporary file has its contents
    stuck       \* history: a temporary file could not be removed

commandVars == <<command, route, step, status, committed, output, taken,
                 temporary, strays, temporaryOwned, filled, stuck>>

Publishers == {"resident", "native"}
Routes == Publishers \cup {"hybrid", "pdal"}

\* executor: the command is "translate", or it is a pipeline that the resident
\* executor runs to a "writer", or publishes "direct", or publishes "late":
\* only then it knows that its result is exact.  cuda: the native executor
\* tries the device.  filtersPoints: it can only do it there.
CommandOf(executor, cuda, filtersPoints) ==
    [executor |-> executor, cuda |-> cuda, filtersPoints |-> filtersPoints]

CommandAssumption ==
    /\ SinkAssumption
    /\ CommandCases \subseteq
          [executor : {"translate", "writer", "direct", "late"},
           cuda : BOOLEAN, filtersPoints : BOOLEAN]

Running == -1

File(by, whole) == [by |-> by, whole |-> whole]
NoFile == File("nobody", FALSE)

CommandInitAt(state) ==
    /\ SinkInitAt("absent")
    /\ step = state
    /\ status = Running
    /\ committed = FALSE
    /\ output = NoFile
    /\ taken = FALSE
    /\ temporary = [r \in Publishers |-> "nobody"]
    /\ strays = {}
    /\ temporaryOwned = FALSE
    /\ filled = FALSE
    /\ stuck = FALSE

CommandIdle ==
    /\ CommandInitAt("idle")
    /\ command = CommandOf("idle", FALSE, FALSE)
    /\ route = "pdal"

CommandInit ==
    /\ CommandInitAt("asked")
    /\ command \in CommandCases
    /\ route = IF command.executor = "translate" THEN "native" ELSE "resident"

At(r, s) == route = r /\ step = s /\ status = Running
Returns(code) == status' = code /\ UNCHANGED <<route, step>>
Goto(s) == step' = s /\ UNCHANGED <<route, status>>
Ask(r) == route' = r /\ step' = "asked" /\ UNCHANGED status

Files == <<output, taken, temporary, strays, temporaryOwned, filled, stuck>>

-----------------------------------------------------------------------------
(***************************************************************************)
(* Other programs.                                                         *)
(***************************************************************************)
OtherCreates ==
    /\ status = Running /\ step # "idle"
    /\ output = NoFile
    /\ output' = File("other", TRUE)
    /\ taken' = TRUE
    /\ UNCHANGED <<sinkVars, command, route, step, status, committed,
                   temporary, strays, temporaryOwned, filled, stuck>>

StrayTemporary ==
    /\ status = Running /\ step # "idle"
    /\ route \in Publishers
    /\ temporary[route] = "nobody"
    /\ temporary' = [temporary EXCEPT ![route] = "other"]
    /\ strays' = strays \cup {route}
    /\ UNCHANGED <<sinkVars, command, route, step, status, committed, output,
                   taken, temporaryOwned, filled, stuck>>

-----------------------------------------------------------------------------
(***************************************************************************)
(* The resident executor (runResidentPipelineImpl, asked by                *)
(* tryAutomaticResidentLasPipeline).                                       *)
(***************************************************************************)

\* The plan, the measured profile, the placement or the preflight does not
\* take the command, or throws.
ResidentDeclines ==
    /\ At("resident", "asked")
    /\ Ask("native")
    /\ UNCHANGED <<sinkVars, command, committed, Files>>

\* Fault: the executor commits when it has published, whatever it runs.
CommitsLate == FALSE

CommitsEarly == command.executor # "late"

\* The rewritten pipeline is read; from here on an error is the program's,
\* unless the result has yet to prove exact.
ResidentAccepts ==
    /\ At("resident", "asked")
    /\ committed' = CommitsEarly
    /\ Goto("executing")
    /\ UNCHANGED <<sinkVars, command, Files>>

\* An exception: the caught temporary is removed, if it is the route's own.
Throws == Goto("caught")

ResidentThrows ==
    /\ At("resident", "executing")
    /\ Throws
    /\ output' \in {output} \cup
          IF command.executor = "writer"
          THEN [by : {"resident"}, whole : BOOLEAN] ELSE {}
    /\ UNCHANGED <<sinkVars, command, committed, taken, temporary, strays,
                   temporaryOwned, filled, stuck>>

\* The writer of the pipeline may leave half a file and say nothing.
ResidentWrites ==
    /\ At("resident", "executing")
    /\ command.executor = "writer"
    /\ output' \in [by : {"resident"}, whole : BOOLEAN]
    /\ Goto("validating")
    /\ UNCHANGED <<sinkVars, command, committed, taken, temporary, strays,
                   temporaryOwned, filled, stuck>>

\* Nothing is there before the direct publication, or it throws.
ResidentInspects ==
    /\ At("resident", "executing")
    /\ command.executor # "writer"
    /\ IF output = NoFile /\ temporary[route] = "nobody"
       THEN Goto("creating") ELSE Throws
    /\ UNCHANGED <<sinkVars, command, committed, Files>>

\* Fault: the file is taken as it is.
AnyFile == TRUE

PublishedWhole == output.whole

\* validateAutomaticLasPublication, which reads the file that is there.
Validate ==
    /\ At("resident", "validating")
    /\ IF PublishedWhole THEN Returns(0) ELSE Throws
    /\ UNCHANGED <<sinkVars, command, committed, Files>>

-----------------------------------------------------------------------------
(***************************************************************************)
(* The native executor (tryNativePipeline and tryNativeTranslate).         *)
(***************************************************************************)
NativeDeclines ==
    /\ route = "native" /\ step \in {"asked", "mapped"} /\ status = Running
    /\ Ask("hybrid")
    /\ UNCHANGED <<sinkVars, command, committed, Files>>

NativeMaps ==
    /\ At("native", "asked")
    /\ output = NoFile
    /\ Goto("mapped")
    /\ UNCHANGED <<sinkVars, command, committed, Files>>

\* The program is within the envelope and the temporary's name is free.
NativeAccepts ==
    /\ At("native", "mapped")
    /\ temporary[route] = "nobody"
    /\ Goto(IF command.cuda THEN "opening" ELSE "choosing")
    /\ UNCHANGED <<sinkVars, command, committed, Files>>

\* translateDefaultCuda has the whole file in memory before any file is made,
\* and the host does it over when the device fails.
TranslatesOnDevice ==
    /\ At("native", "opening")
    /\ command.executor = "translate"
    /\ Goto("creating")
    /\ UNCHANGED <<sinkVars, command, committed, Files>>

\* Fault: the name counts as owned before the file is made.
OwnedBefore(free) == TRUE

OwnedIfMade(free) == free

\* The exclusive open, and the sink's thread.
OpenSink ==
    /\ At("native", "opening")
    /\ command.executor # "translate"
    /\ LET free == temporary[route] = "nobody"
       IN  /\ temporaryOwned' = OwnedIfMade(free)
           /\ IF free
              THEN /\ temporary' = [temporary EXCEPT ![route] = "ours"]
                   /\ SinkStarts
                   /\ Goto("sinking")
              ELSE Throws /\ UNCHANGED <<temporary, sinkVars>>
    /\ UNCHANGED <<command, committed, output, taken, strays, filled, stuck>>

SinkEnded == SinkClosed /\ sinkResult # "none" /\ worker \in {"absent", "gone"}

Sunk ==
    /\ At("native", "sinking")
    /\ SinkEnded
    /\ sinkResult \in {"written", "failed"}
    /\ IF sinkResult = "written"
       THEN Goto("linking") /\ filled' = (file = Whole)
       ELSE Throws /\ UNCHANGED filled
    /\ UNCHANGED <<sinkVars, command, committed, output, taken, temporary,
                   strays, temporaryOwned, stuck>>

\* The device failed: the file goes, and the host may have a try.
DeviceFailed ==
    /\ At("native", "sinking")
    /\ SinkEnded
    /\ sinkResult = "cudaError"
    /\ \/ /\ temporary' = [temporary EXCEPT ![route] = "nobody"]
          /\ temporaryOwned' = FALSE
          /\ Goto("choosing")
          /\ UNCHANGED stuck
       \/ stuck' = TRUE /\ Throws /\ UNCHANGED <<temporary, temporaryOwned>>
    /\ UNCHANGED <<sinkVars, command, committed, output, taken, strays, filled>>

ChoosesHost ==
    /\ At("native", "choosing")
    /\ IF command.filtersPoints THEN Ask("hybrid") ELSE Goto("creating")
    /\ UNCHANGED <<sinkVars, command, committed, Files>>

-----------------------------------------------------------------------------
(***************************************************************************)
(* Publication from a temporary file, of either executor.                  *)
(***************************************************************************)
Publishing(s) == route \in Publishers /\ At(route, s)

\* MappedOutput or writeFileExclusive: it opens, or finds the name taken.
CreateTemporary ==
    /\ Publishing("creating")
    /\ LET free == temporary[route] = "nobody"
       IN  /\ temporaryOwned' = OwnedIfMade(free)
           /\ temporary' = IF free THEN [temporary EXCEPT ![route] = "ours"]
                                   ELSE temporary
           /\ IF free THEN Goto("filling") ELSE Throws
    /\ filled' = FALSE
    /\ UNCHANGED <<sinkVars, command, committed, output, taken, strays, stuck>>

FillTemporary ==
    /\ Publishing("filling")
    /\ \/ filled' = TRUE /\ Goto("linking")
       \/ Throws /\ UNCHANGED filled
    /\ UNCHANGED <<sinkVars, command, committed, output, taken, temporary,
                   strays, temporaryOwned, stuck>>

\* Fault: the temporary is renamed to the output.
AnyName == TRUE

NameFree == output = NoFile

\* publishExclusive: link fails where there is a file.
Link ==
    /\ Publishing("linking")
    /\ \/ /\ NameFree
          /\ output' = File(route, filled)
          /\ Goto("unlinking")
       \/ Throws /\ UNCHANGED output
    /\ UNCHANGED <<sinkVars, command, committed, taken, temporary, strays,
                   temporaryOwned, filled, stuck>>

\* The output is there: a temporary that stays is no error.
Unlink ==
    /\ Publishing("unlinking")
    /\ \/ /\ temporary' = [temporary EXCEPT ![route] = "nobody"]
          /\ temporaryOwned' = FALSE
          /\ UNCHANGED stuck
       \/ stuck' = TRUE /\ UNCHANGED <<temporary, temporaryOwned>>
    /\ IF route = "resident"
       THEN committed' = TRUE /\ Goto("validating")
       ELSE Returns(0) /\ UNCHANGED committed
    /\ UNCHANGED <<sinkVars, command, output, taken, strays, filled>>

Removed ==
    IF temporaryOwned
    THEN \/ /\ temporary' = [temporary EXCEPT ![route] = "nobody"]
            /\ UNCHANGED stuck
         \/ stuck' = TRUE /\ UNCHANGED temporary
    ELSE UNCHANGED <<temporary, stuck>>

\* The handlers of an exception: the next executor is asked, unless the
\* resident one is committed.
Caught ==
    /\ Publishing("caught")
    /\ Removed
    /\ temporaryOwned' = FALSE
    /\ CASE route = "native" -> Ask("hybrid")
         [] committed        -> Returns(1)
         [] OTHER            -> Ask("native")
    /\ UNCHANGED <<sinkVars, command, committed, output, taken, strays, filled>>

-----------------------------------------------------------------------------
(***************************************************************************)
(* The hybrid executor (tryHybridPipeline) and PDAL, in a process of its   *)
(* own (runOracle).  They write where the output goes, over what is there. *)
(***************************************************************************)
HybridDeclines ==
    /\ At("hybrid", "asked")
    /\ Ask("pdal")
    /\ UNCHANGED <<sinkVars, command, committed, Files>>

\* Either runs to its end, well or not, or writes nothing.
WriterRuns ==
    /\ route \in {"hybrid", "pdal"} /\ At(route, "asked")
    /\ output' \in {output} \cup [by : {route}, whole : BOOLEAN]
    /\ \E code \in {0, 1} : Returns(code)
    /\ UNCHANGED <<sinkVars, command, committed, taken, temporary, strays,
                   temporaryOwned, filled, stuck>>

OracleMissing ==
    /\ At("pdal", "asked")
    /\ \E code \in {126, 127} : Returns(code)
    /\ UNCHANGED <<sinkVars, command, committed, Files>>

Exited == status # Running /\ UNCHANGED <<sinkVars, commandVars>>

-----------------------------------------------------------------------------
CommandStep ==
    \/ ResidentDeclines \/ ResidentAccepts \/ ResidentThrows \/ ResidentWrites
    \/ ResidentInspects \/ Validate
    \/ NativeDeclines \/ NativeMaps \/ NativeAccepts \/ TranslatesOnDevice
    \/ OpenSink \/ Sunk \/ DeviceFailed \/ ChoosesHost
    \/ CreateTemporary \/ FillTemporary \/ Link \/ Unlink \/ Caught
    \/ HybridDeclines \/ WriterRuns \/ OracleMissing

Sinking == step = "sinking" /\ UNCHANGED commandVars

CommandNext ==
    \/ CommandStep \/ OtherCreates \/ StrayTemporary \/ Exited
    \/ Sinking /\ (SinkCallerStep \/ SinkWorkerStep \/ SpuriousWakeup)

\* One run of the program; MCAttempt adds what is fair.
CommandSpec == CommandInit /\ [][CommandNext]_<<sinkVars, commandVars>>

CommandTypeOK ==
    /\ SinkTypeOK
    /\ command \in CommandCases
    /\ route \in Routes
    /\ step \in {"asked", "executing", "caught", "validating", "mapped",
                 "opening", "sinking", "choosing", "creating", "filling",
                 "linking", "unlinking"}
    /\ status \in {Running, 0, 1, 126, 127}
    /\ committed \in BOOLEAN
    /\ output \in [by : Routes \cup {"other", "nobody"}, whole : BOOLEAN]
    /\ taken \in BOOLEAN
    /\ temporary \in [Publishers -> {"nobody", "ours", "other"}]
    /\ strays \subseteq Publishers
    /\ temporaryOwned \in BOOLEAN /\ filled \in BOOLEAN /\ stuck \in BOOLEAN

\* The executor publishes a file it made apart.
PublishesAtOnce(r) ==
    r \in Publishers /\ (r = "resident" => command.executor # "writer")

\* OneOutput: only the executor that is asked has written the output: one that
\* hands over has left nothing there.  What is published is whole whenever it
\* can be seen and is never put over another program's file, and a resident or
\* native run that reports success has written the whole output.
OneOutput ==
    /\ SinkWhole
    /\ output.by \in Routes => output.by = route
    /\ output.by \in Routes /\ PublishesAtOnce(output.by) =>
          output.whole /\ ~taken
    /\ status = 0 /\ route \in Publishers => output = File(route, TRUE)

\* NoLeftovers: a run leaves no temporary file, unless one could not be
\* removed, and never removes one that it has not made.
NoLeftovers ==
    /\ status # Running /\ ~stuck =>
          \A r \in Publishers : temporary[r] # "ours"
    /\ \A r \in strays : temporary[r] = "other"
=============================================================================
