------------------------------- MODULE StartUp -------------------------------
(***************************************************************************)
(* From power-up to a tracking line and back: Start_task brings up the     *)
(* network, trying again until it works, and creates the tasks; the task   *)
(* ParametersLoad parses tracking.xml and, every few seconds, looks        *)
(* whether a restart was asked for (USER/main.c, lwip_comm.c, lan8720.c,   *)
(* ParametersLoad.c).                                                      *)
(*                                                                         *)
(* Start_task has the highest priority and waits only between two attempts *)
(* at the network, when no task exists yet.  ParametersLoad has a higher   *)
(* one than the tasks that use the configuration and does not wait while it*)
(* parses.                                                                 *)
(***************************************************************************)
EXTENDS TrackingXml

CONSTANTS
  Files,             \* the files that may be on the card
  InternalAttempts,  \* how many attempts the internal pool has memory for,
  DtcmAttempts       \*   and the DTCM pool

\* Per attempt about 30 of the 160 KB of the one pool go to lwIP's memory, and
\* 15.5 of the 100 KB of the other to the Ethernet driver's buffers.
ASSUME PoolAssumption ==
  /\ InternalAttempts \in Nat \ {0}
  /\ DtcmAttempts \in Nat
  /\ InternalAttempts < DtcmAttempts

\* Sections of lists of action names.
ASSUME FilesAssumption == \A f \in Files : f \in Seq(Seq(Seq(STRING)))

\* The tasks whose absence makes a difference here.
Tasks == {"ParametersLoad", "TCPServer", "DataTransfer", "DataProcess",
          "ObjectDetection"}

Order == <<"ParametersLoad", "TCPServer", "DataProcess", "DataTransfer",
           "ObjectDetection">>

VARIABLES
  file,     \* on the card
  cable,    \* whether the network cable is in
  startPc,  \* "network", "delay", "create", "deleted"
  internal, \* what the pools have left, in attempts
  dtcm,
  buffers,  \* whether the driver's buffers are memory, not NULL
  next,     \* the task to be created next
  tasks,    \* those created
  OnLoadParametersFromPC, OnSysRestart,  \* binary semaphores
  loaderPc, \* ParametersLoad: "loop", "waiting", "delay"
  config,   \* ModuleConfig and Module_Count
  loaded,   \* history: the file was parsed,
  client,   \* ClientNum > 0
  used      \* history: Detection has read the configuration

network == <<internal, dtcm, buffers>>
vars == <<file, cable, startPc, network, next, tasks, OnLoadParametersFromPC,
          OnSysRestart, loaderPc, config, loaded, client, used>>

\* Everything but the card and the cable after a reset.
PowerUp ==
  [startPc |-> "network", internal |-> InternalAttempts, dtcm |-> DtcmAttempts,
   next |-> 1, loaderPc |-> "loop", config |-> NoConfig]

Init ==
  /\ file \in Files
  /\ cable \in BOOLEAN
  /\ startPc = PowerUp.startPc
  /\ internal = PowerUp.internal
  /\ dtcm = PowerUp.dtcm
  /\ buffers = FALSE
  /\ next = PowerUp.next
  /\ tasks = {}
  /\ OnLoadParametersFromPC = TRUE
  /\ OnSysRestart = FALSE
  /\ loaderPc = PowerUp.loaderPc
  /\ config = PowerUp.config
  /\ loaded = FALSE
  /\ client = FALSE
  /\ used = FALSE

-----------------------------------------------------------------------------
(* Start_task.  It begins by giving OnLoadParametersFromPC.                *)

CableMoves ==
  /\ cable' = ~cable
  /\ UNCHANGED <<file, startPc, network, next, tasks, OnLoadParametersFromPC,
                 OnSysRestart, loaderPc, config, loaded, client, used>>

\* Fault: a failed attempt gives back lwIP's memory, and no more.
InternalAfterFailure_Freed == internal

\* What an attempt leaves of the internal pool when the chip does not answer:
\* nothing is given back.
InternalAfterFailure == internal - 1

\* Faults: an attempt goes on without lwIP's memory; it wants twice as much.
InternalSuffices_Unseen == TRUE

InternalSuffices_Twice == internal > 1

\* Whether lwIP gets the memory it asks for.
InternalSuffices == internal > 0

\* An attempt takes the driver's buffers first.
TakesBuffers ==
  /\ dtcm' = IF dtcm > 0 THEN dtcm - 1 ELSE 0
  /\ buffers' = (dtcm > 0)

\* lwip_comm_init, up to its failure: whether the driver has got its buffers is
\* not seen (ETH_Mem_Malloc looks at the addresses of the pointers); lwIP's
\* memory is looked at, and given back if there is not enough; then the chip is
\* tried six times.
NetworkFails ==
  /\ startPc = "network"
  /\ TakesBuffers
  /\ \/ ~InternalSuffices /\ UNCHANGED internal
     \/ InternalSuffices /\ ~cable /\ internal' = InternalAfterFailure
  /\ startPc' = "delay"
  /\ UNCHANGED <<file, cable, next, tasks, OnLoadParametersFromPC, OnSysRestart,
                 loaderPc, config, loaded, client, used>>

NetworkComesUp ==
  /\ startPc = "network"
  /\ cable
  /\ InternalSuffices
  /\ internal' = internal - 1
  /\ TakesBuffers
  /\ startPc' = "create"
  /\ UNCHANGED <<file, cable, next, tasks, OnLoadParametersFromPC, OnSysRestart,
                 loaderPc, config, loaded, client, used>>

TriesAgain ==
  /\ startPc = "delay"
  /\ startPc' = "network"
  /\ UNCHANGED <<file, cable, network, next, tasks, OnLoadParametersFromPC,
                 OnSysRestart, loaderPc, config, loaded, client, used>>

\* The next task is created, or there is no memory for it: what xTaskCreate
\* returns then, -1, is not zero either, and start-up goes on without it.
Creates ==
  /\ startPc = "create"
  /\ next <= Len(Order)
  /\ \E ok \in BOOLEAN :
       tasks' = IF ok THEN tasks \cup {Order[next]} ELSE tasks
  /\ next' = next + 1
  /\ UNCHANGED <<file, cable, startPc, network, OnLoadParametersFromPC,
                 OnSysRestart, loaderPc, config, loaded, client, used>>

\* Start_task deletes itself.
StartOver ==
  /\ startPc = "create"
  /\ next > Len(Order)
  /\ startPc' = "deleted"
  /\ UNCHANGED <<file, cable, network, next, tasks, OnLoadParametersFromPC,
                 OnSysRestart, loaderPc, config, loaded, client, used>>

StartTask ==
  NetworkFails \/ NetworkComesUp \/ TriesAgain \/ Creates \/ StartOver

-----------------------------------------------------------------------------
(* ParametersLoad.                                                         *)

LoaderAt(pc) ==
  startPc = "deleted" /\ "ParametersLoad" \in tasks /\ loaderPc = pc

\* NVIC_SystemReset, which takes the semaphores, the pools and all tasks.
Resets ==
  /\ LoaderAt("loop")
  /\ OnSysRestart
  /\ startPc' = PowerUp.startPc
  /\ internal' = PowerUp.internal
  /\ dtcm' = PowerUp.dtcm
  /\ buffers' = FALSE
  /\ next' = PowerUp.next
  /\ tasks' = {}
  /\ OnLoadParametersFromPC' = TRUE
  /\ OnSysRestart' = FALSE
  /\ loaderPc' = PowerUp.loaderPc
  /\ config' = PowerUp.config
  /\ loaded' = FALSE
  /\ client' = FALSE
  /\ used' = FALSE
  /\ UNCHANGED <<file, cable>>

\* The semaphore is there: the file is parsed.
Loads ==
  /\ LoaderAt("loop") \/ LoaderAt("waiting")
  /\ loaderPc = "loop" => ~OnSysRestart
  /\ OnLoadParametersFromPC
  /\ OnLoadParametersFromPC' = FALSE
  /\ config' = Parsed(file)
  /\ loaded' = TRUE
  /\ loaderPc' = "delay"
  /\ UNCHANGED <<file, cable, startPc, network, next, tasks, OnSysRestart, client,
                 used>>

\* It is not: ParametersLoad waits for it, for a second.
LoaderWaits ==
  /\ LoaderAt("loop")
  /\ ~OnSysRestart
  /\ ~OnLoadParametersFromPC
  /\ loaderPc' = "waiting"
  /\ UNCHANGED <<file, cable, startPc, network, next, tasks, OnLoadParametersFromPC,
                 OnSysRestart, config, loaded, client, used>>

\* Fault: the wait for something to load has no limit.
LoaderWaitEnds_Never == FALSE

\* The second is over.
LoaderWaitEnds ==
  /\ LoaderAt("waiting")
  /\ ~OnLoadParametersFromPC
  /\ loaderPc' = "delay"
  /\ UNCHANGED <<file, cable, startPc, network, next, tasks, OnLoadParametersFromPC,
                 OnSysRestart, config, loaded, client, used>>

LoaderWakes ==
  /\ LoaderAt("delay")
  /\ loaderPc' = "loop"
  /\ UNCHANGED <<file, cable, startPc, network, next, tasks, OnLoadParametersFromPC,
                 OnSysRestart, config, loaded, client, used>>

ParametersLoadThread ==
  Resets \/ Loads \/ LoaderWaits \/ LoaderWaitEnds \/ LoaderWakes

-----------------------------------------------------------------------------
(* The other tasks, all of lower priority.                                 *)

\* Fault: the loader gets the lowest priority of all.
LoaderReady_Yields == FALSE

LoaderReady ==
  LoaderAt("loop") \/ (LoaderAt("waiting") /\ OnLoadParametersFromPC)

OthersRun == startPc = "deleted" /\ ~LoaderReady

ClientComesOrGoes ==
  /\ OthersRun
  /\ "TCPServer" \in tasks
  /\ client' = ~client
  /\ UNCHANGED <<file, cable, startPc, network, next, tasks, OnLoadParametersFromPC,
                 OnSysRestart, loaderPc, config, loaded, used>>

\* A client's command, through the transfer and the processing task.
RestartCommanded ==
  /\ OthersRun
  /\ client
  /\ {"DataTransfer", "DataProcess"} \subseteq tasks
  /\ OnSysRestart' = TRUE
  /\ UNCHANGED <<file, cable, startPc, network, next, tasks, OnLoadParametersFromPC,
                 loaderPc, config, loaded, client, used>>

\* Detection begins a pass, for which a client must be connected.
DetectionPasses ==
  /\ OthersRun
  /\ client
  /\ "ObjectDetection" \in tasks
  /\ used' = TRUE
  /\ UNCHANGED <<file, cable, startPc, network, next, tasks, OnLoadParametersFromPC,
                 OnSysRestart, loaderPc, config, loaded, client>>

Next ==
  \/ CableMoves \/ StartTask \/ ParametersLoadThread
  \/ ClientComesOrGoes \/ RestartCommanded \/ DetectionPasses

Spec == Init /\ [][Next]_vars

\* Both tasks wait for bounded times only, and for nothing that others hold.
FairSpec == Spec /\ WF_vars(StartTask) /\ WF_vars(ParametersLoadThread)

-----------------------------------------------------------------------------
(* Properties.                                                             *)

TypeOK ==
  /\ file \in Files
  /\ cable \in BOOLEAN
  /\ startPc \in {"network", "delay", "create", "deleted"}
  /\ internal \in 0 .. InternalAttempts
  /\ dtcm \in 0 .. DtcmAttempts
  /\ buffers \in BOOLEAN
  /\ next \in 1 .. Len(Order) + 1
  /\ tasks \subseteq Tasks
  /\ OnLoadParametersFromPC \in BOOLEAN /\ OnSysRestart \in BOOLEAN
  /\ loaderPc \in {"loop", "waiting", "delay"}
  /\ config.Module_Count \in Nat
  /\ DOMAIN config.ModuleConfig = Sections
  /\ loaded \in BOOLEAN /\ client \in BOOLEAN /\ used \in BOOLEAN

\* Configuration c is the one the file describes: for a file that fits the
\* arrays it has all sections and counts that stay in them, with the actions of
\* each section in order, as long as they come in one list.
IsFile(c) ==
  Fits(file) =>
    /\ StaysInArrays(c)
    /\ c.Module_Count = Len(file)
    /\ \A k \in 1 .. Len(file) :
         Len(file[k]) <= 1 => SectionIs(c, k - 1, file[k])

\* Detection never reads a configuration that is not loaded, after a restart
\* neither, and what it reads is the file's; unless there was no memory for the
\* task that loads it.
DetectionReadsFile ==
  used /\ "ParametersLoad" \in tasks => loaded /\ IsFile(config)

\* While the internal pool has memory for one more attempt, the network comes
\* up unless the cable is pulled, and with memory for the driver's buffers,
\* although nothing looks whether it got them: the attempts that failed before
\* the cable was in do no harm until they have used up the pool.
CableBringsUp ==
  startPc \in {"network", "delay"} /\ cable /\ internal > 0
    ~> (startPc \in {"create", "deleted"} /\ buffers) \/ ~cable

\* A restart that was asked for happens, as long as there is a task to do it.
RestartHappens ==
  OnSysRestart /\ "ParametersLoad" \in tasks ~> ~OnSysRestart
=============================================================================
