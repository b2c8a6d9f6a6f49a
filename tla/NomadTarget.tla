----------------------------- MODULE NomadTarget ----------------------------
(***************************************************************************)
(* Status of the Nomad target plugin (plugins/builtin/target/nomad): a     *)
(* cache with one status handler per job, filled by a goroutine that polls *)
(* the Nomad API, read by Status and pruned by the garbage collector.      *)
(*                                                                         *)
(* Status holds statusHandlersLock from its first action to its last one,  *)
(* also while it waits for initialDone.  The goroutine of a handler takes  *)
(* no lock: it writes scaleStatus and scaleStatusError one after the other *)
(* while Status reads them one after the other.  The contents of a status  *)
(* are abstracted to whether there is one.                                 *)
(***************************************************************************)
EXTENDS Naturals

CONSTANTS
  Jobs,
  Callers   \* goroutines that call Status: policy handlers and workers

VARIABLES
  job,      \* the cluster: whether each job exists
  exists,   \* the jobs with an entry in statusHandlers
  hasStatus, hasError,            \* scaleStatus # nil, scaleStatusError # nil
  isRunning, initialized,         \* fields of each handler
  stopping, \* a goroutine of the handler is inside setStopState
  loop,     \* start: where the goroutine of each handler is, or "none"
  caller,   \* where each caller is in Status
  asked,    \* the job each caller asks for
  answer    \* what the last Status of each caller returned

fields == <<hasStatus, hasError, isRunning, initialized, stopping>>
calls == <<caller, asked, answer>>
vars == <<job, exists, hasStatus, hasError, isRunning, initialized, stopping, loop, caller, asked, answer>>

Init ==
  /\ job \in [Jobs -> BOOLEAN]
  /\ exists = {}
  /\ hasStatus = [j \in Jobs |-> FALSE]
  /\ hasError = [j \in Jobs |-> FALSE]
  /\ isRunning = [j \in Jobs |-> FALSE]
  /\ initialized = [j \in Jobs |-> FALSE]
  /\ stopping = [j \in Jobs |-> FALSE]
  /\ loop = [j \in Jobs |-> "none"]
  /\ caller = [c \in Callers |-> "out"]
  /\ asked \in [Callers -> Jobs]
  /\ answer = [c \in Callers |-> "none"]

LockFree == \A c \in Callers : caller[c] = "out"

-----------------------------------------------------------------------------
(* Status                                                                  *)

\* Take the lock. A new handler has no status, and initialDone has to come.
Enter(c, j) ==
  /\ LockFree
  /\ asked' = [asked EXCEPT ![c] = j]
  /\ exists' = exists \union {j}
  /\ IF j \in exists THEN UNCHANGED fields
     ELSE /\ hasStatus' = [hasStatus EXCEPT ![j] = FALSE]
          /\ hasError' = [hasError EXCEPT ![j] = FALSE]
          /\ isRunning' = [isRunning EXCEPT ![j] = FALSE]
          /\ initialized' = [initialized EXCEPT ![j] = FALSE]
          /\ stopping' = [stopping EXCEPT ![j] = FALSE]

\* The handler does not run: start it, and wait for initialDone.
StatusStarts(c, j) ==
  /\ j \in exists => ~isRunning[j]
  /\ Enter(c, j)
  /\ loop' = [loop EXCEPT ![j] = "begin"]
  /\ caller' = [caller EXCEPT ![c] = "wait"]
  /\ UNCHANGED <<job, answer>>

StatusCached(c, j) ==
  /\ j \in exists /\ isRunning[j]
  /\ Enter(c, j)
  /\ caller' = [caller EXCEPT ![c] = "readError"]
  /\ UNCHANGED <<job, loop, answer>>

Answer(c, a) ==
  /\ answer' = [answer EXCEPT ![c] = a]
  /\ caller' = [caller EXCEPT ![c] = "out"]

\* status: the error first, then the status.
ReadError(c) ==
  /\ caller[c] = "readError"
  /\ \/ hasError[asked[c]] /\ Answer(c, "error")
     \/ /\ ~hasError[asked[c]]
        /\ caller' = [caller EXCEPT ![c] = "readStatus"]
        /\ UNCHANGED answer
  /\ UNCHANGED <<job, exists, fields, loop, asked>>

ReadStatus(c) ==
  /\ caller[c] = "readStatus"
  /\ Answer(c, IF hasStatus[asked[c]] THEN "status" ELSE "nil")
  /\ UNCHANGED <<job, exists, fields, loop, asked>>

-----------------------------------------------------------------------------
(* start                                                                   *)

LoopAt(j, from, to) == loop[j] = from /\ loop' = [loop EXCEPT ![j] = to]

LoopBegins(j) ==
  /\ LoopAt(j, "begin", "query")
  /\ isRunning' = [isRunning EXCEPT ![j] = TRUE]
  /\ UNCHANGED <<job, exists, hasStatus, hasError, initialized, stopping, calls>>

\* A 404: the loop ends in setStopState, which clears isRunning first. From then
\* on Status may start the handler again and the collector may remove it.
NotFound(j) ==
  /\ ~job[j]
  /\ LoopAt(j, "query", "none")
  /\ isRunning' = [isRunning EXCEPT ![j] = FALSE]
  /\ stopping' = [stopping EXCEPT ![j] = TRUE]
  /\ UNCHANGED <<job, exists, hasStatus, hasError, initialized, calls>>

\* Faulty variant: the old status is kept.
StopStateKeepsStatus(j) ==
  /\ stopping[j]
  /\ stopping' = [stopping EXCEPT ![j] = FALSE]
  /\ hasError' = [hasError EXCEPT ![j] = FALSE]
  /\ UNCHANGED <<job, exists, hasStatus, isRunning, initialized, loop, calls>>

\* The rest of setStopState. status reads the error first, so it cannot tell the
\* two writes apart.
setStopState(j) ==
  /\ stopping[j]
  /\ stopping' = [stopping EXCEPT ![j] = FALSE]
  /\ hasStatus' = [hasStatus EXCEPT ![j] = FALSE]
  /\ hasError' = [hasError EXCEPT ![j] = FALSE]
  /\ UNCHANGED <<job, exists, isRunning, initialized, loop, calls>>

\* Any other error: updateStatusState(nil, err), and the loop goes on.
ApiError(j) ==
  /\ LoopAt(j, "query", "writeError")
  /\ hasStatus' = [hasStatus EXCEPT ![j] = FALSE]
  /\ UNCHANGED <<job, exists, hasError, isRunning, initialized, stopping, calls>>

WriteError(j) ==
  /\ LoopAt(j, "writeError", "query")
  /\ hasError' = [hasError EXCEPT ![j] = TRUE]
  /\ UNCHANGED <<job, exists, hasStatus, isRunning, initialized, stopping, calls>>

\* A new status: updateStatusState(status, nil). When the index has not changed
\* and there is a status nothing is written.
NewStatus(j) ==
  /\ job[j]
  /\ LoopAt(j, "query", "clearError")
  /\ hasStatus' = [hasStatus EXCEPT ![j] = TRUE]
  /\ UNCHANGED <<job, exists, hasError, isRunning, initialized, stopping, calls>>

\* Faulty variant: the handler is marked as initialized and nobody is told.
MarkInitialized(j) ==
  /\ LoopAt(j, "clearError", "query")
  /\ hasError' = [hasError EXCEPT ![j] = FALSE]
  /\ initialized' = [initialized EXCEPT ![j] = TRUE]
  /\ UNCHANGED <<job, exists, hasStatus, isRunning, stopping, calls>>

\* The first status is announced on initialDone, once in the life of a handler.
ClearError(j) ==
  /\ LoopAt(j, "clearError", IF initialized[j] THEN "query" ELSE "signal")
  /\ hasError' = [hasError EXCEPT ![j] = FALSE]
  /\ UNCHANGED <<job, exists, hasStatus, isRunning, initialized, stopping, calls>>

InitialDone(c, j) ==
  /\ LoopAt(j, "signal", "query")
  /\ caller[c] = "wait" /\ asked[c] = j
  /\ caller' = [caller EXCEPT ![c] = "readError"]
  /\ initialized' = [initialized EXCEPT ![j] = TRUE]
  /\ UNCHANGED <<job, exists, hasStatus, hasError, isRunning, stopping, asked, answer>>

-----------------------------------------------------------------------------
(* Garbage collection, and the cluster                                     *)

\* Faulty variant: old entries are removed whether or not they run.
CollectRunning(old) ==
  /\ LockFree
  /\ old \subseteq exists
  /\ exists' = exists \ old
  /\ UNCHANGED <<job, fields, loop, calls>>

\* Handlers that do not run, and were last updated before the threshold.
garbageCollect(old) ==
  /\ LockFree
  /\ old \subseteq {j \in exists : ~isRunning[j]}
  /\ exists' = exists \ old
  /\ UNCHANGED <<job, fields, loop, calls>>

\* A job is purged, or registered again.
JobChanges(j) ==
  /\ job' = [job EXCEPT ![j] = ~@]
  /\ UNCHANGED <<exists, fields, loop, calls>>

-----------------------------------------------------------------------------
Poll(j) ==
  \/ LoopBegins(j) \/ NotFound(j) \/ setStopState(j)
  \/ ApiError(j) \/ WriteError(j) \/ NewStatus(j) \/ ClearError(j)

Next ==
  \/ \E c \in Callers : \E j \in Jobs : StatusStarts(c, j) \/ StatusCached(c, j) \/ InitialDone(c, j)
  \/ \E c \in Callers : ReadError(c) \/ ReadStatus(c)
  \/ \E j \in Jobs : Poll(j) \/ JobChanges(j)
  \/ \E old \in SUBSET Jobs : old # {} /\ garbageCollect(old)

Spec == Init /\ [][Next]_vars

\* Goroutines are scheduled, and the API does not answer with errors for ever.
Fairness ==
  /\ \A j \in Jobs : /\ WF_vars(LoopBegins(j) \/ NotFound(j) \/ WriteError(j) \/ ClearError(j))
                     /\ WF_vars(setStopState(j))
                     /\ SF_vars(NewStatus(j))
  /\ \A c \in Callers : /\ WF_vars(ReadError(c) \/ ReadStatus(c))
                        /\ \A j \in Jobs : WF_vars(InitialDone(c, j))

FairSpec == Spec /\ Fairness

-----------------------------------------------------------------------------
(* Properties                                                              *)

TypeOK ==
  /\ job \in [Jobs -> BOOLEAN]
  /\ exists \in SUBSET Jobs
  /\ hasStatus \in [Jobs -> BOOLEAN] /\ hasError \in [Jobs -> BOOLEAN]
  /\ isRunning \in [Jobs -> BOOLEAN] /\ initialized \in [Jobs -> BOOLEAN]
  /\ stopping \in [Jobs -> BOOLEAN]
  /\ loop \in [Jobs -> {"none", "begin", "query", "writeError", "clearError", "signal"}]
  /\ caller \in [Callers -> {"out", "wait", "readError", "readStatus"}]
  /\ asked \in [Callers -> Jobs]
  /\ answer \in [Callers -> {"none", "error", "nil", "status"}]

\* A goroutine that polls the API belongs to a handler in the map, so that a
\* second one is never started for the job: the garbage collector spares the
\* handlers that run, and Status starts one only for those that do not.
NoLeakedLoop ==
  \A j \in Jobs : loop[j] # "none" => j \in exists /\ (isRunning[j] <=> loop[j] # "begin")

\* A cached status always has a goroutine that will refresh or drop it: the status
\* of a job that was purged is not served for ever.
CacheIsRefreshed ==
  \A j \in exists : hasStatus[j] => loop[j] # "none" \/ stopping[j]

\* Every call of Status for a job that is never purged returns, whatever errors
\* the API returns before its first answer and whatever happens to other jobs.
StatusReturns ==
  \A c \in Callers : \A j \in Jobs :
    []job[j] => (caller[c] # "out" /\ asked[c] = j ~> caller[c] = "out")

=============================================================================
