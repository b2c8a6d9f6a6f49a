-------------------------------- MODULE Agent -------------------------------
(***************************************************************************)
(* The agent process (command/agent.go, agent): it starts the HTTP server, *)
(* sets up the plugins, the telemetry, the policy manager and the workers, *)
(* waits for signals, and shuts down, while requests and signals come at   *)
(* any time.                                                               *)
(*                                                                         *)
(* What a reload does is the subject of the policy modules; here it only   *)
(* takes time.                                                             *)
(***************************************************************************)
EXTENDS PluginManager

CONSTANTS
  Workers,
  Requests,     \* HTTP requests
  SignalBuffer, \* capacity of signalCh
  MaxSignals    \* bound: signals sent to the process

VARIABLES
  main,        \* where the main goroutine is
  result,      \* what agent.Run returned
  cancelled,   \* the context is done
  policyManager, inMemSink,   \* the fields of the agent are set
  notified,    \* signal.Notify was called
  signals,     \* signalCh
  sent,
  server,      \* the goroutine of httpServer.Start
  aliveness,
  closing,     \* Shutdown was called
  request,     \* each request
  worker       \* what each worker does, and with which plugin

control == <<main, result, cancelled>>
fields == <<policyManager, inMemSink, notified>>
received == <<signals, sent>>
http == <<server, aliveness, closing, request>>

vars == <<main, result, cancelled, policyManager, inMemSink, notified, signals, sent,
          server, aliveness, closing, request, worker,
          onDisk, plugins, todo, launch, launchErr, process, pluginInstances>>

Idle == [state |-> "none", plugin |-> ""]
Requested == [kind : {"health", "metrics", "prometheus", "reload", "other"}, valid : BOOLEAN]

Init ==
  /\ PluginsInit
  /\ main = "listen" /\ result = "none"
  /\ cancelled = FALSE /\ policyManager = FALSE /\ inMemSink = FALSE
  /\ notified = FALSE /\ signals = <<>> /\ sent = 0
  /\ server = "none" /\ aliveness = "unset" /\ closing = FALSE
  /\ request = [r \in Requests |-> [state |-> "none"]]
  /\ worker = [w \in Workers |-> Idle]

\* The main goroutine goes on to place p.
Goto(p) == main' = p

-----------------------------------------------------------------------------
(* command.Run and agent.Run                                               *)

\* The listener is opened before the goroutine that serves it is started.
NewHTTPServer ==
  /\ main = "listen"
  /\ \/ Goto("client") /\ server' = "spawned" /\ UNCHANGED result
     \/ Goto("exited") /\ result' = "error" /\ UNCHANGED server
  /\ UNCHANGED <<cancelled, fields, received, aliveness, closing, request,
                 worker, pluginVars>>

\* Run returns, with the deferred calls to be made.
Return(res) == Goto("cancel") /\ result' = res

generateNomadClient ==
  /\ main = "client"
  /\ (Goto("load") /\ UNCHANGED result) \/ Return("error")
  /\ UNCHANGED <<cancelled, fields, received, http, worker, pluginVars>>

setupPlugins ==
  /\ \/ main = "load" /\ Load /\ Goto("plugins")
     \/ main = "plugins" /\ dispensePlugins /\ UNCHANGED main
  /\ UNCHANGED <<result, cancelled, fields, received, http, worker>>

\* Any error of a plugin is an error of the start.
PluginsSetUp ==
  /\ main = "plugins"
  /\ AllLaunched
  /\ IF launchErr THEN Return("error") ELSE Goto("telemetry") /\ UNCHANGED result
  /\ UNCHANGED <<cancelled, fields, received, http, worker, pluginVars>>

\* The sinks that are configured are made one by one; one error is an error.
setupTelemetry ==
  /\ main = "telemetry"
  /\ \/ Goto("policies") /\ inMemSink' = TRUE /\ UNCHANGED result
     \/ Return("error") /\ UNCHANGED inMemSink
  /\ UNCHANGED <<cancelled, policyManager, notified, received, http, worker, pluginVars>>

setupPolicyManager ==
  /\ main = "policies"
  /\ policyManager' = TRUE
  /\ Goto("workers")
  /\ UNCHANGED <<result, cancelled, inMemSink, notified, received, http, worker, pluginVars>>

\* The broker is made and the workers are started.
initWorkers ==
  /\ main = "workers"
  /\ worker' = [w \in Workers |-> [state |-> "waiting", plugin |-> ""]]
  /\ Goto("notify")
  /\ UNCHANGED <<result, cancelled, fields, received, http, pluginVars>>

-----------------------------------------------------------------------------
(* handleSignals                                                           *)

Notify ==
  /\ main = "notify"
  /\ notified' = TRUE
  /\ Goto("waiting")
  /\ UNCHANGED <<result, cancelled, policyManager, inMemSink, received, http, worker, pluginVars>>

\* Faulty variant: every signal is taken for a reload.
ReceiveAny ==
  /\ main = "waiting"
  /\ signals # <<>>
  /\ signals' = Tail(signals)
  /\ Goto("reloading") /\ UNCHANGED result
  /\ UNCHANGED <<cancelled, fields, sent, http, worker, pluginVars>>

\* SIGHUP reloads; everything else means exit.
handleSignals ==
  /\ main = "waiting"
  /\ signals # <<>>
  /\ signals' = Tail(signals)
  /\ IF Head(signals) = "SIGHUP" THEN Goto("reloading") /\ UNCHANGED result ELSE Return("ok")
  /\ UNCHANGED <<cancelled, fields, sent, http, worker, pluginVars>>

reloadReturns ==
  /\ main = "reloading"
  /\ Goto("waiting")
  /\ UNCHANGED <<result, cancelled, fields, received, http, worker, pluginVars>>

-----------------------------------------------------------------------------
(* The deferred calls, the last one first                                  *)

\* Faulty variant: the plugins are killed before the workers are told to stop.
CancelAfterKill ==
  /\ \/ /\ main = "cancel" /\ Goto("kill") /\ KillPlugins /\ UNCHANGED cancelled
     \/ /\ main = "kill" /\ Goto("stop") /\ cancelled' = TRUE /\ UNCHANGED pluginVars
  /\ UNCHANGED <<result, fields, received, http, worker>>

\* cancel, then stop.
Shutdown ==
  /\ \/ /\ main = "cancel" /\ Goto("kill") /\ cancelled' = TRUE /\ UNCHANGED pluginVars
     \/ /\ main = "kill" /\ Goto("stop") /\ KillPlugins /\ UNCHANGED cancelled
  /\ UNCHANGED <<result, fields, received, http, worker>>

\* httpServer.Stop: first the health, then the server.
StopServer ==
  /\ main = "stop"
  /\ aliveness' = "unavailable"
  /\ Goto("shutdown")
  /\ UNCHANGED <<result, cancelled, fields, received, server, closing, request, worker, pluginVars>>

ShutdownServer ==
  /\ main = "shutdown"
  /\ closing' = TRUE
  /\ Goto("drain")
  /\ UNCHANGED <<result, cancelled, fields, received, server, aliveness, request, worker, pluginVars>>

\* Open requests are waited for, at most five seconds; then the process ends.
Exit ==
  /\ main = "drain"
  /\ Goto("exited")
  /\ UNCHANGED <<result, cancelled, fields, received, http, worker, pluginVars>>

-----------------------------------------------------------------------------
(* The HTTP server                                                         *)

Alive == main \notin {"exited", "dead"}

StartMarksReady ==
  /\ Alive
  /\ server = "spawned"
  /\ server' = "marked"
  /\ aliveness' = "ready"
  /\ UNCHANGED <<control, fields, received, closing, request, worker, pluginVars>>

\* Serve returns ErrServerClosed at once if the server is shut down, and any
\* other error makes the agent unavailable.
Serve ==
  /\ Alive
  /\ \/ server = "marked" /\ server' = (IF closing THEN "closed" ELSE "serving") /\ UNCHANGED aliveness
     \/ server = "serving" /\ closing /\ server' = "closed" /\ UNCHANGED aliveness
     \/ server = "serving" /\ ~closing /\ server' = "failed" /\ aliveness' = "unavailable"
  /\ UNCHANGED <<control, fields, received, closing, request, worker, pluginVars>>

Accept(r) ==
  /\ Alive
  /\ server = "serving" /\ ~closing
  /\ request[r].state = "none"
  /\ \E q \in Requested : request' = [request EXCEPT ![r] = [state |-> "open", req |-> q]]
  /\ UNCHANGED <<control, fields, received, server, aliveness, closing, worker, pluginVars>>

getHealth(q) == IF q.valid /\ aliveness = "ready" THEN "ok" ELSE "error"

\* A nil sink panics, and net/http aborts the request; the sink's own answer may
\* be an error.
getMetrics(q) ==
  IF ~q.valid THEN {"error"}
  ELSE IF q.kind = "prometheus" THEN {"ok"}
  ELSE IF inMemSink THEN {"ok", "error"} ELSE {"aborted"}

\* Without a policy manager the reload panics too.
agentReload(q) == IF ~q.valid THEN "error" ELSE IF policyManager THEN "reloading" ELSE "aborted"

\* wrap and the handlers.
wrap(r) ==
  LET q == request[r].req
  IN  /\ Alive
      /\ request[r].state = "open"
      /\ \E answer \in CASE q.kind = "health" -> {getHealth(q)}
                         [] q.kind \in {"metrics", "prometheus"} -> getMetrics(q)
                         [] q.kind = "reload" -> {agentReload(q)}
                         [] q.kind = "other" -> {"error"} :
            request' = [request EXCEPT ![r].state = answer]
      /\ UNCHANGED <<control, fields, received, server, aliveness, closing, worker, pluginVars>>

ReloadAgentReturns(r) ==
  /\ Alive
  /\ request[r].state = "reloading"
  /\ request' = [request EXCEPT ![r].state = "ok"]
  /\ UNCHANGED <<control, fields, received, server, aliveness, closing, worker, pluginVars>>

-----------------------------------------------------------------------------
(* The workers, as far as they use plugins                                 *)

StartEvaluation(w, id) ==
  /\ Alive
  /\ worker[w].state = "waiting"
  /\ Dispense(id)
  /\ worker' = [worker EXCEPT ![w] = [state |-> "calling", plugin |-> id]]
  /\ UNCHANGED <<control, fields, received, http, pluginVars>>

\* The call returns, with an error if the process was killed, and the worker
\* looks at the context before it takes another evaluation.
EndEvaluation(w) ==
  /\ Alive
  /\ worker[w].state = "calling"
  /\ worker' = [worker EXCEPT ![w] = [state |-> IF cancelled THEN "ended" ELSE "waiting",
                                      plugin |-> ""]]
  /\ UNCHANGED <<control, fields, received, http, pluginVars>>

\* Dequeue returns when the context is done.
WorkerEnds(w) ==
  /\ Alive
  /\ worker[w].state = "waiting"
  /\ cancelled
  /\ worker' = [worker EXCEPT ![w] = [state |-> "ended", plugin |-> ""]]
  /\ UNCHANGED <<control, fields, received, http, pluginVars>>

-----------------------------------------------------------------------------
\* A signal arrives: a full channel drops it, and before Notify both signals
\* end the process (external).
Signal(s) ==
  /\ Alive
  /\ sent < MaxSignals
  /\ sent' = sent + 1
  /\ IF notified
       THEN /\ signals' = IF Len(signals) < SignalBuffer THEN Append(signals, s) ELSE signals
            /\ UNCHANGED main
       ELSE Goto("dead") /\ UNCHANGED signals
  /\ UNCHANGED <<result, cancelled, fields, http, worker, pluginVars>>

Main ==
  \/ NewHTTPServer \/ generateNomadClient \/ setupPlugins \/ PluginsSetUp \/ setupTelemetry
  \/ setupPolicyManager \/ initWorkers \/ Notify \/ handleSignals
  \/ Shutdown \/ StopServer \/ ShutdownServer \/ Exit

Next ==
  \/ Main \/ reloadReturns
  \/ StartMarksReady \/ Serve
  \/ \E r \in Requests : Accept(r) \/ wrap(r) \/ ReloadAgentReturns(r)
  \/ \E w \in Workers : (\E id \in IDs : StartEvaluation(w, id)) \/ EndEvaluation(w) \/ WorkerEnds(w)
  \/ \E s \in {"SIGHUP", "SIGTERM"} : Signal(s)

Spec == Init /\ [][Next]_vars

\* The main goroutine runs on.  A reload is not assumed to return.
FairSpec == Spec /\ WF_vars(Main)

-----------------------------------------------------------------------------
(* Properties                                                              *)

\* When the agent returns, with or without an error, none of the external
\* plugins it started still runs: a launch that fails half way kills its
\* process, and the others are killed on the way out.
\* (launchExternalPlugin, dispensePlugins, Agent.stop)
NoProcessLeft ==
  main \in {"stop", "shutdown", "drain", "exited"} => \A id \in IDs : process[id] # "running"

\* "Any errors from this process will result in the agent failing on startup":
\* workers only ever run with every configured plugin ready for use.
\* (dispensePlugins, Agent.Run)
WorkersHaveAllPlugins ==
  (\E w \in Workers : worker[w].state # "none") => pluginInstances = IDs

\* A call to a plugin is cut off by killing its process only when the context
\* has been cancelled, so that its worker ends with it.  (Agent.Run's deferred
\* calls)
CallsCutOnlyAtShutdown ==
  \A w \in Workers :
    worker[w].state = "calling" /\ process[worker[w].plugin] = "killed" => cancelled

\* SIGTERM ends the agent once it is in the channel, unless the main goroutine
\* is caught in a reload for ever: signals are handled one at a time.
\* (handleSignals)
TerminationReached ==
  (\E i \in 1..Len(signals) : signals[i] = "SIGTERM") ~> (main = "exited" \/ [](main = "reloading"))

=============================================================================
