---------------------------- MODULE AgentProofs -----------------------------
(***************************************************************************)
(* Proofs about the agent and its plugins, for any configuration, workers, *)
(* requests and signals.                                                   *)
(***************************************************************************)
EXTENDS Agent, TLAPS

\* Most steps are first-order; the others say SMT.
USE Zenon

Steps == {"client", "dispense", "check", "config"}

PluginTypes ==
  /\ process \in [IDs -> {"none", "running", "killed"}]
  /\ launch \in [id : IDs \union {""}, step : Steps \union {"none"}]
  /\ launch.step \in Steps => launch.id \in IDs
  /\ todo \subseteq IDs
  /\ pluginInstances \subseteq IDs

WorkerTypes ==
  worker \in [Workers -> [state : {"none", "waiting", "calling", "ended"},
                          plugin : IDs \union {""}]]

Launching == launch.step # "none"

\* A plugin is at one place: still to be launched, being launched, or ready.
OnePlace ==
  /\ todo \intersect pluginInstances = {}
  /\ Launching => launch.id \notin todo /\ launch.id \notin pluginInstances
  /\ Launching \/ todo # {} => main \in {"plugins", "dead"}

\* A process that runs is one that KillPlugins or the failure of its launch
\* would kill.
RunningIsOwned ==
  \A id \in IDs : process[id] = "running" =>
    id \in pluginInstances \/ (Launching /\ launch.id = id)

\* No plugin is lost unless its error is collected.
AllAccountedFor ==
  /\ main = "plugins" /\ ~launchErr =>
       \A id \in IDs : id \in todo \/ id \in pluginInstances \/ (Launching /\ launch.id = id)
  /\ main \in {"telemetry", "policies", "workers"} => pluginInstances = IDs

\* Before the workers are started there are none, and no process before Load.
StartOrder ==
  /\ main \in {"listen", "client", "load"} => \A id \in IDs : process[id] = "none"
  /\ main \in {"listen", "client", "load", "plugins"} => \A w \in Workers : worker[w].state = "none"

\* A process that was killed while nothing was cancelled belongs to a plugin that
\* is not, and will not be, dispensed.
KilledIsNotReady ==
  /\ main = "kill" => cancelled
  /\ ~cancelled => \A id \in IDs : process[id] = "killed" =>
       id \notin pluginInstances /\ id \notin todo /\ (Launching => launch.id # id)

PluginInv ==
  /\ PluginTypes /\ OnePlace /\ RunningIsOwned /\ AllAccountedFor /\ StartOrder
  /\ WorkerTypes /\ KilledIsNotReady
  /\ NoProcessLeft /\ WorkersHaveAllPlugins /\ CallsCutOnlyAtShutdown

-----------------------------------------------------------------------------
(* The invariant is inductive                                              *)

LEMMA PluginInvInit == Init => PluginInv
<1> SUFFICES ASSUME Init PROVE PluginInv
  OBVIOUS
<1> USE DEF Init, PluginsInit, NotLaunching, Idle, Steps, Launching
<1>1. PluginTypes
  BY DEF PluginTypes
<1>2. WorkerTypes
  BY DEF WorkerTypes
<1>3. OnePlace /\ RunningIsOwned /\ AllAccountedFor
  BY DEF OnePlace, RunningIsOwned, AllAccountedFor
<1>4. StartOrder /\ KilledIsNotReady
  BY DEF StartOrder, KilledIsNotReady
<1>5. NoProcessLeft /\ WorkersHaveAllPlugins /\ CallsCutOnlyAtShutdown
  BY DEF NoProcessLeft, WorkersHaveAllPlugins, CallsCutOnlyAtShutdown
<1> QED
  BY <1>1, <1>2, <1>3, <1>4, <1>5 DEF PluginInv

\* Launching the plugins, one step at a time.
LEMMA DispensePluginsKeepsInv ==
  ASSUME PluginInv, main = "plugins", dispensePlugins, UNCHANGED <<main, cancelled, worker>>
  PROVE  PluginInv'
<1> USE DEF PluginInv, PluginTypes, OnePlace, RunningIsOwned, AllAccountedFor, StartOrder,
            WorkerTypes, KilledIsNotReady, NoProcessLeft, WorkersHaveAllPlugins,
            CallsCutOnlyAtShutdown, Launching, Steps, NotLaunching
<1>1. ASSUME NEW id \in IDs, StartLaunch(id) PROVE PluginInv'
  BY <1>1 DEF StartLaunch
<1>2. CASE launchExternalPlugin
  <2>1. launch.id \in IDs /\ launch.id \notin pluginInstances
    BY <1>2 DEF launchExternalPlugin
  <2>2. PluginTypes' /\ WorkerTypes' /\ OnePlace'
    BY <1>2, <2>1 DEF launchExternalPlugin
  <2>3. RunningIsOwned' /\ AllAccountedFor' /\ KilledIsNotReady'
    BY <1>2, <2>1 DEF launchExternalPlugin
  <2>4. StartOrder' /\ NoProcessLeft' /\ WorkersHaveAllPlugins' /\ CallsCutOnlyAtShutdown'
    BY <1>2, <2>1 DEF launchExternalPlugin
  <2> QED
    BY <2>2, <2>3, <2>4
<1>3. CASE DispenseRPC
  BY <1>3 DEF DispenseRPC
<1>4. CASE pluginLaunchCheck
  BY <1>4 DEF pluginLaunchCheck
<1>5. CASE SetConfig
  <2>1. launch.id \in IDs /\ launch.id \notin todo /\ launch.step = "config"
    BY <1>5 DEF SetConfig
  <2>2. PluginTypes' /\ WorkerTypes'
    BY <1>5, <2>1 DEF SetConfig
  <2>3. OnePlace'
    <3>1. todo' \intersect pluginInstances' = {}
      <4>1. todo \intersect pluginInstances = {}
        OBVIOUS
      <4>2. todo' = todo /\ pluginInstances' = pluginInstances \union {launch.id}
        BY <1>5 DEF SetConfig
      <4> HIDE DEF PluginInv
      <4> QED
        BY <2>1, <4>1, <4>2
    <3> QED
      BY <1>5, <3>1 DEF SetConfig
  <2>4. RunningIsOwned' /\ AllAccountedFor'
    BY <1>5, <2>1 DEF SetConfig
  <2>5. StartOrder' /\ NoProcessLeft' /\ WorkersHaveAllPlugins' /\ CallsCutOnlyAtShutdown'
    BY <1>5, <2>1 DEF SetConfig
  <2>6. KilledIsNotReady'
    BY <1>5, <2>1 DEF SetConfig
  <2> QED
    BY <2>2, <2>3, <2>4, <2>5, <2>6
<1>6. CASE LaunchFails
  BY <1>6 DEF LaunchFails, Killed
<1> QED
  BY <1>1, <1>2, <1>3, <1>4, <1>5, <1>6 DEF dispensePlugins

LEMMA PluginInvStep == PluginInv /\ [Next]_vars => PluginInv'
<1> SUFFICES ASSUME PluginInv, [Next]_vars PROVE PluginInv'
  OBVIOUS
<1> USE DEF PluginInv, PluginTypes, OnePlace, RunningIsOwned, AllAccountedFor, StartOrder,
            WorkerTypes, KilledIsNotReady, NoProcessLeft, WorkersHaveAllPlugins,
            CallsCutOnlyAtShutdown, Launching, Steps, control, fields, http, received, pluginVars
<1>1. CASE NewHTTPServer
  BY <1>1 DEF NewHTTPServer, Goto
<1>2. CASE generateNomadClient
  BY <1>2 DEF generateNomadClient, Goto, Return
<1>3. CASE setupPlugins
  <2>1. CASE main = "load" /\ Load
    BY <1>3, <2>1 DEF setupPlugins, Load, Goto
  <2>2. CASE main = "plugins" /\ dispensePlugins
    BY <1>3, <2>2, DispensePluginsKeepsInv DEF setupPlugins
  <2> QED
    BY <1>3, <2>1, <2>2 DEF setupPlugins
<1>4. CASE PluginsSetUp
  BY <1>4 DEF PluginsSetUp, AllLaunched, NotLaunching, Goto, Return
<1>5. CASE setupTelemetry
  BY <1>5 DEF setupTelemetry, Goto, Return
<1>6. CASE setupPolicyManager
  BY <1>6 DEF setupPolicyManager, Goto
<1>7. CASE initWorkers
  BY <1>7 DEF initWorkers, Goto
<1>8. CASE Notify \/ handleSignals \/ reloadReturns
  BY <1>8 DEF Notify, handleSignals, reloadReturns, Goto, Return
<1>9. CASE Shutdown
  <2>1. CASE main = "cancel"
    BY <1>9, <2>1 DEF Shutdown, Goto
  <2>2. CASE main = "kill"
    <3>1. main' = "stop" /\ cancelled /\ cancelled' = cancelled /\ KillPlugins /\ worker' = worker
      BY <1>9, <2>2 DEF Shutdown, Goto
    <3>2. ~Launching /\ todo = {}
      BY <2>2
    <3>3. PluginTypes' /\ WorkerTypes' /\ OnePlace'
      BY <3>1, <3>2 DEF KillPlugins, Killed
    <3>4. \A id \in IDs : process'[id] # "running"
      BY <3>1, <3>2 DEF KillPlugins, Killed
    <3> QED
      BY <3>1, <3>3, <3>4 DEF KillPlugins
  <2> QED
    BY <1>9, <2>1, <2>2 DEF Shutdown
<1>10. CASE StopServer \/ ShutdownServer \/ Exit
  BY <1>10 DEF StopServer, ShutdownServer, Exit, Goto
<1>11. CASE UNCHANGED <<control, worker, pluginVars>>
  <2>1. PluginTypes' /\ WorkerTypes' /\ OnePlace' /\ RunningIsOwned'
    BY <1>11
  <2>2. AllAccountedFor' /\ StartOrder' /\ KilledIsNotReady'
    BY <1>11
  <2>3. NoProcessLeft' /\ WorkersHaveAllPlugins' /\ CallsCutOnlyAtShutdown'
    BY <1>11
  <2> QED
    BY <2>1, <2>2, <2>3
<1>12. ASSUME NEW w \in Workers, NEW id \in IDs, StartEvaluation(w, id) PROVE PluginInv'
  BY <1>12 DEF StartEvaluation, Dispense
<1>13. ASSUME NEW w \in Workers, EndEvaluation(w) \/ WorkerEnds(w) PROVE PluginInv'
  <2>1. PICK s \in {"waiting", "ended"} :
          worker' = [worker EXCEPT ![w] = [state |-> s, plugin |-> ""]]
    BY <1>13 DEF EndEvaluation, WorkerEnds
  <2>2. worker[w].state \in {"waiting", "calling"} /\ UNCHANGED <<control, pluginVars>>
    BY <1>13 DEF EndEvaluation, WorkerEnds
  <2>3. WorkerTypes'
    BY <2>1
  <2>4. PluginTypes' /\ OnePlace' /\ RunningIsOwned' /\ AllAccountedFor' /\ KilledIsNotReady'
    BY <2>2
  <2>5. StartOrder' /\ NoProcessLeft' /\ WorkersHaveAllPlugins'
    BY <2>1, <2>2
  <2>6. CallsCutOnlyAtShutdown'
    BY <2>1, <2>2
  <2> QED
    BY <2>3, <2>4, <2>5, <2>6
<1>14. ASSUME NEW s \in {"SIGHUP", "SIGTERM"}, Signal(s) PROVE PluginInv'
  <2>1. main' \in {main, "dead"} /\ UNCHANGED <<cancelled, worker, pluginVars>>
    BY <1>14 DEF Signal, Goto
  <2>2. PluginTypes' /\ WorkerTypes' /\ OnePlace' /\ RunningIsOwned'
    BY <2>1
  <2>3. AllAccountedFor' /\ StartOrder' /\ KilledIsNotReady'
    BY <2>1
  <2>4. NoProcessLeft' /\ WorkersHaveAllPlugins' /\ CallsCutOnlyAtShutdown'
    BY <2>1
  <2> QED
    BY <2>2, <2>3, <2>4
<1>15. StartMarksReady \/ Serve => UNCHANGED <<control, worker, pluginVars>>
  BY DEF StartMarksReady, Serve
<1>16. ASSUME NEW r \in Requests, Accept(r) \/ wrap(r) \/ ReloadAgentReturns(r)
       PROVE  UNCHANGED <<control, worker, pluginVars>>
  BY <1>16 DEF Accept, wrap, ReloadAgentReturns
<1>17. UNCHANGED vars => UNCHANGED <<control, worker, pluginVars>>
  BY DEF vars
<1> HIDE DEF PluginInv, control, pluginVars
<1> QED
  BY <1>1, <1>2, <1>3, <1>4, <1>5, <1>6, <1>7, <1>8, <1>9, <1>10, <1>11, <1>12, <1>13, <1>14,
     <1>15, <1>16, <1>17 DEF Next, Main

\* The strengthening is an invariant.
LEMMA PluginInvariant == Spec => []PluginInv
  BY PluginInvInit, PluginInvStep, PTL DEF Spec

-----------------------------------------------------------------------------
(* Theorems                                                                *)

\* Whatever step of whatever launch fails and whenever the agent ends, it returns
\* with none of its plugin processes running.  (launchExternalPlugin,
\* dispensePlugins, Agent.stop)
THEOREM ProcessesEnd == Spec => []NoProcessLeft
<1>1. PluginInv => NoProcessLeft
  BY DEF PluginInv
<1> QED
  BY PluginInvariant, <1>1, PTL

\* A worker runs only in an agent all of whose configured plugins were launched.
\* (dispensePlugins, Agent.Run)
THEOREM AllPluginsReady == Spec => []WorkersHaveAllPlugins
<1>1. PluginInv => WorkersHaveAllPlugins
  BY DEF PluginInv
<1> QED
  BY PluginInvariant, <1>1, PTL

\* No process is killed under a worker's call before the context is cancelled.
\* (Agent.Run's deferred calls)
THEOREM CallsEndWithContext == Spec => []CallsCutOnlyAtShutdown
<1>1. PluginInv => CallsCutOnlyAtShutdown
  BY DEF PluginInv
<1> QED
  BY PluginInvariant, <1>1, PTL

=============================================================================
