---------------------------- MODULE PluginManager ---------------------------
(***************************************************************************)
(* The plugin manager (plugins/manager): Load records what is configured   *)
(* and dispensePlugins launches the plugins one after the other.  An       *)
(* internal plugin is a value in the agent; an external one is a process   *)
(* that must be killed whenever it will not be used.                       *)
(*                                                                         *)
(* A plugin's ID is its name with its type.  A configuration entry is its  *)
(* ID and its driver; what a plugin answers is up to the plugin.           *)
(***************************************************************************)
EXTENDS Integers, Sequences

CONSTANTS
  Configured,   \* the entries in the order of the configuration
  Internal      \* the drivers that are built in

VARIABLES
  onDisk,           \* the drivers with an executable in the plugin directory
  plugins,          \* ID -> the entry to launch and whether it is internal
  todo,             \* IDs that dispensePlugins has still to launch
  launch,           \* the plugin being launched
  launchErr,        \* mErr is not nil
  process,          \* ID -> the external process
  pluginInstances   \* IDs that can be dispensed

pluginVars == <<onDisk, plugins, todo, launch, launchErr, process, pluginInstances>>

IDs == {Configured[i].id : i \in 1..Len(Configured)}
Drivers == {Configured[i].driver : i \in 1..Len(Configured)}
NotLaunching == [id |-> "", step |-> "none"]

PluginsInit ==
  /\ onDisk \in SUBSET Drivers
  /\ plugins = <<>>
  /\ todo = {}
  /\ launch = NotLaunching
  /\ launchErr = FALSE
  /\ process = [id \in IDs |-> "none"]
  /\ pluginInstances = {}

-----------------------------------------------------------------------------
(* Load                                                                    *)

useInternal(driver) == driver \notin onDisk /\ driver \in Internal

loadInternalPlugin(entry) == [driver |-> entry.driver, factory |-> TRUE]
loadExternalPlugin(entry) == [driver |-> entry.driver, factory |-> FALSE]

\* The last entry with an ID is the one that counts.
Load ==
  /\ plugins' = [id \in IDs |->
       LET last == CHOOSE i \in 1..Len(Configured) :
                     /\ Configured[i].id = id
                     /\ \A j \in (i+1)..Len(Configured) : Configured[j].id # id
       IN  IF useInternal(Configured[last].driver)
             THEN loadInternalPlugin(Configured[last])
             ELSE loadExternalPlugin(Configured[last])]
  /\ todo' = IDs
  /\ pluginInstances' = {}
  /\ UNCHANGED <<onDisk, launch, launchErr, process>>

-----------------------------------------------------------------------------
(* dispensePlugins                                                         *)

\* The map is ranged over in any order.
StartLaunch(id) ==
  /\ launch = NotLaunching
  /\ id \in todo
  /\ todo' = todo \ {id}
  /\ launch' = [id |-> id, step |-> IF plugins[id].factory THEN "check" ELSE "client"]
  /\ UNCHANGED <<onDisk, plugins, launchErr, process, pluginInstances>>

\* client.Client starts the process and connects to it.
launchExternalPlugin ==
  /\ launch.step = "client"
  /\ launch' = [launch EXCEPT !.step = "dispense"]
  /\ process' = [process EXCEPT ![launch.id] = "running"]
  /\ UNCHANGED <<onDisk, plugins, todo, launchErr, pluginInstances>>

\* The RPC client dispenses the plugin of the configured type.
DispenseRPC ==
  /\ launch.step = "dispense"
  /\ launch' = [launch EXCEPT !.step = "check"]
  /\ UNCHANGED <<onDisk, plugins, todo, launchErr, process, pluginInstances>>

\* The plugin is a base plugin, and its name and type are the configured ones.
pluginLaunchCheck ==
  /\ launch.step = "check"
  /\ launch' = [launch EXCEPT !.step = "config"]
  /\ UNCHANGED <<onDisk, plugins, todo, launchErr, process, pluginInstances>>

SetConfig ==
  /\ launch.step = "config"
  /\ launch' = NotLaunching
  /\ pluginInstances' = pluginInstances \union {launch.id}
  /\ UNCHANGED <<onDisk, plugins, todo, launchErr, process>>

Killed(ids) == [id \in IDs |-> IF id \in ids /\ process[id] = "running" THEN "killed" ELSE process[id]]

\* Faulty variant: the process is killed only while it is being connected to.
LaunchFailsEarlyKill ==
  /\ launch.step \in {"client", "dispense", "check", "config"}
  /\ launch' = NotLaunching
  /\ launchErr' = TRUE
  /\ process' = IF launch.step = "config" THEN process ELSE Killed({launch.id})
  /\ UNCHANGED <<onDisk, plugins, todo, pluginInstances>>

\* Faulty variant: the error is logged and not collected.
LaunchFailsLogged ==
  /\ launch.step \in {"client", "dispense", "check", "config"}
  /\ launch' = NotLaunching
  /\ process' = Killed({launch.id})
  /\ UNCHANGED <<onDisk, plugins, todo, launchErr, pluginInstances>>

\* Any of the steps fails: the process is killed, and the loop goes on with the
\* other plugins.
LaunchFails ==
  /\ launch.step \in {"client", "dispense", "check", "config"}
  /\ launch' = NotLaunching
  /\ launchErr' = TRUE
  /\ process' = Killed({launch.id})
  /\ UNCHANGED <<onDisk, plugins, todo, pluginInstances>>

AllLaunched == todo = {} /\ launch = NotLaunching

dispensePlugins ==
  \/ \E id \in IDs : StartLaunch(id)
  \/ launchExternalPlugin \/ DispenseRPC \/ pluginLaunchCheck \/ SetConfig \/ LaunchFails

\* Kill does nothing for an internal plugin.
KillPlugins ==
  /\ process' = Killed(pluginInstances)
  /\ UNCHANGED <<onDisk, plugins, todo, launch, launchErr, pluginInstances>>

Dispense(id) == id \in pluginInstances

=============================================================================
