---------------------------- MODULE RootLifecycle ----------------------------
(***************************************************************************)
(* The life of the daemon: Root.run, Root.stop, Root.reload, the service   *)
(* objects started by start_obj with their cleanups (rci/root.py), the     *)
(* providers' start and stop, and the HTTP server (rci/http.py).           *)
(*                                                                         *)
(* The loop ends with Root.run (daemon.run: run_until_complete), or when a *)
(* signal finds no handler; nothing of the daemon runs after that.         *)
(***************************************************************************)
EXTENDS Naturals, Sequences

CONSTANTS
    Service,      \* the service objects, of modules the configuration names
    HasCleanup,   \* those that have a method cleanup
    Provider,     \* the providers
    Orders,       \* the orders in which iter_providers may yield them
    Stoppable,    \* those that have a method stop
    Faults,       \* what may go wrong
    MaxVersion    \* bound: how often the configuration file is edited

\* Config.load, Provider.start and Service.run may raise.
FaultKind == {"load", "start", "service"}

ASSUME LifecycleAssumption ==
    /\ HasCleanup \subseteq Service
    /\ Orders \subseteq Seq(Provider)
    /\ Stoppable \subseteq Provider
    /\ Faults \subseteq FaultKind
    /\ MaxVersion \in Nat

VARIABLES
    order,       \* the providers, in the order of the dict they are in
    main,        \* where Root.run is
    handlers,    \* are the signal handlers installed?
    stopEvent,   \* Root.stop_event
    hup,         \* Root.reload_event
    started,     \* how many providers have been started
    stops,       \* how often the loop over the providers has called prov.stop()
    stopped,     \* the providers that were stopped
    object,      \* the task of each service in _running_objects
    cleanup,     \* the task of each service in _running_cleanups
    http,        \* the HTTP server
    reload,      \* the task of Root.reload
    disk,        \* version of the configuration file
    config       \* version of the configuration the daemon uses, 0 for none

vars == <<order, main, handlers, stopEvent, hup, started, stops, stopped,
          object, cleanup, http, reload, disk, config>>

Over == {"exited", "raised", "killed"}
Main == {"new", "providers", "serving", "joining", "draining", "cleaning",
         "stopping", "closing"} \union Over
TaskState == {"none", "running", "cancelled", "ended"}

TypeOK ==
    /\ order \in Orders
    /\ main \in Main
    /\ {handlers, stopEvent, hup} \subseteq BOOLEAN
    /\ started \in 0..Len(order)
    /\ stops \in 0..Len(order)
    /\ stopped \subseteq Stoppable
    /\ object \in [Service -> TaskState]
    /\ cleanup \in [Service -> {"none", "running", "ended"}]
    /\ http \in {"down", "up", "closing", "closed"}
    /\ reload \in {"none", "waiting", "cancelled", "unstarted", "ended"}
    /\ disk \in 1..(MaxVersion + 1)
    /\ config \in 0..disk

Init ==
    /\ order \in Orders
    /\ main = "new"
    /\ handlers = TRUE
    /\ stopEvent = FALSE
    /\ hup = FALSE
    /\ started = 0
    /\ stops = 0
    /\ stopped = {}
    /\ object = [s \in Service |-> "none"]
    /\ cleanup = [s \in Service |-> "none"]
    /\ http = "down"
    /\ reload = "none"
    /\ disk = 1
    /\ config = 0

Alive == main \notin Over

------------------------------------------------------------------------------
(* Root.run: the configuration is loaded and the services are started.     *)
(* The file may be invalid, and a later service may fail to be created.    *)
Load ==
    /\ main = "new"
    /\ \/ main' = "providers" /\ config' = disk /\ object' = [s \in Service |-> "running"]
       \/ /\ "load" \in Faults
          /\ main' = "raised"
          /\ \/ UNCHANGED <<config, object>>
             \/ /\ config' = disk
                /\ \E S \in SUBSET Service :
                      object' = [s \in Service |-> IF s \in S THEN "running" ELSE "none"]
    /\ UNCHANGED <<order, handlers, stopEvent, hup, started, stops, stopped,
                   cleanup, http, reload, disk>>

(* The providers are started one after the other.                          *)
StartProvider ==
    /\ main = "providers"
    /\ started < Len(order)
    /\ \/ /\ started' = started + 1
          /\ UNCHANGED main
       \/ /\ "start" \in Faults
          /\ main' = "raised"
          /\ UNCHANGED started
    /\ UNCHANGED <<order, handlers, stopEvent, hup, stops, stopped, object,
                   cleanup, http, reload, disk, config>>

(* The server is up, reload() is a task, and Root.run waits for            *)
(* stop_event.  When that is set already, wait() returns at once and       *)
(* cancel() finds a task that has not run yet.                             *)
Serve ==
    /\ main = "providers"
    /\ started = Len(order)
    /\ http' = "up"
    /\ IF stopEvent
       THEN main' = "joining" /\ reload' = "unstarted"
       ELSE main' = "serving" /\ reload' = "waiting"
    /\ UNCHANGED <<order, handlers, stopEvent, hup, started, stops, stopped,
                   object, cleanup, disk, config>>

(* create_server raises: the address is in use.                            *)
ServeRaises ==
    /\ "start" \in Faults
    /\ main = "providers"
    /\ started = Len(order)
    /\ main' = "raised"
    /\ UNCHANGED <<order, handlers, stopEvent, hup, started, stops, stopped,
                   object, cleanup, http, reload, disk, config>>

(* Seeded fault: an interrupt goes straight to the providers.              *)
Interrupted_KeepServices ==
    /\ main = "serving"
    /\ stopEvent
    /\ main' = "stopping"
    /\ UNCHANGED <<order, handlers, stopEvent, hup, started, stops, stopped,
                   object, cleanup, http, reload, disk, config>>

(* Root.run wakes and cancels reload().                                    *)
Interrupted ==
    /\ main = "serving"
    /\ stopEvent
    /\ main' = "joining"
    /\ reload' = IF reload = "waiting" THEN "cancelled" ELSE reload
    /\ UNCHANGED <<order, handlers, stopEvent, hup, started, stops, stopped,
                   object, cleanup, http, disk, config>>

(* A cancelled reload() catches the CancelledError in its first try and    *)
(* returns, through the finally clause; one that never ran does not catch  *)
(* anything, and "yield from reload_fut" raises.                           *)
ReloadEnds ==
    /\ Alive
    /\ reload = "cancelled"
    /\ reload' = "ended"
    /\ hup' = FALSE
    /\ UNCHANGED <<order, main, handlers, stopEvent, started, stops, stopped,
                   object, cleanup, http, disk, config>>

JoinRaises ==
    /\ main = "joining"
    /\ reload = "unstarted"
    /\ main' = "raised"
    /\ UNCHANGED <<order, handlers, stopEvent, hup, started, stops, stopped,
                   object, cleanup, http, reload, disk, config>>

Running == {s \in Service : object[s] = "running"}

(* Seeded fault: the objects are waited for and not cancelled.             *)
CancelObjects_Not ==
    /\ main = "joining"
    /\ reload = "ended"
    /\ main' = IF Running = {} THEN "raised" ELSE "draining"
    /\ UNCHANGED <<order, handlers, stopEvent, hup, started, stops, stopped,
                   object, cleanup, http, reload, disk, config>>

(* The service objects are cancelled; asyncio.wait raises ValueError when  *)
(* there are none.                                                         *)
CancelObjects ==
    /\ main = "joining"
    /\ reload = "ended"
    /\ IF Running = {}
       THEN main' = "raised" /\ UNCHANGED object
       ELSE /\ main' = "draining"
            /\ object' = [s \in Service |-> IF s \in Running THEN "cancelled" ELSE object[s]]
    /\ UNCHANGED <<order, handlers, stopEvent, hup, started, stops, stopped,
                   cleanup, http, reload, disk, config>>

(* Seeded fault: the cleanups are not waited for.                          *)
Drained_NoCleanups ==
    /\ main = "draining"
    /\ \A s \in Service : object[s] = "ended"
    /\ main' = "stopping"
    /\ UNCHANGED <<order, handlers, stopEvent, hup, started, stops, stopped,
                   object, cleanup, http, reload, disk, config>>

(* All objects have ended, with their done callbacks; are there cleanups?  *)
Drained ==
    /\ main = "draining"
    /\ \A s \in Service : object[s] = "ended"
    /\ main' = IF \E s \in Service : cleanup[s] = "running" THEN "cleaning" ELSE "stopping"
    /\ UNCHANGED <<order, handlers, stopEvent, hup, started, stops, stopped,
                   object, cleanup, http, reload, disk, config>>

Cleaned ==
    /\ main = "cleaning"
    /\ \A s \in Service : cleanup[s] # "running"
    /\ main' = "stopping"
    /\ UNCHANGED <<order, handlers, stopEvent, hup, started, stops, stopped,
                   object, cleanup, http, reload, disk, config>>

(* The loop over the providers calls prov.stop() each time, and prov is    *)
(* the last provider that was started; it may have no method stop.         *)
StopProvider ==
    LET prov == order[Len(order)]
    IN  /\ main = "stopping"
        /\ stops < Len(order)
        /\ IF prov \in Stoppable
           THEN /\ stops' = stops + 1
                /\ stopped' = stopped \union {prov}
                /\ UNCHANGED main
           ELSE /\ main' = "raised"
                /\ UNCHANGED <<stops, stopped>>
        /\ UNCHANGED <<order, handlers, stopEvent, hup, started, object,
                       cleanup, http, reload, disk, config>>

CloseHttp ==
    /\ main = "stopping"
    /\ stops = Len(order)
    /\ main' = "closing"
    /\ http' = "closing"
    /\ UNCHANGED <<order, handlers, stopEvent, hup, started, stops, stopped,
                   object, cleanup, reload, disk, config>>

Exit ==
    /\ main = "closing"
    /\ main' = "exited"
    /\ http' = "closed"
    /\ UNCHANGED <<order, handlers, stopEvent, hup, started, stops, stopped,
                   object, cleanup, reload, disk, config>>

------------------------------------------------------------------------------
(* run_obj ends: cancelled, or because the service raised.  Its done       *)
(* callback, here part of the step, starts the cleanup of a service that   *)
(* has one.                                                                *)
ObjectEnds(s) ==
    /\ Alive
    /\ object[s] = "cancelled" \/ (object[s] = "running" /\ "service" \in Faults)
    /\ object' = [object EXCEPT ![s] = "ended"]
    /\ cleanup' = [cleanup EXCEPT ![s] = IF s \in HasCleanup THEN "running" ELSE @]
    /\ UNCHANGED <<order, main, handlers, stopEvent, hup, started, stops,
                   stopped, http, reload, disk, config>>

(* run_cleanup ends, whatever the cleanup raised.                          *)
CleanupEnds(s) ==
    /\ Alive
    /\ cleanup[s] = "running"
    /\ cleanup' = [cleanup EXCEPT ![s] = "ended"]
    /\ UNCHANGED <<order, main, handlers, stopEvent, hup, started, stops,
                   stopped, object, http, reload, disk, config>>

(* reload() wakes and calls Config with three arguments.  Config.__init__  *)
(* takes one: the TypeError is logged, and the loop starts over.           *)
Reload ==
    /\ Alive
    /\ reload = "waiting"
    /\ hup
    /\ hup' = FALSE
    /\ UNCHANGED <<order, main, handlers, stopEvent, started, stops, stopped,
                   object, cleanup, http, reload, disk, config>>

------------------------------------------------------------------------------
(* The outside.  SIGINT is Root.stop, SIGHUP sets reload_event; once stop  *)
(* has removed the handlers either signal ends the process.                *)
Sigint ==
    /\ Alive
    /\ IF handlers
       THEN handlers' = FALSE /\ stopEvent' = TRUE /\ UNCHANGED main
       ELSE main' = "killed" /\ UNCHANGED <<handlers, stopEvent>>
    /\ UNCHANGED <<order, hup, started, stops, stopped, object, cleanup,
                   http, reload, disk, config>>

Sighup ==
    /\ Alive
    /\ IF handlers
       THEN hup' = TRUE /\ UNCHANGED main
       ELSE main' = "killed" /\ UNCHANGED hup
    /\ UNCHANGED <<order, handlers, stopEvent, started, stops, stopped,
                   object, cleanup, http, reload, disk, config>>

Edit ==
    /\ Alive
    /\ disk <= MaxVersion
    /\ disk' = disk + 1
    /\ UNCHANGED <<order, main, handlers, stopEvent, hup, started, stops,
                   stopped, object, cleanup, http, reload, config>>

------------------------------------------------------------------------------
Run ==
    \/ Load \/ StartProvider \/ Serve \/ ServeRaises \/ Interrupted \/ JoinRaises
    \/ CancelObjects \/ Drained \/ Cleaned \/ StopProvider \/ CloseHttp \/ Exit
Signals == Sigint \/ Sighup \/ Edit

Next ==
    \/ Run \/ Reload \/ ReloadEnds \/ Signals
    \/ \E s \in Service : ObjectEnds(s) \/ CleanupEnds(s)

Spec == Init /\ [][Next]_vars

(* The loop runs what is ready, a service ends when it is cancelled, and a *)
(* cleanup ends.  Nothing is assumed of the signals.                       *)
FairSpec ==
    /\ Spec
    /\ WF_vars(Run) /\ WF_vars(Reload) /\ WF_vars(ReloadEnds)
    /\ \A s \in Service : /\ WF_vars(object[s] = "cancelled" /\ ObjectEnds(s))
                          /\ WF_vars(CleanupEnds(s))

------------------------------------------------------------------------------
(* Properties.                                                             *)

(* A request can only arrive when every provider is there for its job.     *)
ServesWhenReady ==
    http # "down" => started = Len(order) /\ config # 0

(* "Exit." means that all is over: no service task, no cleanup, no server, *)
(* no reload(), and the one provider that is stopped is stopped.           *)
ExitIsOrderly ==
    main = "exited" =>
        /\ \A s \in Service : object[s] = "ended" /\ cleanup[s] # "running"
        /\ \A s \in HasCleanup : cleanup[s] = "ended"
        /\ http = "closed" /\ reload = "ended"
        /\ order # <<>> => order[Len(order)] \in stopped

(* Root.run raises with services still running only while it starts: when  *)
(* something fails before the HTTP server is up, or when the interrupt     *)
(* comes before that, so that reload() is cancelled before it ever ran.    *)
(* Later on every service has been cancelled first.                        *)
AbandonedOnStartOnly ==
    main = "raised" /\ http # "down" =>
        reload = "unstarted" \/ \A s \in Service : object[s] = "ended"

(* A daemon that serves and is interrupted ends, with no service running,  *)
(* unless a second signal kills it.                                        *)
StopCompletes ==
    (main = "serving" /\ stopEvent) ~>
        \/ main \in {"exited", "killed"}
        \/ main = "raised" /\ \A s \in Service : object[s] = "ended"

==============================================================================
