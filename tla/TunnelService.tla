--------------------------- MODULE TunnelService ---------------------------
(***************************************************************************)
(* The Android tunnel: the plugin that takes the app's connect and         *)
(* disconnect (SingboxTunnelPlugin.kt), the service that runs sing-box     *)
(* (SingboxVpnService.kt), and the process-wide record of what the tunnel  *)
(* is doing that the two meet at (TunnelState.kt).                         *)
(*                                                                         *)
(* Three kinds of thread: the main looper, which runs the plugin and the   *)
(* service's callbacks one message at a time; one worker per service       *)
(* instance, on which sing-box is started and released; and a binder       *)
(* thread, on which Android calls onRevoke.                                *)
(*                                                                         *)
(* What is abstracted:                                                     *)
(*   - Android starts and destroys services by putting messages in the     *)
(*     main looper's queue, in the order it decided on them, and holds at  *)
(*     most one instance to be the current one;                            *)
(*   - a configuration is the Profile it was built for; how sing-box       *)
(*     starts is one step that may open a TUN, not open one, or fail;      *)
(*   - VPN consent is on file: without it openTun fails, as it may anyway; *)
(*   - a callback on the main looper and a command of the plugin are one   *)
(*     step, but where the status is read and then set: by a start that is *)
(*     ignored and by a destroy; elsewhere the worker's steps in between   *)
(*     give nothing new;                                                   *)
(*   - a status is current as soon as it is set; the posts that carry it   *)
(*     to the app, notifications and the texts of a status are left out;   *)
(*   - start-request.json can always be written: that it could not be is   *)
(*     logged and nothing else (SingboxVpnService.kt:303-308);             *)
(*   - of the command servers an instance has built over, which nothing    *)
(*     closes any more, only that it has some, and whose TUN one of them   *)
(*     still holds;                                                        *)
(*   - nothing connects to the command server, so libbox calls neither     *)
(*     serviceStop nor serviceReload.                                      *)
(***************************************************************************)
EXTENDS Naturals, Sequences

CONSTANTS
    Profile,    \* what the app connects to
    Service,    \* instances of SingboxVpnService; an identity is used again
    None,
    Room,       \* bounds the messages and jobs waiting when something new comes in
    Beyond      \* the mishaps after which something new still comes in

ASSUME ConstantsAssumption ==
    /\ None \notin Profile \cup Service
    /\ {"stop", "system"} \cap Profile = {}
    /\ Room \in Nat

Stage == {"disconnected", "connecting", "connected", "failed"}

\* What an Intent asks for: a profile, ACTION_STOP, or a start Android makes by
\* itself, with no extras (always-on).
Request == Profile \cup {"stop", "system"}

Message ==
    [what : {"create", "stopSelf", "destroy"}, service : Service]
    \cup [what : {"args"}, service : Service, request : Request]

Job ==
    [what : {"start"}, request : Request \ {"stop"}]
    \cup [what : {"shutdown"}, stage : Stage, forget : BOOLEAN]
    \cup [what : {"release"}]

VARIABLES
    \* TunnelState
    current,        \* the status
    serviceRunning,
    \* on disk
    saved,          \* start-request.json
    \* Android
    queue,          \* the main looper's
    bound,          \* the instance Android holds to be the current one
    routed,         \* the instance whose TUN the traffic goes to
    revoked,        \* instances that lost it, and whose onRevoke is still to run
    \* the main thread
    doing,          \* republishing, correcting or waiting for a worker; or Rest
    \* the services
    open,           \* between onCreate and onDestroy: the worker takes new jobs
    boxStarted,
    jobs,           \* the worker's queue; its head is the one being run
    at,             \* where the worker is in it
    engine,         \* commandServer: what it runs
    tun,            \* tunDescriptor is not null
    strays,         \* a command server of theirs was built over, and runs on
    leaked,         \* the instance whose TUN such a server holds a dup of
    \* history
    wished,         \* what should be on disk, by the requests that were accepted
    mishaps         \* orders of events that leave the record wrong: see below

record == <<current, serviceRunning>>
android == <<queue, bound, routed, revoked>>
orphans == <<strays, leaked>>
box == <<boxStarted, engine, tun, orphans>>
worker == <<open, jobs, at>>
history == <<wished, mishaps>>
vars == <<record, saved, android, doing, worker, box, history>>

(***************************************************************************)
(* Orders of events that the code is not proof against; each property says *)
(* which of them it does not survive:                                      *)
(*   "overtaken"   an instance was destroyed with a start not finished     *)
(*   "crossed"     a start was ignored over a tunnel up or coming up       *)
(*   "echoed"      and the status changed while it was being republished   *)
(*   "unguarded"   a release cleared boxStarted for a start behind it      *)
(*   "reopened"    a start ran over a sing-box that was running, which     *)
(*                 nothing closes any more                                 *)
(*   "undrained"   onDestroy did not wait for the worker to the end        *)
(*   "late"        onRevoke ran after the instance's onDestroy             *)
(*   "refused"     Android did not deliver a start or a stop               *)
(***************************************************************************)
Mishap == {"overtaken", "crossed", "echoed", "unguarded", "reopened",
           "undrained", "late", "refused"}

Rest == [then |-> "nothing"]

Doing ==
    {Rest}
    \cup [then : {"republish"}, stage : Stage]
    \cup [then : {"correct"}]
    \cup [then : {"drain"}, service : Service]

TypeOK ==
    /\ current \in Stage
    /\ serviceRunning \in BOOLEAN
    /\ saved \in Profile \cup {None}
    /\ queue \in Seq(Message)
    /\ bound \in Service \cup {None}
    /\ routed \in Service \cup {None}
    /\ revoked \subseteq Service
    /\ doing \in Doing
    /\ open \in [Service -> BOOLEAN]
    /\ boxStarted \in [Service -> BOOLEAN]
    /\ jobs \in [Service -> Seq(Job)]
    /\ at \in [Service -> {"idle", "resolved", "launched", "released"}]
    /\ engine \in [Service -> Profile \cup {None}]
    /\ tun \in [Service -> BOOLEAN]
    /\ strays \subseteq Service
    /\ leaked \in Service \cup {None}
    /\ wished \in Profile \cup {None}
    /\ mishaps \subseteq Mishap

Init ==
    /\ current = "disconnected"
    /\ serviceRunning = FALSE
    /\ saved = None /\ wished = None
    /\ queue = <<>> /\ bound = None /\ routed = None /\ revoked = {}
    /\ doing = Rest
    /\ open = [s \in Service |-> FALSE]
    /\ boxStarted = [s \in Service |-> FALSE]
    /\ jobs = [s \in Service |-> <<>>]
    /\ at = [s \in Service |-> "idle"]
    /\ engine = [s \in Service |-> None]
    /\ tun = [s \in Service |-> FALSE]
    /\ strays = {} /\ leaked = None
    /\ mishaps = {}
-----------------------------------------------------------------------------
(***************************************************************************)
(* Android: startService and startForegroundService, stopSelf.             *)
(***************************************************************************)

Args(s, r) == [what |-> "args", service |-> s, request |-> r]
Lifecycle(what, s) == [what |-> what, service |-> s]

\* An identity none of whose threads, servers and messages is left over.
Unused == {s \in Service \ strays :
    /\ ~open[s] /\ jobs[s] = <<>> /\ s \notin revoked
    /\ doing.then = "drain" => doing.service # s
    /\ \A i \in DOMAIN queue : queue[i].service # s}

StartService(r) ==
    \/ /\ bound # None
       /\ queue' = Append(queue, Args(bound, r))
       /\ UNCHANGED bound
    \/ /\ bound = None
       /\ \E s \in Unused :
            /\ queue' = queue \o <<Lifecycle("create", s), Args(s, r)>>
            /\ bound' = s

\* stopSelf, of an instance that is not the current one, does nothing.
StopSelf(s) ==
    IF bound = s
    THEN queue' = Append(queue, Lifecycle("destroy", s)) /\ bound' = None
    ELSE UNCHANGED <<queue, bound>>

\* The bounds: something new comes in while little is waiting, and no longer
\* than the mishaps that have happened are to be looked beyond.
HasRoom ==
    /\ Len(queue) < Room
    /\ \A s \in Service : Len(jobs[s]) <= Room
    /\ mishaps \subseteq Beyond

\* Always-on starts the service, with no extras.
AlwaysOn ==
    /\ HasRoom
    /\ StartService("system")
    /\ UNCHANGED <<record, saved, routed, revoked, doing, worker, box, history>>

\* The Stop action of the notification, there as long as the service is.
NotificationStop ==
    /\ HasRoom
    /\ bound # None
    /\ StartService("stop")
    /\ UNCHANGED <<record, saved, routed, revoked, doing, worker, box, history>>

\* The system takes the service back, or somebody calls stopService.
Reclaim ==
    /\ HasRoom
    /\ bound # None
    /\ StopSelf(bound)
    /\ UNCHANGED <<record, saved, routed, revoked, doing, worker, box, history>>

\* Another VPN app becomes the active one, or consent is withdrawn: the interface
\* goes, whoever holds it.
Revoke ==
    /\ HasRoom
    /\ routed # None \/ leaked # None
    /\ revoked' = revoked \cup {IF routed # None THEN routed ELSE leaked}
    /\ routed' = None /\ leaked' = None
    /\ UNCHANGED <<record, saved, queue, bound, doing, worker, boxStarted, engine, tun, strays,
                   history>>

\* The process is killed; in the next one there is only what was on disk.
ProcessDies ==
    /\ current' = "disconnected"
    /\ serviceRunning' = FALSE
    /\ saved' = saved /\ wished' = saved
    /\ queue' = <<>> /\ bound' = None /\ routed' = None /\ revoked' = {}
    /\ doing' = Rest
    /\ open' = [s \in Service |-> FALSE]
    /\ boxStarted' = [s \in Service |-> FALSE]
    /\ jobs' = [s \in Service |-> <<>>]
    /\ at' = [s \in Service |-> "idle"]
    /\ engine' = [s \in Service |-> None]
    /\ tun' = [s \in Service |-> FALSE]
    /\ strays' = {} /\ leaked' = None
    /\ mishaps' = {}
-----------------------------------------------------------------------------
(***************************************************************************)
(* The main looper                                                         *)
(***************************************************************************)

\* SingboxTunnelPlugin.start: CONNECTING at once, and the service is asked for.
PluginStart(p) ==
    /\ HasRoom
    /\ doing = Rest
    /\ current' = "connecting"
    /\ StartService(p)
    /\ UNCHANGED <<serviceRunning, saved, routed, revoked, doing, worker, box, history>>

\* SingboxTunnelPlugin.stop, with a service to stop.
PluginStop ==
    /\ HasRoom
    /\ doing = Rest
    /\ serviceRunning
    /\ StartService("stop")
    /\ UNCHANGED <<record, saved, routed, revoked, doing, worker, box, history>>

\* SingboxTunnelPlugin.stop, with none: tearing down nothing is not an error.
PluginStopsNothing ==
    /\ HasRoom
    /\ doing = Rest
    /\ ~serviceRunning
    /\ current' = "disconnected"
    /\ UNCHANGED <<serviceRunning, saved, android, doing, worker, box, history>>

\* Android refuses the start, or the stop, and the plugin says so.
Refused ==
    /\ HasRoom
    /\ doing = Rest
    /\ current' = "failed"
    /\ mishaps' = mishaps \cup {"refused"}
    /\ UNCHANGED <<serviceRunning, saved, android, doing, worker, box, wished>>

\* The next message is this one.
Takes(what) ==
    /\ doing = Rest
    /\ queue # <<>>
    /\ Head(queue).what = what

\* Faulty variant: serviceRunning is not set.
OnCreateUnnoticed ==
    /\ Takes("create")
    /\ queue' = Tail(queue)
    /\ open' = [open EXCEPT ![Head(queue).service] = TRUE]
    /\ UNCHANGED <<record, saved, bound, routed, revoked, doing, jobs, at, box, history>>

OnCreate ==
    /\ Takes("create")
    /\ queue' = Tail(queue)
    /\ open' = [open EXCEPT ![Head(queue).service] = TRUE]
    /\ serviceRunning' = TRUE
    /\ UNCHANGED <<current, saved, bound, routed, revoked, doing, jobs, at, box, history>>

\* SingboxVpnService.shutdown, on an instance whose worker takes jobs.
Shutdown(stage, forget) == [what |-> "shutdown", stage |-> stage, forget |-> forget]

\* onStartCommand with ACTION_STOP: the one stop that forgets.
OnStop ==
    /\ Takes("args")
    /\ Head(queue).request = "stop"
    /\ queue' = Tail(queue)
    /\ LET s == Head(queue).service
       IN  jobs' = [jobs EXCEPT ![s] = Append(@, Shutdown("disconnected", TRUE))]
    /\ wished' = None
    /\ UNCHANGED <<record, saved, bound, routed, revoked, doing, open, at, box, mishaps>>

\* A second start must not build a second command server over the first's TUN.
Guarded(s) == boxStarted[s]

\* onStartCommand with a start that is let through: startBox is queued.
OnStart ==
    /\ Takes("args")
    /\ LET s == Head(queue).service
           r == Head(queue).request
       IN  /\ r # "stop"
           /\ ~Guarded(s)
           /\ boxStarted' = [boxStarted EXCEPT ![s] = TRUE]
           /\ jobs' = [jobs EXCEPT ![s] = Append(@, [what |-> "start", request |-> r])]
           /\ wished' = IF r = "system" THEN wished ELSE r
    /\ current' = "connecting"
    /\ queue' = Tail(queue)
    /\ UNCHANGED <<serviceRunning, saved, bound, routed, revoked, doing, open, at, engine, tun,
                   orphans, mishaps>>

\* onStartCommand with a start over a tunnel that is up, or coming up: it is
\* ignored, and what TunnelState holds is read ...
OnStartIgnored ==
    /\ Takes("args")
    /\ Head(queue).request # "stop"
    /\ Guarded(Head(queue).service)
    /\ queue' = Tail(queue)
    /\ doing' = [then |-> "republish", stage |-> current]
    /\ mishaps' = mishaps \cup {"crossed"}
    /\ UNCHANGED <<record, saved, bound, routed, revoked, worker, box, wished>>

\* ... and set again.
Republish ==
    /\ doing.then = "republish"
    /\ current' = doing.stage
    /\ doing' = Rest
    /\ mishaps' = mishaps \cup (IF current = doing.stage THEN {} ELSE {"echoed"})
    /\ UNCHANGED <<serviceRunning, saved, android, worker, box, wished>>

\* The runnable a shutdown posts.
OnStopSelf ==
    /\ Takes("stopSelf")
    /\ IF Head(queue).service = bound
       THEN /\ queue' = Append(Tail(queue), Lifecycle("destroy", bound))
            /\ bound' = None
       ELSE queue' = Tail(queue) /\ UNCHANGED bound
    /\ UNCHANGED <<record, saved, routed, revoked, doing, worker, box, history>>

Queued(s, what) == \E i \in DOMAIN jobs[s] : jobs[s][i].what = what

\* Faulty variant: nothing is released.
Unreleased(s) == jobs[s]

MarkedUp == current \in {"connected", "connecting"}

\* The release goes behind whatever the worker has still to do.
ToBeReleased(s) == Append(jobs[s], [what |-> "release"])

\* What onDestroy comes to: the release is queued, the worker takes no more, and
\* the main thread waits for it.
TearsDown ==
    /\ queue' = Tail(queue)
    /\ LET s == Head(queue).service
       IN  /\ open' = [open EXCEPT ![s] = FALSE]
           /\ jobs' = [jobs EXCEPT ![s] = ToBeReleased(s)]
           /\ doing' = [then |-> "drain", service |-> s]
           /\ mishaps' = mishaps \cup (IF Queued(s, "start") THEN {"overtaken"} ELSE {})
    /\ serviceRunning' = FALSE
    /\ UNCHANGED <<saved, bound, routed, revoked, at, box, wished>>

\* onDestroy, with the tunnel not marked up.
OnDestroy ==
    /\ Takes("destroy")
    /\ ~MarkedUp
    /\ TearsDown
    /\ UNCHANGED current

\* onDestroy, with the tunnel still marked up when it looks ...
OnDestroyFinds ==
    /\ Takes("destroy")
    /\ MarkedUp
    /\ doing' = [then |-> "correct"]
    /\ UNCHANGED <<record, saved, android, worker, box, history>>

\* ... which is one that failed, whatever has been reported since it looked.
OnDestroyCorrects ==
    /\ doing.then = "correct"
    /\ queue # <<>> /\ Head(queue).what = "destroy"
    /\ current' = "failed"
    /\ TearsDown

Drained ==
    /\ doing.then = "drain"
    /\ jobs[doing.service] = <<>>
    /\ doing' = Rest
    /\ UNCHANGED <<record, saved, android, worker, box, history>>

\* awaitTermination gives up.
Undrained ==
    /\ doing.then = "drain"
    /\ jobs[doing.service] # <<>>
    /\ doing' = Rest
    /\ mishaps' = mishaps \cup {"undrained"}
    /\ UNCHANGED <<record, saved, android, worker, box, wished>>
-----------------------------------------------------------------------------
(***************************************************************************)
(* The binder thread                                                       *)
(***************************************************************************)

\* onRevoke: a shutdown that forgets nothing, reported at once if the worker is
\* closed; then stopSelf, in super.onRevoke.
OnRevoke(s) ==
    /\ s \in revoked
    /\ revoked' = revoked \ {s}
    /\ \/ /\ open[s]
          /\ jobs' = [jobs EXCEPT ![s] = Append(@, Shutdown("failed", FALSE))]
          /\ UNCHANGED <<record, mishaps>>
       \/ /\ ~open[s]
          /\ serviceRunning' = FALSE
          /\ current' = "failed"
          /\ mishaps' = mishaps \cup {"late"}
          /\ UNCHANGED jobs
    /\ StopSelf(s)
    /\ UNCHANGED <<saved, routed, doing, open, at, box, wished>>
-----------------------------------------------------------------------------
(***************************************************************************)
(* The worker of an instance                                               *)
(***************************************************************************)

\* The job at the head is this one, and this far.
Works(s, what, where) ==
    /\ jobs[s] # <<>>
    /\ Head(jobs[s]).what = what
    /\ at[s] = where

Done(s) == jobs' = [jobs EXCEPT ![s] = Tail(@)]

\* Faulty variant: it is tried again.
TriedAgain(s) == jobs[s]

GivenUp(s) == Append(Tail(jobs[s]), Shutdown("failed", FALSE))

\* startBox gives up: the shutdown it asks for is queued behind everything else,
\* or, when onDestroy has closed the worker, only reported.
StartFails(s) ==
    /\ at' = [at EXCEPT ![s] = "idle"]
    /\ \/ /\ open[s]
          /\ jobs' = [jobs EXCEPT ![s] = GivenUp(s)]
          /\ UNCHANGED record
       \/ /\ ~open[s]
          /\ Done(s)
          /\ serviceRunning' = FALSE
          /\ current' = "failed"

\* There is something to start with.
Startable(p) == p # None

\* resolveStartRequest: what was asked for is saved, what was not is read.
Resolve(s) ==
    /\ Works(s, "start", "idle")
    /\ LET r == Head(jobs[s]).request
           p == IF r = "system" THEN saved ELSE r
       IN  /\ Startable(p)
           /\ saved' = p
           /\ jobs' = [jobs EXCEPT ![s] = <<[what |-> "start", request |-> p]>> \o Tail(@)]
    /\ at' = [at EXCEPT ![s] = "resolved"]
    /\ UNCHANGED <<record, android, doing, open, box, history>>

\* There is nothing to start with.
ResolveFails(s) ==
    /\ Works(s, "start", "idle")
    /\ Head(jobs[s]).request = "system"
    /\ saved = None
    /\ StartFails(s)
    /\ UNCHANGED <<saved, android, doing, open, box, history>>

\* The command server is made and the box brought up; openTun is called and
\* establishes, which takes the place of the interface before it, or not.  A server
\* that is running already is not closed, and keeps its dup of the interface.
Launch(s) ==
    /\ Works(s, "start", "resolved")
    /\ engine' = [engine EXCEPT ![s] = Head(jobs[s]).request]
    /\ strays' = IF engine[s] = None THEN strays ELSE strays \cup {s}
    /\ \/ /\ leaked' = IF engine[s] # None /\ routed = s THEN s ELSE leaked
          /\ UNCHANGED <<tun, routed>>
       \/ /\ leaked' = None
          /\ tun' = [tun EXCEPT ![s] = TRUE]
          /\ routed' = s
    /\ at' = [at EXCEPT ![s] = "launched"]
    /\ mishaps' = mishaps \cup (IF engine[s] = None THEN {} ELSE {"reopened"})
    /\ UNCHANGED <<record, saved, queue, bound, revoked, doing, open, jobs, boxStarted, wished>>

\* Faulty variant: a box that has started is a tunnel.
AnyBox(s) == TRUE

\* What tells a tunnel from a running process.
HasTun(s) == tun[s]

\* It returned, and there is a TUN.
Connected(s) ==
    /\ Works(s, "start", "launched")
    /\ HasTun(s)
    /\ current' = "connected"
    /\ Done(s)
    /\ at' = [at EXCEPT ![s] = "idle"]
    /\ UNCHANGED <<serviceRunning, saved, android, doing, open, box, history>>

\* It threw, whatever it had opened by then; or it returned, and there is none.
LaunchFails(s) ==
    /\ Works(s, "start", "launched")
    /\ StartFails(s)
    /\ UNCHANGED <<saved, android, doing, open, box, history>>

\* The command server made last and the descriptor opened last are closed.
ReleaseEngine(s) ==
    /\ engine' = [engine EXCEPT ![s] = None]
    /\ tun' = [tun EXCEPT ![s] = FALSE]
    /\ boxStarted' = [boxStarted EXCEPT ![s] = FALSE]
    /\ routed' = IF routed = s THEN None ELSE routed
    /\ UNCHANGED orphans

\* The release onDestroy asks for.
Release(s) ==
    /\ Works(s, "release", "idle")
    /\ ReleaseEngine(s)
    /\ Done(s)
    /\ UNCHANGED <<record, saved, queue, bound, revoked, doing, open, at, history>>

\* The job shutdown queues: first the release, which may clear boxStarted with a
\* start behind it ...
ShutdownReleases(s) ==
    /\ Works(s, "shutdown", "idle")
    /\ ReleaseEngine(s)
    /\ at' = [at EXCEPT ![s] = "released"]
    /\ mishaps' = mishaps \cup (IF Queued(s, "start") THEN {"unguarded"} ELSE {})
    /\ UNCHANGED <<record, saved, queue, bound, revoked, doing, open, jobs, wished>>

\* Faulty variants: every shutdown forgets; none does; the service is left running.
AlwaysForgotten(job) == None
NeverForgotten(job) == saved
NothingPosted(s) == queue

\* Only the stop a person asked for drops the configuration.
Kept(job) == IF job.forget THEN None ELSE saved

StopSelfPosted(s) == Append(queue, Lifecycle("stopSelf", s))

\* ... then the file, the report, and stopSelf, posted to the main looper.
ShutdownReports(s) ==
    /\ Works(s, "shutdown", "released")
    /\ saved' = Kept(Head(jobs[s]))
    /\ serviceRunning' = FALSE
    /\ current' = Head(jobs[s]).stage
    /\ queue' = StopSelfPosted(s)
    /\ Done(s)
    /\ at' = [at EXCEPT ![s] = "idle"]
    /\ UNCHANGED <<bound, routed, revoked, doing, open, box, history>>
-----------------------------------------------------------------------------
App == PluginStop \/ PluginStopsNothing \/ Refused \/ \E p \in Profile : PluginStart(p)

Android == AlwaysOn \/ NotificationStop \/ Reclaim \/ Revoke \/ ProcessDies

Main ==
    \/ OnCreate \/ OnStop \/ OnStart \/ OnStartIgnored \/ Republish
    \/ OnStopSelf \/ OnDestroy \/ OnDestroyFinds \/ OnDestroyCorrects \/ Drained

Binder == \E s \in Service : OnRevoke(s)

Worker(s) ==
    \/ Resolve(s) \/ ResolveFails(s) \/ Launch(s) \/ Connected(s) \/ LaunchFails(s)
    \/ Release(s) \/ ShutdownReleases(s) \/ ShutdownReports(s)

Machine == Main \/ Binder \/ \E s \in Service : Worker(s)

Next == App \/ Android \/ Machine \/ Undrained

\* Every thread goes on; nothing is assumed of the user and of Android, nor that a
\* wait in onDestroy is ever given up.
Fairness ==
    /\ WF_vars(Main)
    /\ WF_vars(Binder)
    /\ \A s \in Service : WF_vars(Worker(s))

Spec == Init /\ [][Next]_vars

FairSpec == Spec /\ Fairness
-----------------------------------------------------------------------------
(***************************************************************************)
(* Properties                                                              *)
(***************************************************************************)

\* Nothing is on its way.
Quiet ==
    /\ doing = Rest /\ queue = <<>> /\ revoked = {}
    /\ \A s \in Service : jobs[s] = <<>>

\* A status of CONNECTED is true, or a shutdown that is going to correct it is on
\* its way: startBox checks for a TUN before it reports, and whoever takes the TUN
\* away reports that.  Not so when a destroy overtook the start (onDestroy corrects
\* the record first, and startBox then reports), or when the republishing in
\* onStartCommand set what had been read before a shutdown reported.
ConnectedIsUp ==
    current = "connected" /\ mishaps \cap {"overtaken", "echoed"} = {} =>
        routed # None \/ revoked # {} \/ \E s \in Service : Queued(s, "shutdown")

\* At most one sing-box runs.  Of two instances the later is created behind the wait
\* for the release of the earlier, unless that wait was given up; and within an instance
\* boxStarted keeps a second start out while one is up, unless a release cleared it for
\* a start behind it.
OneBox ==
    /\ "undrained" \notin mishaps =>
           \A s, t \in Service : engine[s] # None /\ engine[t] # None => s = t
    /\ "unguarded" \notin mishaps => strays = {}

\* boxStarted keeps a second start from building a command server over the first
\* one's, as long as no release cleared it with a start queued behind the release.
GuardHolds == "reopened" \in mishaps => "unguarded" \in mishaps

\* With the worker idle, start-request.json is what the last start or stop that
\* onStartCommand let through asked for: written and deleted on one thread, in
\* that order, whatever but the write itself failed, was revoked or was destroyed in
\* between.  The thread is an instance's: one that was not waited for writes beside
\* the next one.
SavedIsWished ==
    /\ "undrained" \notin mishaps
    /\ \A s \in Service : ~Queued(s, "start") /\ ~Queued(s, "shutdown")
    => saved = wished

\* The instance is going to be released.
Ending(s) ==
    \/ Queued(s, "shutdown") \/ Queued(s, "release")
    \/ \E i \in DOMAIN queue : queue[i].what \in {"stopSelf", "destroy"} /\ queue[i].service = s

\* When the plugin's stop answers that there is no service to stop, no tunnel is up,
\* or one that is going down by itself.  A revocation that reaches an instance
\* after its onDestroy clears serviceRunning for the one that followed; and nothing
\* closes a command server that was built over, nor the TUN it holds.
StopIsHeard ==
    ~serviceRunning /\ mishaps \cap {"late", "undrained", "reopened"} = {} =>
        /\ leaked = None
        /\ routed # None => Ending(routed)

\* With nothing on its way, a tunnel that is up is reported connected, and nothing
\* is reported as coming up.  CONNECTING stays when the plugin set it for a start
\* that onStartCommand then ignored; a refusal by Android is reported as a failure
\* over a tunnel that is still up, and so is a late revocation.
RestsOnTruth ==
    Quiet =>
        /\ /\ routed # None \/ leaked # None
           /\ mishaps \cap {"crossed", "late", "refused", "undrained", "reopened"} = {}
           => current = "connected"
        /\ current = "connecting" => "crossed" \in mishaps

\* Left alone, the threads come to rest, and without onDestroy giving up its wait: no
\* start is tried for ever, and whoever it waits for does not wait for the main
\* looper in turn.
EventuallyQuiet == <>[][Machine]_vars => []<>Quiet
=============================================================================
