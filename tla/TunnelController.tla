-------------------------- MODULE TunnelController --------------------------
(***************************************************************************)
(* The app's side of the tunnel: SingboxTunnel (singbox_tunnel.dart), what *)
(* the screens show and ask for, over the Android service of TunnelService *)
(* it talks to through two channels.  Calls go to the plugin in order and  *)
(* are answered one by one; what TunnelState is set to comes back as a     *)
(* status, after it has been posted to the main looper.                    *)
(*                                                                         *)
(* What is abstracted:                                                     *)
(*   - of each profile at most one connect, one disconnect and one         *)
(*     forgetProfile is under way at a time, and it has share links to     *)
(*     connect with;                                                       *)
(*   - an answer is taken the moment it is given; the statuses posted      *)
(*     before it may still be under way;                                   *)
(*   - a time-out may come as soon as the answer has;                      *)
(*   - TunnelState.set assigns in the step of TunnelService that calls it, *)
(*     and posts with it or in a step of its own, at most one at a time;   *)
(*   - a status that cannot be decoded, a channel that breaks and a plugin *)
(*     that is not registered are left out.                                *)
(* Bounds that are part of the specification: something new is asked for   *)
(* only when no call is on its way to the plugin and no status to the app, *)
(* and nothing once a profile was forgotten (Calm); what comes from        *)
(* outside of the app comes at rest (Reopen, Outside).                     *)
(***************************************************************************)
EXTENDS TunnelService, FiniteSets

CONSTANT Callers    \* bounds the calls of the controller under way at once

\* No status is what stands for none.
ASSUME HeldAssumption ==
    None \notin [stage : Stage, by : {"main", "worker", "binder"}]

VARIABLES
    \* SingboxTunnel
    shown,      \* status: its stage, and the profile it is stamped with
    active,     \* _activeProfileId
    phase,      \* how far each call is
    heard,      \* what its completer was completed with
    \* TunnelModel
    button,     \* status, which the connect button goes by
    \* on their way
    calls,      \* to the plugin: those they are made by
    held,       \* assigned by a thread that is still to post it
    posts,      \* posted to the app, in order
    \* history
    asked,      \* the profile a connect was called for last
    forgotten,  \* the profile forgetProfile had no complaint about
    stopped,    \* those being forgotten, or forgotten, whose stop went to the service
    raced       \* two threads were in TunnelState.set at once

app == <<shown, active, phase, heard, button>>
channel == <<calls, held, posts>>
memory == <<asked, forgotten, stopped, raced>>
every == <<vars, app, channel, memory>>

Status(stage, profile) == [stage |-> stage, profile |-> profile]

\* A call of the controller: for which profile, and which of its methods.
Caller == Profile \X {"connect", "disconnect", "forget"}

ControllerTypeOK ==
    /\ shown \in [stage : Stage, profile : Profile \cup {None}]
    /\ active \in Profile \cup {None}
    /\ phase \in [Caller -> {"idle", "asking", "calling", "waiting"}]
    /\ heard \in [Caller -> Stage \cup {None}]
    /\ button \in [stage : Stage, profile : Profile \cup {None}]
    /\ calls \in Seq(Caller)
    /\ held \in [stage : Stage, by : {"main", "worker", "binder"}] \cup {None}
    /\ posts \in Seq(Stage)
    /\ asked \in Profile \cup {None}
    /\ forgotten \in Profile \cup {None}
    /\ stopped \subseteq Profile
    /\ raced \in BOOLEAN

\* The app as it is after its start: BaseTunnelController.
Fresh ==
    [shown |-> Status("disconnected", None),
     active |-> None,
     phase |-> [c \in Caller |-> "idle"],
     heard |-> [c \in Caller |-> None]]

ControllerInit ==
    /\ Init
    /\ shown = Fresh.shown /\ button = Fresh.shown /\ active = Fresh.active
    /\ phase = Fresh.phase /\ heard = Fresh.heard
    /\ calls = <<>> /\ held = None /\ posts = <<>>
    /\ asked = None /\ forgotten = None /\ stopped = {} /\ raced = FALSE
-----------------------------------------------------------------------------
(***************************************************************************)
(* The screens                                                             *)
(***************************************************************************)

\* Bounds: something new comes in when no status is on its way and no call is being
\* made, with fewer than Callers under way, and nothing after two threads were in set at once or a profile was forgotten.
Calm ==
    /\ HasRoom
    /\ \A c \in Caller : phase[c] \in {"idle", "waiting"}
    /\ Cardinality({c \in Caller : phase[c] # "idle"}) < Callers
    /\ held = None /\ posts = <<>>
    /\ ~raced /\ forgotten = None

Idle == \A c \in Caller : phase[c] = "idle"

\* The caller is done with its call.
Leaves(c) ==
    /\ phase' = [phase EXCEPT ![c] = "idle"]
    /\ heard' = [heard EXCEPT ![c] = None]

\* emit, which TunnelModel listens to.
Emits(status) == shown' = status /\ button' = status

\* What the button of a profile offers: Disconnect when it is shown connected, nothing
\* while it is coming up, Connect otherwise.
Offered(p) ==
    IF button.profile # p THEN "connect"
    ELSE IF button.stage = "connected" THEN "disconnect"
    ELSE IF button.stage = "connecting" THEN "nothing"
    ELSE "connect"

\* Faulty variant: _activeProfileId, once set, is kept.
StampedOnce(p) == IF active = None THEN p ELSE active

\* Whose name the statuses are given from now on.
Stamped(p) == p

\* connect, as far as the question whether the app may open a tunnel at all.
Connect(p) ==
    /\ Calm
    /\ phase[<<p, "connect">>] = "idle"
    /\ Offered(p) = "connect"
    /\ active' = Stamped(p)
    /\ Emits(Status("connecting", p))
    /\ phase' = [phase EXCEPT ![<<p, "connect">>] = "asking"]
    /\ asked' = p
    /\ stopped' = stopped \ {p}
    /\ UNCHANGED <<vars, heard, channel, forgotten, raced>>

\* Faulty variant: connect throws and emits nothing.
DenySilently(p) ==
    /\ phase[<<p, "connect">>] = "asking"
    /\ Leaves(<<p, "connect">>)
    /\ UNCHANGED <<vars, shown, button, active, channel, memory>>

\* The configuration cannot be built, or consent is refused: _fail.
Deny(p) ==
    /\ phase[<<p, "connect">>] = "asking"
    /\ Emits(Status("failed", p))
    /\ Leaves(<<p, "connect">>)
    /\ UNCHANGED <<vars, active, channel, memory>>

\* The call that goes out, its completer registered before it.
Sends(c) ==
    /\ calls' = Append(calls, c)
    /\ phase' = [phase EXCEPT ![c] = "calling"]

Permit(p) ==
    /\ phase[<<p, "connect">>] = "asking"
    /\ Sends(<<p, "connect">>)
    /\ UNCHANGED <<vars, shown, button, active, heard, held, posts, memory>>

\* disconnect; offered over a tunnel that is shown up, it has something to stop.
Disconnect(p) ==
    /\ Calm
    /\ phase[<<p, "disconnect">>] = "idle"
    /\ Offered(p) = "disconnect"
    /\ Sends(<<p, "disconnect">>)
    /\ UNCHANGED <<vars, shown, button, active, heard, held, posts, memory>>

\* Nothing of another profile's is touched, and only what is shown up or coming up
\* is stopped.
WorthStopping(p) ==
    shown.profile \in {None, p} /\ shown.stage \in {"connecting", "connected"}

\* forgetProfile, which the list offers whatever else is under way.  Android has
\* nothing to remove but what the stop removes.
Forget(p) ==
    /\ Calm
    /\ phase[<<p, "forget">>] = "idle"
    /\ IF WorthStopping(p)
       THEN Sends(<<p, "forget">>) /\ UNCHANGED forgotten
       ELSE forgotten' = p /\ UNCHANGED <<phase, calls>>
    /\ UNCHANGED <<vars, shown, button, active, heard, held, posts, asked, stopped, raced>>

\* Somebody who was told of a failure that the controller does not report: TunnelModel
\* reports it.
Overlaid(c) ==
    IF c[2] = "connect" /\ heard[c] # "connected" /\ button.stage # "failed"
    THEN Status("failed", c[1])
    ELSE IF c[2] = "disconnect" /\ heard[c] = "failed"
    THEN Status("failed", button.profile)
    ELSE button

\* The completer was completed: connect returns or throws, disconnect throws if it
\* was with a failure, and forgetProfile complains of that.
Settled(c) ==
    /\ phase[c] = "waiting"
    /\ heard[c] # None
    /\ button' = Overlaid(c)
    /\ IF c[2] = "forget" /\ heard[c] # "failed"
       THEN forgotten' = c[1] /\ UNCHANGED stopped
       ELSE /\ stopped' = stopped \ {p \in {c[1]} : c[2] = "forget"}
            /\ UNCHANGED forgotten
    /\ Leaves(c)
    /\ UNCHANGED <<vars, shown, active, channel, asked, raced>>

\* Nothing came in time, and that is shown.
TimeOut(c) ==
    /\ phase[c] = "waiting"
    /\ heard[c] = None
    /\ Emits(Status("failed", IF c[2] = "connect" THEN c[1] ELSE active))
    /\ stopped' = stopped \ {p \in {c[1]} : c[2] = "forget"}
    /\ Leaves(c)
    /\ UNCHANGED <<vars, active, channel, asked, forgotten, raced>>

\* Every completer not yet completed, unless the tunnel is still coming up.
Heard(stage) ==
    [c \in Caller |->
        IF phase[c] \in {"calling", "waiting"} /\ heard[c] = None /\ stage # "connecting"
        THEN stage ELSE heard[c]]

\* _onPlatformStatus: stamped with the active profile.
Deliver ==
    /\ posts # <<>>
    /\ posts' = Tail(posts)
    /\ Emits(Status(Head(posts), active))
    /\ heard' = Heard(Head(posts))
    /\ UNCHANGED <<vars, active, phase, calls, held, memory>>

Restarts ==
    /\ Emits(Fresh.shown)
    /\ active' = Fresh.active
    /\ phase' = Fresh.phase /\ heard' = Fresh.heard
    /\ asked' = None

\* The app is closed and opened again over a service that went on: the status is
\* replayed.  Bound: with nothing on its way.
Reopen ==
    /\ Calm
    /\ Quiet /\ Idle
    /\ Restarts
    /\ posts' = <<current>>
    /\ UNCHANGED <<vars, calls, held, forgotten, stopped, raced>>
-----------------------------------------------------------------------------
(***************************************************************************)
(* The service, and TunnelState.set                                        *)
(***************************************************************************)

\* The thread has posted what it has assigned.
Free(thread) == held # None => held.by # thread

\* A step of a thread that does not set the status, and one that does.
SetsNot(thread) == Free(thread) /\ UNCHANGED <<held, posts, raced>>

Sets(thread) ==
    /\ Free(thread)
    /\ \/ /\ posts' = Append(posts, current')
          /\ raced' = (raced \/ held # None)
          /\ UNCHANGED held
       \/ /\ held = None
          /\ held' = [stage |-> current', by |-> thread]
          /\ UNCHANGED <<posts, raced>>

SetsIf(thread, sets) == IF sets THEN Sets(thread) ELSE SetsNot(thread)

\* The second half of set.
Post ==
    /\ held # None
    /\ posts' = Append(posts, held.stage)
    /\ held' = None
    /\ UNCHANGED <<vars, app, calls, memory>>

\* The plugin's call at the head is answered: with an error, if Android refuses.
Answer ==
    LET c == Head(calls)
    IN  /\ calls # <<>>
        /\ calls' = Tail(calls)
        /\ \/ /\ \/ c[2] = "connect" /\ PluginStart(c[1]) /\ Sets("main")
                 \/ c[2] # "connect" /\ PluginStop /\ SetsNot("main")
                 \/ c[2] # "connect" /\ PluginStopsNothing /\ Sets("main")
              /\ phase' = [phase EXCEPT ![c] = "waiting"]
              /\ stopped' = stopped \cup {p \in {c[1]} : c[2] = "forget" /\ serviceRunning}
              /\ UNCHANGED <<shown, button, heard>>
           \/ /\ c[2] = "connect" \/ serviceRunning
              /\ Refused /\ Sets("main")
              /\ Emits(Status("failed", IF c[2] = "connect" THEN c[1] ELSE active))
              /\ Leaves(c)
              /\ UNCHANGED stopped
        /\ UNCHANGED <<active, asked, forgotten>>

\* What the threads of the service do by themselves.  A shutdown posts its stopSelf
\* after it has set the status.
MainStep ==
    \/ (OnStart \/ Republish \/ OnDestroyCorrects) /\ Sets("main")
    \/ /\ OnCreate \/ OnStop \/ OnStartIgnored \/ OnDestroy \/ OnDestroyFinds
          \/ Drained \/ Undrained
       /\ SetsNot("main")
    \/ OnStopSelf /\ Free("worker") /\ SetsNot("main")

BinderStep(s) == OnRevoke(s) /\ SetsIf("binder", ~open[s])

WorkerStep(s) ==
    \/ (Connected(s) \/ ShutdownReports(s)) /\ Sets("worker")
    \/ (ResolveFails(s) \/ LaunchFails(s)) /\ SetsIf("worker", ~open[s])
    \/ (Resolve(s) \/ Launch(s) \/ Release(s) \/ ShutdownReleases(s)) /\ SetsNot("worker")

ServiceStep ==
    /\ MainStep \/ \E s \in Service : BinderStep(s) \/ WorkerStep(s)
    /\ UNCHANGED <<app, calls, asked, forgotten, stopped>>

\* What happens to the service from outside of the app.  Bound: while nothing else is
\* under way; TunnelService has it at any moment.
Outside ==
    /\ Calm
    /\ Quiet /\ Idle
    /\ AlwaysOn \/ NotificationStop \/ Reclaim \/ Revoke
    /\ UNCHANGED <<app, channel, memory>>

\* The service has done what it was asked to.
Finished == Quiet /\ "undrained" \notin mishaps

\* The process is killed, and the app with it; a stop that is under way goes with them.
Killed ==
    /\ ProcessDies
    /\ Restarts
    /\ calls' = <<>> /\ held' = None /\ posts' = <<>>
    /\ stopped' = IF Finished THEN stopped \cap {forgotten} ELSE {}
    /\ UNCHANGED <<forgotten, raced>>
-----------------------------------------------------------------------------
Screen(p) ==
    Connect(p) \/ Permit(p) \/ Deny(p) \/ Disconnect(p) \/ Forget(p)

ControllerNext ==
    \/ \E p \in Profile : Screen(p)
    \/ \E c \in Caller : Settled(c) \/ TimeOut(c)
    \/ Post \/ Deliver \/ Reopen
    \/ Answer \/ ServiceStep
    \/ Outside \/ Killed

ControllerSpec == ControllerInit /\ [][ControllerNext]_every
-----------------------------------------------------------------------------
(***************************************************************************)
(* Properties                                                              *)
(***************************************************************************)

\* Nothing is on its way, in the service or to the app.
AtRest == Quiet /\ Idle /\ calls = <<>> /\ held = None /\ posts = <<>>

\* At rest the app shows what the tunnel reports, or a failure: connect says
\* CONNECTING before anything has happened, and whatever becomes of it that is not
\* what stays (singbox_tunnel.dart:100, 137-159).  Two threads in TunnelState.set at
\* once may post in the other order than they assigned (TunnelState.kt:48).
ShownIsReported == AtRest /\ ~raced => shown.stage \in {current, "failed"}

\* At rest a profile shown connected is the one the traffic goes to, unless the
\* connect called last was not the start the service let through last: a start that
\* is refused, denied, or ignored over a tunnel that is up has renamed that tunnel,
\* and so may one Android makes by itself (singbox_tunnel.dart:78-81, 302).
ShownIsRouted ==
    /\ AtRest /\ shown.stage = "connected" /\ shown.profile # None
    /\ asked = wished
    /\ ~raced /\ mishaps \cap {"overtaken", "echoed", "undrained", "reopened"} = {}
    => routed # None /\ engine[routed] = shown.profile

\* Once forgetProfile returns, and the stop it asked for has gone to the service and
\* been carried out, nothing is left that starts the profile, and nothing routes to it,
\* unless a connect of it was called since: whatever else was under way, a connect of
\* the same profile included, and whichever status the call was answered with
\* (singbox_tunnel.dart:226-238).  Not so when the plugin found no service to stop while
\* a start was still to come, nor when onDestroy did not wait; and a command server
\* that was built over runs on.
StopForgets ==
    AtRest /\ forgotten \in stopped /\ "undrained" \notin mishaps =>
        /\ saved # forgotten
        /\ routed # None => engine[routed] # forgotten
        /\ "reopened" \notin mishaps => leaked = None

\* A profile is forgotten when forgetProfile says nothing else: nothing is left
\* that starts it (tunnel_api.dart:125-126, singbox_tunnel.dart:243-246).
ForgetIsComplete == AtRest /\ forgotten # None => saved # forgotten
=============================================================================
