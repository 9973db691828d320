# vpn-stack verification

TLA+ models of the parts of vpn-stack whose correctness depends on the order of
things: what `vpnctl apply` does to the containers, to ufw's rules and to the
FORWARD chain, who holds an IKEv2 certificate, how commands share the files of the
state directory, how secrets are made and kept in step, how the firewall is closed
with a way back in, when the share page lets somebody in, and what the Android tunnel
service reports of the tunnel and the app shows of it. Each model is translated from the
source; TLC checks it on small instances, and TLAPS proves safety properties of most of
them for every value of their constants.

    tlc -config Apply.cfg MCApply.tla        # model-check a run
    tlapm ApplyProofs.tla                    # check the proofs of a module

## 1. The system

vpn-stack turns one server into a VPN with several protocols. A Python program,
`vpnctl`, owns the server's state; shell scripts deploy and provision; a Flutter
app provisions, administers and connects.

| component | state it keeps | operations | depends on |
|---|---|---|---|
| **apply** (`vpnctl/cli.py apply`, `render.py`, `composectl.py`, `state.py`, `sbctl.py`) | `rendered` symlink and generations; `state.json`: enabled protocols, `converge_pending`; containers | `apply [--no-restart]`, every `user` and `protocol` command through it, the boot unit | lock, registry, docker compose |
| **IKEv2 certificates** (`cli.py reconcile_ikev2`, `ikev2ctl.py`, `users_store.py`) | `users.json` (`ikev2_provisioned`), `state.json` (`revoke_pending`), the IPsec database in the container's volume | `user add/rm/enable/disable`, the reconcile at the end of apply, `ikev2 reconcile` | lock, docker exec |
| **keyring** (`bootstrap.py`, `secrets_store.py`, `reality_key.py`, protocols) | one file per secret | `bootstrap [--force]`, `protocol on` (prepare) | lock, apply |
| **command lock and state files** (`cli.py _acquire_lock`, `users_store.py`, `state.py`) | an flock; `users.json`, `state.json` and a temporary file each | every mutating command reads, changes and saves them; `./vpn restore` overwrites them | the kernel |
| **protocol registry and renderers** (`protocols/`, `render.py`, `dotenv.py`) | none | names services, ports, secrets and files per protocol | |
| **ufw rules** (`firewall.py`) | tagged ufw rules | `reconcile` from apply | ufw |
| **IKEv2 forwarding** (`cli.py _reconcile_ikev2_forwarding`, `ikev2ctl.py`) | two iptables FORWARD accepts | ensured or removed in the `finally` of apply | ufw, docker exec |
| **export and share card** (`export.py`) | none | links, QR codes, profiles | keyring, users |
| **share page** (`scripts/share.py`) | one page, its token, when it was fetched | handler threads and a reaper | |
| **client script and deploy** (`vpn`, `scripts/deploy.sh`, `push.sh`, `install.sh`) | backups | init, backup, restore, deploy | ssh |
| **host provisioning** (`scripts/provision-host.sh`) | packages, units | base, docker, units | apt, systemd |
| **firewall dead-man** (`provision-host.sh`, `install.sh`, `app/lib/provision/firewall.dart`, `commands.dart`) | the pid file in `/run`, a detached timer, ufw | arm, enable, prove, disarm | ssh, ufw |
| **dnstt-sshd entrypoint** | accounts inside the container | creates them when the container is created | rendered tree |
| **app: provisioner** (`app/lib/provision/`) | facts and step results | the step sequence | ssh, dead-man |
| **app: control session and transport** (`app/lib/control`, `app/lib/transport`) | one ssh session | one `vpnctl` command at a time, timeouts | lock |
| **app: tunnel service, Android** (`app/packages/singbox_tunnel/android`) | `TunnelState` (status, serviceRunning), `start-request.json`, per instance the box, its TUN and `boxStarted` | start, stop, revocation, destroy; a main looper, a worker per instance, binder threads | the platform, libbox |
| **app: tunnel, Dart side and iOS extension** (`app/packages/singbox_tunnel/lib`, `ios`) | the status shown, the calls waiting for one | connect, disconnect, forget, platform events | the platform |
| **app: configuration parsing, interface** | the list of servers | parsing, widgets | |
| **observers** (`scripts/smoke.sh`, `diagnose-ikev2.sh`) | none | read-only checks | |

How they interact: every mutating command takes the lock, changes one or two of
the JSON files or secrets, and calls apply; apply renders all of it, promotes,
converges the containers and ends with the firewall rules and the IKEv2
reconcile. Nothing else ties them together, so the files are the protocol
between one command and the next: a command that dies leaves the next one
nothing but them, and what docker happens to be running.

What is hard in it, component by component, and what makes it right:

* **apply.** A change is in force when a container has *read* it. Some read a bind
  mount (a restart is enough), some what they had at creation (only a new
  container will do), and `changed_services` compares two directories, never a
  directory with a container. Kills at any step, half an `up`, containers that
  docker restarts in the middle, reboots. Right when: no stale container is ever
  forgotten; a configuration sing-box refuses is never live; OK is true; retries
  converge.
* **IKEv2.** The truth is in a container that may be down, and each
  `docker exec` can fail or half succeed. Right when: a withdrawn holder's
  certificate is never forgotten or inherited by the next holder of the name; a
  wanted one is never taken away by accident; a clean verdict is exact; the queue
  drains.
* **dead-man.** Two installers and a detached process meet in one pid file, and the
  only operator may be the one locked out. Right when: the firewall never shuts
  the installer out with nothing to undo it; no timer is forgotten; a success
  leaves none.
* **keyring.** Secrets are written one file at a time and belong in pairs. Right
  when: two halves of a key pair never disagree, an issued profile never stops
  working unasked, and an enabled protocol has what it needs.
* **lock and state files.** `flock(1)` around a command and `flock(2)` inside it are two holders to
  the kernel; a variable in the environment is all that tells the inner one. Each command reads a file,
  works, and writes back what it read, apply minutes later. Right when: two commands never overlap,
  nobody waits for himself, a save is whole or not at all, no change undoes another, and what ends a
  grant is never on disk before the revocation it owes.
* **ufw rules and forwarding.** The same rules are edited by people; each `ufw` command may reload, and
  clear what iptables was told. Right when: nothing a person opened is adopted or deleted, the way in
  stays, a good verdict is true, and repeated applies do not undo each other's work.
* **share page.** Threads, reaper and main thread share two variables without a lock. Right when:
  requests are let in within the window only, nobody prolongs it, the last line is true, and the
  page dies by itself.
* **backup and restore.** Right when: what is restored is one consistent moment.
* **app: tunnel service.** Commands, callbacks, releases and revocations meet on three kinds
  of thread. Right when: CONNECTED means that traffic goes through a tunnel; one box runs at
  a time; what always-on would start is what was last connected, and nothing after a
  disconnect; a stop reaches a tunnel that is up.
* **app: Dart side of the tunnel.** Calls go out on one channel and statuses come back on another, without
  saying what profile they are about. Right when: what is shown is what the service is in, and of the
  profile it is said of; a profile that was forgotten is not started again.
* **app: provisioner, session.** Right when: a resumed provisioning skips no
  step it needs, and an answer is never taken for another command's.

## 2. The modules

| module | what | runs |
|---|---|---|
| `Apply` | apply, the commands that call it, docker and the host under it | `apply` |
| `ApplyProofs` | type and safety theorems | |
| `Ikev2` | user records, revocation queue, certificates, reconcile | `ikev2`, `ikev2_inherited` |
| `Ikev2Proofs` | type and safety theorems | |
| `Registry` | abstract specification of the state files: a register of names and of withdrawals owed | refined in `store` |
| `Store` | the lock, `users.json` and `state.json`, every command at them, restore | `store` |
| `StoreProofs` | type, refinement, safety and action theorems | |
| `Firewall` | `firewall.reconcile` against ufw and against people | `firewall` |
| `FirewallProofs` | type, safety and action theorems of `Firewall` and of `Forwarding` | |
| `Forwarding` | the FORWARD accepts of IKEv2 | `forwarding` |
| `Keyring` | the secret files: bootstrap, rebuilding, `--force`, `protocol on` | `keyring` |
| `KeyringProofs` | type, safety and action theorems | |
| `Deadman` | arming, enabling, proving, disarming, the timer, the host | `deadman` |
| `DeadmanProofs` | type and safety theorems | |
| `Share` | the share page: main thread, handler threads, reaper, clock | `share` |
| `ShareProofs` | type, safety and action theorems | |
| `TunnelService` | the Android service, its plugin, its status and the looper, worker and binder threads | `tunnel` |
| `TunnelController` | the app's side of the tunnel, over `TunnelService` | `controller`, `tunnel_forget` |
| `TunnelProofs` | type and safety theorems of both, and that the app's steps are the service's | |
| `MCApply`, `MCIkev2`, `MCStore`, `MCFirewall`, `MCKeyring`, `MCDeadman`, `MCShare` | model values for TLC | |

How they fit together: each takes from its neighbours only what it needs. `Apply` and `Ikev2` take one command at a
time for granted, `Store` shows when that is so; `Store` keeps of apply its visits to the two files, and of the
reconcile that it reads both, takes its time and saves both, which `Ikev2` details; `Apply` has the steps that only
warn as one verdict, of which `Firewall`, `Forwarding` and `Ikev2` are the content; `Forwarding` has of `Firewall` that its
commands may clear the filter table, and only when the rules do not match. `TunnelController` extends `TunnelService`: every step of the
service is one of its own, with what it posts to the app, and its calls are the service's requests.

In the models, operators named as a *faulty variant* (`PromoteForgetsMark`,
`ListSkipsWanted`, `StampedOnce`, ...) belong to no specification. Each is a plausible bug
in the definition after it; put in its place, it breaks the property it is meant for.

### Apply

`src` and `enabled` are what the files on disk would render, `tree` the live
generation, `status` and `holds` docker's containers and the version each took
its input from, `mark` is `converge_pending`. `pc` walks through `apply` (cli.py):

    render -> promote -> mark -> before -> up -> after -> nudge -> down -> ready
           -> running -> aftercare -> finish

`Check` is render_candidate and sbctl's check, `Promote` is promote and
changed_services, `Mark` is the save of the mark, `IdsBefore`, `Up`, `IdsAfter`, `Nudge`
and `NudgesDone` are composectl.up (which containers compose made itself, and which
remain to be bounced, is read from two id listings), `Down`, `WaitReady`, `NotRunning`
and `Aftercare` the steps that only warn, and `Finish` clears the mark and gives the verdict.
`UpFails` is a `compose up` that fails with some containers as they were, some brought up, and some stopped, removed, or
created and never started (`UpLeaves`). `Die` is an exception, Ctrl-C, dropped session or kill, at every step; `Reboot`,
`Crash`, `DockerRestart` and `Stop` are the host and docker under `restart: always`.

History variables: `gap` (an apply died between the swap and the mark, cli.py:268-284) and `escaped`
(containers of a disabled protocol that were there but not running when the
teardown looked) name the two exceptions the safety properties state.

Properties:

* `MarkCoversStale`: between commands, a container that runs on anything but the live
  tree is covered by the mark, unless `gap`.
* `RejectedNeverServed`: a configuration sing-box refuses is neither live nor held.
* `OkMeansConverged`: a converging command that said OK cleared the mark, every expected
  service has a container, and no container of a disabled protocol runs unless it
  escaped.
* `EventuallyServed`: when applies are from some point on run undisturbed, the live tree comes to be what is on disk and every
  expected container comes to run, on it, for good. Two exceptions, both in the formula: what is on disk is a configuration
  that is refused; and after a death between the swap and the mark (`gap`) the containers the swap left behind go on
  running on the old tree, although every container is up. Applies alone do not end that: the diff of two equal trees
  names nobody. An inherited mark does.

### Ikev2

`user`, `provisioned` and `pending` are the files, `cert` the container's IPsec
database as `--listclients` shows it (none, valid, revoked), `valid` and `reserved`
what reconcile believes of it. `UserAdd`, `UserEnable`, `Queue`, `UserRm`, `UserDisable` are the
commands, with their two saves apart; `List`, `Withdraw`, `StartIssue`, `Issue`,
`SaveQueue`, `SaveFlags` are reconcile_ikev2 in its order, one name at a time;
`WithdrawFails` and `IssueFails` are the exec failures with each effect they may leave, that of having worked and yet exited nonzero included,
`GiveUp` every early return and death; `StartContainer`, `StopContainer` and
`LoseVolume` are the container's life.

A `docker exec` is given 120 s, and nobody catches the `TimeoutExpired`: the command ends and releases the
lock, and the `ikev2.sh` it sent goes on. `WithdrawCutOff` and `IssueCutOff` are that end, at each of the commands sent;
`late` holds what goes on, and `Land` is its doing its work, at any later moment, on whatever the name holds
by then. An exec that finds the name in another state than the reconcile takes it to be (`Mistaken`) is refused.

History variables: `former` (valid certificates issued under a grant that has been
withdrawn) says whose certificate it is; `torn` (issued by a reconcile that died
before writing so, or by an exec that came late) and `landed` (a late exec did its work since the last listing) name
exceptions.

Properties:

* `FormerIsQueued`: a withdrawn grant's certificate under a wanted name is queued for revocation, unless `torn`.
* `CleanMeansExact`: a clean reconcile leaves exactly the enabled users with a certificate,
  recorded, and an empty queue, unless `landed`.
* `WithdrawnOnlyIfQueued`: nobody enabled loses a certificate unasked, but to a late exec: a revocation that was cut off, and
  done by the next apply, may land after that one has issued the name a new certificate.
* `EventuallyExact`: with the container up and no more faults, the certificates match
  and the queue drains.

### Store

`lock` is `/run/vpn-stack.lock`; `live` the two files, each a set of names, gone or torn, and `tmp` the temporary
file of each, one name for all writers. A command is called in one of four `Modes`: *wrapped* in `flock(1)` and told so
(`./vpn`, the boot unit, deploy), *forgetful* (wrapped, and not told: the app), *bare*, and *trusting* (told of a lock
nobody took, or unable to open the file). It goes through stages, in each of which it reads, decides what to write, and
writes:

    outer -> inner -> edit -> look -> mark -> reconcile -> close -> done

`Flock` and `GiveUp` are the caller's `flock(1)`, `Trust` and `Take` `_lock_if_mutating`. `EditAdd`, `EditRecord` and
`EditProtocol` are the commands' own change, `Rollback` the save of the state as it was when _prepare_secrets fails (cli.py:686-687); `Look` is `load_or_default` at the start of apply, `Resave` the saves of the mark
and of its clearing, `Reconcile` and `NoReconcile` reconcile_ikev2. `Write` and `Swap` are the two halves of `save`;
of a command's two files, state.json goes first (`Saving`). `carried` is what a reconcile has withdrawn from the container, or found nothing of, and not yet
taken off the queue. `Fail` is every refusal and error, `Kill` a kill anywhere,
`Lose` a file lost between commands. `RestoreBegin`, `Unlink`, `Unpack`, `Unpacked` and `RestoreCut` are tar's way with
each file in `./vpn restore`.

History variables: `overlapped` (two commands, or a command and a restore, were at the files at once),
`unserialised` (a command went in on trust), `restored`, and `untold` (state.json was lost and nobody has been told; or was saved anew, and nobody will be: *hidden*).

Properties:

* `Serialised`: commands overlap only if one came in on trust, or a restore came between.
* `OkMeansDone`: when a command says OK its change is in the file, although apply has read and rewritten it since.
* `IntentOutlivesRecord`: a record that owes a revocation is not written away, nor disabled, before the queue on disk
  has the name.
* `ImplementsRegistry`: while commands do not overlap, every change of the files is one operation of `Registry`, made for a
  command that is under way: none is undone by the save of another that had read the file before; a record with a certificate
  goes only when its withdrawal is on the queue; and a withdrawal leaves the queue only when a command under way has carried it
  out. (`Registry` lets nobody drop what is owed: `Drain` takes away what was carried, and `Carry` is a step of a
  command.) Overlapping saves are exempt: `Serialised` says when they occur.
* `LossIsTold`: no command says OK over a protocol set that was invented in place of a lost state.json unless it, or one
  before it, has said so. The exception is `hidden`: a command that saves the file before its own apply looks, or without an apply.
* `Ends`: a command that is past its caller's `flock(1)` ends; it never waits for the lock its caller holds.

### Firewall

`tag` says of each rule from Anywhere whether it is there, and under which tag, *hand* being none of ours; `narrow` whether a rule for a narrower source
stands beside it under one of our tags, which the expression of firewall.py:53 does not tell from it; `ufw` whether it is missing,
inactive or active; `toAdd` and `toDrop` what the two loops still have to do. `ReadStatus` and `ReadNothing` are the one reading of
`ufw status` (`Tagged`, `Untagged`), after which `Plan` fixes both loops (`Missing`, `Overdone`); `Add` and `Delete` are single ufw commands,
`UfwFails` one that fails in the middle, `Reconciled` the verdict. `Begin`, `ConvergeFails`, `Skip`, `Over` and `Finish` are apply
around it. `Edit` and `EditNarrow` are a person with ufw at any time, `Toggle` a `protocol on` or `off`.

History variables: `opened` (what people last wrote for each rule), `touched` (rules they changed since this apply read
them), `excused` (rules changed while a command for them was still to come, added by an apply that saw no rules, or taken for its
own by a narrower one of ours), `blind` (this apply saw no rules).

Properties:

* `HandsOff`: a rule opened by hand is neither adopted nor deleted (`HandStays`), a rule tagged ssh keeps its tag, and 22/tcp
  stays under any (`DoorStays`), unless `excused`.
* `OkMeansOpen`: when firewall_ok is said, the ports of enabled protocols are open and no other rule of ours is left, but
  for those edited meanwhile and those beside a narrower rule of ours (`Narrowed`).
* `NeverWorse`: no step of an apply makes a rule wrong that was right, not even of one that cannot read the rules, fails half
  way or dies, and whoever edits them meanwhile. So a reconcile cut short need not be undone.
* `EventuallyAsEnabled`: left alone, with ufw active, the rules come to match for good, but for those beside a narrower one of ours.

### Forwarding

`accepts` are the FORWARD accepts, a direction for a network each. `Look` asks the container for its pool and falls back as
`PoolNetwork` does, `Ensure` and `Remove` are one direction each, `Skipped`, `Forwarded` and `ForwardFails` the verdict, all of it in the
`finally` of an apply. `Reconcile` is what comes before: composectl has started the container if IKEv2 is on, down_disabled has
removed it if it is off (`LeftRunning`: it could not), and the ufw commands may have cleared the chain, if the rules did not match;
`StepFails` is a step before it dying. `Start` and `Dies` are apply around it,
`Turn` a `protocol on` or `off`, and `Clear`, `StartContainer`, `StopContainer` and `RunSh` (the container's own inserts) are the world's.

Properties:

* `OkMeansForwarded`: forwarding_ok is true of the chain until something else changes it; for the network that
  was asked about, if the container did not say.
* `NotUndone`: an undisturbed apply that finds ufw's rules matching takes no accept away that IKEv2 needs, and brings none
  back when it is off. Proved; in no run.
* `EventuallyForwarded`: left alone, if IKEv2 is on it forwards for the pool, for good, though applies open ports after one
  another. If it is off, what goes for good is the accepts of the network that can be known without the
  container, the image's default: down_disabled (cli.py:338) has removed the one container that could be asked, so the accepts of a
  custom pool stay, as ikev2ctl.py:249-254 has it.

### Share

`fetchedAt` and `dead` are the shared `state`, `now` the clock, `thread[c]` where the thread of each connection is, `reaper` and `wake` the
reaper, `main` the main thread from `pick_bind` to the last line. `RefuseRequest`, `Admit` and `NotFound` are do_GET up to `_expired`;
`Test`, `Stamp` and `Store` the three steps of `if state["fetched_at"] is None` and its assignment (the test, the reading of the clock into `taken`, the
store), so that an earlier reading may be stored over a later one; `SendPage` and `SendFile` the answers, after which the
connection is open for another request; `HangUp` the client going away. `Sleep`, `Look` and `Shutdown` are the reaper,
`StopServing`, `Interrupt`, `CloseServer`, `Say` and `Exit` the end.

History variables: `at` (when each request passed `_expired`), `first` and `stored` (when the page was first stamped, and when last, be it with an older reading), `paged` and `early`.

Properties:

* `AdmittedInWindow`: every request being answered was let in within both deadlines, the second counted from the last store of a stamp.
* `LateComersDoNotExtend`: nobody whose request came after the first stamp was stored stores another.
* `VerdictTrue`: the page is refused before the hard deadline only if somebody had asked for it in time, and the last line is
  true of what was sent before it.
* `EventuallyOver`: once served, the process ends, with or without clients that let go.

### Keyring

`keyring` says of each file which *batch* its content is of (what one call of a generator
returned), or `Gone`; two files of a protocol fit together when they are of one batch. `enabled`
is state.json's set, `said` the last verdict, the rest are the locals of the one command that runs.
`StartBootstrap`, `Mint`, `Keep`, `Minting`, `Refuse` and `Complete` are bootstrap_keyring's loop over
the protocols and its three outcomes; `Keep` includes _heal. `WriteSecret` is one
temporary-file-and-rename, so that every crash between two of them is a behaviour. `ProtocolOn`,
`Prepare`, `PrepareFails` and `Installed` are _set_protocol and _prepare_secrets, `Render` the refusal
of apply to render with a secret missing, `Export` the handing out of a profile, `Die` and `Lose` the
faults.

History variables: `profile` (what the last profile handed out was made from), and the three
exceptions: `torn` (a `--force`, or a preparation, died over files that were there), `cut` (`protocol on`
died before it had written the keys) and `lost` (a file was lost and not made again).

The first two are promises the source makes without reservation. *The two cannot drift apart* is
said of a key and its public half where they are declared (vless_reality.py:86-88, dnstt.py:298-299);
a `--force` that dies between the two writes leaves the new private half beside the old public
one, both present, and no later bootstrap touches them. And *if it fails, the enable is rolled
back* (_prepare_secrets) holds for an `Exception`, not for Ctrl-C during a build of up to fifteen
minutes, nor for a death before the keys, generated inside the `try` and written outside it, are all
on disk: `dnstt` is then on without a key, and each later apply dies on the missing secret until
it is turned off and on again.

Properties:

* `HalvesAgree`: between commands, the files of a protocol that are there fit together, unless `torn`.
* `OnMeansPrepared`: a protocol prepared at `protocol on` is not on without its keys, unless `cut` or `lost`.
* `ProfilesKeepWorking`: no step but a `--force` or a loss changes a secret behind a profile that works.

### Deadman

`ufw` and `admits` are the firewall and whether its rules let the installer in, `file` the
pid file, `timer` where each timer's shell is (`starting`, `asleep`, `woken` - slept out but
not yet at ufw's effect -, `spent` - ufw is off, the file still there -, `dead`), `pc` where
each installer is. An installer in `Reaps` is provision-host.sh, which kills an earlier
timer; the others are the app, which refuses to start over one. `Look`, `Reap`, `Clear`,
`Launch`, `Armed` and `NotArmed` are deadman_arm, `Enable` ufw_enable, `Prove` and
`ProveFails` the fresh connection, `Disarm`, `Kill`, `Clean` deadman_disarm; `Write`, `Wake`,
`Fire`, `Remove` the four lines of the timer's shell; `Die` any failure of an installer, and
`Reboot` the host.

History variables name the exceptions: `unsure` (runs overlapped, or one left before its
timer had written its pid), `late` (a disarm killed a timer that had already switched ufw
off), `rebooted`, `expired` (ufw was enabled after the timer had run out), `jammed` (the timer's one `ufw --force disable`
failed, which nothing looks at).

Properties: `Net` (a firewall that shuts the installer out has a timer counting),
`LiveIsRecorded` (a live timer is the one in the pid file), `InstalledIsSafe` (a reported
success leaves the firewall on, letting ssh in, and no timer), `LockoutEnds` (a lockout
ends by itself, under the exceptions of `Net`).

### TunnelService

`current` and `serviceRunning` are TunnelState, `saved` is start-request.json (the profile it
would start). `queue` is the main looper's, `jobs[s]` the worker's of an instance, with the job that is
being run at its head and `at[s]` how far it is; `open[s]` is from onCreate to the moment onDestroy shuts the
worker down. `engine[s]`, `tun[s]` and `boxStarted[s]` are the instance's command server, TUN and guard.
`strays` are the instances that built a command server over one that ran, and `leaked` whose TUN such a server still holds a dup of:
SingboxVpnService.kt:203-204 drops the server there is without closing it, and releaseEngine closes the last one only.
`bound` is the instance Android takes to be the current one and `routed` the one whose TUN traffic goes
to, which is what the status ought to be about.

`PluginStart`, `PluginStop`, `PluginStopsNothing` and `Refused` are the plugin's start and stop; `OnCreate`,
`OnStart`, `OnStartIgnored` with `Republish`, `OnStop`, `OnStopSelf`, `OnDestroy` (or `OnDestroyFinds` and `OnDestroyCorrects`, which read the status
and set it in two steps) with `Drained` or `Undrained`
the service on the main looper; `Resolve`, `Launch`, `Connected`, `ResolveFails`, `LaunchFails`, `ShutdownReleases`,
`ShutdownReports` and `Release` the three jobs of a worker; `OnRevoke` the binder thread, on an open or
a closed worker. `AlwaysOn`, `NotificationStop`, `Reclaim`, `Revoke` and `ProcessDies` are what Android and
the user do to it.

`wished` is what should be on disk by the requests that were let through. `mishaps` records the orders of events
the code is not proof against, by name (listed in the module), and each property says which of them
it does not survive; everything else, in any order and any number, it does:

* `ConnectedIsUp`: CONNECTED is the case or a shutdown that corrects it is on its way, unless a destroy overtook
  the start or the republishing echoed what a shutdown had changed.
* `OneBox`: at most one instance runs sing-box, unless onDestroy gave up waiting; and none builds a command server over another,
  unless a release cleared boxStarted with a start queued behind it.
* `SavedIsWished`: with the worker idle, the file is what the accepted requests say, whatever failed in between but the write itself.
* `StopIsHeard`: when the plugin would answer that there is nothing to stop, there is not, or it is ending, unless a revocation came late, onDestroy
  gave up waiting, or a server was built over (`reopened`).
* `RestsOnTruth`: with nothing on its way, a tunnel that is up is reported, an abandoned server's included, and nothing is reported as coming up, but for the
  mishaps the formula lists.
* `EventuallyQuiet`: left alone, the threads come to rest. `Undrained` is no step of `Machine`, nor fair: a main thread that waited in
  onDestroy for something that waits for it would never come to rest.

### TunnelController

`shown` is the status the app shows and the profile it is stamped with, `active` the profile the next one will be
stamped with; `phase` and `heard` are how far each call of each profile is (`Caller`: its connect, its disconnect, its forget, which do not
wait for each other), and what its completer was completed with. `button` is TunnelModel's status, which the connect button goes by: `shown`, but for a failure that
only TunnelModel was told of (`Overlaid`). `calls` are the calls on their way to the plugin, `posts` the statuses on their way back, `held` a status that a thread has
assigned and not posted yet: TunnelState.set does one after the other, without a lock.

`Connect`, `Permit`, `Deny`, `Disconnect` and `Forget` are connect, disconnect and forgetProfile up to the call on the channel, the first two under
what the button offers (`Offered`), `Forget` at any time, the profile's own connect under way included; `Settled` and `TimeOut` their two ends; `Deliver` is _onPlatformStatus and `Reopen` the app closed
and opened over a service that goes on. `Answer` is the plugin answering the first call, and `ServiceStep` any step of
TunnelService's threads with what it posts; `Post` is the second half of set. `Outside` is always-on, the notification, a
revocation and Android's taking the service away; `Killed` the end of the process, the app with it.

History variables: `asked` (whom connect was called for last), `forgotten` (the profile forgetProfile had no complaint about),
`stopped` (the profiles whose stop, asked for to forget them, was given to the service), `raced` (two threads were in set at once).

Properties:

* `ShownIsReported`: with nothing on its way, what is shown is what the service reports, or a failure, unless `raced`.
* `ShownIsRouted`: with nothing on its way, a profile shown connected is the one the traffic goes to, if the connect called last
  was the start that the service let through last.
* `StopForgets`: once forgetProfile has returned, the stop it asked for went to the service and was carried out, nothing is left that
  starts the profile, and nothing routes to it, whichever status the call was answered with and whatever else was under way, unless a connect of it was called
  since, onDestroy gave up waiting, or (for an abandoned server's TUN) a server was built over. What was heard would be no ground for it:
  the DISCONNECTED a screen hears may be of an earlier shutdown, and the plugin also says it when it finds no service to stop, although a start of the
  profile is still in the looper's queue (SingboxTunnelPlugin.kt:314). That takes two requests waiting at once, which is more than the run's `Room` 1.

## 3. The runs

| run | instance | shows |
|---|---|---|
| `apply` | sing-box (base, bind mount) and dnstt-sshd (recreate), one protocol, 2 good versions and 1 refused; 450,456 states | all properties of Apply |
| `ikev2` | 2 names; 610,132 states | all properties of Ikev2 |
| `ikev2_inherited` | 1 name | **violated**: certificate issued, flag never saved, `user rm` queues nothing, the next holder inherits it (cli.py:560, 770) |
| `store` | 2 commands at once, 1 name, every command and every mode; 456,744 states | all properties of Store |
| `firewall` | a protocol's port, 22/tcp and a third; a narrower rule may stand beside the protocol's port (`Narrow`); 438,284 states | all properties of Firewall |
| `forwarding` | the pool, the network of run.sh's firewall and the default, all different; 15,368 states | all properties of Forwarding |
| `keyring` | vless (3 files, one derivable) and dnstt (2, prepared), 3 batches; 964,519 states | all properties of Keyring |
| `deadman` | one script, one app, both repeatable, 3 timers; 1,682,293 states | all properties of Deadman |
| `share` | 2 connections, a private and a public address, hard deadline 2, grace 1, clock to 4; 600,456 states | all properties of Share |
| `tunnel` | 2 profiles, 2 instances, `Room` 1; 349,712 states | all properties of TunnelService |
| `controller` | 2 profiles, 1 instance (which comes and goes), `Room` 1, `Callers` 2; 2,352,069 states | all properties of TunnelController |
| `tunnel_forget` | 1 profile | **violated**: a connect saves the request, the process is killed, and forgetProfile then finds nothing to stop and says that nothing is left (singbox_tunnel.dart:230) |

The runs repeat no type invariant, nor the inductive invariants of section 4, nor `ReapedInTime`, `GuardHolds` and `NotUndone`: TLC found
no violation of any, and they are theorems.

The counterexamples are recorded, with the lines they contradict, under `findings` in
PROJECT.json. The properties of the passing runs state the same promises with the exception
named, so that anything *else* that breaks them is still found. The other exceptions they name are reachable too,
and some contradict what the source says of itself; removing the exception from the property shows each as a
counterexample:

* `gap` (Apply): a kill between promote and the save of the mark leaves a stale container and no mark (cli.py:268-284), although the
  comment at cli.py:271-273 and README.md:294 have the mark cover whatever comes after the swap. The container then stays stale for
  good, however many applies follow (`EventuallyServed`).
* `escaped` (Apply): down_disabled asks for running containers only, so one between two restarts stays, and runs again after
  an OK (composectl.py:261).
* A revoke that succeeds before a delete that fails is recorded as provisioned until the next reconcile (Ikev2; cli.py:537;
  `CleanMeansExact` is about reconciles without failures for that reason). So are `landed` and the late exec of
  `WithdrawnOnlyIfQueued` (ikev2ctl.py:9-14): nothing waits for a command that was cut off.
* `hidden` (Store): protocol on and off, and user rm and disable of a record with a certificate, read state.json with state.load and save it
  before their apply looks (cli.py:697, 723, 771-774), and so may the reconcile at the end of an apply whose file is lost under it (568):
  nobody is told, although state.py:82-84 says that the caller is.
* `expired` (Deadman): nothing checks at `ufw enable` that the timer armed before it still counts (firewall.dart:67). `jammed`: the timer
  tries `ufw --force disable` once, and removes its pid file whatever became of that (provision-host.sh:204-205).
* `crossed` (TunnelService): a start over a tunnel that is up republishes the CONNECTING the plugin has just set
  (SingboxVpnService.kt:150); `overtaken`: a destroy during a start ends with CONNECTED and no tunnel (609).
* `excused` (Firewall): an apply that cannot read the rules adds its own over one made by hand, and may delete it later
  (firewall.py:43-47 says never). `Narrowed`: a rule
  with a protocol's tag and one source keeps reconcile from opening the port, and the verdict is good over a port that clients cannot reach
  (firewall.py:53, against the comment at 76-79).
* `reopened` (TunnelService): a release clears boxStarted with two starts queued behind it, and the second builds a command server over the first
  one's (SingboxVpnService.kt:203), although 139-141 has boxStarted keep it from that. Nothing closes the abandoned server, which keeps its dup of the
  TUN, and with it the tunnel, after every stop.
* *forgetful* (Store): the app's control session holds the lock and does not say so, so each command that changes anything is refused with 75
  (vpnctl.dart:95; named as open in app/README.md:174, although a comment in tests/test_cli_parser.py has the app say so).
* `asked = wished` (TunnelController): connecting over a tunnel that is up is ignored by Android and shows the first tunnel under the second's
  name, although connect_button.dart:55-58 says that connecting takes the first one down; connecting while another profile
  comes up completes on the first one's CONNECTED (singbox_tunnel.dart:302).
* `stopped` (TunnelController): a forget whose stop found no service, because a shutdown had just cleared serviceRunning for a start that is
  still to come, says that all is removed, and the start saves the profile (SingboxTunnelPlugin.kt:314). A forget
  that asks for a stop while the tunnel comes up may be answered by its CONNECTED, and says so before the stop has been carried out
  (singbox_tunnel.dart:226-238); left alone, it is.

**Bounds and why they are enough.**
Apply treats services independently but for the shared mark, verdict and id listings:
one of each kind (restart is enough; must be recreated; always expected; owned by a
protocol that can be off) gives every interaction, and two good versions suffice to be stale,
current, and back again (versions are unordered, and an edit may bring one back). The
number of commands, kills and reboots is not bounded. Ikev2 keeps names apart everywhere but in
the verdict and the container's being up; a second name shows that. In Deadman the number of
runs is unbounded but for the timers they use up: with three, a timer of an abandoned run, the
one of the run that meets it, and one more to be confused with. Protocols of the
keyring meet only in bootstrap's one verdict: one of each kind, with a derivable file, one that is
not, and one that nothing renders. Three batches let a file be of what the profile was made from, of
what a `--force` in progress writes, and of something else; the bound shows only where two deaths of
`--force` have already left three different contents, where a third can do nothing but die. No state
constraint is used anywhere. In Store two commands are what the promises are about; of names, which files keep apart, one is enough to be
added, removed and queued by both. Its bounds are in the guards of `Start` and `RestoreBegin`: no command is started once two
have been at the files at once (nothing is claimed of what follows, but what is under way goes on), there is one restore, and not
both a restore and a command on trust, each of which voids the same promises. In Ikev2 one exec at a time outlives its command. Firewall treats rules alone but for the set of protocols: one
claimed, one with the way in, one that nothing claims and people may tag as they like;
narrower rules stand at one of them (`Narrow`), the one an enabled protocol claims, where they can hide a closed port. Forwarding needs its three networks to differ, the case
the fallback is about. Share has two connections to race for the stamp; with deadlines of 2 and 1 the grace period ends before the hard
deadline, at it or after it, and `Horizon` lets the clock pass both by a round of the reaper. TunnelService has two bounds in the guards of what comes from outside:
`Room` (something new comes in only while the looper has fewer messages waiting and each worker has at most
as many jobs: with 1, a request comes in while the one before it is a job not yet run), and `Beyond`, the mishaps
after which something new still comes in; after the others the threads run to their end and the consequences are
seen, but no new request is made, because the properties exempt what follows. Two instances are enough to have one coming down
while the next comes up. With `Room` 1 `reopened` cannot come about, which takes two starts behind a release: with `Room` 2, `unguarded` in `Beyond`, one profile and one instance TLC reaches it in
seconds. The theorems are for every `Room`.
TunnelController keeps those bounds and adds its own: of each profile one connect, one disconnect and one forget is under way at a time, none of which
waits for another, and `Callers` in all (with two: a connect and the forget of its profile, or of another); a new one is made
only when no status is on its way and no call is being made, and none after `raced` or a forget that said all was well (`Calm`); what Android does by
itself, and the app's being opened again, wait for rest (`tunnel` has the first at any moment); and one status at a time is held between the two halves
of set. Those are guards of ControllerSpec, so the theorems about ControllerSpec are under them too, for every `Callers`. One instance is enough
for what is shown, since it comes and goes like two that follow each other; `tunnel` has two that overlap. Symmetry is used only in `keyring` (of batches), which checks no liveness.

Deadlock is checked in `ikev2`, `keyring`, `store`, `firewall` and `forwarding`, where some command is always possible. It is not
in `apply`, which has no work between commands and whose runs end in `idle`, in `deadman`, which stops when its timers
are used up, nor in `share`, whose process ends. Android can always do something to the tunnel, so deadlock is checked in `tunnel` and `controller`.

**Fairness.** Apply: weak fairness of the steps of an apply (a process that is running goes on)
and of starting one (the boot unit retries with `Restart=on-failure`; an operator retries). Kills
and failures are not assumed to stop; the property has it as its premise that they do. Ikev2: the
same, and the premise that the container stays up. Deadman: only the timer's shell is fair; no
installer ever has to take a step. TunnelService: weak fairness of the main looper, the binder
thread and each worker, one apiece, as the platform schedules threads and libbox's calls return or throw; none of
the user and of Android, nor of `Undrained`, the six seconds after which onDestroy gives up waiting. Store: each command that is in goes on, as a process does; nobody has to call one, and `flock(1)`
without a bound may wait for ever. Firewall and Forwarding: as in Apply, an apply that nothing disturbs is begun again and goes on
(the boot unit retries, the operator does), under the premise that nothing disturbs it. Share: the clock, the reaper and the main
thread go on, a second apiece; no client has to do anything, nor a handler thread.

## 4. What is proved

All for every value of the constants under each module's `ConstantsAssumption` (Apply: base
services are mounted and never owned by a protocol, mount and recreate are disjoint; Deadman: the
empty pid file is no process id; TunnelController: no status stands for none; Keyring: a
protocol's files are made by bootstrap or by prepare, never both, what it needs and derives from is its
own, and no two share a file; TunnelService and Store: the model values are apart; Share: the deadlines are natural numbers; Firewall: protocols are not
named like the tags, and their ports are disjoint, as assert_ports_disjoint makes them; Forwarding: its pools are networks, and no
answer is none; Ikev2 has none), no bound on steps, commands or faults.

* **ApplyProofs.** `Typing`. `AccountedAlways`: `MarkCoversStale` speaks only of idle states, so the
  invariant `Accounted` says where a stale container is accounted for at each step: by the mark
  before the swap, by `todo` between the swap and the last bounce (with those compose made itself
  struck off), and nowhere, because there is none, after. The key lemma, `StaleShrinks`, is that no step
  but `Promote` makes a container stale; with it, `MarkCovers` follows. `NeverRejected` needs
  `Vetted` (what `Check` accepted is what `Promote` promotes, because the lock keeps `src` still) and
  `HeldOrLive` (a container holds what it held, or takes the live tree). `TruthfulOK` needs `Found`,
  which carries what `Up` and `Down` established to the verdict through crashes and reboots.
* **Ikev2Proofs.** `Typing`. `FormerQueued` and `CleanExact` rest on `Kept` and `Exact`: in the middle of
  a reconcile a certificate that must go is still to be visited or on the list of failures, and as
  long as nothing has failed, or landed, reconcile's belief is the truth. A late exec is the hard part: `Kept` bounds what it can find (while one is on its way the names the
  reconcile takes to be reserved are, and an add on its way is for a name that is wanted, or under a grant withdrawn since), and
  the lemma `Lands` says what it leaves. `OnlyIfQueued` is an action property from the same invariant.
* **StoreProofs.** `Typing`. `Serial` needs `Held`: whoever is past the lock has it, or came on trust, and a caller's lock is its command's.
  `WholeFiles`, `TruthfulOk` and `IntentFirst` rest on `Undisturbed`: as long as nobody else was at the files, what a command has decided
  to write is what it read with its own change made (`Plan`), and what it has already done is still there (`Kept`). With both, `SwapRegisters`
  shows that each rename is one operation of `Registry`, and `Implements` the refinement: a name that leaves users.json with a
  certificate has its withdrawal owed, and a withdrawal is struck off only by the save of a command that has carried it out (`carried`),
  until two have overlapped. `LossesAreTold` rests on `Heard`: while nothing has overlapped, a loss nobody
  has told of is still to be seen in the file (`Seen`), no command that has looked goes on over it in silence (`Looked`), and what is about to be written
  to state.json was made from a file that could be read (`Grounded`). The cases are the rename (`SwapHeard`), a command's other steps (`OwnHeard`) and people
  (`OperatorHeard`).
* **FirewallProofs.** `Typing`, `LeftAlone` (from `HandIsSafe` and `DoorIsOpen`) and `TruthfulFirewall`, all but for the rules
  in `excused` and, the last, `Narrowed`. `AtWork` says that what the loops will do is
  right, but for what was edited since, and `Ahead` that what is wrong with the rules, but for those, is still in front of the loops; one lemma for a
  step that stays away from the rules (`Apart`), one for each that does not. `AppliesHelp` (`NeverWorse`) is from the same invariant: what is to be added is
  wanted, what is to be dropped is not, and the enabled set stays as it is under an apply (`OneRule`). `ForwardingTyping` and `TruthfulForwarding` are about `Forwarding`, which names its state and
  actions apart from `Firewall`'s so that one module can extend both: `Forwards` says, with the types, that the directions dealt with so far are as they should be, that ikev2 is not turned under an
  apply, and that an apply under way has not answered yet. `AppliesRepeat` (`NotUndone`) is from it too: with `AppliesHelp` it is
  the half of `EventuallyAsEnabled` and `EventuallyForwarded` that says *for good*.
* **ShareProofs.** `Typing`, `Window`, `LastLine`, `Reaped` and `NotExtended`. `Threads` is what a thread carries across its pauses (it was let in within
  the window, before the first stamp was stored if it found none; what it stores is a reading it took before), `Record` what the flags stand for (`dead` is never set for nothing, nobody is
  sent the page before it was stamped), and `Watch` how far behind the clock the reaper can be.
* **KeyringProofs.** `Typing`. A half-written set is in nobody's way: `Writing` says that whatever is no
  longer in `todo` is of the batch being written and, without `--force`, that nothing else was there, so a
  death leaves halves that fit. `HalvesFit` and `OnPrepared` follow with `Fitting`, `CompleteWhole` with
  `Settled` (a protocol already looked at is whole or among the partial ones). `ProfilesLast` is an action
  property; the case that needs an invariant, `Unused`, is a preparation: it only runs for a
  protocol some needed file of which is missing, so no profile of it works.
* **DeadmanProofs.** `Typing`. `NetHolds`, `LiveRecorded` and `InstalledSafe` are conjuncts, or follow from
  conjuncts, of `Shape`: while runs do not overlap there is at most one live timer, it is in the pid
  file, and where it can be is fixed by where the one active run is. The proof is one case per
  action; other installers are idle, which `Alone` says.
* **TunnelProofs**, of the service. `Typing`, `Guards` and `RunsOneBox`. The invariant `IInv` is about two orders. `Orderly`: in the
  looper's queue, what is for an instance comes after its creation and nothing but runnables after its destroy, and
  one instance is destroyed before the next is created, so that one at most is open (`Single`). `Duty`: in a worker's queue
  no start is behind a release, and an instance that is closed and has started, or may yet start, has its release there. With
  `Draining` (a release is only ever queued while the main thread waits for it, unless that wait was given up) one
  box runs at a time; with `Sole` (one start at most is queued, or was run, while `boxStarted` is set) none is built
  over another but after a release that found a start queued behind it (`Orphaned`, the second half of `OneBox`). Both orders are stated with the queue as a parameter, so that an action is a matter of which lemma
  about its queue applies (`OrderlyFresh`, `DutyDone`, ...). `JInv` adds what the record and the file say of it, and who will make up for what is
  not so yet: `ConnectedIsCarried` (CONNECTED has a tunnel, or a revocation or shutdown on its way) gives `ConnectedIsTrue`; `OpenIsRunning`,
  `ConnectingIsAsked` and `RoutedIsTold` (an instance that is open is known to run or on its way out; CONNECTING has a start on its way; a tunnel is reported, or a
  start or an end of it is) give `StopsAreHeard` and `TruthAtRest`; `Wishes` (in each worker's queue the last job that writes or deletes
  the file is what was wished, and with none the file is) gives `SavedAsWished`. None of these is inductive alone: the `Tidy` order of jobs, and that
  whoever has a job is the only one with a box (`Alone`), hold them up.
* **TunnelProofs**, of the app. `ServesTheApp`: every step of ControllerSpec is one of the service or a stutter, so all of the above holds under
  the app too. `ControllerTyping`. `ShowsTheReported` and `ShowsTheRouted` rest on `SInv`: the newest status on its way is what the service reports,
  and with none on its way it is what is shown, but for a CONNECTING that a screen has just shown of itself (`Shows`); what
  is stamped with a name is stamped with the last one asked for (`Stamps`). `Runs`, a conjunct of JInv, says that an instance
  runs what is saved. `ForgetsTheStopped` rests on `FInv`: one call at a time
  is being answered (`Calling`, `Alternating`), so a stop that goes to the service goes behind every start that went before it, that of the profile's own
  connect included; and whatever would bring a profile back whose stop went there, in the queue or already let through, has a stop behind it (`Parting`, `Clean`),
  unless it was connected since. All of these are under ControllerSpec's own bounds (section 3).

Every invariant, action property and refinement that a passing run checks is a theorem. Only model-checked: the liveness properties
`EventuallyServed`, `EventuallyExact`, `EventuallyAsEnabled`, `EventuallyForwarded`, `EventuallyOver`, `Ends`,
`LockoutEnds` and `EventuallyQuiet`, which are out of the prover's reach; and of course the violated ones.

## 5. Not modelled, and the plan

Next, in this order:

1. Proofs: for `EventuallyServed` and `EventuallyExact`, as for Firewall and Forwarding, that what they come to is kept by what nothing
   disturbs.
2. The iOS extension, against the same app side.
3. `Provision`: the app's step sequence, its resumption, host-key pinning, with Deadman as one step; the control
   session under it: one command at a time, time-outs.
4. Extensions: pruning of generations (Apply); the accounts of dnstt-sshd, made when its container is created; the volumes a restore brings,
   and the moment a backup is of (Store).

Not planned: rendering of text, parsing of share links, the export of profiles, smoke tests and
widgets - pure functions or input and output, which the repository's tests reach. The component list of PROJECT.json says of
each part what is left out.

## 6. What the models abstract

* Apply: the bytes of a service's files are one version; services are bounced in any order; firewall
  rules, reconcile and FORWARD rules are one verdict; pruning and the `.env` link are left out. The
  lock is taken for granted.
* Ikev2: names are compared exactly and processed in any order; a certificate is known by whether it was
  issued under the present grant; a certificate that a late `--deleteclient` takes off the list while it is valid is not counted, although it
  goes on being accepted (ikev2ctl.py:288-300).
* Store: users.json is a set of names, state.json the names queued; which users and protocols are enabled, and the secrets, are not there. A temporary
  file that a kill leaves behind is as good as none. A lock is free when the process that took it has ended.
* Firewall: of narrower rules one for each port, with a tag of ours, which reconcile takes for the port's own; the others it does not see; the rules
  of a loop are taken in any order.
* Forwarding: identical rules count as one; the interface is fixed; IPv6 is left to the image, as the code leaves it.
* Share: `_expired` is one step, as is what the reaper does on waking; the test for None, the reading of the clock and the store of the first fetch are three; the reaper does not oversleep its second.
* Keyring: the content of a file is the call that made it; protocols, and the files of one, are taken in
  any order; one command at a time; of apply only the refusal over missing secrets is kept.
* Deadman: a timer's process group is one process and pids are not reused; root's signals are not refused;
  whether the rules admit the installer is decided once; the app's attempts at a proof are one.
* TunnelService: a command of the plugin and a callback of the service are one step each; a configuration is the
  profile it is for; consent is on file; how sing-box comes up is one step; the posts that carry a status to Dart are
  left to TunnelController; left out are notifications, the network monitor and serviceStop
  (nothing connects to the command server). A write of start-request.json that fails, which is logged and passed over (303-308), is left out. Of abandoned
  servers it is kept that there are some, and whose TUN one holds.
* TunnelController: a status that cannot be decoded, a channel that breaks and a platform without the plugin are left out; an answer is taken the
  moment it is given; a time-out may come as soon as the answer has. Each profile has share links to connect with. The bounds of section 3 are in it.
