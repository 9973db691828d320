------------------------------- MODULE Store -------------------------------
(***************************************************************************)
(* The two files every command of vpnctl reads, changes and writes back,   *)
(* users.json and state.json, and what keeps two commands apart: the one   *)
(* lock of vpnctl/cli.py, taken by the caller through flock(1), by vpnctl  *)
(* itself, or by neither.  ./vpn restore writes the same files without it. *)
(*                                                                         *)
(* What is abstracted:                                                     *)
(*   - users.json is the set of names in it and state.json the names in    *)
(*     revoke_pending; a file can also be gone (Absent) or unreadable      *)
(*     (Torn);                                                             *)
(*   - of apply there remain its visits to the two files: the rest can     *)
(*     stop the command anywhere (Fail) and takes its time between them;   *)
(*   - a lock is free once the process that took it has ended.             *)
(***************************************************************************)
EXTENDS FiniteSets

CONSTANTS
    Proc,       \* commands under way at once
    Name,       \* user names
    Call,       \* the ways commands are called: [cmd, mode]
    Backup,     \* what a restore brings: [users, state]
    Absent,     \* no such file
    Torn,       \* not readable as JSON
    Keep,       \* nothing to be written
    Nobody,     \* the lock is free
    NoCommand

Modes == {"wrapped",    \* under flock(1), which says so: ./vpn, the boot unit, deploy
          "forgetful",  \* under flock(1), and vpnctl is not told: the app
          "bare",       \* vpnctl as it is
          "trusting"}   \* told of a lock nobody took, or unable to open the file

File == {"users", "state"}
Content == SUBSET Name
OnDisk == {Absent, Torn} \cup Content

Command ==
    [op : {"add", "rm", "enable", "disable", "protocol", "apply", "reconcile"},
     name : Name,
     cert : BOOLEAN]    \* the record says that a certificate was issued

ASSUME ConstantsAssumption ==
    /\ Call \subseteq [cmd : Command, mode : Modes]
    /\ Backup \in [File -> Content]
    /\ Absent # Torn
    /\ \A c \in Content : c \notin {Absent, Torn, Keep}
    /\ Nobody \notin Proc
    /\ NoCommand \notin Command

VARIABLES
    lock,           \* who holds /run/vpn-stack.lock
    live,           \* the two files
    tmp,            \* their temporary files, one name for all writers
    mode, cmd,      \* how each command was called
    stage, step,    \* where it is
    want,           \* what it has decided to write
    carried,        \* the withdrawals it has carried out, or found nothing of to
                    \* carry out, and not recorded yet
    restoring,      \* the files ./vpn restore has still to unpack
    overlapped,     \* history: two were at the files at once
    unserialised,   \* history: a command ran without the lock
    restored,       \* history: a restore was started
    untold          \* history: state.json was lost and no command has said so; or it was
                    \* made anew before one could

calls == <<mode, cmd>>
plans == <<want, carried>>
ghosts == <<overlapped, unserialised, restored>>
vars == <<lock, live, tmp, calls, stage, step, plans, restoring, ghosts, untold>>

Stages == {"idle", "outer", "inner", "edit", "undo", "look", "mark", "reconcile", "close", "done"}

\* The command is past the lock and has not ended.
Works(p) == stage[p] \notin {"idle", "outer", "inner"}
Working == {p \in Proc : Works(p)}

\* Two commands, or a command and a restore, are at the files.
Crowded ==
    \/ \E p, q \in Proc : p # q /\ Works(p) /\ Works(q)
    \/ restoring # {} /\ \E p \in Proc : Works(p)

Nothing == [f \in File |-> Keep]

TypeOK ==
    /\ lock \in Proc \cup {Nobody}
    /\ live \in [File -> OnDisk]
    /\ tmp \in [File -> OnDisk]
    /\ mode \in [Proc -> Modes]
    /\ cmd \in [Proc -> Command \cup {NoCommand}]
    /\ stage \in [Proc -> Stages]
    /\ step \in [Proc -> {"read", "write", "swap"}]
    /\ want \in [Proc -> [File -> {Keep} \cup Content]]
    /\ carried \in [Proc -> Content]
    /\ restoring \in SUBSET File
    /\ overlapped \in BOOLEAN /\ unserialised \in BOOLEAN /\ restored \in BOOLEAN
    /\ untold \in {"nothing", "lost", "hidden"}

\* A server on which nothing has run yet, or one at rest.
Init ==
    /\ lock = Nobody
    /\ live \in [File -> {Absent} \cup Content]
    /\ tmp = [f \in File |-> Absent]
    /\ mode = [p \in Proc |-> "bare"]
    /\ cmd = [p \in Proc |-> NoCommand]
    /\ stage = [p \in Proc |-> "idle"]
    /\ step = [p \in Proc |-> "read"]
    /\ want = [p \in Proc |-> Nothing]
    /\ carried = [p \in Proc |-> {}]
    /\ restoring = {}
    /\ overlapped = FALSE /\ unserialised = FALSE /\ restored = FALSE
    /\ untold = "nothing"

-----------------------------------------------------------------------------
(* Getting in. *)

\* Who holds the lock while p is on its way out.
Released(p) == IF lock = p THEN Nobody ELSE lock

Leave(p) ==
    /\ lock' = Released(p)
    /\ mode' = [mode EXCEPT ![p] = "bare"]
    /\ cmd' = [cmd EXCEPT ![p] = NoCommand]
    /\ stage' = [stage EXCEPT ![p] = "idle"]
    /\ step' = [step EXCEPT ![p] = "read"]
    /\ want' = [want EXCEPT ![p] = Nothing]
    /\ carried' = [carried EXCEPT ![p] = {}]

\* p goes from one place to the next, with nothing else of it changing.
Goes(p, to) ==
    /\ stage' = [stage EXCEPT ![p] = to]
    /\ UNCHANGED <<lock, calls, step, plans>>

\* Bounds: nothing is claimed of what comes after two were at the files at once, and
\* no further command is started then; a restore and a command that takes the lock on
\* trust are not both tried.
Start(p, call) ==
    /\ stage[p] = "idle"
    /\ ~overlapped
    /\ call.mode = "trusting" => ~restored
    /\ mode' = [mode EXCEPT ![p] = call.mode]
    /\ cmd' = [cmd EXCEPT ![p] = call.cmd]
    /\ stage' = [stage EXCEPT ![p] = IF call.mode \in {"wrapped", "forgetful"} THEN "outer" ELSE "inner"]
    /\ UNCHANGED <<lock, live, tmp, step, plans, restoring, unserialised, restored, untold>>

\* flock(1) gets the lock for the command it is about to run ...
Flock(p) ==
    /\ stage[p] = "outer"
    /\ lock = Nobody
    /\ lock' = p
    /\ stage' = [stage EXCEPT ![p] = "inner"]
    /\ UNCHANGED <<live, tmp, calls, step, plans, restoring, unserialised, restored, untold>>

\* ... or has waited long enough, where it was given a bound.
GiveUp(p) ==
    /\ stage[p] = "outer"
    /\ lock # Nobody
    /\ Leave(p)
    /\ UNCHANGED <<live, tmp, restoring, unserialised, restored, untold>>

\* The first thing a command does once it is in.
First(c) ==
    IF c.op = "apply" THEN "look"
    ELSE IF c.op = "reconcile" THEN "reconcile"
    ELSE "edit"

\* The caller says that the lock is held, or it cannot be opened: taken on trust.
Trust(p) ==
    /\ stage[p] = "inner"
    /\ mode[p] \in {"wrapped", "trusting"}
    /\ Goes(p, First(cmd[p]))
    /\ unserialised' = (unserialised \/ mode[p] = "trusting")
    /\ UNCHANGED <<live, tmp, restoring, restored, untold>>

\* Faulty variant: flock(2) is asked to wait.
TakeWaiting(p) ==
    /\ stage[p] = "inner"
    /\ mode[p] \in {"bare", "forgetful"}
    /\ lock = Nobody
    /\ lock' = p
    /\ stage' = [stage EXCEPT ![p] = First(cmd[p])]
    /\ UNCHANGED <<live, tmp, calls, step, plans, restoring, unserialised, restored, untold>>

\* Faulty variant: a lock that is taken is reported like one that cannot be opened.
TakeRegardless(p) ==
    /\ stage[p] = "inner"
    /\ mode[p] \in {"bare", "forgetful"}
    /\ lock' = IF lock = Nobody THEN p ELSE lock
    /\ stage' = [stage EXCEPT ![p] = First(cmd[p])]
    /\ UNCHANGED <<live, tmp, calls, step, plans, restoring, unserialised, restored, untold>>

\* Without a word from the caller vpnctl asks for the lock without waiting.  It is
\* refused (75) if anybody holds it: the flock(1) it was itself started by included.
Take(p) ==
    /\ stage[p] = "inner"
    /\ mode[p] \in {"bare", "forgetful"}
    /\ IF lock = Nobody
       THEN /\ lock' = p
            /\ stage' = [stage EXCEPT ![p] = First(cmd[p])]
            /\ UNCHANGED <<calls, step, plans>>
       ELSE Leave(p)
    /\ UNCHANGED <<live, tmp, restoring, unserialised, restored, untold>>

-----------------------------------------------------------------------------
(* One visit to the files: read, decide what to write, write a temporary   *)
(* file, put it in place; state.json before users.json.                    *)

\* What load returns for a file that is there, or is not.
Names(f) == IF live[f] \in {Absent, Torn} THEN {} ELSE live[f]

Readable(f) == live[f] # Torn

\* Where p goes when what it had to write is written.
Following(p) ==
    IF stage[p] = "edit" THEN "look"
    ELSE IF stage[p] = "undo" THEN "undo"
    ELSE IF stage[p] = "mark" THEN "reconcile"
    ELSE IF stage[p] = "reconcile" /\ cmd[p].op # "reconcile" THEN "close"
    ELSE "done"

\* p is about to read, at the given place.
Reads(p, at) == stage[p] = at /\ step[p] = "read"

Decides(p, files, withdrawn) ==
    /\ want' = [want EXCEPT ![p] = files]
    /\ carried' = [carried EXCEPT ![p] = withdrawn]
    /\ step' = [step EXCEPT ![p] = "write"]
    /\ UNCHANGED <<lock, live, tmp, calls, stage, restoring, unserialised, restored, untold>>

Writes(users, state) ==
    [f \in File |-> IF f = "users" THEN users ELSE state]

\* user add: a name that is not there yet.
EditAdd(p) ==
    /\ Reads(p, "edit")
    /\ cmd[p].op = "add"
    /\ Readable("users")
    /\ cmd[p].name \notin Names("users")
    /\ Decides(p, Writes(Names("users") \cup {cmd[p].name}, Keep), {})

\* The certificate is to be withdrawn.
Withdraws(p) == cmd[p].op \in {"rm", "disable"} /\ cmd[p].cert

\* The intent to do so, if it is not queued.
Intent(p) ==
    IF Withdraws(p) /\ cmd[p].name \notin Names("state")
    THEN Names("state") \cup {cmd[p].name}
    ELSE Keep

\* user rm, user enable, user disable: the record goes, or stays with another flag.
EditRecord(p) ==
    /\ Reads(p, "edit")
    /\ cmd[p].op \in {"rm", "enable", "disable"}
    /\ Readable("users")
    /\ cmd[p].name \in Names("users")
    /\ Withdraws(p) => Readable("state")
    /\ Decides(p, Writes(IF cmd[p].op = "rm" THEN Names("users") \ {cmd[p].name}
                                             ELSE Names("users"),
                         Intent(p)), {})

\* protocol on, protocol off: another field of state.json.
EditProtocol(p) ==
    /\ Reads(p, "edit")
    /\ cmd[p].op = "protocol"
    /\ Readable("state")
    /\ Decides(p, Writes(Keep, Names("state")), {})

\* protocol on, when the secrets cannot be made: the state as it was is saved again, and
\* the command dies.
Rollback(p) ==
    /\ Reads(p, "look")
    /\ cmd[p].op = "protocol"
    /\ want' = [want EXCEPT ![p] = Writes(Keep, Names("state"))]
    /\ step' = [step EXCEPT ![p] = "write"]
    /\ stage' = [stage EXCEPT ![p] = "undo"]
    /\ UNCHANGED <<lock, live, tmp, calls, carried, restoring, unserialised, restored, untold>>

\* Faulty variant: state.load, which does not say.
LookQuietly(p) ==
    /\ Reads(p, "look")
    /\ Readable("state")
    /\ Readable("users")
    /\ Goes(p, "mark")
    /\ UNCHANGED <<live, tmp, restoring, unserialised, restored, untold>>

\* The start of apply: whether state.json is there at all is told to the operator.
Look(p) ==
    /\ Reads(p, "look")
    /\ Readable("state")
    /\ Readable("users")
    /\ Goes(p, "mark")
    /\ untold' = IF live["state"] = Absent THEN "nothing" ELSE untold
    /\ UNCHANGED <<live, tmp, restoring, unserialised, restored>>

\* apply loads state.json and saves it, with the mark and then without it.
Resave(p) ==
    /\ Reads(p, "mark") \/ Reads(p, "close")
    /\ Readable("state")
    /\ Decides(p, Writes(Keep, Names("state")), {})

\* Faulty variant: a withdrawal that did not go through is taken off the list too.
ReconcileAll(p, withdrawn) ==
    /\ Reads(p, "reconcile")
    /\ Readable("state")
    /\ Readable("users")
    /\ Decides(p, Writes(Names("users"), {}), withdrawn \cap Names("state"))

\* Faulty variant: a name whose withdrawal was carried out loses its record too.
ReconcileForgets(p, withdrawn) ==
    /\ Reads(p, "reconcile")
    /\ Readable("state")
    /\ Readable("users")
    /\ Decides(p, Writes(Names("users") \ withdrawn, Names("state") \ withdrawn),
               withdrawn \cap Names("state"))

\* Both files are read, the container is worked on, and both are written.
Reconcile(p, withdrawn) ==
    /\ Reads(p, "reconcile")
    /\ Readable("state")
    /\ Readable("users")
    /\ Decides(p, Writes(Names("users"), Names("state") \ withdrawn),
               withdrawn \cap Names("state"))

\* IKEv2 is not on, not running or does not answer, or apply was told not to restart.
NoReconcile(p) ==
    /\ Reads(p, "reconcile")
    /\ cmd[p].op # "reconcile"
    /\ \E to \in {"close"} \cup (IF cmd[p].op = "apply" THEN {"done"} ELSE {}) : Goes(p, to)
    /\ UNCHANGED <<live, tmp, restoring, unserialised, restored, untold>>

\* Faulty variant: users.json is saved first.
SavingUsersFirst(p) == IF want[p]["users"] # Keep THEN "users" ELSE "state"

\* The file p is saving.
Saving(p) == IF want[p]["state"] # Keep THEN "state" ELSE "users"

\* Another command has the same temporary file in its hands.
Shares(p) == \E q \in Proc \ {p} : step[q] # "read" /\ Saving(q) = Saving(p)

\* The temporary file is created or emptied, and written; two at once may spoil it.
Write(p) ==
    /\ step[p] = "write"
    /\ \E c \in {want[p][Saving(p)]} \cup (IF Shares(p) THEN {Torn} ELSE {}) :
          tmp' = [tmp EXCEPT ![Saving(p)] = c]
    /\ step' = [step EXCEPT ![p] = "swap"]
    /\ UNCHANGED <<lock, live, calls, stage, plans, restoring, unserialised, restored, untold>>

\* os.replace, which needs the temporary file to be there still.
Swap(p) ==
    LET f == Saving(p)
        left == [want[p] EXCEPT ![f] = Keep]
    IN  /\ step[p] = "swap"
        /\ tmp[f] # Absent
        /\ live' = [live EXCEPT ![f] = tmp[f]]
        /\ tmp' = [tmp EXCEPT ![f] = Absent]
        /\ want' = [want EXCEPT ![p] = left]
        /\ carried' = [carried EXCEPT ![p] = {}]
        /\ IF left = Nothing
           THEN /\ step' = [step EXCEPT ![p] = "read"]
                /\ stage' = [stage EXCEPT ![p] = Following(p)]
           ELSE /\ step' = [step EXCEPT ![p] = "write"]
                /\ UNCHANGED stage
        /\ untold' = IF /\ f = "state" /\ live[f] = Absent /\ untold = "lost"
                        /\ stage[p] \in {"edit", "undo"} \/ cmd[p].op = "reconcile"
                     THEN "hidden" ELSE untold
        /\ UNCHANGED <<lock, calls, restoring, unserialised, restored>>

-----------------------------------------------------------------------------
(* How a command ends. *)

\* It has said OK, or that there was nothing to do.
End(p) ==
    /\ stage[p] = "done"
    /\ Leave(p)
    /\ UNCHANGED <<live, tmp, restoring, unserialised, restored, untold>>

\* A refusal, nothing to do, or an error anywhere; no temporary file stays behind.
Fail(p) ==
    /\ Works(p)
    /\ stage[p] # "done"
    /\ Leave(p)
    /\ tmp' = IF step[p] = "read" THEN tmp ELSE [tmp EXCEPT ![Saving(p)] = Absent]
    /\ UNCHANGED <<live, restoring, unserialised, restored, untold>>

\* It is killed.  A temporary file left behind is as good as none, the next to
\* write it empties it first, unless another is writing it already.
Kill(p) ==
    /\ stage[p] # "idle"
    /\ Leave(p)
    /\ \/ step[p] = "read" /\ UNCHANGED tmp
       \/ step[p] # "read" /\ ~Shares(p) /\ tmp' = [tmp EXCEPT ![Saving(p)] = Absent]
       \/ step[p] # "read" /\ Shares(p) /\ UNCHANGED tmp
       \/ step[p] = "write" /\ Shares(p) /\ tmp' = [tmp EXCEPT ![Saving(p)] = Torn]
    /\ UNCHANGED <<live, restoring, unserialised, restored, untold>>

-----------------------------------------------------------------------------
(* What else happens to the files. *)

\* A file is deleted, or its disk is.
Lose(f) ==
    /\ Working = {}
    /\ restoring = {}
    /\ live[f] # Absent
    /\ live' = [live EXCEPT ![f] = Absent]
    /\ untold' = IF f = "state" THEN "lost" ELSE untold
    /\ UNCHANGED <<lock, tmp, calls, stage, step, plans, restoring, unserialised, restored>>

\* vpnctl status says when there is no state.json.
Status ==
    /\ Readable("state")
    /\ live["state"] = Absent
    /\ untold' = "nothing"
    /\ UNCHANGED <<lock, live, tmp, calls, stage, step, plans, restoring, unserialised, restored>>

\* Bounds: one restore, and see Start.
RestoreBegin ==
    /\ ~restored
    /\ ~unserialised /\ \A p \in Proc : mode[p] # "trusting"
    /\ restoring' = File
    /\ restored' = TRUE
    /\ UNCHANGED <<lock, live, tmp, calls, stage, step, plans, unserialised, untold>>

\* tar removes the file that is there, and writes the one from the archive.
Unlink(f) ==
    /\ f \in restoring
    /\ live' = [live EXCEPT ![f] = Absent]
    /\ UNCHANGED <<lock, tmp, calls, stage, step, plans, restoring, unserialised, restored, untold>>

Unpack(f) ==
    /\ f \in restoring
    /\ live[f] = Absent
    /\ live' = [live EXCEPT ![f] = Torn]
    /\ UNCHANGED <<lock, tmp, calls, stage, step, plans, restoring, unserialised, restored, untold>>

Unpacked(f) ==
    /\ f \in restoring
    /\ live[f] = Torn
    /\ live' = [live EXCEPT ![f] = Backup[f]]
    /\ restoring' = restoring \ {f}
    /\ untold' = IF f = "state" THEN "nothing" ELSE untold
    /\ UNCHANGED <<lock, tmp, calls, stage, step, plans, unserialised, restored>>

\* The connection or the archive breaks.
RestoreCut ==
    /\ restoring # {}
    /\ restoring' = {}
    /\ UNCHANGED <<lock, live, tmp, calls, stage, step, plans, unserialised, restored, untold>>

-----------------------------------------------------------------------------
\* The steps of a command that is in, up to its end.
Steps(p) ==
    \/ Trust(p) \/ Take(p)
    \/ EditAdd(p) \/ EditRecord(p) \/ EditProtocol(p) \/ Rollback(p)
    \/ Look(p) \/ Resave(p) \/ NoReconcile(p)
    \/ \E withdrawn \in Content : Reconcile(p, withdrawn)
    \/ Write(p) \/ Swap(p)
    \/ End(p) \/ Fail(p)

Caller(p) ==
    \/ \E call \in Call : Start(p, call)
    \/ Flock(p) \/ GiveUp(p) \/ Kill(p)

Operator ==
    \/ \E f \in File : Lose(f) \/ Unlink(f) \/ Unpack(f) \/ Unpacked(f)
    \/ Status \/ RestoreBegin \/ RestoreCut

\* Whether two are at the files is noted after every step.
Watch == overlapped' = (overlapped \/ Crowded')

Step ==
    \/ \E p \in Proc : Steps(p) \/ Caller(p)
    \/ Operator

Next == Step /\ Watch

\* A command that is in comes to its end: nothing it waits for is without a bound.
Fairness == \A p \in Proc : WF_vars(Steps(p) /\ Watch)

Spec == Init /\ [][Next]_vars /\ Fairness

-----------------------------------------------------------------------------
(* Only a command without the lock, or a restore, can make two of them      *)
(* work on the files at once: a caller that forgets to say that it holds    *)
(* the lock does not, nor does one that comes without it (cli.py:101).      *)
Serialised == overlapped => unserialised \/ restored

(* A file is never found half written, whatever is killed when, unless two  *)
(* were at it or a restore was (users_store.py:281, state.py:131).          *)
Whole == overlapped \/ restored \/ \A f \in File : live[f] # Torn

(* When a command says OK its own change is in users.json, although apply   *)
(* has read and rewritten the file since (cli.py:745-776, cli.py:573).      *)
OkMeansDone ==
    \A p \in Proc :
        stage[p] = "done" /\ ~overlapped =>
            /\ cmd[p].op = "add" => cmd[p].name \in Names("users")
            /\ cmd[p].op = "rm" => cmd[p].name \notin Names("users")

(* A record with a certificate goes, or is disabled, only when the intent   *)
(* to withdraw the certificate is on disk: a kill in between loses neither  *)
(* (cli.py:768-775, cli.py:788-793).                                        *)
RecordSaved(p) == stage[p] = "edit" /\ step[p] = "swap" /\ Saving(p) = "users"

IntentOutlivesRecord ==
    [][\A p \in Proc :
          /\ RecordSaved(p)
          /\ want'[p] # want[p] /\ stage'[p] # "idle"
          /\ Withdraws(p)
          => overlapped' \/ cmd[p].name \in Names("state")]_vars

Register == INSTANCE Registry WITH
    users <- Names("users"),
    pending <- Names("state"),
    asked <- {cmd[p] : p \in Working},
    carried <- UNION {carried[p] : p \in Proc}

(* What commands do to the files is what the register allows: one change    *)
(* at a time, each by a command that asked for it, none undone by the save  *)
(* of another that had read the file before; a record with a certificate    *)
(* goes when its withdrawal is queued, and a withdrawal leaves the queue    *)
(* when a reconcile has carried it out (cli.py:86-93, cli.py:125-130,       *)
(* cli.py:768-775, cli.py:529-568).                                         *)
ImplementsRegistry ==
    Register!Init /\ [][overlapped' \/ Working = {} \/ Register!Next]_(Register!vars)

(* A command that has started ends: it never waits for the lock its own     *)
(* caller holds (cli.py:104-111).                                           *)
Ends == \A p \in Proc : stage[p] \notin {"idle", "outer"} ~> stage[p] = "idle"

(* No command says OK over a protocol set that was invented unless it or    *)
(* an earlier one has said so (cli.py:180-199, state.py:70-84).  A command   *)
(* that saves state.json before it applies, or without applying, hides the   *)
(* loss from its own apply and from every later one (cli.py:697-723,        *)
(* 771-774, 568).                                                           *)
LossIsTold ==
    \A p \in Proc :
        stage[p] = "done" /\ cmd[p].op # "reconcile" /\ ~overlapped => untold # "lost"
=============================================================================
