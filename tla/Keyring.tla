------------------------------ MODULE Keyring ------------------------------
(***************************************************************************)
(* The keyring: one file per secret, minted a whole protocol at a time by  *)
(* `bootstrap` (vpnctl/bootstrap.py) or, where that takes a docker image,  *)
(* at `protocol on` (_prepare_secrets, vpnctl/cli.py).  Files that are     *)
(* halves of one thing are written one after the other, and any command    *)
(* can die in between; files get lost.                                     *)
(*                                                                         *)
(* What is abstracted:                                                     *)
(*   - what is in a file is the Batch it was minted in: two files of a     *)
(*     protocol fit together if they are of one batch;                     *)
(*   - protocols, and the files of one, are taken in any order;            *)
(*   - one file is written at once (temporary file, fsync, rename), and    *)
(*     one command runs at a time;                                         *)
(*   - of apply, its refusal to render with a secret missing is kept.      *)
(***************************************************************************)

CONSTANTS
    Protocol,
    Secret,
    Minted,     \* Protocol -> what its bootstrap() produces
    Prepared,   \* Protocol -> what its prepare() produces, {} if it has none
    Needs,      \* Protocol -> what render cannot do without (secret_names)
    Face,       \* Protocol -> the file a client's profile carries
    Source,     \* derivable: a file that can be rebuilt -> the file it comes from
    Batch,      \* bounds how many different contents a file can have
    Gone        \* no such file, or an empty one

Own(p) == Minted[p] \cup Prepared[p]

ASSUME ConstantsAssumption ==
    /\ Minted \in [Protocol -> SUBSET Secret]
    /\ Prepared \in [Protocol -> SUBSET Secret]
    /\ Needs \in [Protocol -> SUBSET Secret]
    /\ Face \in [Protocol -> Secret]
    /\ \A p \in Protocol :
         /\ Minted[p] = {} \/ Prepared[p] = {}
         /\ Needs[p] \subseteq Own(p)
         /\ Face[p] \in Own(p)
         /\ \A s \in DOMAIN Source \cap Own(p) : Source[s] \in Own(p)
    /\ \A p, q \in Protocol : p # q => Own(p) \cap Own(q) = {}
    /\ Gone \notin Batch

VARIABLES
    keyring,    \* the files: the batch each one's content is of
    enabled,    \* state.json
    pc,         \* where the command is; "idle" between commands
    force,      \* bootstrap --force
    left,       \* protocols bootstrap has still to look at
    partial,    \* protocols it found half present, and left alone
    minted,     \* it wrote something new
    target,     \* the protocol being written, or turned on
    batch,      \* what is being written ...
    todo,       \* ... and where it is still to be written
    said,       \* the last command's verdict
    profile,    \* history: the batch each protocol's profiles were handed out from
    torn,       \* history: a --force or a prepare died while writing these
    cut,        \* history: `protocol on` died before it had written these
    lost        \* history: a file these need was lost, and not made again since

command == <<pc, force, left, partial, minted, target, batch, todo>>
ghosts == <<profile, torn, cut, lost>>
vars == <<keyring, enabled, command, said, ghosts>>

Present == {s \in Secret : keyring[s] # Gone}

\* bootstrap.missing_secrets
Lacking(p) == Needs[p] \ Present

Content == Batch \cup {Gone}

TypeOK ==
    /\ keyring \in [Secret -> Content]
    /\ enabled \subseteq Protocol
    /\ pc \in {"idle", "bootstrap", "write", "rerender", "apply", "prepare", "install"}
    /\ force \in BOOLEAN
    /\ left \subseteq Protocol
    /\ partial \subseteq Protocol
    /\ minted \in BOOLEAN
    /\ target \subseteq Protocol
    /\ batch \in Content
    /\ todo \subseteq Secret
    /\ said \in {"nothing", "complete", "refused", "applied", "missing"}
    /\ profile \in [Protocol -> Content]
    /\ torn \subseteq Protocol
    /\ cut \subseteq Protocol
    /\ lost \subseteq Protocol

\* A new server, with whatever is on by default.
Init ==
    /\ keyring = [s \in Secret |-> Gone]
    /\ enabled = {p \in Protocol : Prepared[p] = {}}
    /\ pc = "idle"
    /\ force = FALSE
    /\ left = {} /\ partial = {} /\ minted = FALSE
    /\ target = {} /\ batch = Gone /\ todo = {}
    /\ said = "nothing"
    /\ profile = [p \in Protocol |-> Gone]
    /\ torn = {} /\ cut = {} /\ lost = {}

\* A batch that nothing of p holds: what a generator returns is never seen before.
Fresh(p) == Batch \ ({keyring[s] : s \in Own(p)} \cup {profile[p]})

\* The process ends; its variables go with it.
Over(verdict) ==
    /\ pc' = "idle"
    /\ said' = verdict
    /\ force' = FALSE
    /\ left' = {} /\ partial' = {} /\ minted' = FALSE
    /\ target' = {} /\ batch' = Gone /\ todo' = {}
-----------------------------------------------------------------------------
(***************************************************************************)
(* bootstrap                                                               *)
(***************************************************************************)

StartBootstrap(forced) ==
    /\ pc = "idle"
    /\ pc' = "bootstrap"
    /\ force' = forced
    /\ left' = Protocol
    /\ said' = "nothing"
    /\ UNCHANGED <<keyring, enabled, partial, minted, target, batch, todo, ghosts>>

\* Nothing of p is there, or all of it is to be replaced: mint the set.
Mint(p) ==
    /\ pc = "bootstrap"
    /\ p \in left
    /\ Minted[p] # {}
    /\ force \/ Minted[p] \cap Present = {}
    /\ batch' \in Fresh(p)
    /\ todo' = Minted[p]
    /\ target' = {p}
    /\ left' = left \ {p}
    /\ pc' = "write"
    /\ UNCHANGED <<keyring, enabled, force, partial, minted, said, ghosts>>

\* Faulty variant: a gap is filled per secret, with a fresh one.
KeepFills(p) ==
    /\ pc = "bootstrap"
    /\ p \in left
    /\ Minted[p] # {} => ~force /\ Minted[p] \cap Present # {}
    /\ \E b \in Fresh(p) :
         keyring' = [s \in Secret |-> IF s \in Minted[p] \ Present THEN b ELSE keyring[s]]
    /\ left' = left \ {p}
    /\ UNCHANGED <<enabled, pc, force, partial, minted, target, batch, todo, said, ghosts>>

Derivable(p) == {s \in (Minted[p] \cap DOMAIN Source) \ Present : Source[s] \in Present}

\* Something of p is there: rebuild what can be derived, mint nothing, and
\* remember a set that is still half present.
Keep(p) ==
    /\ pc = "bootstrap"
    /\ p \in left
    /\ Minted[p] # {} => ~force /\ Minted[p] \cap Present # {}
    /\ keyring' = [s \in Secret |-> IF s \in Derivable(p) THEN keyring[Source[s]] ELSE keyring[s]]
    /\ partial' = IF Minted[p] \subseteq Present \cup Derivable(p) THEN partial ELSE partial \cup {p}
    /\ left' = left \ {p}
    /\ UNCHANGED <<enabled, pc, force, minted, target, batch, todo, said, ghosts>>

\* One file of the set, put in place by a rename.
WriteSecret(s) ==
    /\ pc \in {"write", "install"}
    /\ s \in todo
    /\ keyring' = [keyring EXCEPT ![s] = batch]
    /\ todo' = todo \ {s}
    /\ UNCHANGED <<enabled, pc, force, left, partial, minted, target, batch, said, ghosts>>

Minting ==
    /\ pc = "write"
    /\ todo = {}
    /\ pc' = "bootstrap"
    /\ minted' = TRUE
    /\ target' = {} /\ batch' = Gone
    /\ torn' = torn \ target /\ lost' = lost \ target
    /\ UNCHANGED <<keyring, enabled, force, left, partial, todo, said, profile, cut>>

\* KeyringRefused, whatever else was written.
Refuse ==
    /\ pc = "bootstrap"
    /\ left = {}
    /\ partial # {}
    /\ Over("refused")
    /\ UNCHANGED <<keyring, enabled, ghosts>>

\* With new credentials and users, the tree is rendered again (cmd_bootstrap).
Complete(users) ==
    /\ pc = "bootstrap"
    /\ left = {}
    /\ partial = {}
    /\ IF minted /\ users
       THEN pc' = "rerender" /\ UNCHANGED <<force, left, partial, minted, target, batch, todo, said>>
       ELSE Over("complete")
    /\ UNCHANGED <<keyring, enabled, ghosts>>
-----------------------------------------------------------------------------
(***************************************************************************)
(* protocol on, protocol off, apply, export                                *)
(***************************************************************************)

\* Faulty variant: the keys are made at every `protocol on`.
ProtocolOnMints(p) ==
    /\ pc = "idle"
    /\ p \notin enabled
    /\ enabled' = enabled \cup {p}
    /\ pc' = IF Prepared[p] = {} THEN "apply" ELSE "prepare"
    /\ target' = {p}
    /\ said' = "nothing"
    /\ UNCHANGED <<keyring, force, left, partial, minted, batch, todo, ghosts>>

ProtocolOn(p) ==
    /\ pc = "idle"
    /\ p \notin enabled
    /\ enabled' = enabled \cup {p}
    /\ pc' = IF Lacking(p) = {} \/ Prepared[p] = {} THEN "apply" ELSE "prepare"
    /\ target' = {p}
    /\ said' = "nothing"
    /\ UNCHANGED <<keyring, force, left, partial, minted, batch, todo, ghosts>>

ProtocolOff(p) ==
    /\ pc = "idle"
    /\ p \in enabled
    /\ enabled' = enabled \ {p}
    /\ pc' = "apply"
    /\ said' = "nothing"
    /\ UNCHANGED <<keyring, force, left, partial, minted, target, batch, todo, ghosts>>

\* The image is built and the keys are generated: they exist nowhere yet.
Prepare ==
    /\ pc = "prepare"
    /\ \E p \in target :
         /\ batch' \in Fresh(p)
         /\ todo' = Prepared[p]
    /\ pc' = "install"
    /\ UNCHANGED <<keyring, enabled, force, left, partial, minted, target, said, ghosts>>

\* Faulty variant: the toggle stays.
PrepareFailsStill ==
    /\ pc = "prepare"
    /\ Over("nothing")
    /\ UNCHANGED <<keyring, enabled, ghosts>>

\* Any Exception rolls the toggle back.
PrepareFails ==
    /\ pc = "prepare"
    /\ enabled' = enabled \ target
    /\ Over("nothing")
    /\ UNCHANGED <<keyring, ghosts>>

Installed ==
    /\ pc = "install"
    /\ todo = {}
    /\ pc' = "apply"
    /\ target' = {} /\ batch' = Gone
    /\ torn' = torn \ target /\ cut' = cut \ target /\ lost' = lost \ target
    /\ UNCHANGED <<keyring, enabled, force, left, partial, minted, todo, said, profile>>

StartApply ==
    /\ pc = "idle"
    /\ pc' = "apply"
    /\ said' = "nothing"
    /\ UNCHANGED <<keyring, enabled, force, left, partial, minted, target, batch, todo, ghosts>>

\* Nothing is rendered while an enabled protocol lacks a secret.
Render ==
    /\ pc \in {"apply", "rerender"}
    /\ IF \E p \in enabled : Lacking(p) # {}
       THEN Over("missing")
       ELSE Over(IF pc = "apply" THEN "applied" ELSE "complete")
    /\ UNCHANGED <<keyring, enabled, ghosts>>

\* A profile carries the public half that is stored, or that can be derived.
Export(p) ==
    /\ pc = "idle"
    /\ p \in enabled
    /\ Lacking(p) = {}
    /\ \E from \in {Face[p]} \cup (IF Face[p] \in DOMAIN Source \ Present THEN {Source[Face[p]]} ELSE {}) :
         /\ from \in Present
         /\ profile' = [profile EXCEPT ![p] = keyring[from]]
    /\ UNCHANGED <<keyring, enabled, command, said, torn, cut, lost>>

\* A kill, a Ctrl-C (which no `except Exception` sees), a full disk: at any step.
Die ==
    /\ pc # "idle"
    /\ Over("nothing")
    /\ torn' = IF pc = "install" \/ (pc = "write" /\ force) THEN torn \cup target ELSE torn
    /\ cut' = IF pc \in {"prepare", "install"} THEN cut \cup target ELSE cut
    /\ UNCHANGED <<keyring, enabled, profile, lost>>

\* A file is deleted, or emptied.
Lose(s) ==
    /\ pc = "idle"
    /\ s \in Present
    /\ keyring' = [keyring EXCEPT ![s] = Gone]
    /\ lost' = lost \cup {p \in Protocol : s \in Own(p)}
    /\ said' = "nothing"
    /\ UNCHANGED <<enabled, command, profile, torn, cut>>
-----------------------------------------------------------------------------
Bootstrap ==
    \/ \E forced \in BOOLEAN : StartBootstrap(forced)
    \/ \E p \in Protocol : Mint(p) \/ Keep(p)
    \/ Minting \/ Refuse \/ (\E users \in BOOLEAN : Complete(users))

Toggle ==
    \/ \E p \in Protocol : ProtocolOn(p) \/ ProtocolOff(p) \/ Export(p)
    \/ Prepare \/ PrepareFails \/ Installed \/ StartApply \/ Render

Next ==
    \/ Bootstrap \/ Toggle \/ Die
    \/ \E s \in Secret : WriteSecret(s) \/ Lose(s)

Spec == Init /\ [][Next]_vars
-----------------------------------------------------------------------------
(***************************************************************************)
(* Properties.                                                             *)
(***************************************************************************)

Agree(p) ==
    \A s, t \in Own(p) \cap Present : keyring[s] = keyring[t]

\* Between commands the files of a protocol that are there fit together,
\* whatever was lost, refused, rebuilt or killed - except where a --force or a
\* prepare died half way over what was there (bootstrap.py, the comments on the
\* skip and on _heal).
HalvesAgree ==
    pc = "idle" => \A p \in Protocol \ torn : Agree(p)

\* When bootstrap reports success no protocol is half present: a set that it
\* could not complete is refused out loud (KeyringRefused).
CompleteMeansWhole ==
    said = "complete" => \A p \in Protocol : Minted[p] \subseteq Present

\* A protocol whose keys are made at `protocol on` is never left on without
\* them - a failed prepare rolls the toggle back (_prepare_secrets) - unless the
\* command was cut off, or the file was lost later.
OnMeansPrepared ==
    pc = "idle" =>
        \A p \in enabled \ (cut \cup lost) : Prepared[p] # {} => Lacking(p) = {}

\* The profiles handed out for p connect.
Works(p) ==
    profile[p] # Gone /\ \A s \in Needs[p] : keyring[s] = profile[p]

\* A profile that works goes on working, through `protocol off` and `on`, and
\* any bootstrap, unless --force replaces a secret behind it or a file is lost.
ProfilesKeepWorking ==
    [][\A p \in Protocol : Works(p) =>
         \A s \in Needs[p] :
             \/ keyring'[s] = keyring[s]
             \/ force /\ pc = "write" /\ p \in target
             \/ Lose(s)]_vars

\* What makes the invariants above inductive.  Writing: what is not in todo any
\* more is of the batch, and without --force nothing else was there.
Writing ==
    pc \in {"write", "install"} =>
        \E p \in Protocol :
            /\ target = {p}
            /\ batch \in Batch
            /\ todo \subseteq Own(p)
            /\ \A s \in Own(p) \ todo : keyring[s] = batch
            /\ pc = "write" => Minted[p] # {}
            /\ pc = "write" /\ ~force => \A s \in Own(p) \cap Present : keyring[s] = batch
            /\ pc = "install" => Prepared[p] # {}

Preparing ==
    pc = "prepare" => \E p \in Protocol : target = {p} /\ Prepared[p] # {}

\* Nothing is prepared for a protocol whose profiles work: some file of it is
\* missing, or new.
Unused ==
    /\ pc = "prepare" => \A p \in target : Lacking(p) # {}
    /\ pc = "install" =>
         \A p \in target :
             batch # profile[p] /\ \E s \in Needs[p] : keyring[s] \in {Gone, batch}

Fitting ==
    /\ \A p \in Protocol \ torn : Agree(p) \/ (pc \in {"write", "install"} /\ p \in target)
    /\ \A p \in enabled \ (cut \cup lost) :
          Prepared[p] # {} => Lacking(p) = {} \/ (pc \in {"prepare", "install"} /\ p \in target)

\* A protocol that bootstrap has looked at is whole, or among the partial ones.
Settled ==
    /\ pc \in {"bootstrap", "write"} =>
         \A p \in Protocol \ (left \cup partial) :
             Minted[p] \subseteq Present \/ (pc = "write" /\ p \in target)
    /\ pc = "rerender" => \A p \in Protocol : Minted[p] \subseteq Present
    /\ pc # "idle" => said = "nothing"
    /\ CompleteMeansWhole
=============================================================================
