------------------------------- MODULE Ikev2 -------------------------------
(***************************************************************************)
(* Who holds a working IKEv2 certificate.  Certificates live in a          *)
(* container this repository does not own; what should exist is written in *)
(* users.json, and what still has to be withdrawn in state.json            *)
(* (revoke_pending).  `user add | rm | enable | disable` write the files,  *)
(* and reconcile_ikev2 (vpnctl/cli.py), at the end of every apply, drives  *)
(* the container to them through `docker exec ikev2.sh`.                   *)
(*                                                                         *)
(* What is abstracted:                                                     *)
(*   - names are compared exactly and processed in any order (the code     *)
(*     sorts them);                                                        *)
(*   - of apply only its calling reconcile_ikev2, or not getting there, is *)
(*     kept (Apply models the rest); one command runs at a time, under the *)
(*     flock;                                                              *)
(*   - which certificate a name holds is abstracted to whether it was      *)
(*     issued under the name's present grant or under one withdrawn since  *)
(*     (former).  `disable` and `rm` withdraw a grant, so that `enable` and *)
(*     `add` stand for a new one, with a new certificate;                  *)
(*   - one docker exec at a time outlives the command that sent it;        *)
(*   - a certificate deleted while it is valid goes on being accepted,     *)
(*     although no listing shows it: only an exec that outlived its        *)
(*     command may do that, and what it leaves is not counted.             *)
(***************************************************************************)
EXTENDS FiniteSets

CONSTANT Name

VARIABLES
    user,         \* users.json: "none", "on" or "off" for each name
    provisioned,  \* users.json: the ikev2_provisioned flags
    pending,      \* state.json: revoke_pending
    cert,         \* the container's IPsec database
    former,       \* history: the valid certificates issued under a withdrawn grant
    torn,         \* history: issued and never written down (it died, or the add failed)
    late,         \* the docker exec that goes on after its command was cut off
    landed,       \* history: one did its work since the last listing
    up,           \* the container runs
    pc,           \* where the command is; "idle" between commands
    target,       \* the name that `rm` or `disable` is about
    valid,        \* reconcile's belief: names that hold a working certificate
    reserved,     \* reconcile's belief: names that hold a revoked one
    left,         \* the names its current loop has not processed
    revokeFailed, addFailed,
    said          \* the last command's verdict on the certificates

files == <<user, provisioned, pending>>
container == <<cert, former, torn, late, landed>>
belief == <<valid, reserved, left, revokeFailed, addFailed>>
vars == <<files, container, up, pc, target, belief, said>>

Recorded == {n \in Name : user[n] # "none"}
Wanted == {n \in Name : user[n] = "on"}
Valid == {n \in Name : cert[n] = "valid"}
Revoked == {n \in Name : cert[n] = "revoked"}

\* An exec on its way; `old` when the grant an add was for has been withdrawn since.
Exec == [does : {"revoke", "delete", "add"}, name : Name, old : BOOLEAN]

TypeOK ==
    /\ user \in [Name -> {"none", "on", "off"}]
    /\ provisioned \subseteq Recorded
    /\ pending \subseteq Name
    /\ cert \in [Name -> {"none", "valid", "revoked"}]
    /\ former \subseteq Valid
    /\ torn \subseteq Valid
    /\ late \subseteq Exec
    /\ landed \in BOOLEAN
    /\ up \in BOOLEAN
    /\ pc \in {"idle", "remove", "disable", "reconcile", "withdraw", "issue", "flags"}
    /\ target \subseteq Name
    /\ valid \subseteq Name /\ reserved \subseteq Name /\ left \subseteq Name
    /\ revokeFailed \subseteq Name /\ addFailed \subseteq Name
    /\ said \in {"nothing", "clean", "failed"}

\* A server without users, ikev2 not started yet.
Init ==
    /\ user = [n \in Name |-> "none"]
    /\ provisioned = {}
    /\ pending = {}
    /\ cert = [n \in Name |-> "none"]
    /\ former = {}
    /\ torn = {}
    /\ late = {}
    /\ landed = FALSE
    /\ up = FALSE
    /\ pc = "idle"
    /\ target = {}
    /\ valid = {} /\ reserved = {} /\ left = {}
    /\ revokeFailed = {} /\ addFailed = {}
    /\ said = "nothing"
-----------------------------------------------------------------------------
(***************************************************************************)
(* The commands that write the files.                                      *)
(***************************************************************************)

\* `user add`: a new record, not provisioned, then apply.
UserAdd(n) ==
    /\ pc = "idle"
    /\ user[n] = "none"
    /\ user' = [user EXCEPT ![n] = "on"]
    /\ pc' = "reconcile"
    /\ said' = "nothing"
    /\ UNCHANGED <<provisioned, pending, container, up, target, belief>>

UserEnable(n) ==
    /\ pc = "idle"
    /\ n \in Recorded
    /\ user' = [user EXCEPT ![n] = "on"]
    /\ pc' = "reconcile"
    /\ said' = "nothing"
    /\ UNCHANGED <<provisioned, pending, container, up, target, belief>>

\* `user rm` and `user disable` first save the intent to revoke, if a
\* certificate is on record.
Queue(n, next) ==
    /\ pc = "idle"
    /\ n \in Recorded
    /\ pending' = IF n \in provisioned THEN pending \cup {n} ELSE pending
    /\ target' = {n}
    /\ pc' = next
    /\ said' = "nothing"
    /\ UNCHANGED <<user, provisioned, container, up, belief>>

\* Then they save the record, which withdraws the grant, and apply.
Withdrawn ==
    /\ former' = former \cup (target \cap Valid)
    /\ late' = {[e EXCEPT !.old = @ \/ (e.does = "add" /\ e.name \in target)] : e \in late}

UserRm ==
    /\ pc = "remove"
    /\ user' = [n \in Name |-> IF n \in target THEN "none" ELSE user[n]]
    /\ provisioned' = provisioned \ target
    /\ Withdrawn
    /\ pc' = "reconcile"
    /\ UNCHANGED <<pending, cert, torn, landed, up, target, belief, said>>

UserDisable ==
    /\ pc = "disable"
    /\ user' = [n \in Name |-> IF n \in target THEN "off" ELSE user[n]]
    /\ Withdrawn
    /\ pc' = "reconcile"
    /\ UNCHANGED <<provisioned, pending, cert, torn, landed, up, target, belief, said>>

\* `apply`, `ikev2 reconcile`, the boot unit.
StartReconcile ==
    /\ pc = "idle"
    /\ pc' = "reconcile"
    /\ said' = "nothing"
    /\ UNCHANGED <<files, container, up, target, belief>>
-----------------------------------------------------------------------------
(***************************************************************************)
(* reconcile_ikev2.                                                        *)
(***************************************************************************)

\* The end of a command: its variables are gone.
Over ==
    /\ pc' = "idle"
    /\ target' = {}
    /\ valid' = {} /\ reserved' = {} /\ left' = {}
    /\ revokeFailed' = {} /\ addFailed' = {}

\* What a reconcile that dies here has issued and not written down.
Unwritten == IF pc \in {"issue", "flags"} THEN torn \cup (Valid \ provisioned) ELSE torn

\* The container is down, the listing failed, or the command died or raised
\* before or between two of the steps below: nothing more is written.
GiveUp ==
    /\ pc # "idle"
    /\ Over
    /\ torn' = Unwritten
    /\ UNCHANGED <<files, cert, former, late, landed, up, said>>

\* Faulty variant: a queued name that is wanted again is skipped.
ListSkipsWanted ==
    /\ pc = "reconcile" /\ up
    /\ valid' = Valid
    /\ reserved' = Revoked
    /\ left' = (pending \cup Valid) \ Wanted
    /\ revokeFailed' = {} /\ addFailed' = {}
    /\ pc' = "withdraw"
    /\ landed' = FALSE
    /\ UNCHANGED <<files, cert, former, torn, late, up, target, said>>

\* Faulty variant: every certificate is withdrawn and issued anew.
ListEverything ==
    /\ pc = "reconcile" /\ up
    /\ valid' = Valid
    /\ reserved' = Revoked
    /\ left' = pending \cup Valid
    /\ revokeFailed' = {} /\ addFailed' = {}
    /\ pc' = "withdraw"
    /\ landed' = FALSE
    /\ UNCHANGED <<files, cert, former, torn, late, up, target, said>>

\* Every queued intent, plus every working certificate nobody wants any more.
List ==
    /\ pc = "reconcile" /\ up
    /\ valid' = Valid
    /\ reserved' = Revoked
    /\ left' = pending \cup (Valid \ Wanted)
    /\ revokeFailed' = {} /\ addFailed' = {}
    /\ pc' = "withdraw"
    /\ landed' = FALSE
    /\ UNCHANGED <<files, cert, former, torn, late, up, target, said>>

\* The database entry of n becomes s.  (An entry that is no longer valid is
\* nobody's former certificate.)
Entry(n, s) ==
    /\ cert' = [cert EXCEPT ![n] = s]
    /\ former' = former \ {n}
    /\ torn' = torn \ {n}

\* One exec of the command leaves it so.
SetEntry(n, s) == Entry(n, s) /\ UNCHANGED <<late, landed>>

\* What the container holds under n is not what the reconcile believes.
Mistaken(n) ==
    cert[n] # IF n \in valid THEN "valid" ELSE IF n \in reserved THEN "revoked" ELSE "none"

\* remove_client of a valid name, delete_client of a reserved one.  A name
\* the container does not hold leaves the loop, and later the queue.
Withdraw(n) ==
    /\ pc = "withdraw" /\ n \in left
    /\ n \in valid \cup reserved => up /\ ~Mistaken(n) /\ SetEntry(n, "none")
    /\ n \notin valid \cup reserved => UNCHANGED container
    /\ left' = left \ {n}
    /\ valid' = valid \ {n}
    /\ reserved' = reserved \ {n}
    /\ UNCHANGED <<files, up, pc, target, revokeFailed, addFailed, said>>

\* An exec failed: the first or, the revoke having gone through, the delete after
\* it, and either may have done its work and yet exited nonzero.  The beliefs stay
\* as they were.
WithdrawFails(n) ==
    /\ pc = "withdraw" /\ n \in left \cap (valid \cup reserved)
    /\ \/ UNCHANGED container
       \/ up /\ n \in valid /\ ~Mistaken(n) /\ SetEntry(n, "revoked")
       \/ up /\ ~Mistaken(n) /\ SetEntry(n, "none")
    /\ left' = left \ {n}
    /\ revokeFailed' = revokeFailed \cup {n}
    /\ UNCHANGED <<files, up, pc, target, valid, reserved, addFailed, said>>

\* Faulty variant: a name that is only reserved counts as present.
StartIssueReservedIsPresent ==
    /\ pc = "withdraw" /\ left = {}
    /\ left' = Wanted \ (valid \cup reserved)
    /\ pc' = "issue"
    /\ UNCHANGED <<files, container, up, target, valid, reserved, revokeFailed, addFailed, said>>

StartIssue ==
    /\ pc = "withdraw" /\ left = {}
    /\ left' = Wanted \ valid
    /\ pc' = "issue"
    /\ UNCHANGED <<files, container, up, target, valid, reserved, revokeFailed, addFailed, said>>

\* A reserved name is freed first: --addclient refuses one that exists.
Issue(n) ==
    /\ pc = "issue" /\ n \in left /\ up
    /\ ~Mistaken(n)
    /\ SetEntry(n, "valid")
    /\ left' = left \ {n}
    /\ valid' = valid \cup {n}
    /\ reserved' = reserved \ {n}
    /\ UNCHANGED <<files, up, pc, target, revokeFailed, addFailed, said>>

\* The delete failed, or the add after it, with its work done or not.  A certificate
\* that was issued by an add that failed is written down by nobody.
IssueFails(n) ==
    /\ pc = "issue" /\ n \in left
    /\ \/ UNCHANGED <<container, reserved>>
       \/ /\ up /\ n \in reserved /\ ~Mistaken(n) /\ SetEntry(n, "none")
          /\ reserved' \in {reserved, reserved \ {n}}
       \/ /\ up /\ ~Mistaken(n)
          /\ cert' = [cert EXCEPT ![n] = "valid"]
          /\ torn' = torn \cup {n}
          /\ reserved' = reserved \ {n}
          /\ UNCHANGED <<former, late, landed>>
    /\ left' = left \ {n}
    /\ addFailed' = addFailed \cup {n}
    /\ UNCHANGED <<files, up, pc, target, valid, revokeFailed, said>>

\* Faulty variant: a name leaves the queue only when it was withdrawn.
SaveQueueKeepsAbsent ==
    /\ pc = "issue" /\ left = {}
    /\ pending' = {n \in pending : n \in revokeFailed \/ n \notin valid}
    /\ pc' = "flags"
    /\ UNCHANGED <<user, provisioned, container, up, target, belief, said>>

\* A name stays queued only if its own withdrawal failed.
SaveQueue ==
    /\ pc = "issue" /\ left = {}
    /\ pending' = pending \cap revokeFailed
    /\ pc' = "flags"
    /\ UNCHANGED <<user, provisioned, container, up, target, belief, said>>

SaveFlags ==
    /\ pc = "flags"
    /\ provisioned' = Recorded \cap valid
    /\ torn' = torn \ (provisioned' \ former)
    /\ said' = IF revokeFailed = {} /\ addFailed = {} THEN "clean" ELSE "failed"
    /\ Over
    /\ UNCHANGED <<user, pending, cert, former, late, landed, up>>
-----------------------------------------------------------------------------
(***************************************************************************)
(* The container.                                                          *)
(***************************************************************************)

StartContainer ==
    /\ ~up
    /\ up' = TRUE
    /\ UNCHANGED <<files, container, pc, target, belief, said>>

StopContainer ==
    /\ up
    /\ up' = FALSE
    /\ late' = {}
    /\ UNCHANGED <<files, cert, former, torn, landed, pc, target, belief, said>>

\* The volume is removed, between two commands: no certificate is left.
LoseVolume ==
    /\ pc = "idle" /\ ~up
    /\ cert' = [n \in Name |-> "none"]
    /\ former' = {}
    /\ torn' = {}
    /\ said' = "nothing"
    /\ UNCHANGED <<files, late, landed, up, pc, target, belief>>

\* docker exec is cut off after 120 s, and nothing catches that: the command dies,
\* what it sent goes on.  Bound: one at a time.
CutOff(n, does) ==
    /\ Over
    /\ late = {}
    /\ late' = {[does |-> does, name |-> n, old |-> FALSE]}
    /\ UNCHANGED <<files, landed, up, said>>

\* In remove_client, at its first command or at its second; or in delete_client.
WithdrawCutOff(n) ==
    /\ pc = "withdraw" /\ n \in left /\ up
    /\ \/ n \in valid /\ CutOff(n, "revoke") /\ UNCHANGED <<cert, former, torn>>
       \/ n \in valid /\ ~Mistaken(n) /\ CutOff(n, "delete") /\ Entry(n, "revoked")
       \/ n \in reserved \ valid /\ CutOff(n, "delete") /\ UNCHANGED <<cert, former, torn>>

\* In delete_client, or in the add behind it.
IssueCutOff(n) ==
    /\ pc = "issue" /\ n \in left /\ up
    /\ torn' = Unwritten
    /\ \/ n \in reserved /\ CutOff(n, "delete") /\ UNCHANGED cert
       \/ ~Mistaken(n) /\ CutOff(n, "add") /\ cert' = [cert EXCEPT ![n] = "none"]
    /\ UNCHANGED former

\* It does its work after all, on what the name holds by now.  What it issues nobody
\* has written down.
Land ==
    \E e \in late :
        /\ late' = {} /\ landed' = TRUE
        /\ CASE e.does = "revoke" /\ e.name \in Valid -> Entry(e.name, "revoked")
             [] e.does = "delete" /\ cert[e.name] # "none" -> Entry(e.name, "none")
             [] e.does = "add" /\ cert[e.name] = "none" ->
                    /\ cert' = [cert EXCEPT ![e.name] = "valid"]
                    /\ former' = IF e.old THEN former \cup {e.name} ELSE former
                    /\ torn' = torn \cup {e.name}
             [] OTHER -> UNCHANGED <<cert, former, torn>>
        /\ UNCHANGED <<files, up, pc, target, belief, said>>
-----------------------------------------------------------------------------
\* An exec that cannot but be refused.
Refused(n) == up /\ Mistaken(n) /\ (WithdrawFails(n) \/ IssueFails(n))

\* A reconcile that meets no failure.
Reconcile ==
    \/ List \/ StartIssue \/ SaveQueue \/ SaveFlags
    \/ \E n \in Name : Withdraw(n) \/ Issue(n)

Commands ==
    \/ \E n \in Name : UserAdd(n) \/ UserEnable(n) \/ Queue(n, "remove") \/ Queue(n, "disable")
    \/ UserRm \/ UserDisable \/ StartReconcile

Faults ==
    \/ GiveUp \/ StartContainer \/ StopContainer \/ LoseVolume \/ Land
    \/ \E n \in Name : WithdrawFails(n) \/ IssueFails(n) \/ WithdrawCutOff(n) \/ IssueCutOff(n)

Next == Reconcile \/ Commands \/ Faults

Spec == Init /\ [][Next]_vars

\* What goes on once nobody edits and nothing fails: commands run to their end,
\* and the next apply comes (the operator's retry, the boot unit).
Undisturbed ==
    \/ Reconcile \/ UserRm \/ UserDisable \/ StartReconcile
    \/ \E n \in Name : Refused(n)

LiveSpec == Spec /\ WF_vars(Undisturbed)
-----------------------------------------------------------------------------
(***************************************************************************)
(* Properties.                                                             *)
(***************************************************************************)

\* While no reconcile is at work, a name that is wanted and still holds a
\* working certificate of a withdrawn grant is queued for revocation: the
\* removed holder's access is never forgotten and never handed to the next
\* holder of the name (reconcile_ikev2's docstring, cmd_user_rm).  The exception
\* is a certificate whose issue was never written down (torn).
FormerIsQueued ==
    pc \in {"idle", "remove", "disable", "reconcile"} =>
        Wanted \cap former \subseteq pending \cup torn

\* The same without the exception, as the docstring has it.
NeverInherited ==
    pc = "idle" => Wanted \cap former \subseteq pending

\* A reconcile that reports no failure leaves exactly the enabled users with a
\* working certificate, says so in their records, owes nothing, and what they
\* hold was issued to them.  The exception is an exec of an earlier command that
\* did its work since the listing: nothing waits for it (ikev2ctl.py:9).
CleanMeansExact ==
    said = "clean" /\ ~landed =>
        /\ Valid = Wanted
        /\ provisioned = Wanted
        /\ pending = {}
        /\ former \subseteq torn

\* No step takes a certificate away from an enabled user that holds it under the
\* present grant unless the name is queued, the volume is lost, or a withdrawal that
\* was cut off lands after the name was issued a new one.
WithdrawnOnlyIfQueued ==
    [][\A n \in Name :
         /\ n \in Wanted /\ n \in Valid \ former
         /\ cert'[n] # "valid"
         => n \in pending \/ LoseVolume \/ (Land /\ \E e \in late : e.name = n)]_vars

\* With the container up and no more failures, the certificates come to match
\* the users and the queue drains, for good.
EventuallyExact ==
    (<>[][Undisturbed]_vars /\ <>[]up) =>
        <>[](Valid = Wanted /\ pending = {} /\ former \subseteq torn)

\* What makes FormerIsQueued inductive.  In the middle of a reconcile, what is
\* not withdrawn yet is still to be visited, or on the list of failures that
\* SaveQueue keeps.
Outside == {"idle", "remove", "disable", "reconcile"}
Inside == {"withdraw", "issue", "flags"}

Kept ==
    /\ Valid \ Wanted \subseteq former
    /\ pc \in Outside \cup {"withdraw"} => Valid \subseteq provisioned \cup former \cup torn
    /\ pc \in Outside \cup {"flags"} => former \subseteq pending \cup torn
    /\ pc = "withdraw" => former \subseteq (pending \cap (left \cup revokeFailed)) \cup torn
    /\ pc = "issue" => former \subseteq (pending \cap revokeFailed) \cup torn
    /\ pc = "withdraw" => left \cap Wanted \subseteq pending
    /\ pc = "issue" => left \subseteq Wanted \ valid
    /\ pc \in Inside => Valid \subseteq valid \cup torn
    /\ pc \in Inside /\ landed => late = {}
    /\ \A e \in late : e.does = "add" /\ ~e.old => e.name \in Wanted
    /\ pc \in {"remove", "disable"} => target \cap provisioned \subseteq pending

\* What makes CleanMeansExact inductive: as long as nothing failed, what the
\* reconcile believes is so.
Exact ==
    /\ pc # "idle" => said = "nothing"
    /\ pc \in Inside /\ revokeFailed = {} /\ addFailed = {} /\ ~landed => valid = Valid
    /\ pc = "withdraw" /\ revokeFailed = {} => valid \ left \subseteq Wanted
    /\ pc \in {"issue", "flags"} /\ revokeFailed = {} => valid \subseteq Wanted
    /\ pc = "issue" /\ addFailed = {} => Wanted \ valid \subseteq left
    /\ pc = "flags" /\ addFailed = {} => Wanted \subseteq valid
    /\ pc = "flags" => pending \subseteq revokeFailed
    /\ CleanMeansExact
=============================================================================
