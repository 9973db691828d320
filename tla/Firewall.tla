------------------------------ MODULE Firewall ------------------------------
(***************************************************************************)
(* firewall.reconcile, near the end of every apply: it opens the ports of  *)
(* the enabled protocols in ufw, and closes those of its own that are no   *)
(* longer wanted, rule by rule, from one reading of `ufw status`.  People  *)
(* edit the same rules at any time.                                        *)
(*                                                                         *)
(* What is abstracted:                                                     *)
(*   - a rule is a port from Anywhere, with one tag.  Beside it there may  *)
(*     be one for a narrower source: ufw lists both under the same port,   *)
(*     and of the narrower ones reconcile sees those with our tag;         *)
(*   - the rules of a loop are taken in any order (the code sorts them);   *)
(*   - of apply, only its getting here or dying first is kept (Apply models *)
(*     the rest); one command runs at a time, under the flock.             *)
(***************************************************************************)
CONSTANTS
    Rule,       \* port/proto
    SshRule,    \* 22/tcp
    Proto,
    claims,     \* the rules of each protocol's ports
    Narrow      \* bound: the rules a narrower one may stand beside

ASSUME ConstantsAssumption ==
    /\ SshRule \in Rule
    /\ claims \in [Proto -> SUBSET Rule]
    /\ Narrow \subseteq Rule

\* assert_ports_disjoint
ASSUME PortsDisjoint == \A p, q \in Proto : p # q => claims[p] \cap claims[q] = {}

\* desired: no protocol is called ssh.  The other two are not tags at all.
ASSUME TagsReserved == {"absent", "hand", "ssh"} \cap Proto = {}

VARIABLES
    tag,        \* ufw: no rule, one without our tag, or one tagged vpn-stack:<tag>
    narrow,     \* the tag of the narrower rule beside it, if there is one with ours
    ufw,        \* not installed, or installed and inactive or active
    on,         \* the enabled protocols
    pc,         \* where the apply is; "idle" between two
    toAdd,      \* what its loops still have to do
    toDrop,
    said,       \* firewall_ok
    opened,     \* history: what people last wrote for each rule
    touched,    \* history: the rules people changed since this apply read them
    excused,    \* history: rules that people changed under an apply's hands, that it
                \* added without seeing any, or took for its own by a narrower one
    blind       \* history: this apply saw no rules

loops == <<toAdd, toDrop>>
rules == <<tag, narrow, opened>>
ghosts == <<touched, excused, blind>>
vars == <<rules, ufw, on, pc, loops, said, ghosts>>

\* desired
Want == UNION {claims[p] : p \in on}
Owner(r) == CHOOSE p \in on : r \in claims[p]

Tag == Proto \cup {"ssh"}

TypeOK ==
    /\ tag \in [Rule -> Tag \cup {"absent", "hand"}]
    /\ narrow \in [Rule -> Tag \cup {"absent"}]
    /\ ufw \in {"missing", "inactive", "active"}
    /\ on \subseteq Proto
    /\ pc \in {"idle", "start", "ufw", "end"}
    /\ toAdd \subseteq Want /\ toDrop \subseteq Rule
    /\ said \in {"none", "ok", "failed", "skipped"}
    /\ opened \in [Rule -> Tag \cup {"absent", "hand"}]
    /\ touched \subseteq Rule /\ excused \subseteq Rule
    /\ blind \in BOOLEAN

Init ==
    /\ tag = [r \in Rule |-> "absent"]
    /\ narrow = tag
    /\ ufw \in {"missing", "inactive", "active"}
    /\ on = {}
    /\ pc = "idle"
    /\ toAdd = {} /\ toDrop = {}
    /\ said = "none"
    /\ opened = tag
    /\ touched = {} /\ excused = {}
    /\ blind = FALSE
-----------------------------------------------------------------------------
(***************************************************************************)
(* firewall.reconcile                                                      *)
(***************************************************************************)
Begin ==
    /\ pc = "idle"
    /\ pc' = "start"
    /\ UNCHANGED <<rules, ufw, on, loops, said, ghosts>>

\* die() before reconcile: the finally block still deals with FORWARD.
ConvergeFails ==
    /\ pc = "start"
    /\ pc' = "end"
    /\ UNCHANGED <<rules, ufw, on, loops, said, ghosts>>

\* available.  firewall_ok is true here too, of nothing.
Skip ==
    /\ pc = "start" /\ ufw = "missing"
    /\ said' = "skipped"
    /\ pc' = "end"
    /\ UNCHANGED <<rules, ufw, on, loops, ghosts>>

\* The tags that a status shows at a port
Tags(r) == {tag[r], narrow[r]} \cap Tag

\* _tagged: a tag for each port that shows one, whatever the source of the rule; of
\* two, that of the last line.
Tagged ==
    LET ports == {r \in Rule : Tags(r) # {}}
    IN {have \in [ports -> Tag] : \A r \in ports : have[r] \in Tags(r)}

\* _untagged: only rules from Anywhere
Untagged == {r \in Rule : tag[r] = "hand"}

Nothing == [r \in {} |-> "absent"]

\* Faulty variant: a rule opened by hand counts as missing
MissingHand(have, byHand) == Want \ DOMAIN have

Missing(have, byHand) == Want \ (DOMAIN have \cup byHand)

\* Faulty variant: whatever is tagged goes, and is added again by the next apply
OverdoneAll(have) == {r \in DOMAIN have : have[r] # "ssh" /\ r # SshRule}

Overdone(have) == {r \in DOMAIN have \ Want : have[r] # "ssh" /\ r # SshRule}

\* Faulty variant: the rules to remove are forgotten
PlanAdds(have, byHand) ==
    /\ pc = "start"
    /\ toAdd' = Missing(have, byHand)
    /\ toDrop' = {}
    /\ pc' = "ufw"

\* The one reading decides both loops.
Plan(have, byHand) ==
    /\ pc = "start"
    /\ toAdd' = Missing(have, byHand)
    /\ toDrop' = Overdone(have)
    /\ pc' = "ufw"

\* The rules that stand beside a narrower one of ours
Narrowed == {r \in Rule : narrow[r] # "absent"}

ReadStatus ==
    /\ ufw = "active"
    /\ \E have \in Tagged : Plan(have, Untagged)
    /\ excused' = excused \cup (toDrop' \cap Narrowed)
    /\ UNCHANGED <<rules, ufw, on, said, touched, blind>>

\* An inactive ufw lists no rules; nor does one whose status fails.
ReadNothing ==
    /\ ufw # "missing"
    /\ Plan(Nothing, {})
    /\ blind' = TRUE
    /\ excused' = excused \cup Missing(Nothing, {})
    /\ UNCHANGED <<rules, ufw, on, said, touched>>

\* What `ufw allow <r> comment vpn-stack:<p>` may leave: over an identical rule
\* it skips, or it writes the comment, depending on its version.
Written(r) == IF tag[r] = "absent" THEN {Owner(r)} ELSE {tag[r], Owner(r)}

Add(r) ==
    /\ pc = "ufw"
    /\ r \in toAdd
    /\ \E t \in Written(r) : tag' = [tag EXCEPT ![r] = t]
    /\ toAdd' = toAdd \ {r}
    /\ UNCHANGED <<narrow, opened, ufw, on, pc, toDrop, said, ghosts>>

\* `ufw --force delete allow <r>` means the rule from Anywhere, whatever its comment;
\* if there is none, it says so and succeeds.
Delete(r) ==
    /\ pc = "ufw"
    /\ toAdd = {}
    /\ r \in toDrop
    /\ tag' = [tag EXCEPT ![r] = "absent"]
    /\ toDrop' = toDrop \ {r}
    /\ UNCHANGED <<narrow, opened, ufw, on, pc, toAdd, said, ghosts>>

\* ufw exits nonzero, whether or not the rule was written: reconcile stops there.
UfwFails ==
    /\ pc = "ufw"
    /\ \/ tag' = tag /\ toAdd \cup toDrop # {}
       \/ \E r \in toAdd : \E t \in Written(r) : tag' = [tag EXCEPT ![r] = t]
       \/ toAdd = {} /\ \E r \in toDrop : tag' = [tag EXCEPT ![r] = "absent"]
    /\ toAdd' = {} /\ toDrop' = {}
    /\ said' = "failed"
    /\ pc' = "end"
    /\ UNCHANGED <<narrow, opened, ufw, on, ghosts>>

\* Faulty variant: removals are not waited for
ReconciledEarly ==
    /\ pc = "ufw"
    /\ toAdd = {}
    /\ toDrop' = {}
    /\ said' = "ok"
    /\ pc' = "end"
    /\ UNCHANGED <<rules, ufw, on, toAdd, ghosts>>

Reconciled ==
    /\ pc = "ufw"
    /\ toAdd = {} /\ toDrop = {}
    /\ said' = "ok"
    /\ pc' = "end"
    /\ UNCHANGED <<rules, ufw, on, loops, ghosts>>
-----------------------------------------------------------------------------
\* What was said, and what this apply saw, is history.
Over ==
    /\ pc' = "idle"
    /\ said' = "none"
    /\ touched' = {} /\ blind' = FALSE

\* The rest of the apply follows, with the FORWARD rules (Forwarding).
Finish ==
    /\ pc = "end"
    /\ Over
    /\ UNCHANGED <<rules, ufw, on, loops, excused>>

\* A kill, a reboot, or the TimeoutExpired of a docker exec, which is no OSError.
Die ==
    /\ pc # "idle"
    /\ Over
    /\ toAdd' = {} /\ toDrop' = {}
    /\ UNCHANGED <<rules, ufw, on, excused>>
-----------------------------------------------------------------------------
(***************************************************************************)
(* The world                                                               *)
(***************************************************************************)

\* `protocol on` and `off`: the state is saved before the apply.
Toggle(p) ==
    /\ pc = "idle"
    /\ on' = IF p \in on THEN on \ {p} ELSE on \cup {p}
    /\ UNCHANGED <<rules, ufw, pc, loops, said, ghosts>>

\* Somebody opens, tags, hands over or closes a rule.
Edit(r, t) ==
    /\ ufw # "missing"
    /\ tag' = [tag EXCEPT ![r] = t]
    /\ opened' = [opened EXCEPT ![r] = t]
    /\ touched' = IF pc = "idle" THEN {} ELSE touched \cup {r}
    /\ excused' = IF r \in toAdd \cup toDrop THEN excused \cup {r} ELSE excused \ {r}
    /\ UNCHANGED <<narrow, ufw, on, pc, loops, said, blind>>

\* Somebody writes, or deletes, a narrower rule that carries our tag.
EditNarrow(r, t) ==
    /\ ufw # "missing"
    /\ narrow' = [narrow EXCEPT ![r] = t]
    /\ touched' = IF pc = "idle" THEN {} ELSE touched \cup {r}
    /\ UNCHANGED <<tag, opened, ufw, on, pc, loops, said, excused, blind>>

\* ufw is installed, enabled or disabled (the operator, or the dead-man).
Switch(to) ==
    /\ to # ufw
    /\ ufw' = to
    /\ UNCHANGED <<rules, on, pc, loops, said, ghosts>>

-----------------------------------------------------------------------------
\* An apply that nothing fails in.
Undisturbed ==
    \/ Begin \/ Skip \/ ReadStatus \/ Reconciled \/ Finish
    \/ \E r \in Rule : Add(r) \/ Delete(r)

Faults == ConvergeFails \/ ReadNothing \/ UfwFails \/ Die

World ==
    \/ \E p \in Proto : Toggle(p)
    \/ \E r \in Rule, t \in Tag \cup {"absent", "hand"} : Edit(r, t)
    \/ \E r \in Narrow, t \in Tag \cup {"absent"} : EditNarrow(r, t)
    \/ \E to \in {"inactive", "active"} : Switch(to)

Next == Undisturbed \/ Faults \/ World

Spec == Init /\ [][Next]_vars

\* The next apply comes (the operator's retry, the boot unit) and runs to its end.
LiveSpec == Spec /\ WF_vars(Undisturbed)
-----------------------------------------------------------------------------
(***************************************************************************)
(* Properties                                                              *)
(***************************************************************************)

\* A rule somebody opened by hand, and nobody handed over, stays as it is: it is
\* neither adopted nor deleted (firewall.py's header, test_firewall.py).  The
\* exceptions are a rule edited between the reading and the command, one that an
\* apply which saw no rules added over it, and one beside a narrower rule with our
\* tag, which an apply takes for its own.
HandStays == \A r \in Rule \ excused : opened[r] = "hand" => tag[r] = "hand"

\* The way in stays open: a rule tagged ssh on whatever port, and 22/tcp under
\* whatever tag.
DoorStays ==
    \A r \in Rule \ excused :
        /\ opened[r] = "ssh" => tag[r] = "ssh"
        /\ r = SshRule /\ opened[r] # "absent" => tag[r] # "absent"

\* What people opened by hand, or to get in, they alone close.
HandsOff == HandStays /\ DoorStays

\* firewall_ok is true of what the rules are, but for those edited meanwhile and
\* those beside a narrower one of ours, which counts as open though the comment of
\* current_untagged would not have it so (firewall.py:53, 76-79): every port of an enabled protocol is open, and
\* of its own rules nothing else is left but the way in.  An apply that saw no rules
\* knows the first half only.
OkMeansOpen ==
    said = "ok" =>
        \A r \in Rule \ (touched \cup Narrowed) :
            /\ r \in Want => tag[r] # "absent"
            /\ ~blind /\ r \notin Want /\ tag[r] \in Tag => tag[r] = "ssh" \/ r = SshRule

\* As the enabled set has it: open if an enabled protocol claims it; not one of
\* ours, or a way in, if none does.
Right(r) ==
    /\ r \in Want => tag[r] # "absent"
    /\ r \notin Want /\ tag[r] \in Tag => tag[r] = "ssh" \/ r = SshRule

\* No step of an apply makes a right rule wrong, not even of one that cannot read
\* the rules, fails half way or dies, and whoever edits them meanwhile: an apply
\* cut short leaves no port of an enabled protocol closed that was open, so that
\* reconcile need undo nothing (firewall.py:109-155).
NeverWorse ==
    [][Undisturbed \/ Faults => \A r \in Rule : Right(r) => Right(r)']_vars

\* Once nobody interferes and nothing fails, the rules come to match the enabled
\* set, for good, but for those beside a narrower one of ours.
EventuallyAsEnabled ==
    (<>[][Undisturbed]_vars /\ <>[](ufw = "active"))
        => <>[](\A r \in Rule \ Narrowed : Right(r))

\* What makes these inductive: what the loops will do next is right, but for the
\* rules edited in the meantime, and what is wrong with the others is still in
\* front of them.
AtWork ==
    /\ SshRule \notin toDrop
    /\ toDrop \cap Want = {}
    /\ pc # "ufw" => toAdd = {} /\ toDrop = {}
    /\ said = "ok" => pc = "end"
    /\ \A r \in (toAdd \cup toDrop) \ excused : opened[r] \notin {"hand", "ssh"}

Ahead ==
    pc = "ufw" =>
        \A r \in Rule \ (touched \cup Narrowed) :
            /\ r \in Want => r \in toAdd \/ tag[r] # "absent"
            /\ ~blind /\ r \notin Want /\ tag[r] \in Tag =>
                   r \in toDrop \/ tag[r] = "ssh" \/ r = SshRule
=============================================================================
