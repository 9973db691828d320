--------------------------- MODULE FirewallProofs ---------------------------
(***************************************************************************)
(* What Firewall guarantees for every set of rules and protocols: the four *)
(* invariants its runs check, from one inductive invariant.  AtWork says   *)
(* what the commands still to be given may touch, Ahead that whatever is   *)
(* wrong with the rules is still among them.  And what Forwarding          *)
(* guarantees for every pool, network and fallback.                        *)
(***************************************************************************)
EXTENDS Firewall, Forwarding, TLAPS

IInv == TypeOK /\ HandStays /\ DoorStays /\ OkMeansOpen /\ AtWork /\ Ahead

USE ConstantsAssumption, TagsReserved

\* An enabled protocol's rule has an owner, and a rule that is added ends up with
\* its old tag or that owner's: it is not absent.
LEMMA WrittenTag ==
    ASSUME on \in SUBSET Proto, NEW r \in Want, NEW t \in Written(r)
    PROVE  /\ Owner(r) \in Proto
           /\ t = tag[r] \/ t \in Proto
           /\ t # "absent"
<1>1. PICK p \in on : r \in claims[p]
  BY DEF Want
<1>2. Owner(r) \in on
  BY <1>1 DEF Owner
<1>. QED
  BY <1>2 DEF Written

LEMMA Starts == Init => IInv
<1>. SUFFICES ASSUME Init PROVE IInv
  OBVIOUS
<1>1. Want = {}
  BY DEF Init, Want
<1>2. TypeOK
  BY <1>1 DEF Init, TypeOK, Tag
<1>3. HandStays /\ DoorStays /\ OkMeansOpen /\ AtWork /\ Ahead
  BY <1>1 DEF Init, HandStays, DoorStays, OkMeansOpen, AtWork, Ahead
<1>. QED
  BY <1>2, <1>3 DEF IInv

\* Steps that leave the rules, the loops, and what is known of them alone.
LEMMA Apart ==
    ASSUME IInv, UNCHANGED <<rules, on, loops, excused>>,
           ufw' \in {"missing", "inactive", "active"},
           \/ pc' \in {"idle", "start", "end"} /\ pc # "ufw" /\ said' \in {"none", "failed", "skipped"}
              /\ touched' \subseteq Rule /\ blind' \in BOOLEAN
           \/ UNCHANGED <<pc, said, touched, blind>>
    PROVE  IInv'
<1>1. Want' = Want /\ Narrowed' = Narrowed
  BY DEF Want, Narrowed, rules
<1>2. TypeOK'
  BY <1>1 DEF IInv, TypeOK, rules, loops
<1>3. HandStays' /\ DoorStays'
  BY DEF IInv, HandStays, DoorStays, rules
<1>4. OkMeansOpen' /\ AtWork' /\ Ahead'
  BY <1>1 DEF IInv, OkMeansOpen, AtWork, Ahead, rules, loops
<1>. QED
  BY <1>2, <1>3, <1>4 DEF IInv

\* Tags leave the door's and the hand's rules alone when only rules of the loops
\* are written, and those of the ssh port are not deleted.
LEMMA Written1 ==
    ASSUME IInv, NEW r \in toAdd, NEW t \in Written(r),
           tag' = [tag EXCEPT ![r] = t], UNCHANGED <<opened, on, excused>>
    PROVE  tag' \in [Rule -> Tag \cup {"absent", "hand"}] /\ HandStays' /\ DoorStays'
<1>1. r \in Want /\ r \in Rule /\ on \in SUBSET Proto
  BY DEF IInv, TypeOK, Want
<1>2. t # "absent" /\ (t = tag[r] \/ t \in Proto)
  BY <1>1, WrittenTag
<1>3. tag' \in [Rule -> Tag \cup {"absent", "hand"}]
  BY <1>1, <1>2 DEF IInv, TypeOK, Tag
<1>4. HandStays'
  BY <1>1, <1>2 DEF IInv, TypeOK, HandStays, AtWork
<1>5. DoorStays'
  BY <1>1, <1>2 DEF IInv, TypeOK, DoorStays, AtWork
<1>. QED
  BY <1>3, <1>4, <1>5

LEMMA Deleted1 ==
    ASSUME IInv, NEW r \in toDrop,
           tag' = [tag EXCEPT ![r] = "absent"], UNCHANGED <<opened, on, excused>>
    PROVE  tag' \in [Rule -> Tag \cup {"absent", "hand"}] /\ HandStays' /\ DoorStays'
<1>1. r \in Rule
  BY DEF IInv, TypeOK
<1>2. tag' \in [Rule -> Tag \cup {"absent", "hand"}]
  BY <1>1 DEF IInv, TypeOK, Tag
<1>3. HandStays'
  BY <1>1 DEF IInv, TypeOK, HandStays, AtWork
<1>4. DoorStays'
  BY <1>1 DEF IInv, TypeOK, DoorStays, AtWork
<1>. QED
  BY <1>2, <1>3, <1>4

LEMMA AddStep == ASSUME IInv, NEW r \in Rule, Add(r) PROVE IInv'
<1>1. Want' = Want
  BY DEF Add, Want
<1>2. PICK t \in Written(r) : tag' = [tag EXCEPT ![r] = t]
  BY DEF Add
<1>3. tag' \in [Rule -> Tag \cup {"absent", "hand"}] /\ HandStays' /\ DoorStays'
  BY <1>2, Written1 DEF Add, ghosts
<1>4. TypeOK'
  BY <1>1, <1>3 DEF IInv, TypeOK, Add, ghosts
<1>5. t # "absent" /\ r \in Want
  BY WrittenTag DEF IInv, TypeOK, Add
<1>6. OkMeansOpen' /\ AtWork'
  BY <1>1 DEF IInv, OkMeansOpen, AtWork, Add, ghosts
<1>7. Ahead'
  BY <1>1, <1>2, <1>5 DEF IInv, TypeOK, Ahead, Narrowed, Add, ghosts
<1>. QED
  BY <1>3, <1>4, <1>6, <1>7 DEF IInv

LEMMA DeleteStep == ASSUME IInv, NEW r \in Rule, Delete(r) PROVE IInv'
<1>1. Want' = Want
  BY DEF Delete, Want
<1>2. tag' \in [Rule -> Tag \cup {"absent", "hand"}] /\ HandStays' /\ DoorStays'
  BY Deleted1 DEF Delete, ghosts
<1>3. TypeOK'
  BY <1>1, <1>2 DEF IInv, TypeOK, Delete, ghosts
<1>4. OkMeansOpen' /\ AtWork'
  BY <1>1 DEF IInv, OkMeansOpen, AtWork, Delete, ghosts
<1>5. r \notin Want
  BY DEF IInv, AtWork, Delete
<1>6. Ahead'
  BY <1>1, <1>5 DEF IInv, TypeOK, Tag, Ahead, Narrowed, Delete, ghosts
<1>. QED
  BY <1>2, <1>3, <1>4, <1>6 DEF IInv

LEMMA FailStep == ASSUME IInv, UfwFails PROVE IInv'
<1>1. Want' = Want
  BY DEF UfwFails, Want
<1>2. tag' \in [Rule -> Tag \cup {"absent", "hand"}] /\ HandStays' /\ DoorStays'
  <2>1. CASE tag' = tag
    BY <2>1 DEF IInv, TypeOK, HandStays, DoorStays, UfwFails, ghosts
  <2>2. CASE \E r \in toAdd : \E t \in Written(r) : tag' = [tag EXCEPT ![r] = t]
    BY <2>2, Written1 DEF UfwFails, ghosts
  <2>3. CASE \E r \in toDrop : tag' = [tag EXCEPT ![r] = "absent"]
    BY <2>3, Deleted1 DEF UfwFails, ghosts
  <2>. QED
    BY <2>1, <2>2, <2>3 DEF UfwFails
<1>3. TypeOK'
  BY <1>1, <1>2 DEF IInv, TypeOK, UfwFails, ghosts
<1>4. OkMeansOpen' /\ AtWork' /\ Ahead'
  BY <1>1 DEF IInv, OkMeansOpen, AtWork, Ahead, UfwFails, ghosts
<1>. QED
  BY <1>2, <1>3, <1>4 DEF IInv

\* A plan made from a reading, or from no reading, of the rules as they are.
LEMMA PlanStep ==
    ASSUME IInv, NEW have, NEW byHand \in SUBSET Rule, Plan(have, byHand),
           DOMAIN have \subseteq Rule,
           UNCHANGED <<rules, ufw, on, said, touched>>, excused \subseteq excused',
           excused' \subseteq Rule,
           \/ /\ have \in Tagged /\ byHand = Untagged /\ blind' = blind
              /\ toDrop' \cap Narrowed \subseteq excused'
           \/ DOMAIN have = {} /\ byHand = {} /\ blind' = TRUE /\ Want \subseteq excused'
    PROVE  IInv'
<1>1. Want' = Want /\ Narrowed' = Narrowed
  BY DEF Want, Narrowed, rules
<1>2. /\ toAdd' = Want \ (DOMAIN have \cup byHand)
      /\ toDrop' = {r \in DOMAIN have \ Want : have[r] # "ssh" /\ r # SshRule}
  BY DEF Plan, Missing, Overdone
<1>3. Want \subseteq Rule
  BY DEF IInv, TypeOK, Want
<1>4. CASE have \in Tagged /\ byHand = Untagged /\ blind' = blind
           /\ toDrop' \cap Narrowed \subseteq excused'
  <2>1. /\ DOMAIN have = {r \in Rule : Tags(r) # {}}
        /\ \A r \in DOMAIN have : have[r] \in Tags(r)
    BY <1>4 DEF Tagged
  <2>2. \A r \in Rule \ Narrowed :
          /\ r \in DOMAIN have <=> tag[r] \in Tag
          /\ r \in DOMAIN have => have[r] = tag[r]
    <3>. SUFFICES ASSUME NEW r \in Rule \ Narrowed
                  PROVE  /\ r \in DOMAIN have <=> tag[r] \in Tag
                         /\ r \in DOMAIN have => have[r] = tag[r]
      OBVIOUS
    <3>1. narrow[r] = "absent" /\ "absent" \notin Tag
      BY DEF Narrowed, Tag
    <3>2. Tags(r) = {tag[r]} \cap Tag
      BY <3>1 DEF Tags
    <3>. QED
      BY <2>1, <3>2
  <2>3. \A r \in (toAdd' \cup toDrop') \ excused' : opened'[r] \notin {"hand", "ssh"}
    <3>. SUFFICES ASSUME NEW r \in Rule, r \in toAdd' \cup toDrop', r \notin excused'
                  PROVE  opened[r] \notin {"hand", "ssh"}
      BY <1>2, <1>3, <2>1 DEF rules
    <3>1. /\ opened[r] = "hand" => tag[r] = "hand"
          /\ opened[r] = "ssh" => tag[r] = "ssh"
      BY DEF IInv, HandStays, DoorStays
    <3>2. CASE r \in toAdd'
      BY <1>2, <1>4, <2>1, <3>1, <3>2 DEF Untagged, Tags, Tag
    <3>3. CASE r \in toDrop'
      <4>1. r \notin Narrowed /\ r \in DOMAIN have /\ have[r] # "ssh"
        BY <1>2, <1>4, <3>3
      <4>2. have[r] = tag[r] /\ tag[r] \in Tag
        BY <2>2, <4>1
      <4>. QED
        BY <3>1, <4>1, <4>2 DEF Tag
    <3>. QED
      BY <3>2, <3>3
  <2>4. Ahead'
    <3>. SUFFICES ASSUME NEW r \in Rule \ (touched \cup Narrowed)
                  PROVE  /\ r \in Want => r \in toAdd' \/ tag[r] # "absent"
                         /\ r \notin Want /\ tag[r] \in Tag =>
                                r \in toDrop' \/ tag[r] = "ssh" \/ r = SshRule
      BY <1>1 DEF Ahead, rules
    <3>1. /\ r \in DOMAIN have <=> tag[r] \in Tag
          /\ r \in DOMAIN have => have[r] = tag[r]
      BY <2>2
    <3>2. r \in Untagged => tag[r] = "hand"
      BY DEF Untagged
    <3>3. "absent" \notin Tag
      BY DEF Tag
    <3>. QED
      BY <1>2, <1>4, <3>1, <3>2, <3>3
  <2>. QED
    BY <1>1, <1>2, <1>3, <2>1, <2>3, <2>4
       DEF IInv, TypeOK, HandStays, DoorStays, OkMeansOpen, AtWork, Plan, rules
<1>5. CASE DOMAIN have = {} /\ byHand = {} /\ blind' = TRUE /\ Want \subseteq excused'
  <2>1. toAdd' = Want /\ toDrop' = {}
    BY <1>2, <1>5
  <2>2. Ahead'
    BY <1>1, <1>5, <2>1 DEF Ahead
  <2>. QED
    BY <1>1, <1>3, <1>5, <2>1, <2>2
       DEF IInv, TypeOK, HandStays, DoorStays, OkMeansOpen, AtWork, Plan, rules
<1>. QED
  BY <1>4, <1>5

LEMMA EditStep ==
    ASSUME IInv, NEW r \in Rule, NEW t \in Tag \cup {"absent", "hand"}, Edit(r, t)
    PROVE  IInv'
<1>1. Want' = Want
  BY DEF Edit, Want
<1>2. TypeOK'
  BY <1>1 DEF IInv, TypeOK, Edit, loops
<1>3. HandStays' /\ DoorStays'
  BY DEF IInv, TypeOK, HandStays, DoorStays, Edit
<1>4. AtWork'
  BY <1>1 DEF IInv, TypeOK, AtWork, Edit, loops
<1>5. OkMeansOpen' /\ Ahead'
  BY <1>1 DEF IInv, TypeOK, AtWork, OkMeansOpen, Ahead, Narrowed, Edit, loops
<1>. QED
  BY <1>2, <1>3, <1>4, <1>5 DEF IInv

LEMMA EditNarrowStep ==
    ASSUME IInv, NEW r \in Narrow, NEW t \in Tag \cup {"absent"}, EditNarrow(r, t)
    PROVE  IInv'
<1>1. Want' = Want
  BY DEF EditNarrow, Want
<1>2. TypeOK'
  BY <1>1 DEF IInv, TypeOK, EditNarrow, loops
<1>3. HandStays' /\ DoorStays' /\ AtWork'
  BY <1>1 DEF IInv, HandStays, DoorStays, AtWork, EditNarrow, loops
<1>4. pc # "idle" => \A q \in Rule \ (touched' \cup Narrowed') : q \notin touched \cup Narrowed
  BY DEF IInv, TypeOK, Narrowed, EditNarrow
<1>5. OkMeansOpen' /\ Ahead'
  BY <1>1, <1>4 DEF IInv, TypeOK, AtWork, OkMeansOpen, Ahead, EditNarrow, loops
<1>. QED
  BY <1>2, <1>3, <1>5 DEF IInv

LEMMA ToggleStep == ASSUME IInv, NEW p \in Proto, Toggle(p) PROVE IInv'
<1>1. on' \subseteq Proto /\ toAdd' = {} /\ toDrop' = {} /\ said' # "ok" /\ pc' = "idle"
  BY DEF IInv, TypeOK, AtWork, Toggle, loops
<1>2. TypeOK'
  BY <1>1 DEF IInv, TypeOK, Toggle, rules, ghosts
<1>3. HandStays' /\ DoorStays'
  BY DEF IInv, HandStays, DoorStays, Toggle, rules, ghosts
<1>4. OkMeansOpen' /\ AtWork' /\ Ahead'
  BY <1>1 DEF OkMeansOpen, AtWork, Ahead
<1>. QED
  BY <1>2, <1>3, <1>4 DEF IInv

\* One step per action.
LEMMA Keeps == IInv /\ [Next]_vars => IInv'
<1>. SUFFICES ASSUME IInv, [Next]_vars PROVE IInv'
  OBVIOUS
<1>1. CASE Begin \/ ConvergeFails \/ Skip \/ Finish
  <2>1. UNCHANGED <<rules, on, loops, excused>> /\ ufw' = ufw
    BY <1>1 DEF Begin, ConvergeFails, Skip, Finish, ghosts
  <2>2. pc' \in {"idle", "start", "end"} /\ pc # "ufw" /\ touched' \subseteq Rule /\ blind' \in BOOLEAN
    BY <1>1 DEF Begin, ConvergeFails, Skip, Finish, Over, ghosts, IInv, TypeOK
  <2>3. said' \in {"none", "failed", "skipped"}
    BY <1>1 DEF Begin, ConvergeFails, Skip, Finish, Over, IInv, TypeOK, AtWork
  <2>. QED
    BY <2>1, <2>2, <2>3, Apart DEF IInv, TypeOK
<1>2. CASE Reconciled
  <2>1. Want' = Want /\ Narrowed' = Narrowed
    BY <1>2 DEF Reconciled, Want, Narrowed, rules
  <2>2. TypeOK' /\ HandStays' /\ DoorStays'
    BY <1>2, <2>1 DEF Reconciled, IInv, TypeOK, HandStays, DoorStays, rules, loops, ghosts
  <2>3. OkMeansOpen' /\ AtWork' /\ Ahead'
    BY <1>2, <2>1 DEF Reconciled, IInv, OkMeansOpen, AtWork, Ahead, rules, loops, ghosts
  <2>. QED
    BY <2>2, <2>3 DEF IInv
<1>3. CASE ReadStatus
  <2>1. PICK have \in Tagged : Plan(have, Untagged)
    BY <1>3 DEF ReadStatus
  <2>2. DOMAIN have \subseteq Rule /\ Untagged \in SUBSET Rule
    BY DEF Tagged, Untagged
  <2>3. /\ UNCHANGED <<rules, ufw, on, said, touched>> /\ blind' = blind
        /\ excused' = excused \cup (toDrop' \cap Narrowed)
        /\ excused' \subseteq Rule
    BY <1>3 DEF ReadStatus, Narrowed, IInv, TypeOK
  <2>. QED
    BY <2>1, <2>2, <2>3, PlanStep
<1>4. CASE ReadNothing
  <2>1. DOMAIN Nothing = {}
    BY DEF Nothing
  <2>2. Missing(Nothing, {}) = Want /\ Want \subseteq Rule
    BY <2>1 DEF Missing, Want, IInv, TypeOK
  <2>3. /\ UNCHANGED <<rules, ufw, on, said, touched>> /\ blind' = TRUE
        /\ excused' = excused \cup Want /\ excused' \subseteq Rule
        /\ Plan(Nothing, {})
    BY <1>4, <2>2 DEF ReadNothing, IInv, TypeOK
  <2>. QED
    BY <2>1, <2>3, PlanStep
<1>5. CASE UfwFails
  BY <1>5, FailStep
<1>6. CASE Die
  <2>1. Want' = Want
    BY <1>6 DEF Die, Want
  <2>2. TypeOK' /\ HandStays' /\ DoorStays'
    BY <1>6, <2>1 DEF Die, Over, IInv, TypeOK, HandStays, DoorStays, rules
  <2>3. OkMeansOpen' /\ AtWork' /\ Ahead'
    BY <1>6, <2>1 DEF Die, Over, OkMeansOpen, AtWork, Ahead
  <2>. QED
    BY <2>2, <2>3 DEF IInv
<1>7. ASSUME NEW r \in Rule, Add(r) \/ Delete(r) PROVE IInv'
  BY <1>7, AddStep, DeleteStep
<1>8. ASSUME NEW p \in Proto, Toggle(p) PROVE IInv'
  BY <1>8, ToggleStep
<1>9. ASSUME NEW r \in Rule, NEW t \in Tag \cup {"absent", "hand"}, Edit(r, t) PROVE IInv'
  BY <1>9, EditStep
<1>10. ASSUME NEW to \in {"inactive", "active"}, Switch(to) PROVE IInv'
  BY <1>10, Apart DEF Switch, ghosts
<1>11. CASE UNCHANGED vars
  BY <1>11, Apart DEF vars, ghosts, IInv, TypeOK
<1>12. ASSUME NEW r \in Narrow, NEW t \in Tag \cup {"absent"}, EditNarrow(r, t) PROVE IInv'
  BY <1>12, EditNarrowStep
<1>. QED
  BY <1>1, <1>2, <1>3, <1>4, <1>5, <1>6, <1>7, <1>8, <1>9, <1>10, <1>11, <1>12
     DEF Next, Undisturbed, Faults, World

LEMMA Inductive == Spec => []IInv
<1>. QED
  BY Starts, Keeps, PTL DEF Spec

\* Every variable keeps its type, and a rule is only opened for an enabled protocol.
THEOREM Typing == Spec => []TypeOK
<1>1. IInv => TypeOK
  BY DEF IInv
<1>. QED
  BY <1>1, Inductive, PTL

\* What a human opened by hand is neither adopted nor deleted, unless it was edited
\* under an apply's hands, the apply saw no rules, or it stands beside a narrower rule
\* that carries our tag.
THEOREM HandIsSafe == Spec => []HandStays
<1>1. IInv => HandStays
  BY DEF IInv
<1>. QED
  BY <1>1, Inductive, PTL

\* The ssh rule stays, whatever its port, under the same exceptions.
THEOREM DoorIsOpen == Spec => []DoorStays
<1>1. IInv => DoorStays
  BY DEF IInv
<1>. QED
  BY <1>1, Inductive, PTL

\* Both: what people opened they alone close.
THEOREM LeftAlone == Spec => []HandsOff
<1>1. HandStays /\ DoorStays => HandsOff
  BY DEF HandsOff
<1>. QED
  BY <1>1, HandIsSafe, DoorIsOpen, PTL

\* firewall_ok is true of the rules, but for those that people edited since they were
\* read, and those beside a narrower rule that carries our tag.
THEOREM TruthfulFirewall == Spec => []OkMeansOpen
<1>1. IInv => OkMeansOpen
  BY DEF IInv
<1>. QED
  BY <1>1, Inductive, PTL

\* What the tags can become when an apply takes a step.
LEMMA OneRule ==
    ASSUME IInv, Undisturbed \/ Faults, NEW r \in Rule
    PROVE  /\ on' = on
           /\ \/ tag'[r] = tag[r]
              \/ r \in Want /\ tag'[r] # "absent"
              \/ r \notin Want /\ tag'[r] = "absent"
<1>1. toAdd \subseteq Want /\ toDrop \cap Want = {} /\ Want \subseteq Rule /\ on \in SUBSET Proto
  BY DEF IInv, TypeOK, AtWork, Want
<1>2. \A s \in toAdd : \A t \in Written(s) : t # "absent"
  BY <1>1, WrittenTag
<1>3. ASSUME NEW s \in toAdd, NEW t \in Written(s), tag' = [tag EXCEPT ![s] = t]
      PROVE  tag'[r] = tag[r] \/ (r \in Want /\ tag'[r] # "absent")
  BY <1>1, <1>2, <1>3 DEF IInv, TypeOK
<1>4. ASSUME NEW s \in toDrop, tag' = [tag EXCEPT ![s] = "absent"]
      PROVE  tag'[r] = tag[r] \/ (r \notin Want /\ tag'[r] = "absent")
  BY <1>1, <1>4 DEF IInv, TypeOK
<1>5. CASE Begin \/ Skip \/ ReadStatus \/ Reconciled \/ Finish \/ ConvergeFails \/ ReadNothing \/ Die
  BY <1>5 DEF Begin, Skip, ReadStatus, Reconciled, Finish, ConvergeFails, ReadNothing, Die, rules
<1>6. ASSUME NEW s \in Rule, Add(s) PROVE on' = on /\ (tag'[r] = tag[r] \/ (r \in Want /\ tag'[r] # "absent"))
  BY <1>3, <1>6 DEF Add
<1>7. ASSUME NEW s \in Rule, Delete(s) PROVE on' = on /\ (tag'[r] = tag[r] \/ (r \notin Want /\ tag'[r] = "absent"))
  BY <1>4, <1>7 DEF Delete
<1>8. CASE UfwFails
  BY <1>3, <1>4, <1>8 DEF UfwFails
<1>. QED
  BY <1>5, <1>6, <1>7, <1>8 DEF Undisturbed, Faults

\* No step of an apply, not even of one that fails or dies, makes a right rule
\* wrong, whoever edits the rules under its hands.
THEOREM AppliesHelp == Spec => NeverWorse
<1>1. ASSUME IInv, [Next]_vars PROVE [Undisturbed \/ Faults => \A r \in Rule : Right(r) => Right(r)']_vars
  <2>. SUFFICES ASSUME Undisturbed \/ Faults, NEW r \in Rule, Right(r) PROVE Right(r)'
    OBVIOUS
  <2>1. /\ on' = on
        /\ \/ tag'[r] = tag[r]
           \/ r \in Want /\ tag'[r] # "absent"
           \/ r \notin Want /\ tag'[r] = "absent"
    BY <1>1, OneRule
  <2>2. Want' = Want
    BY <2>1 DEF Want
  <2>3. "absent" \notin Tag
    BY DEF Tag
  <2>. QED
    BY <2>1, <2>2, <2>3 DEF Right
<1>2. IInv /\ [Next]_vars => [Undisturbed \/ Faults => \A r \in Rule : Right(r) => Right(r)']_vars
  BY <1>1
<1>. QED
  BY <1>2, Inductive, PTL DEF Spec, NeverWorse

(***************************************************************************)
(* The FORWARD accepts, which the same apply puts in or takes out once it  *)
(* is done with ufw's rules: Forwarding.                                   *)
(***************************************************************************)

\* The accepts of these directions are as they should be, until something else
\* changes them.
DealtWith(directions) ==
    ~disturbed =>
        IF ikev2
        THEN {net} \X directions \subseteq accepts
        ELSE ({net} \X directions) \cap accepts = {}

\* An apply that is under way has not answered, nor is ikev2 toggled under it; the
\* directions it has dealt with are as they should be, and all of them are once
\* forwarding_ok is true.
Forwards ==
    /\ ForwardingTypeOK
    /\ at # "idle" => answer = "none"
    /\ at \in {"ensure", "remove"} => (at = "ensure" <=> ikev2) /\ DealtWith(Direction \ left)
    /\ answer = "ok" => DealtWith(Direction)

LEMMA ForwardsInit == ForwardingInit => Forwards
BY NetworkAssumption DEF ForwardingInit, ForwardingTypeOK, Forwards, DealtWith

LEMMA ForwardsNext ==
    ASSUME Forwards, [ForwardingNext]_forwarding
    PROVE  Forwards'
<1>. USE DEF Forwards, DealtWith, ForwardingTypeOK
<1>1. CASE Start \/ Reconcile \/ LeftRunning \/ StepFails \/ Skipped
  BY <1>1 DEF Start, Reconcile, Skipped, LeftRunning, EditRules, StepFails
<1>2. ASSUME NEW conf, NEW xauth, Look(conf, xauth) PROVE Forwards'
  <2>1. Direction \ left' = {} /\ left' = Direction
    BY <1>2 DEF Look
  <2>2. /\ UNCHANGED <<accepts, up, ikev2, unmatched, answer>>
        /\ answer = "none" /\ (at' = "ensure" <=> ikev2) /\ at' \in {"ensure", "remove"}
    BY <1>2 DEF Look
  <2>3. net' \in Net /\ disturbed' = FALSE
    BY <1>2, NetworkAssumption DEF Look, PoolNetwork
  <2>. QED
    BY <2>1, <2>2, <2>3
<1>3. ASSUME NEW d \in Direction, Ensure(d) PROVE Forwards'
  <2>1. /\ at = "ensure" /\ answer = "none" /\ ikev2
        /\ accepts' = accepts \cup {<<net, d>>} /\ left' = left \ {d}
        /\ UNCHANGED <<up, ikev2, unmatched, at, net, answer, disturbed>>
    BY <1>3 DEF Ensure
  <2>. QED
    BY <2>1
<1>4. ASSUME NEW d \in Direction, Remove(d) PROVE Forwards'
  <2>1. /\ at = "remove" /\ answer = "none" /\ ~ikev2
        /\ accepts' = accepts \ {<<net, d>>} /\ left' = left \ {d}
        /\ UNCHANGED <<up, ikev2, unmatched, at, net, answer, disturbed>>
    BY <1>4 DEF Remove
  <2>. QED
    BY <2>1
<1>5. CASE Forwarded
  <2>1. Direction \ left = Direction
    BY <1>5 DEF Forwarded
  <2>. QED
    BY <1>5, <2>1 DEF Forwarded
<1>6. CASE ForwardFails \/ Dies
  BY <1>6 DEF ForwardFails, Dies
<1>7. CASE Clear
  <2>1. /\ accepts' = {} /\ disturbed' = TRUE
        /\ UNCHANGED <<up, ikev2, unmatched, at, net, left, answer>>
    BY <1>7 DEF Clear
  <2>. QED
    BY <2>1
<1>8. CASE StopContainer
  <2>1. /\ up' = FALSE
        /\ UNCHANGED <<accepts, ikev2, unmatched, at, net, left, answer, disturbed>>
    BY <1>8 DEF StopContainer
  <2>. QED
    BY <2>1
<1>9. CASE StartContainer
  <2>1. /\ up' = TRUE
        /\ UNCHANGED <<accepts, ikev2, unmatched, at, net, left, answer, disturbed>>
    BY <1>9 DEF StartContainer
  <2>. QED
    BY <2>1
<1>10. ASSUME NEW wanted \in BOOLEAN, Turn(wanted) PROVE Forwards'
  <2>1. at' = "idle" /\ answer' = "none" /\ ikev2' \in BOOLEAN /\ unmatched' \in BOOLEAN
        /\ UNCHANGED <<accepts, up, net, left, disturbed>>
    BY <1>10 DEF Turn
  <2>. QED
    BY <2>1
<1>11. CASE UNCHANGED forwarding
  BY <1>11 DEF forwarding
<1>12. CASE RunSh
  <2>1. accepts' \subseteq Net \X Direction
    BY <1>12, NetworkAssumption DEF RunSh
  <2>. QED
    BY <1>12, <2>1 DEF RunSh
<1>. QED
  BY <1>1, <1>2, <1>3, <1>4, <1>5, <1>6, <1>7, <1>8, <1>9, <1>10, <1>11, <1>12
     DEF ForwardingNext, Smooth, Failures, Outside

LEMMA ForwardsAlways == ForwardingSpec => []Forwards
<1>1. Forwards /\ [ForwardingNext]_forwarding => Forwards'
  BY ForwardsNext
<1>. QED
  BY <1>1, ForwardsInit, PTL DEF ForwardingSpec

\* An accept is only ever for a network and one of the two directions, and an apply is at
\* one of its steps.
THEOREM ForwardingTyping == ForwardingSpec => []ForwardingTypeOK
<1>1. Forwards => ForwardingTypeOK
  BY DEF Forwards
<1>. QED
  BY <1>1, ForwardsAlways, PTL

\* forwarding_ok is true of the filter table until something else changes it
\* (cli.py:418-456), whatever failed or died in this apply or an earlier one.
THEOREM TruthfulForwarding == ForwardingSpec => []OkMeansForwarded
<1>1. Forwards => OkMeansForwarded
  BY DEF Forwards, DealtWith, OkMeansForwarded
<1>. QED
  BY <1>1, ForwardsAlways, PTL

\* Once nothing is unmatched, no step of an apply that nothing disturbs undoes what
\* IKEv2's clients need, or brings it back when it is off.
THEOREM AppliesRepeat == ForwardingSpec => NotUndone
<1>1. ASSUME Forwards, [ForwardingNext]_forwarding
      PROVE  [Smooth /\ ~unmatched /\ AsWanted => AsWanted']_forwarding
  <2>. SUFFICES ASSUME Smooth, ~unmatched, AsWanted PROVE AsWanted'
    OBVIOUS
  <2>1. CASE \/ Start \/ Reconcile \/ Skipped \/ Forwarded
             \/ \E xauth \in {XauthNet, None} : Look(IF up THEN Pool ELSE None, xauth)
    <3>1. UNCHANGED <<accepts, ikev2>>
      BY <2>1 DEF Start, Reconcile, EditRules, Skipped, Forwarded, Look
    <3>. QED
      BY <3>1 DEF AsWanted
  <2>2. ASSUME NEW d \in Direction, Ensure(d) PROVE AsWanted'
    <3>1. ikev2 /\ ikev2' = ikev2 /\ accepts \subseteq accepts'
      BY <1>1, <2>2 DEF Ensure, Forwards
    <3>. QED
      BY <3>1 DEF AsWanted
  <2>3. ASSUME NEW d \in Direction, Remove(d) PROVE AsWanted'
    <3>1. ~ikev2 /\ ikev2' = ikev2 /\ accepts' \subseteq accepts
      BY <1>1, <2>3 DEF Remove, Forwards
    <3>. QED
      BY <3>1 DEF AsWanted
  <2>. QED
    BY <2>1, <2>2, <2>3 DEF Smooth
<1>2. Forwards /\ [ForwardingNext]_forwarding
        => [Smooth /\ ~unmatched /\ AsWanted => AsWanted']_forwarding
  BY <1>1
<1>. QED
  BY <1>2, ForwardsAlways, PTL DEF ForwardingSpec, NotUndone
=============================================================================
