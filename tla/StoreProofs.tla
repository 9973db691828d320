----------------------------- MODULE StoreProofs -----------------------------
(***************************************************************************)
(* The safety properties of Store, for any number of commands and names    *)
(* and every way of calling them.  One argument carries all of them: who   *)
(* works holds the lock or took it on trust, so as long as nothing has     *)
(* overlapped what a command has read is what the files still say when it  *)
(* writes.                                                                 *)
(***************************************************************************)
EXTENDS Store, TLAPS

\* A command that is under way is one, and one that is writing has something to write;
\* only then is there something carried out and not recorded.
Armed ==
    \A p \in Proc :
        /\ stage[p] # "idle" => cmd[p] \in Command
        /\ step[p] # "read" => want[p] # Nothing /\ Works(p)
        /\ carried[p] # {} => step[p] # "read"

\* Who has the lock: a caller that said so, and everybody who works, but for those
\* the history knows of.
Wrapped ==
    \A p \in Proc : stage[p] = "inner" /\ mode[p] \in {"wrapped", "forgetful"} => lock = p

Inside == \A p \in Proc : Works(p) => lock = p \/ unserialised

Begun == restoring # {} => restored

Held == Wrapped /\ Inside /\ Begun /\ (Crowded => overlapped) /\ Serialised

\* What a command is about to write, against what the files hold.
PlannedUsers(p) ==
    /\ stage[p] = "edit" /\ cmd[p].op = "add" =>
          /\ cmd[p].name \notin Names("users")
          /\ want[p]["users"] = Names("users") \cup {cmd[p].name}
    /\ stage[p] = "edit" /\ cmd[p].op = "rm" =>
          /\ cmd[p].name \in Names("users")
          /\ want[p]["users"] = Names("users") \ {cmd[p].name}
    /\ stage[p] = "edit" /\ cmd[p].op \in {"enable", "disable"} =>
          want[p]["users"] = Names("users")
    /\ stage[p] = "edit" =>
          cmd[p].op \in {"add", "rm", "enable", "disable", "protocol"}
    /\ stage[p] = "edit" /\ cmd[p].op = "protocol" => want[p]["users"] = Keep
    /\ stage[p] \in {"mark", "close", "undo"} => want[p]["users"] = Keep
    /\ stage[p] = "reconcile" => want[p]["users"] = Names("users")
    /\ stage[p] \in {"edit", "undo", "mark", "reconcile", "close"}

PlannedState(p) ==
    \/ /\ want[p]["state"] = Keep
       /\ stage[p] = "edit" /\ Withdraws(p) => cmd[p].name \in Names("state")
    \/ /\ stage[p] = "edit" /\ Withdraws(p)
       /\ cmd[p].name \notin Names("state")
       /\ want[p]["state"] = Names("state") \cup {cmd[p].name}
    \/ /\ stage[p] # "edit" \/ cmd[p].op = "protocol"
       /\ want[p]["state"] \in SUBSET Names("state")
       /\ Names("state") \ want[p]["state"] \subseteq carried[p]

Plan(p) ==
    /\ step[p] # "read" => PlannedUsers(p) /\ PlannedState(p)
    /\ step[p] = "swap" => tmp[Saving(p)] = want[p][Saving(p)]

\* What a command has done, once it has saved its change.
Past(p) == stage[p] \in {"look", "mark", "reconcile", "close", "done"}

Kept(p) ==
    Past(p) =>
        /\ cmd[p].op = "add" => cmd[p].name \in Names("users")
        /\ cmd[p].op = "rm" => cmd[p].name \notin Names("users")

Undisturbed == ~overlapped => \A p \in Proc : Plan(p) /\ Kept(p)

TypeInv == TypeOK /\ Armed

IInv == TypeInv /\ Held /\ Undisturbed /\ Whole

-----------------------------------------------------------------------------
LEMMA NamesAreNames ==
    ASSUME TypeOK, NEW f \in File
    PROVE  Names(f) \in Content
  BY DEF TypeOK, Names, OnDisk, Content

LEMMA SavingSomething ==
    ASSUME TypeInv, NEW p \in Proc, step[p] # "read"
    PROVE  Saving(p) \in File /\ want[p][Saving(p)] \in Content
  <1>1. want[p] \in [File -> {Keep} \cup Content] /\ want[p] # Nothing
    BY DEF TypeInv, TypeOK, Armed
  <1>2. want[p]["users"] # Keep \/ want[p]["state"] # Keep
    BY <1>1 DEF Nothing, File
  <1> QED BY <1>1, <1>2 DEF Saving, File

LEMMA FirstIsStage == \A c : First(c) \in {"edit", "look", "reconcile"}
  BY DEF First

LEMMA FollowingIsStage == \A p : Following(p) \in {"look", "undo", "reconcile", "close", "done"}
  BY DEF Following

LEMMA LeaveTyped ==
    ASSUME TypeInv, NEW p \in Proc, Leave(p)
    PROVE  /\ lock' \in Proc \cup {Nobody}
           /\ mode' \in [Proc -> Modes]
           /\ cmd' \in [Proc -> Command \cup {NoCommand}]
           /\ stage' \in [Proc -> Stages]
           /\ step' \in [Proc -> {"read", "write", "swap"}]
           /\ want' \in [Proc -> [File -> {Keep} \cup Content]]
           /\ carried' \in [Proc -> Content]
           /\ Armed'
  <1>1. Nothing \in [File -> {Keep} \cup Content] /\ {} \in Content
    BY DEF Nothing, Content
  <1> QED BY <1>1 DEF TypeInv, TypeOK, Armed, Leave, Released, Modes, Stages, Works

LEMMA WritesTyped ==
    ASSUME TypeInv, NEW p \in Proc, Works(p),
           NEW u \in {Keep} \cup Content, NEW s \in {Keep} \cup Content,
           u # Keep \/ s # Keep, NEW w \in Content, Decides(p, Writes(u, s), w), Watch
    PROVE  TypeInv'
  <1>1. /\ Writes(u, s) \in [File -> {Keep} \cup Content]
        /\ Writes(u, s)["users"] = u /\ Writes(u, s)["state"] = s
    BY DEF Writes, File
  <1>2. Writes(u, s) # Nothing
    BY <1>1 DEF Nothing, File
  <1>3. TypeOK'
    BY <1>1 DEF TypeInv, TypeOK, Decides, calls, plans, Watch
  <1>4. Armed'
    BY <1>2 DEF TypeInv, TypeOK, Armed, Decides, calls, plans, Works
  <1> QED BY <1>3, <1>4 DEF TypeInv

-----------------------------------------------------------------------------
LEMMA TypeInit == Init => TypeInv
  <1> SUFFICES ASSUME Init PROVE TypeInv
    OBVIOUS
  <1>1. Nothing \in [File -> {Keep} \cup Content] /\ {} \in Content
    BY DEF Nothing, Content
  <1> QED BY <1>1 DEF Init, TypeInv, TypeOK, Armed, OnDisk, Modes, Stages, Works

LEMMA EditsTyped ==
    ASSUME TypeInv, NEW p \in Proc, Watch,
           \/ EditAdd(p) \/ EditRecord(p) \/ EditProtocol(p) \/ Resave(p)
           \/ \E withdrawn \in Content : Reconcile(p, withdrawn)
    PROVE  TypeInv'
  <1>1. /\ Names("users") \in Content /\ Names("state") \in Content
        /\ Keep \notin Content /\ {} \in Content
    BY NamesAreNames, ConstantsAssumption DEF TypeInv, File, Content
  <1>2. stage[p] # "idle" => cmd[p].name \in Name
    BY DEF TypeInv, Armed, Command
  <1>3. CASE EditAdd(p)
    <2>1. Names("users") \cup {cmd[p].name} \in Content
      BY <1>1, <1>2, <1>3 DEF EditAdd, Reads, Content
    <2> QED BY <1>1, <1>3, <2>1, WritesTyped DEF EditAdd, Reads, Works
  <1>4. CASE EditRecord(p)
    <2>1. Names("users") \ {cmd[p].name} \in Content
      BY <1>1 DEF Content
    <2>2. Intent(p) \in {Keep} \cup Content
      BY <1>1, <1>2, <1>4 DEF EditRecord, Reads, Intent, Content
    <2> DEFINE u == IF cmd[p].op = "rm" THEN Names("users") \ {cmd[p].name} ELSE Names("users")
    <2>3. u \in Content
      BY <1>1, <2>1
    <2>4. Decides(p, Writes(u, Intent(p)), {}) /\ Works(p)
      BY <1>4 DEF EditRecord, Reads, Works
    <2> HIDE DEF u
    <2> QED BY <1>1, <2>2, <2>3, <2>4, WritesTyped
  <1>5. CASE EditProtocol(p)
    BY <1>1, <1>5, WritesTyped DEF EditProtocol, Reads, Works
  <1>6. CASE Resave(p)
    BY <1>1, <1>6, WritesTyped DEF Resave, Reads, Works
  <1>7. CASE \E withdrawn \in Content : Reconcile(p, withdrawn)
    <2>1. PICK withdrawn \in Content : Reconcile(p, withdrawn)
      BY <1>7
    <2>2. Names("state") \ withdrawn \in Content /\ withdrawn \cap Names("state") \in Content
      BY <1>1 DEF Content
    <2> QED BY <1>1, <2>1, <2>2, WritesTyped DEF Reconcile, Reads, Works
  <1> QED BY <1>3, <1>4, <1>5, <1>6, <1>7

LEMMA StepsTyped ==
    ASSUME TypeInv, NEW p \in Proc, Steps(p), Watch
    PROVE  TypeInv'
  <1> USE DEF TypeInv, TypeOK, Armed, Watch, Modes, Stages, Works
  <1>1. CASE Trust(p)
    BY <1>1, FirstIsStage DEF Trust, Goes, calls, plans
  <1>2. CASE Take(p)
    <2>1. CASE lock = Nobody
      BY <1>2, <2>1, FirstIsStage DEF Take, calls, plans
    <2>2. CASE lock # Nobody
      BY <1>2, <2>2, LeaveTyped DEF Take
    <2> QED BY <2>1, <2>2
  <1>3. CASE Look(p)
    BY <1>3 DEF Look, Goes, Reads, calls, plans
  <1>4. CASE NoReconcile(p)
    BY <1>4 DEF NoReconcile, Goes, Reads, calls, plans
  <1>5. CASE Write(p)
    <2>1. Saving(p) \in File /\ want[p][Saving(p)] \in Content
      BY <1>5, SavingSomething DEF Write
    <2>2. tmp' \in [File -> OnDisk]
      BY <1>5, <2>1 DEF Write, OnDisk
    <2> QED BY <1>5, <2>2 DEF Write, calls, plans
  <1>6. CASE Swap(p)
    <2> DEFINE f == Saving(p)
               left == [want[p] EXCEPT ![f] = Keep]
    <2>1. f \in File
      BY <1>6, SavingSomething DEF Swap
    <2>2. left \in [File -> {Keep} \cup Content]
      BY <2>1
    <2>3. /\ live' \in [File -> OnDisk] /\ tmp' \in [File -> OnDisk]
          /\ want' \in [Proc -> [File -> {Keep} \cup Content]]
          /\ carried' \in [Proc -> Content] /\ carried' = [carried EXCEPT ![p] = {}]
      BY <1>6, <2>1, <2>2 DEF Swap, OnDisk, Content
    <2>4. /\ stage' \in [Proc -> Stages]
          /\ step' \in [Proc -> {"read", "write", "swap"}]
      <3>1. \/ step' = [step EXCEPT ![p] = "read"] /\ stage' = [stage EXCEPT ![p] = Following(p)]
            \/ step' = [step EXCEPT ![p] = "write"] /\ stage' = stage
        BY <1>6 DEF Swap
      <3> QED BY <3>1, FollowingIsStage
    <2>5. \A q \in Proc : stage'[q] # "idle" => cmd'[q] \in Command
      BY <1>6 DEF Swap, calls, plans, Works
    <2>6. \A q \in Proc :
            /\ step'[q] # "read" => want'[q] # Nothing /\ Works(q)'
            /\ carried'[q] # {} => step'[q] # "read"
      BY <1>6, <2>2, <2>3 DEF Swap, Works
    <2>7. untold' \in {"nothing", "lost", "hidden"}
      <3>1. untold' = "hidden" \/ untold' = untold
        BY <1>6 DEF Swap
      <3> QED BY <3>1
    <2>8. UNCHANGED <<lock, mode, cmd, restoring, unserialised, restored>>
      BY <1>6 DEF Swap, calls, plans
    <2>9. overlapped' \in BOOLEAN
      OBVIOUS
    <2> HIDE DEF f, left
    <2>10. /\ lock' \in Proc \cup {Nobody} /\ mode' \in [Proc -> Modes]
           /\ cmd' \in [Proc -> Command \cup {NoCommand}] /\ restoring' \in SUBSET File
           /\ unserialised' \in BOOLEAN /\ restored' \in BOOLEAN
      BY <2>8
    <2>11. carried' \in [Proc -> Content]
      BY <2>3
    <2>12. TypeOK'
      BY <2>3, <2>4, <2>7, <2>9, <2>10, <2>11
    <2>13. Armed'
      BY <2>5, <2>6
    <2> QED BY <2>12, <2>13
  <1>7. CASE End(p)
    BY <1>7, LeaveTyped DEF End
  <1>8. CASE Fail(p)
    <2>1. step[p] # "read" => Saving(p) \in File
      BY SavingSomething
    <2>2. tmp' \in [File -> OnDisk]
      BY <1>8, <2>1 DEF Fail, OnDisk
    <2> QED BY <1>8, <2>2, LeaveTyped DEF Fail
  <1>9. CASE Rollback(p)
    <2> DEFINE w == Writes(Keep, Names("state"))
    <2>1. w \in [File -> {Keep} \cup Content] /\ w # Nothing
      BY NamesAreNames, ConstantsAssumption DEF Writes, Nothing, File
    <2> HIDE DEF w
    <2>2. /\ want' = [want EXCEPT ![p] = w]
          /\ step' = [step EXCEPT ![p] = "write"] /\ stage' = [stage EXCEPT ![p] = "undo"]
          /\ UNCHANGED <<lock, live, tmp, mode, cmd, carried, restoring, unserialised, restored, untold>>
      BY <1>9 DEF Rollback, calls, w
    <2>3. stage[p] = "look"
      BY <1>9 DEF Rollback, Reads
    <2> QED BY <2>1, <2>2, <2>3
  <1> QED BY <1>1, <1>2, <1>3, <1>4, <1>5, <1>6, <1>7, <1>8, <1>9, EditsTyped DEF Steps

LEMMA CallerTyped ==
    ASSUME TypeInv, NEW p \in Proc, Caller(p), Watch
    PROVE  TypeInv'
  <1> USE DEF TypeInv, TypeOK, Armed, Watch, Modes, Stages, Works
  <1>1. CASE \E call \in Call : Start(p, call)
    <2>1. PICK call \in Call : Start(p, call)
      BY <1>1
    <2>2. call.mode \in Modes /\ call.cmd \in Command
      BY ConstantsAssumption
    <2>3. /\ stage[p] = "idle" /\ cmd' = [cmd EXCEPT ![p] = call.cmd]
          /\ mode' = [mode EXCEPT ![p] = call.mode]
          /\ \E to \in {"outer", "inner"} : stage' = [stage EXCEPT ![p] = to]
          /\ UNCHANGED <<lock, live, tmp, step, want, carried, restoring, unserialised, restored, untold>>
      BY <2>1 DEF Start, plans
    <2>4. TypeOK'
      BY <2>2, <2>3
    <2>5. Armed'
      BY <2>2, <2>3
    <2> QED BY <2>4, <2>5
  <1>2. CASE Flock(p)
    BY <1>2 DEF Flock, calls, plans
  <1>3. CASE GiveUp(p)
    BY <1>3, LeaveTyped DEF GiveUp
  <1>4. CASE Kill(p)
    <2>1. step[p] # "read" => Saving(p) \in File
      BY SavingSomething
    <2>2. tmp' \in [File -> OnDisk]
      BY <1>4, <2>1 DEF Kill, OnDisk
    <2> QED BY <1>4, <2>2, LeaveTyped DEF Kill
  <1> QED BY <1>1, <1>2, <1>3, <1>4 DEF Caller

LEMMA OperatorTyped ==
    ASSUME TypeInv, Operator, Watch
    PROVE  TypeInv'
  <1> USE DEF TypeInv, TypeOK, Armed, Watch, Works, calls, plans
  <1>1. CASE \E f \in File : Lose(f) \/ Unlink(f) \/ Unpack(f)
    BY <1>1 DEF Lose, Unlink, Unpack, OnDisk
  <1>2. CASE \E f \in File : Unpacked(f)
    <2>1. PICK f \in File : Unpacked(f)
      BY <1>2
    <2>2. Backup[f] \in OnDisk
      BY <2>1, ConstantsAssumption DEF OnDisk
    <2>3. live' \in [File -> OnDisk] /\ restoring' \in SUBSET File
      BY <2>1, <2>2 DEF Unpacked
    <2> QED BY <2>1, <2>3 DEF Unpacked
  <1>3. CASE Status \/ RestoreBegin \/ RestoreCut
    BY <1>3 DEF Status, RestoreBegin, RestoreCut
  <1> QED BY <1>1, <1>2, <1>3 DEF Operator

LEMMA TypeStep == TypeInv /\ [Next]_vars => TypeInv'
  <1> SUFFICES ASSUME TypeInv, [Next]_vars PROVE TypeInv'
    OBVIOUS
  <1>1. CASE Next
    BY <1>1, StepsTyped, CallerTyped, OperatorTyped DEF Next, Step
  <1>2. CASE UNCHANGED vars
    BY <1>2 DEF vars, calls, plans, ghosts, TypeInv, TypeOK, Armed, Works
  <1> QED BY <1>1, <1>2

(* The variables of Store are what their comments say they are, whatever is *)
(* called, killed, lost or restored.                                        *)
THEOREM Typing == Spec => []TypeOK
  <1>1. TypeInv => TypeOK
    BY DEF TypeInv
  <1> QED BY TypeInit, TypeStep, <1>1, PTL DEF Spec

-----------------------------------------------------------------------------
(* The lock. *)

LEMMA HeldInit == Init => Held
  BY DEF Init, Held, Wrapped, Inside, Begun, Works, Crowded, Serialised

LEMMA LeaveHeld ==
    ASSUME TypeInv, Held, NEW p \in Proc, Leave(p), unserialised' = unserialised
    PROVE  Wrapped' /\ Inside'
  <1>1. \A q \in Proc : q # p => (lock = q => lock' = q) /\ stage'[q] = stage[q] /\ mode'[q] = mode[q]
    BY DEF Leave, Released, TypeInv, TypeOK
  <1>2. stage'[p] = "idle"
    BY DEF Leave, TypeInv, TypeOK
  <1> QED BY <1>1, <1>2 DEF Held, Wrapped, Inside, Works

LEMMA HeldStep == TypeInv /\ Held /\ [Next]_vars => Held'
  <1> SUFFICES ASSUME TypeInv, Held, [Next]_vars PROVE Held'
    OBVIOUS
  <1> USE DEF TypeInv, TypeOK, Held, Wrapped, Inside, Begun
  <1>1. ASSUME NEW p \in Proc, Steps(p) \/ Caller(p), Watch
        PROVE  Wrapped' /\ Inside' /\ Begun' /\ (Serialised => unserialised' \/ restored' \/ ~overlapped)
    <2> USE <1>1 DEF Works, Serialised
    <2>1. CASE Trust(p)
      BY <2>1, FirstIsStage DEF Trust, Goes, calls, plans, Modes
    <2>2. CASE Take(p)
      <3>1. CASE lock = Nobody
        BY <2>2, <3>1, FirstIsStage, ConstantsAssumption DEF Take, calls, plans
      <3>2. CASE lock # Nobody
        BY <2>2, <3>2, LeaveHeld DEF Take
      <3> QED BY <3>1, <3>2
    <2>3. CASE \/ EditAdd(p) \/ EditRecord(p) \/ EditProtocol(p) \/ Resave(p)
               \/ \E withdrawn \in Content : Reconcile(p, withdrawn)
      BY <2>3 DEF EditAdd, EditRecord, EditProtocol, Resave, Reconcile, Decides, calls, plans
    <2>4. CASE Look(p) \/ NoReconcile(p) \/ Rollback(p)
      BY <2>4 DEF Look, NoReconcile, Rollback, Goes, Reads, calls, plans
    <2>5. CASE Write(p)
      BY <2>5 DEF Write, calls, plans
    <2>6. CASE Swap(p)
      <3>1. Works(p)
        BY <2>6 DEF Swap, Armed
      <3>2. \A q \in Proc : stage'[q] = stage[q] \/ (q = p /\ stage'[q] # "inner")
        <4>1. stage' = stage \/ stage' = [stage EXCEPT ![p] = Following(p)]
          BY <2>6 DEF Swap
        <4> QED BY <4>1, FollowingIsStage
      <3>3. UNCHANGED <<lock, mode, restoring, unserialised, restored>>
        BY <2>6 DEF Swap, calls, plans
      <3>4. Wrapped'
        BY <3>1, <3>2, <3>3
      <3>5. Inside'
        BY <3>1, <3>2, <3>3
      <3>6. Begun' /\ (Serialised => unserialised' \/ restored' \/ ~overlapped)
        BY <3>3
      <3> QED BY <3>4, <3>5, <3>6
    <2>7. CASE End(p) \/ Fail(p) \/ GiveUp(p) \/ Kill(p)
      BY <2>7, LeaveHeld DEF End, Fail, GiveUp, Kill
    <2>8. CASE \E call \in Call : Start(p, call)
      BY <2>8 DEF Start
    <2>9. CASE Flock(p)
      BY <2>9, ConstantsAssumption DEF Flock, calls, plans
    <2> QED BY <2>1, <2>2, <2>3, <2>4, <2>5, <2>6, <2>7, <2>8, <2>9 DEF Steps, Caller
  <1>2. ASSUME Operator, Watch
        PROVE  Wrapped' /\ Inside' /\ Begun' /\ (Serialised => unserialised' \/ restored' \/ ~overlapped)
    BY <1>2 DEF Operator, Lose, Unlink, Unpack, Unpacked, Status, RestoreBegin, RestoreCut,
                calls, plans, Works, Serialised
  <1>3. CASE Next
    <2>1. Wrapped' /\ Inside' /\ Begun' /\ (Serialised => unserialised' \/ restored' \/ ~overlapped) /\ Watch
      BY <1>1, <1>2, <1>3 DEF Next, Step
    <2>2. Crowded' => unserialised' \/ restored'
      BY <2>1 DEF Crowded
    <2> QED BY <2>1, <2>2 DEF Watch, Serialised
  <1>4. CASE UNCHANGED vars
    BY <1>4 DEF vars, calls, plans, ghosts, Works, Crowded, Serialised
  <1> QED BY <1>3, <1>4

(* Only a command without the lock, or a restore, can make two work on the  *)
(* files at once (cli.py:101, cli.py:150).                                  *)
THEOREM Serial == Spec => []Serialised
  <1>1. TypeInv /\ Held => Serialised
    BY DEF Held
  <1> QED BY TypeInit, TypeStep, HeldInit, HeldStep, <1>1, PTL DEF Spec

-----------------------------------------------------------------------------
(* What a command has read still holds when it writes. *)

LEMMA Idlers ==
    ASSUME TypeInv, NEW q \in Proc, ~Works(q)
    PROVE  Plan(q) /\ Kept(q)
  BY DEF TypeInv, Armed, Works, Plan, Kept, Past

LEMMA Alone ==
    ASSUME ~Crowded, NEW p \in Proc, Works(p), NEW q \in Proc, q # p
    PROVE  ~Works(q)
  BY DEF Crowded

LEMMA Frame ==
    ASSUME NEW q \in Proc, Plan(q), Kept(q), live' = live, tmp' = tmp,
           stage'[q] = stage[q], step'[q] = step[q], want'[q] = want[q], cmd'[q] = cmd[q],
           carried'[q] = carried[q]
    PROVE  Plan(q)' /\ Kept(q)'
  BY DEF Plan, Kept, Past, PlannedUsers, PlannedState, Withdraws, Names, Saving

LEMMA DecidesPlanned ==
    ASSUME TypeInv, Undisturbed, ~overlapped, NEW p \in Proc,
           \/ EditAdd(p) \/ EditRecord(p) \/ EditProtocol(p) \/ Resave(p)
           \/ \E withdrawn \in Content : Reconcile(p, withdrawn)
    PROVE  Plan(p)' /\ Kept(p)'
  <1>1. /\ live' = live /\ stage' = stage /\ cmd' = cmd
        /\ step'[p] = "write"
        /\ \A f \in File : Names(f)' = Names(f)
    BY DEF EditAdd, EditRecord, EditProtocol, Resave, Reconcile, Decides, calls, plans, TypeInv, TypeOK, Names
  <1>2. Kept(p)'
    BY <1>1 DEF Undisturbed, Kept, Past, File
  <1>3. \A f \in File : Names(f) \in Content /\ Names(f) # Keep
    BY NamesAreNames, ConstantsAssumption DEF TypeInv
  <1>4. PlannedUsers(p)' /\ PlannedState(p)'
    <2>1. ASSUME NEW u, NEW s, NEW w, Decides(p, Writes(u, s), w)
          PROVE  want'[p]["users"] = u /\ want'[p]["state"] = s /\ carried'[p] = w
      BY <2>1 DEF Decides, Writes, File, TypeInv, TypeOK
    <2>2. CASE EditAdd(p)
      BY <1>1, <2>1, <2>2 DEF EditAdd, Reads, PlannedUsers, PlannedState, Withdraws, File
    <2>3. CASE EditRecord(p)
      BY <1>1, <1>3, <2>1, <2>3 DEF EditRecord, Reads, PlannedUsers, PlannedState, Intent, Withdraws, File
    <2>4. CASE EditProtocol(p)
      BY <1>1, <2>1, <2>4 DEF EditProtocol, Reads, PlannedUsers, PlannedState, Withdraws, File
    <2>5. CASE Resave(p)
      BY <1>1, <2>1, <2>5 DEF Resave, Reads, PlannedUsers, PlannedState, Withdraws, File
    <2>6. CASE \E withdrawn \in Content : Reconcile(p, withdrawn)
      <3>1. PICK withdrawn \in Content : Reconcile(p, withdrawn)
        BY <2>6
      <3>2. /\ want'[p]["users"] = Names("users") /\ want'[p]["state"] \in SUBSET Names("state")
            /\ Names("state") \ want'[p]["state"] \subseteq carried'[p]
        BY <2>1, <3>1 DEF Reconcile
      <3> QED BY <1>1, <3>1, <3>2 DEF Reconcile, Reads, PlannedUsers, PlannedState, File
    <2> QED BY <2>2, <2>3, <2>4, <2>5, <2>6
  <1> QED BY <1>1, <1>2, <1>4 DEF Plan

\* What a file holds after the rename: what its writer had decided on.
LEMMA SwapPublishes ==
    ASSUME TypeInv, Undisturbed, ~overlapped, NEW p \in Proc, Swap(p),
           NEW f \in File, f = Saving(p)
    PROVE  /\ want[p][f] \in Content /\ want[p][f] # Keep
           /\ Names(f)' = want[p][f]
           /\ live'[f] = want[p][f]
           /\ \A g \in File : g # f => Names(g)' = Names(g) /\ live'[g] = live[g]
           /\ cmd' = cmd
  <1>1. /\ Saving(p) \in File /\ want[p][Saving(p)] \in Content
        /\ tmp[Saving(p)] = want[p][Saving(p)]
    BY SavingSomething DEF Swap, Undisturbed, Plan
  <1>2. want[p][Saving(p)] \notin {Absent, Torn, Keep}
    BY <1>1, ConstantsAssumption
  <1>3. /\ live' = [live EXCEPT ![Saving(p)] = tmp[Saving(p)]]
        /\ cmd' = cmd
    BY DEF Swap, calls, plans
  <1> QED BY <1>1, <1>2, <1>3 DEF TypeInv, TypeOK, Names

LEMMA SwapPlanned ==
    ASSUME TypeInv, Undisturbed, ~overlapped, NEW p \in Proc, Swap(p)
    PROVE  Plan(p)' /\ Kept(p)'
  <1>0. PICK f \in File : f = Saving(p)
    BY SavingSomething DEF Swap
  <1> DEFINE left == [want[p] EXCEPT ![f] = Keep]
  <1>1. /\ want[p][f] \in Content /\ want[p][f] # Keep
        /\ Names(f)' = want[p][f]
        /\ \A g \in File : g # f => Names(g)' = Names(g)
        /\ cmd' = cmd
    BY <1>0, SwapPublishes
  <1>2. Plan(p) /\ Kept(p) /\ PlannedUsers(p) /\ PlannedState(p)
    BY DEF Undisturbed, Plan, Swap
  <1>3. /\ want'[p] = left
        /\ left = Nothing => step'[p] = "read" /\ stage'[p] = Following(p)
        /\ left # Nothing => step'[p] = "write" /\ stage'[p] = stage[p]
    BY <1>0 DEF Swap, TypeInv, TypeOK
  <1>4. want[p] \in [File -> {Keep} \cup Content]
    BY DEF TypeInv, TypeOK
  <1>5. CASE f = "state"
    <2>1. left["state"] = Keep /\ left["users"] = want[p]["users"]
      BY <1>4, <1>5 DEF File
    <2>2. Names("users")' = Names("users") /\ Names("state")' = want[p]["state"]
      BY <1>1, <1>5 DEF File
    <2>3. CASE left = Nothing
      <3>1. want[p]["users"] = Keep
        BY <2>1, <2>3 DEF Nothing, File
      <3>2. \/ stage[p] = "edit" /\ cmd[p].op = "protocol"
            \/ Past(p) \/ stage[p] = "undo"
        <4>1. \A g \in File : Names(g) # Keep
          BY NamesAreNames, ConstantsAssumption DEF TypeInv
        <4>2. stage[p] = "edit" => cmd[p].op = "protocol"
          <5>1. stage[p] = "edit" => cmd[p].name \in Name
            BY DEF TypeInv, Armed, Command
          <5>2. stage[p] = "edit" => /\ Names("users") \cup {cmd[p].name} \in Content
                                     /\ Names("users") \ {cmd[p].name} \in Content
            BY <5>1, NamesAreNames DEF TypeInv, Content, File
          <5> QED BY <1>2, <3>1, <4>1, <5>2, ConstantsAssumption DEF PlannedUsers, File
        <4> QED BY <1>2, <4>2 DEF PlannedUsers, Past
      <3>3. Past(p)' => Past(p) \/ (stage[p] = "edit" /\ cmd[p].op = "protocol")
        BY <1>3, <2>3, <3>2 DEF Past, Following
      <3> QED BY <1>1, <1>2, <1>3, <2>2, <2>3, <3>3 DEF Plan, Kept
    <2>4. CASE left # Nothing
      <3>1. PlannedUsers(p)'
        BY <1>1, <1>2, <1>3, <2>1, <2>2, <2>4 DEF PlannedUsers
      <3>2. PlannedState(p)'
        <4>1. stage[p] = "edit" /\ Withdraws(p) => cmd[p].name \in want[p]["state"]
          BY <1>1, <1>2, <1>5 DEF PlannedState, Withdraws
        <4> QED BY <1>1, <1>3, <2>1, <2>2, <2>4, <4>1 DEF PlannedState, Withdraws
      <3>3. Kept(p)'
        BY <1>1, <1>2, <1>3, <2>2, <2>4 DEF Kept, Past
      <3> QED BY <1>3, <2>4, <3>1, <3>2, <3>3 DEF Plan
    <2> QED BY <2>3, <2>4
  <1>6. CASE f = "users"
    <2>1. want[p]["state"] = Keep
      BY <1>0, <1>6 DEF Saving
    <2>2. left = Nothing
      BY <1>4, <1>6, <2>1 DEF Nothing, File
    <2>3. Kept(p)'
      <3>1. Names("users")' = want[p]["users"] /\ want[p]["users"] # Keep
        BY <1>1, <1>6
      <3>2. stage[p] \in {"edit", "reconcile"}
        BY <1>2, <3>1 DEF PlannedUsers
      <3>3. CASE stage[p] = "edit"
        BY <1>1, <1>2, <3>1, <3>3 DEF Kept, PlannedUsers
      <3>4. CASE stage[p] = "reconcile"
        BY <1>1, <1>2, <3>1, <3>4 DEF Kept, Past, PlannedUsers
      <3> QED BY <3>2, <3>3, <3>4
    <2> QED BY <1>3, <2>2, <2>3 DEF Plan
  <1> QED BY <1>1, <1>5, <1>6 DEF File

LEMMA WritePlanned ==
    ASSUME TypeInv, ~Crowded, Undisturbed, ~overlapped, NEW p \in Proc, Write(p)
    PROVE  Plan(p)' /\ Kept(p)'
  <1>1. Works(p) /\ ~Shares(p)
    BY Alone DEF Write, Shares, TypeInv, Armed
  <1>2. PICK f \in File : f = Saving(p)
    BY SavingSomething DEF Write
  <1>3. tmp'[f] = want[p][f] /\ step'[p] = "swap"
    BY <1>1, <1>2 DEF Write, TypeInv, TypeOK
  <1>4. UNCHANGED <<live, stage, want, carried, cmd>>
    BY DEF Write, calls, plans
  <1>5. Plan(p) /\ Kept(p) /\ step[p] # "read"
    BY DEF Undisturbed, Write
  <1>6. Saving(p)' = f
    BY <1>2, <1>4 DEF Saving
  <1> QED BY <1>3, <1>4, <1>5, <1>6 DEF Plan, Kept, Past, PlannedUsers, PlannedState, Withdraws, Names

\* What p does leaves the plan of every command that works afterwards right.
LEMMA OwnStep ==
    ASSUME TypeInv, Held, Undisturbed, ~overlapped, NEW p \in Proc, Steps(p) \/ Caller(p),
           Works(p)'
    PROVE  Plan(p)' /\ Kept(p)'
  <1>1. ~Crowded
    BY DEF Held
  <1> USE DEF TypeInv, TypeOK, Works
  <1>2. CASE Trust(p)
    BY <1>2, FirstIsStage DEF Trust, Goes, calls, plans, Armed, Plan, Kept, Past, First
  <1>3. CASE Take(p)
    BY <1>3, FirstIsStage DEF Take, Leave, calls, plans, Armed, Plan, Kept, Past, First
  <1>4. CASE \/ EditAdd(p) \/ EditRecord(p) \/ EditProtocol(p) \/ Resave(p)
             \/ \E withdrawn \in Content : Reconcile(p, withdrawn)
    BY <1>4, DecidesPlanned
  <1>5. CASE Look(p) \/ NoReconcile(p)
    BY <1>5 DEF Look, NoReconcile, Goes, Reads, calls, plans, Undisturbed, Plan, Kept, Past, Names
  <1>6. CASE Write(p)
    BY <1>1, <1>6, WritePlanned
  <1>7. CASE Swap(p)
    BY <1>7, SwapPlanned
  <1>8. CASE End(p) \/ Fail(p) \/ GiveUp(p) \/ Kill(p)
    BY <1>8 DEF End, Fail, GiveUp, Kill, Leave
  <1>9. CASE Flock(p) \/ \E call \in Call : Start(p, call)
    BY <1>9 DEF Flock, Start
  <1>10. CASE Rollback(p)
    <2>1. /\ stage'[p] = "undo" /\ step'[p] = "write" /\ live' = live
          /\ want'[p] = Writes(Keep, Names("state"))
      BY <1>10 DEF Rollback
    <2>2. want'[p]["users"] = Keep /\ want'[p]["state"] = Names("state")'
      BY <2>1 DEF Writes, Names, File
    <2> QED BY <2>1, <2>2 DEF Plan, Kept, Past, PlannedUsers, PlannedState
  <1> QED BY <1>2, <1>3, <1>4, <1>5, <1>6, <1>7, <1>8, <1>9, <1>10 DEF Steps, Caller

\* A command that does not work after its step has not touched the files of one that does.
LEMMA OthersStep ==
    ASSUME TypeInv, ~Crowded, NEW p \in Proc, Steps(p) \/ Caller(p), ~Works(p)',
           NEW q \in Proc, q # p, Works(q)
    PROVE  live' = live /\ tmp' = tmp
  <1>1. ~Works(p) /\ step[p] = "read"
    BY Alone DEF TypeInv, Armed
  <1> USE <1>1 DEF TypeInv, TypeOK, Works
  <1>2. CASE Trust(p) \/ Take(p)
    BY <1>2 DEF Trust, Take
  <1>3. CASE End(p) \/ Fail(p) \/ GiveUp(p) \/ Kill(p) \/ Flock(p) \/ \E call \in Call : Start(p, call)
    BY <1>3 DEF End, Fail, GiveUp, Kill, Flock, Start
  <1>4. CASE \/ EditAdd(p) \/ EditRecord(p) \/ EditProtocol(p) \/ Resave(p)
             \/ \E withdrawn \in Content : Reconcile(p, withdrawn)
             \/ Rollback(p) \/ Look(p) \/ NoReconcile(p) \/ Write(p) \/ Swap(p)
    BY <1>4 DEF EditAdd, EditRecord, EditProtocol, Rollback, Resave, Reconcile, Reads, Look,
                NoReconcile, Write, Swap
  <1> QED BY <1>2, <1>3, <1>4 DEF Steps, Caller

\* A step of p is not one of another.
LEMMA StepIsOwn ==
    ASSUME TypeInv, NEW p \in Proc, Steps(p) \/ Caller(p), NEW q \in Proc, q # p
    PROVE  /\ stage'[q] = stage[q] /\ step'[q] = step[q]
           /\ want'[q] = want[q] /\ cmd'[q] = cmd[q] /\ carried'[q] = carried[q]
  <1> USE DEF TypeInv, TypeOK, calls, plans
  <1>1. CASE Trust(p) \/ Take(p)
    BY <1>1 DEF Trust, Take, Goes, Leave
  <1>2. CASE End(p) \/ Fail(p) \/ GiveUp(p) \/ Kill(p) \/ Flock(p) \/ \E call \in Call : Start(p, call)
    BY <1>2 DEF End, Fail, GiveUp, Kill, Flock, Start, Leave
  <1>3. CASE \/ EditAdd(p) \/ EditRecord(p) \/ EditProtocol(p) \/ Resave(p)
             \/ \E withdrawn \in Content : Reconcile(p, withdrawn)
             \/ Rollback(p) \/ Look(p) \/ NoReconcile(p) \/ Write(p)
    BY <1>3 DEF EditAdd, EditRecord, EditProtocol, Rollback, Resave, Reconcile, Decides, Look,
                NoReconcile, Goes, Write
  <1>4. CASE Swap(p)
    BY <1>4 DEF Swap
  <1> QED BY <1>1, <1>2, <1>3, <1>4 DEF Steps, Caller

\* What an operator does while a command works and nothing overlaps is not to the files.
LEMMA OperatorFar ==
    ASSUME TypeInv, Held, ~overlapped, Operator, NEW q \in Proc, Works(q)
    PROVE  live' = live /\ tmp' = tmp
  <1>1. restoring = {} /\ Working # {}
    BY DEF Held, Crowded, Working
  <1> QED BY <1>1 DEF Operator, Lose, Unlink, Unpack, Unpacked, Status, RestoreBegin, RestoreCut

LEMMA UndisturbedStep ==
    ASSUME TypeInv, TypeInv', Held, Undisturbed, [Next]_vars
    PROVE  Undisturbed'
  <1> SUFFICES ASSUME ~overlapped', NEW q \in Proc PROVE Plan(q)' /\ Kept(q)'
    BY DEF Undisturbed
  <1>1. CASE Next
    <2>1. ~overlapped /\ ~Crowded /\ ~Crowded'
      BY <1>1 DEF Next, Watch, Held, TypeInv, TypeOK
    <2>2. CASE ~Works(q)'
      BY <2>2 DEF TypeInv, Armed, Works, Plan, Kept, Past
    <2>3. ASSUME Works(q)', NEW p \in Proc, Steps(p) \/ Caller(p)
          PROVE  Plan(q)' /\ Kept(q)'
      <3>1. CASE p = q
        BY <2>1, <2>3, <3>1, OwnStep
      <3>2. CASE p # q
        <4>1. ~Works(p)'
          BY <2>1, <2>3, <3>2 DEF Crowded
        <4>2. /\ stage'[q] = stage[q] /\ step'[q] = step[q] /\ want'[q] = want[q] /\ cmd'[q] = cmd[q]
              /\ carried'[q] = carried[q]
          BY <2>3, <3>2, StepIsOwn
        <4>3. Works(q)
          BY <2>3, <4>2 DEF Works
        <4>4. live' = live /\ tmp' = tmp
          BY <2>1, <2>3, <3>2, <4>1, <4>3, OthersStep
        <4>5. Plan(q) /\ Kept(q)
          BY <2>1 DEF Undisturbed
        <4> QED BY <4>2, <4>4, <4>5, Frame
      <3> QED BY <3>1, <3>2
    <2>4. ASSUME Works(q)', Operator
          PROVE  Plan(q)' /\ Kept(q)'
      <3>1. UNCHANGED <<stage, step, want, carried, cmd>>
        BY <2>4 DEF Operator, Lose, Unlink, Unpack, Unpacked, Status, RestoreBegin, RestoreCut, calls, plans
      <3>2. Works(q)
        BY <2>4, <3>1 DEF Works
      <3>3. live' = live /\ tmp' = tmp
        BY <2>1, <2>4, <3>2, OperatorFar
      <3>4. Plan(q) /\ Kept(q)
        BY <2>1 DEF Undisturbed
      <3> QED BY <3>1, <3>3, <3>4, Frame
    <2> QED BY <1>1, <2>2, <2>3, <2>4 DEF Next, Step
  <1>2. CASE UNCHANGED vars
    <2>1. Plan(q) /\ Kept(q)
      BY <1>2 DEF Undisturbed, vars, ghosts
    <2> QED BY <1>2, <2>1, Frame DEF vars, calls, plans
  <1> QED BY <1>1, <1>2

\* How a step of a command can change a file.
LEMMA OnlySwapChanges ==
    ASSUME NEW p \in Proc, Steps(p) \/ Caller(p), ~Swap(p)
    PROVE  live' = live
  BY DEF Steps, Caller, Trust, Take, EditAdd, EditRecord, EditProtocol, Rollback, Look, Resave, NoReconcile,
         Reconcile, Decides, Write, End, Fail, Start, Flock, GiveUp, Kill

LEMMA WholeStep ==
    ASSUME TypeInv, Held, Undisturbed, Whole, [Next]_vars
    PROVE  Whole'
  <1> SUFFICES ASSUME ~overlapped', ~restored', NEW f \in File PROVE live'[f] # Torn
    BY DEF Whole
  <1> USE DEF TypeInv, TypeOK
  <1>1. CASE Next
    <2>1. ~overlapped
      BY <1>1 DEF Next, Watch
    <2>2. ASSUME NEW p \in Proc, Steps(p) \/ Caller(p)
          PROVE  live'[f] # Torn
      <3>1. restored' = restored
        BY <2>2 DEF Steps, Caller, Trust, Take, EditAdd, EditRecord, EditProtocol, Rollback, Look, Resave,
                    NoReconcile, Reconcile, Decides, Write, Swap, End, Fail, Start, Flock, GiveUp, Kill
      <3>2. live[f] # Torn
        BY <2>1, <3>1 DEF Whole
      <3>3. CASE Swap(p)
        <4>1. PICK g \in File : g = Saving(p)
          BY <3>3, SavingSomething DEF Swap
        <4>2. /\ want[p][g] \in Content /\ live'[g] = want[p][g]
              /\ \A h \in File : h # g => live'[h] = live[h]
          BY <2>1, <3>3, <4>1, SwapPublishes
        <4> QED BY <3>2, <4>2, ConstantsAssumption
      <3>4. CASE ~Swap(p)
        BY <2>2, <3>2, <3>4, OnlySwapChanges
      <3> QED BY <3>3, <3>4
    <2>3. ASSUME Operator
          PROVE  live'[f] # Torn
      <3>1. ~restored /\ restoring = {}
        BY <2>3 DEF Operator, Lose, Unlink, Unpack, Unpacked, Status, RestoreBegin, RestoreCut, Held, Begun
      <3>2. live[f] # Torn
        BY <2>1, <3>1 DEF Whole
      <3> QED BY <2>3, <3>1, <3>2, ConstantsAssumption
              DEF Operator, Lose, Unlink, Unpack, Unpacked, Status, RestoreBegin, RestoreCut
    <2> QED BY <1>1, <2>2, <2>3 DEF Next, Step
  <1>2. CASE UNCHANGED vars
    BY <1>2 DEF vars, ghosts, Whole
  <1> QED BY <1>1, <1>2

LEMMA Initially == Init => IInv
  <1> SUFFICES ASSUME Init PROVE IInv
    OBVIOUS
  <1>1. Undisturbed
    BY DEF Init, Undisturbed, Plan, Kept, Past
  <1>2. Whole
    <2>1. \A f \in File : live[f] \in {Absent} \cup Content
      BY DEF Init
    <2> QED BY <2>1, ConstantsAssumption DEF Whole
  <1> QED BY <1>1, <1>2, TypeInit, HeldInit DEF IInv

LEMMA Inductive == IInv /\ [Next]_vars => IInv'
  BY TypeStep, HeldStep, UndisturbedStep, WholeStep DEF IInv

LEMMA Invariant == Spec => []IInv
  BY Initially, Inductive, PTL DEF Spec

(* No file is ever half written, whatever is killed when, unless two were   *)
(* at it or a restore was (users_store.py:281, state.py:131).               *)
THEOREM WholeFiles == Spec => []Whole
  <1>1. IInv => Whole
    BY DEF IInv
  <1> QED BY Invariant, <1>1, PTL

(* An OK is true: the change the command was asked for is in users.json     *)
(* when it says so, after all its own rereading and rewriting.              *)
THEOREM TruthfulOk == Spec => []OkMeansDone
  <1>1. IInv => OkMeansDone
    BY DEF IInv, Undisturbed, Kept, Past, OkMeansDone
  <1> QED BY Invariant, <1>1, PTL

(* A record with a certificate goes or is disabled only over an intent to   *)
(* withdraw the certificate that is on disk already.                        *)
THEOREM IntentFirst == Spec => IntentOutlivesRecord
  <1> DEFINE Saved ==
        \A p \in Proc :
          /\ RecordSaved(p)
          /\ want'[p] # want[p] /\ stage'[p] # "idle"
          /\ Withdraws(p)
          => overlapped' \/ cmd[p].name \in Names("state")
  <1>1. IInv /\ [Next]_vars => [Saved]_vars
    <2> SUFFICES ASSUME IInv, [Next]_vars, ~overlapped',
                        NEW p \in Proc, RecordSaved(p), Withdraws(p)
                 PROVE  cmd[p].name \in Names("state")
      OBVIOUS
    <2>1. ~overlapped
      BY DEF Next, Watch, vars, ghosts
    <2>2. PlannedState(p) /\ want[p]["state"] = Keep /\ stage[p] = "edit"
      <3>1. want[p]["state"] = Keep
        BY DEF RecordSaved, Saving
      <3> QED BY <2>1, <3>1 DEF IInv, Undisturbed, Plan, RecordSaved
    <2>3. cmd[p].name \in Name
      BY <2>2 DEF IInv, TypeInv, Armed, Command
    <2>4. Names("state") \in Content /\ Names("state") \cup {cmd[p].name} \in Content
      BY <2>3, NamesAreNames DEF IInv, TypeInv, Content, File
    <2> QED BY <2>2, <2>4, ConstantsAssumption DEF PlannedState, Withdraws
  <1> QED BY Invariant, <1>1, PTL DEF Spec, IntentOutlivesRecord

-----------------------------------------------------------------------------
(* The loss of state.json. *)

\* While nothing has overlapped: a loss nobody has told of is still to be seen, no
\* command that has looked goes on over it in silence, and what a command is about to
\* write to state.json it has made from a file that could be read.
Seen == untold = "lost" => live["state"] \in {Absent, Torn}

Looked(p) ==
    \/ stage[p] \in {"mark", "reconcile", "close", "done"} /\ cmd[p].op # "reconcile"
    \/ stage[p] = "look" /\ cmd[p].op = "protocol"
    \/ stage[p] = "undo"
    => untold # "lost"

Grounded(p) ==
    step[p] # "read" /\ stage[p] # "undo" /\ want[p]["state"] # Keep => Readable("state")

Heard == ~overlapped => Seen /\ \A p \in Proc : Looked(p) /\ Grounded(p)

LEMMA HeardInit == Init => Heard
  BY DEF Init, Heard, Seen, Looked, Grounded

\* Only a look or a rename changes what is untold.
LEMMA OnlyTheseTell ==
    ASSUME NEW p \in Proc, Steps(p) \/ Caller(p), ~Swap(p), ~Look(p)
    PROVE  untold' = untold
  BY DEF Steps, Caller, Trust, Take, EditAdd, EditRecord, EditProtocol, Rollback, Resave, NoReconcile,
         Reconcile, Decides, Write, End, Fail, Start, Flock, GiveUp, Kill

\* A rename: what makes state.json anew over an untold loss comes from an edit, or from
\* a reconcile on its own, and the loss is then hidden; who comes later has looked.
LEMMA SwapHeard ==
    ASSUME IInv, Heard, ~overlapped, NEW p \in Proc, Swap(p)
    PROVE  Seen' /\ Looked(p)' /\ Grounded(p)' /\ (untold' = "lost" => untold = "lost")
  <1> USE DEF IInv
  <1>1. PICK f \in File : f = Saving(p)
    BY SavingSomething DEF Swap
  <1>2. /\ want[p][f] \in Content /\ want[p][f] # Keep
        /\ live'[f] = want[p][f]
        /\ \A g \in File : g # f => live'[g] = live[g]
        /\ cmd' = cmd
    BY <1>1, SwapPublishes
  <1>3. stage[p] \in {"edit", "undo", "mark", "reconcile", "close"}
    BY DEF Undisturbed, Plan, Swap, PlannedUsers
  <1>4. /\ stage'[p] = stage[p] \/ stage'[p] = Following(p)
        /\ want'[p] = [want[p] EXCEPT ![f] = Keep]
    BY <1>1 DEF Swap, TypeInv, TypeOK
  <1>5. untold' = "lost" => untold = "lost"
    BY DEF Swap
  <1>6. /\ Looked(p) /\ Grounded(p) /\ Seen
        /\ step[p] # "read"
    BY DEF Heard, Swap
  <1>8. CASE f = "state"
    <2>1. live'["state"] \notin {Absent, Torn}
      BY <1>2, <1>8, ConstantsAssumption
    <2>2. untold' # "lost"
      <3>1. SUFFICES ASSUME untold = "lost" PROVE untold' = "hidden"
        BY <1>5
      <3>2. live["state"] = Absent
        BY <1>2, <1>6, <1>8, <3>1 DEF Looked, Seen, Grounded, Readable
      <3>3. stage[p] = "edit" \/ cmd[p].op = "reconcile"
        BY <1>3, <1>6, <3>1 DEF Looked
      <3> QED BY <1>1, <1>8, <3>1, <3>2, <3>3 DEF Swap
    <2> QED BY <2>1, <2>2 DEF Looked, Seen, Grounded, Readable
  <1>9. CASE f = "users"
    <2>1. live'["state"] = live["state"]
      BY <1>2, <1>9 DEF File
    <2>2. want'[p]["state"] = Keep
      <3>1. want[p]["state"] = Keep
        BY <1>1, <1>9 DEF Saving
      <3> QED BY <1>4, <1>9, <3>1 DEF TypeInv, TypeOK, File
    <2>3. Looked(p)'
      <3>1. stage[p] = "reconcile" \/ (stage[p] = "edit" /\ cmd[p].op # "protocol")
        BY <1>2, <1>3, <1>6, <1>9 DEF Undisturbed, Plan, PlannedUsers
      <3> QED BY <1>2, <1>4, <1>5, <1>6, <3>1 DEF Looked, Following
    <2> QED BY <1>5, <1>6, <2>1, <2>2, <2>3 DEF Seen, Grounded
  <1> QED BY <1>8, <1>9 DEF File

\* The same of every other step of a command.
LEMMA OwnHeard ==
    ASSUME IInv, Heard, ~overlapped, NEW p \in Proc, Steps(p) \/ Caller(p)
    PROVE  Seen' /\ Looked(p)' /\ Grounded(p)' /\ (untold' = "lost" => untold = "lost")
  <1>0. Seen /\ Looked(p) /\ Grounded(p)
    BY DEF Heard
  <1>1. CASE Swap(p)
    BY <1>1, SwapHeard
  <1>2. CASE Look(p)
    <2>1. /\ live' = live /\ want' = want /\ step' = step
          /\ untold' = IF live["state"] = Absent THEN "nothing" ELSE untold
          /\ live["state"] # Torn
      BY <1>2 DEF Look, Goes, Readable, plans
    <2>2. untold' # "lost"
      BY <1>0, <2>1 DEF Seen
    <2> QED BY <1>0, <2>1, <2>2 DEF Seen, Looked, Grounded, Readable
  <1>3. CASE ~Swap(p) /\ ~Look(p)
    <2>1. live' = live /\ untold' = untold
      BY <1>3, OnlySwapChanges, OnlyTheseTell
    <2>2. Seen'
      BY <1>0, <2>1 DEF Seen
    <2> USE DEF IInv, TypeInv, TypeOK, calls, plans
    <2>3. Looked(p)' /\ Grounded(p)'
      <3>1. CASE Trust(p) \/ Take(p)
        <4>1. /\ First(cmd[p]) \in {"mark", "reconcile", "close", "done"} => cmd[p].op = "reconcile"
              /\ First(cmd[p]) = "look" => cmd[p].op = "apply"
              /\ First(cmd[p]) # "undo"
          BY DEF First
        <4>2. step[p] = "read"
          BY <3>1 DEF Trust, Take, Armed, Works
        <4> QED BY <3>1, <4>1, <4>2 DEF Trust, Take, Goes, Leave, Looked, Grounded
      <3>2. CASE End(p) \/ Fail(p) \/ GiveUp(p) \/ Kill(p)
        BY <3>2 DEF End, Fail, GiveUp, Kill, Leave, Looked, Grounded
      <3>3. CASE Flock(p) \/ \E call \in Call : Start(p, call)
        <4>1. step[p] = "read"
          BY <3>3 DEF Flock, Start, Armed, Works
        <4> QED BY <3>3, <4>1 DEF Flock, Start, Looked, Grounded
      <3>4. CASE EditAdd(p) \/ EditRecord(p) \/ EditProtocol(p) \/ Resave(p)
                 \/ \E withdrawn \in Content : Reconcile(p, withdrawn)
        <4>1. stage' = stage /\ cmd' = cmd
          BY <3>4 DEF EditAdd, EditRecord, EditProtocol, Resave, Reconcile, Decides
        <4>2. Looked(p)'
          BY <1>0, <2>1, <4>1 DEF Looked
        <4>3. want'[p]["state"] # Keep => Readable("state")
          <5>1. ASSUME NEW u, NEW s, NEW w, Decides(p, Writes(u, s), w)
                PROVE  want'[p]["state"] = s
            BY <5>1 DEF Decides, Writes, File
          <5>2. CASE EditAdd(p)
            BY <5>1, <5>2 DEF EditAdd
          <5>3. CASE EditRecord(p)
            BY <5>1, <5>3 DEF EditRecord, Intent
          <5>4. CASE EditProtocol(p) \/ Resave(p)
            BY <5>4 DEF EditProtocol, Resave
          <5>5. CASE \E withdrawn \in Content : Reconcile(p, withdrawn)
            BY <5>5 DEF Reconcile
          <5> QED BY <3>4, <5>2, <5>3, <5>4, <5>5
        <4> QED BY <2>1, <4>2, <4>3 DEF Grounded, Readable
      <3>5. CASE NoReconcile(p)
        <4>1. stage[p] = "reconcile" /\ cmd[p].op # "reconcile" /\ cmd' = cmd /\ step' = step /\ want' = want
          BY <3>5 DEF NoReconcile, Reads, Goes
        <4> QED BY <1>0, <2>1, <4>1 DEF Looked, Grounded, Readable
      <3>6. CASE Write(p)
        BY <1>0, <2>1, <3>6 DEF Write, Looked, Grounded, Readable
      <3>7. CASE Rollback(p)
        <4>1. stage' = [stage EXCEPT ![p] = "undo"] /\ stage[p] = "look" /\ cmd[p].op = "protocol"
          BY <3>7 DEF Rollback, Reads
        <4> QED BY <1>0, <2>1, <4>1 DEF Looked, Grounded
      <3> QED BY <1>3, <3>1, <3>2, <3>3, <3>4, <3>5, <3>6, <3>7 DEF Steps, Caller
    <2> QED BY <2>1, <2>2, <2>3
  <1> QED BY <1>1, <1>2, <1>3

\* What the operator and a restore do.
LEMMA OperatorHeard ==
    ASSUME IInv, Heard, ~overlapped, Operator
    PROVE  Seen' /\ \A q \in Proc : Looked(q)' /\ Grounded(q)'
  <1>0. Seen /\ \A q \in Proc : Looked(q) /\ Grounded(q)
    BY DEF Heard
  <1>1. UNCHANGED <<stage, step, want, cmd>>
    BY DEF Operator, Lose, Unlink, Unpack, Unpacked, Status, RestoreBegin, RestoreCut, calls, plans
  <1>2. Seen'
    <2> USE DEF IInv, TypeInv, TypeOK, File
    <2>1. CASE \E f \in File : Lose(f) \/ Unlink(f) \/ Unpack(f)
      BY <1>0, <2>1 DEF Lose, Unlink, Unpack, Seen
    <2>2. CASE \E f \in File : Unpacked(f)
      BY <1>0, <2>2 DEF Unpacked, Seen
    <2>3. CASE Status \/ RestoreBegin \/ RestoreCut
      BY <1>0, <2>3 DEF Status, RestoreBegin, RestoreCut, Seen
    <2> QED BY <2>1, <2>2, <2>3 DEF Operator
  <1>3. ASSUME NEW q \in Proc PROVE Looked(q)' /\ Grounded(q)'
    <2>1. CASE Works(q)
      <3>1. live' = live
        BY <2>1, OperatorFar DEF IInv
      <3>2. untold' = "lost" => untold = "lost"
        BY <2>1 DEF Operator, Lose, Unlink, Unpack, Unpacked, Status, RestoreBegin, RestoreCut, Working
      <3> QED BY <1>0, <1>1, <3>1, <3>2 DEF Looked, Grounded, Readable
    <2>2. CASE ~Works(q)
      BY <1>1, <2>2 DEF Looked, Grounded, Works, IInv, TypeInv, Armed
    <2> QED BY <2>1, <2>2
  <1> QED BY <1>2, <1>3

LEMMA HeardStep == IInv /\ IInv' /\ Heard /\ [Next]_vars => Heard'
  <1> SUFFICES ASSUME IInv, IInv', Heard, [Next]_vars, ~overlapped'
               PROVE  Seen' /\ \A q \in Proc : Looked(q)' /\ Grounded(q)'
    BY DEF Heard
  <1>1. CASE Next
    <2>1. ~overlapped /\ ~Crowded'
      BY <1>1 DEF Next, Watch, IInv, Held, TypeInv, TypeOK
    <2>2. ASSUME NEW p \in Proc, Steps(p) \/ Caller(p)
          PROVE  Seen' /\ \A q \in Proc : Looked(q)' /\ Grounded(q)'
      <3>1. Seen' /\ Looked(p)' /\ Grounded(p)' /\ (untold' = "lost" => untold = "lost")
        BY <2>1, <2>2, OwnHeard
      <3>2. ASSUME NEW q \in Proc, q # p PROVE Looked(q)' /\ Grounded(q)'
        <4>1. stage'[q] = stage[q] /\ step'[q] = step[q] /\ want'[q] = want[q] /\ cmd'[q] = cmd[q]
          BY <2>2, <3>2, StepIsOwn DEF IInv
        <4>2. Looked(q) /\ Grounded(q)
          BY <2>1 DEF Heard
        <4>3. CASE Works(q)
          <5>1. ~Works(p)'
            BY <2>1, <3>2, <4>1, <4>3 DEF Crowded, Works
          <5>2. live' = live
            BY <2>1, <2>2, <3>2, <4>3, <5>1, OthersStep DEF IInv, Held
          <5> QED BY <3>1, <4>1, <4>2, <5>2 DEF Looked, Grounded, Readable
        <4>4. CASE ~Works(q)
          BY <4>1, <4>4 DEF Looked, Grounded, Works, IInv, TypeInv, Armed
        <4> QED BY <4>3, <4>4
      <3> QED BY <3>1, <3>2
    <2>3. CASE Operator
      BY <2>1, <2>3, OperatorHeard
    <2> QED BY <1>1, <2>2, <2>3 DEF Next, Step
  <1>2. CASE UNCHANGED vars
    BY <1>2 DEF vars, calls, plans, ghosts, Heard, Seen, Looked, Grounded, Readable
  <1> QED BY <1>1, <1>2

(* No command says OK over a state.json that was lost, and that neither it  *)
(* nor another has said is gone; but for those that make the file anew      *)
(* before anything can tell, which the history knows as hidden              *)
(* (cli.py:180-199, state.py:70-84).                                        *)
THEOREM LossesAreTold == Spec => []LossIsTold
  <1>1. Heard => LossIsTold
    BY DEF Heard, Looked, LossIsTold
  <1> QED BY Initially, Inductive, HeardInit, HeardStep, <1>1, PTL DEF Spec

-----------------------------------------------------------------------------
(* The register. *)

\* Only the one that works can have carried anything out.
LEMMA Carriers ==
    ASSUME IInv, ~overlapped, NEW p \in Proc, Works(p)
    PROVE  /\ UNION {carried[q] : q \in Proc} = carried[p]
           /\ Steps(p) \/ Caller(p) => UNION {carried[q] : q \in Proc}' = carried'[p]
  <1>1. \A q \in Proc : q # p => carried[q] = {}
    BY Alone DEF IInv, Held, TypeInv, Armed
  <1>2. Steps(p) \/ Caller(p) => \A q \in Proc : q # p => carried'[q] = {}
    BY <1>1, StepIsOwn DEF IInv
  <1> QED BY <1>1, <1>2

\* What a step other than a rename makes of it.
LEMMA Carrying ==
    ASSUME IInv, ~overlapped, NEW p \in Proc, Steps(p) \/ Caller(p), ~Swap(p)
    PROVE  \/ UNION {carried[q] : q \in Proc}' \in {UNION {carried[q] : q \in Proc}, {}}
           \/ \E withdrawn \in Content :
                 /\ Reconcile(p, withdrawn)
                 /\ UNION {carried[q] : q \in Proc}' = withdrawn \cap Names("state")
  <1>1. \/ carried' = carried
        \/ carried' = [carried EXCEPT ![p] = {}]
        \/ \E withdrawn \in Content :
              /\ Reconcile(p, withdrawn)
              /\ carried' = [carried EXCEPT ![p] = withdrawn \cap Names("state")]
    BY DEF Steps, Caller, Trust, Take, EditAdd, EditRecord, EditProtocol, Rollback, Look, Resave,
           NoReconcile, Reconcile, Decides, Write, End, Fail, Start, Flock, GiveUp, Kill, Goes, Leave,
           plans
  <1>2. carried \in [Proc -> Content]
    BY DEF IInv, TypeInv, TypeOK
  <1>3. CASE carried' = carried
    BY <1>3
  <1>4. CASE carried' = [carried EXCEPT ![p] = {}]
    <2>1. CASE Works(p)
      BY <1>2, <1>4, <2>1, Carriers
    <2>2. CASE ~Works(p)
      <3>1. carried[p] = {}
        BY <2>2 DEF IInv, TypeInv, Armed
      <3> QED BY <1>2, <1>4, <3>1
    <2> QED BY <2>1, <2>2
  <1>5. ASSUME NEW withdrawn \in Content, Reconcile(p, withdrawn),
               carried' = [carried EXCEPT ![p] = withdrawn \cap Names("state")]
        PROVE  UNION {carried[q] : q \in Proc}' = withdrawn \cap Names("state")
    <2>1. Works(p)
      BY <1>5 DEF Reconcile, Reads, Works
    <2> QED BY <1>2, <1>5, <2>1, Carriers
  <1> QED BY <1>1, <1>3, <1>4, <1>5

\* A rename is one operation of the register, for the command that renames.
LEMMA SwapRegisters ==
    ASSUME IInv, ~overlapped, NEW p \in Proc, Swap(p)
    PROVE  Register!Next \/ UNCHANGED Register!vars
  <1> USE DEF IInv
  <1>1. PICK f \in File : f = Saving(p)
    BY SavingSomething DEF Swap
  <1>2. /\ want[p][f] \in Content /\ want[p][f] # Keep
        /\ Names(f)' = want[p][f]
        /\ \A g \in File : g # f => Names(g)' = Names(g)
        /\ cmd' = cmd
    BY <1>1, SwapPublishes
  <1>3. PlannedUsers(p) /\ PlannedState(p) /\ Works(p)
    BY DEF Undisturbed, Plan, Swap, TypeInv, Armed
  <1>4. Working' = Working
    <2>1. stage' = stage \/ stage' = [stage EXCEPT ![p] = Following(p)]
      BY DEF Swap
    <2>2. stage \in [Proc -> Stages]
      BY DEF TypeInv, TypeOK
    <2>3. \A q \in Proc : Works(q)' <=> Works(q)
      BY <1>3, <2>1, <2>2, FollowingIsStage DEF Works
    <2> QED BY <2>3 DEF Working
  <1>5. {cmd[q] : q \in Working}' = {cmd[q] : q \in Working} /\ cmd[p] \in {cmd[q] : q \in Working}
    BY <1>2, <1>3, <1>4 DEF Working
  <1> DEFINE C == UNION {carried[q] : q \in Proc}
  <1>0. C = carried[p] /\ C' = {}
    <2>1. carried'[p] = {}
      BY DEF Swap, TypeInv, TypeOK
    <2> QED BY <1>3, <2>1, Carriers DEF Steps
  <1>6. CASE f = "state"
    <2>1. Names("state")' = want[p]["state"] /\ Names("users")' = Names("users")
      BY <1>2, <1>6 DEF File
    <2>2. CASE stage[p] = "edit" /\ Withdraws(p) /\ cmd[p].name \notin Names("state")
               /\ want[p]["state"] = Names("state") \cup {cmd[p].name}
      <3>1. Register!Queue(cmd[p])
        BY <1>0, <1>5, <2>1, <2>2 DEF Register!Queue, Withdraws
      <3>2. cmd[p] \in {cmd[q] : q \in Working}
        BY <1>5
      <3>3. \E r \in {cmd[q] : q \in Working} : Register!Queue(r)
        BY <3>1, <3>2 DEF Register!Queue
      <3> QED BY <3>3 DEF Register!Next
    <2>3. CASE /\ want[p]["state"] \in SUBSET Names("state")
               /\ Names("state") \ want[p]["state"] \subseteq carried[p]
      <3>1. Register!Drain
        BY <1>0, <1>5, <2>1, <2>3 DEF Register!Drain
      <3> QED BY <3>1 DEF Register!Next
    <2> QED BY <1>2, <1>3, <1>6, <2>2, <2>3 DEF PlannedState
  <1>7. CASE f = "users"
    <2>1. Names("users")' = want[p]["users"] /\ Names("state")' = Names("state")
      BY <1>2, <1>7 DEF File
    <2>2. CASE stage[p] = "edit" /\ cmd[p].op = "add"
      <3>1. Register!Add(cmd[p])
        BY <1>0, <1>3, <1>5, <2>1, <2>2 DEF Register!Add, PlannedUsers
      <3>2. cmd[p] \in {cmd[q] : q \in Working}
        BY <1>5
      <3>3. \E r \in {cmd[q] : q \in Working} : Register!Add(r)
        BY <3>1, <3>2 DEF Register!Add
      <3> QED BY <3>3 DEF Register!Next
    <2>3. CASE stage[p] = "edit" /\ cmd[p].op = "rm"
      <3>1. cmd[p].cert => cmd[p].name \in Names("state")
        <4>1. want[p]["state"] = Keep
          BY <1>1, <1>7 DEF Saving
        <4>2. cmd[p].name \in Name
          BY <2>3 DEF TypeInv, Armed, Command
        <4>3. Names("state") \in Content /\ Names("state") \cup {cmd[p].name} \in Content
          BY <4>2, NamesAreNames DEF TypeInv, Content, File
        <4> QED BY <1>3, <2>3, <4>1, <4>3, ConstantsAssumption DEF PlannedState, Withdraws
      <3>2. Register!Remove(cmd[p])
        BY <1>0, <1>3, <1>5, <2>1, <2>3, <3>1 DEF Register!Remove, PlannedUsers
      <3>3. cmd[p] \in {cmd[q] : q \in Working}
        BY <1>5
      <3>4. \E r \in {cmd[q] : q \in Working} : Register!Remove(r)
        BY <3>2, <3>3 DEF Register!Remove
      <3> QED BY <3>4 DEF Register!Next
    <2>4. CASE want[p]["users"] = Names("users")
      <3>1. Register!Drain
        BY <1>0, <1>5, <2>1, <2>4 DEF Register!Drain
      <3> QED BY <3>1 DEF Register!Next
    <2> QED BY <1>2, <1>3, <1>7, <2>2, <2>3, <2>4 DEF PlannedUsers
  <1> QED BY <1>1, <1>6, <1>7 DEF File

(* Every change a command makes to the two files is one operation of the    *)
(* register, asked for by a command under way, as long as two have not been *)
(* at the files: no save brings back what another has changed.              *)
THEOREM Implements == Spec => ImplementsRegistry
  <1>1. Init => Register!Init
    <2> SUFFICES ASSUME Init PROVE Register!Init
      OBVIOUS
    <2>1. Names("users") \in SUBSET Name /\ Names("state") \in SUBSET Name
      BY TypeInit, NamesAreNames DEF TypeInv, Content, File
    <2>2. {cmd[p] : p \in Working} = {}
      BY DEF Init, Working, Works
    <2>3. UNION {carried[p] : p \in Proc} = {}
      BY DEF Init
    <2> QED BY <2>1, <2>2, <2>3 DEF Register!Init
  <1> DEFINE Allowed == overlapped' \/ Working = {} \/ Register!Next
  <1>2. IInv /\ IInv' /\ [Next]_vars => [Allowed]_(Register!vars)
    <2> SUFFICES ASSUME IInv, IInv', [Next]_vars, ~overlapped', Working # {}
                 PROVE  Register!Next \/ UNCHANGED Register!vars
      OBVIOUS
    <2>1. CASE Next
      <3>1. ~overlapped
        BY <2>1 DEF Next, Watch
      <3>2. ASSUME NEW p \in Proc, Steps(p) \/ Caller(p)
            PROVE  Register!Next \/ UNCHANGED Register!vars
        <4>1. CASE Swap(p)
          BY <3>1, <4>1, SwapRegisters
        <4>2. CASE ~Swap(p)
          <5>1. Names("users")' = Names("users") /\ Names("state")' = Names("state")
            BY <3>2, <4>2, OnlySwapChanges DEF Names
          <5>2. {cmd[q] : q \in Working}' \in SUBSET Command
            BY DEF IInv, TypeInv, Armed, Working, Works
          <5>3. CASE UNION {carried[q] : q \in Proc}' \in {UNION {carried[q] : q \in Proc}, {}}
            <6>1. Register!Ask
              BY <5>1, <5>2, <5>3 DEF Register!Ask
            <6> QED BY <6>1 DEF Register!Next
          <5>4. ASSUME NEW withdrawn \in Content, Reconcile(p, withdrawn),
                       UNION {carried[q] : q \in Proc}' = withdrawn \cap Names("state")
                PROVE  Register!Next
            <6>1. stage' = stage /\ cmd' = cmd
              BY <5>4 DEF Reconcile, Decides, calls
            <6>2. {cmd[q] : q \in Working}' = {cmd[q] : q \in Working} /\ Working # {}
              BY <6>1 DEF Working, Works
            <6>3. Register!Carry
              BY <5>1, <5>4, <6>2 DEF Register!Carry
            <6> QED BY <6>3 DEF Register!Next
          <5> QED BY <3>1, <3>2, <4>2, <5>3, <5>4, Carrying
        <4> QED BY <4>1, <4>2
      <3>3. ASSUME Operator
            PROVE  UNCHANGED Register!vars
        <4>1. UNCHANGED <<stage, cmd, carried>>
          BY <3>3 DEF Operator, Lose, Unlink, Unpack, Unpacked, Status, RestoreBegin, RestoreCut, calls, plans
        <4>2. live' = live
          BY <3>1, <3>3, OperatorFar DEF IInv, Working
        <4> QED BY <4>1, <4>2 DEF Register!vars, Names, Working, Works
      <3> QED BY <2>1, <3>2, <3>3 DEF Next, Step
    <2>2. CASE UNCHANGED vars
      BY <2>2 DEF vars, calls, plans, Register!vars, Names, Working, Works
    <2> QED BY <2>1, <2>2
  <1> QED BY Invariant, <1>1, <1>2, PTL DEF Spec, ImplementsRegistry
=============================================================================
