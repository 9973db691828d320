---------------------------- MODULE Ikev2Proofs ----------------------------
(***************************************************************************)
(* Proofs about Ikev2, for any set of names.                               *)
(***************************************************************************)
EXTENDS Ikev2, TLAPS

\* The database entry of one name changes: what happens to the set of working
\* certificates and to their history.
LEMMA EntryChanges ==
    ASSUME TypeOK, NEW n \in Name, NEW s \in {"none", "valid", "revoked"}, Entry(n, s)
    PROVE  /\ cert' \in [Name -> {"none", "valid", "revoked"}]
           /\ Valid' = IF s = "valid" THEN Valid \cup {n} ELSE Valid \ {n}
           /\ former' = former \ {n} /\ torn' = torn \ {n}
           /\ former' \subseteq Valid' /\ torn' \subseteq Valid'
           /\ s # "revoked" => Revoked' = Revoked \ {n}
           /\ s = "revoked" => Revoked' = Revoked \cup {n}
BY DEF Entry, TypeOK, Valid, Revoked

\* What a belief that is not mistaken says of the entry.
LEMMA NotMistaken ==
    ASSUME TypeOK, NEW n \in Name, ~Mistaken(n)
    PROVE  /\ n \in valid <=> n \in Valid
           /\ n \notin valid => (n \in reserved <=> n \in Revoked)
BY DEF Mistaken, TypeOK, Valid, Revoked

\* A grant withdrawn under an exec that is on its way.
LEMMA LateChanges ==
    ASSUME TypeOK, Withdrawn
    PROVE  /\ late' \subseteq Exec
           /\ (late = {}) => (late' = {})
           /\ former' = former \cup (target \cap Valid)
           /\ (\A e \in late : e.does = "add" /\ ~e.old => e.name \in Wanted)
                 => \A e \in late' : e.does = "add" /\ ~e.old => e.name \in Wanted \ target
BY DEF Withdrawn, TypeOK, Exec

\* An exec that lands, by what it finds.
LEMMA Lands ==
    ASSUME TypeOK, Land
    PROVE  /\ late' = {} /\ landed'
           /\ \E e \in late :
                \/ UNCHANGED <<cert, former, torn>>
                \/ Entry(e.name, "revoked") /\ e.name \in Valid
                \/ Entry(e.name, "none") /\ cert[e.name] # "none"
                \/ /\ e.does = "add" /\ cert[e.name] = "none"
                   /\ cert' = [cert EXCEPT ![e.name] = "valid"]
                   /\ former' = IF e.old THEN former \cup {e.name} ELSE former
                   /\ torn' = torn \cup {e.name}
           /\ UNCHANGED <<files, up, pc, target, belief, said>>
BY DEF Land, TypeOK, Exec

\* A command that dies over an exec.
LEMMA CutsOff ==
    ASSUME NEW n \in Name, NEW does \in {"revoke", "delete", "add"}, CutOff(n, does)
    PROVE  /\ late' \subseteq Exec
           /\ \A e \in late' : e.name = n /\ e.does = does
           /\ pc' = "idle" /\ target' = {}
           /\ valid' = {} /\ reserved' = {} /\ left' = {}
           /\ revokeFailed' = {} /\ addFailed' = {}
           /\ UNCHANGED <<files, landed, up, said>>
BY DEF CutOff, Over, Exec

LEMMA CutOffs ==
    ASSUME TypeOK, NEW n \in Name
    PROVE  /\ WithdrawCutOff(n) =>
                /\ pc = "withdraw"
                /\ CutOff(n, "revoke") \/ CutOff(n, "delete")
                /\ Entry(n, "revoked") \/ UNCHANGED <<cert, former, torn>>
           /\ IssueCutOff(n) =>
                /\ pc = "issue" /\ n \in left
                /\ CutOff(n, "delete") \/ CutOff(n, "add")
                /\ torn' = Unwritten /\ UNCHANGED former
                /\ UNCHANGED cert \/ (~Mistaken(n) /\ cert' = [cert EXCEPT ![n] = "none"])
BY DEF WithdrawCutOff, IssueCutOff

\* What an exec that failed leaves.
LEMMA WithdrawFailures ==
    ASSUME NEW n \in Name, WithdrawFails(n)
    PROVE  /\ pc = "withdraw" /\ n \in left
           /\ UNCHANGED container \/ SetEntry(n, "revoked") \/ SetEntry(n, "none")
           /\ left' = left \ {n} /\ revokeFailed' = revokeFailed \cup {n}
           /\ UNCHANGED <<files, up, pc, target, valid, reserved, addFailed, said>>
BY DEF WithdrawFails

\* A certificate was issued, and the add that did it failed.
Unrecorded(n) ==
    /\ cert' = [cert EXCEPT ![n] = "valid"]
    /\ torn' = torn \cup {n}
    /\ UNCHANGED <<former, late, landed>>

LEMMA IssueFailures ==
    ASSUME NEW n \in Name, IssueFails(n)
    PROVE  /\ pc = "issue" /\ n \in left
           /\ \/ UNCHANGED container
              \/ ~Mistaken(n) /\ SetEntry(n, "none")
              \/ ~Mistaken(n) /\ Unrecorded(n)
           /\ reserved' \in {reserved, reserved \ {n}}
           /\ left' = left \ {n} /\ addFailed' = addFailed \cup {n}
           /\ UNCHANGED <<files, up, pc, target, valid, revokeFailed, said>>
BY DEF IssueFails, Unrecorded

LEMMA UnrecordedChanges ==
    ASSUME TypeOK, NEW n \in Name, Unrecorded(n)
    PROVE  /\ cert' \in [Name -> {"none", "valid", "revoked"}]
           /\ Valid' = Valid \cup {n}
BY DEF TypeOK, Unrecorded, Valid

\* A name freed for the add that is cut off.
LEMMA Freed ==
    ASSUME TypeOK, NEW n \in Name, n \notin Valid, cert' = [cert EXCEPT ![n] = "none"]
    PROVE  /\ cert' \in [Name -> {"none", "valid", "revoked"}]
           /\ Valid' = Valid
BY DEF TypeOK, Valid

\* The files' records as sets of names.
LEMMA RecordChanges ==
    ASSUME TypeOK, NEW n \in Name, user' = [user EXCEPT ![n] = "on"]
    PROVE  /\ user' \in [Name -> {"none", "on", "off"}]
           /\ Wanted' = Wanted \cup {n}
           /\ Recorded' = Recorded \cup {n}
BY DEF TypeOK, Wanted, Recorded

LEMMA TargetChanges ==
    ASSUME TypeOK, NEW s \in {"none", "off"},
           user' = [n \in Name |-> IF n \in target THEN s ELSE user[n]]
    PROVE  /\ user' \in [Name -> {"none", "on", "off"}]
           /\ Wanted' = Wanted \ target
           /\ s = "none" => Recorded' = Recorded \ target
           /\ s = "off" => Recorded' = Recorded \cup target
BY DEF TypeOK, Wanted, Recorded

\* What a step that leaves a file or the container alone leaves of the sets.
LEMMA Same ==
    /\ UNCHANGED user => Wanted' = Wanted /\ Recorded' = Recorded
    /\ UNCHANGED cert => Valid' = Valid /\ Revoked' = Revoked
BY DEF Wanted, Recorded, Valid, Revoked

LEMMA InitType == Init => TypeOK
BY DEF Init, TypeOK, Recorded, Valid

LEMMA NextType == TypeOK /\ Kept /\ [Next]_vars => TypeOK'
<1> SUFFICES ASSUME TypeOK, Kept, [Next]_vars PROVE TypeOK'
  OBVIOUS
<1> USE Same DEF TypeOK, files, container, belief, SetEntry, Over
<1>1. ASSUME NEW n \in Name, UserAdd(n) \/ UserEnable(n) PROVE TypeOK'
  BY <1>1, RecordChanges DEF UserAdd, UserEnable
<1>2. ASSUME NEW n \in Name, Queue(n, "remove") \/ Queue(n, "disable") PROVE TypeOK'
  BY <1>2 DEF Queue
<1>3. CASE UserRm
  BY <1>3, TargetChanges, LateChanges DEF UserRm
<1>4. CASE UserDisable
  BY <1>4, TargetChanges, LateChanges DEF UserDisable
<1>5. CASE StartReconcile
  BY <1>5 DEF StartReconcile
<1>6. CASE GiveUp
  BY <1>6 DEF GiveUp, Unwritten
<1>7. CASE List
  <2>1. Valid \subseteq Name /\ Revoked \subseteq Name
    BY DEF Valid, Revoked
  <2> QED
    BY <1>7, <2>1 DEF List
<1>8. ASSUME NEW n \in Name, Withdraw(n) PROVE TypeOK'
  <2>1. UNCHANGED container \/ SetEntry(n, "none")
    BY <1>8 DEF Withdraw
  <2> QED
    BY <1>8, <2>1, EntryChanges DEF Withdraw
<1>9. ASSUME NEW n \in Name, WithdrawFails(n) PROVE TypeOK'
  BY <1>9, WithdrawFailures, EntryChanges
<1>10. CASE StartIssue
  <2>1. Wanted \subseteq Name
    BY DEF Wanted
  <2> QED
    BY <1>10, <2>1 DEF StartIssue
<1>11. ASSUME NEW n \in Name, Issue(n) PROVE TypeOK'
  BY <1>11, EntryChanges DEF Issue
<1>12. ASSUME NEW n \in Name, IssueFails(n) PROVE TypeOK'
  <2>1. /\ left' \subseteq Name /\ addFailed' \subseteq Name /\ reserved' \subseteq Name
        /\ UNCHANGED <<files, up, pc, target, valid, revokeFailed, said>>
    BY <1>12, IssueFailures
  <2>2. CASE UNCHANGED container
    BY <2>1, <2>2
  <2>3. CASE SetEntry(n, "none")
    BY <2>1, <2>3, EntryChanges
  <2>4. CASE Unrecorded(n)
    BY <2>1, <2>4, UnrecordedChanges DEF Unrecorded
  <2> QED
    BY <1>12, <2>2, <2>3, <2>4, IssueFailures
<1>13. CASE SaveQueue
  BY <1>13 DEF SaveQueue
<1>14. CASE SaveFlags
  BY <1>14 DEF SaveFlags
<1>15. CASE StartContainer \/ StopContainer
  BY <1>15 DEF StartContainer, StopContainer
<1>16. CASE LoseVolume
  BY <1>16 DEF LoseVolume
<1>17. ASSUME NEW n \in Name, WithdrawCutOff(n) PROVE TypeOK'
  <2>1. CutOff(n, "revoke") \/ CutOff(n, "delete")
    BY <1>17, CutOffs
  <2>2. late' \subseteq Exec /\ UNCHANGED <<files, landed, up, said>>
    BY <2>1, CutsOff
  <2>3. /\ pc' = "idle" /\ target' = {}
        /\ valid' = {} /\ reserved' = {} /\ left' = {}
        /\ revokeFailed' = {} /\ addFailed' = {}
    BY <2>1, CutsOff
  <2>4. CASE Entry(n, "revoked")
    BY <2>2, <2>3, <2>4, EntryChanges
  <2>5. CASE UNCHANGED <<cert, former, torn>>
    BY <2>2, <2>3, <2>5
  <2> QED
    BY <1>17, <2>4, <2>5, CutOffs
<1>18. ASSUME NEW n \in Name, IssueCutOff(n) PROVE TypeOK'
  <2>1. CutOff(n, "delete") \/ CutOff(n, "add")
    BY <1>18, CutOffs
  <2>2. late' \subseteq Exec /\ UNCHANGED <<files, landed, up, said>>
    BY <2>1, CutsOff
  <2>3. /\ pc' = "idle" /\ target' = {}
        /\ valid' = {} /\ reserved' = {} /\ left' = {}
        /\ revokeFailed' = {} /\ addFailed' = {}
    BY <2>1, CutsOff
  <2>4. cert' \in [Name -> {"none", "valid", "revoked"}] /\ Valid' = Valid
    <3>1. n \notin valid
      BY <1>18 DEF IssueCutOff, Kept
    <3>2. CASE ~Mistaken(n) /\ cert' = [cert EXCEPT ![n] = "none"]
      BY <3>1, <3>2, NotMistaken, Freed
    <3> QED
      BY <1>18, <3>2, CutOffs
  <2>5. torn' \subseteq Valid /\ UNCHANGED former
    BY <1>18, CutOffs DEF Unwritten
  <2> QED
    BY <2>2, <2>3, <2>4, <2>5
<1>19. CASE Land
  <2> PICK e \in late :
         \/ UNCHANGED <<cert, former, torn>>
         \/ Entry(e.name, "revoked")
         \/ Entry(e.name, "none")
         \/ /\ cert' = [cert EXCEPT ![e.name] = "valid"]
            /\ former' = IF e.old THEN former \cup {e.name} ELSE former
            /\ torn' = torn \cup {e.name}
    BY <1>19, Lands
  <2>1. e.name \in Name
    BY DEF Exec
  <2>2. late' = {} /\ landed' \in BOOLEAN
        /\ UNCHANGED <<files, up, pc, target, belief, said>>
    BY <1>19 DEF Land
  <2>3. CASE UNCHANGED <<cert, former, torn>>
    BY <2>2, <2>3
  <2>4. CASE Entry(e.name, "revoked") \/ Entry(e.name, "none")
    BY <2>1, <2>2, <2>4, EntryChanges
  <2>5. CASE /\ cert' = [cert EXCEPT ![e.name] = "valid"]
             /\ former' = IF e.old THEN former \cup {e.name} ELSE former
             /\ torn' = torn \cup {e.name}
    <3>1. Valid' = Valid \cup {e.name}
      BY <2>1, <2>5 DEF Valid
    <3> QED
      BY <2>1, <2>2, <2>5, <3>1
  <2> QED
    BY <2>3, <2>4, <2>5
<1>20. CASE UNCHANGED vars
  BY <1>20 DEF vars
<1> QED
  BY <1>1, <1>2, <1>3, <1>4, <1>5, <1>6, <1>7, <1>8, <1>9, <1>10, <1>11, <1>12, <1>13, <1>14,
     <1>15, <1>16, <1>17, <1>18, <1>19, <1>20 DEF Next, Reconcile, Commands, Faults

-----------------------------------------------------------------------------
\* Every certificate of a withdrawn grant is accounted for at every step.
LEMMA InitKept == Init => Kept
BY DEF Init, Kept, Valid, Inside, Outside

LEMMA NextKept == TypeOK /\ Kept /\ [Next]_vars => Kept'
<1> SUFFICES ASSUME TypeOK, Kept, [Next]_vars PROVE Kept'
  OBVIOUS
<1> USE Same DEF Kept, Inside, Outside, files, container, belief, SetEntry, Over
<1>a. provisioned \subseteq Recorded /\ former \subseteq Valid /\ torn \subseteq Valid
      /\ Wanted \subseteq Recorded /\ Valid \cap Revoked = {}
  BY DEF TypeOK, Wanted, Recorded, Valid, Revoked
<1>1. ASSUME NEW n \in Name, UserAdd(n) \/ UserEnable(n) PROVE Kept'
  BY <1>1, <1>a, RecordChanges DEF UserAdd, UserEnable
<1>2. ASSUME NEW n \in Name, Queue(n, "remove") \/ Queue(n, "disable") PROVE Kept'
  BY <1>2 DEF Queue
<1>3. CASE UserRm
  BY <1>3, <1>a, TargetChanges, LateChanges DEF UserRm
<1>4. CASE UserDisable
  BY <1>4, <1>a, TargetChanges, LateChanges DEF UserDisable
<1>5. CASE StartReconcile
  BY <1>5 DEF StartReconcile
<1>6. CASE GiveUp
  BY <1>6 DEF GiveUp, Unwritten, TypeOK
<1>7. CASE List
  BY <1>7, <1>a DEF List
<1>8. ASSUME NEW n \in Name, Withdraw(n) PROVE Kept'
  <2>1. CASE n \in valid \cup reserved
    BY <1>8, <1>a, <2>1, EntryChanges DEF Withdraw
  <2>2. CASE n \notin valid \cup reserved
    BY <1>8, <1>a, <2>2 DEF Withdraw
  <2> QED
    BY <2>1, <2>2
<1>9. ASSUME NEW n \in Name, WithdrawFails(n) PROVE Kept'
  <2>1. CASE UNCHANGED container
    BY <1>9, <2>1 DEF WithdrawFails
  <2>2. CASE SetEntry(n, "revoked") \/ SetEntry(n, "none")
    BY <1>9, <2>2, WithdrawFailures, EntryChanges
  <2> QED
    BY <1>9, <2>1, <2>2, WithdrawFailures
<1>10. CASE StartIssue
  BY <1>10 DEF StartIssue
<1>11. ASSUME NEW n \in Name, Issue(n) PROVE Kept'
  BY <1>11, EntryChanges DEF Issue
<1>12. ASSUME NEW n \in Name, IssueFails(n) PROVE Kept'
  <2>1. /\ pc = "issue" /\ n \in left /\ left' = left \ {n}
        /\ UNCHANGED <<files, up, pc, target, valid, revokeFailed, said>>
    BY <1>12, IssueFailures
  <2>2. CASE UNCHANGED container
    BY <2>1, <2>2
  <2>3. CASE SetEntry(n, "none")
    BY <2>1, <2>3, EntryChanges
  <2>4. CASE ~Mistaken(n) /\ Unrecorded(n)
    <3>1. Valid' = Valid \cup {n}
      BY <2>4, UnrecordedChanges
    <3>2. n \in Wanted
      BY <2>1
    <3> QED
      BY <2>1, <2>4, <3>1, <3>2 DEF Unrecorded
  <2> QED
    BY <1>12, <2>2, <2>3, <2>4, IssueFailures
<1>13. CASE SaveQueue
  BY <1>13 DEF SaveQueue
<1>14. CASE SaveFlags
  BY <1>14, <1>a DEF SaveFlags
<1>15. CASE StartContainer \/ StopContainer
  BY <1>15, <1>a DEF StartContainer, StopContainer, Revoked
<1>16. CASE LoseVolume
  <2>1. Valid' = {}
    BY <1>16 DEF LoseVolume, Valid
  <2> QED
    BY <1>16, <2>1 DEF LoseVolume
<1>17. ASSUME NEW n \in Name, WithdrawCutOff(n) PROVE Kept'
  <2>1. CutOff(n, "revoke") \/ CutOff(n, "delete")
    BY <1>17, CutOffs
  <2>2. /\ pc = "withdraw" /\ pc' = "idle"
        /\ UNCHANGED <<files, landed, up, said>>
        /\ \A e \in late' : e.does # "add"
    BY <1>17, <2>1, CutOffs, CutsOff
  <2>3. CASE Entry(n, "revoked")
    BY <2>2, <2>3, EntryChanges
  <2>4. CASE UNCHANGED <<cert, former, torn>>
    BY <2>2, <2>4
  <2> QED
    BY <1>17, <2>3, <2>4, CutOffs
<1>18. ASSUME NEW n \in Name, IssueCutOff(n) PROVE Kept'
  <2>1. CutOff(n, "delete") \/ CutOff(n, "add")
    BY <1>18, CutOffs
  <2>2. /\ pc = "issue" /\ n \in left /\ pc' = "idle"
        /\ torn' = torn \cup (Valid \ provisioned) /\ UNCHANGED <<files, former, landed, up, said>>
        /\ \A e \in late' : e.name = n
    BY <1>18, <2>1, CutOffs, CutsOff DEF Unwritten
  <2>3. Valid' = Valid
    <3>1. n \notin valid
      BY <2>2
    <3>2. CASE ~Mistaken(n) /\ cert' = [cert EXCEPT ![n] = "none"]
      BY <3>1, <3>2, NotMistaken, Freed
    <3> QED
      BY <1>18, <3>2, CutOffs
  <2>4. n \in Wanted
    BY <2>2
  <2> QED
    BY <1>a, <2>2, <2>3, <2>4
<1>19. CASE Land
  <2>1. late' = {} /\ UNCHANGED <<files, pc, target, belief>>
    BY <1>19, Lands
  <2> PICK e \in late :
         \/ UNCHANGED <<cert, former, torn>>
         \/ Entry(e.name, "revoked") /\ e.name \in Valid
         \/ Entry(e.name, "none") /\ cert[e.name] # "none"
         \/ /\ e.does = "add" /\ cert[e.name] = "none"
            /\ cert' = [cert EXCEPT ![e.name] = "valid"]
            /\ former' = IF e.old THEN former \cup {e.name} ELSE former
            /\ torn' = torn \cup {e.name}
    BY <1>19, Lands
  <2>2. e.name \in Name
    BY DEF TypeOK, Exec
  <2>3. CASE UNCHANGED <<cert, former, torn>>
    BY <2>1, <2>3
  <2>4. CASE Entry(e.name, "revoked") \/ Entry(e.name, "none")
    BY <2>1, <2>2, <2>4, EntryChanges
  <2>5. CASE /\ e.does = "add" /\ cert[e.name] = "none"
             /\ cert' = [cert EXCEPT ![e.name] = "valid"]
             /\ former' = IF e.old THEN former \cup {e.name} ELSE former
             /\ torn' = torn \cup {e.name}
    <3>1. Valid' = Valid \cup {e.name} /\ e.name \notin Revoked
      BY <2>2, <2>5 DEF Valid, Revoked, TypeOK
    <3>2. ~e.old => e.name \in Wanted
      BY <2>5
    <3> QED
      BY <2>1, <2>5, <3>1, <3>2
  <2> QED
    BY <2>3, <2>4, <2>5
<1>20. CASE UNCHANGED vars
  BY <1>20 DEF vars, Revoked
<1> QED
  BY <1>1, <1>2, <1>3, <1>4, <1>5, <1>6, <1>7, <1>8, <1>9, <1>10, <1>11, <1>12, <1>13, <1>14,
     <1>15, <1>16, <1>17, <1>18, <1>19, <1>20 DEF Next, Reconcile, Commands, Faults

\* The variables of Ikev2 keep their types; a flag has a record, and the history
\* is about working certificates.
THEOREM Typing == Spec => []TypeOK
BY InitType, NextType, InitKept, NextKept, PTL DEF Spec

\* reconcile_ikev2 and the user commands: a working certificate of a withdrawn
\* grant is queued for revocation, unless its issue was never written down.
THEOREM FormerQueued == Spec => []FormerIsQueued
<1>1. Kept => FormerIsQueued
  BY DEF Kept, FormerIsQueued, Outside
<1> QED
  BY <1>1, InitType, NextType, InitKept, NextKept, PTL DEF Spec
-----------------------------------------------------------------------------
\* As long as nothing has failed, reconcile's belief is the container's truth.
LEMMA InitExact == Init => Exact
BY DEF Init, Exact, Inside, CleanMeansExact

LEMMA NextExact == TypeOK /\ Kept /\ Exact /\ [Next]_vars => Exact'
<1> SUFFICES ASSUME TypeOK, Kept, Exact, [Next]_vars PROVE Exact'
  OBVIOUS
<1> USE Same DEF Exact, Inside, CleanMeansExact, files, container, belief, SetEntry, Over
<1>1. ASSUME NEW n \in Name, UserAdd(n) \/ UserEnable(n) PROVE Exact'
  BY <1>1 DEF UserAdd, UserEnable
<1>2. ASSUME NEW n \in Name, Queue(n, "remove") \/ Queue(n, "disable") PROVE Exact'
  BY <1>2 DEF Queue
<1>3. CASE UserRm \/ UserDisable \/ StartReconcile
  BY <1>3 DEF UserRm, UserDisable, StartReconcile
<1>4. CASE GiveUp
  BY <1>4 DEF GiveUp
<1>5. CASE List
  BY <1>5 DEF List
<1>6. ASSUME NEW n \in Name, Withdraw(n) PROVE Exact'
  <2>1. CASE n \in valid \cup reserved
    BY <1>6, <2>1, EntryChanges DEF Withdraw
  <2>2. CASE n \notin valid \cup reserved
    BY <1>6, <2>2 DEF Withdraw
  <2> QED
    BY <2>1, <2>2
<1>7. ASSUME NEW n \in Name, WithdrawFails(n) PROVE Exact'
  BY <1>7, WithdrawFailures
<1>8. CASE StartIssue
  BY <1>8 DEF StartIssue
<1>9. ASSUME NEW n \in Name, Issue(n) PROVE Exact'
  BY <1>9, EntryChanges DEF Issue, Kept
<1>10. ASSUME NEW n \in Name, IssueFails(n) PROVE Exact'
  BY <1>10, IssueFailures
<1>11. CASE SaveQueue
  BY <1>11 DEF SaveQueue
<1>12. CASE SaveFlags
  <2>1. revokeFailed = {} /\ addFailed = {} => Valid = Wanted /\ valid = Wanted /\ pending = {}
    BY <1>12 DEF SaveFlags
  <2>2. Wanted \subseteq Recorded
    BY DEF Wanted, Recorded
  <2>3. revokeFailed = {} /\ addFailed = {} => provisioned' = Wanted /\ former \subseteq torn'
    BY <1>12, <2>1, <2>2 DEF SaveFlags, Kept, Outside
  <2> QED
    BY <1>12, <2>1, <2>3 DEF SaveFlags
<1>13. CASE StartContainer \/ StopContainer
  BY <1>13 DEF StartContainer, StopContainer
<1>14. CASE LoseVolume
  BY <1>14 DEF LoseVolume
<1>15. ASSUME NEW n \in Name, WithdrawCutOff(n) \/ IssueCutOff(n) PROVE Exact'
  <2>1. pc # "idle" /\ \E does \in {"revoke", "delete", "add"} : CutOff(n, does)
    BY <1>15, CutOffs
  <2>2. pc' = "idle" /\ UNCHANGED said
    BY <2>1, CutsOff
  <2> QED
    BY <2>1, <2>2
<1>16. CASE Land
  <2>1. landed' /\ UNCHANGED <<files, pc, belief, said>>
    BY <1>16, Lands
  <2> QED
    BY <2>1
<1>17. CASE UNCHANGED vars
  BY <1>17 DEF vars
<1> QED
  BY <1>1, <1>2, <1>3, <1>4, <1>5, <1>6, <1>7, <1>8, <1>9, <1>10, <1>11, <1>12, <1>13, <1>14,
     <1>15, <1>16, <1>17 DEF Next, Reconcile, Commands, Faults

\* reconcile_ikev2: when it reports no failure, exactly the enabled users hold a
\* working certificate, their records say so, and the queue is empty.
THEOREM CleanExact == Spec => []CleanMeansExact
<1>1. Exact => CleanMeansExact
  BY DEF Exact
<1> QED
  BY <1>1, InitType, NextType, InitKept, NextKept, InitExact, NextExact, PTL DEF Spec
-----------------------------------------------------------------------------
\* reconcile_ikev2: an enabled user that holds a certificate of its own keeps
\* it, unless the name is queued, the volume is lost, or an exec of an earlier
\* command lands on it.
THEOREM OnlyIfQueued == Spec => WithdrawnOnlyIfQueued
<1> DEFINE Excused(n) == n \in pending \/ LoseVolume \/ (Land /\ \E e \in late : e.name = n)
           Asked == \A n \in Name : n \in Wanted /\ n \in Valid \ former /\ cert'[n] # "valid"
                                       => Excused(n)
<1>1. TypeOK /\ Kept /\ [Next]_vars => Asked
  <2> SUFFICES ASSUME TypeOK, Kept, [Next]_vars, NEW n \in Name, n \in Wanted, n \in Valid,
                      cert'[n] # "valid"
               PROVE  Excused(n)
    OBVIOUS
  <2> USE DEF files, container, belief
  <2>1. cert' # cert /\ cert[n] = "valid"
    BY DEF Valid
  <2>2. \/ LoseVolume \/ Land
        \/ \E m \in Name : \/ Withdraw(m) \/ WithdrawFails(m) \/ WithdrawCutOff(m)
                           \/ Issue(m) \/ IssueFails(m) \/ IssueCutOff(m)
    BY <2>1 DEF Next, Reconcile, Commands, Faults, vars, List, StartIssue, SaveQueue, SaveFlags,
                UserAdd, UserEnable, Queue, UserRm, UserDisable, StartReconcile, GiveUp,
                StartContainer, StopContainer
  <2>3. CASE Land
    <3>1. \E e \in late : cert' = [cert EXCEPT ![e.name] = cert'[e.name]]
      BY <2>3, Lands DEF Entry, TypeOK
    <3> QED
      BY <2>1, <2>3, <3>1 DEF TypeOK
  <2>4. ASSUME NEW m \in Name, Withdraw(m) \/ WithdrawFails(m) \/ WithdrawCutOff(m)
        PROVE  n \in pending
    <3>1. \E s \in {"none", "revoked"} : cert' = [cert EXCEPT ![m] = s]
      BY <2>1, <2>4, WithdrawFailures DEF Withdraw, WithdrawCutOff, SetEntry, Entry
    <3>2. m = n
      BY <2>1, <3>1 DEF TypeOK
    <3>3. pc = "withdraw" /\ n \in left
      BY <2>4, <3>2 DEF Withdraw, WithdrawFails, WithdrawCutOff
    <3> QED
      BY <3>3 DEF Kept
  <2>5. ASSUME NEW m \in Name, Issue(m) PROVE FALSE
    BY <2>1, <2>5 DEF Issue, SetEntry, Entry, TypeOK
  <2>6. ASSUME NEW m \in Name, IssueFails(m) \/ IssueCutOff(m) PROVE FALSE
    <3>1. /\ pc = "issue" /\ m \in left /\ ~Mistaken(m)
          /\ \E s \in {"none", "valid"} : cert' = [cert EXCEPT ![m] = s]
      BY <2>1, <2>6, IssueFailures DEF IssueCutOff, SetEntry, Entry, Unrecorded
    <3>2. m = n
      BY <2>1, <3>1 DEF TypeOK
    <3>3. n \notin valid
      BY <3>1, <3>2 DEF Kept
    <3> QED
      BY <3>1, <3>2, <3>3, NotMistaken
  <2> QED
    BY <2>2, <2>3, <2>4, <2>5, <2>6
<1>2. Asked => [\A n \in Name :
                 /\ n \in Wanted /\ n \in Valid \ former
                 /\ cert'[n] # "valid"
                 => n \in pending \/ LoseVolume \/ (Land /\ \E e \in late : e.name = n)]_vars
  OBVIOUS
<1> QED
  BY <1>1, <1>2, InitType, NextType, InitKept, NextKept, PTL DEF Spec, WithdrawnOnlyIfQueued
=============================================================================
