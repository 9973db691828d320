--------------------------- MODULE KeyringProofs ---------------------------
(***************************************************************************)
(* Proofs about Keyring, for any protocols, secrets and batches.           *)
(***************************************************************************)
EXTENDS Keyring, TLAPS

\* Protocols share no file.
LEMMA Apart ==
    ASSUME NEW p \in Protocol, NEW q \in Protocol, NEW s \in Own(p), s \in Own(q)
    PROVE  p = q
BY ConstantsAssumption

\* What a step that leaves the files alone leaves of the sets read from them.
LEMMA Same == UNCHANGED keyring => Present' = Present /\ \A p : Lacking(p)' = Lacking(p)
BY DEF Present, Lacking

\* Rebuilding: only what was not there changes, and it takes the content of a
\* file of the same protocol.
LEMMA Rebuilt ==
    ASSUME TypeOK, NEW p \in Protocol, Keep(p)
    PROVE  /\ keyring' \in [Secret -> Content]
           /\ Present' = Present \cup Derivable(p)
           /\ \A s \in Present : keyring'[s] = keyring[s]
           /\ \A s \in Secret \ Minted[p] : keyring'[s] = keyring[s]
           /\ \A s \in Derivable(p) : Source[s] \in Own(p) \cap Present /\ keyring'[s] = keyring[Source[s]]
<1>1. Derivable(p) \subseteq Secret /\ Derivable(p) \cap Present = {} /\ Derivable(p) \subseteq Minted[p]
  BY ConstantsAssumption DEF Derivable
<1>2. \A s \in Derivable(p) : Source[s] \in Own(p) \cap Present
  BY ConstantsAssumption DEF Derivable, Own
<1>3. \A s \in Present : s \in Secret /\ keyring[s] # Gone
  BY DEF Present
<1>4. keyring' = [s \in Secret |-> IF s \in Derivable(p) THEN keyring[Source[s]] ELSE keyring[s]]
  BY DEF Keep
<1>5. keyring' \in [Secret -> Content]
  BY <1>2, <1>3, <1>4 DEF TypeOK
<1> QED
  BY <1>1, <1>2, <1>3, <1>4, <1>5 DEF Present

\* A file written: it is there, with what was written.
LEMMA Written ==
    ASSUME TypeOK, Writing, NEW s \in Secret, WriteSecret(s)
    PROVE  /\ keyring' \in [Secret -> Content]
           /\ Present' = Present \cup {s}
           /\ keyring'[s] = batch
           /\ \A t \in Secret \ {s} : keyring'[t] = keyring[t]
           /\ batch # Gone
<1>1. batch \in Batch /\ batch # Gone
  BY ConstantsAssumption DEF Writing, WriteSecret
<1> QED
  BY <1>1 DEF TypeOK, WriteSecret, Present, Content

LEMMA InitType == Init => TypeOK
BY DEF Init, TypeOK, Content

LEMMA OverType == ASSUME TypeOK, NEW v \in {"nothing", "complete", "refused", "applied", "missing"}, Over(v)
                  PROVE  /\ pc' = "idle" /\ said' = v /\ force' = FALSE
                         /\ left' = {} /\ partial' = {} /\ minted' = FALSE
                         /\ target' = {} /\ batch' = Gone /\ todo' = {} /\ Gone \in Content
BY DEF Over, Content

LEMMA NextType == TypeOK /\ Writing /\ [Next]_vars => TypeOK'
<1> SUFFICES ASSUME TypeOK, Writing, [Next]_vars PROVE TypeOK'
  OBVIOUS
<1> USE DEF TypeOK, command, ghosts
<1>1. ASSUME NEW f \in BOOLEAN, StartBootstrap(f) PROVE TypeOK'
  BY <1>1 DEF StartBootstrap
<1>2. ASSUME NEW p \in Protocol, Mint(p) PROVE TypeOK'
  BY <1>2, ConstantsAssumption DEF Mint, Fresh, Content
<1>3. ASSUME NEW p \in Protocol, Keep(p) PROVE TypeOK'
  <2>1. partial' \subseteq Protocol /\ left' \subseteq Protocol
    BY <1>3 DEF Keep
  <2> QED
    BY <1>3, <2>1, Rebuilt DEF Keep
<1>4. CASE Minting
  BY <1>4 DEF Minting, Content
<1>5. CASE Refuse
  BY <1>5, OverType DEF Refuse
<1>6. ASSUME NEW u \in BOOLEAN, Complete(u) PROVE TypeOK'
  BY <1>6, OverType DEF Complete
<1>7. ASSUME NEW p \in Protocol, ProtocolOn(p) PROVE TypeOK'
  BY <1>7 DEF ProtocolOn
<1>8. ASSUME NEW p \in Protocol, ProtocolOff(p) PROVE TypeOK'
  BY <1>8 DEF ProtocolOff
<1>9. ASSUME NEW p \in Protocol, Export(p) PROVE TypeOK'
  <2>1. \A s \in Present : keyring[s] \in Content
    BY DEF Present
  <2> QED
    BY <1>9, <2>1 DEF Export
<1>10. CASE Prepare
  BY <1>10, ConstantsAssumption DEF Prepare, Fresh, Content
<1>11. CASE PrepareFails
  BY <1>11, OverType DEF PrepareFails
<1>12. CASE Installed
  BY <1>12 DEF Installed, Content
<1>13. CASE StartApply
  BY <1>13 DEF StartApply
<1>14. CASE Render
  BY <1>14, OverType DEF Render
<1>15. CASE Die
  <2>1. torn' \subseteq Protocol /\ cut' \subseteq Protocol
    BY <1>15 DEF Die
  <2> QED
    BY <1>15, <2>1, OverType DEF Die
<1>16. ASSUME NEW s \in Secret, WriteSecret(s) PROVE TypeOK'
  BY <1>16, Written DEF WriteSecret
<1>17. ASSUME NEW s \in Secret, Lose(s) PROVE TypeOK'
  BY <1>17 DEF Lose, Content
<1>18. CASE UNCHANGED vars
  BY <1>18 DEF vars
<1> QED
  BY <1>1, <1>2, <1>3, <1>4, <1>5, <1>6, <1>7, <1>8, <1>9, <1>10, <1>11, <1>12, <1>13, <1>14,
     <1>15, <1>16, <1>17, <1>18 DEF Next, Bootstrap, Toggle
-----------------------------------------------------------------------------
(***************************************************************************)
(* The command at work.                                                    *)
(***************************************************************************)

LEMMA InitWriting == Init => Writing /\ Preparing /\ Unused
BY DEF Init, Writing, Preparing, Unused

LEMMA NextWriting == TypeOK /\ Writing /\ Preparing /\ [Next]_vars => Writing' /\ Preparing'
<1> SUFFICES ASSUME TypeOK, Writing, Preparing, [Next]_vars PROVE Writing' /\ Preparing'
  OBVIOUS
<1> USE Same DEF Writing, Preparing, command, ghosts
<1>1. ASSUME NEW p \in Protocol, Mint(p) PROVE Writing' /\ Preparing'
  <2>1. batch' \in Batch /\ target' = {p} /\ todo' = Minted[p] /\ pc' = "write" /\ keyring' = keyring
    BY <1>1 DEF Mint, Fresh
  <2>2. Own(p) = Minted[p]
    BY <1>1, ConstantsAssumption DEF Mint, Own
  <2>3. ~force' => Own(p) \cap Present' = {}
    BY <1>1, <2>2 DEF Mint
  <2> QED
    BY <1>1, <2>1, <2>2, <2>3 DEF Mint
<1>2. ASSUME NEW s \in Secret, WriteSecret(s) PROVE Writing' /\ Preparing'
  <2>1. PICK p \in Protocol :
          /\ target = {p} /\ batch \in Batch /\ todo \subseteq Own(p)
          /\ \A t \in Own(p) \ todo : keyring[t] = batch
          /\ pc = "write" => Minted[p] # {}
          /\ pc = "write" /\ ~force => \A t \in Own(p) \cap Present : keyring[t] = batch
          /\ pc = "install" => Prepared[p] # {}
    BY <1>2 DEF WriteSecret
  <2>2. Own(p) \subseteq Secret
    BY ConstantsAssumption DEF Own
  <2> QED
    BY <1>2, <2>1, <2>2, Written DEF WriteSecret
<1>3. CASE Prepare
  <2>1. PICK p \in Protocol : target = {p} /\ Prepared[p] # {}
    BY <1>3 DEF Prepare
  <2>2. Own(p) = Prepared[p]
    BY <2>1, ConstantsAssumption DEF Own
  <2>3. batch' \in Batch /\ todo' = Prepared[p] /\ target' = {p} /\ pc' = "install"
    BY <1>3, <2>1 DEF Prepare, Fresh
  <2> QED
    BY <2>1, <2>2, <2>3
<1>4. ASSUME NEW p \in Protocol, ProtocolOn(p) PROVE Writing' /\ Preparing'
  BY <1>4 DEF ProtocolOn
<1>5. ASSUME NEW f \in BOOLEAN, StartBootstrap(f) PROVE Writing' /\ Preparing'
  BY <1>5 DEF StartBootstrap
<1>6. ASSUME NEW p \in Protocol, Keep(p) PROVE Writing' /\ Preparing'
  BY <1>6 DEF Keep
<1>7. CASE Minting
  BY <1>7 DEF Minting
<1>8. CASE Refuse
  BY <1>8 DEF Refuse, Over
<1>9. ASSUME NEW u \in BOOLEAN, Complete(u) PROVE Writing' /\ Preparing'
  BY <1>9 DEF Complete, Over
<1>10. ASSUME NEW p \in Protocol, ProtocolOff(p) \/ Export(p) PROVE Writing' /\ Preparing'
  BY <1>10 DEF ProtocolOff, Export
<1>11. CASE PrepareFails
  BY <1>11 DEF PrepareFails, Over
<1>12. CASE Installed \/ StartApply
  BY <1>12 DEF Installed, StartApply
<1>13. CASE Render
  BY <1>13 DEF Render, Over
<1>14. CASE Die
  BY <1>14 DEF Die, Over
<1>15. ASSUME NEW s \in Secret, Lose(s) PROVE Writing' /\ Preparing'
  BY <1>15 DEF Lose
<1>16. CASE UNCHANGED vars
  BY <1>16 DEF vars
<1> QED
  BY <1>1, <1>2, <1>3, <1>4, <1>5, <1>6, <1>7, <1>8, <1>9, <1>10, <1>11, <1>12, <1>13, <1>14,
     <1>15, <1>16 DEF Next, Bootstrap, Toggle

LEMMA NextUnused == TypeOK /\ Writing /\ Preparing /\ Unused /\ [Next]_vars => Unused'
<1> SUFFICES ASSUME TypeOK, Writing, Preparing, Unused, [Next]_vars PROVE Unused'
  OBVIOUS
<1> USE Same DEF Unused, command, ghosts
<1>1. CASE Prepare
  <2>1. PICK p \in Protocol : target = {p} /\ Prepared[p] # {} /\ target' = target
    BY <1>1 DEF Prepare, Preparing
  <2>2. batch' # profile'[p] /\ profile' = profile /\ keyring' = keyring /\ pc' = "install"
    BY <1>1, <2>1 DEF Prepare, Fresh
  <2>3. PICK s \in Needs[p] : s \notin Present
    BY <1>1, <2>1 DEF Prepare, Lacking
  <2>4. keyring[s] = Gone
    BY <2>3, ConstantsAssumption DEF Present, Own
  <2> QED
    BY <2>1, <2>2, <2>3, <2>4
<1>2. ASSUME NEW s \in Secret, WriteSecret(s) PROVE Unused'
  <2>1. \A t : keyring[t] \in {Gone, batch} /\ t \in Secret => keyring'[t] \in {Gone, batch'}
    BY <1>2, Written DEF WriteSecret
  <2>2. \A p \in target : p \in Protocol /\ Needs[p] \subseteq Secret
    BY <1>2, ConstantsAssumption DEF TypeOK, Own
  <2> QED
    BY <1>2, <2>1, <2>2 DEF WriteSecret
<1>3. ASSUME NEW p \in Protocol, ProtocolOn(p) PROVE Unused'
  BY <1>3 DEF ProtocolOn
<1>4. ASSUME NEW f \in BOOLEAN, StartBootstrap(f) PROVE Unused'
  BY <1>4 DEF StartBootstrap
<1>5. ASSUME NEW p \in Protocol, Mint(p) \/ Keep(p) \/ ProtocolOff(p) \/ Export(p) PROVE Unused'
  BY <1>5 DEF Mint, Keep, ProtocolOff, Export
<1>6. CASE Minting \/ Installed \/ StartApply
  BY <1>6 DEF Minting, Installed, StartApply
<1>7. CASE Refuse \/ PrepareFails \/ Render \/ Die
  BY <1>7 DEF Refuse, PrepareFails, Render, Die, Over
<1>8. ASSUME NEW u \in BOOLEAN, Complete(u) PROVE Unused'
  BY <1>8 DEF Complete, Over
<1>9. ASSUME NEW s \in Secret, Lose(s) PROVE Unused'
  BY <1>9 DEF Lose
<1>10. CASE UNCHANGED vars
  BY <1>10 DEF vars
<1> QED
  BY <1>1, <1>2, <1>3, <1>4, <1>5, <1>6, <1>7, <1>8, <1>9, <1>10 DEF Next, Bootstrap, Toggle
-----------------------------------------------------------------------------
(***************************************************************************)
(* Halves that fit, and keys for what is on.                               *)
(***************************************************************************)

\* Files that are the same fit as they did.
LEMMA SameFits ==
    ASSUME NEW p \in Protocol, \A s \in Own(p) : keyring'[s] = keyring[s]
    PROVE  Agree(p)' = Agree(p) /\ Lacking(p)' = Lacking(p)
<1>1. Own(p) \cap Present' = Own(p) \cap Present
  BY DEF Present
<1>2. Needs[p] \subseteq Own(p)
  BY ConstantsAssumption
<1> QED
  BY <1>1, <1>2 DEF Agree, Lacking

\* A set that has been written out is whole and of one batch.
LEMMA WholeFits ==
    ASSUME TypeOK, Writing, pc \in {"write", "install"}, todo = {}, NEW p \in target
    PROVE  p \in Protocol /\ Own(p) \subseteq Present /\ Agree(p) /\ Lacking(p) = {}
<1>1. p \in Protocol /\ batch \in Batch /\ batch # Gone /\ \A s \in Own(p) : keyring[s] = batch
  BY ConstantsAssumption DEF Writing
<1>2. Own(p) \subseteq Secret /\ Needs[p] \subseteq Own(p)
  BY <1>1, ConstantsAssumption DEF Own
<1> QED
  BY <1>1, <1>2 DEF Present, Agree, Lacking

\* Bootstrap's writing never takes a protocol's own preparation to the test.
LEMMA MintedNotPrepared ==
    ASSUME Writing, pc = "write", NEW p \in target
    PROVE  p \in Protocol /\ Prepared[p] = {}
BY ConstantsAssumption DEF Writing

LEMMA InitFitting == Init => Fitting
BY DEF Init, Fitting, Agree, Present

LEMMA NextFitting ==
    TypeOK /\ Writing /\ Preparing /\ Fitting /\ [Next]_vars => Fitting'
<1> SUFFICES ASSUME TypeOK, Writing, Preparing, Fitting, [Next]_vars PROVE Fitting'
  OBVIOUS
<1> USE DEF command, ghosts
<1>a. enabled \subseteq Protocol /\ torn \subseteq Protocol
  BY DEF TypeOK
<1>b. UNCHANGED keyring => \A p \in Protocol : Agree(p)' = Agree(p) /\ Lacking(p)' = Lacking(p)
  BY SameFits
<1>1. ASSUME NEW f \in BOOLEAN, StartBootstrap(f) PROVE Fitting'
  BY <1>1, <1>a, <1>b DEF StartBootstrap, Fitting
<1>2. ASSUME NEW p \in Protocol, Mint(p) PROVE Fitting'
  BY <1>2, <1>a, <1>b DEF Mint, Fitting
<1>3. ASSUME NEW p \in Protocol, Keep(p) PROVE Fitting'
  <2>1. \A q \in Protocol : q # p => Agree(q)' = Agree(q) /\ Lacking(q)' = Lacking(q)
    <3> SUFFICES ASSUME NEW q \in Protocol, q # p PROVE Agree(q)' = Agree(q) /\ Lacking(q)' = Lacking(q)
      OBVIOUS
    <3>1. \A s \in Own(q) : s \in Secret \ Minted[p]
      BY Apart, ConstantsAssumption DEF Own
    <3> QED
      BY <3>1, <1>3, Rebuilt, SameFits
  <2>2. Agree(p) => Agree(p)'
    <3> SUFFICES ASSUME Agree(p), NEW s \in Own(p) \cap Present', NEW t \in Own(p) \cap Present'
                 PROVE  keyring'[s] = keyring'[t]
      BY DEF Agree
    <3>1. \A r \in Own(p) \cap Present' : \E o \in Own(p) \cap Present : keyring'[r] = keyring[o]
      BY <1>3, Rebuilt
    <3> QED
      BY <3>1 DEF Agree
  <2>3. Lacking(p)' \subseteq Lacking(p)
    BY <1>3, Rebuilt DEF Lacking
  <2> QED
    BY <1>3, <1>a, <2>1, <2>2, <2>3 DEF Keep, Fitting
<1>4. CASE Minting
  <2>1. \A p \in target : Agree(p) /\ p \in Protocol /\ Prepared[p] = {}
    BY <1>4, WholeFits, MintedNotPrepared DEF Minting
  <2> QED
    BY <1>4, <1>a, <1>b, <2>1 DEF Minting, Fitting
<1>5. CASE Refuse
  BY <1>5, <1>a, <1>b DEF Refuse, Over, Fitting
<1>6. ASSUME NEW u \in BOOLEAN, Complete(u) PROVE Fitting'
  BY <1>6, <1>a, <1>b DEF Complete, Over, Fitting
<1>7. ASSUME NEW p \in Protocol, ProtocolOn(p) PROVE Fitting'
  BY <1>7, <1>a, <1>b DEF ProtocolOn, Fitting
<1>8. ASSUME NEW p \in Protocol, ProtocolOff(p) PROVE Fitting'
  BY <1>8, <1>a, <1>b DEF ProtocolOff, Fitting
<1>9. ASSUME NEW p \in Protocol, Export(p) PROVE Fitting'
  BY <1>9, <1>a, <1>b DEF Export, Fitting
<1>10. CASE Prepare
  BY <1>10, <1>a, <1>b DEF Prepare, Fitting
<1>11. CASE PrepareFails
  BY <1>11, <1>a, <1>b DEF PrepareFails, Over, Fitting
<1>12. CASE Installed
  <2>1. \A p \in target : Agree(p) /\ p \in Protocol /\ Lacking(p) = {}
    BY <1>12, WholeFits DEF Installed
  <2> QED
    BY <1>12, <1>a, <1>b, <2>1 DEF Installed, Fitting
<1>13. CASE StartApply
  BY <1>13, <1>a, <1>b DEF StartApply, Fitting
<1>14. CASE Render
  BY <1>14, <1>a, <1>b DEF Render, Over, Fitting
<1>15. CASE Die
  <2>1. \A p \in target : pc = "write" /\ ~force => Agree(p) /\ Prepared[p] = {}
    BY ConstantsAssumption DEF Writing, Agree
  <2> QED
    BY <1>15, <1>a, <1>b, <2>1 DEF Die, Over, Fitting
<1>16. ASSUME NEW s \in Secret, WriteSecret(s) PROVE Fitting'
  <2>1. PICK p \in Protocol : target = {p} /\ s \in Own(p)
    BY <1>16 DEF WriteSecret, Writing
  <2>2. \A q \in Protocol : q # p => Agree(q)' = Agree(q) /\ Lacking(q)' = Lacking(q)
    <3> SUFFICES ASSUME NEW q \in Protocol, q # p PROVE Agree(q)' = Agree(q) /\ Lacking(q)' = Lacking(q)
      OBVIOUS
    <3>1. \A t \in Own(q) : t \in Secret \ {s}
      BY <2>1, Apart, ConstantsAssumption DEF Own
    <3> QED
      BY <3>1, <1>16, Written, SameFits
  <2>3. Lacking(p)' \subseteq Lacking(p)
    BY <1>16, Written DEF Lacking
  <2> QED
    BY <1>16, <1>a, <2>1, <2>2, <2>3 DEF WriteSecret, Fitting
<1>17. ASSUME NEW s \in Secret, Lose(s) PROVE Fitting'
  <2>1. \A p \in Protocol : Agree(p) => Agree(p)'
    BY <1>17, ConstantsAssumption DEF Lose, TypeOK, Agree, Present, Own
  <2>2. \A p \in Protocol : s \notin Own(p) => Lacking(p)' = Lacking(p)
    BY <1>17, SameFits, ConstantsAssumption DEF Lose, TypeOK, Own
  <2> QED
    BY <1>17, <1>a, <2>1, <2>2 DEF Lose, Fitting
<1>18. CASE UNCHANGED vars
  BY <1>18, <1>a, <1>b DEF vars, Fitting
<1> QED
  BY <1>1, <1>2, <1>3, <1>4, <1>5, <1>6, <1>7, <1>8, <1>9, <1>10, <1>11, <1>12, <1>13, <1>14,
     <1>15, <1>16, <1>17, <1>18 DEF Next, Bootstrap, Toggle

\* The comments on the skip and on _heal in bootstrap_keyring: between commands
\* the files of a protocol that are there fit together, but for a --force or a
\* prepare that died half way.
THEOREM HalvesFit == Spec => []HalvesAgree
<1>1. Fitting => HalvesAgree
  BY DEF Fitting, HalvesAgree
<1> QED
  BY <1>1, InitType, NextType, InitWriting, NextWriting, InitFitting, NextFitting, PTL DEF Spec

\* _prepare_secrets: a protocol whose keys are made when it is turned on is never
\* left on without them, but for a command cut off or a file lost.
THEOREM OnPrepared == Spec => []OnMeansPrepared
<1>1. TypeOK /\ Fitting => OnMeansPrepared
  BY DEF TypeOK, Fitting, OnMeansPrepared
<1> QED
  BY <1>1, InitType, NextType, InitWriting, NextWriting, InitFitting, NextFitting, PTL DEF Spec
-----------------------------------------------------------------------------
(***************************************************************************)
(* What bootstrap reports.                                                 *)
(***************************************************************************)

LEMMA InitSettled == Init => Settled
BY DEF Init, Settled, CompleteMeansWhole

LEMMA NextSettled == TypeOK /\ Writing /\ Settled /\ [Next]_vars => Settled'
<1> SUFFICES ASSUME TypeOK, Writing, Settled, [Next]_vars PROVE Settled'
  OBVIOUS
<1> USE DEF Settled, CompleteMeansWhole, command, ghosts
<1>1. ASSUME NEW f \in BOOLEAN, StartBootstrap(f) PROVE Settled'
  BY <1>1 DEF StartBootstrap
<1>2. ASSUME NEW p \in Protocol, Mint(p) PROVE Settled'
  BY <1>2, Same DEF Mint
<1>3. ASSUME NEW p \in Protocol, Keep(p) PROVE Settled'
  <2>1. \A q \in Protocol : Minted[q] \subseteq Present => Minted[q] \subseteq Present'
    BY <1>3, Rebuilt
  <2>2. p \in partial' \/ Minted[p] \subseteq Present'
    BY <1>3, Rebuilt DEF Keep
  <2>3. partial \subseteq partial'
    BY <1>3 DEF Keep
  <2> QED
    BY <1>3, <2>1, <2>2, <2>3 DEF Keep
<1>4. CASE Minting
  <2>1. \A p \in target : Minted[p] \subseteq Present
    BY <1>4, WholeFits DEF Minting, Own
  <2> QED
    BY <1>4, <2>1, Same DEF Minting
<1>5. CASE Refuse
  BY <1>5 DEF Refuse, Over
<1>6. ASSUME NEW u \in BOOLEAN, Complete(u) PROVE Settled'
  BY <1>6, Same DEF Complete, Over
<1>7. ASSUME NEW p \in Protocol, ProtocolOn(p) \/ ProtocolOff(p) PROVE Settled'
  BY <1>7 DEF ProtocolOn, ProtocolOff
<1>8. ASSUME NEW p \in Protocol, Export(p) PROVE Settled'
  BY <1>8, Same DEF Export
<1>9. CASE Prepare \/ Installed \/ StartApply
  BY <1>9 DEF Prepare, Installed, StartApply
<1>10. CASE PrepareFails \/ Die
  BY <1>10 DEF PrepareFails, Die, Over
<1>11. CASE Render
  BY <1>11, Same DEF Render, Over
<1>12. ASSUME NEW s \in Secret, WriteSecret(s) PROVE Settled'
  BY <1>12, Written DEF WriteSecret
<1>13. ASSUME NEW s \in Secret, Lose(s) PROVE Settled'
  BY <1>13 DEF Lose
<1>14. CASE UNCHANGED vars
  BY <1>14, Same DEF vars
<1> QED
  BY <1>1, <1>2, <1>3, <1>4, <1>5, <1>6, <1>7, <1>8, <1>9, <1>10, <1>11, <1>12, <1>13, <1>14
     DEF Next, Bootstrap, Toggle

\* cmd_bootstrap: when it reports success no protocol is half present.
THEOREM CompleteWhole == Spec => []CompleteMeansWhole
<1>1. Settled => CompleteMeansWhole
  BY DEF Settled
<1> QED
  BY <1>1, InitType, NextType, InitWriting, NextWriting, InitSettled, NextSettled, PTL DEF Spec

\* The types, which need to know what is being written.
THEOREM Typing == Spec => []TypeOK
BY InitType, NextType, InitWriting, NextWriting, PTL DEF Spec
-----------------------------------------------------------------------------
\* bootstrap_keyring, _set_protocol: no command but --force takes from a profile
\* that works the secrets behind it.
THEOREM ProfilesLast == Spec => ProfilesKeepWorking
<1> DEFINE Kept == \A p \in Protocol : Works(p) =>
                     \A s \in Needs[p] :
                         \/ keyring'[s] = keyring[s]
                         \/ force /\ pc = "write" /\ p \in target
                         \/ Lose(s)
<1>1. TypeOK /\ Writing /\ Unused /\ [Next]_vars => Kept
  <2> SUFFICES ASSUME TypeOK, Writing, Unused, [Next]_vars, NEW p \in Protocol, Works(p),
                      NEW s \in Needs[p], keyring'[s] # keyring[s], ~Lose(s)
               PROVE  force /\ pc = "write" /\ p \in target
    OBVIOUS
  <2> USE DEF command, ghosts
  <2>1. s \in Own(p) /\ s \in Present /\ s \in Secret
    BY ConstantsAssumption DEF Works, Present, Own
  <2>2. ~\E q \in Protocol : Keep(q)
    BY <2>1, Rebuilt
  <2>3. \E t \in Secret : WriteSecret(t) \/ Lose(t)
    BY <2>2 DEF Next, Bootstrap, Toggle, vars, StartBootstrap, Mint, Minting, Refuse, Complete,
                ProtocolOn, ProtocolOff, Export, Prepare, PrepareFails, Installed, StartApply, Render,
                Die
  <2>4. \A t \in Secret : ~Lose(t)
    BY <2>1 DEF Lose, TypeOK
  <2>5. PICK t \in Secret : WriteSecret(t)
    BY <2>3, <2>4
  <2>6. t = s /\ batch # keyring[s]
    BY <2>1, <2>5, Written
  <2>7. PICK q \in Protocol :
          /\ target = {q} /\ todo \subseteq Own(q)
          /\ pc = "write" /\ ~force => \A r \in Own(q) \cap Present : keyring[r] = batch
    BY <2>5 DEF WriteSecret, Writing
  <2>8. q = p
    BY <2>1, <2>5, <2>6, <2>7, Apart DEF WriteSecret
  <2>9. pc # "install"
    BY <2>7, <2>8 DEF Unused, Works
  <2> QED
    BY <2>1, <2>5, <2>6, <2>7, <2>8, <2>9 DEF WriteSecret
<1>2. Kept => [\A p \in Protocol : Works(p) =>
                 \A s \in Needs[p] :
                     \/ keyring'[s] = keyring[s]
                     \/ force /\ pc = "write" /\ p \in target
                     \/ Lose(s)]_vars
  OBVIOUS
<1> QED
  BY <1>1, <1>2, InitType, NextType, InitWriting, NextWriting, NextUnused, PTL
     DEF Spec, ProfilesKeepWorking
=============================================================================
