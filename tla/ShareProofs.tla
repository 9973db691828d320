----------------------------- MODULE ShareProofs -----------------------------
(***************************************************************************)
(* The safety properties of Share, for any number of connections, any      *)
(* private network and any two deadlines.  What the properties say of a    *)
(* moment follows from what the threads carry to it: when each was let in, *)
(* whether there was a stamp when it tested for one, when the reaper last  *)
(* looked.                                                                 *)
(***************************************************************************)
EXTENDS Share, TLAPS

\* What a thread carries: it was let in no later than now, in the window; one that
\* found no stamp was let in before the first was stored; what it read of the clock
\* since is no later than now; one that answers has stamped.
Threads ==
    \A c \in Client :
        /\ Busy(c) => at[c] <= now /\ at[c] <= Hard
        /\ (Busy(c) /\ fetchedAt # None) => at[c] <= stored + Grace
        /\ (thread[c] \in {"stamp", "store"} /\ first # None) => at[c] <= first
        /\ thread[c] = "store" => taken[c] <= now
        /\ thread[c] = "answer" => fetchedAt # None

\* What the flags record: `dead` is never set for nothing, and nobody is sent the
\* page, nor refused it early, before it was stamped.
Record ==
    /\ fetchedAt = None <=> first = None
    /\ fetchedAt # None => stored # None /\ fetchedAt <= stored /\ stored <= now
    /\ dead => now > Hard \/ fetchedAt # None
    /\ paged => fetchedAt # None
    /\ VerdictTrue

\* What the reaper carries: neither deadline had passed when it went to sleep, but by
\* a stamp stored since whose reading was that old; and the clock does not pass its
\* waking.
Watch ==
    /\ main = "start" => now = 0
    /\ reaper = "none" => main \in {"start", "refused"} /\ now = 0
    /\ reaper = "asleep" => now <= wake /\ wake <= now + 1
    /\ (reaper = "loop" /\ ~dead) =>
           /\ now <= Hard
           /\ fetchedAt # None => now <= fetchedAt + Grace \/ now <= stored
    /\ (reaper = "asleep" /\ ~dead) =>
           /\ wake <= Hard + 1
           /\ fetchedAt # None => wake <= fetchedAt + Grace + 1 \/ wake <= stored + 1

IInv == TypeOK /\ Threads /\ Record /\ Watch

LEMMA Initially == Init => IInv
  <1> SUFFICES ASSUME Init PROVE IInv
    OBVIOUS
  <1>1. TypeOK
    BY ConstantsAssumption DEF Init, TypeOK, Time, Steps
  <1>2. Threads
    BY DEF Init, Threads, Busy
  <1>3. Record
    BY DEF Init, Record, VerdictTrue
  <1>4. Watch
    BY ConstantsAssumption DEF Init, Watch
  <1> QED BY <1>1, <1>2, <1>3, <1>4 DEF IInv

\* The actions that change nothing but one variable or two.
LEMMA MainKeeps == IInv /\ (Main \/ Interrupt) => IInv'
  <1> SUFFICES ASSUME IInv, Main \/ Interrupt PROVE IInv'
    OBVIOUS
  <1> USE ConstantsAssumption DEF IInv, flags, server, readings, ghosts
  <1>1. CASE Begin
    <2>1. PICK payload \in SUBSET Shape, explicit \in Address \cup {None}, local \in SUBSET Address :
             Refuse(payload, explicit, local) \/ Serve(payload, explicit, local)
      BY <1>1 DEF Begin
    <2>2. CASE Refuse(payload, explicit, local)
      BY <2>2 DEF Refuse, TypeOK, Time, Threads, Busy, Record, VerdictTrue, Watch
    <2>3. CASE Serve(payload, explicit, local)
      <3>1. TypeOK'
        BY <2>3 DEF Serve, Bindable, TypeOK, Time
      <3>2. Threads' /\ Record'
        BY <2>3 DEF Serve, TypeOK, Threads, Busy, Record, VerdictTrue
      <3>3. Watch'
        BY <2>3 DEF Serve, TypeOK, Time, Watch, Record
      <3> QED BY <3>1, <3>2, <3>3
    <2> QED BY <2>1, <2>2, <2>3
  <1>2. CASE StopServing \/ Interrupt \/ CloseServer
    BY <1>2 DEF StopServing, Interrupt, CloseServer, TypeOK, Time, Threads, Busy, Record,
                VerdictTrue, Watch
  <1>3. CASE Say
    BY <1>3 DEF Say, TypeOK, Time, Threads, Busy, Record, VerdictTrue, Watch
  <1>4. CASE Exit
    <2>1. TypeOK'
      BY <1>4 DEF Exit, TypeOK, Time, Steps
    <2>2. Threads'
      BY <1>4 DEF Exit, TypeOK, Threads, Busy, Steps
    <2>3. Record' /\ Watch'
      BY <1>4 DEF Exit, TypeOK, Time, Record, VerdictTrue, Watch
    <2> QED BY <2>1, <2>2, <2>3
  <1> QED BY <1>1, <1>2, <1>3, <1>4 DEF Main

LEMMA ReaperKeeps == IInv /\ (Reaper \/ Tick) => IInv'
  <1> SUFFICES ASSUME IInv, Reaper \/ Tick PROVE IInv'
    OBVIOUS
  <1> USE ConstantsAssumption DEF IInv, flags, server, readings, ghosts
  <1>1. CASE Sleep
    BY <1>1 DEF Sleep, TypeOK, Time, Threads, Busy, Record, VerdictTrue, Watch
  <1>2. CASE Look
    <2>1. TypeOK' /\ Threads'
      BY <1>2 DEF Look, TypeOK, Time, Threads, Busy
    <2>2. Record'
      BY <1>2 DEF Look, PastHour, PastGrace, TypeOK, Time, Record, VerdictTrue
    <2>3. Watch'
      <3>1. ~dead' => ~dead /\ ~PastHour /\ ~PastGrace
        BY <1>2 DEF Look
      <3>2. ~dead' => now <= Hard /\ (fetchedAt # None => now <= fetchedAt + Grace)
        BY <3>1 DEF PastHour, PastGrace, TypeOK, Time
      <3>3. UNCHANGED <<now, fetchedAt, main>> /\ reaper = "asleep" /\ reaper' = "loop"
        BY <1>2 DEF Look
      <3> QED BY <3>2, <3>3 DEF Watch
    <2> QED BY <2>1, <2>2, <2>3
  <1>3. CASE Shutdown
    BY <1>3 DEF Shutdown, TypeOK, Time, Threads, Busy, Record, VerdictTrue, Watch
  <1>4. CASE Tick
    <2>1. TypeOK' /\ Threads'
      BY <1>4 DEF Tick, TypeOK, Time, Threads, Busy
    <2>2. Record'
      BY <1>4 DEF Tick, TypeOK, Time, Record, VerdictTrue
    <2>3. Watch'
      BY <1>4 DEF Tick, TypeOK, Time, Watch
    <2> QED BY <2>1, <2>2, <2>3
  <1> QED BY <1>1, <1>2, <1>3, <1>4 DEF Reaper

LEMMA HandlerKeeps == ASSUME NEW c \in Client PROVE IInv /\ Handler(c) => IInv'
  <1> SUFFICES ASSUME IInv, Handler(c) PROVE IInv'
    OBVIOUS
  <1> USE ConstantsAssumption DEF IInv, flags, server, readings, ghosts
  <1>1. CASE Connect(c) \/ NotFound(c) \/ HangUp(c)
    <2>1. TypeOK'
      BY <1>1 DEF Connect, NotFound, HangUp, Finish, TypeOK, Time, Steps
    <2>2. Threads'
      BY <1>1 DEF Connect, NotFound, HangUp, Finish, TypeOK, Threads, Busy, Steps
    <2>3. Record' /\ Watch'
      BY <1>1 DEF Connect, NotFound, HangUp, TypeOK, Time, Record, VerdictTrue, Watch
    <2> QED BY <2>1, <2>2, <2>3
  <1>2. CASE Turn(c)
    <2>1. TypeOK'
      <3>1. early' \in BOOLEAN
        BY <1>2 DEF Turn, Expire, TypeOK
      <3>2. /\ thread' \in [Client -> Steps]
            /\ at' \in [Client -> Nat] /\ taken' \in [Client -> Nat]
        BY <1>2 DEF Turn, Expire, Finish, TypeOK, Steps
      <3>3. UNCHANGED <<now, fetchedAt, server, reaper, wake, first, stored, paged>> /\ dead'
        BY <1>2 DEF Turn, Expire
      <3> QED BY <3>1, <3>2, <3>3 DEF TypeOK, Time
    <2>2. Threads'
      BY <1>2 DEF Turn, Expire, Finish, TypeOK, Threads, Busy, Steps
    <2>3. Record'
      BY <1>2 DEF Turn, Expire, PastHour, PastGrace, TypeOK, Time, Record, VerdictTrue
    <2>4. Watch'
      BY <1>2 DEF Turn, Expire, TypeOK, Time, Watch
    <2> QED BY <2>1, <2>2, <2>3, <2>4
  <1>3. ASSUME NEW want \in {"page", "file"}, Admit(c, want) PROVE IInv'
    <2>1. TypeOK'
      BY <1>3 DEF Admit, TypeOK, Time, Steps
    <2>2. Threads'
      BY <1>3 DEF Admit, PastHour, PastGrace, TypeOK, Time, Threads, Busy, Record, Steps
    <2>3. Record' /\ Watch'
      BY <1>3 DEF Admit, TypeOK, Time, Record, VerdictTrue, Watch
    <2> QED BY <2>1, <2>2, <2>3
  <1>4. CASE Test(c)
    <2>1. TypeOK'
      BY <1>4 DEF Test, TypeOK, Time, Steps
    <2>2. Threads'
      BY <1>4 DEF Test, TypeOK, Time, Threads, Busy, Record, Steps
    <2>3. Record' /\ Watch'
      BY <1>4 DEF Test, TypeOK, Time, Record, VerdictTrue, Watch
    <2> QED BY <2>1, <2>2, <2>3
  <1>5. CASE Stamp(c)
    <2>1. TypeOK'
      BY <1>5 DEF Stamp, TypeOK, Time, Steps
    <2>2. Threads'
      BY <1>5 DEF Stamp, TypeOK, Time, Threads, Busy, Steps
    <2>3. Record' /\ Watch'
      BY <1>5 DEF Stamp, TypeOK, Time, Record, VerdictTrue, Watch
    <2> QED BY <2>1, <2>2, <2>3
  <1>6. CASE Store(c)
    <2>1. TypeOK'
      BY <1>6 DEF Store, TypeOK, Time, Steps
    <2>2. Threads'
      <3> SUFFICES ASSUME NEW d \in Client
                   PROVE  /\ (Busy(d) => at[d] <= now /\ at[d] <= Hard)'
                          /\ ((Busy(d) /\ fetchedAt # None) => at[d] <= stored + Grace)'
                          /\ ((thread[d] \in {"stamp", "store"} /\ first # None)
                                => at[d] <= first)'
                          /\ (thread[d] = "store" => taken[d] <= now)'
                          /\ (thread[d] = "answer" => fetchedAt # None)'
        BY DEF Threads
      <3>1. /\ at' = at /\ now' = now
            /\ thread'[d] = thread[d] \/ (thread[d] = "store" /\ thread'[d] = "answer")
            /\ taken'[d] = taken[d] \/ thread'[d] = "answer"
            /\ stored' = now /\ fetchedAt' \in Nat
            /\ first' = IF first = None THEN now ELSE first
        BY <1>6 DEF Store, TypeOK, Steps
      <3>2. Busy(d)' => Busy(d)
        BY <3>1 DEF Busy
      <3>3. /\ at[d] \in Nat /\ now \in Nat
            /\ Busy(d) => at[d] <= now /\ at[d] <= Hard
            /\ (thread[d] \in {"stamp", "store"} /\ first # None) => at[d] <= first
            /\ thread[d] = "store" => taken[d] <= now
        BY DEF TypeOK, Threads
      <3>4. (Busy(d) => at[d] <= now /\ at[d] <= Hard)'
        BY <3>1, <3>2, <3>3
      <3>5. ((Busy(d) /\ fetchedAt # None) => at[d] <= stored + Grace)'
        BY <3>1, <3>2, <3>3
      <3>6. ((thread[d] \in {"stamp", "store"} /\ first # None) => at[d] <= first)'
        BY <3>1, <3>3 DEF Busy
      <3>7. (thread[d] = "store" => taken[d] <= now)'
        BY <3>1, <3>3
      <3>8. (thread[d] = "answer" => fetchedAt # None)'
        BY <3>1
      <3> QED BY <3>4, <3>5, <3>6, <3>7, <3>8
    <2>3. Record'
      BY <1>6 DEF Store, TypeOK, Time, Record, VerdictTrue, Threads
    <2>4. Watch'
      BY <1>6 DEF Store, TypeOK, Time, Watch
    <2> QED BY <2>1, <2>2, <2>3, <2>4
  <1>7. CASE SendPage(c) \/ SendFile(c)
    <2>1. TypeOK'
      <3>1. paged' \in BOOLEAN
        BY <1>7 DEF SendPage, SendFile, TypeOK
      <3>2. /\ thread' \in [Client -> Steps]
            /\ at' \in [Client -> Nat] /\ taken' \in [Client -> Nat]
        BY <1>7 DEF SendPage, SendFile, Finish, TypeOK, Steps
      <3>3. UNCHANGED <<now, flags, server, reaper, wake, first, stored, early>>
        BY <1>7 DEF SendPage, SendFile
      <3> QED BY <3>1, <3>2, <3>3 DEF TypeOK, Time
    <2>2. Threads'
      BY <1>7 DEF SendPage, SendFile, Finish, TypeOK, Threads, Busy, Steps
    <2>3. Record' /\ Watch'
      BY <1>7 DEF SendPage, SendFile, TypeOK, Time, Threads, Record, VerdictTrue, Watch
    <2> QED BY <2>1, <2>2, <2>3
  <1> QED BY <1>1, <1>2, <1>3, <1>4, <1>5, <1>6, <1>7 DEF Handler

LEMMA StepKeeps == IInv /\ [Next]_vars => IInv'
  <1> SUFFICES ASSUME IInv, [Next]_vars PROVE IInv'
    OBVIOUS
  <1>1. CASE UNCHANGED vars
    BY <1>1 DEF vars, flags, server, readings, ghosts, IInv, TypeOK, Threads, Busy, Record,
                VerdictTrue, Watch
  <1>2. CASE Next
    BY <1>2, MainKeeps, ReaperKeeps, HandlerKeeps DEF Next
  <1> QED BY <1>1, <1>2

LEMMA Invariantly == Spec => []IInv
  <1>1. Init /\ [][Next]_vars => []IInv
    BY Initially, StepKeeps, PTL
  <1> QED BY <1>1, PTL DEF Spec

\* The variables keep their types; in particular the page is only ever bound to an
\* address for which is_private holds, asked for or found (pick_bind).
THEOREM Typing == Spec => []TypeOK
  <1>1. IInv => TypeOK
    BY DEF IInv
  <1> QED BY <1>1, Invariantly, PTL

\* Whatever is being answered was let in before both deadlines (do_GET).
THEOREM Window == Spec => []AdmittedInWindow
  <1>1. IInv => AdmittedInWindow
    BY DEF IInv, Threads, AdmittedInWindow
  <1> QED BY <1>1, Invariantly, PTL

\* The last line printed is true (serve).
THEOREM LastLine == Spec => []VerdictTrue
  <1>1. IInv => VerdictTrue
    BY DEF IInv, Record
  <1> QED BY <1>1, Invariantly, PTL

\* A second after a deadline, or after a stamp that was that old when it was stored, the
\* page is dead, requests or none (reaper).
THEOREM Reaped == Spec => []ReapedInTime
  <1>1. IInv => ReapedInTime
    BY ConstantsAssumption DEF IInv, TypeOK, Time, Watch, ReapedInTime
  <1> QED BY <1>1, Invariantly, PTL

\* A stamp is only overwritten by a thread let in before the first was stored, be it
\* with a reading later or earlier than the one there (do_GET).
THEOREM NotExtended == Spec => LateComersDoNotExtend
  <1> DEFINE Keeps == \A c \in Client :
         (fetchedAt # None /\ thread[c] = "store" /\ thread'[c] = "answer") => at[c] <= first
  <1>1. IInv => Keeps
    BY DEF IInv, Threads, Record
  <1>2. IInv /\ [Next]_vars => [Keeps]_vars
    BY <1>1
  <1>3. Spec => [][Next]_vars
    BY PTL DEF Spec
  <1>4. Spec => [][Keeps]_vars
    BY <1>2, <1>3, Invariantly, PTL
  <1> QED BY <1>4 DEF LateComersDoNotExtend
=============================================================================
