-------------------------------- MODULE Share --------------------------------
(***************************************************************************)
(* The one-shot page of scripts/share.py: the bundle of one user, served   *)
(* on the operator's own network until GRACE seconds after the page was    *)
(* first fetched or HARD seconds after the start.  The threads that answer *)
(* requests, the reaper and the main thread share `fetched_at` and `dead`  *)
(* without a lock.                                                         *)
(*                                                                         *)
(* What is abstracted:                                                     *)
(*   - the clock counts seconds, and the reaper, which sleeps one second   *)
(*     at a time, is not overslept by another; a handler thread may be     *)
(*     delayed for as long as it likes between two of its steps;           *)
(*   - what _expired reads of the clock and of the flags it reads at one   *)
(*     instant, and so does the reaper on waking;                          *)
(*   - a request is for the page, for a file under the token, or for       *)
(*     anything else; what the answers look like is left out.              *)
(***************************************************************************)
EXTENDS Naturals

CONSTANTS
    Client,     \* connections, each with the thread that serves it
    Address,
    Private,    \* the addresses for which is_private holds
    Hard,       \* HARD_TIMEOUT, in seconds
    Grace,      \* GRACE_AFTER_FETCH, in seconds
    Horizon,    \* bounds the clock
    None        \* no address, no time

ASSUME ConstantsAssumption ==
    /\ Private \subseteq Address
    /\ Hard \in Nat /\ Grace \in Nat
    /\ Horizon \in Nat
    /\ None \notin Address /\ None \notin Nat

VARIABLES
    now,        \* seconds since `started`
    fetchedAt,  \* state["fetched_at"]
    dead,       \* state["dead"]
    main,       \* where the main thread is
    shapes,     \* the kinds of item in the bundle
    bind,
    reaper,     \* where the reaper is ...
    wake,       \* ... and when it wakes
    stopping,   \* server.shutdown() was called
    thread,     \* where each connection's thread is
    said,       \* the last line printed
    at,         \* the clock as each thread's request read it in _expired
    taken,      \* the clock as each thread read it for the stamp
    first,      \* history: when the page was first stamped ...
    stored,     \* history: ... and when last, be it with an older reading
    paged,      \* history: the page was sent before the last line was printed
    early       \* history: a request was refused though Hard had not passed

flags == <<fetchedAt, dead>>
server == <<main, shapes, bind, stopping, said>>
readings == <<at, taken>>
ghosts == <<first, stored, paged, early>>
vars == <<now, flags, server, reaper, wake, thread, readings, ghosts>>

\* A link and a form are both on the page itself; a file is fetched by its name.
Shape == {"link", "file"}
Time == Nat \cup {None}

Steps == {"none", "open", "page", "stamp", "store", "answer", "file"}

TypeOK ==
    /\ now \in Nat
    /\ fetchedAt \in Time
    /\ dead \in BOOLEAN
    /\ main \in {"start", "serving", "closing", "closed", "printed", "over", "refused"}
    /\ shapes \subseteq Shape
    /\ bind \in Private \cup {None}
    /\ reaper \in {"none", "loop", "asleep", "done"}
    /\ wake \in Nat
    /\ stopping \in BOOLEAN
    /\ thread \in [Client -> Steps]
    /\ said \in {"nothing", "burned", "nobody"}
    /\ at \in [Client -> Nat] /\ taken \in [Client -> Nat]
    /\ first \in Time /\ stored \in Time
    /\ paged \in BOOLEAN /\ early \in BOOLEAN

Init ==
    /\ now = 0 /\ fetchedAt = None /\ dead = FALSE
    /\ main = "start" /\ shapes = {} /\ bind = None
    /\ reaper = "none" /\ wake = 0 /\ stopping = FALSE
    /\ thread = [c \in Client |-> "none"]
    /\ said = "nothing"
    /\ at = [c \in Client |-> 0] /\ taken = [c \in Client |-> 0]
    /\ first = None /\ stored = None
    /\ paged = FALSE /\ early = FALSE

\* The thread has answered, or has nobody left to answer.
Finish(c, then) ==
    /\ thread' = [thread EXCEPT ![c] = then]
    /\ at' = [at EXCEPT ![c] = 0]
    /\ taken' = [taken EXCEPT ![c] = 0]

\* What _expired and the reaper ask of the clock.
PastHour == now > Hard
PastGrace == fetchedAt # None /\ now > fetchedAt + Grace
-----------------------------------------------------------------------------
(***************************************************************************)
(* The main thread                                                         *)
(***************************************************************************)

\* pick_bind: the address asked for, or any private one this machine has.
Bindable(explicit, local) ==
    (IF explicit = None THEN local ELSE {explicit}) \cap Private

\* Bundle: an item in no known shape is dropped.
Refuse(payload, explicit, local) ==
    /\ main = "start"
    /\ payload = {} \/ Bindable(explicit, local) = {}
    /\ main' = "refused"
    /\ UNCHANGED <<now, flags, shapes, bind, stopping, said, reaper, wake, thread, readings, ghosts>>

Serve(payload, explicit, local) ==
    /\ main = "start"
    /\ payload # {}
    /\ bind' \in Bindable(explicit, local)
    /\ shapes' = payload
    /\ main' = "serving"
    /\ reaper' = "loop"
    /\ UNCHANGED <<now, flags, stopping, said, wake, thread, readings, ghosts>>

Begin == \E payload \in SUBSET Shape, explicit \in Address \cup {None}, local \in SUBSET Address :
    Refuse(payload, explicit, local) \/ Serve(payload, explicit, local)

\* serve_forever polls for the shutdown request; Ctrl-C ends it too.
StopServing ==
    /\ main = "serving"
    /\ stopping
    /\ main' = "closing"
    /\ UNCHANGED <<now, flags, shapes, bind, stopping, said, reaper, wake, thread, readings, ghosts>>

Interrupt ==
    /\ main = "serving"
    /\ main' = "closing"
    /\ UNCHANGED <<now, flags, shapes, bind, stopping, said, reaper, wake, thread, readings, ghosts>>

\* server_close does not wait for daemon threads.
CloseServer ==
    /\ main = "closing"
    /\ main' = "closed"
    /\ UNCHANGED <<now, flags, shapes, bind, stopping, said, reaper, wake, thread, readings, ghosts>>

Say ==
    /\ main = "closed"
    /\ said' = IF fetchedAt # None THEN "burned" ELSE "nobody"
    /\ main' = "printed"
    /\ UNCHANGED <<now, flags, shapes, bind, stopping, reaper, wake, thread, readings, ghosts>>

\* The process ends, and its daemon threads with it.
Exit ==
    /\ main = "printed"
    /\ main' = "over"
    /\ thread' = [c \in Client |-> "none"]
    /\ at' = [c \in Client |-> 0] /\ taken' = [c \in Client |-> 0]
    /\ reaper' = "done"
    /\ UNCHANGED <<now, flags, shapes, bind, stopping, said, wake, ghosts>>
-----------------------------------------------------------------------------
(***************************************************************************)
(* The reaper                                                              *)
(***************************************************************************)

Sleep ==
    /\ reaper = "loop" /\ ~dead
    /\ reaper' = "asleep"
    /\ wake' = now + 1
    /\ UNCHANGED <<now, flags, server, thread, readings, ghosts>>

Look ==
    /\ reaper = "asleep" /\ now >= wake
    /\ dead' = (dead \/ PastHour \/ PastGrace)
    /\ reaper' = "loop"
    /\ wake' = 0
    /\ UNCHANGED <<now, fetchedAt, server, thread, readings, ghosts>>

\* Faulty variant: a reaper that ends without telling the server
ShutdownNot ==
    /\ reaper = "loop" /\ dead
    /\ reaper' = "done"
    /\ UNCHANGED <<now, flags, server, wake, thread, readings, ghosts>>

Shutdown ==
    /\ reaper = "loop" /\ dead
    /\ stopping' = TRUE
    /\ reaper' = "done"
    /\ UNCHANGED <<now, flags, main, shapes, bind, said, wake, thread, readings, ghosts>>

\* Nobody oversleeps a second.
Tick ==
    /\ now < Horizon
    /\ main \notin {"start", "refused", "over"}
    /\ reaper # "loop"
    /\ reaper = "asleep" => now < wake
    /\ now' = now + 1
    /\ UNCHANGED <<flags, server, reaper, wake, thread, readings, ghosts>>
-----------------------------------------------------------------------------
(***************************************************************************)
(* The handler threads.  A connection carries one request after another    *)
(* (HTTP/1.1) until an error answer or the client closes it.               *)
(***************************************************************************)

Connect(c) ==
    /\ main = "serving"
    /\ thread[c] = "none"
    /\ thread' = [thread EXCEPT ![c] = "open"]
    /\ UNCHANGED <<now, flags, server, reaper, wake, readings, ghosts>>

\* The link is dead, or is found to be: a 404, as to anything else.
Expire(c) ==
    /\ dead' = TRUE
    /\ Finish(c, "none")
    /\ early' = (early \/ now <= Hard)
    /\ UNCHANGED <<now, fetchedAt, server, reaper, wake, first, stored, paged>>

\* _expired says so, ...
Turn(c) ==
    /\ thread[c] = "open"
    /\ dead \/ PastHour \/ PastGrace
    /\ Expire(c)

\* Faulty variant: requests are let in for as long as the reaper has not spoken
AdmitUntilDead(c, want) ==
    /\ thread[c] = "open"
    /\ ~dead
    /\ want = "file" => "file" \in shapes
    /\ thread' = [thread EXCEPT ![c] = want]
    /\ at' = [at EXCEPT ![c] = now]
    /\ UNCHANGED <<now, flags, server, reaper, wake, taken, ghosts>>

\* ... or lets the request in.
Admit(c, want) ==
    /\ thread[c] = "open"
    /\ ~dead /\ ~PastHour /\ ~PastGrace
    /\ want = "file" => "file" \in shapes
    /\ thread' = [thread EXCEPT ![c] = want]
    /\ at' = [at EXCEPT ![c] = now]
    /\ UNCHANGED <<now, flags, server, reaper, wake, taken, ghosts>>

\* Whatever is not there is a 404, as a wrong token is.
NotFound(c) ==
    /\ thread[c] = "open"
    /\ ~dead /\ ~PastHour /\ ~PastGrace
    /\ Finish(c, "none")
    /\ UNCHANGED <<now, flags, server, reaper, wake, ghosts>>

\* Faulty variant: every fetch of the page stamps it
TestNot(c) ==
    /\ thread[c] = "page"
    /\ thread' = [thread EXCEPT ![c] = "stamp"]
    /\ UNCHANGED <<now, flags, server, reaper, wake, readings, ghosts>>

\* Faulty variant: the page is sent first and stamped afterwards
TestLate(c) ==
    /\ thread[c] = "page"
    /\ thread' = [thread EXCEPT ![c] = "answer"]
    /\ UNCHANGED <<now, flags, server, reaper, wake, readings, ghosts>>

\* if state["fetched_at"] is None: the test, and then the assignment.
Test(c) ==
    /\ thread[c] = "page"
    /\ thread' = [thread EXCEPT ![c] = IF fetchedAt = None THEN "stamp" ELSE "answer"]
    /\ UNCHANGED <<now, flags, server, reaper, wake, readings, ghosts>>

\* The clock is read ...
Stamp(c) ==
    /\ thread[c] = "stamp"
    /\ taken' = [taken EXCEPT ![c] = now]
    /\ thread' = [thread EXCEPT ![c] = "store"]
    /\ UNCHANGED <<now, flags, server, reaper, wake, at, ghosts>>

\* ... and what it read is stored, over whatever is there by then.
Store(c) ==
    /\ thread[c] = "store"
    /\ fetchedAt' = taken[c]
    /\ first' = IF first = None THEN now ELSE first
    /\ stored' = now
    /\ thread' = [thread EXCEPT ![c] = "answer"]
    /\ taken' = [taken EXCEPT ![c] = 0]
    /\ UNCHANGED <<now, dead, server, reaper, wake, at, paged, early>>

SendPage(c) ==
    /\ thread[c] = "answer"
    /\ Finish(c, "open")
    /\ paged' = (paged \/ said = "nothing")
    /\ UNCHANGED <<now, flags, server, reaper, wake, first, stored, early>>

SendFile(c) ==
    /\ thread[c] = "file"
    /\ Finish(c, "open")
    /\ UNCHANGED <<now, flags, server, reaper, wake, ghosts>>

\* The client goes away: between requests, or while it is being answered.
HangUp(c) ==
    /\ thread[c] \in {"open", "answer", "file"}
    /\ Finish(c, "none")
    /\ UNCHANGED <<now, flags, server, reaper, wake, ghosts>>

Handler(c) ==
    \/ Connect(c)
    \/ Turn(c) \/ NotFound(c)
    \/ \E want \in {"page", "file"} : Admit(c, want)
    \/ Test(c) \/ Stamp(c) \/ Store(c) \/ SendPage(c) \/ SendFile(c)
    \/ HangUp(c)

Reaper == Sleep \/ Look \/ Shutdown

Main == Begin \/ StopServing \/ CloseServer \/ Say \/ Exit

Next == Main \/ Interrupt \/ Reaper \/ Tick \/ \E c \in Client : Handler(c)

\* The clock, the reaper and the main thread go on; clients need not.
Spec == Init /\ [][Next]_vars /\ WF_vars(Main) /\ WF_vars(Reaper) /\ WF_vars(Tick)
-----------------------------------------------------------------------------
(***************************************************************************)
(* Properties                                                              *)
(***************************************************************************)

Busy(c) == thread[c] \in {"page", "stamp", "store", "answer", "file"}

\* Every request being answered was let in while the link was alive: not after
\* Hard, not after Grace from the last stamp.  The threads hold no lock, so a slow
\* one may be answering long after `dead` was set, and may be let in over a stamp
\* that another one has read the clock for and not stored (do_GET, _expired).
AdmittedInWindow ==
    \A c \in Client : Busy(c) =>
        /\ at[c] <= Hard
        /\ fetchedAt # None => at[c] <= stored + Grace

\* Who comes once the page has its stamp does not prolong the link: the test for
\* None, the reading of the clock and the assignment are three steps, so a stamp may
\* be overwritten, by a later reading or by an earlier one, but only by a thread
\* whose request came before the first was stored (do_GET).
LateComersDoNotExtend ==
    [][\A c \in Client :
         (fetchedAt # None /\ thread[c] = "store" /\ thread'[c] = "answer") => at[c] <= first]_vars

\* What the operator learns is true.  The tripwire of the docstring: a request is
\* refused before Hard only if somebody asked for the page in time (_expired and the
\* reaper both set `dead`).  The last line: nobody was sent the page if it says so, and
\* somebody asked for it if it says burned; what a thread sends after the line was
\* printed, which nothing waits for, is not counted (serve).
VerdictTrue ==
    /\ early => first # None
    /\ said = "nobody" => ~paged
    /\ said = "burned" => first # None

\* The page dies of its own accord: a second after either deadline `dead` is set,
\* or a second after a stamp was stored whose reading was that old already, whether
\* or not another request comes (reaper).
ReapedInTime ==
    reaper # "done" =>
        /\ now > Hard + 1 => dead
        /\ (fetchedAt # None /\ now > fetchedAt + Grace + 1 /\ now > stored + 1) => dead

\* Once served, the page goes away though no client ever comes, and though some
\* client never lets go of its connection.
EventuallyOver == (main = "serving") ~> (main = "over")
=============================================================================
