---------------------------- MODULE TunnelProofs ----------------------------
(***************************************************************************)
(* Proofs about TunnelService and, over it, TunnelController, for any      *)
(* profiles, instances and bounds: their types, and each of their          *)
(* invariants but the one that a run refutes.                              *)
(*                                                                         *)
(* IInv is about two orders: that of the lifecycle messages in the main    *)
(* looper's queue, and that of the jobs in a worker's.  Each has its own   *)
(* part of the invariant, stated of the queue as a parameter, so that an   *)
(* action is a matter of which lemma about its queue applies.  JInv adds   *)
(* what the record and the file say of the tunnel, and who is on its way   *)
(* to make up for the difference.  Under the app the same holds: its steps *)
(* are steps of the service.  SInv follows a status from where it is set   *)
(* to the screen, and FInv a stop from the screen to the file.             *)
(***************************************************************************)
EXTENDS TunnelController, SequenceTheorems, TLAPS

(***************************************************************************)
(* Sequences                                                               *)
(***************************************************************************)

LEMMA Indexed ==
    ASSUME NEW S, NEW q \in Seq(S)
    PROVE  Len(q) \in Nat /\ DOMAIN q = 1 .. Len(q) /\ \A i \in DOMAIN q : q[i] \in S
BY LenProperties, ElementOfSeq

LEMMA IndexedTail ==
    ASSUME NEW S, NEW q \in Seq(S), q # <<>>
    PROVE  /\ Head(q) = q[1] /\ Head(q) \in S
           /\ Tail(q) \in Seq(S)
           /\ Len(q) \in Nat \ {0} /\ DOMAIN q = 1 .. Len(q)
           /\ DOMAIN Tail(q) = 1 .. Len(q) - 1
           /\ \A i \in 1 .. Len(q) - 1 : Tail(q)[i] = q[i + 1]
           /\ \A i \in 2 .. Len(q) : q[i] = Tail(q)[i - 1]
<1>1. Len(q) \in Nat \ {0} /\ DOMAIN q = 1 .. Len(q)
  BY EmptySeq, LenProperties
<1>2. Tail(q) \in Seq(S) /\ Len(Tail(q)) = Len(q) - 1 /\ Head(q) \in S
      /\ \A i \in 1 .. Len(Tail(q)) : Tail(q)[i] = q[i + 1]
  BY HeadTailProperties
<1>3. DOMAIN Tail(q) = 1 .. Len(q) - 1
  BY <1>2, LenProperties
<1>4. Head(q) = q[1]
  OBVIOUS
<1>5. \A i \in 2 .. Len(q) : q[i] = Tail(q)[i - 1]
  BY <1>1, <1>2
<1> QED
  BY <1>1, <1>2, <1>3, <1>4, <1>5

\* Where the elements of the tail are in the whole, and the other way round.
Up(q) == [i \in 1 .. Len(q) - 1 |-> i + 1]
Down(q) == [i \in 2 .. Len(q) |-> i - 1]

LEMMA Shifted ==
    ASSUME NEW S, NEW q \in Seq(S), q # <<>>
    PROVE  /\ \A i \in DOMAIN Tail(q) :
                  /\ Up(q)[i] \in DOMAIN q /\ Up(q)[i] # 1 /\ 1 < Up(q)[i]
                  /\ Tail(q)[i] = q[Up(q)[i]] /\ Down(q)[Up(q)[i]] = i
           /\ \A k \in DOMAIN q : k # 1 =>
                  /\ Down(q)[k] \in DOMAIN Tail(q)
                  /\ q[k] = Tail(q)[Down(q)[k]] /\ Up(q)[Down(q)[k]] = k
           /\ \A i, j \in DOMAIN Tail(q) : i < j <=> Up(q)[i] < Up(q)[j]
           /\ 1 \in DOMAIN q /\ \A i \in DOMAIN q : ~(i < 1)
<1> DEFINE n == Len(q)
           p == Tail(q)
           up == Up(q)
           down == Down(q)
<1>1. /\ n \in Nat \ {0} /\ DOMAIN q = 1 .. n /\ DOMAIN p = 1 .. n - 1
      /\ \A i \in 1 .. n - 1 : p[i] = q[i + 1]
      /\ \A i \in 2 .. n : q[i] = p[i - 1]
  BY IndexedTail
<1>2. \A i \in DOMAIN p : up[i] = i + 1 /\ i + 1 \in 2 .. n /\ i \in Int
  BY <1>1 DEF Up
<1>3. \A k \in DOMAIN q : k # 1 => down[k] = k - 1 /\ k - 1 \in 1 .. n - 1 /\ k \in 2 .. n
  BY <1>1 DEF Down
<1> HIDE DEF n, p, up, down
<1>4. \A i \in DOMAIN p : /\ up[i] \in DOMAIN q /\ up[i] # 1 /\ 1 < up[i]
                         /\ p[i] = q[up[i]] /\ down[up[i]] = i
  BY <1>1, <1>2, <1>3
<1>5. \A k \in DOMAIN q : k # 1 => /\ down[k] \in DOMAIN p
                                  /\ q[k] = p[down[k]] /\ up[down[k]] = k
  BY <1>1, <1>2, <1>3
<1>6. \A i, j \in DOMAIN p : i < j <=> up[i] < up[j]
  BY <1>2
<1>7. 1 \in DOMAIN q /\ \A i \in DOMAIN q : ~(i < 1)
  BY <1>1
<1> QED
  BY <1>4, <1>5, <1>6, <1>7 DEF p, up, down

LEMMA IndexedAppend ==
    ASSUME NEW S, NEW q \in Seq(S), NEW m \in S
    PROVE  /\ Append(q, m) \in Seq(S)
           /\ Len(q) \in Nat /\ DOMAIN q = 1 .. Len(q)
           /\ DOMAIN Append(q, m) = 1 .. Len(q) + 1
           /\ \A i \in DOMAIN q : Append(q, m)[i] = q[i]
           /\ Append(q, m)[Len(q) + 1] = m
BY AppendProperties, LenProperties


(***************************************************************************)
(* The main looper's queue                                                 *)
(***************************************************************************)

Is(m, what, s) == m.what = what /\ m.service = s

Sent(q, what, s) == \E i \in DOMAIN q : Is(q[i], what, s)

\* There is nothing after the destroy of an instance but runnables.
Final(q) ==
    \A i \in DOMAIN q : q[i].what = "destroy" =>
        \A j \in DOMAIN q : i < j /\ q[j].service = q[i].service => q[j].what = "stopSelf"

\* What needs an instance that is there has one, or its creation before it.
Prepared(q, o) ==
    \A i \in DOMAIN q : q[i].what \in {"args", "destroy"} =>
        \/ o[q[i].service]
        \/ \E j \in DOMAIN q : j < i /\ Is(q[j], "create", q[i].service)

\* The current instance is there, or is going to be, and stays.
Current(q, b, o) ==
    b # None => /\ o[b] \/ Sent(q, "create", b)
                /\ ~Sent(q, "destroy", b)

\* Whoever is not the current instance is going to be destroyed ...
Leaving(q, b, o) ==
    /\ \A s \in Service : o[s] => b = s \/ Sent(q, "destroy", s)
    /\ \A i \in DOMAIN q : q[i].what = "create" =>
           \/ b = q[i].service
           \/ \E j \in DOMAIN q : i < j /\ Is(q[j], "destroy", q[i].service)

\* ... before the next one is created.
Sequential(q, o) ==
    \A i \in DOMAIN q : q[i].what = "create" =>
        /\ \A s \in Service : o[s] => \E j \in DOMAIN q : j < i /\ Is(q[j], "destroy", s)
        /\ \A k \in DOMAIN q : k < i /\ q[k].what = "create" =>
               \E j \in DOMAIN q : k < j /\ j < i /\ Is(q[j], "destroy", q[k].service)

Single(o) == \A s, t \in Service : o[s] /\ o[t] => s = t

\* The queue q, when b is bound and o says which instances are open.
Orderly(q, b, o) ==
    /\ q \in Seq(Message)
    /\ b \in Service \cup {None}
    /\ o \in [Service -> BOOLEAN]
    /\ Final(q) /\ Prepared(q, o) /\ Current(q, b, o) /\ Leaving(q, b, o) /\ Sequential(q, o)
    /\ Single(o)

LEMMA MessageFacts ==
    /\ \A m \in Message :
           /\ m.what \in {"create", "args", "stopSelf", "destroy"} /\ m.service \in Service
           /\ m.what = "args" => m.request \in Request
    /\ \A s \in Service : \A what \in {"create", "stopSelf", "destroy"} :
           /\ Lifecycle(what, s) \in Message
           /\ Lifecycle(what, s).what = what /\ Lifecycle(what, s).service = s
    /\ \A s \in Service, r \in Request :
           /\ Args(s, r) \in Message
           /\ Args(s, r).what = "args" /\ Args(s, r).service = s /\ Args(s, r).request = r
BY DEF Message, Lifecycle, Args

\* A request to the current instance.
LEMMA OrderlyArgs ==
    ASSUME NEW q, NEW b, NEW o, Orderly(q, b, o), b # None, NEW r \in Request
    PROVE  Orderly(Append(q, Args(b, r)), b, o)
<1> DEFINE m == Args(b, r)
           p == Append(q, m)
           n == Len(q)
<1>1. b \in Service /\ m \in Message /\ m.what = "args" /\ m.service = b
  BY MessageFacts DEF Orderly
<1>2. /\ p \in Seq(Message) /\ n \in Nat /\ DOMAIN q = 1 .. n /\ DOMAIN p = 1 .. n + 1
      /\ \A i \in DOMAIN q : p[i] = q[i]
      /\ p[n + 1] = m
  BY <1>1, IndexedAppend DEF Orderly
<1> HIDE DEF m, p, n
<1> USE DEF Is, Sent
<1>3. Final(p)
  BY <1>1, <1>2 DEF Orderly, Final, Current
<1>4. Prepared(p, o)
  BY <1>1, <1>2 DEF Orderly, Prepared, Current
<1>5. Current(p, b, o)
  BY <1>1, <1>2 DEF Orderly, Current
<1>6. Leaving(p, b, o)
  BY <1>1, <1>2 DEF Orderly, Leaving
<1>7. Sequential(p, o)
  BY <1>1, <1>2 DEF Orderly, Sequential
<1> QED
  BY <1>1, <1>2, <1>3, <1>4, <1>5, <1>6, <1>7 DEF Orderly, p, m

\* A runnable.
LEMMA OrderlyStopSelf ==
    ASSUME NEW q, NEW b, NEW o, Orderly(q, b, o), NEW s \in Service
    PROVE  Orderly(Append(q, Lifecycle("stopSelf", s)), b, o)
<1> DEFINE m == Lifecycle("stopSelf", s)
           p == Append(q, m)
           n == Len(q)
<1>1. m \in Message /\ m.what = "stopSelf" /\ m.service = s
  BY MessageFacts
<1>2. /\ p \in Seq(Message) /\ n \in Nat /\ DOMAIN q = 1 .. n /\ DOMAIN p = 1 .. n + 1
      /\ \A i \in DOMAIN q : p[i] = q[i]
      /\ p[n + 1] = m
  BY <1>1, IndexedAppend DEF Orderly
<1> HIDE DEF m, p, n
<1> USE DEF Is, Sent
<1>3. Final(p)
  BY <1>1, <1>2 DEF Orderly, Final
<1>4. Prepared(p, o)
  BY <1>1, <1>2 DEF Orderly, Prepared
<1>5. Current(p, b, o)
  BY <1>1, <1>2 DEF Orderly, Current
<1>6. Leaving(p, b, o)
  BY <1>1, <1>2 DEF Orderly, Leaving
<1>7. Sequential(p, o)
  BY <1>1, <1>2 DEF Orderly, Sequential
<1> QED
  BY <1>2, <1>3, <1>4, <1>5, <1>6, <1>7 DEF Orderly, p, m

\* The current instance is to be destroyed, and is it no longer.
LEMMA OrderlyDestroy ==
    ASSUME NEW q, NEW b, NEW o, Orderly(q, b, o), b # None
    PROVE  Orderly(Append(q, Lifecycle("destroy", b)), None, o)
<1> DEFINE m == Lifecycle("destroy", b)
           p == Append(q, m)
           n == Len(q)
<1>1. b \in Service /\ m \in Message /\ m.what = "destroy" /\ m.service = b
  BY MessageFacts DEF Orderly
<1>2. /\ p \in Seq(Message) /\ n \in Nat /\ DOMAIN q = 1 .. n /\ DOMAIN p = 1 .. n + 1
      /\ \A i \in DOMAIN q : p[i] = q[i]
      /\ p[n + 1] = m
  BY <1>1, IndexedAppend DEF Orderly
<1> HIDE DEF m, p, n
<1> USE DEF Is, Sent
<1>3. Final(p)
  BY <1>1, <1>2 DEF Orderly, Final, Current
<1>4. Prepared(p, o)
  BY <1>1, <1>2 DEF Orderly, Prepared, Current
<1>5. Current(p, None, o)
  BY DEF Current
<1>6. Leaving(p, None, o)
  BY <1>1, <1>2 DEF Orderly, Leaving
<1>7. Sequential(p, o)
  BY <1>1, <1>2 DEF Orderly, Sequential
<1> QED
  BY <1>2, <1>3, <1>4, <1>5, <1>6, <1>7 DEF Orderly, p, m

\* A new instance, when there is no current one.
LEMMA OrderlyFresh ==
    ASSUME NEW q, NEW o, Orderly(q, None, o), NEW s \in Service, NEW r \in Request, ~o[s],
           \A i \in DOMAIN q : q[i].service # s
    PROVE  Orderly(q \o <<Lifecycle("create", s), Args(s, r)>>, s, o)
<1> DEFINE c == Lifecycle("create", s)
           m == Args(s, r)
           p == q \o <<c, m>>
           n == Len(q)
<1>1. /\ c \in Message /\ c.what = "create" /\ c.service = s
      /\ m \in Message /\ m.what = "args" /\ m.service = s
  BY MessageFacts
<1>2. /\ p \in Seq(Message) /\ n \in Nat /\ DOMAIN q = 1 .. n /\ DOMAIN p = 1 .. n + 2
      /\ \A i \in DOMAIN q : p[i] = q[i]
      /\ p[n + 1] = c /\ p[n + 2] = m
  <2>1. q \in Seq(Message) /\ <<c, m>> \in Seq(Message) /\ Len(<<c, m>>) = 2
    BY <1>1 DEF Orderly
  <2>2. n \in Nat /\ DOMAIN q = 1 .. n
    BY <2>1, LenProperties
  <2>3. /\ p \in Seq(Message) /\ Len(p) = n + 2
        /\ \A i \in 1 .. n + 2 : p[i] = IF i <= n THEN q[i] ELSE <<c, m>>[i - n]
    BY <2>1, ConcatProperties
  <2>4. DOMAIN p = 1 .. n + 2
    BY <2>3, LenProperties
  <2>5. (n + 1) - n = 1 /\ (n + 2) - n = 2 /\ n + 1 \in 1 .. n + 2 /\ n + 2 \in 1 .. n + 2
    BY <2>2
  <2>6. p[n + 1] = <<c, m>>[1] /\ p[n + 2] = <<c, m>>[2]
    BY <2>2, <2>3, <2>5
  <2> QED
    BY <2>2, <2>3, <2>4, <2>6
<1> HIDE DEF m, c, p, n
<1> USE DEF Is, Sent
<1>3. s # None
  BY ConstantsAssumption
<1>4. Final(p)
  BY <1>1, <1>2 DEF Orderly, Final
<1>5. Prepared(p, o)
  BY <1>1, <1>2 DEF Orderly, Prepared
<1>6. Current(p, s, o)
  BY <1>1, <1>2 DEF Orderly, Current
<1>7. \A i \in DOMAIN q : q[i].service \in Service
  BY Indexed, MessageFacts DEF Orderly
<1>8. \A t \in Service : o[t] => \E j \in DOMAIN q : Is(q[j], "destroy", t)
  BY ConstantsAssumption DEF Orderly, Leaving
<1>9. \A k \in DOMAIN q : q[k].what = "create" =>
          \E j \in DOMAIN q : k < j /\ Is(q[j], "destroy", q[k].service)
  BY <1>7, ConstantsAssumption DEF Orderly, Leaving
<1>10. Leaving(p, s, o)
  BY <1>1, <1>2, <1>8, <1>9 DEF Leaving
<1>11. Sequential(p, o)
  <2> SUFFICES ASSUME NEW i \in DOMAIN p, p[i].what = "create"
               PROVE  /\ \A t \in Service : o[t] => \E j \in DOMAIN p : j < i /\ Is(p[j], "destroy", t)
                      /\ \A k \in DOMAIN p : k < i /\ p[k].what = "create" =>
                            \E j \in DOMAIN p : k < j /\ j < i /\ Is(p[j], "destroy", p[k].service)
    BY DEF Sequential
  <2>1. CASE i = n + 1
    BY <1>2, <1>8, <1>9, <2>1
  <2>2. CASE i \in DOMAIN q
    <3>1. p[i] = q[i] /\ q[i].what = "create"
      BY <1>2, <2>2
    <3>2. \A t \in Service : o[t] => \E j \in DOMAIN q : j < i /\ Is(q[j], "destroy", t)
      BY <2>2, <3>1 DEF Orderly, Sequential
    <3>3. \A k \in DOMAIN q : k < i /\ q[k].what = "create" =>
              \E j \in DOMAIN q : k < j /\ j < i /\ Is(q[j], "destroy", q[k].service)
      BY <2>2, <3>1 DEF Orderly, Sequential
    <3>4. \A k \in DOMAIN p : k < i => k \in DOMAIN q /\ p[k] = q[k]
      BY <1>2, <2>2
    <3>5. \A j \in DOMAIN q : j \in DOMAIN p /\ p[j] = q[j]
      BY <1>2
    <3> QED
      BY <3>2, <3>3, <3>4, <3>5
  <2> QED
    BY <1>1, <1>2, <2>1, <2>2
<1> QED
  BY <1>2, <1>4, <1>5, <1>6, <1>10, <1>11 DEF Orderly, p, c, m

\* A message is taken that neither creates nor destroys.
LEMMA OrderlyTaken ==
    ASSUME NEW q, NEW b, NEW o, Orderly(q, b, o), q # <<>>, Head(q).what \in {"args", "stopSelf"}
    PROVE  Orderly(Tail(q), b, o)
<1> DEFINE p == Tail(q)
           up == Up(q)
           down == Down(q)
<1>1. /\ \A i \in DOMAIN p :
             /\ up[i] \in DOMAIN q /\ up[i] # 1 /\ 1 < up[i]
             /\ p[i] = q[up[i]] /\ down[up[i]] = i
      /\ \A k \in DOMAIN q : k # 1 =>
             /\ down[k] \in DOMAIN p
             /\ q[k] = p[down[k]] /\ up[down[k]] = k
      /\ \A i, j \in DOMAIN p : i < j <=> up[i] < up[j]
      /\ 1 \in DOMAIN q /\ \A i \in DOMAIN q : ~(i < 1)
  BY Shifted DEF Orderly
<1>0. p \in Seq(Message) /\ Head(q) = q[1] /\ Head(q) \in Message
  BY IndexedTail DEF Orderly
<1>2. q[1].what # "create" /\ q[1].what # "destroy"
  BY <1>0
<1> HIDE DEF p, up, down
<1> USE DEF Is, Sent
<1>3. Final(p)
  BY <1>1 DEF Orderly, Final
<1>4. Prepared(p, o)
  BY <1>1, <1>2 DEF Orderly, Prepared
<1>5. Current(p, b, o)
  BY <1>1, <1>2 DEF Orderly, Current
<1>6. Leaving(p, b, o)
  BY <1>1, <1>2 DEF Orderly, Leaving
<1>7. Sequential(p, o)
  <2> SUFFICES ASSUME NEW i \in DOMAIN p, p[i].what = "create"
               PROVE  /\ \A t \in Service : o[t] => \E j \in DOMAIN p : j < i /\ Is(p[j], "destroy", t)
                      /\ \A k \in DOMAIN p : k < i /\ p[k].what = "create" =>
                            \E j \in DOMAIN p : k < j /\ j < i /\ Is(p[j], "destroy", p[k].service)
    BY DEF Sequential
  <2>1. q[up[i]].what = "create" /\ up[i] \in DOMAIN q
    BY <1>1
  <2>2. \A t \in Service : o[t] => \E j \in DOMAIN q : j < up[i] /\ Is(q[j], "destroy", t)
    BY <2>1 DEF Orderly, Sequential
  <2>3. \A k \in DOMAIN q : k < up[i] /\ q[k].what = "create" =>
            \E j \in DOMAIN q : k < j /\ j < up[i] /\ Is(q[j], "destroy", q[k].service)
    BY <2>1 DEF Orderly, Sequential
  <2>4. ASSUME NEW t \in Service, o[t]
        PROVE  \E j \in DOMAIN p : j < i /\ Is(p[j], "destroy", t)
    <3>1. PICK j \in DOMAIN q : j < up[i] /\ Is(q[j], "destroy", t)
      BY <2>2, <2>4
    <3>2. j # 1
      BY <1>2, <3>1
    <3>3. down[j] \in DOMAIN p /\ p[down[j]] = q[j] /\ down[j] < i
      BY <1>1, <3>1, <3>2
    <3> QED
      BY <3>1, <3>3
  <2>5. ASSUME NEW k \in DOMAIN p, k < i, p[k].what = "create"
        PROVE  \E j \in DOMAIN p : k < j /\ j < i /\ Is(p[j], "destroy", p[k].service)
    <3>1. up[k] \in DOMAIN q /\ up[k] < up[i] /\ q[up[k]] = p[k]
      BY <1>1, <2>5
    <3>2. PICK j \in DOMAIN q : up[k] < j /\ j < up[i] /\ Is(q[j], "destroy", p[k].service)
      BY <2>3, <2>5, <3>1
    <3>3. j # 1
      BY <1>1, <3>1, <3>2
    <3>4. down[j] \in DOMAIN p /\ p[down[j]] = q[j] /\ k < down[j] /\ down[j] < i
      BY <1>1, <3>2, <3>3
    <3> QED
      BY <3>2, <3>4
  <2> QED
    BY <2>4, <2>5
<1> QED
  BY <1>0, <1>3, <1>4, <1>5, <1>6, <1>7 DEF Orderly, p

\* An instance is created: there is no other.
LEMMA OrderlyCreated ==
    ASSUME NEW q, NEW b, NEW o, Orderly(q, b, o), q # <<>>, Head(q).what = "create",
           NEW s, s = Head(q).service
    PROVE  /\ s \in Service
           /\ \A t \in Service : ~o[t]
           /\ Orderly(Tail(q), b, [o EXCEPT ![s] = TRUE])
<1> DEFINE p == Tail(q)
           up == Up(q)
           down == Down(q)
           u == [o EXCEPT ![s] = TRUE]
<1>1. /\ \A i \in DOMAIN p :
             /\ up[i] \in DOMAIN q /\ up[i] # 1 /\ 1 < up[i]
             /\ p[i] = q[up[i]] /\ down[up[i]] = i
      /\ \A k \in DOMAIN q : k # 1 =>
             /\ down[k] \in DOMAIN p
             /\ q[k] = p[down[k]] /\ up[down[k]] = k
      /\ \A i, j \in DOMAIN p : i < j <=> up[i] < up[j]
      /\ 1 \in DOMAIN q /\ \A i \in DOMAIN q : ~(i < 1)
  BY Shifted DEF Orderly
<1>0. p \in Seq(Message) /\ Head(q) = q[1] /\ Head(q) \in Message
  BY IndexedTail DEF Orderly
<1>2. q[1].what = "create" /\ q[1].service = s
  BY <1>0
<1>3. s \in Service
  BY <1>0, <1>2, MessageFacts
<1>4. \A t \in Service : ~o[t]
  BY <1>1, <1>2 DEF Orderly, Sequential
<1>5. u \in [Service -> BOOLEAN] /\ u[s] /\ \A t \in Service : u[t] => t = s
  BY <1>3, <1>4 DEF Orderly
<1>6. \A i \in DOMAIN q : q[i].service \in Service
  BY Indexed, MessageFacts DEF Orderly
<1> HIDE DEF p, u, up, down
<1> USE DEF Is, Sent
<1>7. Final(p)
  BY <1>1 DEF Orderly, Final
<1>8. Prepared(p, u)
  BY <1>1, <1>2, <1>4, <1>5, <1>6 DEF Orderly, Prepared
<1>9. Current(p, b, u)
  BY <1>1, <1>2, <1>4, <1>5 DEF Orderly, Current
<1>10. Leaving(p, b, u)
  <2>1. ASSUME NEW t \in Service, u[t], b # t PROVE Sent(p, "destroy", t)
    <3>1. t = s
      BY <1>5, <2>1
    <3>2. PICK j \in DOMAIN q : 1 < j /\ Is(q[j], "destroy", t)
      BY <1>1, <1>2, <2>1, <3>1 DEF Orderly, Leaving
    <3> QED
      BY <1>1, <1>2, <3>2
  <2>2. ASSUME NEW i \in DOMAIN p, p[i].what = "create", b # p[i].service
        PROVE  \E j \in DOMAIN p : i < j /\ Is(p[j], "destroy", p[i].service)
    <3>1. up[i] \in DOMAIN q /\ q[up[i]] = p[i] /\ 1 < up[i]
      BY <1>1
    <3>2. PICK j \in DOMAIN q : up[i] < j /\ Is(q[j], "destroy", p[i].service)
      BY <2>2, <3>1 DEF Orderly, Leaving
    <3>3. j # 1
      BY <1>1, <3>1, <3>2
    <3>4. down[j] \in DOMAIN p /\ p[down[j]] = q[j] /\ i < down[j]
      BY <1>1, <3>2, <3>3
    <3> QED
      BY <3>2, <3>4
  <2> QED
    BY <2>1, <2>2 DEF Leaving
<1>11. Sequential(p, u)
  <2> SUFFICES ASSUME NEW i \in DOMAIN p, p[i].what = "create"
               PROVE  /\ \A t \in Service : u[t] => \E j \in DOMAIN p : j < i /\ Is(p[j], "destroy", t)
                      /\ \A k \in DOMAIN p : k < i /\ p[k].what = "create" =>
                            \E j \in DOMAIN p : k < j /\ j < i /\ Is(p[j], "destroy", p[k].service)
    BY DEF Sequential
  <2>1. q[up[i]].what = "create" /\ up[i] \in DOMAIN q
    BY <1>1
  <2>2. \A t \in Service : o[t] => \E j \in DOMAIN q : j < up[i] /\ Is(q[j], "destroy", t)
    BY <2>1 DEF Orderly, Sequential
  <2>3. \A k \in DOMAIN q : k < up[i] /\ q[k].what = "create" =>
            \E j \in DOMAIN q : k < j /\ j < up[i] /\ Is(q[j], "destroy", q[k].service)
    BY <2>1 DEF Orderly, Sequential
  <2>4. ASSUME NEW t \in Service, u[t]
        PROVE  \E j \in DOMAIN p : j < i /\ Is(p[j], "destroy", t)
    <3>1. t = s /\ 1 < up[i] /\ 1 \in DOMAIN q
      BY <1>1, <1>5, <2>4
    <3>2. PICK j \in DOMAIN q : 1 < j /\ j < up[i] /\ Is(q[j], "destroy", t)
      BY <1>2, <2>3, <3>1
    <3>3. j # 1
      BY <1>2, <3>2
    <3>4. down[j] \in DOMAIN p /\ p[down[j]] = q[j] /\ down[j] < i
      BY <1>1, <3>2, <3>3
    <3> QED
      BY <3>2, <3>4
  <2>5. ASSUME NEW k \in DOMAIN p, k < i, p[k].what = "create"
        PROVE  \E j \in DOMAIN p : k < j /\ j < i /\ Is(p[j], "destroy", p[k].service)
    <3>1. up[k] \in DOMAIN q /\ up[k] < up[i] /\ q[up[k]] = p[k]
      BY <1>1, <2>5
    <3>2. PICK j \in DOMAIN q : up[k] < j /\ j < up[i] /\ Is(q[j], "destroy", p[k].service)
      BY <2>3, <2>5, <3>1
    <3>3. j # 1
      BY <1>1, <3>1, <3>2
    <3>4. down[j] \in DOMAIN p /\ p[down[j]] = q[j] /\ k < down[j] /\ down[j] < i
      BY <1>1, <3>2, <3>3
    <3> QED
      BY <3>2, <3>4
  <2> QED
    BY <2>4, <2>5
<1>12. Single(u)
  BY <1>5 DEF Single
<1> QED
  BY <1>0, <1>3, <1>4, <1>5, <1>7, <1>8, <1>9, <1>10, <1>11, <1>12 DEF Orderly, p, u

\* An instance is destroyed: it was the one there was.
LEMMA OrderlyDestroyed ==
    ASSUME NEW q, NEW b, NEW o, Orderly(q, b, o), q # <<>>, Head(q).what = "destroy",
           NEW s, s = Head(q).service
    PROVE  /\ s \in Service /\ o[s] /\ b # s
           /\ \A t \in Service : ~[o EXCEPT ![s] = FALSE][t]
           /\ \A i \in DOMAIN Tail(q) : Tail(q)[i].service = s => Tail(q)[i].what = "stopSelf"
           /\ Orderly(Tail(q), b, [o EXCEPT ![s] = FALSE])
<1> DEFINE p == Tail(q)
           up == Up(q)
           down == Down(q)
           u == [o EXCEPT ![s] = FALSE]
<1>1. /\ \A i \in DOMAIN p :
             /\ up[i] \in DOMAIN q /\ up[i] # 1 /\ 1 < up[i]
             /\ p[i] = q[up[i]] /\ down[up[i]] = i
      /\ \A k \in DOMAIN q : k # 1 =>
             /\ down[k] \in DOMAIN p
             /\ q[k] = p[down[k]] /\ up[down[k]] = k
      /\ \A i, j \in DOMAIN p : i < j <=> up[i] < up[j]
      /\ 1 \in DOMAIN q /\ \A i \in DOMAIN q : ~(i < 1)
  BY Shifted DEF Orderly
<1>0. p \in Seq(Message) /\ Head(q) = q[1] /\ Head(q) \in Message
  BY IndexedTail DEF Orderly
<1>2. q[1].what = "destroy" /\ q[1].service = s
  BY <1>0
<1>3. s \in Service
  BY <1>0, <1>2, MessageFacts
<1>4. o[s]
  BY <1>1, <1>2 DEF Orderly, Prepared
<1>5. u \in [Service -> BOOLEAN] /\ \A t \in Service : ~u[t]
  BY <1>3, <1>4 DEF Orderly, Single
<1>6. \A t \in Service : o[t] => t = s
  BY <1>3, <1>4 DEF Orderly, Single
<1>7. b # s
  BY <1>1, <1>2, <1>3, ConstantsAssumption DEF Orderly, Current, Sent, Is
<1>8. \A i \in DOMAIN p : p[i].service = s => p[i].what = "stopSelf"
  BY <1>1, <1>2 DEF Orderly, Final
<1>9. \A i \in DOMAIN p : p[i].service \in Service
  BY <1>0, Indexed, MessageFacts
<1> HIDE DEF p, u, up, down
<1> USE DEF Is, Sent
<1>10. Final(p)
  BY <1>1 DEF Orderly, Final
<1>11. Prepared(p, u)
  BY <1>1, <1>2, <1>6, <1>8, <1>9 DEF Orderly, Prepared
<1>12. Current(p, b, u)
  BY <1>1, <1>2, <1>6, <1>7 DEF Orderly, Current
<1>13. Leaving(p, b, u)
  <2>1. \A t \in Service : u[t] => b = t \/ Sent(p, "destroy", t)
    BY <1>5
  <2>2. ASSUME NEW i \in DOMAIN p, p[i].what = "create", b # p[i].service
        PROVE  \E j \in DOMAIN p : i < j /\ Is(p[j], "destroy", p[i].service)
    <3>1. up[i] \in DOMAIN q /\ q[up[i]] = p[i] /\ 1 < up[i]
      BY <1>1
    <3>2. PICK j \in DOMAIN q : up[i] < j /\ Is(q[j], "destroy", p[i].service)
      BY <2>2, <3>1 DEF Orderly, Leaving
    <3>3. j # 1
      BY <1>1, <3>1, <3>2
    <3>4. down[j] \in DOMAIN p /\ p[down[j]] = q[j] /\ i < down[j]
      BY <1>1, <3>2, <3>3
    <3> QED
      BY <3>2, <3>4
  <2> QED
    BY <2>1, <2>2 DEF Leaving
<1>14. Sequential(p, u)
  <2> SUFFICES ASSUME NEW i \in DOMAIN p, p[i].what = "create"
               PROVE  /\ \A t \in Service : u[t] => \E j \in DOMAIN p : j < i /\ Is(p[j], "destroy", t)
                      /\ \A k \in DOMAIN p : k < i /\ p[k].what = "create" =>
                            \E j \in DOMAIN p : k < j /\ j < i /\ Is(p[j], "destroy", p[k].service)
    BY DEF Sequential
  <2>1. q[up[i]].what = "create" /\ up[i] \in DOMAIN q
    BY <1>1
  <2>2. \A t \in Service : o[t] => \E j \in DOMAIN q : j < up[i] /\ Is(q[j], "destroy", t)
    BY <2>1 DEF Orderly, Sequential
  <2>3. \A k \in DOMAIN q : k < up[i] /\ q[k].what = "create" =>
            \E j \in DOMAIN q : k < j /\ j < up[i] /\ Is(q[j], "destroy", q[k].service)
    BY <2>1 DEF Orderly, Sequential
  <2>4. ~\E t \in Service : u[t]
    BY <1>5
  <2>5. ASSUME NEW k \in DOMAIN p, k < i, p[k].what = "create"
        PROVE  \E j \in DOMAIN p : k < j /\ j < i /\ Is(p[j], "destroy", p[k].service)
    <3>1. up[k] \in DOMAIN q /\ up[k] < up[i] /\ q[up[k]] = p[k]
      BY <1>1, <2>5
    <3>2. PICK j \in DOMAIN q : up[k] < j /\ j < up[i] /\ Is(q[j], "destroy", p[k].service)
      BY <2>3, <2>5, <3>1
    <3>3. j # 1
      BY <1>1, <3>1, <3>2
    <3>4. down[j] \in DOMAIN p /\ p[down[j]] = q[j] /\ k < down[j] /\ down[j] < i
      BY <1>1, <3>2, <3>3
    <3> QED
      BY <3>2, <3>4
  <2> QED
    BY <2>4, <2>5
<1>15. Single(u)
  BY <1>5 DEF Single
<1> QED
  BY <1>0, <1>3, <1>4, <1>5, <1>7, <1>8, <1>10, <1>11, <1>12, <1>13, <1>14, <1>15 DEF Orderly, p, u

\* Nothing waits, and there is no instance.
LEMMA OrderlyNothing == Orderly(<<>>, None, [s \in Service |-> FALSE])
<1>1. DOMAIN <<>> = {} /\ <<>> \in Seq(Message)
  OBVIOUS
<1> QED
  BY <1>1 DEF Orderly, Final, Prepared, Current, Leaving, Sequential, Single

(***************************************************************************)
(* A worker's queue                                                        *)
(***************************************************************************)

Has(j, what) == \E i \in DOMAIN j : j[i].what = what

\* The jobs j of an instance, when its worker is at a, it runs e, and o says
\* whether it is open: whatever has been started is released, and nothing is
\* started after that.
Duty(j, a, e, o) ==
    /\ j \in Seq(Job)
    /\ \A i, k \in DOMAIN j : i < k /\ j[i].what = "release" => j[k].what # "start"
    /\ a \in {"resolved", "launched"} => j # <<>> /\ Head(j).what = "start"
    /\ a = "resolved" => Head(j).request \in Profile
    /\ ~o /\ (Has(j, "start") \/ e # None) => Has(j, "release")

\* With bs the instance's boxStarted: one start at most is queued or has been run.
Sole(j, a, e, bs) ==
    /\ Has(j, "start") \/ e # None => bs
    /\ \A i, k \in DOMAIN j : j[i].what = "start" /\ j[k].what = "start" => i = k
    /\ e # None => \A i \in DOMAIN j : j[i].what = "start" => i = 1 /\ a = "launched"

LEMMA JobFacts ==
    /\ \A m \in Job : m.what \in {"start", "shutdown", "release"}
    /\ \A m \in Job : m.what = "start" => m.request \in Request \ {"stop"}
    /\ \A m \in Job : m.what = "shutdown" => m.stage \in Stage /\ m.forget \in BOOLEAN
    /\ \A stage \in Stage, forget \in BOOLEAN :
           Shutdown(stage, forget) \in Job /\ Shutdown(stage, forget).what = "shutdown"
    /\ \A r \in Request \ {"stop"} :
           /\ [what |-> "start", request |-> r] \in Job
           /\ [what |-> "start", request |-> r].what = "start"
           /\ [what |-> "start", request |-> r].request = r
    /\ [what |-> "release"] \in Job /\ [what |-> "release"].what = "release"
BY DEF Job, Shutdown

LEMMA HasAppended ==
    ASSUME NEW j \in Seq(Job), NEW m \in Job
    PROVE  \A what : Has(Append(j, m), what) <=> Has(j, what) \/ m.what = what
BY IndexedAppend DEF Has

LEMMA HasNot ==
    ASSUME NEW j \in Seq(Job), j # <<>>
    PROVE  /\ \A what : Has(j, what) <=> Head(j).what = what \/ Has(Tail(j), what)
           /\ Head(j) = j[1] /\ 1 \in DOMAIN j
BY Shifted, IndexedTail DEF Has

\* Something is queued that is not a start.
LEMMA DutyQueued ==
    ASSUME NEW j, NEW a, NEW e, NEW o, Duty(j, a, e, o),
           NEW m \in Job, m.what # "start"
    PROVE  Duty(Append(j, m), a, e, o)
<1>1. j \in Seq(Job)
  BY DEF Duty
<1>2. j # <<>> => Append(j, m) # <<>> /\ Head(Append(j, m)) = Head(j)
  BY <1>1, IndexedAppend, HasNot, AppendProperties, IndexedTail
<1>3. \A i, k \in DOMAIN Append(j, m) : i < k /\ Append(j, m)[i].what = "release" => Append(j, m)[k].what # "start"
  BY <1>1, IndexedAppend DEF Duty
<1> QED
  BY <1>1, <1>2, <1>3, HasAppended, AppendProperties DEF Duty

\* The release of an instance that closes.
LEMMA DutyClosed ==
    ASSUME NEW j, NEW a, NEW e, NEW o, Duty(j, a, e, o),
           NEW m \in Job, m.what = "release"
    PROVE  Duty(Append(j, m), a, e, FALSE)
<1>1. Duty(Append(j, m), a, e, o)
  BY DutyQueued
<1>2. Has(Append(j, m), "release")
  BY HasAppended DEF Duty
<1> QED
  BY <1>1, <1>2 DEF Duty

\* A start is queued for an instance that is open.
LEMMA DutyStart ==
    ASSUME NEW j, NEW a, NEW e, Duty(j, a, e, TRUE), ~Has(j, "release"),
           NEW m \in Job
    PROVE  Duty(Append(j, m), a, e, TRUE)
<1>1. j \in Seq(Job)
  BY DEF Duty
<1>2. j # <<>> => Append(j, m) # <<>> /\ Head(Append(j, m)) = Head(j)
  BY <1>1, IndexedAppend, HasNot, AppendProperties, IndexedTail
<1>3. \A i, k \in DOMAIN Append(j, m) : i < k /\ Append(j, m)[i].what = "release" => Append(j, m)[k].what # "start"
  BY <1>1, IndexedAppend DEF Duty, Has
<1> QED
  BY <1>1, <1>2, <1>3, AppendProperties DEF Duty

\* A job is done that is not the release.
LEMMA DutyDone ==
    ASSUME NEW j, NEW a, NEW e, NEW o, Duty(j, a, e, o),
           j # <<>>, Head(j).what # "release"
    PROVE  Duty(Tail(j), "idle", e, o)
<1>1. j \in Seq(Job) /\ Tail(j) \in Seq(Job)
  BY IndexedTail DEF Duty
<1>2. \A i, k \in DOMAIN Tail(j) : i < k /\ Tail(j)[i].what = "release" => Tail(j)[k].what # "start"
  BY <1>1, Shifted DEF Duty
<1> QED
  BY <1>1, <1>2, HasNot DEF Duty

\* The release is done.
LEMMA DutyReleased ==
    ASSUME NEW j, NEW a, NEW e, NEW o, Duty(j, a, e, o),
           j # <<>>, Head(j).what = "release"
    PROVE  Duty(Tail(j), "idle", None, o) /\ ~Has(Tail(j), "start")
<1>1. j \in Seq(Job) /\ Tail(j) \in Seq(Job)
  BY IndexedTail DEF Duty
<1>2. \A i, k \in DOMAIN Tail(j) : i < k /\ Tail(j)[i].what = "release" => Tail(j)[k].what # "start"
  BY <1>1, Shifted DEF Duty
<1>3. ~Has(Tail(j), "start")
  BY <1>1, HasNot, Shifted DEF Duty, Has
<1> QED
  BY <1>1, <1>2, <1>3 DEF Duty

LEMMA Resolved ==
    ASSUME NEW j \in Seq(Job), j # <<>>, NEW m \in Job, m.what = Head(j).what
    PROVE  /\ <<m>> \o Tail(j) \in Seq(Job)
           /\ <<m>> \o Tail(j) # <<>> /\ Head(<<m>> \o Tail(j)) = m
           /\ DOMAIN (<<m>> \o Tail(j)) = DOMAIN j
           /\ \A i \in DOMAIN j : (<<m>> \o Tail(j))[i].what = j[i].what
<1> DEFINE n == Len(j)
           p == <<m>> \o Tail(j)
<1>1. /\ j[1] = Head(j) /\ n \in Nat \ {0} /\ DOMAIN j = 1 .. n /\ Tail(j) \in Seq(Job)
      /\ Len(Tail(j)) = n - 1
      /\ \A i \in 1 .. n - 1 : Tail(j)[i] = j[i + 1]
  BY IndexedTail, HeadTailProperties
<1>2. <<m>> \in Seq(Job) /\ Len(<<m>>) = 1 /\ <<m>>[1] = m
  OBVIOUS
<1>3. /\ p \in Seq(Job) /\ Len(p) = 1 + (n - 1)
      /\ \A i \in 1 .. 1 + (n - 1) : p[i] = IF i <= 1 THEN <<m>>[i] ELSE Tail(j)[i - 1]
  BY <1>1, <1>2, ConcatProperties
<1>4. 1 + (n - 1) = n
  BY <1>1
<1>5. DOMAIN p = 1 .. n
  BY <1>3, <1>4, LenProperties
<1>6. p[1] = m
  BY <1>1, <1>2, <1>3
<1>7. \A i \in 2 .. n : p[i] = j[i]
  BY <1>1, <1>3
<1>8. p # <<>> /\ Head(p) = p[1]
  BY <1>3, <1>4, <1>1, EmptySeq, IndexedTail
<1> HIDE DEF p, n
<1>9. \A i \in DOMAIN j : p[i].what = j[i].what
  BY <1>1, <1>6, <1>7
<1> QED
  BY <1>1, <1>3, <1>5, <1>6, <1>8, <1>9 DEF p

\* What a start is for has been found.
LEMMA DutyResolved ==
    ASSUME NEW j, NEW a, NEW e, NEW o, Duty(j, a, e, o), j # <<>>, Head(j).what = "start",
           NEW r \in Profile
    PROVE  Duty(<<[what |-> "start", request |-> r]>> \o Tail(j), "resolved", e, o)
<1> DEFINE m == [what |-> "start", request |-> r]
           p == <<m>> \o Tail(j)
<1>1. m \in Job /\ m.what = "start" /\ m.request = r
  BY JobFacts, ConstantsAssumption DEF Request
<1>2. /\ p \in Seq(Job) /\ p # <<>> /\ Head(p) = m /\ DOMAIN p = DOMAIN j
      /\ \A i \in DOMAIN j : p[i].what = j[i].what
  BY <1>1, Resolved DEF Duty
<1> HIDE DEF m, p
<1>3. \A what : Has(p, what) <=> Has(j, what)
  BY <1>2 DEF Has
<1> QED
  BY <1>1, <1>2, <1>3 DEF Duty, p, m

LEMMA SoleQueued ==
    ASSUME NEW j \in Seq(Job), NEW a, NEW e, NEW bs, Sole(j, a, e, bs),
           NEW m \in Job, m.what # "start"
    PROVE  Sole(Append(j, m), a, e, bs)
<1>1. \A i \in DOMAIN Append(j, m) : Append(j, m)[i].what = "start" => i \in DOMAIN j /\ j[i].what = "start"
  BY IndexedAppend
<1> QED
  BY <1>1, HasAppended DEF Sole

\* The one start that is let through.
LEMMA SoleStart ==
    ASSUME NEW j \in Seq(Job), NEW a, NEW e, Sole(j, a, e, FALSE), NEW m \in Job
    PROVE  Sole(Append(j, m), a, e, TRUE)
<1>1. ~Has(j, "start") /\ e = None
  BY DEF Sole
<1>2. \A i \in DOMAIN Append(j, m) : Append(j, m)[i].what = "start" => i = Len(j) + 1
  BY <1>1, IndexedAppend DEF Has
<1> QED
  BY <1>1, <1>2 DEF Sole

LEMMA SoleDone ==
    ASSUME NEW j \in Seq(Job), NEW a, NEW e, NEW bs, Sole(j, a, e, bs), j # <<>>
    PROVE  Sole(Tail(j), "idle", e, bs)
<1>1. \A i \in DOMAIN Tail(j) : Tail(j)[i].what = "start" =>
          Up(j)[i] \in DOMAIN j /\ Up(j)[i] # 1 /\ j[Up(j)[i]].what = "start"
  BY Shifted
<1>2. \A i, k \in DOMAIN Tail(j) : Up(j)[i] = Up(j)[k] => i = k
  BY Shifted
<1>3. Has(Tail(j), "start") => Has(j, "start")
  BY HasNot
<1>4. \A i, k \in DOMAIN Tail(j) : Tail(j)[i].what = "start" /\ Tail(j)[k].what = "start" => i = k
  BY <1>1, <1>2 DEF Sole
<1>5. e # None => \A i \in DOMAIN Tail(j) : Tail(j)[i].what # "start"
  BY <1>1 DEF Sole
<1> QED
  BY <1>3, <1>4, <1>5 DEF Sole

\* A release with no start behind it.
LEMMA SoleReleased ==
    ASSUME NEW j, NEW a, ~Has(j, "start")
    PROVE  Sole(j, a, None, FALSE)
BY DEF Sole, Has

\* A start is at the head, and has not been run.
LEMMA SoleResolved ==
    ASSUME NEW j \in Seq(Job), NEW e, NEW bs, Sole(j, "idle", e, bs),
           j # <<>>, Head(j).what = "start", NEW r \in Profile
    PROVE  Sole(<<[what |-> "start", request |-> r]>> \o Tail(j), "resolved", e, bs)
<1> DEFINE m == [what |-> "start", request |-> r]
           p == <<m>> \o Tail(j)
<1>1. m \in Job /\ m.what = "start"
  BY JobFacts, ConstantsAssumption DEF Request
<1>2. DOMAIN p = DOMAIN j /\ \A i \in DOMAIN j : p[i].what = j[i].what
  BY <1>1, Resolved
<1> HIDE DEF m, p
<1>3. Has(p, "start") <=> Has(j, "start")
  BY <1>2 DEF Has
<1>4. e = None
  BY HasNot DEF Sole
<1> QED
  BY <1>2, <1>3, <1>4 DEF Sole, p, m

LEMMA SoleLaunched ==
    ASSUME NEW j \in Seq(Job), NEW e, NEW bs, Sole(j, "resolved", e, bs),
           j # <<>>, Head(j).what = "start", NEW f
    PROVE  Sole(j, "launched", f, bs) /\ e = None
<1>1. 1 \in DOMAIN j /\ j[1].what = "start"
  BY HasNot
<1> QED
  BY <1>1 DEF Sole, Has

(***************************************************************************)
(* The invariant                                                           *)
(***************************************************************************)

Duties == \A s \in Service : Duty(jobs[s], at[s], engine[s], open[s])

Soles ==
    "unguarded" \notin mishaps => \A s \in Service : Sole(jobs[s], at[s], engine[s], boxStarted[s])

\* An instance whose release is queued is done with, for the main looper too.
Closed(s) ==
    Has(jobs[s], "release") =>
        /\ ~open[s] /\ bound # s
        /\ \A i \in DOMAIN queue : queue[i].service = s => queue[i].what = "stopSelf"

\* The main thread waits for the one instance that is being released.
Drains(s) == doing.then = "drain" /\ doing.service = s

Draining ==
    /\ doing.then = "drain" => \A s \in Service : ~open[s]
    /\ "undrained" \notin mishaps => \A s \in Service : Has(jobs[s], "release") => Drains(s)

IInv ==
    /\ TypeOK
    /\ Orderly(queue, bound, open)
    /\ Duties
    /\ Soles
    /\ \A s \in Service : Closed(s)
    /\ Draining
    /\ GuardHolds

\* What is left of it where only the record, the files and the history change.
stable == <<queue, bound, doing, open, jobs, at, engine, boxStarted>>

\* A command server that was built over is there because a start ran over it.
Orphaned == strays # {} \/ leaked # None => "reopened" \in mishaps

\* GuardHolds is of the invariant; OneBox follows.
LEMMA Safe == IInv /\ Orphaned => OneBox
<1>0. IInv /\ Orphaned /\ "unguarded" \notin mishaps => strays = {}
  BY DEF IInv, GuardHolds, Orphaned
<1> SUFFICES ASSUME IInv, "undrained" \notin mishaps,
                    NEW s \in Service, NEW t \in Service, engine[s] # None, engine[t] # None
             PROVE  s = t
  BY <1>0 DEF OneBox
<1>1. \A u \in Service : engine[u] # None => open[u] \/ Has(jobs[u], "release")
  BY DEF IInv, Duties, Duty
<1>2. \A u \in Service : Has(jobs[u], "release") => Drains(u) /\ ~open[s] /\ ~open[t]
  BY DEF IInv, Draining, Drains
<1>3. CASE open[s] /\ open[t]
  BY <1>3 DEF IInv, Orderly, Single
<1>4. CASE ~open[s] \/ ~open[t]
  BY <1>1, <1>2, <1>4 DEF Drains
<1> QED
  BY <1>3, <1>4

LEMMA InitInvariant == Init => IInv
<1> SUFFICES ASSUME Init PROVE IInv
  OBVIOUS
<1> USE DEF Init
<1>1. <<>> \in Seq(Message) /\ <<>> \in Seq(Job) /\ DOMAIN <<>> = {}
  OBVIOUS
<1>2. TypeOK
  BY <1>1 DEF TypeOK, Stage, Doing
<1>3. Orderly(queue, bound, open)
  BY OrderlyNothing
<1>4. \A s \in Service : ~Has(jobs[s], "start") /\ ~Has(jobs[s], "release")
  BY <1>1 DEF Has
<1>5. Duties
  BY <1>1, <1>4 DEF Duties, Duty
<1>6. Soles
  BY <1>4, SoleReleased DEF Soles
<1>7. Draining /\ \A s \in Service : Closed(s)
  BY <1>4 DEF Draining, Closed, Rest
<1> QED
  BY <1>2, <1>3, <1>5, <1>6, <1>7 DEF IInv, GuardHolds

(***************************************************************************)
(* Types                                                                   *)
(***************************************************************************)

\* What Android puts in the queue.
LEMMA StartServiceType ==
    ASSUME TypeOK, NEW r \in Request, StartService(r)
    PROVE  queue' \in Seq(Message) /\ bound' \in Service \cup {None}
<1>1. CASE bound # None /\ queue' = Append(queue, Args(bound, r)) /\ UNCHANGED bound
  BY <1>1, MessageFacts, AppendProperties DEF TypeOK
<1>2. ASSUME bound = None, NEW s \in Unused,
             queue' = queue \o <<Lifecycle("create", s), Args(s, r)>>, bound' = s
      PROVE  queue' \in Seq(Message) /\ bound' \in Service \cup {None}
  <2>1. s \in Service
    BY DEF Unused
  <2>2. <<Lifecycle("create", s), Args(s, r)>> \in Seq(Message)
    BY <2>1, MessageFacts
  <2> QED
    BY <1>2, <2>1, <2>2, ConcatProperties DEF TypeOK
<1> QED
  BY <1>1, <1>2 DEF StartService

LEMMA StopSelfType ==
    ASSUME TypeOK, NEW s \in Service, StopSelf(s)
    PROVE  queue' \in Seq(Message) /\ bound' \in Service \cup {None}
<1>1. Append(queue, Lifecycle("destroy", s)) \in Seq(Message)
  BY MessageFacts, AppendProperties DEF TypeOK
<1> QED
  BY <1>1 DEF TypeOK, StopSelf

\* The message that is taken.
LEMMA TakesType ==
    ASSUME TypeOK, NEW what, Takes(what)
    PROVE  /\ Head(queue) \in Message /\ Head(queue).what = what
           /\ Head(queue).service \in Service
           /\ Tail(queue) \in Seq(Message)
           /\ queue # <<>> /\ doing = Rest /\ doing.then = "nothing"
BY IndexedTail, MessageFacts DEF TypeOK, Takes, Rest

\* The message that an instance is destroyed by, whether or not the status was found to
\* be corrected.
Destroying == OnDestroy \/ OnDestroyCorrects

LEMMA DestroyTakes ==
    ASSUME TypeOK, Destroying
    PROVE  /\ queue \in Seq(Message) /\ queue # <<>>
           /\ Head(queue) \in Message /\ Head(queue).what = "destroy"
           /\ Head(queue).service \in Service
           /\ Tail(queue) \in Seq(Message)
           /\ doing.then \in {"nothing", "correct"}
           /\ TearsDown
           /\ current' \in Stage \ {"connected", "connecting"}
<1>1. queue # <<>> /\ Head(queue).what = "destroy" /\ TearsDown
  BY DEF Destroying, OnDestroy, OnDestroyCorrects, Takes
<1>2. doing.then \in {"nothing", "correct"}
  BY DEF Destroying, OnDestroy, OnDestroyCorrects, Takes, Rest
<1>3. current' \in Stage \ {"connected", "connecting"}
  BY DEF Destroying, OnDestroy, OnDestroyCorrects, MarkedUp, TypeOK, Stage
<1> QED
  BY <1>1, <1>2, <1>3, IndexedTail, MessageFacts DEF TypeOK

\* The job that is done.
LEMMA WorksType ==
    ASSUME TypeOK, NEW s \in Service, NEW what, NEW where, Works(s, what, where)
    PROVE  /\ jobs[s] \in Seq(Job) /\ jobs[s] # <<>> /\ at[s] = where
           /\ Head(jobs[s]) \in Job /\ Head(jobs[s]).what = what
           /\ Tail(jobs[s]) \in Seq(Job)
BY IndexedTail DEF TypeOK, Works

\* A job is queued or done, for one instance.
LEMMA QueuedType ==
    ASSUME TypeOK, NEW s \in Service, NEW m \in Job,
           jobs' = [jobs EXCEPT ![s] = Append(@, m)]
    PROVE  /\ jobs' \in [Service -> Seq(Job)]
           /\ jobs'[s] = Append(jobs[s], m)
           /\ \A t \in Service : t # s => jobs'[t] = jobs[t]
BY AppendProperties DEF TypeOK

LEMMA DoneType ==
    ASSUME TypeOK, NEW s \in Service, jobs[s] # <<>>, Done(s)
    PROVE  /\ jobs' \in [Service -> Seq(Job)]
           /\ jobs'[s] = Tail(jobs[s])
           /\ \A t \in Service : t # s => jobs'[t] = jobs[t]
BY IndexedTail DEF TypeOK, Done

LEMMA StartFailsType ==
    ASSUME TypeOK, NEW s \in Service, jobs[s] # <<>>, StartFails(s)
    PROVE  /\ jobs' \in [Service -> Seq(Job)]
           /\ at' = [at EXCEPT ![s] = "idle"]
           /\ current' \in Stage /\ serviceRunning' \in BOOLEAN
           /\ \A t \in Service : t # s => jobs'[t] = jobs[t]
           /\ \/ open[s] /\ jobs'[s] = Append(Tail(jobs[s]), Shutdown("failed", FALSE))
              \/ ~open[s] /\ jobs'[s] = Tail(jobs[s])
<1>1. Shutdown("failed", FALSE) \in Job /\ Tail(jobs[s]) \in Seq(Job) /\ "failed" \in Stage
  BY JobFacts, IndexedTail DEF TypeOK, Stage
<1>2. Append(Tail(jobs[s]), Shutdown("failed", FALSE)) \in Seq(Job)
  BY <1>1, AppendProperties
<1> QED
  BY <1>1, <1>2 DEF TypeOK, StartFails, GivenUp, Done, record

\* Steps of the app and of Android.
LEMMA OutsideType ==
    ASSUME TypeOK, App \/ Android
    PROVE  TypeOK'
<1> USE DEF record, android, box, orphans, worker, history
<1>1. {"system", "stop"} \subseteq Request /\ Profile \subseteq Request
      /\ {"connecting", "disconnected", "failed"} \subseteq Stage
  BY DEF Request, Stage
<1>2. ASSUME NEW p \in Profile, PluginStart(p) PROVE TypeOK'
  BY <1>1, <1>2, StartServiceType DEF TypeOK, PluginStart
<1>3. CASE PluginStop
  BY <1>1, <1>3, StartServiceType DEF TypeOK, PluginStop
<1>4. CASE PluginStopsNothing
  BY <1>1, <1>4 DEF TypeOK, PluginStopsNothing
<1>5. CASE Refused
  BY <1>1, <1>5 DEF TypeOK, Refused, Mishap
<1>6. CASE AlwaysOn
  BY <1>1, <1>6, StartServiceType DEF TypeOK, AlwaysOn
<1>7. CASE NotificationStop
  BY <1>1, <1>7, StartServiceType DEF TypeOK, NotificationStop
<1>8. CASE Reclaim
  <2>1. bound \in Service
    BY <1>8 DEF TypeOK, Reclaim
  <2> QED
    BY <1>8, <2>1, StopSelfType DEF TypeOK, Reclaim
<1>9. CASE Revoke
  BY <1>9 DEF TypeOK, Revoke
<1>10. CASE ProcessDies
  <2>1. <<>> \in Seq(Message) /\ <<>> \in Seq(Job)
    OBVIOUS
  <2> QED
    BY <1>1, <1>10, <2>1 DEF TypeOK, ProcessDies, Doing
<1> QED
  BY <1>2, <1>3, <1>4, <1>5, <1>6, <1>7, <1>8, <1>9, <1>10 DEF App, Android

\* Steps of the main looper, but for the requests that reach a service.
LEMMA LooperType ==
    ASSUME TypeOK, OnCreate \/ OnStartIgnored \/ Republish \/ OnStopSelf
                   \/ Destroying \/ OnDestroyFinds \/ Drained \/ Undrained
    PROVE  TypeOK'
<1> USE DEF record, android, box, orphans, worker, history
<1>1. Rest \in Doing /\ "failed" \in Stage
      /\ {"crossed", "echoed", "overtaken", "undrained"} \subseteq Mishap
  BY DEF Doing, Stage, Mishap
<1>2. CASE OnCreate
  BY <1>2, TakesType DEF TypeOK, OnCreate
<1>3. CASE OnStartIgnored
  <2>1. current \in Stage => [then |-> "republish", stage |-> current] \in Doing
    BY DEF Doing
  <2> QED
    BY <1>1, <1>3, <2>1, TakesType DEF TypeOK, OnStartIgnored
<1>4. CASE Republish
  <2>1. doing \in Doing /\ doing.then = "republish" => doing.stage \in Stage
    BY DEF Doing, Rest
  <2> QED
    BY <1>1, <1>4, <2>1 DEF TypeOK, Republish
<1>5. CASE OnStopSelf
  <2>1. bound \in Service => Append(Tail(queue), Lifecycle("destroy", bound)) \in Seq(Message)
    BY <1>5, TakesType, MessageFacts, AppendProperties DEF OnStopSelf
  <2> QED
    BY <1>5, <2>1, TakesType DEF TypeOK, OnStopSelf
<1>6. CASE Destroying
  <2> DEFINE s == Head(queue).service
  <2>1. s \in Service /\ Tail(queue) \in Seq(Message) /\ TearsDown /\ current' \in Stage
    BY <1>6, DestroyTakes
  <2>2. jobs' \in [Service -> Seq(Job)]
    BY <2>1, JobFacts, QueuedType DEF TearsDown, ToBeReleased
  <2>3. [then |-> "drain", service |-> s] \in Doing
    BY <2>1 DEF Doing
  <2> HIDE DEF s
  <2> QED
    BY <1>1, <2>1, <2>2, <2>3 DEF TypeOK, TearsDown, s
<1>7. CASE Drained
  BY <1>1, <1>7 DEF TypeOK, Drained
<1>8. CASE Undrained
  BY <1>1, <1>8 DEF TypeOK, Undrained
<1>9. CASE OnDestroyFinds
  <2>1. [then |-> "correct"] \in Doing
    BY DEF Doing
  <2> QED
    BY <1>9, <2>1 DEF TypeOK, OnDestroyFinds
<1> QED
  BY <1>2, <1>3, <1>4, <1>5, <1>6, <1>7, <1>8, <1>9

\* What a request that reaches a service queues.
LEMMA RequestType ==
    ASSUME TypeOK, Takes("args")
    PROVE  /\ Head(queue).service \in Service
           /\ Head(queue).request \in Request
           /\ Head(queue).request # "stop" =>
                 [what |-> "start", request |-> Head(queue).request] \in Job
<1>1. Head(queue).service \in Service /\ Head(queue).request \in Request
  BY TakesType, MessageFacts
<1> QED
  BY <1>1, JobFacts

LEMMA OnStopType ==
    ASSUME TypeOK, OnStop
    PROVE  TypeOK'
<1> USE DEF record, android, box, orphans, worker, history
<1>1. Takes("args") /\ Shutdown("disconnected", TRUE) \in Job
  BY JobFacts DEF OnStop, Stage
<1>2. jobs' \in [Service -> Seq(Job)]
  BY <1>1, RequestType, QueuedType DEF OnStop
<1> QED
  BY <1>1, <1>2, TakesType DEF TypeOK, OnStop

LEMMA OnStartType ==
    ASSUME TypeOK, OnStart
    PROVE  TypeOK'
<1> USE DEF record, android, box, orphans, worker, history
<1> DEFINE s == Head(queue).service
           r == Head(queue).request
<1>1. Takes("args") /\ r # "stop"
  BY DEF OnStart
<1>2. s \in Service /\ r \in Request /\ [what |-> "start", request |-> r] \in Job
  BY <1>1, RequestType
<1>3. jobs' \in [Service -> Seq(Job)]
  BY <1>2, QueuedType DEF OnStart
<1>4. wished' \in Profile \cup {None}
  BY <1>1, <1>2 DEF TypeOK, OnStart, Request
<1> HIDE DEF s, r
<1> QED
  BY <1>1, <1>2, <1>3, <1>4, TakesType DEF TypeOK, OnStart, Stage, s

LEMMA OnRevokeType ==
    ASSUME TypeOK, NEW s \in Service, OnRevoke(s)
    PROVE  TypeOK'
<1> USE DEF record, box, orphans
<1>1. Shutdown("failed", FALSE) \in Job /\ "failed" \in Stage /\ "late" \in Mishap
  BY JobFacts DEF Stage, Mishap
<1>2. queue' \in Seq(Message) /\ bound' \in Service \cup {None}
  BY StopSelfType DEF OnRevoke
<1>3. CASE open[s] /\ jobs' = [jobs EXCEPT ![s] = Append(@, Shutdown("failed", FALSE))]
           /\ UNCHANGED <<record, mishaps>>
  <2>1. jobs' \in [Service -> Seq(Job)]
    BY <1>1, <1>3, QueuedType
  <2> QED
    BY <1>2, <1>3, <2>1 DEF TypeOK, OnRevoke
<1>4. CASE /\ ~open[s] /\ serviceRunning' = FALSE /\ current' = "failed"
           /\ mishaps' = mishaps \cup {"late"} /\ UNCHANGED jobs
  BY <1>1, <1>2, <1>4 DEF TypeOK, OnRevoke
<1> QED
  BY <1>3, <1>4 DEF OnRevoke

\* Steps of a worker.
LEMMA WorkerType ==
    ASSUME TypeOK, Duties, NEW s \in Service, Worker(s)
    PROVE  TypeOK'
<1> USE DEF record, android, box, orphans, worker, history
<1>1. CASE Resolve(s)
  <2> DEFINE j == jobs[s]
             p == IF Head(j).request = "system" THEN saved ELSE Head(j).request
             m == [what |-> "start", request |-> p]
  <2>1. j \in Seq(Job) /\ j # <<>> /\ Head(j) \in Job /\ Head(j).what = "start"
    BY <1>1, WorksType DEF Resolve
  <2>2. p \in Profile
    BY <1>1, <2>1, JobFacts DEF TypeOK, Resolve, Startable, Request
  <2>3. m \in Job /\ m.what = "start"
    BY <2>2, JobFacts, ConstantsAssumption DEF Request
  <2>4. <<m>> \o Tail(j) \in Seq(Job)
    BY <2>1, <2>3, Resolved
  <2>5. saved' = p /\ jobs' = [jobs EXCEPT ![s] = <<m>> \o Tail(@)]
    BY <1>1 DEF Resolve
  <2> HIDE DEF p, m
  <2>6. jobs' \in [Service -> Seq(Job)]
    BY <2>4, <2>5 DEF TypeOK
  <2> QED
    BY <1>1, <2>2, <2>5, <2>6 DEF TypeOK, Resolve
<1>2. CASE ResolveFails(s)
  <2>1. jobs[s] # <<>> /\ StartFails(s)
    BY <1>2 DEF ResolveFails, Works
  <2> QED
    BY <1>2, <2>1, StartFailsType DEF TypeOK, ResolveFails
<1>3. CASE Launch(s)
  <2>1. Head(jobs[s]).request \in Profile
    BY <1>3 DEF Duties, Duty, Launch, Works
  <2> QED
    BY <1>3, <2>1 DEF TypeOK, Launch, Mishap
<1>4. CASE Connected(s)
  <2>1. jobs' \in [Service -> Seq(Job)]
    BY <1>4, DoneType DEF Connected, Works
  <2> QED
    BY <1>4, <2>1 DEF TypeOK, Connected, Stage
<1>5. CASE LaunchFails(s)
  <2>1. jobs[s] # <<>> /\ StartFails(s)
    BY <1>5 DEF LaunchFails, Works
  <2> QED
    BY <1>5, <2>1, StartFailsType DEF TypeOK, LaunchFails
<1>6. CASE Release(s)
  <2>1. jobs' \in [Service -> Seq(Job)]
    BY <1>6, DoneType DEF Release, Works
  <2> QED
    BY <1>6, <2>1 DEF TypeOK, Release, ReleaseEngine
<1>7. CASE ShutdownReleases(s)
  BY <1>7 DEF TypeOK, ShutdownReleases, ReleaseEngine, Mishap
<1>8. CASE ShutdownReports(s)
  <2>1. jobs' \in [Service -> Seq(Job)]
    BY <1>8, DoneType DEF ShutdownReports, Works
  <2>2. Head(jobs[s]).stage \in Stage /\ Head(jobs[s]).forget \in BOOLEAN
    BY <1>8, WorksType, JobFacts DEF ShutdownReports
  <2>3. queue' \in Seq(Message)
    BY <1>8, MessageFacts, AppendProperties DEF TypeOK, ShutdownReports, StopSelfPosted
  <2>4. saved' \in Profile \cup {None}
    BY <1>8 DEF TypeOK, ShutdownReports, Kept
  <2> QED
    BY <1>8, <2>1, <2>2, <2>3, <2>4 DEF TypeOK, ShutdownReports
<1> QED
  BY <1>1, <1>2, <1>3, <1>4, <1>5, <1>6, <1>7, <1>8 DEF Worker

LEMMA NextType == TypeOK /\ Duties /\ [Next]_vars => TypeOK'
<1>1. ASSUME TypeOK, Main PROVE TypeOK'
  BY <1>1, LooperType, OnStopType, OnStartType DEF Main, Destroying
<1>2. ASSUME TypeOK, UNCHANGED vars PROVE TypeOK'
  BY <1>2 DEF TypeOK, vars, record, android, box, orphans, worker, history
<1> QED
  BY <1>1, <1>2, OutsideType, OnRevokeType, WorkerType, LooperType DEF Next, Machine, Binder

(***************************************************************************)
(* Every step keeps the invariant                                          *)
(***************************************************************************)

\* A request is put in the looper's queue.
LEMMA Started ==
    ASSUME IInv, NEW r \in Request, StartService(r), UNCHANGED <<open, jobs>>
    PROVE  Orderly(queue', bound', open') /\ \A s \in Service : Closed(s)'
<1>1. CASE bound # None /\ queue' = Append(queue, Args(bound, r)) /\ UNCHANGED bound
  <2>1. Orderly(queue', bound', open')
    BY <1>1, OrderlyArgs DEF IInv
  <2>2. bound \in Service /\ Args(bound, r) \in Message /\ Args(bound, r).service = bound
    BY <1>1, MessageFacts DEF IInv, TypeOK
  <2>3. ASSUME NEW s \in Service PROVE Closed(s)'
    <3> SUFFICES ASSUME Has(jobs[s], "release"), NEW i \in DOMAIN queue', queue'[i].service = s
                 PROVE  queue'[i].what = "stopSelf"
      BY <1>1 DEF IInv, Closed
    <3>1. bound # s
      BY DEF IInv, Closed
    <3>2. i \in DOMAIN queue /\ queue'[i] = queue[i]
      BY <1>1, <2>2, <3>1, IndexedAppend DEF IInv, TypeOK
    <3> QED
      BY <3>2 DEF IInv, Closed
  <2> QED
    BY <2>1, <2>3
<1>2. ASSUME bound = None, NEW s \in Unused,
             queue' = queue \o <<Lifecycle("create", s), Args(s, r)>>, bound' = s
      PROVE  Orderly(queue', bound', open') /\ \A t \in Service : Closed(t)'
  <2>1. s \in Service /\ ~open[s] /\ jobs[s] = <<>> /\ \A i \in DOMAIN queue : queue[i].service # s
    BY DEF Unused
  <2>2. Orderly(queue', bound', open')
    BY <1>2, <2>1, OrderlyFresh DEF IInv
  <2>3. /\ <<Lifecycle("create", s), Args(s, r)>> \in Seq(Message)
        /\ Lifecycle("create", s).service = s /\ Args(s, r).service = s
    BY <2>1, MessageFacts
  <2>4. \A i \in DOMAIN queue' : queue'[i].service # s => i \in DOMAIN queue /\ queue'[i] = queue[i]
    <3> DEFINE c == Lifecycle("create", s)
               m == Args(s, r)
               n == Len(queue)
    <3>1. n \in Nat /\ DOMAIN queue = 1 .. n /\ queue \in Seq(Message)
      BY LenProperties DEF IInv, TypeOK
    <3>2. queue' \in Seq(Message) /\ Len(queue') = n + 2
          /\ \A i \in 1 .. n + 2 : queue'[i] = IF i <= n THEN queue[i] ELSE <<c, m>>[i - n]
      BY <1>2, <2>3, <3>1, ConcatProperties
    <3>3. DOMAIN queue' = 1 .. n + 2
      BY <3>2, LenProperties
    <3>4. \A i \in 1 .. n + 2 : i > n => i - n \in {1, 2}
      BY <3>1
    <3>5. <<c, m>>[1].service = s /\ <<c, m>>[2].service = s
      BY <2>3
    <3> HIDE DEF c, m, n
    <3> QED
      BY <3>1, <3>2, <3>3, <3>4, <3>5
  <2>5. ASSUME NEW t \in Service PROVE Closed(t)'
    <3>1. CASE t = s
      BY <2>1, <3>1 DEF Closed, Has
    <3>2. CASE t # s
      BY <1>2, <2>4, <3>2 DEF IInv, Closed
    <3> QED
      BY <3>1, <3>2
  <2> QED
    BY <2>2, <2>5
<1> QED
  BY <1>1, <1>2 DEF StartService

\* The current instance is destroyed, or nothing happens.
LEMMA Stopped ==
    ASSUME IInv, NEW s \in Service, StopSelf(s), UNCHANGED <<open, jobs>>
    PROVE  Orderly(queue', bound', open') /\ \A t \in Service : Closed(t)'
<1>1. CASE bound = s
  <2>1. queue' = Append(queue, Lifecycle("destroy", s)) /\ bound' = None /\ s # None
    BY <1>1, ConstantsAssumption DEF StopSelf
  <2>2. Orderly(queue', bound', open')
    BY <1>1, <2>1, OrderlyDestroy DEF IInv
  <2>3. Lifecycle("destroy", s) \in Message /\ Lifecycle("destroy", s).service = s
    BY MessageFacts
  <2>4. ASSUME NEW t \in Service PROVE Closed(t)'
    <3> SUFFICES ASSUME Has(jobs[t], "release")
                 PROVE  /\ ~open[t] /\ None # t
                        /\ \A i \in DOMAIN queue' : queue'[i].service = t => queue'[i].what = "stopSelf"
      BY <2>1 DEF Closed
    <3>1. t # s /\ ~open[t] /\ t # None
      BY <1>1, ConstantsAssumption DEF IInv, Closed
    <3>2. \A i \in DOMAIN queue' : queue'[i].service = t => i \in DOMAIN queue /\ queue'[i] = queue[i]
      BY <2>1, <2>3, <3>1, IndexedAppend DEF IInv, TypeOK
    <3> QED
      BY <3>1, <3>2 DEF IInv, Closed
  <2> QED
    BY <2>2, <2>4
<1>2. CASE bound # s
  BY <1>2 DEF StopSelf, IInv, Closed
<1> QED
  BY <1>1, <1>2

\* The looper's queue is the only part of the invariant that changes.
LEMMA QueueStep ==
    ASSUME IInv, TypeOK', Orderly(queue', bound', open'), \A s \in Service : Closed(s)',
           UNCHANGED <<doing, open, jobs, at, engine, boxStarted>>,
           mishaps \subseteq mishaps', "reopened" \notin mishaps' \ mishaps
    PROVE  IInv'
<1>1. Duties'
  BY DEF IInv, Duties
<1>2. Soles'
  BY DEF IInv, Soles
<1>3. Draining'
  BY DEF IInv, Draining, Drains
<1>4. GuardHolds'
  BY DEF IInv, GuardHolds
<1> QED
  BY <1>1, <1>2, <1>3, <1>4 DEF IInv

\* Nothing of the invariant changes.
LEMMA StableStep ==
    ASSUME IInv, TypeOK', UNCHANGED stable,
           mishaps \subseteq mishaps', "reopened" \notin mishaps' \ mishaps
    PROVE  IInv'
<1>1. Orderly(queue', bound', open') /\ \A s \in Service : Closed(s)'
  BY DEF IInv, Closed, stable
<1> QED
  BY <1>1, QueueStep DEF stable

LEMMA OutsideStep ==
    ASSUME IInv, App \/ Android
    PROVE  IInv'
<1> USE DEF record, android, box, orphans, worker, history
<1>1. TypeOK'
  BY OutsideType DEF IInv
<1>2. {"system", "stop"} \subseteq Request /\ Profile \subseteq Request
  BY DEF Request
<1>3. ASSUME NEW p \in Profile, PluginStart(p) PROVE IInv'
  BY <1>1, <1>2, <1>3, Started, QueueStep DEF PluginStart
<1>4. CASE PluginStop
  BY <1>1, <1>2, <1>4, Started, QueueStep DEF PluginStop
<1>5. CASE PluginStopsNothing
  BY <1>1, <1>5, StableStep DEF PluginStopsNothing, stable
<1>6. CASE Refused
  BY <1>1, <1>6, StableStep DEF Refused, stable
<1>7. CASE AlwaysOn
  BY <1>1, <1>2, <1>7, Started, QueueStep DEF AlwaysOn
<1>8. CASE NotificationStop
  BY <1>1, <1>2, <1>8, Started, QueueStep DEF NotificationStop
<1>9. CASE Reclaim
  <2>1. bound \in Service
    BY <1>9 DEF IInv, TypeOK, Reclaim
  <2> QED
    BY <1>1, <1>9, <2>1, Stopped, QueueStep DEF Reclaim
<1>10. CASE Revoke
  BY <1>1, <1>10, StableStep DEF Revoke, stable
<1>11. CASE ProcessDies
  <2>1. <<>> \in Seq(Job) /\ DOMAIN <<>> = {}
    OBVIOUS
  <2>2. Orderly(queue', bound', open')
    BY <1>11, OrderlyNothing DEF ProcessDies
  <2>3. \A s \in Service : jobs'[s] = <<>> /\ engine'[s] = None /\ at'[s] = "idle"
    BY <1>11 DEF ProcessDies
  <2>4. \A s \in Service : ~Has(jobs'[s], "start") /\ ~Has(jobs'[s], "release")
    BY <2>1, <2>3 DEF Has
  <2>5. Duties'
    BY <2>1, <2>3, <2>4 DEF Duties, Duty
  <2>6. Soles'
    BY <2>3, <2>4 DEF Soles, Sole, Has
  <2>7. Draining' /\ \A s \in Service : Closed(s)'
    BY <1>11, <2>4 DEF Draining, Closed, Rest, ProcessDies
  <2>8. GuardHolds'
    BY <1>11 DEF ProcessDies, GuardHolds
  <2> QED
    BY <1>1, <2>2, <2>5, <2>6, <2>7, <2>8 DEF IInv
<1> QED
  BY <1>3, <1>4, <1>5, <1>6, <1>7, <1>8, <1>9, <1>10, <1>11 DEF App, Android

\* One worker moves: no release is queued, and a runnable is posted at most.
LEMMA JobStep ==
    ASSUME IInv, TypeOK', NEW s \in Service,
           UNCHANGED <<bound, doing, open>>,
           UNCHANGED queue \/ queue' = Append(queue, Lifecycle("stopSelf", s)),
           \A t \in Service : t # s =>
               /\ jobs'[t] = jobs[t] /\ at'[t] = at[t]
               /\ engine'[t] = engine[t] /\ boxStarted'[t] = boxStarted[t],
           Duty(jobs'[s], at'[s], engine'[s], open[s]),
           "unguarded" \notin mishaps' => Sole(jobs'[s], at'[s], engine'[s], boxStarted'[s]),
           Has(jobs'[s], "release") => Has(jobs[s], "release"),
           mishaps \subseteq mishaps', GuardHolds'
    PROVE  IInv'
<1>1. Orderly(queue', bound', open')
  BY OrderlyStopSelf DEF IInv
<1>2. Duties'
  BY DEF IInv, Duties
<1>3. Soles'
  BY DEF IInv, Soles
<1>4. \A t \in Service : Has(jobs'[t], "release") => Has(jobs[t], "release")
  OBVIOUS
<1>5. \A i \in DOMAIN queue' : queue'[i].what = "stopSelf" \/ (i \in DOMAIN queue /\ queue'[i] = queue[i])
  <2>1. Lifecycle("stopSelf", s) \in Message /\ Lifecycle("stopSelf", s).what = "stopSelf"
    BY MessageFacts
  <2>2. CASE queue' = Append(queue, Lifecycle("stopSelf", s))
    <3>1. queue \in Seq(Message)
      BY DEF IInv, TypeOK
    <3> QED
      BY <2>1, <2>2, <3>1, IndexedAppend
  <2> QED
    BY <2>2
<1>6. \A t \in Service : Closed(t)'
  BY <1>4, <1>5 DEF IInv, Closed
<1>7. Draining'
  BY <1>4 DEF IInv, Draining, Drains
<1> QED
  BY <1>1, <1>2, <1>3, <1>6, <1>7 DEF IInv

\* A start that gives up, at any point.
LEMMA StartFailsStep ==
    ASSUME IInv, TypeOK', NEW s \in Service, jobs[s] # <<>>, Head(jobs[s]).what = "start",
           StartFails(s), UNCHANGED <<queue, bound, doing, open, engine, boxStarted, mishaps>>
    PROVE  IInv'
<1> DEFINE j == jobs[s]
           m == Shutdown("failed", FALSE)
<1>1. j \in Seq(Job) /\ Tail(j) \in Seq(Job) /\ m \in Job /\ m.what = "shutdown"
  BY IndexedTail, JobFacts DEF IInv, TypeOK, Stage
<1>2. /\ \A t \in Service : t # s => jobs'[t] = jobs[t] /\ at'[t] = at[t]
      /\ at'[s] = "idle"
      /\ jobs'[s] = Append(Tail(j), m) \/ jobs'[s] = Tail(j)
  BY StartFailsType DEF IInv, TypeOK
<1>3. Duty(Tail(j), "idle", engine[s], open[s])
  BY DutyDone DEF IInv, Duties
<1>4. Duty(jobs'[s], "idle", engine[s], open[s])
  BY <1>1, <1>2, <1>3, DutyQueued
<1>5. "unguarded" \notin mishaps => Sole(Tail(j), "idle", engine[s], boxStarted[s])
  BY <1>1, SoleDone DEF IInv, Soles
<1>6. "unguarded" \notin mishaps => Sole(jobs'[s], "idle", engine[s], boxStarted[s])
  BY <1>1, <1>2, <1>5, SoleQueued
<1>7. Has(jobs'[s], "release") => Has(j, "release")
  <2>1. Has(Tail(j), "release") => Has(j, "release")
    BY <1>1, HasNot
  <2>2. Has(Append(Tail(j), m), "release") => Has(Tail(j), "release")
    BY <1>1, HasAppended
  <2> QED
    BY <1>2, <2>1, <2>2
<1>8. GuardHolds'
  BY DEF IInv, GuardHolds
<1> HIDE DEF m, j
<1> QED
  BY <1>2, <1>4, <1>6, <1>7, <1>8, JobStep DEF j

LEMMA WorkersStep ==
    ASSUME IInv, NEW s \in Service, Worker(s)
    PROVE  IInv'
<1> USE DEF record, android, box, orphans, worker, history
<1>1. TypeOK'
  BY WorkerType DEF IInv
<1>2. Duty(jobs[s], at[s], engine[s], open[s])
  BY DEF IInv, Duties
<1>3. "unguarded" \notin mishaps => Sole(jobs[s], at[s], engine[s], boxStarted[s])
  BY DEF IInv, Soles
<1>4. GuardHolds /\ jobs[s] \in Seq(Job)
  BY DEF IInv, TypeOK
<1>5. CASE Resolve(s)
  <2> DEFINE j == jobs[s]
             p == IF Head(j).request = "system" THEN saved ELSE Head(j).request
             m == [what |-> "start", request |-> p]
             k == <<m>> \o Tail(j)
  <2>1. j # <<>> /\ Head(j) \in Job /\ Head(j).what = "start" /\ at[s] = "idle"
    BY <1>5, WorksType DEF IInv, Resolve
  <2>2. p \in Profile
    BY <1>5, <2>1, JobFacts DEF IInv, TypeOK, Resolve, Startable, Request
  <2>3. m \in Job /\ m.what = Head(j).what
    BY <2>1, <2>2, JobFacts, ConstantsAssumption DEF Request
  <2>4. Duty(k, "resolved", engine[s], open[s])
    BY <1>2, <2>1, <2>2, DutyResolved
  <2>5. "unguarded" \notin mishaps => Sole(k, "resolved", engine[s], boxStarted[s])
    BY <1>3, <1>4, <2>1, <2>2, SoleResolved
  <2>6. Has(k, "release") => Has(j, "release")
    BY <1>4, <2>1, <2>3, Resolved DEF Has
  <2>7. jobs' = [jobs EXCEPT ![s] = k] /\ at' = [at EXCEPT ![s] = "resolved"]
    BY <1>5 DEF Resolve
  <2> HIDE DEF k
  <2>8. /\ jobs'[s] = k /\ at'[s] = "resolved"
        /\ \A t \in Service : t # s => jobs'[t] = jobs[t] /\ at'[t] = at[t]
    BY <2>7 DEF IInv, TypeOK
  <2>9. GuardHolds' /\ UNCHANGED <<queue, bound, doing, open, engine, boxStarted, mishaps>>
    BY <1>4, <1>5 DEF GuardHolds, Resolve
  <2> QED
    BY <1>1, <2>4, <2>5, <2>6, <2>8, <2>9, JobStep
<1>6. CASE ResolveFails(s)
  BY <1>1, <1>6, StartFailsStep DEF ResolveFails, Works
<1>7. CASE Launch(s)
  <2>1. jobs[s] # <<>> /\ Head(jobs[s]).what = "start" /\ at[s] = "resolved"
    BY <1>7 DEF Launch, Works
  <2>2. at'[s] = "launched" /\ \A t \in Service : t # s => at'[t] = at[t] /\ engine'[t] = engine[t]
    BY <1>7 DEF IInv, TypeOK, Launch
  <2>3. UNCHANGED <<queue, bound, doing, open, jobs, boxStarted>>
        /\ mishaps' = mishaps \cup (IF engine[s] = None THEN {} ELSE {"reopened"})
    BY <1>7 DEF Launch
  <2>4. Has(jobs[s], "start")
    BY <1>4, <2>1, HasNot
  <2>5. Duty(jobs[s], "launched", engine'[s], open[s])
    BY <1>2, <2>1, <2>4 DEF Duty
  <2>6. "unguarded" \notin mishaps =>
            Sole(jobs[s], "launched", engine'[s], boxStarted[s]) /\ engine[s] = None
    BY <1>3, <1>4, <2>1, SoleLaunched
  <2>7. GuardHolds'
    BY <1>4, <2>3, <2>6 DEF GuardHolds
  <2> QED
    BY <1>1, <2>2, <2>3, <2>5, <2>6, <2>7, JobStep
<1>8. CASE Connected(s)
  <2>1. jobs[s] # <<>> /\ Head(jobs[s]).what = "start"
    BY <1>8 DEF Connected, Works
  <2>2. /\ jobs'[s] = Tail(jobs[s]) /\ at'[s] = "idle"
        /\ \A t \in Service : t # s => jobs'[t] = jobs[t] /\ at'[t] = at[t]
    BY <1>8, <2>1, DoneType DEF IInv, TypeOK, Connected
  <2>3. GuardHolds' /\ UNCHANGED <<queue, bound, doing, open, engine, boxStarted, mishaps>>
    BY <1>4, <1>8 DEF GuardHolds, Connected
  <2>4. Duty(jobs'[s], "idle", engine[s], open[s])
    BY <1>2, <2>1, <2>2, DutyDone
  <2>5. "unguarded" \notin mishaps => Sole(jobs'[s], "idle", engine[s], boxStarted[s])
    BY <1>3, <1>4, <2>1, <2>2, SoleDone
  <2>6. Has(jobs'[s], "release") => Has(jobs[s], "release")
    BY <1>4, <2>1, <2>2, HasNot
  <2> QED
    BY <1>1, <2>2, <2>3, <2>4, <2>5, <2>6, JobStep
<1>9. CASE LaunchFails(s)
  BY <1>1, <1>9, StartFailsStep DEF LaunchFails, Works
<1>10. CASE Release(s)
  <2>1. jobs[s] # <<>> /\ Head(jobs[s]).what = "release" /\ at[s] = "idle"
    BY <1>10 DEF Release, Works
  <2>2. /\ jobs'[s] = Tail(jobs[s]) /\ engine'[s] = None /\ boxStarted'[s] = FALSE
        /\ \A t \in Service : t # s =>
              jobs'[t] = jobs[t] /\ engine'[t] = engine[t] /\ boxStarted'[t] = boxStarted[t]
    BY <1>10, <2>1, DoneType DEF IInv, TypeOK, Release, ReleaseEngine
  <2>3. GuardHolds' /\ UNCHANGED <<queue, bound, doing, open, at, mishaps>>
    BY <1>4, <1>10 DEF GuardHolds, Release
  <2>4. Duty(jobs'[s], "idle", None, open[s]) /\ ~Has(jobs'[s], "start")
    BY <1>2, <2>1, <2>2, DutyReleased
  <2>5. Sole(jobs'[s], "idle", None, FALSE)
    BY <2>4, SoleReleased
  <2> QED
    BY <1>1, <1>4, <2>1, <2>2, <2>3, <2>4, <2>5, HasNot, JobStep
<1>11. CASE ShutdownReleases(s)
  <2>1. /\ at'[s] = "released" /\ engine'[s] = None /\ boxStarted'[s] = FALSE
        /\ \A t \in Service : t # s =>
              at'[t] = at[t] /\ engine'[t] = engine[t] /\ boxStarted'[t] = boxStarted[t]
    BY <1>11 DEF IInv, TypeOK, ShutdownReleases, ReleaseEngine
  <2>2. UNCHANGED <<queue, bound, doing, open, jobs>>
        /\ mishaps' = mishaps \cup (IF Queued(s, "start") THEN {"unguarded"} ELSE {})
    BY <1>11 DEF ShutdownReleases
  <2>3. GuardHolds'
    BY <1>4, <2>2 DEF GuardHolds
  <2>4. Duty(jobs[s], "released", None, open[s])
    BY <1>2, <1>11 DEF Duty, ShutdownReleases, Works
  <2>5. "unguarded" \notin mishaps' => Sole(jobs[s], "released", None, FALSE)
    BY <2>2, SoleReleased DEF Queued, Has
  <2> QED
    BY <1>1, <2>1, <2>2, <2>3, <2>4, <2>5, JobStep
<1>12. CASE ShutdownReports(s)
  <2>1. jobs[s] # <<>> /\ Head(jobs[s]).what = "shutdown"
    BY <1>12 DEF ShutdownReports, Works
  <2>2. /\ jobs'[s] = Tail(jobs[s]) /\ at'[s] = "idle"
        /\ \A t \in Service : t # s => jobs'[t] = jobs[t] /\ at'[t] = at[t]
    BY <1>12, <2>1, DoneType DEF IInv, TypeOK, ShutdownReports
  <2>3. GuardHolds' /\ UNCHANGED <<bound, doing, open, engine, boxStarted, mishaps>>
        /\ queue' = Append(queue, Lifecycle("stopSelf", s))
    BY <1>4, <1>12 DEF GuardHolds, ShutdownReports, StopSelfPosted
  <2>4. Duty(jobs'[s], "idle", engine[s], open[s])
    BY <1>2, <2>1, <2>2, DutyDone
  <2>5. "unguarded" \notin mishaps => Sole(jobs'[s], "idle", engine[s], boxStarted[s])
    BY <1>3, <1>4, <2>1, <2>2, SoleDone
  <2>6. Has(jobs'[s], "release") => Has(jobs[s], "release")
    BY <1>4, <2>1, <2>2, HasNot
  <2> QED
    BY <1>1, <2>2, <2>3, <2>4, <2>5, <2>6, JobStep
<1> QED
  BY <1>5, <1>6, <1>7, <1>8, <1>9, <1>10, <1>11, <1>12 DEF Worker

\* A shutdown is queued for an instance, by a stop or by a revocation.
LEMMA ShutdownQueued ==
    ASSUME IInv, TypeOK', NEW s \in Service, NEW m \in Job, m.what = "shutdown",
           jobs' = [jobs EXCEPT ![s] = Append(@, m)],
           Orderly(queue', bound', open'),
           \A t \in Service : Has(jobs[t], "release") =>
               /\ bound' # t
               /\ \A i \in DOMAIN queue' : queue'[i].service = t => queue'[i].what = "stopSelf",
           UNCHANGED <<doing, open, at, engine, boxStarted, mishaps>>
    PROVE  IInv'
<1>1. /\ jobs'[s] = Append(jobs[s], m) /\ jobs[s] \in Seq(Job)
      /\ \A t \in Service : t # s => jobs'[t] = jobs[t]
  BY QueuedType DEF IInv, TypeOK
<1>2. \A t \in Service : Has(jobs'[t], "release") => Has(jobs[t], "release")
  BY <1>1, HasAppended
<1>3. Duty(jobs'[s], at[s], engine[s], open[s])
  BY <1>1, DutyQueued DEF IInv, Duties
<1>4. Duties'
  BY <1>1, <1>3 DEF IInv, Duties
<1>5. "unguarded" \notin mishaps => Sole(jobs'[s], at[s], engine[s], boxStarted[s])
  BY <1>1, SoleQueued DEF IInv, Soles
<1>6. Soles'
  BY <1>1, <1>5 DEF IInv, Soles
<1>7. \A t \in Service : Closed(t)'
  BY <1>2 DEF IInv, Closed
<1>8. Draining' /\ GuardHolds'
  BY <1>2 DEF IInv, Draining, Drains, GuardHolds
<1> QED
  BY <1>4, <1>6, <1>7, <1>8 DEF IInv

\* The queue without its first message.
LEMMA Taken ==
    ASSUME IInv, NEW what \in {"args", "stopSelf"}, Takes(what)
    PROVE  /\ Orderly(Tail(queue), bound, open)
           /\ \A s \in Service : Has(jobs[s], "release") =>
                  /\ ~open[s] /\ bound # s
                  /\ \A i \in DOMAIN Tail(queue) :
                        Tail(queue)[i].service = s => Tail(queue)[i].what = "stopSelf"
<1>1. queue \in Seq(Message) /\ queue # <<>> /\ Head(queue).what = what
  BY DEF IInv, TypeOK, Takes
<1>2. Orderly(Tail(queue), bound, open)
  BY <1>1, OrderlyTaken DEF IInv
<1>3. \A i \in DOMAIN Tail(queue) : \E k \in DOMAIN queue : Tail(queue)[i] = queue[k]
  BY <1>1, Shifted
<1> QED
  BY <1>2, <1>3 DEF IInv, Closed

LEMMA OnStopStep ==
    ASSUME IInv, OnStop
    PROVE  IInv'
<1> USE DEF record, box, orphans
<1>1. TypeOK' /\ Takes("args") /\ queue' = Tail(queue)
  BY OnStopType DEF IInv, OnStop
<1>2. Shutdown("disconnected", TRUE) \in Job /\ Shutdown("disconnected", TRUE).what = "shutdown"
  BY JobFacts DEF Stage
<1>3. Head(queue).service \in Service
  BY <1>1, TakesType DEF IInv
<1>4. UNCHANGED <<bound, doing, open, at, engine, boxStarted, mishaps>>
      /\ jobs' = [jobs EXCEPT ![Head(queue).service] = Append(@, Shutdown("disconnected", TRUE))]
  BY DEF OnStop
<1>5. Orderly(queue', bound', open')
  BY <1>1, <1>4, Taken
<1>6. \A t \in Service : Has(jobs[t], "release") =>
          /\ bound' # t
          /\ \A i \in DOMAIN queue' : queue'[i].service = t => queue'[i].what = "stopSelf"
  BY <1>1, <1>4, Taken
<1> QED
  BY <1>1, <1>2, <1>3, <1>4, <1>5, <1>6, ShutdownQueued

LEMMA OnRevokeStep ==
    ASSUME IInv, NEW s \in Service, OnRevoke(s)
    PROVE  IInv'
<1> USE DEF record, box, orphans
<1>1. TypeOK'
  BY OnRevokeType DEF IInv
<1>2. StopSelf(s) /\ UNCHANGED <<doing, open, at, engine, boxStarted>>
  BY DEF OnRevoke
<1>3. CASE UNCHANGED jobs /\ mishaps' = mishaps \cup {"late"}
  BY <1>1, <1>2, <1>3, Stopped, QueueStep
<1>4. CASE jobs' = [jobs EXCEPT ![s] = Append(@, Shutdown("failed", FALSE))] /\ UNCHANGED mishaps
  <2>1. Shutdown("failed", FALSE) \in Job /\ Shutdown("failed", FALSE).what = "shutdown"
    BY JobFacts DEF Stage
  <2>2. \A t \in Service : Has(jobs[t], "release") =>
            /\ bound # t /\ \A i \in DOMAIN queue : queue[i].service = t => queue[i].what = "stopSelf"
    BY DEF IInv, Closed
  <2>3. CASE bound = s
    <3>1. queue' = Append(queue, Lifecycle("destroy", s)) /\ bound' = None /\ s # None
      BY <1>2, <2>3, ConstantsAssumption DEF StopSelf
    <3>2. Orderly(queue', bound', open')
      BY <1>2, <2>3, <3>1, OrderlyDestroy DEF IInv
    <3>3. Lifecycle("destroy", s) \in Message /\ Lifecycle("destroy", s).service = s
      BY MessageFacts
    <3>4. \A i \in DOMAIN queue' : queue'[i].service # s => i \in DOMAIN queue /\ queue'[i] = queue[i]
      BY <3>1, <3>3, IndexedAppend DEF IInv, TypeOK
    <3>5. \A t \in Service : Has(jobs[t], "release") =>
              /\ bound' # t
              /\ \A i \in DOMAIN queue' : queue'[i].service = t => queue'[i].what = "stopSelf"
      BY <2>2, <2>3, <3>1, <3>4, ConstantsAssumption
    <3> QED
      BY <1>1, <1>2, <1>4, <2>1, <3>2, <3>5, ShutdownQueued
  <2>4. CASE bound # s
    <3>1. UNCHANGED <<queue, bound>>
      BY <1>2, <2>4 DEF StopSelf
    <3>2. Orderly(queue', bound', open')
      BY <1>2, <3>1 DEF IInv
    <3> QED
      BY <1>1, <1>2, <1>4, <2>1, <2>2, <3>1, <3>2, ShutdownQueued
  <2> QED
    BY <2>3, <2>4
<1> QED
  BY <1>3, <1>4 DEF OnRevoke

\* The start that is let through: the instance is open, and runs nothing yet.
LEMMA OnStartStep ==
    ASSUME IInv, OnStart
    PROVE  IInv'
<1> USE DEF record
<1> DEFINE s == Head(queue).service
           m == [what |-> "start", request |-> Head(queue).request]
<1>1. TypeOK' /\ Takes("args") /\ queue' = Tail(queue)
  BY OnStartType DEF IInv, OnStart
<1>2. s \in Service /\ m \in Job /\ queue # <<>> /\ Head(queue).what = "args"
  BY <1>1, TakesType, RequestType DEF IInv, OnStart
<1>3. /\ ~boxStarted[s] /\ boxStarted' = [boxStarted EXCEPT ![s] = TRUE]
      /\ jobs' = [jobs EXCEPT ![s] = Append(@, m)]
      /\ UNCHANGED <<bound, doing, open, at, engine, mishaps>>
  BY DEF OnStart, Guarded
<1>4. open[s]
  <2>1. queue \in Seq(Message) /\ Prepared(queue, open)
    BY DEF IInv, Orderly
  <2>2. Head(queue) = queue[1] /\ 1 \in DOMAIN queue /\ \A i \in DOMAIN queue : ~(i < 1)
    BY <1>2, <2>1, IndexedTail, Shifted
  <2> QED
    BY <1>2, <2>1, <2>2 DEF Prepared
<1> HIDE DEF s, m
<1>5. /\ jobs'[s] = Append(jobs[s], m) /\ jobs[s] \in Seq(Job) /\ boxStarted'[s] = TRUE
      /\ \A t \in Service : t # s => jobs'[t] = jobs[t] /\ boxStarted'[t] = boxStarted[t]
  BY <1>2, <1>3, QueuedType DEF IInv, TypeOK
<1>6. ~Has(jobs[s], "release")
  BY <1>2, <1>4 DEF IInv, Closed
<1>7. Duties'
  <2>1. Duty(jobs[s], at[s], engine[s], TRUE)
    BY <1>2, <1>4 DEF IInv, Duties, TypeOK
  <2>2. Duty(jobs'[s], at[s], engine[s], open[s])
    BY <1>2, <1>4, <1>5, <1>6, <2>1, DutyStart DEF IInv, TypeOK
  <2> QED
    BY <1>3, <1>5, <2>2 DEF IInv, Duties
<1>8. Soles'
  <2>1. ASSUME "unguarded" \notin mishaps PROVE Sole(jobs'[s], at[s], engine[s], TRUE)
    <3>1. boxStarted[s] = FALSE
      BY <1>2, <1>3 DEF IInv, TypeOK
    <3>2. Sole(jobs[s], at[s], engine[s], FALSE)
      BY <1>2, <2>1, <3>1 DEF IInv, Soles
    <3> QED
      BY <1>2, <1>5, <3>2, SoleStart
  <2> QED
    BY <1>3, <1>5, <2>1 DEF IInv, Soles
<1>9. \A t \in Service : Has(jobs'[t], "release") => Has(jobs[t], "release")
  <2>1. m.what # "release"
    BY DEF m
  <2>2. Has(jobs'[s], "release") => Has(jobs[s], "release")
    BY <1>2, <1>5, <2>1, HasAppended
  <2> QED
    BY <1>5, <2>2
<1>10. Orderly(queue', bound', open') /\ \A t \in Service : Closed(t)'
  BY <1>1, <1>3, <1>9, Taken DEF Closed
<1>11. Draining' /\ GuardHolds'
  BY <1>3, <1>9 DEF IInv, Draining, Drains, GuardHolds
<1> QED
  BY <1>1, <1>7, <1>8, <1>10, <1>11 DEF IInv

LEMMA OnCreateStep ==
    ASSUME IInv, OnCreate
    PROVE  IInv'
<1> USE DEF record, box, orphans, history
<1> DEFINE s == Head(queue).service
<1>1. TypeOK'
  BY LooperType DEF IInv
<1>2. queue # <<>> /\ Head(queue).what = "create" /\ s \in Service /\ doing = Rest
  BY TakesType DEF IInv, OnCreate
<1>3. /\ queue' = Tail(queue) /\ open' = [open EXCEPT ![s] = TRUE]
      /\ UNCHANGED <<bound, doing, jobs, at, engine, boxStarted, mishaps>>
  BY DEF OnCreate
<1>4. Orderly(queue', bound', open')
  BY <1>2, <1>3, OrderlyCreated DEF IInv
<1>5. queue \in Seq(Message) /\ Head(queue) = queue[1] /\ 1 \in DOMAIN queue
  BY <1>2, IndexedTail, Shifted DEF IInv, TypeOK
<1>6. ~Has(jobs[s], "release")
  BY <1>2, <1>5 DEF IInv, Closed
<1>7. \A t \in Service : t # s => open'[t] = open[t]
  BY <1>2, <1>3 DEF IInv, TypeOK
<1>8. open'[s] = TRUE
  BY <1>2, <1>3 DEF IInv, TypeOK
<1>9. \A i \in DOMAIN Tail(queue) : \E k \in DOMAIN queue : Tail(queue)[i] = queue[k]
  BY <1>2, <1>5, Shifted
<1> HIDE DEF s
<1>10. Duties'
  BY <1>2, <1>3, <1>7, <1>8 DEF IInv, Duties, Duty
<1>11. Soles' /\ GuardHolds'
  BY <1>3 DEF IInv, Soles, GuardHolds
<1>12. \A t \in Service : Closed(t)'
  BY <1>3, <1>6, <1>7, <1>9 DEF IInv, Closed
<1>13. Draining'
  BY <1>2, <1>3 DEF IInv, Draining, Drains, Rest
<1> QED
  BY <1>1, <1>4, <1>10, <1>11, <1>12, <1>13 DEF IInv

LEMMA OnDestroyStep ==
    ASSUME IInv, Destroying
    PROVE  IInv'
<1> USE DEF record, box, orphans
<1> DEFINE s == Head(queue).service
           m == [what |-> "release"]
<1>1. TypeOK'
  BY LooperType DEF IInv
<1>2. /\ queue # <<>> /\ Head(queue).what = "destroy" /\ s \in Service
      /\ doing.then # "drain" /\ TearsDown
  BY DestroyTakes DEF IInv
<1>3. /\ queue' = Tail(queue) /\ open' = [open EXCEPT ![s] = FALSE]
      /\ jobs' = [jobs EXCEPT ![s] = Append(@, m)]
      /\ doing' = [then |-> "drain", service |-> s]
      /\ mishaps \subseteq mishaps' /\ \A x \in {"unguarded", "reopened", "undrained"} :
                                          x \in mishaps' => x \in mishaps
      /\ UNCHANGED <<bound, at, engine, boxStarted>>
  BY <1>2 DEF TearsDown, ToBeReleased
<1>4. m \in Job /\ m.what = "release"
  BY JobFacts
<1>5. /\ bound # s
      /\ \A t \in Service : ~open'[t]
      /\ \A i \in DOMAIN Tail(queue) : Tail(queue)[i].service = s => Tail(queue)[i].what = "stopSelf"
      /\ Orderly(queue', bound', open')
  <2>1. /\ bound # s
        /\ \A t \in Service : ~[open EXCEPT ![s] = FALSE][t]
        /\ \A i \in DOMAIN Tail(queue) : Tail(queue)[i].service = s => Tail(queue)[i].what = "stopSelf"
        /\ Orderly(Tail(queue), bound, [open EXCEPT ![s] = FALSE])
    BY <1>2, OrderlyDestroyed DEF IInv
  <2> QED
    BY <1>3, <2>1
<1>6. \A i \in DOMAIN Tail(queue) : \E k \in DOMAIN queue : Tail(queue)[i] = queue[k]
  BY <1>2, Shifted DEF IInv, TypeOK
<1> HIDE DEF s, m
<1>7. /\ jobs'[s] = Append(jobs[s], m) /\ jobs[s] \in Seq(Job) /\ open'[s] = FALSE
      /\ \A t \in Service : t # s => jobs'[t] = jobs[t] /\ open'[t] = open[t]
  BY <1>2, <1>3, <1>4, QueuedType DEF IInv, TypeOK
<1>8. \A t \in Service : Has(jobs'[t], "release") => t = s \/ Has(jobs[t], "release")
  BY <1>7
<1>9. Duties'
  <2>1. Duty(jobs'[s], at[s], engine[s], FALSE)
    BY <1>2, <1>4, <1>7, DutyClosed DEF IInv, Duties
  <2> QED
    BY <1>3, <1>7, <2>1 DEF IInv, Duties
<1>10. Soles'
  <2>1. "unguarded" \notin mishaps => Sole(jobs'[s], at[s], engine[s], boxStarted[s])
    BY <1>2, <1>4, <1>7, SoleQueued DEF IInv, Soles
  <2> QED
    BY <1>3, <1>7, <2>1 DEF IInv, Soles
<1>11. \A t \in Service : Closed(t)'
  BY <1>3, <1>5, <1>6, <1>8 DEF IInv, Closed
<1>12. Draining'
  <2>1. \A t \in Service : "undrained" \notin mishaps => ~Has(jobs[t], "release")
    BY <1>2 DEF IInv, Draining, Drains
  <2> QED
    BY <1>3, <1>5, <1>8, <2>1 DEF Draining, Drains
<1>13. GuardHolds'
  BY <1>3 DEF IInv, GuardHolds
<1> QED
  BY <1>1, <1>5, <1>9, <1>10, <1>11, <1>12, <1>13 DEF IInv

\* The main thread reads a status, sets it, or ends a wait.
LEMMA LooperStep ==
    ASSUME IInv, OnStartIgnored \/ Republish \/ OnStopSelf \/ OnDestroyFinds
                 \/ Drained \/ Undrained
    PROVE  IInv'
<1> USE DEF record, android, box, orphans, worker, history
<1>1. TypeOK'
  BY LooperType DEF IInv
<1>2. CASE OnStartIgnored
  <2>1. /\ Takes("args") /\ queue' = Tail(queue)
        /\ UNCHANGED <<bound, open, jobs, at, engine, boxStarted>>
        /\ mishaps' = mishaps \cup {"crossed"} /\ doing'.then = "republish" /\ doing = Rest
    BY <1>2 DEF OnStartIgnored, Takes
  <2>2. Orderly(queue', bound', open') /\ \A s \in Service : Closed(s)'
    BY <2>1, Taken DEF Closed
  <2>3. Duties' /\ Soles' /\ GuardHolds'
    BY <2>1 DEF IInv, Duties, Soles, GuardHolds
  <2>4. Draining'
    BY <2>1 DEF IInv, Draining, Drains, Rest
  <2> QED
    BY <1>1, <2>2, <2>3, <2>4 DEF IInv
<1>3. CASE OnStopSelf
  <2>1. /\ Takes("stopSelf") /\ UNCHANGED <<doing, open, jobs, at, engine, boxStarted, mishaps>>
        /\ bound \in Service \cup {None}
    BY <1>3 DEF OnStopSelf, IInv, TypeOK
  <2>2. Orderly(Tail(queue), bound, open) /\ Tail(queue) \in Seq(Message)
    BY <2>1, Taken, TakesType DEF IInv
  <2>3. CASE queue' = Tail(queue) /\ UNCHANGED bound
    BY <1>1, <2>1, <2>2, <2>3, Taken, QueueStep DEF Closed
  <2>4. CASE bound \in Service /\ queue' = Append(Tail(queue), Lifecycle("destroy", bound)) /\ bound' = None
    <3>1. Orderly(queue', bound', open')
      BY <2>1, <2>2, <2>4, OrderlyDestroy, ConstantsAssumption
    <3>2. Lifecycle("destroy", bound) \in Message /\ Lifecycle("destroy", bound).service = bound
      BY <2>4, MessageFacts
    <3>3. \A i \in DOMAIN queue' : queue'[i].service # bound =>
              i \in DOMAIN Tail(queue) /\ queue'[i] = Tail(queue)[i]
      BY <2>2, <2>4, <3>2, IndexedAppend
    <3>4. \A s \in Service : Closed(s)'
      BY <2>1, <2>4, <3>3, Taken, ConstantsAssumption DEF Closed
    <3> QED
      BY <1>1, <2>1, <3>1, <3>4, QueueStep
  <2>5. Head(queue).service \in Service
    BY <2>1, TakesType DEF IInv
  <2> QED
    BY <1>3, <2>3, <2>4, <2>5 DEF OnStopSelf
<1>4. CASE Republish \/ Drained \/ Undrained
  <2>1. /\ UNCHANGED <<queue, bound, open, jobs, at, engine, boxStarted>>
        /\ doing' = Rest
        /\ mishaps \subseteq mishaps' /\ \A x \in {"unguarded", "reopened"} :
                                            x \in mishaps' => x \in mishaps
    BY <1>4 DEF Republish, Drained, Undrained
  <2>2. Orderly(queue', bound', open') /\ \A s \in Service : Closed(s)'
    BY <2>1 DEF IInv, Closed
  <2>3. Duties' /\ Soles' /\ GuardHolds'
    BY <2>1 DEF IInv, Duties, Soles, GuardHolds
  <2>4. \A s \in Service : "undrained" \notin mishaps' => ~Has(jobs[s], "release")
    <3>1. CASE Republish
      BY <2>1, <3>1 DEF IInv, Draining, Drains, Republish
    <3>2. CASE Drained
      <4>1. ~\E i \in DOMAIN jobs[doing.service] : TRUE
        BY <3>2 DEF Drained
      <4> QED
        BY <2>1, <3>2, <4>1 DEF IInv, Draining, Drains, Drained, Has
    <3>3. CASE Undrained
      BY <3>3 DEF Undrained
    <3> QED
      BY <1>4, <3>1, <3>2, <3>3
  <2>5. Draining'
    BY <2>1, <2>4 DEF Draining, Rest
  <2> QED
    BY <1>1, <2>2, <2>3, <2>5 DEF IInv
<1>5. CASE OnDestroyFinds
  <2>1. /\ UNCHANGED <<queue, bound, open, jobs, at, engine, boxStarted, mishaps>>
        /\ doing'.then = "correct" /\ doing.then # "drain"
    BY <1>5 DEF OnDestroyFinds, Takes, Rest
  <2>2. Orderly(queue', bound', open') /\ \A s \in Service : Closed(s)'
    BY <2>1 DEF IInv, Closed
  <2>3. Duties' /\ Soles' /\ GuardHolds'
    BY <2>1 DEF IInv, Duties, Soles, GuardHolds
  <2>4. Draining'
    BY <2>1 DEF IInv, Draining, Drains
  <2> QED
    BY <1>1, <2>2, <2>3, <2>4 DEF IInv
<1> QED
  BY <1>2, <1>3, <1>4, <1>5

LEMMA NextInvariant == IInv /\ [Next]_vars => IInv'
<1>1. ASSUME IInv, Main PROVE IInv'
  BY <1>1, OnCreateStep, OnStopStep, OnStartStep, OnDestroyStep, LooperStep DEF Main, Destroying
<1>2. ASSUME IInv, UNCHANGED vars PROVE IInv'
  <2>1. TypeOK'
    BY <1>2, NextType DEF IInv
  <2>2. UNCHANGED stable /\ UNCHANGED mishaps
    BY <1>2 DEF vars, record, android, box, worker, history, stable
  <2> QED
    BY <1>2, <2>1, <2>2, StableStep
<1> QED
  BY <1>1, <1>2, OutsideStep, OnRevokeStep, WorkersStep, LooperStep DEF Next, Machine, Binder

LEMMA Invariance == Spec => []IInv
BY InitInvariant, NextInvariant, PTL DEF Spec

\* Only a start that runs over a sing-box leaves one behind.
LEMMA OrphanedNext == Orphaned /\ [Next]_vars => Orphaned'
<1> SUFFICES ASSUME Orphaned, [Next]_vars PROVE Orphaned'
  OBVIOUS
<1> USE DEF record, android, box, orphans, worker, history
<1>1. CASE UNCHANGED orphans /\ mishaps \subseteq mishaps'
  BY <1>1 DEF Orphaned
<1>2. CASE App
  BY <1>1, <1>2 DEF App, PluginStart, PluginStop, PluginStopsNothing, Refused
<1>3. CASE AlwaysOn \/ NotificationStop \/ Reclaim
  BY <1>1, <1>3 DEF AlwaysOn, NotificationStop, Reclaim
<1>4. CASE Revoke \/ ProcessDies
  BY <1>4 DEF Revoke, ProcessDies, Orphaned
<1>5. CASE Main
  BY <1>1, <1>5 DEF Main, OnCreate, OnStop, OnStart, OnStartIgnored, Republish, OnStopSelf,
                    OnDestroy, OnDestroyFinds, OnDestroyCorrects, TearsDown, Drained
<1>6. CASE Undrained
  BY <1>1, <1>6 DEF Undrained
<1>7. CASE Binder
  BY <1>1, <1>7 DEF Binder, OnRevoke
<1>8. ASSUME NEW s \in Service, Worker(s) PROVE Orphaned'
  <2>1. CASE Launch(s)
    BY <2>1 DEF Launch, Orphaned
  <2>2. CASE ~Launch(s)
    BY <1>1, <1>8, <2>2 DEF Worker, Resolve, ResolveFails, Connected, LaunchFails, Release,
                            ShutdownReleases, ShutdownReports, ReleaseEngine
  <2> QED
    BY <2>1, <2>2
<1>9. CASE UNCHANGED vars
  BY <1>1, <1>9 DEF vars
<1> QED
  BY <1>2, <1>3, <1>4, <1>5, <1>6, <1>7, <1>8, <1>9 DEF Next, Android, Machine

LEMMA Orphans == Spec => []Orphaned
<1>1. Init => Orphaned
  BY DEF Init, Orphaned
<1> QED
  BY <1>1, OrphanedNext, PTL DEF Spec

\* Every variable keeps its type: what is queued for the looper and for the
\* workers is what their handlers can handle, and what is saved is a profile.
THEOREM Typing == Spec => []TypeOK
<1>1. IInv => TypeOK
  BY DEF IInv
<1> QED
  BY <1>1, Invariance, PTL

\* boxStarted keeps a second start from building a command server over the first
\* one's (SingboxVpnService.kt:139), unless a release cleared it with a start queued
\* behind the release.
THEOREM Guards == Spec => []GuardHolds
<1>1. IInv => GuardHolds
  BY DEF IInv
<1> QED
  BY <1>1, Invariance, PTL

\* At most one instance holds a command server, as long as onDestroy waits for the
\* worker to the end (SingboxVpnService.kt:656), and no other runs beside it
\* (SingboxVpnService.kt:203), as long as no release cleared boxStarted with a start
\* queued behind the release.
THEOREM RunsOneBox == Spec => []OneBox
BY Safe, Invariance, Orphans, PTL

(***************************************************************************)
(* The record and the file                                                 *)
(*                                                                         *)
(* What TunnelState and start-request.json say of the tunnel is right only *)
(* because of what is still on its way: each part of the second invariant  *)
(* says of one of them what may be said of it now, and who is going to     *)
(* make up for the rest.                                                   *)
(***************************************************************************)

\* A start is among the messages.
Asked(q) == \E i \in DOMAIN q : q[i].what = "args" /\ q[i].request # "stop"

\* The stopSelf or the destroy of an instance is on its way.
Departs(q, s) == Sent(q, "stopSelf", s) \/ Sent(q, "destroy", s)

\* Nothing is lost between two queues but what is put before the first message.
Keeps(q, p) == \A i \in DOMAIN q : \E k \in DOMAIN p : p[k] = q[i]

LEMMA Retained ==
    ASSUME NEW q, NEW p, Keeps(q, p)
    PROVE  /\ Asked(q) => Asked(p)
           /\ \A s : Departs(q, s) => Departs(p, s)
BY DEF Keeps, Asked, Departs, Sent, Is

LEMMA Put ==
    ASSUME NEW q \in Seq(Message), NEW m \in Message
    PROVE  /\ Keeps(q, Append(q, m))
           /\ m.what = "args" /\ m.request # "stop" => Asked(Append(q, m))
           /\ m.what \in {"stopSelf", "destroy"} => Departs(Append(q, m), m.service)
<1>1. /\ Len(q) \in Nat /\ DOMAIN q = 1 .. Len(q) /\ DOMAIN Append(q, m) = 1 .. Len(q) + 1
      /\ \A i \in DOMAIN q : Append(q, m)[i] = q[i]
      /\ Append(q, m)[Len(q) + 1] = m
  BY IndexedAppend
<1>2. Len(q) + 1 \in DOMAIN Append(q, m) /\ DOMAIN q \subseteq DOMAIN Append(q, m)
  BY <1>1
<1>3. Keeps(q, Append(q, m))
  BY <1>1, <1>2 DEF Keeps
<1> QED
  BY <1>1, <1>2, <1>3 DEF Asked, Departs, Sent, Is

\* What is lost with the first message is what that message was.
LEMMA Took ==
    ASSUME NEW q \in Seq(Message), q # <<>>
    PROVE  /\ Asked(q) => \/ Head(q).what = "args" /\ Head(q).request # "stop"
                          \/ Asked(Tail(q))
           /\ \A s : Departs(q, s) => \/ Is(Head(q), "stopSelf", s) \/ Is(Head(q), "destroy", s)
                                     \/ Departs(Tail(q), s)
<1>1. Head(q) = q[1] /\ \A k \in DOMAIN q : k # 1 => \E i \in DOMAIN Tail(q) : Tail(q)[i] = q[k]
  BY IndexedTail, Shifted
<1> QED
  BY <1>1 DEF Asked, Departs, Sent

\* Android only adds to the queue.
LEMMA StartAsks ==
    ASSUME TypeOK, NEW r \in Request, StartService(r)
    PROVE  Keeps(queue, queue') /\ (r # "stop" => Asked(queue'))
<1>1. CASE bound # None /\ queue' = Append(queue, Args(bound, r))
  <2>1. queue \in Seq(Message) /\ bound \in Service
    BY <1>1 DEF TypeOK
  <2>2. Args(bound, r) \in Message /\ Args(bound, r).what = "args" /\ Args(bound, r).request = r
    BY <2>1, MessageFacts
  <2> QED
    BY <1>1, <2>1, <2>2, Put
<1>2. ASSUME NEW s \in Unused, queue' = queue \o <<Lifecycle("create", s), Args(s, r)>>
      PROVE  Keeps(queue, queue') /\ (r # "stop" => Asked(queue'))
  <2> DEFINE c == Lifecycle("create", s)
             m == Args(s, r)
             n == Len(queue)
  <2>1. /\ s \in Service /\ c \in Message /\ m \in Message
        /\ m.what = "args" /\ m.request = r
    BY MessageFacts DEF Unused
  <2>2. n \in Nat /\ DOMAIN queue = 1 .. n /\ queue \in Seq(Message)
    BY LenProperties DEF TypeOK
  <2>3. queue' \in Seq(Message) /\ Len(queue') = n + 2
        /\ \A i \in 1 .. n + 2 : queue'[i] = IF i <= n THEN queue[i] ELSE <<c, m>>[i - n]
    BY <1>2, <2>1, <2>2, ConcatProperties
  <2>4. DOMAIN queue' = 1 .. n + 2
    BY <2>3, LenProperties
  <2>5. n + 2 \in 1 .. n + 2 /\ ~(n + 2 <= n) /\ (n + 2) - n = 2
    BY <2>2
  <2>6. queue'[n + 2] = m
    BY <2>3, <2>5
  <2>7. Keeps(queue, queue')
    BY <2>2, <2>3, <2>4 DEF Keeps
  <2> HIDE DEF c, m, n
  <2> QED
    BY <2>1, <2>4, <2>5, <2>6, <2>7 DEF Asked
<1> QED
  BY <1>1, <1>2 DEF StartService

LEMMA StopKeeps ==
    ASSUME TypeOK, NEW s \in Service, StopSelf(s)
    PROVE  Keeps(queue, queue')
<1>1. CASE queue' = Append(queue, Lifecycle("destroy", s))
  BY <1>1, Put, MessageFacts DEF TypeOK
<1>2. CASE UNCHANGED queue
  BY <1>2 DEF Keeps
<1> QED
  BY <1>1, <1>2 DEF StopSelf

\* The jobs j of an instance: the release is the last, and is there for what is
\* left of an instance that is closed.
Tidy(j, a, o) ==
    /\ \A i \in DOMAIN j : j[i].what = "release" => i = Len(j)
    /\ ~o /\ j # <<>> => Has(j, "release")
    /\ \A i \in DOMAIN j : j[i].what = "shutdown" => j[i].stage \in {"disconnected", "failed"}
    /\ a = "released" => j # <<>> /\ Head(j).what = "shutdown"

LEMMA TidyQueued ==
    ASSUME NEW j \in Seq(Job), NEW a, Tidy(j, a, TRUE), ~Has(j, "release"),
           NEW m \in Job, m.what # "release",
           m.what = "shutdown" => m.stage \in {"disconnected", "failed"}
    PROVE  Tidy(Append(j, m), a, TRUE)
<1>1. /\ DOMAIN Append(j, m) = 1 .. Len(j) + 1 /\ DOMAIN j = 1 .. Len(j) /\ Len(j) \in Nat
      /\ \A i \in DOMAIN j : Append(j, m)[i] = j[i]
      /\ Append(j, m)[Len(j) + 1] = m
  BY IndexedAppend
<1>2. j # <<>> => Append(j, m) # <<>> /\ Head(Append(j, m)) = Head(j)
  BY IndexedAppend, HasNot, AppendProperties, IndexedTail
<1>3. \A i \in DOMAIN Append(j, m) : i \in DOMAIN j \/ Append(j, m)[i] = m
  BY <1>1
<1> QED
  BY <1>1, <1>2, <1>3 DEF Tidy, Has

LEMMA TidyClosed ==
    ASSUME NEW j \in Seq(Job), NEW a, Tidy(j, a, TRUE), ~Has(j, "release"),
           NEW m \in Job, m.what = "release"
    PROVE  Tidy(Append(j, m), a, FALSE)
<1>1. /\ DOMAIN Append(j, m) = 1 .. Len(j) + 1 /\ DOMAIN j = 1 .. Len(j) /\ Len(j) \in Nat
      /\ Len(Append(j, m)) = Len(j) + 1
      /\ \A i \in DOMAIN j : Append(j, m)[i] = j[i]
      /\ Append(j, m)[Len(j) + 1] = m
  BY IndexedAppend, AppendProperties
<1>2. j # <<>> => Append(j, m) # <<>> /\ Head(Append(j, m)) = Head(j)
  BY IndexedAppend, HasNot, AppendProperties, IndexedTail
<1>3. \A i \in DOMAIN Append(j, m) : i \in DOMAIN j \/ i = Len(j) + 1
  BY <1>1
<1>4. Has(Append(j, m), "release")
  BY HasAppended
<1> QED
  BY <1>1, <1>2, <1>3, <1>4 DEF Tidy, Has

LEMMA TidyDone ==
    ASSUME NEW j \in Seq(Job), NEW a, NEW o, Tidy(j, a, o), j # <<>>
    PROVE  /\ Tidy(Tail(j), "idle", o)
           /\ Head(j).what = "release" => Tail(j) = <<>>
<1>1. /\ Len(j) \in Nat \ {0} /\ DOMAIN j = 1 .. Len(j) /\ Head(j) = j[1]
      /\ DOMAIN Tail(j) = 1 .. Len(j) - 1 /\ Tail(j) \in Seq(Job) /\ Len(Tail(j)) = Len(j) - 1
      /\ \A i \in 1 .. Len(j) - 1 : Tail(j)[i] = j[i + 1]
  BY IndexedTail, HeadTailProperties
<1>2. \A i \in DOMAIN Tail(j) : Tail(j)[i].what = "release" => i = Len(Tail(j))
  <2> SUFFICES ASSUME NEW i \in 1 .. Len(j) - 1, Tail(j)[i].what = "release"
               PROVE  i = Len(j) - 1
    BY <1>1
  <2>1. i + 1 \in DOMAIN j /\ j[i + 1].what = "release"
    BY <1>1
  <2>2. i + 1 = Len(j)
    BY <2>1 DEF Tidy
  <2>3. Len(j) \in Nat /\ i \in Nat
    BY <1>1
  <2> QED
    BY <2>2, <2>3
<1>3. \A i \in DOMAIN Tail(j) : Tail(j)[i].what = "shutdown" =>
          Tail(j)[i].stage \in {"disconnected", "failed"}
  BY <1>1, Shifted DEF Tidy
<1>4. Head(j).what = "release" => Tail(j) = <<>>
  <2>1. ASSUME Head(j).what = "release" PROVE Len(Tail(j)) = 0
    BY <1>1, <2>1 DEF Tidy
  <2> QED
    BY <1>1, <2>1, EmptySeq
<1>5. ~o /\ Tail(j) # <<>> => Has(Tail(j), "release")
  BY <1>4, HasNot DEF Tidy
<1> QED
  BY <1>2, <1>3, <1>4, <1>5 DEF Tidy

LEMMA TidyResolved ==
    ASSUME NEW j \in Seq(Job), NEW a, NEW o, Tidy(j, a, o), j # <<>>,
           NEW m \in Job, m.what = "start", Head(j).what = "start"
    PROVE  Tidy(<<m>> \o Tail(j), "resolved", o)
<1> DEFINE p == <<m>> \o Tail(j)
<1>1. /\ p \in Seq(Job) /\ p # <<>> /\ DOMAIN p = DOMAIN j
      /\ \A i \in DOMAIN j : p[i].what = j[i].what
  BY Resolved
<1>2. /\ \A i \in DOMAIN j : i # 1 => p[i] = j[i]
      /\ Len(p) = Len(j) /\ j[1] = Head(j)
  <2>1. /\ Len(j) \in Nat \ {0} /\ DOMAIN j = 1 .. Len(j) /\ Tail(j) \in Seq(Job)
        /\ Len(Tail(j)) = Len(j) - 1 /\ j[1] = Head(j)
        /\ \A i \in 1 .. Len(j) - 1 : Tail(j)[i] = j[i + 1]
    BY IndexedTail, HeadTailProperties
  <2>2. /\ Len(p) = 1 + (Len(j) - 1)
        /\ \A i \in 1 .. 1 + (Len(j) - 1) : p[i] = IF i <= 1 THEN <<m>>[i] ELSE Tail(j)[i - 1]
    <3>1. <<m>> \in Seq(Job) /\ Len(<<m>>) = 1
      OBVIOUS
    <3> QED
      BY <2>1, <3>1, ConcatProperties
  <2>3. \A i \in 2 .. Len(j) : p[i] = j[i]
    BY <2>1, <2>2
  <2> HIDE DEF p
  <2> QED
    BY <2>1, <2>2, <2>3
<1> HIDE DEF p
<1>3. Has(p, "release") <=> Has(j, "release")
  BY <1>1 DEF Has
<1>4. \A i \in DOMAIN p : p[i].what = "shutdown" => p[i].stage \in {"disconnected", "failed"}
  BY <1>1, <1>2 DEF Tidy
<1> QED
  BY <1>1, <1>2, <1>3, <1>4 DEF Tidy, p

Tidies == \A s \in Service : Tidy(jobs[s], at[s], open[s])

\* The traffic goes to a TUN, a TUN is a sing-box's, and a shutdown that has
\* released has neither.
Wired ==
    /\ \A s \in Service : tun[s] => engine[s] # None /\ at[s] # "released"
    /\ routed # None => tun[routed]

Republishing == doing.then = "republish" => "crossed" \in mishaps

KInv == Tidies /\ Wired /\ Republishing

\* A request reaches an instance that is open, and takes jobs.
LEMMA Received ==
    ASSUME IInv, Takes("args")
    PROVE  /\ Head(queue).service \in Service /\ open[Head(queue).service]
           /\ ~Has(jobs[Head(queue).service], "release")
<1>1. queue # <<>> /\ Head(queue).what = "args" /\ Head(queue).service \in Service
  BY TakesType DEF IInv
<1>2. queue \in Seq(Message) /\ Prepared(queue, open)
  BY DEF IInv, Orderly
<1>3. Head(queue) = queue[1] /\ 1 \in DOMAIN queue /\ \A i \in DOMAIN queue : ~(i < 1)
  BY <1>1, <1>2, IndexedTail, Shifted
<1>4. open[Head(queue).service]
  BY <1>1, <1>2, <1>3 DEF Prepared
<1> QED
  BY <1>1, <1>4 DEF IInv, Closed

\* The instance that is created is closed, and has nothing left to do; so is
\* every other.
LEMMA Creates ==
    ASSUME IInv, Tidies, OnCreate
    PROVE  /\ Head(queue).service \in Service
           /\ \A t \in Service : ~open[t]
           /\ jobs[Head(queue).service] = <<>>
           /\ open' = [open EXCEPT ![Head(queue).service] = TRUE]
           /\ engine[Head(queue).service] = None
<1> DEFINE s == Head(queue).service
<1>1. queue # <<>> /\ Head(queue).what = "create" /\ s \in Service /\ queue \in Seq(Message)
  BY TakesType DEF IInv, TypeOK, OnCreate
<1>2. Head(queue) = queue[1] /\ 1 \in DOMAIN queue
  BY <1>1, IndexedTail, Shifted
<1>3. \A t \in Service : ~open[t]
  BY <1>1, OrderlyCreated DEF IInv
<1>4. ~Has(jobs[s], "release")
  BY <1>1, <1>2 DEF IInv, Closed
<1>5. jobs[s] = <<>>
  BY <1>1, <1>3, <1>4 DEF Tidies, Tidy
<1>6. engine[s] = None
  BY <1>1, <1>3, <1>4 DEF IInv, Duties, Duty
<1> QED
  BY <1>1, <1>3, <1>5, <1>6 DEF OnCreate

\* The instance that is destroyed is open, unless it never was there, and no
\* release has been queued for it.
LEMMA Destroys ==
    ASSUME IInv, Destroying
    PROVE  /\ Head(queue).service \in Service /\ open[Head(queue).service]
           /\ ~Has(jobs[Head(queue).service], "release")
           /\ jobs'[Head(queue).service] = Append(jobs[Head(queue).service], [what |-> "release"])
           /\ \A t \in Service : ~open'[t]
           /\ \A t \in Service : t # Head(queue).service => jobs'[t] = jobs[t] /\ ~open[t]
<1> DEFINE s == Head(queue).service
<1>1. /\ queue # <<>> /\ Head(queue).what = "destroy" /\ s \in Service
      /\ queue \in Seq(Message) /\ TearsDown
  BY DestroyTakes DEF IInv
<1>2. Head(queue) = queue[1] /\ 1 \in DOMAIN queue /\ \A i \in DOMAIN queue : ~(i < 1)
  BY <1>1, IndexedTail, Shifted
<1>3. open[s]
  BY <1>1, <1>2 DEF IInv, Orderly, Prepared
<1>4. ~Has(jobs[s], "release")
  BY <1>1, <1>3 DEF IInv, Closed
<1>5. \A t \in Service : ~[open EXCEPT ![s] = FALSE][t]
  BY <1>1, OrderlyDestroyed DEF IInv
<1>6. open' = [open EXCEPT ![s] = FALSE] /\ jobs' = [jobs EXCEPT ![s] = Append(@, [what |-> "release"])]
  BY <1>1 DEF TearsDown, ToBeReleased
<1>7. \A t \in Service : t # s => ~open[t]
  BY <1>1, <1>3 DEF IInv, Orderly, Single
<1>8. jobs'[s] = Append(jobs[s], [what |-> "release"]) /\ \A t \in Service : t # s => jobs'[t] = jobs[t]
  BY <1>1, <1>6, JobFacts, QueuedType DEF IInv
<1> QED
  BY <1>1, <1>3, <1>4, <1>5, <1>6, <1>7, <1>8

\* A worker moves alone, and leaves these.
LEMMA Moves ==
    ASSUME IInv, NEW s \in Service, Worker(s)
    PROVE  /\ UNCHANGED <<bound, revoked, doing, open, wished>>
           /\ jobs[s] # <<>> /\ jobs[s] \in Seq(Job)
           /\ \A t \in Service : t # s =>
                 jobs'[t] = jobs[t] /\ at'[t] = at[t] /\ tun'[t] = tun[t] /\ engine'[t] = engine[t]
           /\ mishaps \subseteq mishaps' /\ mishaps' \subseteq mishaps \cup {"reopened", "unguarded"}
           /\ UNCHANGED queue \/ ShutdownReports(s)
           /\ UNCHANGED routed \/ Launch(s) \/ Release(s) \/ ShutdownReleases(s)
           /\ UNCHANGED mishaps \/ Launch(s) \/ ShutdownReleases(s)
<1> USE DEF record, android, box, orphans, worker, history, Works, ReleaseEngine, IInv, TypeOK
<1>1. CASE Resolve(s)
  BY <1>1 DEF Resolve
<1>2. CASE ResolveFails(s)
  BY <1>2, StartFailsType DEF ResolveFails
<1>3. CASE Launch(s)
  BY <1>3 DEF Launch
<1>4. CASE Connected(s)
  BY <1>4, DoneType DEF Connected
<1>5. CASE LaunchFails(s)
  BY <1>5, StartFailsType DEF LaunchFails
<1>6. CASE Release(s)
  BY <1>6, DoneType DEF Release
<1>7. CASE ShutdownReleases(s)
  BY <1>7 DEF ShutdownReleases
<1>8. CASE ShutdownReports(s)
  BY <1>8, DoneType DEF ShutdownReports
<1> QED
  BY <1>1, <1>2, <1>3, <1>4, <1>5, <1>6, <1>7, <1>8 DEF Worker

\* What a worker has done: a start.
LEMMA Resolves ==
    ASSUME IInv, NEW s \in Service, Resolve(s)
    PROVE  /\ Head(jobs[s]).what = "start" /\ at[s] = "idle" /\ at'[s] = "resolved"
           /\ \A what : Has(jobs'[s], what) <=> Has(jobs[s], what)
           /\ UNCHANGED <<record, queue, routed, tun, engine, mishaps>>
           /\ \E m \in Job : /\ m.what = "start" /\ jobs'[s] = <<m>> \o Tail(jobs[s])
                             /\ m.request = saved' /\ saved' \in Profile
                             /\ Head(jobs[s]).request \in {"system", saved'}
                             /\ Head(jobs[s]).request = "system" => UNCHANGED saved
<1> DEFINE j == jobs[s]
           p == IF Head(j).request = "system" THEN saved ELSE Head(j).request
           m == [what |-> "start", request |-> p]
<1>1. j # <<>> /\ Head(j) \in Job /\ Head(j).what = "start" /\ at[s] = "idle" /\ j \in Seq(Job)
  BY WorksType DEF IInv, Resolve
<1>2. p \in Profile
  BY <1>1, JobFacts DEF IInv, TypeOK, Resolve, Startable, Request
<1>3. m \in Job /\ m.what = "start" /\ m.request = p
  BY <1>2, JobFacts, ConstantsAssumption DEF Request
<1>4. jobs' = [jobs EXCEPT ![s] = <<m>> \o Tail(@)] /\ saved' = p
  BY DEF Resolve
<1>5. p = saved \/ p = Head(j).request
  OBVIOUS
<1>6. Head(j).request = "system" => p = saved
  OBVIOUS
<1>7. Head(j).request # "system" => p = Head(j).request
  OBVIOUS
<1> HIDE DEF m, p
<1>8. jobs'[s] = <<m>> \o Tail(j)
  BY <1>4 DEF IInv, TypeOK
<1>9. \A what : Has(jobs'[s], what) <=> Has(j, what)
  <2>1. DOMAIN jobs'[s] = DOMAIN j /\ \A i \in DOMAIN j : jobs'[s][i].what = j[i].what
    BY <1>1, <1>3, <1>8, Resolved
  <2> QED
    BY <2>1 DEF Has
<1>10. at'[s] = "resolved" /\ UNCHANGED <<record, queue, routed, tun, engine, mishaps>>
  BY DEF IInv, TypeOK, Resolve, android, box, history
<1> QED
  BY <1>1, <1>2, <1>3, <1>4, <1>6, <1>7, <1>8, <1>9, <1>10

\* What a start that gives up leaves.
LEMMA Fails ==
    ASSUME IInv, NEW s \in Service, ResolveFails(s) \/ LaunchFails(s)
    PROVE  /\ Head(jobs[s]).what = "start" /\ Has(jobs[s], "start") /\ at'[s] = "idle"
           /\ UNCHANGED <<saved, queue, routed, tun, engine, mishaps>>
           /\ Tail(jobs[s]) \in Seq(Job)
           /\ \A what : Has(jobs'[s], what) => Has(jobs[s], what) \/ what = "shutdown"
           /\ \A what : Has(jobs[s], what) => Has(jobs'[s], what) \/ what = "start"
           /\ \/ /\ open[s] /\ jobs'[s] = Append(Tail(jobs[s]), Shutdown("failed", FALSE))
                 /\ UNCHANGED record /\ Has(jobs'[s], "shutdown")
              \/ /\ ~open[s] /\ jobs'[s] = Tail(jobs[s])
                 /\ current' = "failed" /\ serviceRunning' = FALSE
<1>1. jobs[s] # <<>> /\ Head(jobs[s]).what = "start" /\ StartFails(s)
  BY DEF ResolveFails, LaunchFails, Works
<1>2. UNCHANGED <<saved, queue, routed, tun, engine, mishaps>>
  BY DEF ResolveFails, LaunchFails, android, box, history
<1>3. /\ jobs[s] \in Seq(Job) /\ Tail(jobs[s]) \in Seq(Job)
      /\ Shutdown("failed", FALSE) \in Job /\ Shutdown("failed", FALSE).what = "shutdown"
  BY <1>1, IndexedTail, JobFacts DEF IInv, TypeOK, Stage
<1>4. at'[s] = "idle"
  BY <1>1 DEF StartFails, IInv, TypeOK
<1>5. \/ /\ open[s] /\ jobs'[s] = Append(Tail(jobs[s]), Shutdown("failed", FALSE))
         /\ UNCHANGED record
      \/ /\ ~open[s] /\ jobs'[s] = Tail(jobs[s])
         /\ current' = "failed" /\ serviceRunning' = FALSE
  BY <1>1, <1>3 DEF StartFails, GivenUp, Done, IInv, TypeOK
<1>6. \A what : Has(jobs[s], what) <=> what = "start" \/ Has(Tail(jobs[s]), what)
  BY <1>1, <1>3, HasNot
<1>7. \A what : Has(Append(Tail(jobs[s]), Shutdown("failed", FALSE)), what) <=>
          Has(Tail(jobs[s]), what) \/ what = "shutdown"
  BY <1>3, HasAppended
<1> QED
  BY <1>1, <1>2, <1>3, <1>4, <1>5, <1>6, <1>7

\* A start that brings sing-box up.
LEMMA Launches ==
    ASSUME IInv, NEW s \in Service, Launch(s)
    PROVE  /\ Head(jobs[s]).what = "start" /\ Has(jobs[s], "start")
           /\ at[s] = "resolved" /\ at'[s] = "launched"
           /\ UNCHANGED <<record, saved, queue, jobs>>
           /\ engine'[s] # None
           /\ UNCHANGED <<tun, routed>> \/ (tun'[s] /\ routed' = s)
<1>1. jobs[s] # <<>> /\ jobs[s] \in Seq(Job) /\ Head(jobs[s]).what = "start" /\ at[s] = "resolved"
  BY DEF Launch, Works, IInv, TypeOK
<1>2. Has(jobs[s], "start")
  BY <1>1, HasNot
<1>3. Head(jobs[s]).request \in Profile
  BY <1>1 DEF IInv, Duties, Duty
<1>4. engine'[s] # None
  BY <1>3, ConstantsAssumption DEF Launch, IInv, TypeOK
<1> QED
  BY <1>1, <1>2, <1>4 DEF Launch, IInv, TypeOK

LEMMA Connects ==
    ASSUME IInv, NEW s \in Service, Connected(s)
    PROVE  /\ Head(jobs[s]).what = "start" /\ Has(jobs[s], "start")
           /\ at[s] = "launched" /\ at'[s] = "idle" /\ tun[s]
           /\ jobs'[s] = Tail(jobs[s]) /\ Tail(jobs[s]) \in Seq(Job)
           /\ \A what : Has(jobs'[s], what) => Has(jobs[s], what)
           /\ \A what : Has(jobs[s], what) => Has(jobs'[s], what) \/ what = "start"
           /\ current' = "connected" /\ UNCHANGED <<serviceRunning, saved, queue, routed, tun, engine, mishaps>>
<1>1. /\ jobs[s] # <<>> /\ jobs[s] \in Seq(Job) /\ Head(jobs[s]).what = "start" /\ at[s] = "launched"
      /\ Done(s)
  BY DEF Connected, Works, IInv, TypeOK
<1>2. jobs'[s] = Tail(jobs[s]) /\ Tail(jobs[s]) \in Seq(Job)
  BY <1>1, DoneType, IndexedTail DEF IInv
<1>3. \A what : Has(jobs[s], what) <=> what = "start" \/ Has(Tail(jobs[s]), what)
  BY <1>1, HasNot
<1> QED
  BY <1>1, <1>2, <1>3 DEF Connected, HasTun, IInv, TypeOK, android, box, history

\* The two releases.
LEMMA Releases ==
    ASSUME IInv, NEW s \in Service, Release(s)
    PROVE  /\ Head(jobs[s]).what = "release" /\ Has(jobs[s], "release")
           /\ at[s] = "idle" /\ UNCHANGED at
           /\ jobs'[s] = Tail(jobs[s]) /\ Tail(jobs[s]) \in Seq(Job)
           /\ ~tun'[s] /\ engine'[s] = None
           /\ routed' = IF routed = s THEN None ELSE routed
           /\ UNCHANGED <<record, saved, queue, mishaps>>
<1>1. /\ jobs[s] # <<>> /\ jobs[s] \in Seq(Job) /\ Head(jobs[s]).what = "release" /\ Done(s)
  BY DEF Release, Works, IInv, TypeOK
<1>2. jobs'[s] = Tail(jobs[s]) /\ Tail(jobs[s]) \in Seq(Job) /\ Has(jobs[s], "release")
  BY <1>1, DoneType, IndexedTail, HasNot DEF IInv
<1> QED
  BY <1>1, <1>2 DEF Release, Works, ReleaseEngine, IInv, TypeOK, history

LEMMA ShutsDown ==
    ASSUME IInv, NEW s \in Service, ShutdownReleases(s)
    PROVE  /\ Head(jobs[s]).what = "shutdown" /\ Has(jobs[s], "shutdown")
           /\ at'[s] = "released" /\ at[s] = "idle"
           /\ ~tun'[s] /\ engine'[s] = None
           /\ routed' = IF routed = s THEN None ELSE routed
           /\ UNCHANGED <<record, saved, queue, jobs>>
<1>1. jobs[s] # <<>> /\ jobs[s] \in Seq(Job) /\ Head(jobs[s]).what = "shutdown"
  BY DEF ShutdownReleases, Works, IInv, TypeOK
<1>2. Has(jobs[s], "shutdown")
  BY <1>1, HasNot
<1> QED
  BY <1>1, <1>2 DEF ShutdownReleases, Works, ReleaseEngine, IInv, TypeOK

LEMMA Reports ==
    ASSUME IInv, NEW s \in Service, ShutdownReports(s)
    PROVE  /\ Head(jobs[s]) \in Job /\ Head(jobs[s]).what = "shutdown" /\ Has(jobs[s], "shutdown")
           /\ at[s] = "released" /\ at'[s] = "idle"
           /\ jobs'[s] = Tail(jobs[s]) /\ Tail(jobs[s]) \in Seq(Job)
           /\ \A what : Has(jobs'[s], what) => Has(jobs[s], what)
           /\ \A what : Has(jobs[s], what) => Has(jobs'[s], what) \/ what = "shutdown"
           /\ UNCHANGED <<routed, tun, engine, mishaps>>
           /\ serviceRunning' = FALSE /\ current' = Head(jobs[s]).stage
           /\ saved' = Kept(Head(jobs[s]))
           /\ Keeps(queue, queue') /\ Departs(queue', s)
<1>1. /\ jobs[s] # <<>> /\ jobs[s] \in Seq(Job) /\ Head(jobs[s]).what = "shutdown" /\ at[s] = "released"
      /\ Done(s)
  BY DEF ShutdownReports, Works, IInv, TypeOK
<1>2. Head(jobs[s]) \in Job /\ jobs'[s] = Tail(jobs[s]) /\ Tail(jobs[s]) \in Seq(Job)
  BY <1>1, DoneType, IndexedTail DEF IInv
<1>3. \A what : Has(jobs[s], what) <=> what = "shutdown" \/ Has(Tail(jobs[s]), what)
  BY <1>1, HasNot
<1>4. Keeps(queue, queue') /\ Departs(queue', s)
  <2>1. /\ queue \in Seq(Message) /\ queue' = Append(queue, Lifecycle("stopSelf", s))
        /\ Lifecycle("stopSelf", s) \in Message
        /\ Lifecycle("stopSelf", s).what = "stopSelf" /\ Lifecycle("stopSelf", s).service = s
    BY MessageFacts DEF ShutdownReports, StopSelfPosted, IInv, TypeOK
  <2> QED
    BY <2>1, Put
<1> QED
  BY <1>1, <1>2, <1>3, <1>4 DEF ShutdownReports, IInv, TypeOK, box, history

LEMMA TidiesStep ==
    ASSUME IInv, KInv, Next
    PROVE  Tidies'
<1> USE DEF record, android, box, orphans, worker, history
<1>0. Tidies /\ Wired /\ TypeOK
  BY DEF KInv, IInv
<1>1. CASE UNCHANGED <<open, jobs, at>>
  BY <1>0, <1>1 DEF Tidies
<1>2. CASE App \/ Android
  <2>1. CASE ProcessDies
    BY <2>1 DEF ProcessDies, Tidies, Tidy
  <2>2. CASE ~ProcessDies
    <3>1. UNCHANGED <<open, jobs, at>>
      BY <1>2, <2>2 DEF App, Android, PluginStart, PluginStop, PluginStopsNothing, Refused,
                        AlwaysOn, NotificationStop, Reclaim, Revoke
    <3> QED
      BY <1>1, <3>1
  <2> QED
    BY <2>1, <2>2
<1>3. CASE OnCreate
  BY <1>0, <1>3, Creates DEF Tidies, Tidy, OnCreate, TypeOK
<1>4. CASE OnStop
  <2> DEFINE s == Head(queue).service
             m == Shutdown("disconnected", TRUE)
  <2>1. s \in Service /\ open[s] /\ ~Has(jobs[s], "release")
    BY <1>4, Received DEF OnStop
  <2>2. m \in Job /\ m.what = "shutdown" /\ m.stage = "disconnected"
    BY JobFacts DEF Shutdown, Stage
  <2>3. jobs' = [jobs EXCEPT ![s] = Append(@, m)] /\ UNCHANGED <<open, at>>
    BY <1>4 DEF OnStop
  <2> HIDE DEF s, m
  <2>4. /\ jobs'[s] = Append(jobs[s], m) /\ jobs[s] \in Seq(Job)
        /\ \A t \in Service : t # s => jobs'[t] = jobs[t]
    BY <1>0, <2>1, <2>2, <2>3, QueuedType DEF TypeOK
  <2>5. Tidy(jobs'[s], at[s], TRUE)
    BY <1>0, <2>1, <2>2, <2>4, TidyQueued DEF Tidies, TypeOK
  <2> QED
    BY <1>0, <2>1, <2>3, <2>4, <2>5 DEF Tidies, TypeOK
<1>5. CASE OnStart
  <2> DEFINE s == Head(queue).service
             m == [what |-> "start", request |-> Head(queue).request]
  <2>1. s \in Service /\ open[s] /\ ~Has(jobs[s], "release") /\ m \in Job
    BY <1>0, <1>5, Received, RequestType DEF OnStart
  <2>2. jobs' = [jobs EXCEPT ![s] = Append(@, m)] /\ UNCHANGED <<open, at>> /\ m.what = "start"
    BY <1>5 DEF OnStart
  <2> HIDE DEF s, m
  <2>3. /\ jobs'[s] = Append(jobs[s], m) /\ jobs[s] \in Seq(Job)
        /\ \A t \in Service : t # s => jobs'[t] = jobs[t]
    BY <1>0, <2>1, <2>2, QueuedType DEF TypeOK
  <2>4. Tidy(jobs'[s], at[s], TRUE)
    BY <1>0, <2>1, <2>2, <2>3, TidyQueued DEF Tidies, TypeOK
  <2> QED
    BY <1>0, <2>1, <2>2, <2>3, <2>4 DEF Tidies, TypeOK
<1>6. CASE OnStartIgnored \/ Republish \/ OnStopSelf \/ OnDestroyFinds \/ Drained \/ Undrained
  BY <1>1, <1>6 DEF OnStartIgnored, Republish, OnStopSelf, OnDestroyFinds, Drained, Undrained
<1>7. CASE Destroying
  <2> DEFINE s == Head(queue).service
             m == [what |-> "release"]
  <2>1. /\ s \in Service /\ open[s] /\ ~Has(jobs[s], "release")
        /\ jobs'[s] = Append(jobs[s], m)
        /\ \A t \in Service : ~open'[t]
        /\ \A t \in Service : t # s => jobs'[t] = jobs[t] /\ ~open[t]
    BY <1>7, Destroys
  <2>2. m \in Job /\ m.what = "release" /\ UNCHANGED at /\ TearsDown
    BY <1>0, <1>7, JobFacts, DestroyTakes DEF TearsDown
  <2> HIDE DEF s, m
  <2>3. Tidy(jobs'[s], at[s], FALSE)
    <3>1. open[s] = TRUE /\ jobs[s] \in Seq(Job)
      BY <1>0, <2>1 DEF TypeOK
    <3>2. Tidy(jobs[s], at[s], TRUE)
      BY <1>0, <2>1, <3>1 DEF Tidies
    <3> QED
      BY <2>1, <2>2, <3>1, <3>2, TidyClosed
  <2>4. open' \in [Service -> BOOLEAN]
    BY <1>0, <2>2 DEF TypeOK, TearsDown
  <2> QED
    BY <1>0, <2>1, <2>2, <2>3, <2>4 DEF Tidies, TypeOK
<1>8. ASSUME NEW s \in Service, OnRevoke(s) PROVE Tidies'
  <2>1. CASE UNCHANGED jobs
    BY <1>1, <1>8, <2>1 DEF OnRevoke
  <2>2. CASE open[s] /\ jobs' = [jobs EXCEPT ![s] = Append(@, Shutdown("failed", FALSE))]
    <3> DEFINE m == Shutdown("failed", FALSE)
    <3>1. m \in Job /\ m.what = "shutdown" /\ m.stage = "failed"
      BY JobFacts DEF Shutdown, Stage
    <3> HIDE DEF m
    <3>2. /\ jobs'[s] = Append(jobs[s], m) /\ jobs[s] \in Seq(Job)
          /\ \A t \in Service : t # s => jobs'[t] = jobs[t]
      BY <1>0, <2>2, <3>1, QueuedType DEF m, TypeOK
    <3>3. ~Has(jobs[s], "release")
      BY <2>2 DEF IInv, Closed
    <3>4. Tidy(jobs'[s], at[s], TRUE)
      BY <1>0, <2>2, <3>1, <3>2, <3>3, TidyQueued DEF Tidies, TypeOK
    <3> QED
      BY <1>0, <1>8, <2>2, <3>2, <3>4 DEF Tidies, OnRevoke, TypeOK
  <2> QED
    BY <1>8, <2>1, <2>2 DEF OnRevoke
<1>9. ASSUME NEW s \in Service, Worker(s) PROVE Tidies'
  <2>1. /\ UNCHANGED open /\ jobs[s] # <<>> /\ jobs[s] \in Seq(Job)
        /\ \A t \in Service : t # s => jobs'[t] = jobs[t] /\ at'[t] = at[t]
    BY <1>9, Moves
  <2>2. SUFFICES Tidy(jobs'[s], at'[s], open[s])
    BY <1>0, <2>1 DEF Tidies
  <2>3. Tidy(jobs[s], at[s], open[s]) /\ Tidy(Tail(jobs[s]), "idle", open[s])
    BY <1>0, <2>1, TidyDone DEF Tidies
  <2>4. CASE Resolve(s)
    BY <2>1, <2>3, <2>4, Resolves, TidyResolved
  <2>5. CASE ResolveFails(s) \/ LaunchFails(s)
    <3>1. at'[s] = "idle" /\ Tail(jobs[s]) \in Seq(Job)
      BY <2>5, Fails
    <3>2. CASE ~open[s] /\ jobs'[s] = Tail(jobs[s])
      BY <2>3, <3>1, <3>2
    <3>3. CASE open[s] /\ jobs'[s] = Append(Tail(jobs[s]), Shutdown("failed", FALSE))
      <4> DEFINE m == Shutdown("failed", FALSE)
      <4>1. m \in Job /\ m.what = "shutdown" /\ m.stage = "failed"
        BY JobFacts DEF Shutdown, Stage
      <4> HIDE DEF m
      <4>2. open[s] = TRUE /\ ~Has(jobs[s], "release")
        BY <1>0, <3>3 DEF TypeOK, IInv, Closed
      <4>3. ~Has(Tail(jobs[s]), "release")
        BY <2>1, <4>2, HasNot
      <4> QED
        BY <2>3, <3>1, <3>3, <4>1, <4>2, <4>3, TidyQueued DEF m
    <3> QED
      BY <2>5, <3>2, <3>3, Fails
  <2>6. CASE Launch(s)
    BY <2>3, <2>6, Launches DEF Tidy
  <2>7. CASE Connected(s)
    BY <2>3, <2>7, Connects
  <2>8. CASE Release(s)
    BY <2>3, <2>8, Releases
  <2>9. CASE ShutdownReleases(s)
    BY <2>1, <2>3, <2>9, ShutsDown DEF Tidy
  <2>10. CASE ShutdownReports(s)
    BY <2>3, <2>10, Reports
  <2> QED
    BY <1>9, <2>4, <2>5, <2>6, <2>7, <2>8, <2>9, <2>10 DEF Worker
<1> QED
  BY <1>2, <1>3, <1>4, <1>5, <1>6, <1>7, <1>8, <1>9 DEF Next, Machine, Main, Binder, Destroying

LEMMA WiredStep ==
    ASSUME IInv, KInv, Next
    PROVE  Wired'
<1> USE DEF record, android, box, orphans, worker, history
<1>0. Tidies /\ Wired /\ TypeOK
  BY DEF KInv, IInv
<1>1. CASE UNCHANGED <<tun, engine, at, routed>>
  BY <1>0, <1>1 DEF Wired
<1>2. CASE App \/ Android
  <2>1. CASE ProcessDies
    BY <2>1 DEF ProcessDies, Wired
  <2>2. CASE Revoke
    BY <1>0, <2>2 DEF Revoke, Wired
  <2>3. CASE ~ProcessDies /\ ~Revoke
    <3>1. UNCHANGED <<tun, engine, at, routed>>
      BY <1>2, <2>3 DEF App, Android, PluginStart, PluginStop, PluginStopsNothing, Refused,
                        AlwaysOn, NotificationStop, Reclaim
    <3> QED
      BY <1>1, <3>1
  <2> QED
    BY <2>1, <2>2, <2>3
<1>3. CASE Main \/ Undrained
  BY <1>1, <1>3 DEF Main, OnCreate, OnStop, OnStart, OnStartIgnored, Republish, OnStopSelf,
                    OnDestroy, OnDestroyFinds, OnDestroyCorrects, TearsDown, Drained, Undrained
<1>4. CASE Binder
  BY <1>1, <1>4 DEF Binder, OnRevoke
<1>5. ASSUME NEW s \in Service, Worker(s) PROVE Wired'
  <2>1. \A t \in Service : t # s => at'[t] = at[t] /\ tun'[t] = tun[t] /\ engine'[t] = engine[t]
    BY <1>5, Moves
  <2>2. routed \in Service \cup {None} /\ s # None
    BY <1>0, ConstantsAssumption DEF TypeOK
  <2>3. CASE Resolve(s)
    BY <1>0, <2>1, <2>3, Resolves DEF Wired
  <2>4. CASE ResolveFails(s) \/ LaunchFails(s)
    BY <1>0, <2>1, <2>4, Fails DEF Wired
  <2>5. CASE Launch(s)
    BY <1>0, <2>1, <2>2, <2>5, Launches DEF Wired
  <2>6. CASE Connected(s)
    BY <1>0, <2>1, <2>6, Connects DEF Wired
  <2>7. CASE Release(s)
    BY <1>0, <2>1, <2>2, <2>7, Releases DEF Wired
  <2>8. CASE ShutdownReleases(s)
    BY <1>0, <2>1, <2>2, <2>8, ShutsDown DEF Wired
  <2>9. CASE ShutdownReports(s)
    BY <1>0, <2>1, <2>9, Reports DEF Wired
  <2> QED
    BY <1>5, <2>3, <2>4, <2>5, <2>6, <2>7, <2>8, <2>9 DEF Worker
<1> QED
  BY <1>2, <1>3, <1>4, <1>5 DEF Next, Machine

LEMMA RepublishingStep ==
    ASSUME IInv, KInv, Next
    PROVE  Republishing'
<1> USE DEF record, android, box, orphans, worker, history, Republishing
<1>0. Republishing
  BY DEF KInv
<1>1. CASE App \/ Android
  BY <1>0, <1>1 DEF App, Android, PluginStart, PluginStop, PluginStopsNothing, Refused,
                    AlwaysOn, NotificationStop, Reclaim, Revoke, ProcessDies, Rest
<1>2. CASE Main \/ Undrained
  <2>1. CASE OnStartIgnored
    BY <2>1 DEF OnStartIgnored
  <2>2. CASE Destroying
    <3>1. doing' = [then |-> "drain", service |-> Head(queue).service]
      BY <2>2 DEF Destroying, OnDestroy, OnDestroyCorrects, TearsDown
    <3>2. doing'.then = "drain"
      BY <3>1
    <3> QED
      BY <3>2
  <2>3. CASE Republish \/ Drained \/ Undrained
    BY <2>3 DEF Republish, Drained, Undrained, Rest
  <2>4. CASE OnCreate \/ OnStop \/ OnStart \/ OnStopSelf
    BY <1>0, <2>4 DEF OnCreate, OnStop, OnStart, OnStopSelf
  <2>5. CASE OnDestroyFinds
    BY <2>5 DEF OnDestroyFinds
  <2> QED
    BY <1>2, <2>1, <2>2, <2>3, <2>4, <2>5 DEF Main, Destroying
<1>3. CASE Binder
  BY <1>0, <1>3 DEF Binder, OnRevoke
<1>4. ASSUME NEW s \in Service, Worker(s) PROVE Republishing'
  BY <1>0, <1>4, Moves
<1> QED
  BY <1>1, <1>2, <1>3, <1>4 DEF Next, Machine

LEMMA KInvInit == Init => KInv
<1>1. DOMAIN <<>> = {}
  OBVIOUS
<1> QED
  BY <1>1 DEF Init, KInv, Tidies, Tidy, Wired, Republishing, Rest

LEMMA KInvNext == IInv /\ KInv /\ [Next]_vars => KInv'
<1>1. ASSUME KInv, UNCHANGED vars PROVE KInv'
  BY <1>1 DEF KInv, Tidies, Wired, Republishing, vars, record, android, box, worker, history
<1> QED
  BY <1>1, TidiesStep, WiredStep, RepublishingStep DEF KInv

\* One job more, for one instance.
LEMMA Queues ==
    ASSUME TypeOK, NEW s \in Service, NEW m \in Job,
           jobs' = [jobs EXCEPT ![s] = Append(@, m)]
    PROVE  /\ \A t \in Service : \A what :
                  Has(jobs'[t], what) <=> Has(jobs[t], what) \/ (t = s /\ m.what = what)
           /\ \A t \in Service : t # s => jobs'[t] = jobs[t]
           /\ jobs'[s] # <<>>
<1>1. /\ jobs'[s] = Append(jobs[s], m) /\ jobs[s] \in Seq(Job)
      /\ \A t \in Service : t # s => jobs'[t] = jobs[t]
  BY QueuedType DEF TypeOK
<1> QED
  BY <1>1, HasAppended, AppendProperties

\* The jobs that the main looper and the binder thread queue.
LEMMA StopQueues ==
    ASSUME IInv, OnStop
    PROVE  LET s == Head(queue).service IN
           /\ s \in Service /\ open[s]
           /\ \A t \in Service : \A what :
                  Has(jobs'[t], what) <=> Has(jobs[t], what) \/ (t = s /\ what = "shutdown")
           /\ jobs'[s] # <<>> /\ \A t \in Service : t # s => jobs'[t] = jobs[t]
           /\ Asked(queue) => Asked(queue')
           /\ \A t : Departs(queue, t) => Departs(queue', t)
<1>1. Takes("args") /\ TypeOK /\ Head(queue).request = "stop" /\ queue' = Tail(queue)
  BY DEF OnStop, IInv
<1>2. queue \in Seq(Message) /\ queue # <<>> /\ Head(queue).what = "args"
  BY <1>1 DEF TypeOK, Takes
<1>3. /\ Asked(queue) => Asked(queue')
      /\ \A t : Departs(queue, t) => Departs(queue', t)
  BY <1>1, <1>2, Took DEF Is
<1>4. Shutdown("disconnected", TRUE) \in Job /\ Shutdown("disconnected", TRUE).what = "shutdown"
  BY JobFacts DEF Stage
<1>5. jobs' = [jobs EXCEPT ![Head(queue).service] = Append(@, Shutdown("disconnected", TRUE))]
  BY DEF OnStop
<1>6. Head(queue).service \in Service /\ open[Head(queue).service]
  BY <1>1, Received
<1> DEFINE s == Head(queue).service
           m == Shutdown("disconnected", TRUE)
<1> HIDE DEF s, m
<1>7. /\ \A t \in Service : \A what :
             Has(jobs'[t], what) <=> Has(jobs[t], what) \/ (t = s /\ m.what = what)
      /\ \A t \in Service : t # s => jobs'[t] = jobs[t]
      /\ jobs'[s] # <<>>
  BY <1>1, <1>4, <1>5, <1>6, Queues DEF s, m
<1>8. m.what = "shutdown" /\ s \in Service /\ open[s]
  BY <1>4, <1>6 DEF m, s
<1> QED
  BY <1>3, <1>7, <1>8 DEF s

LEMMA StartQueues ==
    ASSUME IInv, OnStart
    PROVE  LET s == Head(queue).service IN
           /\ s \in Service /\ open[s]
           /\ \A t \in Service : \A what :
                  Has(jobs'[t], what) <=> Has(jobs[t], what) \/ (t = s /\ what = "start")
           /\ jobs'[s] # <<>> /\ \A t \in Service : t # s => jobs'[t] = jobs[t]
           /\ \A t : Departs(queue, t) => Departs(queue', t)
<1> DEFINE m == [what |-> "start", request |-> Head(queue).request]
<1>1. Takes("args") /\ TypeOK /\ queue' = Tail(queue) /\ Head(queue).request # "stop"
  BY DEF OnStart, IInv
<1>2. queue \in Seq(Message) /\ queue # <<>> /\ Head(queue).what = "args"
  BY <1>1 DEF TypeOK, Takes
<1>3. \A t : Departs(queue, t) => Departs(queue', t)
  BY <1>1, <1>2, Took DEF Is
<1>4. m \in Job /\ m.what = "start"
  BY <1>1, RequestType
<1>5. jobs' = [jobs EXCEPT ![Head(queue).service] = Append(@, m)]
  BY DEF OnStart
<1>6. Head(queue).service \in Service /\ open[Head(queue).service]
  BY <1>1, Received
<1> DEFINE s == Head(queue).service
<1> HIDE DEF m, s
<1>7. /\ \A t \in Service : \A what :
             Has(jobs'[t], what) <=> Has(jobs[t], what) \/ (t = s /\ m.what = what)
      /\ \A t \in Service : t # s => jobs'[t] = jobs[t]
      /\ jobs'[s] # <<>>
  BY <1>1, <1>4, <1>5, <1>6, Queues DEF s
<1>8. s \in Service /\ open[s]
  BY <1>6 DEF s
<1> QED
  BY <1>3, <1>4, <1>7, <1>8 DEF s

LEMMA DestroyQueues ==
    ASSUME IInv, Destroying
    PROVE  LET s == Head(queue).service IN
           /\ s \in Service
           /\ \A t \in Service : ~open'[t] /\ (t # s => ~open[t] /\ jobs'[t] = jobs[t])
           /\ \A t \in Service : \A what :
                  Has(jobs'[t], what) <=> Has(jobs[t], what) \/ (t = s /\ what = "release")
           /\ jobs'[s] # <<>>
           /\ Asked(queue) => Asked(queue')
<1>1. TypeOK /\ TearsDown /\ queue' = Tail(queue)
  BY DestroyTakes DEF TearsDown, IInv
<1>2. queue \in Seq(Message) /\ queue # <<>> /\ Head(queue).what = "destroy"
  BY <1>1, DestroyTakes
<1>3. Asked(queue) => Asked(queue')
  BY <1>1, <1>2, Took
<1> DEFINE s == Head(queue).service
           m == [what |-> "release"]
<1>4. m \in Job /\ m.what = "release"
  BY JobFacts
<1>5. jobs' = [jobs EXCEPT ![s] = Append(@, m)]
  BY <1>1 DEF TearsDown, ToBeReleased
<1>6. s \in Service /\ \A t \in Service : ~open'[t] /\ (t # s => ~open[t])
  BY Destroys
<1> HIDE DEF s, m
<1>7. /\ \A t \in Service : \A what :
             Has(jobs'[t], what) <=> Has(jobs[t], what) \/ (t = s /\ m.what = what)
      /\ \A t \in Service : t # s => jobs'[t] = jobs[t]
      /\ jobs'[s] # <<>>
  BY <1>1, <1>4, <1>5, <1>6, Queues
<1> QED
  BY <1>3, <1>4, <1>6, <1>7 DEF s

LEMMA RevokeQueues ==
    ASSUME IInv, NEW s \in Service, OnRevoke(s)
    PROVE  /\ \A t \in Service : \A what :
                  Has(jobs'[t], what) <=> \/ Has(jobs[t], what)
                                          \/ (t = s /\ open[s] /\ what = "shutdown")
           /\ \A t \in Service : jobs[t] # <<>> => jobs'[t] # <<>>
           /\ \A t \in Service : t # s => jobs'[t] = jobs[t]
           /\ \/ open[s] /\ UNCHANGED <<record, mishaps>>
              \/ ~open[s] /\ current' = "failed" /\ mishaps' = mishaps \cup {"late"}
           /\ Keeps(queue, queue')
<1> DEFINE m == Shutdown("failed", FALSE)
<1>1. TypeOK /\ StopSelf(s)
  BY DEF OnRevoke, IInv
<1>2. m \in Job /\ m.what = "shutdown"
  BY JobFacts DEF Stage
<1>3. Keeps(queue, queue')
  BY <1>1, StopKeeps
<1>4. CASE open[s] /\ jobs' = [jobs EXCEPT ![s] = Append(@, m)] /\ UNCHANGED <<record, mishaps>>
  <2> HIDE DEF m
  <2>1. /\ \A t \in Service : \A what :
               Has(jobs'[t], what) <=> Has(jobs[t], what) \/ (t = s /\ m.what = what)
        /\ \A t \in Service : t # s => jobs'[t] = jobs[t]
        /\ jobs'[s] # <<>>
    BY <1>1, <1>2, <1>4, Queues
  <2> QED
    BY <1>2, <1>3, <1>4, <2>1
<1>5. CASE /\ ~open[s] /\ UNCHANGED jobs
           /\ current' = "failed" /\ mishaps' = mishaps \cup {"late"}
  BY <1>3, <1>5
<1> QED
  BY <1>4, <1>5 DEF OnRevoke

(***************************************************************************)
(* A status of connected                                                   *)
(***************************************************************************)

StartsOpen == "overtaken" \notin mishaps => \A s \in Service : Has(jobs[s], "start") => open[s]

\* Who has lost the traffic of an open instance has been told to stop it.
Carried ==
    "overtaken" \notin mishaps => \A s \in Service :
        tun[s] /\ open[s] => routed = s \/ s \in revoked \/ Has(jobs[s], "shutdown")

ConnectedIsCarried ==
    current = "connected" /\ mishaps \cap {"overtaken", "echoed"} = {} =>
        \/ routed # None /\ open[routed]
        \/ revoked # {}
        \/ \E s \in Service : Has(jobs[s], "shutdown")

CInv == StartsOpen /\ Carried /\ ConnectedIsCarried

\* The process is killed.
LEMMA Nothing ==
    ASSUME ProcessDies
    PROVE  /\ \A s \in Service : jobs'[s] = <<>> /\ ~open'[s] /\ ~tun'[s] /\ at'[s] = "idle"
           /\ \A s \in Service : \A what : ~Has(jobs'[s], what)
           /\ current' = "disconnected" /\ routed' = None /\ revoked' = {}
           /\ saved' = saved /\ wished' = saved
<1>1. DOMAIN <<>> = {}
  OBVIOUS
<1> QED
  BY <1>1 DEF ProcessDies, Has

\* Where the services, their jobs and the traffic stay as they are.
LEMMA CInvStable ==
    ASSUME CInv, UNCHANGED <<open, jobs, tun, routed, revoked>>,
           mishaps \subseteq mishaps',
           current' = "connected" => current = "connected" \/ "echoed" \in mishaps'
    PROVE  CInv'
BY DEF CInv, StartsOpen, Carried, ConnectedIsCarried

LEMMA CInvWorker ==
    ASSUME IInv, KInv, CInv, NEW s \in Service, Worker(s)
    PROVE  CInv'
<1>0. Tidies /\ Wired /\ TypeOK /\ StartsOpen /\ Carried /\ ConnectedIsCarried
  BY DEF KInv, IInv, CInv
<1>1. /\ UNCHANGED <<bound, revoked, doing, open, wished>>
      /\ jobs[s] # <<>> /\ jobs[s] \in Seq(Job)
      /\ \A t \in Service : t # s =>
            jobs'[t] = jobs[t] /\ at'[t] = at[t] /\ tun'[t] = tun[t] /\ engine'[t] = engine[t]
      /\ mishaps \subseteq mishaps'
      /\ "overtaken" \in mishaps' <=> "overtaken" \in mishaps
      /\ "echoed" \in mishaps' <=> "echoed" \in mishaps
  BY Moves
<1>2. routed \in Service \cup {None} /\ s # None
  BY <1>0, ConstantsAssumption DEF TypeOK
<1> USE DEF record
<1>3. CASE Resolve(s)
  <2>1. \A t \in Service : \A what : Has(jobs'[t], what) <=> Has(jobs[t], what)
    BY <1>1, <1>3, Resolves
  <2> QED
    BY <1>0, <1>1, <1>3, <2>1, Resolves DEF CInv, StartsOpen, Carried, ConnectedIsCarried
<1>4. CASE ResolveFails(s) \/ LaunchFails(s)
  <2>1. /\ \A t \in Service : Has(jobs'[t], "start") => Has(jobs[t], "start")
        /\ \A t \in Service : Has(jobs[t], "shutdown") => Has(jobs'[t], "shutdown")
        /\ UNCHANGED <<routed, tun>>
        /\ current' = current \/ current' = "failed"
    BY <1>1, <1>4, Fails
  <2> QED
    BY <1>0, <1>1, <2>1 DEF CInv, StartsOpen, Carried, ConnectedIsCarried
<1>5. CASE Launch(s)
  <2>1. /\ Has(jobs[s], "start") /\ UNCHANGED <<record, jobs>>
        /\ UNCHANGED <<tun, routed>> \/ (tun'[s] /\ routed' = s)
    BY <1>5, Launches
  <2>2. "overtaken" \notin mishaps => open[s] /\ \A t \in Service : open[t] => t = s
    BY <1>0, <2>1 DEF StartsOpen, IInv, Orderly, Single
  <2>3. StartsOpen'
    BY <1>0, <1>1, <2>1 DEF StartsOpen
  <2>4. Carried' /\ ConnectedIsCarried'
    BY <1>0, <1>1, <1>2, <2>1, <2>2 DEF Carried, ConnectedIsCarried
  <2> QED
    BY <2>3, <2>4 DEF CInv
<1>6. CASE Connected(s)
  <2>1. /\ Has(jobs[s], "start") /\ tun[s] /\ UNCHANGED <<routed, tun>>
        /\ Has(jobs'[s], "start") => Has(jobs[s], "start")
        /\ Has(jobs[s], "shutdown") => Has(jobs'[s], "shutdown")
    BY <1>6, Connects
  <2>2. StartsOpen' /\ Carried'
    BY <1>0, <1>1, <2>1 DEF StartsOpen, Carried
  <2>3. "overtaken" \notin mishaps => open[s]
    BY <1>0, <2>1 DEF StartsOpen
  <2>4. "overtaken" \notin mishaps => routed = s \/ s \in revoked \/ Has(jobs[s], "shutdown")
    BY <1>0, <2>1, <2>3 DEF Carried
  <2>5. ConnectedIsCarried'
    BY <1>1, <1>2, <2>1, <2>3, <2>4 DEF ConnectedIsCarried
  <2> QED
    BY <2>2, <2>5 DEF CInv
<1>7. CASE Release(s)
  <2>1. /\ Has(jobs[s], "release") /\ Head(jobs[s]).what = "release"
        /\ jobs'[s] = Tail(jobs[s]) /\ ~tun'[s]
        /\ routed' = IF routed = s THEN None ELSE routed
        /\ UNCHANGED current
    BY <1>7, Releases DEF record
  <2>2. ~open[s]
    BY <2>1 DEF IInv, Closed
  <2>3. \A what : what # "release" => (Has(jobs'[s], what) <=> Has(jobs[s], what))
    BY <1>1, <2>1, HasNot
  <2>4. \A t \in Service : \A what : what # "release" => (Has(jobs'[t], what) <=> Has(jobs[t], what))
    BY <1>1, <2>3
  <2>5. /\ \A t \in Service : Has(jobs'[t], "start") <=> Has(jobs[t], "start")
        /\ \A t \in Service : Has(jobs'[t], "shutdown") <=> Has(jobs[t], "shutdown")
    BY <2>4
  <2> HIDE <2>4
  <2>6. routed # s => routed' = routed
    BY <2>1
  <2>7. StartsOpen' /\ Carried'
    BY <1>0, <1>1, <2>1, <2>5, <2>6 DEF StartsOpen, Carried
  <2>8. ConnectedIsCarried'
    BY <1>0, <1>1, <2>1, <2>2, <2>5, <2>6 DEF ConnectedIsCarried
  <2> QED
    BY <2>7, <2>8 DEF CInv
<1>8. CASE ShutdownReleases(s)
  <2>1. /\ Has(jobs[s], "shutdown") /\ UNCHANGED jobs /\ ~tun'[s]
        /\ routed' = IF routed = s THEN None ELSE routed
        /\ UNCHANGED current
    BY <1>8, ShutsDown DEF record
  <2> QED
    BY <1>0, <1>1, <1>2, <2>1 DEF CInv, StartsOpen, Carried, ConnectedIsCarried
<1>9. CASE ShutdownReports(s)
  <2>1. /\ at[s] = "released" /\ UNCHANGED <<routed, tun>>
        /\ Has(jobs'[s], "start") => Has(jobs[s], "start")
        /\ Head(jobs[s]).what = "shutdown" /\ current' = Head(jobs[s]).stage
    BY <1>9, Reports
  <2>2. ~tun[s]
    BY <1>0, <2>1 DEF Wired
  <2>3. current' # "connected"
    <3>1. 1 \in DOMAIN jobs[s] /\ jobs[s][1] = Head(jobs[s])
      BY <1>1, HasNot
    <3> QED
      BY <1>0, <2>1, <3>1 DEF Tidies, Tidy
  <2> QED
    BY <1>0, <1>1, <2>1, <2>2, <2>3 DEF CInv, StartsOpen, Carried, ConnectedIsCarried
<1> QED
  BY <1>3, <1>4, <1>5, <1>6, <1>7, <1>8, <1>9 DEF Worker

LEMMA CInvStep ==
    ASSUME IInv, KInv, CInv, Next
    PROVE  CInv'
<1> USE DEF record, android, box, orphans, worker, history
<1>0. Tidies /\ Wired /\ TypeOK /\ StartsOpen /\ Carried /\ ConnectedIsCarried
  BY DEF KInv, IInv, CInv
<1>1. CASE App \/ Android
  <2>1. CASE ProcessDies
    BY <2>1, Nothing DEF CInv, StartsOpen, Carried, ConnectedIsCarried
  <2>2. CASE Revoke
    BY <1>0, <2>2 DEF Revoke, CInv, StartsOpen, Carried, ConnectedIsCarried
  <2>3. CASE ~ProcessDies /\ ~Revoke
    <3>1. /\ UNCHANGED <<open, jobs, tun, routed, revoked>> /\ mishaps \subseteq mishaps'
          /\ current' = "connected" => current = "connected"
      BY <1>1, <2>3 DEF App, Android, PluginStart, PluginStop, PluginStopsNothing, Refused,
                        AlwaysOn, NotificationStop, Reclaim
    <3> QED
      BY <3>1, CInvStable
  <2> QED
    BY <2>1, <2>2, <2>3
<1>2. CASE OnCreate
  <2>1. /\ Head(queue).service \in Service /\ \A t \in Service : ~open[t]
        /\ open' = [open EXCEPT ![Head(queue).service] = TRUE]
        /\ ~tun[Head(queue).service]
    BY <1>0, <1>2, Creates DEF Wired
  <2>2. UNCHANGED <<jobs, tun, routed, revoked, current, mishaps>>
    BY <1>2 DEF OnCreate
  <2> QED
    BY <1>0, <2>1, <2>2 DEF TypeOK, CInv, StartsOpen, Carried, ConnectedIsCarried
<1>3. CASE OnStop
  <2>1. UNCHANGED <<current, open, tun, routed, revoked, mishaps>>
    BY <1>3 DEF OnStop
  <2>2. \A t \in Service : /\ Has(jobs'[t], "start") => Has(jobs[t], "start")
                           /\ Has(jobs[t], "shutdown") => Has(jobs'[t], "shutdown")
    BY <1>3, StopQueues
  <2>3. StartsOpen' /\ Carried'
    BY <1>0, <2>1, <2>2 DEF StartsOpen, Carried
  <2>4. ConnectedIsCarried'
    BY <1>0, <2>1, <2>2 DEF ConnectedIsCarried
  <2> QED
    BY <2>3, <2>4 DEF CInv
<1>4. CASE OnStart
  <2>1. UNCHANGED <<open, tun, routed, revoked, mishaps>> /\ current' = "connecting"
    BY <1>4 DEF OnStart
  <2>2. \A t \in Service : /\ Has(jobs'[t], "start") => Has(jobs[t], "start") \/ open[t]
                           /\ Has(jobs[t], "shutdown") => Has(jobs'[t], "shutdown")
    BY <1>4, StartQueues
  <2>3. StartsOpen' /\ Carried'
    BY <1>0, <2>1, <2>2 DEF StartsOpen, Carried
  <2>4. ConnectedIsCarried'
    BY <1>0, <2>1, <2>2 DEF ConnectedIsCarried
  <2> QED
    BY <2>3, <2>4 DEF CInv
<1>5. CASE OnStartIgnored \/ OnStopSelf \/ OnDestroyFinds \/ Drained \/ Undrained
  BY <1>5, CInvStable DEF OnStartIgnored, OnStopSelf, OnDestroyFinds, Drained, Undrained
<1>6. CASE Republish
  BY <1>6, CInvStable DEF Republish
<1>7. CASE Destroying
  <2>1. /\ UNCHANGED <<tun, routed, revoked>> /\ current' # "connected"
        /\ mishaps' = mishaps \cup (IF Has(jobs[Head(queue).service], "start") THEN {"overtaken"} ELSE {})
    BY <1>0, <1>7, DestroyTakes DEF TearsDown, Queued, Has
  <2>2. /\ Head(queue).service \in Service /\ \A t \in Service : ~open'[t]
        /\ \A t \in Service : t # Head(queue).service => ~open[t]
        /\ \A t \in Service : Has(jobs'[t], "start") => Has(jobs[t], "start")
    BY <1>7, DestroyQueues
  <2> QED
    BY <1>0, <2>1, <2>2 DEF CInv, StartsOpen, Carried, ConnectedIsCarried
<1>8. ASSUME NEW s \in Service, OnRevoke(s) PROVE CInv'
  <2>1. /\ \A t \in Service : Has(jobs'[t], "start") => Has(jobs[t], "start")
        /\ \A t \in Service : Has(jobs[t], "shutdown") => Has(jobs'[t], "shutdown")
        /\ open[s] => Has(jobs'[s], "shutdown")
        /\ \/ open[s] /\ UNCHANGED <<record, mishaps>>
           \/ ~open[s] /\ current' = "failed" /\ mishaps' = mishaps \cup {"late"}
    BY <1>8, RevokeQueues
  <2>2. UNCHANGED <<open, tun, routed>> /\ revoked' = revoked \ {s}
    BY <1>8 DEF OnRevoke
  <2>3. StartsOpen' /\ Carried'
    BY <1>0, <2>1, <2>2 DEF StartsOpen, Carried
  <2>4. ConnectedIsCarried'
    BY <1>0, <1>8, <2>1, <2>2 DEF ConnectedIsCarried
  <2> QED
    BY <2>3, <2>4 DEF CInv
<1> QED
  BY <1>1, <1>2, <1>3, <1>4, <1>5, <1>6, <1>7, <1>8, CInvWorker
  DEF Next, Machine, Main, Binder, Destroying

LEMMA CInvInit == Init => CInv
<1>1. DOMAIN <<>> = {}
  OBVIOUS
<1> QED
  BY <1>1 DEF Init, CInv, StartsOpen, Carried, ConnectedIsCarried, Has

LEMMA CInvNext == IInv /\ KInv /\ CInv /\ [Next]_vars => CInv'
<1>1. ASSUME CInv, UNCHANGED vars PROVE CInv'
  BY <1>1, CInvStable DEF vars, record, android, box, worker, history
<1> QED
  BY <1>1, CInvStep

(***************************************************************************)
(* A status of nothing, and of something coming up                         *)
(***************************************************************************)

\* A service that the plugin does not know to be running is going to be gone.
OpenIsRunning ==
    mishaps \cap {"late", "undrained"} = {} =>
        \A s \in Service : open[s] => serviceRunning \/ Departs(queue, s)

\* What the plugin reported as coming up has a start on its way, or a shutdown.
ConnectingIsAsked ==
    current = "connecting" /\ "crossed" \notin mishaps =>
        Asked(queue) \/ \E s \in Service : Has(jobs[s], "start") \/ Has(jobs[s], "shutdown")

\* A tunnel that is up and is not reported has something on its way that reports
\* it, or takes it down.
RoutedIsTold ==
    routed # None /\ mishaps \cap {"crossed", "late", "refused", "undrained"} = {} =>
        \/ current = "connected"
        \/ jobs[routed] # <<>> \/ Departs(queue, routed) \/ Asked(queue)

RInv == OpenIsRunning /\ ConnectingIsAsked /\ RoutedIsTold

\* As long as onDestroy waits, one instance at most has a worker with anything to
\* do, or takes anything new.
LEMMA Alone ==
    ASSUME IInv, Tidies, "undrained" \notin mishaps,
           NEW s \in Service, open[s] \/ jobs[s] # <<>>,
           NEW t \in Service, open[t] \/ jobs[t] # <<>>
    PROVE  s = t
<1>1. \A u \in Service : ~open[u] /\ jobs[u] # <<>> => Drains(u) /\ \A v \in Service : ~open[v]
  BY DEF IInv, Tidies, Tidy, Draining, Drains
<1>2. open[s] /\ open[t] => s = t
  BY DEF IInv, Orderly, Single
<1> QED
  BY <1>1, <1>2 DEF Drains

\* The traffic goes to an instance that is open, or has its release before it.
LEMMA Carries ==
    ASSUME IInv, KInv, routed # None
    PROVE  /\ routed \in Service
           /\ open[routed] \/ (Has(jobs[routed], "release") /\ jobs[routed] # <<>>)
<1>1. routed \in Service /\ engine[routed] # None
  BY DEF IInv, TypeOK, KInv, Wired
<1>2. open[routed] \/ Has(jobs[routed], "release")
  BY <1>1 DEF IInv, Duties, Duty
<1> QED
  BY <1>1, <1>2 DEF Has

\* The runnable that is taken stops its instance, or finds it stopped already.
LEMMA StopsItself ==
    ASSUME IInv, OnStopSelf
    PROVE  /\ \A t \in Service : open[t] /\ Departs(queue, t) => Departs(queue', t)
           /\ Asked(queue) => Asked(queue')
<1> DEFINE s == Head(queue).service
<1>1. /\ queue \in Seq(Message) /\ queue # <<>> /\ Head(queue).what = "stopSelf"
      /\ s \in Service /\ Tail(queue) \in Seq(Message)
  BY TakesType DEF OnStopSelf, IInv, TypeOK
<1>2. /\ Asked(queue) => Asked(Tail(queue))
      /\ \A t : Departs(queue, t) => t = s \/ Departs(Tail(queue), t)
      /\ \A t : Sent(queue, "destroy", t) => Departs(Tail(queue), t)
  <2>1. Asked(queue) => Asked(Tail(queue))
    BY <1>1, Took
  <2>2. \A t : Departs(queue, t) => t = s \/ Departs(Tail(queue), t)
    BY <1>1, Took DEF Is
  <2>3. \A k \in DOMAIN queue : k # 1 => \E i \in DOMAIN Tail(queue) : Tail(queue)[i] = queue[k]
    BY <1>1, Shifted
  <2>4. queue[1] = Head(queue)
    BY <1>1, IndexedTail
  <2>5. \A t : Sent(queue, "destroy", t) => Departs(Tail(queue), t)
    BY <1>1, <2>3, <2>4 DEF Sent, Is, Departs
  <2> QED
    BY <2>1, <2>2, <2>5
<1>3. CASE s = bound /\ queue' = Append(Tail(queue), Lifecycle("destroy", bound))
  <2>1. /\ Lifecycle("destroy", s) \in Message
        /\ Lifecycle("destroy", s).what = "destroy" /\ Lifecycle("destroy", s).service = s
    BY <1>1, MessageFacts
  <2>2. Keeps(Tail(queue), queue') /\ Departs(queue', s)
    BY <1>1, <1>3, <2>1, Put
  <2> HIDE DEF s
  <2> QED
    BY <1>2, <2>2, Retained
<1>4. CASE s # bound /\ queue' = Tail(queue)
  <2>1. open[s] => Sent(queue, "destroy", s)
    BY <1>1, <1>4 DEF IInv, Orderly, Leaving
  <2> HIDE DEF s
  <2> QED
    BY <1>2, <1>4, <2>1
<1> QED
  BY <1>3, <1>4 DEF OnStopSelf

LEMMA RInvWorker ==
    ASSUME IInv, KInv, RInv, NEW s \in Service, Worker(s)
    PROVE  RInv'
<1>0. Tidies /\ Wired /\ TypeOK /\ OpenIsRunning /\ ConnectingIsAsked /\ RoutedIsTold
  BY DEF KInv, IInv, RInv
<1>1. /\ UNCHANGED <<bound, revoked, doing, open, wished>>
      /\ jobs[s] # <<>> /\ jobs[s] \in Seq(Job)
      /\ \A t \in Service : t # s => jobs'[t] = jobs[t]
      /\ mishaps \subseteq mishaps'
      /\ \A x \in {"crossed", "late", "refused", "undrained"} : x \in mishaps' => x \in mishaps
  BY Moves
<1>2. routed \in Service \cup {None} /\ s # None
  BY <1>0, ConstantsAssumption DEF TypeOK
<1>3. "undrained" \notin mishaps => \A t \in Service : open[t] => t = s
  BY <1>0, <1>1, Alone
<1>4. "undrained" \notin mishaps /\ routed # None => routed = s
  BY <1>0, <1>1, Alone, Carries
<1>5. UNCHANGED queue => (\A t : Departs(queue', t) <=> Departs(queue, t)) /\ (Asked(queue') <=> Asked(queue))
  OBVIOUS
<1> USE DEF record
<1>6. CASE Resolve(s)
  <2>1. /\ \A t \in Service : \A what : Has(jobs'[t], what) <=> Has(jobs[t], what)
        /\ UNCHANGED <<record, queue, routed>> /\ Has(jobs'[s], "start") /\ Head(jobs[s]).what = "start"
    BY <1>1, <1>6, Resolves, HasNot
  <2>2. jobs'[s] # <<>>
    BY <2>1 DEF Has
  <2>3. OpenIsRunning' /\ ConnectingIsAsked'
    BY <1>0, <1>1, <2>1 DEF OpenIsRunning, ConnectingIsAsked
  <2>4. RoutedIsTold'
    BY <1>1, <1>4, <2>1, <2>2 DEF RoutedIsTold
  <2> QED
    BY <2>3, <2>4 DEF RInv
<1>7. CASE ResolveFails(s) \/ LaunchFails(s)
  <2>1. /\ UNCHANGED <<queue, routed>>
        /\ \/ open[s] /\ UNCHANGED record /\ Has(jobs'[s], "shutdown")
           \/ ~open[s] /\ current' = "failed"
        /\ Has(jobs[s], "release") => Has(jobs'[s], "release")
    BY <1>7, Fails
  <2>2. jobs'[s] # <<>>
    BY <1>0, <1>1, <2>1 DEF Tidies, Tidy, Has
  <2>3. OpenIsRunning'
    BY <1>0, <1>1, <1>3, <2>1 DEF OpenIsRunning
  <2>4. ConnectingIsAsked'
    BY <1>0, <1>1, <2>1 DEF ConnectingIsAsked
  <2>5. RoutedIsTold'
    BY <1>1, <1>4, <2>1, <2>2 DEF RoutedIsTold
  <2> QED
    BY <2>3, <2>4, <2>5 DEF RInv
<1>8. CASE Launch(s)
  <2>1. /\ Has(jobs[s], "start") /\ UNCHANGED <<record, queue, jobs>>
        /\ UNCHANGED <<tun, routed>> \/ (tun'[s] /\ routed' = s)
    BY <1>8, Launches
  <2>2. OpenIsRunning' /\ ConnectingIsAsked'
    BY <1>0, <1>1, <2>1 DEF OpenIsRunning, ConnectingIsAsked
  <2>3. RoutedIsTold'
    BY <1>1, <1>4, <2>1 DEF RoutedIsTold
  <2> QED
    BY <2>2, <2>3 DEF RInv
<1>9. CASE Connected(s)
  <2>1. current' = "connected" /\ UNCHANGED <<serviceRunning, queue, routed>>
    BY <1>9, Connects
  <2> QED
    BY <1>0, <1>1, <2>1 DEF RInv, OpenIsRunning, ConnectingIsAsked, RoutedIsTold
<1>10. CASE Release(s) \/ ShutdownReleases(s)
  <2>1. /\ UNCHANGED <<record, queue>>
        /\ routed' = IF routed = s THEN None ELSE routed
        /\ \/ UNCHANGED jobs
           \/ Head(jobs[s]).what = "release" /\ jobs'[s] = Tail(jobs[s])
    BY <1>10, Releases, ShutsDown
  <2>2. \A what : what # "release" /\ Has(jobs[s], what) => Has(jobs'[s], what)
    BY <1>1, <2>1, HasNot
  <2>3. \A t \in Service : /\ Has(jobs[t], "start") => Has(jobs'[t], "start")
                           /\ Has(jobs[t], "shutdown") => Has(jobs'[t], "shutdown")
    BY <1>1, <2>2
  <2>4. OpenIsRunning'
    BY <1>0, <1>1, <2>1 DEF OpenIsRunning
  <2>5. ConnectingIsAsked'
    BY <1>0, <1>1, <2>1, <2>3 DEF ConnectingIsAsked
  <2>6. RoutedIsTold'
    BY <1>0, <1>1, <1>2, <1>4, <2>1 DEF RoutedIsTold
  <2> QED
    BY <2>4, <2>5, <2>6 DEF RInv
<1>11. CASE ShutdownReports(s)
  <2>1. /\ at[s] = "released" /\ Head(jobs[s]).what = "shutdown"
        /\ UNCHANGED routed /\ current' = Head(jobs[s]).stage
        /\ Departs(queue', s)
    BY <1>11, Reports
  <2>2. routed # s
    BY <1>0, <1>2, <2>1 DEF Wired
  <2>3. current' # "connecting"
    <3>1. 1 \in DOMAIN jobs[s] /\ jobs[s][1] = Head(jobs[s])
      BY <1>1, HasNot
    <3> QED
      BY <1>0, <2>1, <3>1 DEF Tidies, Tidy
  <2>4. OpenIsRunning'
    BY <1>1, <1>3, <2>1 DEF OpenIsRunning
  <2>5. ConnectingIsAsked'
    BY <2>3 DEF ConnectingIsAsked
  <2>6. RoutedIsTold'
    BY <1>1, <1>4, <2>1, <2>2 DEF RoutedIsTold
  <2> QED
    BY <2>4, <2>5, <2>6 DEF RInv
<1> QED
  BY <1>6, <1>7, <1>8, <1>9, <1>10, <1>11 DEF Worker

\* Where services and jobs stay as they are, and nothing leaves the queue.
LEMMA RInvGrows ==
    ASSUME RInv, UNCHANGED <<serviceRunning, open, jobs>>, Keeps(queue, queue'),
           mishaps \subseteq mishaps', routed' \in {routed, None},
           current' = "connecting" => current = "connecting" \/ Asked(queue') \/ "crossed" \in mishaps',
           \/ current = "connected" => current' = "connected"
           \/ Asked(queue') \/ mishaps' \cap {"crossed", "refused"} # {}
    PROVE  RInv'
<1>1. (Asked(queue) => Asked(queue')) /\ \A s : Departs(queue, s) => Departs(queue', s)
  BY Retained
<1>2. OpenIsRunning'
  BY <1>1 DEF RInv, OpenIsRunning
<1>3. ConnectingIsAsked'
  BY <1>1 DEF RInv, ConnectingIsAsked
<1>4. RoutedIsTold'
  BY <1>1 DEF RInv, RoutedIsTold
<1> QED
  BY <1>2, <1>3, <1>4 DEF RInv

LEMMA RInvOutside ==
    ASSUME IInv, KInv, RInv, App \/ Android
    PROVE  RInv'
<1> USE DEF record, android, box, orphans, worker, history
<1>0. Tidies /\ Wired /\ TypeOK /\ OpenIsRunning /\ ConnectingIsAsked /\ RoutedIsTold
  BY DEF KInv, IInv, RInv
<1>1. /\ {"system", "stop"} \subseteq Request /\ Profile \subseteq Request /\ "stop" \notin Profile
      /\ UNCHANGED queue => Keeps(queue, queue')
  BY ConstantsAssumption DEF Request, Keeps
<1>2. ASSUME NEW p \in Profile, PluginStart(p) PROVE RInv'
  <2>1. Keeps(queue, queue') /\ Asked(queue')
    BY <1>0, <1>1, <1>2, StartAsks DEF PluginStart
  <2> QED
    BY <1>2, <2>1, RInvGrows DEF PluginStart
<1>3. CASE PluginStop \/ AlwaysOn \/ NotificationStop
  <2>1. Keeps(queue, queue')
    BY <1>0, <1>1, <1>3, StartAsks DEF PluginStop, AlwaysOn, NotificationStop
  <2> QED
    BY <1>3, <2>1, RInvGrows DEF PluginStop, AlwaysOn, NotificationStop
<1>4. CASE PluginStopsNothing
  <2>1. UNCHANGED <<serviceRunning, queue, routed, open, jobs, mishaps>> /\ current' = "disconnected"
        /\ ~serviceRunning
    BY <1>4 DEF PluginStopsNothing
  <2>2. RoutedIsTold'
    BY <1>0, <2>1, Carries DEF RoutedIsTold, OpenIsRunning
  <2> QED
    BY <1>0, <2>1, <2>2 DEF RInv, OpenIsRunning, ConnectingIsAsked
<1>5. CASE Refused
  BY <1>0, <1>5 DEF Refused, RInv, OpenIsRunning, ConnectingIsAsked, RoutedIsTold
<1>6. CASE Reclaim
  <2>1. Keeps(queue, queue')
    BY <1>0, <1>6, StopKeeps DEF Reclaim, TypeOK
  <2> QED
    BY <1>6, <2>1, RInvGrows DEF Reclaim
<1>7. CASE Revoke
  BY <1>1, <1>7, RInvGrows DEF Revoke
<1>8. CASE ProcessDies
  BY <1>8, Nothing DEF RInv, OpenIsRunning, ConnectingIsAsked, RoutedIsTold
<1> QED
  BY <1>2, <1>3, <1>4, <1>5, <1>6, <1>7, <1>8 DEF App, Android

LEMMA RInvMachine ==
    ASSUME IInv, KInv, RInv, Main \/ Undrained \/ Binder
    PROVE  RInv'
<1> USE DEF record, android, box, orphans, worker, history
<1>0. Tidies /\ Wired /\ TypeOK /\ Republishing /\ OpenIsRunning /\ ConnectingIsAsked /\ RoutedIsTold
  BY DEF KInv, IInv, RInv
<1>1. CASE OnCreate
  <2>1. queue \in Seq(Message) /\ queue # <<>> /\ Head(queue).what = "create"
    BY <1>0, <1>1 DEF OnCreate, Takes, TypeOK
  <2>2. (Asked(queue) => Asked(queue')) /\ \A s : Departs(queue, s) => Departs(queue', s)
    BY <1>1, <2>1, Took DEF OnCreate, Is
  <2>3. serviceRunning' = TRUE /\ UNCHANGED <<current, routed, jobs, mishaps>>
    BY <1>1 DEF OnCreate
  <2> QED
    BY <1>0, <2>2, <2>3 DEF RInv, OpenIsRunning, ConnectingIsAsked, RoutedIsTold
<1>2. CASE OnStop
  <2> DEFINE s == Head(queue).service
  <2>1. /\ s \in Service /\ open[s]
        /\ \A t \in Service : \A what :
               Has(jobs'[t], what) <=> Has(jobs[t], what) \/ (t = s /\ what = "shutdown")
        /\ jobs'[s] # <<>> /\ \A t \in Service : t # s => jobs'[t] = jobs[t]
        /\ Asked(queue) => Asked(queue')
        /\ \A t : Departs(queue, t) => Departs(queue', t)
    BY <1>2, StopQueues
  <2>2. UNCHANGED <<record, open, routed, mishaps>>
    BY <1>2 DEF OnStop
  <2> HIDE DEF s
  <2>3. OpenIsRunning'
    BY <1>0, <2>1, <2>2 DEF OpenIsRunning
  <2>4. ConnectingIsAsked'
    BY <1>0, <2>1, <2>2 DEF ConnectingIsAsked
  <2>5. RoutedIsTold'
    BY <1>0, <2>1, <2>2 DEF RoutedIsTold, TypeOK
  <2> QED
    BY <2>3, <2>4, <2>5 DEF RInv
<1>3. CASE OnStart
  <2> DEFINE s == Head(queue).service
  <2>1. /\ s \in Service /\ open[s]
        /\ \A t \in Service : \A what :
               Has(jobs'[t], what) <=> Has(jobs[t], what) \/ (t = s /\ what = "start")
        /\ jobs'[s] # <<>>
        /\ \A t : Departs(queue, t) => Departs(queue', t)
    BY <1>3, StartQueues
  <2>2. UNCHANGED <<serviceRunning, open, routed, mishaps>>
    BY <1>3 DEF OnStart
  <2> HIDE DEF s
  <2>3. OpenIsRunning'
    BY <1>0, <2>1, <2>2 DEF OpenIsRunning
  <2>4. ConnectingIsAsked'
    BY <2>1 DEF ConnectingIsAsked
  <2>5. RoutedIsTold'
    <3>1. "undrained" \notin mishaps /\ routed # None => routed = s
      BY <1>0, <2>1, Alone, Carries
    <3> QED
      BY <2>1, <2>2, <3>1 DEF RoutedIsTold
  <2> QED
    BY <2>3, <2>4, <2>5 DEF RInv
<1>4. CASE OnStartIgnored
  <2>1. queue \in Seq(Message) /\ queue # <<>> /\ Head(queue).what = "args"
    BY <1>0, <1>4 DEF OnStartIgnored, Takes, TypeOK
  <2>2. \A s : Departs(queue, s) => Departs(queue', s)
    BY <1>4, <2>1, Took DEF OnStartIgnored, Is
  <2>3. UNCHANGED <<serviceRunning, open>> /\ mishaps' = mishaps \cup {"crossed"}
    BY <1>4 DEF OnStartIgnored
  <2> QED
    BY <1>0, <2>2, <2>3 DEF RInv, OpenIsRunning, ConnectingIsAsked, RoutedIsTold
<1>5. CASE Republish \/ OnDestroyFinds \/ Drained \/ Undrained
  <2>1. /\ UNCHANGED <<serviceRunning, queue, routed, open, jobs>> /\ mishaps \subseteq mishaps'
        /\ UNCHANGED current \/ "crossed" \in mishaps'
    BY <1>0, <1>5 DEF Republish, OnDestroyFinds, Drained, Undrained, Republishing
  <2> QED
    BY <2>1, RInvGrows DEF Keeps
<1>6. CASE OnStopSelf
  <2>1. /\ \A t \in Service : open[t] /\ Departs(queue, t) => Departs(queue', t)
        /\ Asked(queue) => Asked(queue')
    BY <1>6, StopsItself
  <2>2. UNCHANGED <<record, routed, open, jobs, mishaps>>
    BY <1>6 DEF OnStopSelf
  <2>3. OpenIsRunning'
    BY <1>0, <2>1, <2>2 DEF OpenIsRunning
  <2>4. ConnectingIsAsked'
    BY <1>0, <2>1, <2>2 DEF ConnectingIsAsked
  <2>5. RoutedIsTold'
    BY <1>0, <2>1, <2>2, Carries DEF RoutedIsTold
  <2> QED
    BY <2>3, <2>4, <2>5 DEF RInv
<1>7. CASE Destroying
  <2> DEFINE s == Head(queue).service
  <2>1. /\ s \in Service /\ jobs'[s] # <<>>
        /\ \A t \in Service : ~open'[t] /\ (t # s => ~open[t] /\ jobs'[t] = jobs[t])
    BY <1>7, DestroyQueues
  <2>2. /\ UNCHANGED routed /\ current' # "connecting" /\ mishaps \subseteq mishaps'
        /\ doing.then # "drain"
    BY <1>0, <1>7, DestroyTakes DEF TearsDown
  <2> HIDE DEF s
  <2>3. "undrained" \notin mishaps /\ routed # None => routed = s
    <3>1. "undrained" \notin mishaps => \A t \in Service : ~Has(jobs[t], "release")
      BY <2>2 DEF IInv, Draining, Drains
    <3> QED
      BY <2>1, <3>1, Carries
  <2>4. RoutedIsTold'
    BY <2>1, <2>2, <2>3 DEF RoutedIsTold
  <2> QED
    BY <2>1, <2>2, <2>4 DEF RInv, OpenIsRunning, ConnectingIsAsked
<1>8. ASSUME NEW s \in Service, OnRevoke(s) PROVE RInv'
  <2>1. /\ \A t \in Service : /\ Has(jobs[t], "start") => Has(jobs'[t], "start")
                              /\ Has(jobs[t], "shutdown") => Has(jobs'[t], "shutdown")
        /\ \A t \in Service : jobs[t] # <<>> => jobs'[t] # <<>>
        /\ \/ open[s] /\ UNCHANGED <<record, mishaps>>
           \/ ~open[s] /\ current' = "failed" /\ mishaps' = mishaps \cup {"late"}
        /\ Keeps(queue, queue')
    BY <1>8, RevokeQueues
  <2>2. (Asked(queue) => Asked(queue')) /\ \A t : Departs(queue, t) => Departs(queue', t)
    BY <2>1, Retained
  <2>3. UNCHANGED <<open, routed>>
    BY <1>8 DEF OnRevoke
  <2>4. OpenIsRunning'
    BY <1>0, <2>1, <2>2, <2>3 DEF OpenIsRunning
  <2>5. ConnectingIsAsked'
    BY <1>0, <2>1, <2>2, <2>3 DEF ConnectingIsAsked
  <2>6. RoutedIsTold'
    BY <1>0, <2>1, <2>2, <2>3, Carries DEF RoutedIsTold
  <2> QED
    BY <2>4, <2>5, <2>6 DEF RInv
<1> QED
  BY <1>1, <1>2, <1>3, <1>4, <1>5, <1>6, <1>7, <1>8 DEF Main, Binder, Destroying

LEMMA RInvInit == Init => RInv
BY DEF Init, RInv, OpenIsRunning, ConnectingIsAsked, RoutedIsTold

LEMMA RInvNext == IInv /\ KInv /\ RInv /\ [Next]_vars => RInv'
<1>1. ASSUME RInv, UNCHANGED vars PROVE RInv'
  BY <1>1, RInvGrows DEF vars, record, android, box, worker, history, Keeps
<1> QED
  BY <1>1, RInvOutside, RInvMachine, RInvWorker DEF Next, Machine

(***************************************************************************)
(* The file                                                                *)
(***************************************************************************)

\* A job that writes start-request.json, or deletes it, and what it leaves there.
\* A start Android made by itself writes what it has read.
Writes(m) ==
    \/ m.what = "start" /\ m.request # "system"
    \/ m.what = "shutdown" /\ m.forget

Written(m) == IF m.what = "start" THEN m.request ELSE None

\* What the last of the jobs that write leaves is w.
Outstanding(j, w) ==
    \A i \in DOMAIN j :
        Writes(j[i]) /\ (\A k \in DOMAIN j : i < k => ~Writes(j[k])) => Written(j[i]) = w

Silent(j) == \A i \in DOMAIN j : ~Writes(j[i])

\* The jobs j of an instance whose worker is at a are going to make w of f.
Makes(j, a, f, w) ==
    /\ Outstanding(j, w)
    /\ Silent(j) => f = w
    /\ a \in {"resolved", "launched"} => f \in Profile /\ f = Head(j).request

\* As long as one instance at most has jobs.
Wishes ==
    "undrained" \notin mishaps =>
        /\ \A s \in Service : Outstanding(jobs[s], wished)
        /\ (\A s \in Service : Silent(jobs[s])) => saved = wished
        /\ \A s \in Service : at[s] \in {"resolved", "launched"} =>
              saved \in Profile /\ saved = Head(jobs[s]).request

LEMMA MakesQueued ==
    ASSUME NEW j \in Seq(Job), NEW a, NEW f, NEW w, Makes(j, a, f, w),
           a \in {"resolved", "launched"} => j # <<>>,
           NEW m \in Job, ~Writes(m)
    PROVE  Makes(Append(j, m), a, f, w)
<1>1. /\ DOMAIN Append(j, m) = 1 .. Len(j) + 1 /\ DOMAIN j = 1 .. Len(j) /\ Len(j) \in Nat
      /\ \A i \in DOMAIN j : Append(j, m)[i] = j[i]
      /\ Append(j, m)[Len(j) + 1] = m
  BY IndexedAppend
<1>2. j # <<>> => Append(j, m) # <<>> /\ Head(Append(j, m)) = Head(j)
  BY IndexedAppend, HasNot, AppendProperties, IndexedTail
<1>3. \A i \in DOMAIN j : i \in DOMAIN Append(j, m)
  BY <1>1
<1>4. \A i \in DOMAIN Append(j, m) : Writes(Append(j, m)[i]) => i \in DOMAIN j
  BY <1>1
<1>5. Outstanding(Append(j, m), w)
  BY <1>1, <1>3, <1>4 DEF Makes, Outstanding
<1>6. Silent(Append(j, m)) => Silent(j)
  BY <1>1, <1>3 DEF Silent
<1> QED
  BY <1>2, <1>5, <1>6 DEF Makes

LEMMA MakesWritten ==
    ASSUME NEW j \in Seq(Job), NEW a, NEW f, NEW w, Makes(j, a, f, w),
           a \in {"resolved", "launched"} => j # <<>>,
           NEW m \in Job, Writes(m)
    PROVE  Makes(Append(j, m), a, f, Written(m))
<1>1. /\ DOMAIN Append(j, m) = 1 .. Len(j) + 1 /\ DOMAIN j = 1 .. Len(j) /\ Len(j) \in Nat
      /\ Append(j, m)[Len(j) + 1] = m
  BY IndexedAppend
<1>2. j # <<>> => Append(j, m) # <<>> /\ Head(Append(j, m)) = Head(j)
  BY IndexedAppend, HasNot, AppendProperties, IndexedTail
<1>3. /\ Len(j) + 1 \in DOMAIN Append(j, m)
      /\ \A i \in DOMAIN Append(j, m) : i < Len(j) + 1 \/ i = Len(j) + 1
  BY <1>1
<1>4. Outstanding(Append(j, m), Written(m)) /\ ~Silent(Append(j, m))
  BY <1>1, <1>3 DEF Outstanding, Silent
<1> QED
  BY <1>2, <1>4 DEF Makes

\* A job is done that left g in the file: what it had to, or what was there.
LEMMA MakesDone ==
    ASSUME NEW j \in Seq(Job), j # <<>>, NEW a, NEW f, NEW w, Makes(j, a, f, w),
           NEW g, IF Writes(Head(j)) THEN g = Written(Head(j)) ELSE g = f
    PROVE  Makes(Tail(j), "idle", g, w)
<1> DEFINE up == Up(j)
           down == Down(j)
           p == Tail(j)
<1>1. /\ \A i \in DOMAIN p : /\ up[i] \in DOMAIN j /\ up[i] # 1
                             /\ p[i] = j[up[i]] /\ down[up[i]] = i
      /\ \A k \in DOMAIN j : k # 1 => /\ down[k] \in DOMAIN p
                                      /\ j[k] = p[down[k]] /\ up[down[k]] = k
      /\ \A i, k \in DOMAIN p : i < k <=> up[i] < up[k]
      /\ 1 \in DOMAIN j /\ \A i \in DOMAIN j : ~(i < 1)
      /\ j[1] = Head(j)
  BY Shifted, IndexedTail
<1> HIDE DEF up, down, p
<1>2. Outstanding(p, w)
  <2> SUFFICES ASSUME NEW i \in DOMAIN p, Writes(p[i]), \A k \in DOMAIN p : i < k => ~Writes(p[k])
               PROVE  Written(p[i]) = w
    BY DEF Outstanding
  <2>1. up[i] \in DOMAIN j /\ Writes(j[up[i]]) /\ p[i] = j[up[i]]
    BY <1>1
  <2>2. ASSUME NEW k \in DOMAIN j, up[i] < k PROVE ~Writes(j[k])
    <3>1. k # 1
      BY <1>1, <2>1, <2>2
    <3>2. down[k] \in DOMAIN p /\ j[k] = p[down[k]] /\ i < down[k]
      BY <1>1, <2>2, <3>1
    <3> QED
      BY <3>2
  <2> QED
    BY <2>1, <2>2 DEF Makes, Outstanding
<1>3. Silent(p) => g = w
  <2> SUFFICES ASSUME Silent(p) PROVE g = w
    OBVIOUS
  <2>1. \A k \in DOMAIN j : k # 1 => ~Writes(j[k])
    BY <1>1 DEF Silent
  <2>2. CASE Writes(Head(j))
    <3>1. \A k \in DOMAIN j : 1 < k => ~Writes(j[k])
      BY <2>1
    <3> QED
      BY <1>1, <2>2, <3>1 DEF Makes, Outstanding
  <2>3. CASE ~Writes(Head(j))
    BY <1>1, <2>1, <2>3 DEF Makes, Silent
  <2> QED
    BY <2>2, <2>3
<1> QED
  BY <1>2, <1>3 DEF Makes, p

\* What a start is for has been found, and saved: what it asked for, or what was
\* there.
LEMMA MakesResolved ==
    ASSUME NEW j \in Seq(Job), j # <<>>, Head(j).what = "start",
           NEW a, NEW f, NEW w, Makes(j, a, f, w),
           NEW m \in Job, m.what = "start", m.request \in Profile,
           Head(j).request \in {"system", m.request},
           Head(j).request = "system" => m.request = f
    PROVE  Makes(<<m>> \o Tail(j), "resolved", m.request, w)
<1> DEFINE p == <<m>> \o Tail(j)
<1>1. /\ p \in Seq(Job) /\ p # <<>> /\ Head(p) = m /\ DOMAIN p = DOMAIN j
      /\ \A i \in DOMAIN j : p[i].what = j[i].what
  BY Resolved
<1>2. /\ \A i \in DOMAIN j : i # 1 => p[i] = j[i] /\ 1 < i
      /\ 1 \in DOMAIN j /\ \A i \in DOMAIN j : ~(i < 1)
      /\ j[1] = Head(j) /\ p[1] = m
  <2>1. /\ Len(j) \in Nat \ {0} /\ DOMAIN j = 1 .. Len(j) /\ Tail(j) \in Seq(Job)
        /\ Len(Tail(j)) = Len(j) - 1 /\ j[1] = Head(j)
        /\ \A i \in 1 .. Len(j) - 1 : Tail(j)[i] = j[i + 1]
    BY IndexedTail, HeadTailProperties
  <2>2. <<m>> \in Seq(Job) /\ Len(<<m>>) = 1 /\ <<m>>[1] = m
    OBVIOUS
  <2>3. /\ Len(p) = 1 + (Len(j) - 1)
        /\ \A i \in 1 .. 1 + (Len(j) - 1) : p[i] = IF i <= 1 THEN <<m>>[i] ELSE Tail(j)[i - 1]
    BY <2>1, <2>2, ConcatProperties
  <2>4. \A i \in 2 .. Len(j) : p[i] = j[i]
    BY <2>1, <2>3
  <2>5. p[1] = m
    BY <2>1, <2>2, <2>3
  <2> HIDE DEF p
  <2> QED
    BY <2>1, <2>4, <2>5
<1> HIDE DEF p
<1>3. Writes(m) /\ Written(m) = m.request
  BY ConstantsAssumption DEF Writes, Written
<1>4. \A i \in DOMAIN j : i # 1 => (Writes(p[i]) <=> Writes(j[i])) /\ Written(p[i]) = Written(j[i])
  BY <1>2
<1>5. Outstanding(p, w)
  <2> SUFFICES ASSUME NEW i \in DOMAIN j, Writes(p[i]), \A k \in DOMAIN j : i < k => ~Writes(p[k])
               PROVE  Written(p[i]) = w
    BY <1>1 DEF Outstanding
  <2>1. CASE i # 1
    <3>1. \A k \in DOMAIN j : i < k => k # 1
      BY <1>2
    <3>2. Writes(j[i]) /\ \A k \in DOMAIN j : i < k => ~Writes(j[k])
      BY <1>4, <2>1, <3>1
    <3> QED
      BY <1>4, <2>1, <3>2 DEF Makes, Outstanding
  <2>2. CASE i = 1
    <3>1. \A k \in DOMAIN j : k # 1 => ~Writes(j[k])
      BY <1>2, <1>4, <2>2
    <3>2. CASE Writes(j[1])
      <4>1. Written(j[1]) = w
        BY <1>2, <3>1, <3>2 DEF Makes, Outstanding
      <4>2. Head(j).request = m.request
        BY <1>2, <3>2 DEF Writes
      <4> QED
        BY <1>2, <1>3, <2>2, <4>1, <4>2 DEF Written
    <3>3. CASE ~Writes(j[1])
      <4>1. Silent(j)
        BY <3>1, <3>3 DEF Silent
      <4>2. Head(j).request = "system"
        BY <1>2, <3>3 DEF Writes
      <4> QED
        BY <1>2, <1>3, <2>2, <4>1, <4>2 DEF Makes
    <3> QED
      BY <3>2, <3>3
  <2> QED
    BY <2>1, <2>2
<1>6. ~Silent(p)
  BY <1>1, <1>2, <1>3 DEF Silent
<1> QED
  BY <1>1, <1>5, <1>6 DEF Makes, p

\* One instance has jobs: it is settled, and its step keeps it so.
LEMMA WishesHere ==
    ASSUME Wishes, IInv, Tidies, "undrained" \notin mishaps,
           NEW s \in Service, open[s] \/ jobs[s] # <<>>
    PROVE  /\ Makes(jobs[s], at[s], saved, wished)
           /\ jobs[s] \in Seq(Job)
           /\ at[s] \in {"resolved", "launched"} => jobs[s] # <<>>
           /\ \A t \in Service : t # s => jobs[t] = <<>>
<1>1. \A t \in Service : t # s => jobs[t] = <<>>
  BY Alone
<1>2. Silent(<<>>)
  BY DEF Silent
<1>3. Silent(jobs[s]) => saved = wished
  BY <1>1, <1>2 DEF Wishes
<1> QED
  BY <1>1, <1>3 DEF Wishes, Makes, IInv, TypeOK, Duties, Duty

LEMMA WishesThere ==
    ASSUME IInv', NEW s \in Service,
           "undrained" \notin mishaps' =>
               /\ Makes(jobs'[s], at'[s], saved', wished')
               /\ \A t \in Service : t # s => jobs'[t] = <<>>
    PROVE  Wishes'
<1>1. Silent(<<>>) /\ \A w : Outstanding(<<>>, w)
  BY DEF Silent, Outstanding
<1>2. \A t \in Service : at'[t] \in {"resolved", "launched"} => jobs'[t] # <<>>
  BY DEF IInv, Duties, Duty
<1> QED
  BY <1>1, <1>2 DEF Wishes, Makes

LEMMA WishesStable ==
    ASSUME Wishes, UNCHANGED <<jobs, at, saved, wished>>, mishaps \subseteq mishaps'
    PROVE  Wishes'
BY DEF Wishes

LEMMA WishesWorker ==
    ASSUME IInv, KInv, Wishes, IInv', NEW s \in Service, Worker(s)
    PROVE  Wishes'
<1> SUFFICES ASSUME "undrained" \notin mishaps
             PROVE  /\ Makes(jobs'[s], at'[s], saved', wished)
                    /\ \A t \in Service : t # s => jobs'[t] = <<>>
  BY Moves, WishesThere
<1>1. /\ jobs[s] # <<>> /\ \A t \in Service : t # s => jobs'[t] = jobs[t]
  BY Moves
<1>2. /\ Makes(jobs[s], at[s], saved, wished) /\ jobs[s] \in Seq(Job)
      /\ \A t \in Service : t # s => jobs[t] = <<>>
  BY <1>1, WishesHere DEF KInv
<1>3. SUFFICES Makes(jobs'[s], at'[s], saved', wished)
  BY <1>1, <1>2
<1>4. CASE Resolve(s)
  <2>1. Head(jobs[s]).what = "start" /\ at'[s] = "resolved"
    BY <1>4, Resolves
  <2>2. PICK m \in Job : /\ m.what = "start" /\ jobs'[s] = <<m>> \o Tail(jobs[s])
                         /\ m.request = saved' /\ saved' \in Profile
                         /\ Head(jobs[s]).request \in {"system", saved'}
                         /\ Head(jobs[s]).request = "system" => UNCHANGED saved
    BY <1>4, Resolves
  <2>3. Makes(<<m>> \o Tail(jobs[s]), "resolved", m.request, wished)
    BY <1>1, <1>2, <2>1, <2>2, MakesResolved
  <2> QED
    BY <2>1, <2>2, <2>3
<1>5. ASSUME ResolveFails(s) \/ LaunchFails(s) PROVE Makes(jobs'[s], at'[s], saved', wished)
  <2>1. /\ Head(jobs[s]).what = "start" /\ at'[s] = "idle" /\ UNCHANGED saved
        /\ Tail(jobs[s]) \in Seq(Job)
        /\ \/ jobs'[s] = Append(Tail(jobs[s]), Shutdown("failed", FALSE))
           \/ jobs'[s] = Tail(jobs[s])
    BY <1>5, Fails
  <2>2. IF Writes(Head(jobs[s])) THEN saved = Written(Head(jobs[s])) ELSE TRUE
    <3>1. CASE ResolveFails(s)
      BY <2>1, <3>1 DEF ResolveFails, Writes
    <3>2. CASE LaunchFails(s)
      BY <1>2, <2>1, <3>2 DEF LaunchFails, Works, Makes, Written
    <3> QED
      BY <1>5, <3>1, <3>2
  <2>3. Makes(Tail(jobs[s]), "idle", saved, wished)
    BY <1>1, <1>2, <2>2, MakesDone
  <2>4. Shutdown("failed", FALSE) \in Job /\ ~Writes(Shutdown("failed", FALSE))
    BY JobFacts DEF Stage, Shutdown, Writes
  <2>5. Makes(Append(Tail(jobs[s]), Shutdown("failed", FALSE)), "idle", saved, wished)
    BY <2>1, <2>3, <2>4, MakesQueued
  <2> QED
    BY <2>1, <2>3, <2>5
<1>6. CASE Launch(s)
  BY <1>2, <1>6, Launches DEF Makes
<1>7. CASE Connected(s)
  <2>1. /\ Head(jobs[s]).what = "start" /\ at[s] = "launched" /\ at'[s] = "idle"
        /\ jobs'[s] = Tail(jobs[s]) /\ UNCHANGED saved
    BY <1>7, Connects
  <2>2. saved = Written(Head(jobs[s]))
    BY <1>2, <2>1 DEF Makes, Written
  <2> QED
    BY <1>1, <1>2, <2>1, <2>2, MakesDone
<1>8. CASE Release(s)
  <2>1. /\ Head(jobs[s]).what = "release" /\ at'[s] = "idle"
        /\ jobs'[s] = Tail(jobs[s]) /\ UNCHANGED saved
    BY <1>8, Releases
  <2>2. ~Writes(Head(jobs[s]))
    BY <2>1 DEF Writes
  <2> QED
    BY <1>1, <1>2, <2>1, <2>2, MakesDone
<1>9. CASE ShutdownReleases(s)
  BY <1>2, <1>9, ShutsDown DEF Makes
<1>10. CASE ShutdownReports(s)
  <2>1. /\ Head(jobs[s]).what = "shutdown" /\ at'[s] = "idle"
        /\ jobs'[s] = Tail(jobs[s]) /\ saved' = Kept(Head(jobs[s]))
    BY <1>10, Reports
  <2>2. IF Writes(Head(jobs[s])) THEN saved' = Written(Head(jobs[s])) ELSE saved' = saved
    BY <2>1 DEF Kept, Writes, Written
  <2> QED
    BY <1>1, <1>2, <2>1, <2>2, MakesDone
<1> QED
  BY <1>4, <1>5, <1>6, <1>7, <1>8, <1>9, <1>10, Moves DEF Worker

\* Something is queued for an instance that takes it.
LEMMA WishesQueued ==
    ASSUME IInv, KInv, Wishes, IInv', NEW s \in Service, open[s], NEW m \in Job,
           jobs' = [jobs EXCEPT ![s] = Append(@, m)], UNCHANGED <<at, saved>>,
           mishaps \subseteq mishaps',
           wished' = IF Writes(m) THEN Written(m) ELSE wished
    PROVE  Wishes'
<1> SUFFICES ASSUME "undrained" \notin mishaps
             PROVE  /\ Makes(jobs'[s], at[s], saved, wished')
                    /\ \A t \in Service : t # s => jobs'[t] = <<>>
  BY WishesThere
<1>1. /\ Makes(jobs[s], at[s], saved, wished) /\ jobs[s] \in Seq(Job)
      /\ at[s] \in {"resolved", "launched"} => jobs[s] # <<>>
      /\ \A t \in Service : t # s => jobs[t] = <<>>
  BY WishesHere DEF KInv
<1>2. jobs'[s] = Append(jobs[s], m) /\ \A t \in Service : t # s => jobs'[t] = jobs[t]
  BY QueuedType DEF IInv
<1>3. Makes(Append(jobs[s], m), at[s], saved, wished')
  <2>1. CASE Writes(m)
    BY <1>1, <2>1, MakesWritten
  <2>2. CASE ~Writes(m)
    BY <1>1, <2>2, MakesQueued
  <2> QED
    BY <2>1, <2>2
<1> QED
  BY <1>1, <1>2, <1>3

LEMMA WishesStep ==
    ASSUME IInv, KInv, Wishes, IInv', Next
    PROVE  Wishes'
<1> USE DEF record, android, box, orphans, worker, history
<1>1. CASE App \/ Android
  <2>1. CASE ProcessDies
    BY <2>1, Nothing DEF Wishes, Outstanding, Silent
  <2>2. CASE ~ProcessDies
    BY <1>1, <2>2, WishesStable DEF App, Android, PluginStart, PluginStop, PluginStopsNothing, Refused,
                        AlwaysOn, NotificationStop, Reclaim, Revoke
  <2> QED
    BY <2>1, <2>2
<1>2. CASE \/ OnCreate \/ OnStartIgnored \/ Republish \/ OnStopSelf
           \/ OnDestroyFinds \/ Drained \/ Undrained
  BY <1>2, WishesStable DEF OnCreate, OnStartIgnored, Republish, OnStopSelf, OnDestroyFinds,
                            Drained, Undrained
<1>3. CASE OnStop
  <2> DEFINE s == Head(queue).service
             m == Shutdown("disconnected", TRUE)
  <2>1. s \in Service /\ open[s]
    BY <1>3, Received DEF OnStop
  <2>2. m \in Job /\ Writes(m) /\ Written(m) = None
    BY JobFacts DEF Stage, Shutdown, Writes, Written
  <2>3. jobs' = [jobs EXCEPT ![s] = Append(@, m)] /\ wished' = None /\ UNCHANGED <<at, saved, mishaps>>
    BY <1>3 DEF OnStop
  <2> HIDE DEF s, m
  <2> QED
    BY <2>1, <2>2, <2>3, WishesQueued
<1>4. CASE OnStart
  <2> DEFINE s == Head(queue).service
             r == Head(queue).request
             m == [what |-> "start", request |-> r]
  <2>1. s \in Service /\ open[s] /\ m \in Job
    BY <1>4, Received, RequestType DEF OnStart, IInv
  <2>2. /\ r = "system" => ~Writes(m)
        /\ r # "system" => Writes(m) /\ Written(m) = r
    BY DEF Writes, Written
  <2>3. /\ jobs' = [jobs EXCEPT ![s] = Append(@, m)] /\ UNCHANGED <<at, saved, mishaps>>
        /\ wished' = IF r = "system" THEN wished ELSE r
    BY <1>4 DEF OnStart
  <2> HIDE DEF s, m, r
  <2> QED
    BY <2>1, <2>2, <2>3, WishesQueued
<1>5. CASE Destroying
  <2> DEFINE s == Head(queue).service
             m == [what |-> "release"]
  <2>1. s \in Service /\ open[s] /\ TearsDown
    BY <1>5, Destroys, DestroyTakes DEF IInv
  <2>2. m \in Job /\ ~Writes(m)
    BY JobFacts DEF Writes
  <2>3. /\ jobs' = [jobs EXCEPT ![s] = Append(@, m)] /\ UNCHANGED <<at, saved, wished>>
        /\ mishaps \subseteq mishaps'
    BY <2>1 DEF TearsDown, ToBeReleased
  <2> HIDE DEF s, m
  <2> QED
    BY <2>1, <2>2, <2>3, WishesQueued
<1>6. ASSUME NEW s \in Service, OnRevoke(s) PROVE Wishes'
  <2>1. UNCHANGED <<at, saved, wished>> /\ mishaps \subseteq mishaps'
    BY <1>6 DEF OnRevoke
  <2>2. CASE UNCHANGED jobs
    BY <2>1, <2>2, WishesStable
  <2>3. CASE open[s] /\ jobs' = [jobs EXCEPT ![s] = Append(@, Shutdown("failed", FALSE))]
    <3>1. Shutdown("failed", FALSE) \in Job /\ ~Writes(Shutdown("failed", FALSE))
      BY JobFacts DEF Stage, Shutdown, Writes
    <3> QED
      BY <2>1, <2>3, <3>1, WishesQueued
  <2> QED
    BY <1>6, <2>2, <2>3 DEF OnRevoke
<1> QED
  BY <1>1, <1>2, <1>3, <1>4, <1>5, <1>6, WishesWorker DEF Next, Machine, Main, Binder, Destroying

LEMMA WishesInit == Init => Wishes
<1>1. DOMAIN <<>> = {}
  OBVIOUS
<1> QED
  BY <1>1 DEF Init, Wishes, Outstanding, Silent

LEMMA WishesNext == IInv /\ KInv /\ Wishes /\ IInv' /\ [Next]_vars => Wishes'
<1>1. ASSUME Wishes, UNCHANGED vars PROVE Wishes'
  BY <1>1, WishesStable DEF vars, record, android, box, worker, history
<1> QED
  BY <1>1, WishesStep

(***************************************************************************)
(* What sing-box runs                                                      *)
(***************************************************************************)

\* As long as onDestroy waits, an instance runs the configuration that is saved, or is
\* about to run another over it; and one that has been released runs none.
Runs ==
    /\ \A s \in Service : at[s] = "released" => engine[s] = None
    /\ "undrained" \notin mishaps =>
          \A s \in Service : engine[s] # None => engine[s] = saved \/ at[s] = "resolved"

LEMMA RunsInit == Init => Runs
BY DEF Init, Runs

LEMMA RunsStable ==
    ASSUME Runs, UNCHANGED <<at, engine, saved>>, mishaps \subseteq mishaps'
    PROVE  Runs'
BY DEF Runs

\* An instance that runs a sing-box has somebody to release it, and is the only one.
LEMMA RunsAlone ==
    ASSUME IInv, KInv, "undrained" \notin mishaps, NEW s \in Service, jobs[s] # <<>>,
           NEW t \in Service, engine[t] # None
    PROVE  s = t
<1>1. open[t] \/ Has(jobs[t], "release")
  BY DEF IInv, Duties, Duty
<1>2. open[t] \/ jobs[t] # <<>>
  BY <1>1 DEF Has
<1> QED
  BY <1>2, Alone DEF KInv

LEMMA RunsWorker ==
    ASSUME IInv, KInv, Wishes, Runs, NEW s \in Service, Worker(s)
    PROVE  Runs'
<1>1. /\ jobs[s] # <<>> /\ mishaps \subseteq mishaps'
      /\ \A t \in Service : t # s => at'[t] = at[t] /\ engine'[t] = engine[t]
  BY Moves
<1>2. \A t \in Service : t # s /\ "undrained" \notin mishaps => engine[t] = None
  BY <1>1, RunsAlone
<1> SUFFICES /\ at'[s] = "released" => engine'[s] = None
             /\ "undrained" \notin mishaps /\ engine'[s] # None =>
                    engine'[s] = saved' \/ at'[s] = "resolved"
  BY <1>1, <1>2 DEF Runs
<1>3. CASE Resolve(s)
  BY <1>3, Resolves
<1>4. CASE ResolveFails(s) \/ LaunchFails(s)
  <2>1. at[s] # "resolved"
    BY <1>4 DEF ResolveFails, LaunchFails, Works
  <2> QED
    BY <1>4, <2>1, Fails DEF Runs
<1>5. CASE Launch(s)
  <2>1. engine'[s] = Head(jobs[s]).request
    BY <1>5 DEF Launch, IInv, TypeOK
  <2> QED
    BY <1>5, <2>1, Launches DEF Wishes
<1>6. CASE Connected(s)
  BY <1>6, Connects DEF Runs
<1>7. CASE Release(s)
  BY <1>7, Releases
<1>8. CASE ShutdownReleases(s)
  BY <1>8, ShutsDown
<1>9. CASE ShutdownReports(s)
  BY <1>9, Reports DEF Runs
<1> QED
  BY <1>3, <1>4, <1>5, <1>6, <1>7, <1>8, <1>9 DEF Worker

LEMMA RunsNext == IInv /\ KInv /\ Wishes /\ Runs /\ [Next]_vars => Runs'
<1> SUFFICES ASSUME IInv, KInv, Wishes, Runs, [Next]_vars PROVE Runs'
  OBVIOUS
<1> USE DEF record, android, box, orphans, worker, history
<1>1. CASE App
  BY <1>1, RunsStable DEF App, PluginStart, PluginStop, PluginStopsNothing, Refused
<1>2. CASE AlwaysOn \/ NotificationStop \/ Reclaim \/ Revoke
  BY <1>2, RunsStable DEF AlwaysOn, NotificationStop, Reclaim, Revoke
<1>3. CASE ProcessDies
  BY <1>3 DEF ProcessDies, Runs
<1>4. CASE Main \/ Undrained
  BY <1>4, RunsStable DEF Main, OnCreate, OnStop, OnStart, OnStartIgnored, Republish, OnStopSelf,
                          OnDestroy, OnDestroyFinds, OnDestroyCorrects, TearsDown, Drained, Undrained
<1>5. CASE Binder
  BY <1>5, RunsStable DEF Binder, OnRevoke
<1>6. CASE UNCHANGED vars
  BY <1>6, RunsStable DEF vars
<1> QED
  BY <1>1, <1>2, <1>3, <1>4, <1>5, <1>6, RunsWorker DEF Next, Android, Machine

JInv == IInv /\ Orphaned /\ KInv /\ CInv /\ RInv /\ Wishes /\ Runs

LEMMA Truths == Spec => []JInv
<1>1. Init => JInv
  BY InitInvariant, KInvInit, CInvInit, RInvInit, WishesInit, RunsInit DEF JInv, Init, Orphaned
<1>2. JInv /\ [Next]_vars => JInv'
  BY NextInvariant, OrphanedNext, KInvNext, CInvNext, RInvNext, WishesNext, RunsNext DEF JInv
<1> QED
  BY <1>1, <1>2, PTL DEF Spec

\* A status of CONNECTED is true, or the shutdown that corrects it is on its way
\* (SingboxVpnService.kt:219), unless a destroy overtook the start or a status was
\* republished that had changed.
THEOREM ConnectedIsTrue == Spec => []ConnectedIsUp
<1>1. JInv => ConnectedIsUp
  BY DEF JInv, CInv, ConnectedIsCarried, ConnectedIsUp, Queued, Has
<1> QED
  BY <1>1, Truths, PTL

\* When the plugin's stop answers that there is no service to stop
\* (SingboxTunnelPlugin.kt:314), the tunnel that is up is going down by itself, unless
\* a command server was built over (SingboxVpnService.kt:203), a revocation came late or
\* onDestroy did not wait to the end.
THEOREM StopsAreHeard == Spec => []StopIsHeard
<1>1. JInv => StopIsHeard
  <2>0. JInv /\ "reopened" \notin mishaps => leaked = None
    BY DEF JInv, Orphaned
  <2> SUFFICES ASSUME JInv, routed # None, ~serviceRunning, mishaps \cap {"late", "undrained"} = {}
               PROVE  Ending(routed)
    BY <2>0 DEF StopIsHeard
  <2>1. /\ routed \in Service
        /\ open[routed] \/ Has(jobs[routed], "release")
    BY Carries DEF JInv
  <2>2. open[routed] => Departs(queue, routed)
    BY <2>1 DEF JInv, RInv, OpenIsRunning
  <2> QED
    BY <2>1, <2>2 DEF Ending, Queued, Has, Departs, Sent, Is
<1> QED
  BY <1>1, Truths, PTL

\* With nothing on its way, a tunnel that is up is reported connected, and nothing
\* is reported as coming up, unless a start was ignored (SingboxVpnService.kt:139),
\* Android refused one, a revocation came late, onDestroy did not wait to the end, or a
\* command server was built over (SingboxVpnService.kt:203).
THEOREM TruthAtRest == Spec => []RestsOnTruth
<1>1. JInv => RestsOnTruth
  <2> SUFFICES ASSUME JInv, Quiet PROVE RestsOnTruth
    BY DEF RestsOnTruth
  <2>1. DOMAIN <<>> = {}
    OBVIOUS
  <2>2. ~Asked(queue) /\ \A s : ~Departs(queue, s)
    BY <2>1 DEF Quiet, Asked, Departs, Sent
  <2>3. \A s \in Service : jobs[s] = <<>> /\ ~Has(jobs[s], "start") /\ ~Has(jobs[s], "shutdown")
    BY <2>1 DEF Quiet, Has
  <2>4. routed # None => routed \in Service
    BY Carries DEF JInv
  <2>5. routed # None /\ mishaps \cap {"crossed", "late", "refused", "undrained"} = {} =>
            current = "connected"
    BY <2>2, <2>3, <2>4 DEF JInv, RInv, RoutedIsTold
  <2>6. current = "connecting" => "crossed" \in mishaps
    BY <2>2, <2>3 DEF JInv, RInv, ConnectingIsAsked
  <2>7. "reopened" \notin mishaps => leaked = None
    BY DEF JInv, Orphaned
  <2> QED
    BY <2>5, <2>6, <2>7 DEF RestsOnTruth
<1> QED
  BY <1>1, Truths, PTL

\* With the worker idle, start-request.json is what the last start or stop that was
\* let through asked for (SingboxVpnService.kt:243, 334), as long as onDestroy
\* waits for the worker to the end.
THEOREM SavedAsWished == Spec => []SavedIsWished
<1>1. JInv => SavedIsWished
  <2> SUFFICES ASSUME JInv, "undrained" \notin mishaps,
                      \A s \in Service : ~Queued(s, "start") /\ ~Queued(s, "shutdown")
               PROVE  saved = wished
    BY DEF SavedIsWished
  <2>1. \A s \in Service : Silent(jobs[s])
    BY DEF Queued, Silent, Writes
  <2> QED
    BY <2>1 DEF JInv, Wishes
<1> QED
  BY <1>1, Truths, PTL

(***************************************************************************)
(* The app                                                                 *)
(***************************************************************************)

Thread == {"main", "worker", "binder"}

\* What the controller adds to a step of the service: a status set, or none.
LEMMA Records ==
    ASSUME ServiceStep \/ Answer
    PROVE  \E thread \in Thread : Sets(thread) \/ (SetsNot(thread) /\ UNCHANGED current)
<1> USE DEF Thread, record
<1>1. CASE Answer
  BY <1>1 DEF Answer, PluginStop
<1>2. CASE MainStep
  <2>1. CASE (OnStart \/ Republish \/ OnDestroyCorrects) /\ Sets("main")
    BY <2>1
  <2>2. CASE /\ OnCreate \/ OnStop \/ OnStartIgnored \/ OnDestroy \/ OnDestroyFinds
                \/ Drained \/ Undrained
             /\ SetsNot("main")
    BY <2>2 DEF OnCreate, OnStop, OnStartIgnored, OnDestroy, OnDestroyFinds, Drained, Undrained
  <2>3. CASE OnStopSelf /\ Free("worker") /\ SetsNot("main")
    BY <2>3 DEF OnStopSelf
  <2> QED
    BY <1>2, <2>1, <2>2, <2>3 DEF MainStep
<1>3. ASSUME NEW s \in Service, BinderStep(s)
      PROVE  \E thread \in Thread : Sets(thread) \/ (SetsNot(thread) /\ UNCHANGED current)
  BY <1>3 DEF BinderStep, OnRevoke, SetsIf
<1>4. ASSUME NEW s \in Service, WorkerStep(s)
      PROVE  \E thread \in Thread : Sets(thread) \/ (SetsNot(thread) /\ UNCHANGED current)
  <2>1. CASE (Connected(s) \/ ShutdownReports(s)) /\ Sets("worker")
    BY <2>1
  <2>2. CASE (ResolveFails(s) \/ LaunchFails(s)) /\ SetsIf("worker", ~open[s])
    BY <2>2 DEF ResolveFails, LaunchFails, StartFails, SetsIf
  <2>3. CASE (Resolve(s) \/ Launch(s) \/ Release(s) \/ ShutdownReleases(s)) /\ SetsNot("worker")
    BY <2>3 DEF Resolve, Launch, Release, ShutdownReleases
  <2> QED
    BY <1>4, <2>1, <2>2, <2>3 DEF WorkerStep
<1> QED
  BY <1>1, <1>2, <1>3, <1>4 DEF ServiceStep

\* A caller is of a profile, and of one of its methods.
LEMMA CallerFacts ==
    /\ \A p \in Profile : {<<p, "connect">>, <<p, "disconnect">>, <<p, "forget">>} \subseteq Caller
    /\ \A c \in Caller : /\ c[1] \in Profile
                         /\ c[2] \in {"connect", "disconnect", "forget"}
                         /\ c = <<c[1], c[2]>>
BY DEF Caller

\* A call that is answered is a caller's, and has been made.
LEMMA Answered ==
    ASSUME ControllerTypeOK, Answer
    PROVE  /\ Head(calls) \in Caller /\ Tail(calls) \in Seq(Caller)
           /\ Head(calls)[1] \in Profile
BY IndexedTail, CallerFacts DEF ControllerTypeOK, Answer

\* What the app makes the service do, and what happens to it beside, are steps of the
\* service; the others do not touch it.
LEMMA StepsOfService == ControllerTypeOK /\ [ControllerNext]_every => [Next]_vars
<1> SUFFICES ASSUME ControllerTypeOK, [ControllerNext]_every PROVE Next \/ UNCHANGED vars
  OBVIOUS
<1>1. ASSUME NEW p \in Profile, Screen(p) PROVE UNCHANGED vars
  BY <1>1 DEF Screen, Connect, Disconnect, Forget, Permit, Deny
<1>7. ASSUME NEW c \in Caller, Settled(c) \/ TimeOut(c) PROVE UNCHANGED vars
  BY <1>7 DEF Settled, TimeOut
<1>2. CASE Post \/ Deliver \/ Reopen
  BY <1>2 DEF Post, Deliver, Reopen
<1>3. CASE Answer
  BY <1>3, Answered DEF Answer, App, Next
<1>4. CASE ServiceStep
  <2>1. CASE MainStep
    BY <2>1 DEF MainStep, Main, Machine, Next
  <2>2. ASSUME NEW s \in Service, BinderStep(s) \/ WorkerStep(s) PROVE Next
    BY <2>2 DEF BinderStep, Binder, WorkerStep, Worker, Machine, Next
  <2> QED
    BY <1>4, <2>1, <2>2 DEF ServiceStep
<1>5. CASE Outside \/ Killed
  BY <1>5 DEF Outside, Killed, Android, Next
<1>6. CASE UNCHANGED every
  BY <1>6 DEF every
<1> QED
  BY <1>1, <1>2, <1>3, <1>4, <1>5, <1>6, <1>7 DEF ControllerNext

LEMMA SetsTyped ==
    ASSUME ControllerTypeOK, current' \in Stage, NEW thread \in Thread,
           Sets(thread) \/ SetsNot(thread)
    PROVE  /\ held' \in [stage : Stage, by : Thread] \cup {None}
           /\ posts' \in Seq(Stage)
           /\ raced' \in BOOLEAN
<1>1. Append(posts, current') \in Seq(Stage)
  BY AppendProperties DEF ControllerTypeOK
<1>2. [stage |-> current', by |-> thread] \in [stage : Stage, by : Thread]
  OBVIOUS
<1>3. /\ held \in [stage : Stage, by : Thread] \cup {None}
      /\ posts \in Seq(Stage) /\ raced \in BOOLEAN
  BY DEF ControllerTypeOK, Thread
<1>4. /\ held' = held \/ held' = [stage |-> current', by |-> thread]
      /\ posts' = posts \/ posts' = Append(posts, current')
      /\ raced' = raced \/ raced' = (raced \/ held # None)
  BY DEF Sets, SetsNot
<1> QED
  BY <1>1, <1>2, <1>3, <1>4

LEMMA FreshTyped ==
    /\ Fresh.shown \in [stage : Stage, profile : Profile \cup {None}]
    /\ Fresh.active = None
    /\ Fresh.phase \in [Caller -> {"idle", "asking", "calling", "waiting"}]
    /\ Fresh.heard \in [Caller -> Stage \cup {None}]
BY DEF Fresh, Status, Stage

LEMMA ControllerTypeInit == ControllerInit => ControllerTypeOK
<1>1. <<>> \in Seq(Caller) /\ <<>> \in Seq(Stage)
  OBVIOUS
<1> QED
  BY <1>1, FreshTyped DEF ControllerInit, ControllerTypeOK

LEMMA ControllerTypeNext ==
    ASSUME ControllerTypeOK, TypeOK, TypeOK', [ControllerNext]_every
    PROVE  ControllerTypeOK'
<1> USE DEF ControllerTypeOK, Status, app, channel, memory
<1>1. current \in Stage /\ current' \in Stage
  BY DEF TypeOK
<1>3. ASSUME NEW c \in Caller, Leaves(c)
      PROVE  /\ phase' \in [Caller -> {"idle", "asking", "calling", "waiting"}]
             /\ heard' \in [Caller -> Stage \cup {None}]
  BY <1>3 DEF Leaves
<1>4. ASSUME NEW c \in Caller, Sends(c)
      PROVE  /\ phase' \in [Caller -> {"idle", "asking", "calling", "waiting"}]
             /\ calls' \in Seq(Caller)
  <2>1. Append(calls, c) \in Seq(Caller)
    BY AppendProperties
  <2> QED
    BY <1>4, <2>1 DEF Sends
<1>5. ASSUME NEW p \in Profile, Screen(p) PROVE ControllerTypeOK'
  <2>0. {<<p, "connect">>, <<p, "disconnect">>, <<p, "forget">>} \subseteq Caller
    BY CallerFacts
  <2>1. CASE Connect(p)
    BY <2>0, <2>1 DEF Connect, Stamped, Stage, Emits
  <2>2. CASE Disconnect(p)
    BY <2>0, <2>2, <1>4 DEF Disconnect
  <2>3. CASE Forget(p)
    BY <2>0, <2>3, <1>4 DEF Forget
  <2>4. CASE Permit(p)
    BY <2>0, <2>4, <1>4 DEF Permit
  <2>5. CASE Deny(p)
    BY <2>0, <2>5, <1>3 DEF Deny, Stage, Emits
  <2> QED
    BY <1>5, <2>1, <2>2, <2>3, <2>4, <2>5 DEF Screen
<1>14. ASSUME NEW c \in Caller, Settled(c) \/ TimeOut(c) PROVE ControllerTypeOK'
  <2>1. c[1] \in Profile
    BY CallerFacts
  <2>2. CASE Settled(c)
    <3>1. button' \in [stage : Stage, profile : Profile \cup {None}]
      BY <2>1, <2>2 DEF Settled, Overlaid, Stage
    <3> QED
      BY <2>1, <2>2, <3>1, <1>3 DEF Settled
  <2>3. CASE TimeOut(c)
    BY <2>1, <2>3, <1>3 DEF TimeOut, Emits, Stage
  <2> QED
    BY <1>14, <2>2, <2>3
<1>6. CASE Post
  <2>1. Append(posts, held.stage) \in Seq(Stage)
    BY <1>6, AppendProperties DEF Post
  <2> QED
    BY <1>6, <2>1 DEF Post
<1>7. CASE Deliver
  <2>1. Head(posts) \in Stage /\ Tail(posts) \in Seq(Stage)
    BY <1>7, IndexedTail DEF Deliver
  <2>2. Heard(Head(posts)) \in [Caller -> Stage \cup {None}]
    BY <2>1 DEF Heard
  <2> QED
    BY <1>7, <2>1, <2>2 DEF Deliver, Emits
<1>8. CASE Reopen
  <2>1. <<current>> \in Seq(Stage)
    BY <1>1
  <2> QED
    BY <1>8, <2>1, FreshTyped DEF Reopen, Restarts, Emits
<1>9. CASE Killed
  BY <1>9, FreshTyped DEF Killed, Restarts, Emits
<1>10. CASE Outside \/ UNCHANGED every
  BY <1>10 DEF Outside, every
<1>11. ASSUME ServiceStep \/ Answer
       PROVE  /\ held' \in [stage : Stage, by : Thread] \cup {None}
              /\ posts' \in Seq(Stage)
              /\ raced' \in BOOLEAN
  BY <1>1, <1>11, Records, SetsTyped
<1>12. CASE ServiceStep
  BY <1>11, <1>12 DEF ServiceStep, Thread
<1>13. CASE Answer
  <2> DEFINE c == Head(calls)
  <2>1. c \in Caller /\ c[1] \in Profile /\ calls' \in Seq(Caller)
    BY <1>13, Answered DEF Answer
  <2>2. /\ phase' \in [Caller -> {"idle", "asking", "calling", "waiting"}]
        /\ heard' \in [Caller -> Stage \cup {None}]
        /\ {shown', button'} \subseteq [stage : Stage, profile : Profile \cup {None}]
    <3>1. CASE phase' = [phase EXCEPT ![c] = "waiting"] /\ UNCHANGED <<shown, button, heard>>
      BY <3>1
    <3>2. CASE /\ Leaves(c)
               /\ {shown', button'} \subseteq {Status("failed", c[1]), Status("failed", active)}
      BY <1>3, <2>1, <3>2 DEF Stage
    <3>3. \/ phase' = [phase EXCEPT ![c] = "waiting"] /\ UNCHANGED <<shown, button, heard>>
          \/ /\ Leaves(c)
             /\ {shown', button'} \subseteq {Status("failed", c[1]), Status("failed", active)}
      BY <1>13 DEF Answer, Emits
    <3> QED
      BY <3>1, <3>2, <3>3
  <2> HIDE DEF c
  <2>3. stopped' \subseteq Profile
    BY <1>13, <2>1 DEF Answer, c
  <2> QED
    BY <1>11, <1>13, <2>1, <2>2, <2>3 DEF Answer, Thread
<1> QED
  BY <1>5, <1>6, <1>7, <1>8, <1>9, <1>10, <1>12, <1>13, <1>14 DEF ControllerNext

AppInv == JInv /\ ControllerTypeOK

LEMMA AppInvariance == ControllerSpec => []AppInv
<1>1. ControllerInit => AppInv
  BY InitInvariant, KInvInit, CInvInit, RInvInit, WishesInit, RunsInit, ControllerTypeInit
     DEF JInv, AppInv, ControllerInit, Init, Orphaned
<1>2. AppInv /\ [ControllerNext]_every => AppInv'
  <2> SUFFICES ASSUME AppInv, [ControllerNext]_every PROVE AppInv'
    OBVIOUS
  <2>1. [Next]_vars
    BY StepsOfService DEF AppInv
  <2>2. JInv'
    BY <2>1, NextInvariant, OrphanedNext, KInvNext, CInvNext, RInvNext, WishesNext, RunsNext
    DEF JInv, AppInv
  <2>3. TypeOK /\ TypeOK'
    BY <2>2 DEF AppInv, JInv, IInv
  <2> QED
    BY <2>2, <2>3, ControllerTypeNext DEF AppInv
<1> QED
  BY <1>1, <1>2, PTL DEF ControllerSpec

\* The variables of the app's side are what their comments say they are.
THEOREM ControllerTyping == ControllerSpec => []ControllerTypeOK
<1>1. AppInv => ControllerTypeOK
  BY DEF AppInv
<1> QED
  BY <1>1, AppInvariance, PTL

\* Under the app the service does what TunnelService says of it, and nothing else: the
\* plugin's channel gives it no step it does not have (SingboxTunnelPlugin.kt), so what
\* is proved of the service alone holds of it there.
THEOREM ServesTheApp == ControllerSpec => Spec
<1>1. AppInv /\ [ControllerNext]_every => [Next]_vars
  BY StepsOfService DEF AppInv
<1>2. ControllerInit => Init
  BY DEF ControllerInit
<1> QED
  BY <1>1, <1>2, AppInvariance, PTL DEF ControllerSpec, Spec

(***************************************************************************)
(* What is shown                                                           *)
(***************************************************************************)

\* A status is on its way to the app, and the newest of those that are.
OnItsWay == posts # <<>> \/ held # None

Newest == IF held # None THEN held.stage ELSE posts[Len(posts)]

\* A connect has said CONNECTING of its own accord, and has not been answered.
Asks == \E p \in Profile : phase[<<p, "connect">>] \in {"asking", "calling"}

\* What the app is going to show, when it has been told all there is, is what the
\* tunnel reports or a failure.
Shows ==
    ~raced =>
        IF OnItsWay
        THEN Newest = current
        ELSE shown.stage \in {current, "failed"} \/ (shown.stage = "connecting" /\ Asks)

\* The profile shown connected is the one a connect was called for last.
Stamps == active = asked /\ (shown.stage = "connected" => shown.profile = active)

SInv == Shows /\ Stamps

LEMMA SInvInit == ControllerInit => SInv
<1>1. <<>> = <<>>
  OBVIOUS
<1> QED
  BY DEF ControllerInit, Init, Fresh, Status, SInv, Shows, Stamps, OnItsWay, Newest

\* A status that is set is the newest on its way, but for two threads that set one.
LEMMA SetsShown ==
    ASSUME ControllerTypeOK, current' \in Stage, NEW thread \in Thread, Sets(thread), ~raced'
    PROVE  OnItsWay' /\ Newest' = current'
<1>1. CASE posts' = Append(posts, current') /\ raced' = (raced \/ held # None) /\ UNCHANGED held
  <2>1. /\ Append(posts, current') \in Seq(Stage) /\ Append(posts, current') # <<>>
        /\ Append(posts, current')[Len(Append(posts, current'))] = current'
    BY AppendProperties DEF ControllerTypeOK
  <2> QED
    BY <1>1, <2>1 DEF OnItsWay, Newest
<1>2. CASE held' = [stage |-> current', by |-> thread]
  <2>1. held' \in [stage : Stage, by : Thread]
    BY <1>2
  <2>2. held' # None
    BY <2>1, HeldAssumption DEF Thread
  <2> QED
    BY <1>2, <2>2 DEF OnItsWay, Newest
<1> QED
  BY <1>1, <1>2 DEF Sets

\* A connect is asked for, goes on, or is told of a failure; the other calls say nothing.
LEMMA ScreenShown ==
    ASSUME AppInv, SInv, NEW p \in Profile, Screen(p)
    PROVE  SInv'
<1> USE DEF AppInv, ControllerTypeOK, Status, app, channel, memory
<1>1. UNCHANGED <<held, posts, raced, current>>
  BY DEF Screen, Connect, Disconnect, Forget, Permit, Deny, vars, record
<1>2. (OnItsWay' <=> OnItsWay) /\ Newest' = Newest
  BY <1>1 DEF OnItsWay, Newest
<1>3. Shows /\ Stamps
  BY DEF SInv
<1>4. CASE Connect(p)
  <2>1. phase'[<<p, "connect">>] = "asking" /\ shown'.stage = "connecting" /\ ~OnItsWay
    BY <1>4, CallerFacts DEF Connect, Emits, Calm, OnItsWay
  <2>2. Shows'
    BY <1>2, <2>1 DEF Shows, Asks
  <2>3. Stamps'
    BY <1>4 DEF Connect, Emits, Stamped, Stamps
  <2> QED
    BY <2>2, <2>3 DEF SInv
<1>5. CASE Deny(p)
  <2>1. shown'.stage = "failed" /\ UNCHANGED <<active, asked>>
    BY <1>5 DEF Deny, Emits
  <2> QED
    BY <1>1, <1>2, <1>3, <2>1 DEF SInv, Shows, Stamps
<1>6. CASE Permit(p)
  <2>1. UNCHANGED <<shown, active, asked>> /\ phase' = [phase EXCEPT ![<<p, "connect">>] = "calling"]
    BY <1>6 DEF Permit, Sends
  <2>2. Asks => Asks'
    BY <2>1, CallerFacts DEF Asks
  <2> QED
    BY <1>1, <1>2, <1>3, <2>1, <2>2 DEF SInv, Shows, Stamps
<1>7. CASE Disconnect(p) \/ Forget(p)
  <2>1. /\ UNCHANGED <<shown, active, asked>>
        /\ \A q \in Profile : phase'[<<q, "connect">>] = phase[<<q, "connect">>]
    BY <1>7, CallerFacts DEF Disconnect, Forget, Sends
  <2> QED
    BY <1>1, <1>2, <1>3, <2>1 DEF SInv, Shows, Stamps, Asks
<1> QED
  BY <1>4, <1>5, <1>6, <1>7 DEF Screen

\* A call returns, or is given up, which is shown.
LEMMA ReturnShown ==
    ASSUME AppInv, SInv, NEW c \in Caller, Settled(c) \/ TimeOut(c)
    PROVE  SInv'
<1> USE DEF AppInv, ControllerTypeOK, Status, app, channel, memory
<1>1. UNCHANGED <<held, posts, raced, current, active, asked>>
  BY DEF Settled, TimeOut, vars, record
<1>2. /\ shown' = shown \/ shown'.stage = "failed"
      /\ phase[c] = "waiting" /\ phase' = [phase EXCEPT ![c] = "idle"]
  BY DEF Settled, TimeOut, Emits, Leaves
<1>3. Asks => Asks'
  BY <1>2, CallerFacts DEF Asks
<1> QED
  BY <1>1, <1>2, <1>3 DEF SInv, Shows, Stamps, OnItsWay, Newest

\* A status reaches the app: the last of them leaves what the tunnel reports.
LEMMA DeliverShown ==
    ASSUME AppInv, SInv, Deliver
    PROVE  SInv'
<1> USE DEF app, channel, memory, record
<1>1. /\ UNCHANGED <<held, raced, current, active, asked, phase>>
      /\ posts # <<>> /\ posts' = Tail(posts)
      /\ shown'.stage = Head(posts) /\ shown'.profile = active
  BY DEF Deliver, Emits, vars, Status
<1>2. /\ posts \in Seq(Stage) /\ Head(posts) = posts[1]
      /\ Tail(posts) \in Seq(Stage) /\ Len(posts) \in Nat \ {0}
      /\ Len(Tail(posts)) = Len(posts) - 1
      /\ \A i \in 1 .. Len(posts) - 1 : Tail(posts)[i] = posts[i + 1]
  BY <1>1, IndexedTail, HeadTailProperties DEF AppInv, ControllerTypeOK
<1>3. CASE held # None
  BY <1>1, <1>3 DEF SInv, Shows, OnItsWay, Newest, Stamps
<1>4. CASE held = None /\ Tail(posts) = <<>>
  <2>1. Len(Tail(posts)) = 0
    BY <1>2, <1>4, EmptySeq
  <2>2. Len(posts) = 1
    <3>1. Len(posts) \in Nat /\ Len(Tail(posts)) = Len(posts) - 1
      BY <1>2
    <3> DEFINE n == Len(posts)
               m == Len(Tail(posts))
    <3>2. n \in Nat /\ m = n - 1 /\ m = 0
      BY <2>1, <3>1
    <3> HIDE DEF n, m
    <3>3. n = 1
      BY <3>2
    <3> QED
      BY <3>3 DEF n
  <2> QED
    BY <1>1, <1>2, <1>4, <2>2 DEF SInv, Shows, OnItsWay, Newest, Stamps
<1>5. CASE held = None /\ Tail(posts) # <<>>
  <2>1. Len(Tail(posts)) # 0
    BY <1>2, <1>5, EmptySeq
  <2>2. Tail(posts)[Len(Tail(posts))] = posts[Len(posts)]
    BY <1>2, <2>1
  <2> QED
    BY <1>1, <1>5, <2>2 DEF SInv, Shows, OnItsWay, Newest, Stamps
<1> QED
  BY <1>3, <1>4, <1>5

LEMMA AnswerShown ==
    ASSUME AppInv, SInv, current' \in Stage, Answer
    PROVE  SInv'
<1> DEFINE c == Head(calls)
<1>1. c \in Caller
  BY Answered DEF AppInv
<1>2. UNCHANGED <<active, asked>> /\ ControllerTypeOK /\ "main" \in Thread
  BY DEF Answer, AppInv, Thread
<1>3. Shows /\ Stamps
  BY DEF SInv
<1>4. /\ shown' = shown \/ shown'.stage = "failed"
      /\ \A d \in Caller : d # c => phase'[d] = phase[d]
      /\ Sets("main") \/ (c[2] # "connect" /\ PluginStop /\ SetsNot("main") /\ UNCHANGED shown)
  BY <1>1, <1>2 DEF Answer, Emits, Leaves, Status, ControllerTypeOK
<1> HIDE DEF c
<1>5. Stamps'
  BY <1>2, <1>3, <1>4 DEF Stamps
<1>6. CASE Sets("main")
  BY <1>2, <1>5, <1>6, SetsShown DEF SInv, Shows
<1>7. CASE c[2] # "connect" /\ PluginStop /\ SetsNot("main") /\ UNCHANGED shown
  <2>1. UNCHANGED <<held, posts, raced, current, shown>>
    BY <1>7 DEF PluginStop, SetsNot, record
  <2>2. \A p \in Profile : <<p, "connect">> \in Caller /\ <<p, "connect">> # c
    BY <1>7, CallerFacts
  <2>3. \A p \in Profile : phase'[<<p, "connect">>] = phase[<<p, "connect">>]
    BY <1>4, <2>2
  <2>4. Shows'
    BY <1>3, <2>1, <2>3 DEF Shows, OnItsWay, Newest, Asks
  <2> QED
    BY <1>5, <2>4 DEF SInv
<1> QED
  BY <1>4, <1>6, <1>7

LEMMA SInvNext == AppInv /\ AppInv' /\ SInv /\ [ControllerNext]_every => SInv'
<1> SUFFICES ASSUME AppInv, AppInv', SInv, [ControllerNext]_every PROVE SInv'
  OBVIOUS
<1> USE DEF app, channel, memory, record
<1>1. /\ Shows /\ Stamps
      /\ ControllerTypeOK /\ current' \in Stage
  BY DEF SInv, AppInv, JInv, IInv, TypeOK
<1>2. CASE Post
  <2>1. /\ UNCHANGED <<raced, current, shown, active, asked, phase>>
        /\ held # None /\ held' = None /\ posts' = Append(posts, held.stage)
    BY <1>2 DEF Post, vars
  <2>2. held.stage \in Stage /\ posts \in Seq(Stage)
    BY <1>1, <2>1 DEF ControllerTypeOK
  <2>3. /\ Append(posts, held.stage) # <<>>
        /\ Append(posts, held.stage)[Len(Append(posts, held.stage))] = held.stage
    BY <2>2, AppendProperties
  <2> QED
    BY <1>1, <2>1, <2>3 DEF SInv, Shows, OnItsWay, Newest, Stamps
<1>3. CASE Reopen
  <2>1. /\ posts' = <<current>> /\ held' = None /\ UNCHANGED current
        /\ shown'.stage = "disconnected" /\ active' = None /\ asked' = None
    BY <1>3 DEF Reopen, Calm, Restarts, Emits, Fresh, Status, vars
  <2>2. <<current>> # <<>> /\ <<current>>[Len(<<current>>)] = current
    OBVIOUS
  <2> QED
    BY <2>1, <2>2 DEF SInv, Shows, OnItsWay, Newest, Stamps
<1>4. CASE Killed
  <2>1. /\ posts' = <<>> /\ held' = None /\ current' = "disconnected"
        /\ shown'.stage = "disconnected" /\ active' = None /\ asked' = None
    BY <1>4 DEF Killed, ProcessDies, Restarts, Emits, Fresh, Status
  <2> QED
    BY <2>1 DEF SInv, Shows, OnItsWay, Newest, Stamps
<1>5. ASSUME UNCHANGED <<app, channel, memory, current>> PROVE SInv'
  BY <1>1, <1>5 DEF SInv, Shows, OnItsWay, Newest, Asks, Stamps
<1>6. CASE Outside \/ UNCHANGED every
  <2>1. UNCHANGED <<app, channel, memory, current>>
    BY <1>6 DEF Outside, every, vars, AlwaysOn, NotificationStop, Reclaim, Revoke
  <2> QED
    BY <1>5, <2>1
<1>7. CASE ServiceStep
  <2>1. UNCHANGED <<app, asked>>
    BY <1>7 DEF ServiceStep
  <2>2. Stamps'
    BY <1>1, <2>1 DEF Stamps
  <2>3. PICK thread \in Thread : Sets(thread) \/ (SetsNot(thread) /\ UNCHANGED current)
    BY <1>7, Records
  <2>4. CASE Sets(thread)
    BY <1>1, <2>2, <2>4, SetsShown DEF SInv, Shows
  <2>5. CASE SetsNot(thread) /\ UNCHANGED current
    BY <1>1, <2>1, <2>2, <2>5 DEF SetsNot, SInv, Shows, OnItsWay, Newest, Asks
  <2> QED
    BY <2>3, <2>4, <2>5
<1> QED
  BY <1>1, <1>2, <1>3, <1>4, <1>6, <1>7, ScreenShown, ReturnShown, DeliverShown, AnswerShown
  DEF ControllerNext

LEMMA Showing == ControllerSpec => [](AppInv /\ SInv)
BY SInvInit, SInvNext, AppInvariance, PTL DEF ControllerSpec

\* At rest the app shows what the tunnel reports, or a failure, as long as no two
\* threads were in TunnelState.set at once (TunnelState.kt:48): the CONNECTING that
\* connect shows of its own accord is made good (singbox_tunnel.dart:100, 137-159).
THEOREM ShowsTheReported == ControllerSpec => []ShownIsReported
<1>1. Idle => ~Asks
  BY CallerFacts DEF Idle, Asks
<1>2. SInv => ShownIsReported
  BY <1>1 DEF SInv, Shows, OnItsWay, ShownIsReported, AtRest
<1> QED
  BY <1>2, Showing, PTL

\* At rest, and as long as onDestroy waits, what a tunnel runs is what was wished last.
LEMMA RunsTheWished ==
    ASSUME JInv, Quiet, "undrained" \notin mishaps, routed # None
    PROVE  engine[routed] = wished
<1>1. DOMAIN <<>> = {}
  OBVIOUS
<1>2. routed \in Service /\ engine[routed] # None
  BY DEF JInv, IInv, TypeOK, KInv, Wired
<1>3. \A s \in Service : jobs[s] = <<>> /\ Silent(jobs[s])
  BY <1>1 DEF Quiet, Silent
<1>4. at[routed] # "resolved"
  BY <1>2, <1>3 DEF JInv, IInv, Duties, Duty
<1> QED
  BY <1>2, <1>3, <1>4 DEF JInv, Runs, Wishes

\* At rest a profile shown connected is the one the traffic goes to, if the connect
\* called last is the start the service let through last (singbox_tunnel.dart:78-81,
\* 302), and but for the mishaps that leave the record wrong.
THEOREM ShowsTheRouted == ControllerSpec => []ShownIsRouted
<1>1. AppInv /\ SInv => ShownIsRouted
  <2> SUFFICES ASSUME AppInv, SInv, AtRest, shown.stage = "connected", asked = wished, ~raced,
                      mishaps \cap {"overtaken", "echoed", "undrained", "reopened"} = {}
               PROVE  routed # None /\ engine[routed] = shown.profile
    BY DEF ShownIsRouted
  <2>1. current = "connected" /\ Quiet
    BY DEF SInv, Shows, OnItsWay, Asks, AtRest, Idle
  <2>2. routed # None
    <3>1. DOMAIN <<>> = {}
      OBVIOUS
    <3>2. revoked = {} /\ \A s \in Service : ~Has(jobs[s], "shutdown")
      BY <2>1, <3>1 DEF Quiet, Has
    <3> QED
      BY <2>1, <3>2 DEF AppInv, JInv, CInv, ConnectedIsCarried
  <2>3. engine[routed] = wished
    BY <2>1, <2>2, RunsTheWished DEF AppInv
  <2>4. shown.profile = asked
    BY DEF SInv, Stamps
  <2> QED
    BY <2>2, <2>3, <2>4
<1> QED
  BY <1>1, Showing, PTL

(***************************************************************************)
(* What is forgotten                                                       *)
(***************************************************************************)

IsStop(m) == m.what = "args" /\ m.request = "stop"

Starts(m, p) == m.what = "args" /\ m.request = p

\* What would bring p back, among the messages q or as what should be on disk, w, has a
\* stop behind it.
Clean(q, w, p) ==
    /\ \A i \in DOMAIN q : Starts(q[i], p) => \E j \in DOMAIN q : i < j /\ IsStop(q[j])
    /\ w = p => \E j \in DOMAIN q : IsStop(q[j])

\* A call on its way is from a caller that waits for it, and the only one it made.
Calling ==
    /\ \A i \in DOMAIN calls : phase[calls[i]] = "calling"
    /\ \A i, j \in DOMAIN calls : calls[i] = calls[j] => i = j

\* One caller at a time is on its way to the plugin.
Busy(c) == phase[c] \in {"asking", "calling"}

Alternating == \A c, d \in Caller : Busy(c) /\ Busy(d) => c = d

\* A profile whose stop has gone to the service is not being asked for any more, and
\* is forgotten or about to be.
Parting ==
    \A p \in stopped :
        /\ ~Busy(<<p, "connect">>)
        /\ forgotten # None \/ phase[<<p, "forget">>] = "waiting"

FInv == Calling /\ Alternating /\ Parting /\ \A p \in stopped : Clean(queue, wished, p)

LEMMA FInvInit == ControllerInit => FInv
<1>1. DOMAIN <<>> = {}
  OBVIOUS
<1> QED
  BY <1>1 DEF ControllerInit, Fresh, FInv, Calling, Alternating, Busy, Parting

LEMMA CleanPut ==
    ASSUME NEW q \in Seq(Message), NEW m \in Message, NEW w, NEW p \in Profile,
           (Clean(q, w, p) /\ ~Starts(m, p)) \/ IsStop(m)
    PROVE  Clean(Append(q, m), w, p)
<1>1. /\ Len(q) \in Nat /\ DOMAIN q = 1 .. Len(q) /\ DOMAIN Append(q, m) = 1 .. Len(q) + 1
      /\ \A i \in DOMAIN q : Append(q, m)[i] = q[i]
      /\ Append(q, m)[Len(q) + 1] = m
  BY IndexedAppend
<1>2. /\ Len(q) + 1 \in DOMAIN Append(q, m)
      /\ \A i \in DOMAIN q : i \in DOMAIN Append(q, m) /\ i < Len(q) + 1
      /\ \A i \in DOMAIN Append(q, m) : i \in DOMAIN q \/ i = Len(q) + 1
  BY <1>1
<1>3. ~(IsStop(m) /\ Starts(m, p))
  BY ConstantsAssumption DEF IsStop, Starts
<1>4. CASE Clean(q, w, p) /\ ~Starts(m, p)
  BY <1>1, <1>2, <1>4 DEF Clean
<1>5. CASE IsStop(m)
  <2>1. \A i \in DOMAIN Append(q, m) : Starts(Append(q, m)[i], p) => i < Len(q) + 1
    BY <1>1, <1>2, <1>3, <1>5
  <2> QED
    BY <1>1, <1>2, <1>5, <2>1 DEF Clean
<1> QED
  BY <1>4, <1>5

LEMMA CleanTook ==
    ASSUME NEW q \in Seq(Message), q # <<>>, NEW w, NEW v, NEW p \in Profile,
           Clean(q, w, p),
           v = p => ~IsStop(Head(q)) /\ (w = p \/ Starts(Head(q), p))
    PROVE  Clean(Tail(q), v, p)
<1>1. /\ Head(q) = q[1]
      /\ 1 \in DOMAIN q /\ \A i \in DOMAIN q : ~(i < 1)
      /\ \A i \in DOMAIN Tail(q) : Up(q)[i] \in DOMAIN q /\ Tail(q)[i] = q[Up(q)[i]]
      /\ \A k \in DOMAIN q : k # 1 =>
            Down(q)[k] \in DOMAIN Tail(q) /\ q[k] = Tail(q)[Down(q)[k]] /\ Up(q)[Down(q)[k]] = k
      /\ \A i, j \in DOMAIN Tail(q) : i < j <=> Up(q)[i] < Up(q)[j]
      /\ \A i \in DOMAIN Tail(q) : 1 < Up(q)[i]
  BY IndexedTail, Shifted
<1>2. ASSUME NEW i \in DOMAIN Tail(q), Starts(Tail(q)[i], p)
      PROVE  \E j \in DOMAIN Tail(q) : i < j /\ IsStop(Tail(q)[j])
  <2>1. PICK k \in DOMAIN q : Up(q)[i] < k /\ IsStop(q[k])
    BY <1>1, <1>2 DEF Clean
  <2>2. k # 1
    BY <1>1, <2>1
  <2> QED
    BY <1>1, <2>1, <2>2
<1>3. ASSUME v = p PROVE \E j \in DOMAIN Tail(q) : IsStop(Tail(q)[j])
  <2>1. PICK k \in DOMAIN q : IsStop(q[k])
    BY <1>1, <1>3 DEF Clean
  <2>2. k # 1
    BY <1>1, <1>3, <2>1
  <2> QED
    BY <1>1, <2>1, <2>2
<1> QED
  BY <1>2, <1>3 DEF Clean

\* A request that is not p's, put behind the others; after a stop it is clean anyhow.
LEMMA CleanStarted ==
    ASSUME TypeOK, NEW r \in Request, StartService(r), UNCHANGED wished, NEW p \in Profile,
           (Clean(queue, wished, p) /\ r # p) \/ r = "stop"
    PROVE  Clean(queue', wished', p)
<1>1. queue \in Seq(Message)
  BY DEF TypeOK
<1>2. CASE bound # None /\ queue' = Append(queue, Args(bound, r))
  <2>1. /\ bound \in Service /\ Args(bound, r) \in Message
        /\ Args(bound, r).what = "args" /\ Args(bound, r).request = r
    BY <1>2, MessageFacts DEF TypeOK
  <2>2. (Clean(queue, wished, p) /\ ~Starts(Args(bound, r), p)) \/ IsStop(Args(bound, r))
    BY <2>1 DEF Starts, IsStop
  <2> QED
    BY <1>1, <1>2, <2>1, <2>2, CleanPut
<1>3. ASSUME NEW s \in Unused, queue' = queue \o <<Lifecycle("create", s), Args(s, r)>>
      PROVE  Clean(queue', wished', p)
  <2> DEFINE c == Lifecycle("create", s)
             m == Args(s, r)
  <2>1. /\ c \in Message /\ c.what = "create"
        /\ m \in Message /\ m.what = "args" /\ m.request = r
    BY MessageFacts DEF Unused
  <2> HIDE DEF c, m
  <2>2. Append(queue, c) \in Seq(Message)
    BY <1>1, <2>1, AppendProperties
  <2>3. queue' = Append(Append(queue, c), m)
    <3>1. <<c>> \in Seq(Message) /\ <<m>> \in Seq(Message) /\ <<c>> \o <<m>> = <<c, m>>
      <4>1. <<c>> \in Seq(Message) /\ <<m>> \in Seq(Message)
        BY <2>1
      <4>2. /\ <<c, m>> \in Seq(Message) /\ Len(<<c, m>>) = 2
            /\ <<c, m>>[1] = c /\ <<c, m>>[2] = m
        BY <2>1
      <4>3. /\ <<c>> \o <<m>> \in Seq(Message) /\ Len(<<c>> \o <<m>>) = 2
            /\ (<<c>> \o <<m>>)[1] = c /\ (<<c>> \o <<m>>)[2] = m
        <5>1. Len(<<c>>) = 1 /\ Len(<<m>>) = 1 /\ <<c>>[1] = c /\ <<m>>[1] = m
          OBVIOUS
        <5>2. Len(<<c>>) + Len(<<m>>) = 2 /\ 1 \in 1 .. 2 /\ 2 \in 1 .. 2 /\ 2 - 1 = 1
          BY <5>1
        <5> QED
          BY <4>1, <5>1, <5>2, ConcatProperties
      <4>4. \A i \in 1 .. 2 : (<<c>> \o <<m>>)[i] = <<c, m>>[i]
        <5>1. \A i \in 1 .. 2 : i = 1 \/ i = 2
          OBVIOUS
        <5> QED
          BY <4>2, <4>3, <5>1
      <4>5. <<c>> \o <<m>> = <<c, m>>
        BY <4>2, <4>3, <4>4, SeqEqual
      <4> QED
        BY <4>1, <4>5
    <3>2. Append(Append(queue, c), m) = (queue \o <<c>>) \o <<m>>
      BY <1>1, <2>1, <2>2, AppendIsConcat
    <3>3. (queue \o <<c>>) \o <<m>> = queue \o (<<c>> \o <<m>>)
      BY <1>1, <3>1, ConcatAssociative
    <3>4. queue' = queue \o <<c, m>>
      BY <1>3 DEF c, m
    <3> QED
      BY <3>1, <3>2, <3>3, <3>4
  <2>4. Clean(queue, wished, p) => Clean(Append(queue, c), wished, p)
    BY <1>1, <2>1, CleanPut DEF Starts
  <2>5. (Clean(Append(queue, c), wished, p) /\ ~Starts(m, p)) \/ IsStop(m)
    BY <2>1, <2>4 DEF Starts, IsStop
  <2>6. Clean(Append(Append(queue, c), m), wished, p)
    BY <2>1, <2>2, <2>5, CleanPut
  <2> QED
    BY <2>3, <2>6
<1> QED
  BY <1>2, <1>3 DEF StartService

LEMMA CleanStopped ==
    ASSUME TypeOK, NEW s \in Service, StopSelf(s), UNCHANGED wished, NEW p \in Profile,
           Clean(queue, wished, p)
    PROVE  Clean(queue', wished', p)
<1>1. CASE queue' = Append(queue, Lifecycle("destroy", s))
  <2>1. Lifecycle("destroy", s) \in Message /\ ~Starts(Lifecycle("destroy", s), p)
    BY MessageFacts DEF Starts
  <2> QED
    BY <1>1, <2>1, CleanPut DEF TypeOK
<1>2. CASE UNCHANGED queue
  BY <1>2
<1> QED
  BY <1>1, <1>2 DEF StopSelf

\* The service by itself brings back nothing that a stop is behind.
LEMMA CleanMachine ==
    ASSUME IInv, Machine \/ Undrained, NEW p \in Profile, Clean(queue, wished, p)
    PROVE  Clean(queue', wished', p)
<1> USE DEF record, android, box, orphans, worker, history
<1>1. TypeOK /\ queue \in Seq(Message)
  BY DEF IInv, TypeOK
<1>2. ASSUME queue # <<>>, queue' = Tail(queue), UNCHANGED wished,
             Head(queue).what # "args" \/ Head(queue).request # "stop"
      PROVE  Clean(queue', wished', p)
  BY <1>1, <1>2, CleanTook DEF IsStop
<1>3. CASE OnStop
  <2>1. queue # <<>> /\ queue' = Tail(queue) /\ wished' = None /\ p # None
    BY <1>3, ConstantsAssumption DEF OnStop, Takes
  <2> QED
    BY <1>1, <2>1, CleanTook
<1>4. CASE OnStart
  <2>1. /\ queue # <<>> /\ queue' = Tail(queue)
        /\ Head(queue).what = "args" /\ Head(queue).request # "stop"
        /\ wished' = wished \/ wished' = Head(queue).request
    BY <1>4 DEF OnStart, Takes
  <2> QED
    BY <1>1, <2>1, CleanTook DEF IsStop, Starts
<1>5. CASE OnCreate \/ OnDestroy \/ OnDestroyCorrects \/ OnStartIgnored
  BY <1>2, <1>5 DEF OnCreate, OnDestroy, OnDestroyCorrects, TearsDown, OnStartIgnored, Takes
<1>6. CASE OnStopSelf
  <2>1. queue # <<>> /\ Head(queue).what = "stopSelf" /\ UNCHANGED wished
    BY <1>6 DEF OnStopSelf, Takes
  <2>2. CASE queue' = Tail(queue)
    BY <1>2, <2>1, <2>2
  <2>3. CASE bound \in Service /\ queue' = Append(Tail(queue), Lifecycle("destroy", bound))
    <3>1. Tail(queue) \in Seq(Message) /\ Clean(Tail(queue), wished, p)
      BY <1>1, <2>1, CleanTook, IndexedTail DEF IsStop
    <3>2. Lifecycle("destroy", bound) \in Message /\ ~Starts(Lifecycle("destroy", bound), p)
      BY <2>3, MessageFacts DEF Starts
    <3> QED
      BY <2>1, <2>3, <3>1, <3>2, CleanPut
  <2>4. Head(queue).service \in Service
    BY <1>1, <2>1, IndexedTail, MessageFacts
  <2> QED
    BY <1>6, <2>2, <2>3, <2>4 DEF OnStopSelf
<1>7. CASE Republish \/ OnDestroyFinds \/ Drained \/ Undrained
  BY <1>7 DEF Republish, OnDestroyFinds, Drained, Undrained
<1>8. ASSUME NEW s \in Service, OnRevoke(s) PROVE Clean(queue', wished', p)
  BY <1>1, <1>8, CleanStopped DEF OnRevoke
<1>9. ASSUME NEW s \in Service, Worker(s) PROVE Clean(queue', wished', p)
  <2>1. UNCHANGED wished /\ (UNCHANGED queue \/ ShutdownReports(s))
    BY <1>9, Moves
  <2>2. CASE ShutdownReports(s)
    <3>1. queue' = Append(queue, Lifecycle("stopSelf", s))
      BY <2>2 DEF ShutdownReports, StopSelfPosted
    <3>2. Lifecycle("stopSelf", s) \in Message /\ ~Starts(Lifecycle("stopSelf", s), p)
      BY MessageFacts DEF Starts
    <3> QED
      BY <1>1, <2>1, <3>1, <3>2, CleanPut
  <2> QED
    BY <2>1, <2>2
<1> QED
  BY <1>3, <1>4, <1>5, <1>6, <1>7, <1>8, <1>9 DEF Machine, Main, Binder

LEMMA CleanOutside ==
    ASSUME IInv, AlwaysOn \/ NotificationStop \/ Reclaim \/ Revoke,
           NEW p \in Profile, Clean(queue, wished, p)
    PROVE  Clean(queue', wished', p)
<1> USE DEF history
<1>1. TypeOK /\ {"stop", "system"} \subseteq Request /\ p # "system"
  BY ConstantsAssumption DEF IInv, Request
<1>2. CASE AlwaysOn \/ NotificationStop
  BY <1>1, <1>2, CleanStarted DEF AlwaysOn, NotificationStop
<1>3. CASE Reclaim
  <2>1. bound \in Service
    BY <1>1, <1>3 DEF Reclaim, TypeOK
  <2> QED
    BY <1>1, <1>3, <2>1, CleanStopped DEF Reclaim
<1>4. CASE Revoke
  BY <1>4 DEF Revoke
<1> QED
  BY <1>2, <1>3, <1>4

\* At rest and as long as onDestroy waited, what is saved was wished last, and a
\* profile that was stopped is not.
LEMMA CleanAtRest ==
    ASSUME JInv, Finished, NEW p \in Profile, Clean(queue, wished, p)
    PROVE  wished # p /\ saved = wished
<1>1. DOMAIN <<>> = {}
  OBVIOUS
<1>2. /\ "undrained" \notin mishaps /\ DOMAIN queue = {}
      /\ \A s \in Service : Silent(jobs[s])
  BY <1>1 DEF Finished, Quiet, Silent
<1> QED
  BY <1>2 DEF JInv, Wishes, Clean

LEMMA CallsMade ==
    ASSUME ControllerTypeOK, Calling, NEW c \in Caller, phase[c] # "calling", Sends(c)
    PROVE  Calling'
<1>1. /\ Len(calls) \in Nat /\ DOMAIN calls = 1 .. Len(calls) /\ DOMAIN calls' = 1 .. Len(calls) + 1
      /\ \A i \in DOMAIN calls : calls'[i] = calls[i]
      /\ calls'[Len(calls) + 1] = c
      /\ \A i \in DOMAIN calls : calls[i] \in Caller
  BY IndexedAppend, Indexed DEF Sends, ControllerTypeOK
<1>2. \A i \in DOMAIN calls' : i \in DOMAIN calls \/ i = Len(calls) + 1
  BY <1>1
<1>3. \A i \in DOMAIN calls : calls[i] # c
  BY DEF Calling
<1>4. phase' = [phase EXCEPT ![c] = "calling"] /\ phase \in [Caller -> {"idle", "asking", "calling", "waiting"}]
  BY DEF Sends, ControllerTypeOK
<1>5. \A i \in DOMAIN calls' : phase'[calls'[i]] = "calling"
  BY <1>1, <1>2, <1>3, <1>4 DEF Calling
<1>6. \A i, j \in DOMAIN calls' : calls'[i] = calls'[j] => i = j
  BY <1>1, <1>2, <1>3 DEF Calling
<1> QED
  BY <1>5, <1>6 DEF Calling

\* c does something else than to call.
LEMMA CallsKept ==
    ASSUME ControllerTypeOK, Calling, NEW c \in Caller, phase[c] # "calling", UNCHANGED calls,
           \A d \in Caller : d # c => phase'[d] = phase[d]
    PROVE  Calling'
<1>1. \A i \in DOMAIN calls : calls[i] \in Caller
  BY Indexed DEF ControllerTypeOK
<1> QED
  BY <1>1 DEF Calling

LEMMA CallsAnswered ==
    ASSUME ControllerTypeOK, Calling, Answer
    PROVE  /\ Calling'
           /\ phase[Head(calls)] = "calling"
<1> DEFINE c == Head(calls)
<1>1. calls \in Seq(Caller) /\ calls # <<>> /\ calls' = Tail(calls) /\ c \in Caller
  BY Answered DEF ControllerTypeOK, Answer
<1>2. /\ c = calls[1] /\ 1 \in DOMAIN calls
      /\ \A i \in DOMAIN Tail(calls) :
            /\ Up(calls)[i] \in DOMAIN calls /\ Up(calls)[i] # 1
            /\ Tail(calls)[i] = calls[Up(calls)[i]] /\ Down(calls)[Up(calls)[i]] = i
      /\ \A i \in DOMAIN calls : calls[i] \in Caller
  BY <1>1, IndexedTail, Shifted, Indexed
<1>3. \A d \in Caller : d # c => phase'[d] = phase[d]
  BY <1>1 DEF Answer, Leaves, ControllerTypeOK
<1> HIDE DEF c
<1>4. \A i \in DOMAIN Tail(calls) : Tail(calls)[i] # c /\ Tail(calls)[i] \in Caller
  BY <1>2 DEF Calling
<1>5. \A i \in DOMAIN calls' : phase'[calls'[i]] = "calling"
  BY <1>1, <1>2, <1>3, <1>4 DEF Calling
<1>6. \A i, j \in DOMAIN calls' : calls'[i] = calls'[j] => i = j
  BY <1>1, <1>2 DEF Calling
<1>7. phase[c] = "calling"
  BY <1>2 DEF Calling
<1> QED
  BY <1>5, <1>6, <1>7 DEF Calling, c

\* One caller's phase changes: it was busy before, or nobody was.
LEMMA Alternates ==
    ASSUME ControllerTypeOK, Alternating, NEW c \in Caller,
           \A d \in Caller : d # c => phase'[d] = phase[d],
           Busy(c)' => Busy(c) \/ \A d \in Caller : ~Busy(d)
    PROVE  Alternating'
BY DEF Alternating, Busy

\* The screens do not touch the service; a connect takes its profile out of those that
\* were stopped, and once one is forgotten nothing new is asked for.
LEMMA ScreenForgets ==
    ASSUME AppInv, FInv, NEW p \in Profile, Screen(p)
    PROVE  FInv'
<1> USE DEF app, channel, memory
<1>1. /\ Calling /\ Alternating /\ Parting /\ ControllerTypeOK /\ None \notin Profile
      /\ {<<p, "connect">>, <<p, "disconnect">>, <<p, "forget">>} \subseteq Caller
      /\ phase \in [Caller -> {"idle", "asking", "calling", "waiting"}]
      /\ stopped \subseteq Profile
  BY ConstantsAssumption, CallerFacts DEF FInv, AppInv, ControllerTypeOK
<1>2. UNCHANGED <<queue, wished>> /\ stopped' \subseteq stopped
  BY DEF Screen, Connect, Disconnect, Forget, Permit, Deny, vars, android, history
<1>3. \A q \in stopped' : Clean(queue', wished', q)
  BY <1>2 DEF FInv
<1>4. Calm => \A c \in Caller : ~Busy(c)
  BY DEF Calm, Busy
<1>0. \A q \in Profile : <<q, "connect">> \in Caller /\ <<q, "forget">> \in Caller
  BY CallerFacts
<1>5. ASSUME NEW c \in Caller, Calm, Sends(c), UNCHANGED <<forgotten, stopped>>,
             phase[c] = "idle", \A q \in Profile : c # <<q, "connect">>
      PROVE  FInv'
  <2>1. Calling'
    BY <1>1, <1>5, CallsMade
  <2>2. phase' = [phase EXCEPT ![c] = "calling"] /\ \A d \in Caller : d # c => phase'[d] = phase[d]
    BY <1>1, <1>5 DEF Sends
  <2>3. Alternating'
    BY <1>1, <1>4, <1>5, <2>2, Alternates
  <2>4. \A q \in stopped : phase'[<<q, "connect">>] = phase[<<q, "connect">>]
    BY <1>1, <1>5, <2>2, <1>0
  <2>5. forgotten = None
    BY <1>5 DEF Calm
  <2>6. \A q \in stopped : phase[<<q, "forget">>] = "waiting" /\ <<q, "forget">> \in Caller
    BY <1>1, <2>5, <1>0 DEF Parting
  <2>7. \A q \in stopped : phase'[<<q, "forget">>] = "waiting"
    <3> TAKE q \in stopped
    <3>1. phase[<<q, "forget">>] = "waiting" /\ <<q, "forget">> \in Caller
      BY <2>6
    <3>2. <<q, "forget">> # c
      BY <1>5, <3>1
    <3> QED
      BY <2>2, <3>1, <3>2
  <2>8. Parting'
    <3> SUFFICES ASSUME NEW q \in stopped
                 PROVE  /\ phase'[<<q, "connect">>] \notin {"asking", "calling"}
                        /\ phase'[<<q, "forget">>] = "waiting"
      BY <1>5 DEF Parting, Busy
    <3> QED
      BY <1>1, <2>4, <2>7 DEF Parting, Busy
  <2> QED
    BY <1>3, <2>1, <2>3, <2>8 DEF FInv
<1>6. CASE Connect(p)
  <2> PICK c \in Caller : c = <<p, "connect">>
    BY <1>0
  <2>1. /\ phase' = [phase EXCEPT ![c] = "asking"] /\ stopped' = stopped \ {p}
        /\ UNCHANGED <<calls, forgotten>> /\ Calm /\ phase[c] = "idle" /\ c \in Caller
    BY <1>1, <1>6 DEF Connect
  <2>2. \A q \in Profile : q # p => <<q, "connect">> # c
    OBVIOUS
  <2>3. \A q \in Profile : <<q, "forget">> # c
    OBVIOUS
  <2>4. \A d \in Caller : d # c => phase'[d] = phase[d]
    BY <1>1, <2>1
  <2>5. Calling' /\ Alternating'
    BY <1>1, <1>4, <2>1, <2>4, CallsKept, Alternates
  <2>6. Parting'
    <3> SUFFICES ASSUME NEW q \in stopped \ {p}
                 PROVE  /\ phase'[<<q, "connect">>] \notin {"asking", "calling"}
                        /\ forgotten # None \/ phase'[<<q, "forget">>] = "waiting"
      BY <2>1 DEF Parting, Busy
    <3>1. q \in Profile /\ q \in stopped /\ q # p
      BY <1>1
    <3>2. /\ phase'[<<q, "connect">>] = phase[<<q, "connect">>]
          /\ phase'[<<q, "forget">>] = phase[<<q, "forget">>]
      BY <1>0, <2>2, <2>3, <2>4, <3>1
    <3> QED
      BY <1>1, <3>1, <3>2 DEF Parting, Busy
  <2> QED
    BY <1>3, <2>5, <2>6 DEF FInv
<1>7. CASE Permit(p) \/ Deny(p)
  <2> PICK c \in Caller : c = <<p, "connect">>
    BY <1>0
  <2>1. /\ UNCHANGED <<forgotten, stopped>> /\ Busy(c) /\ phase[c] # "calling" /\ c \in Caller
        /\ Sends(c) \/ (Leaves(c) /\ UNCHANGED calls)
    BY <1>1, <1>7 DEF Permit, Deny, Busy
  <2>2. p \notin stopped
    BY <1>1, <2>1 DEF Parting
  <2>3. \A q \in Profile : q # p => <<q, "connect">> # c
    OBVIOUS
  <2>4. \A q \in Profile : <<q, "forget">> # c
    OBVIOUS
  <2>5. \A d \in Caller : d # c => phase'[d] = phase[d]
    BY <1>1, <2>1 DEF Sends, Leaves
  <2>6. Calling'
    BY <1>1, <2>1, <2>5, CallsMade, CallsKept
  <2>7. Alternating'
    BY <1>1, <2>1, <2>5, Alternates
  <2>8. Parting'
    <3> SUFFICES ASSUME NEW q \in stopped
                 PROVE  /\ phase'[<<q, "connect">>] \notin {"asking", "calling"}
                        /\ forgotten # None \/ phase'[<<q, "forget">>] = "waiting"
      BY <2>1 DEF Parting, Busy
    <3>1. q \in Profile /\ q # p
      BY <1>1, <2>2
    <3>2. /\ phase'[<<q, "connect">>] = phase[<<q, "connect">>]
          /\ phase'[<<q, "forget">>] = phase[<<q, "forget">>]
      BY <1>0, <2>3, <2>4, <2>5, <3>1
    <3> QED
      BY <1>1, <3>1, <3>2 DEF Parting, Busy
  <2> QED
    BY <1>3, <2>6, <2>7, <2>8 DEF FInv
<1>8. CASE Disconnect(p)
  <2>1. \A q \in Profile : <<p, "disconnect">> # <<q, "connect">>
    OBVIOUS
  <2> QED
    BY <1>1, <1>5, <1>8, <2>1 DEF Disconnect
<1>9. CASE Forget(p)
  <2>1. \A q \in Profile : <<p, "forget">> # <<q, "connect">>
    OBVIOUS
  <2>2. CASE Sends(<<p, "forget">>) /\ UNCHANGED forgotten
    BY <1>1, <1>5, <1>9, <2>1, <2>2 DEF Forget
  <2>3. CASE forgotten' = p /\ UNCHANGED <<phase, calls>>
    <3>1. UNCHANGED stopped /\ forgotten' # None
      BY <1>1, <1>9, <2>3 DEF Forget
    <3> QED
      BY <1>1, <1>3, <2>3, <3>1 DEF FInv, Calling, Alternating, Busy, Parting
  <2> QED
    BY <1>9, <2>2, <2>3 DEF Forget
<1> QED
  BY <1>6, <1>7, <1>8, <1>9 DEF Screen

\* A call that returns leaves its profile forgotten, or takes it out of those that
\* were stopped, if it is forgetProfile.
LEMMA ReturnForgets ==
    ASSUME AppInv, FInv, NEW c \in Caller, Settled(c) \/ TimeOut(c)
    PROVE  FInv'
<1> USE DEF app, channel, memory
<1>1. /\ Calling /\ Alternating /\ Parting /\ ControllerTypeOK /\ None \notin Profile
      /\ phase \in [Caller -> {"idle", "asking", "calling", "waiting"}]
      /\ stopped \subseteq Profile /\ c[1] \in Profile
  BY ConstantsAssumption, CallerFacts DEF FInv, AppInv, ControllerTypeOK
<1>2. UNCHANGED <<queue, wished, calls>> /\ stopped' \subseteq stopped
  BY DEF Settled, TimeOut, vars, android, history
<1>3. phase[c] = "waiting" /\ phase' = [phase EXCEPT ![c] = "idle"]
  BY DEF Settled, TimeOut, Leaves
<1>4. \A d \in Caller : d # c => phase'[d] = phase[d]
  BY <1>1, <1>3
<1>5. ~Busy(c)'
  BY <1>1, <1>3 DEF Busy
<1>6. Calling' /\ Alternating'
  BY <1>1, <1>2, <1>3, <1>4, <1>5, CallsKept, Alternates
<1>7. /\ forgotten # None => forgotten' # None
      /\ c[2] = "forget" => forgotten' # None \/ stopped' = stopped \ {c[1]}
  BY <1>1 DEF Settled, TimeOut
<1>8. ASSUME NEW q \in stopped'
      PROVE  ~Busy(<<q, "connect">>)' /\ (forgotten' # None \/ phase'[<<q, "forget">>] = "waiting")
  <2>1. /\ q \in stopped /\ q \in Profile
        /\ <<q, "connect">> \in Caller /\ <<q, "forget">> \in Caller
    BY <1>1, <1>2, CallerFacts
  <2>2. ~Busy(<<q, "connect">>)'
    BY <1>1, <1>4, <1>5, <2>1 DEF Parting, Busy
  <2>3. c = <<q, "forget">> => c[1] = q /\ c[2] = "forget"
    OBVIOUS
  <2>4. forgotten' # None \/ phase'[<<q, "forget">>] = "waiting"
    BY <1>1, <1>4, <1>7, <2>1, <2>3 DEF Parting
  <2> QED
    BY <2>2, <2>4
<1>9. Parting'
  BY <1>8, Zenon DEF Parting
<1>10. \A q \in stopped' : Clean(queue', wished', q)
  BY <1>2 DEF FInv
<1> QED
  BY <1>6, <1>9, <1>10 DEF FInv

\* The plugin answers: a start is of a profile that is not being forgotten, and a stop
\* goes behind all the starts there are.
LEMMA AnswerForgets ==
    ASSUME AppInv, FInv, Answer
    PROVE  FInv'
<1> PICK c \in Caller : c = Head(calls)
  BY Answered DEF AppInv
<1> PICK p \in Profile : p = c[1]
  BY CallerFacts
<1>1. /\ Calling /\ Alternating /\ Parting /\ ControllerTypeOK /\ TypeOK
      /\ phase \in [Caller -> {"idle", "asking", "calling", "waiting"}]
      /\ stopped \subseteq Profile
  BY DEF FInv, AppInv, JInv, IInv, ControllerTypeOK
<1>2. /\ c \in Caller /\ p \in Profile /\ c = <<p, c[2]>>
      /\ Profile \cup {"stop"} \subseteq Request
  BY <1>1, Answered, CallerFacts DEF Request
<1>3. Calling' /\ phase[c] = "calling" /\ Busy(c)
  BY <1>1, CallsAnswered DEF Busy
<1>4. UNCHANGED forgotten /\ phase' \in {[phase EXCEPT ![c] = "waiting"], [phase EXCEPT ![c] = "idle"]}
  BY DEF Answer, Leaves
<1>5. \/ UNCHANGED stopped
      \/ /\ stopped' = stopped \cup {p} /\ c[2] = "forget"
         /\ phase' = [phase EXCEPT ![c] = "waiting"]
  BY DEF Answer
<1>6. \/ c[2] = "connect" /\ PluginStart(p) /\ UNCHANGED stopped
      \/ PluginStop
      \/ UNCHANGED <<queue, wished, stopped>>
  <2>1. CASE c[2] = "connect"
    BY <2>1 DEF Answer, Refused, android, history
  <2>2. CASE c[2] # "connect"
    BY <2>2 DEF Answer, PluginStopsNothing, Refused, android, history
  <2> QED
    BY <2>1, <2>2
<1>7. \A d \in Caller : d # c => phase'[d] = phase[d] /\ ~Busy(d)
  BY <1>1, <1>2, <1>3, <1>4 DEF Alternating
<1>8. ~Busy(c)' /\ Alternating'
  BY <1>1, <1>2, <1>4, <1>7, Alternates DEF Busy
<1>9. \A d \in Caller : ~Busy(d)'
  BY <1>7, <1>8 DEF Busy
<1>10. Parting'
  <2> SUFFICES ASSUME NEW q \in stopped'
               PROVE  ~Busy(<<q, "connect">>)' /\ (forgotten' # None \/ phase'[<<q, "forget">>] = "waiting")
    BY Zenon DEF Parting
  <2>1. q \in Profile /\ <<q, "connect">> \in Caller /\ <<q, "forget">> \in Caller
    <3>1. stopped' = stopped \/ stopped' = stopped \cup {p}
      BY <1>5
    <3>2. q \in Profile
      BY <1>1, <3>1
    <3> QED
      BY <3>2, CallerFacts
  <2>2. CASE q \in stopped
    <3>1. forgotten # None \/ phase[<<q, "forget">>] = "waiting"
      BY <1>1, <2>2 DEF Parting
    <3> QED
      BY <1>3, <1>4, <1>7, <1>9, <2>1, <3>1
  <2>3. CASE q \notin stopped
    <3>1. q = p /\ c[2] = "forget" /\ phase' = [phase EXCEPT ![c] = "waiting"]
      BY <1>5, <2>3
    <3> QED
      BY <1>1, <1>2, <1>9, <2>1, <3>1
  <2> QED
    BY <2>2, <2>3
<1>11. \A q \in stopped' : Clean(queue', wished', q)
  <2> TAKE q \in stopped'
  <2>1. q \in Profile /\ (q \in stopped \/ PluginStop)
    <3>1. CASE UNCHANGED stopped
      BY <1>1, <3>1
    <3>2. CASE PluginStop
      BY <1>1, <1>2, <1>5, <3>2
    <3> QED
      BY <1>6, <3>1, <3>2
  <2>2. CASE PluginStop
    <3>1. StartService("stop") /\ UNCHANGED wished /\ "stop" \in Request
      BY <1>2, <2>2 DEF PluginStop, history
    <3> QED
      BY <1>1, <2>1, <3>1, CleanStarted
  <2>3. CASE c[2] = "connect" /\ PluginStart(p) /\ UNCHANGED stopped
    <3>1. Busy(<<p, "connect">>)
      BY <1>2, <1>3, <2>3
    <3>2. q # p /\ Clean(queue, wished, q)
      BY <1>1, <2>3, <3>1 DEF Parting, FInv
    <3>3. StartService(p) /\ UNCHANGED wished /\ p \in Request
      BY <1>2, <2>3 DEF PluginStart, history
    <3> QED
      BY <1>1, <2>1, <3>2, <3>3, CleanStarted
  <2>4. CASE UNCHANGED <<queue, wished, stopped>>
    BY <2>4 DEF FInv
  <2> QED
    BY <1>6, <2>2, <2>3, <2>4
<1> QED
  BY <1>3, <1>8, <1>10, <1>11 DEF FInv

LEMMA FInvNext == AppInv /\ FInv /\ [ControllerNext]_every => FInv'
<1> SUFFICES ASSUME AppInv, FInv, [ControllerNext]_every PROVE FInv'
  OBVIOUS
<1> USE DEF app, channel, memory
<1>1. /\ Calling /\ Alternating /\ Parting /\ ControllerTypeOK /\ IInv /\ JInv
      /\ stopped \subseteq Profile
  BY DEF FInv, AppInv, JInv, ControllerTypeOK
<1>2. CASE Reopen
  <2>1. /\ UNCHANGED <<calls, stopped, queue, wished>> /\ forgotten = None
        /\ \A c \in Caller : phase[c] = "idle" /\ phase'[c] = "idle"
    BY <1>2 DEF Reopen, Calm, Idle, Restarts, Fresh, vars, android, history
  <2>2. stopped = {} /\ \A i \in DOMAIN calls : calls[i] \in Caller
    BY <1>1, <2>1, Indexed, CallerFacts DEF Parting, ControllerTypeOK
  <2>3. DOMAIN calls = {}
    BY <1>1, <2>1, <2>2 DEF Calling
  <2> QED
    BY <2>1, <2>2, <2>3 DEF FInv, Calling, Alternating, Busy, Parting
<1>3. CASE Killed
  <2>1. /\ calls' = <<>> /\ queue' = <<>> /\ wished' = saved
        /\ UNCHANGED forgotten
        /\ stopped' = IF Finished THEN stopped \cap {forgotten} ELSE {}
        /\ \A c \in Caller : phase'[c] = "idle"
    BY <1>3 DEF Killed, ProcessDies, Restarts, Fresh
  <2>2. DOMAIN <<>> = {}
    OBVIOUS
  <2>3. ASSUME NEW q \in stopped'
        PROVE  q \in Profile /\ forgotten # None /\ Clean(queue', wished', q)
    <3>1. q \in stopped /\ q \in Profile /\ Finished /\ q = forgotten
      BY <1>1, <2>1, <2>3
    <3>2. saved # q
      BY <1>1, <3>1, CleanAtRest DEF FInv
    <3> QED
      BY <2>1, <2>2, <3>1, <3>2, ConstantsAssumption DEF Clean
  <2>4. Calling' /\ Alternating' /\ Parting'
    BY <2>1, <2>2, <2>3, CallerFacts DEF Calling, Alternating, Busy, Parting
  <2> QED
    BY <2>3, <2>4 DEF FInv
<1>4. ASSUME UNCHANGED <<phase, calls, forgotten, stopped>>,
             \A q \in stopped : Clean(queue, wished, q) => Clean(queue', wished', q)
      PROVE  FInv'
  BY <1>1, <1>4 DEF FInv, Calling, Alternating, Busy, Parting
<1>5. CASE Post \/ Deliver \/ UNCHANGED every
  BY <1>4, <1>5 DEF Post, Deliver, every, vars, android, history
<1>6. CASE ServiceStep
  <2>1. Machine \/ Undrained
    <3>1. CASE MainStep
      BY <3>1 DEF MainStep, Main, Machine
    <3>2. ASSUME NEW s \in Service, BinderStep(s) \/ WorkerStep(s) PROVE Machine
      BY <3>2 DEF BinderStep, Binder, WorkerStep, Worker, Machine
    <3> QED
      BY <1>6, <3>1, <3>2 DEF ServiceStep
  <2> QED
    BY <1>1, <1>4, <1>6, <2>1, CleanMachine DEF ServiceStep
<1>7. CASE Outside
  BY <1>1, <1>4, <1>7, CleanOutside DEF Outside
<1> QED
  BY <1>2, <1>3, <1>5, <1>6, <1>7, ScreenForgets, ReturnForgets, AnswerForgets DEF ControllerNext

\* Once the stop that forgetProfile asked for has gone to the service and been carried
\* out, start-request.json is not the profile's, and no traffic goes to it: no start of
\* it can be behind that stop (singbox_tunnel.dart:226-238), unless a connect of it was
\* called since.  A command server that a start built over holds no TUN, unless there
\* was one.
THEOREM ForgetsTheStopped == ControllerSpec => []StopForgets
<1>1. AppInv /\ FInv => StopForgets
  <2> SUFFICES ASSUME AppInv, FInv, AtRest, forgotten \in stopped, "undrained" \notin mishaps
               PROVE  /\ saved # forgotten
                      /\ routed # None => engine[routed] # forgotten
                      /\ "reopened" \notin mishaps => leaked = None
    BY DEF StopForgets
  <2>1. /\ JInv /\ Quiet /\ Finished /\ forgotten \in Profile
        /\ Clean(queue, wished, forgotten)
    BY DEF AppInv, FInv, AtRest, Finished, ControllerTypeOK
  <2>2. wished # forgotten /\ saved = wished
    BY <2>1, CleanAtRest
  <2>3. "reopened" \notin mishaps => leaked = None
    BY <2>1 DEF JInv, Orphaned
  <2> QED
    BY <2>1, <2>2, <2>3, RunsTheWished
<1>2. ControllerSpec => []FInv
  BY FInvInit, FInvNext, AppInvariance, PTL DEF ControllerSpec
<1> QED
  BY <1>1, <1>2, AppInvariance, PTL
=============================================================================
