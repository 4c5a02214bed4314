-------------------------- MODULE ConsoleViewProofs --------------------------
(* Machine-checked theorems about ConsoleView, for any jobs, any number of *)
(* connections and any number of messages under way.                       *)
EXTENDS ConsoleView, SequenceTheorems, TLAPS

(* A callback is only in the set of a job its connection has listened to;  *)
(* that is why going through _ws_job_listeners finds them all.             *)
Listened ==
    \A j \in Job, k \in Conn : callbacks[j][k] > 0 => j \in listeners[k]

IInv == TypeOK /\ Listened /\ EndedHearsNothing

------------------------------------------------------------------------------
LEMMA SendType ==
  ASSUME TypeOK, visits \in Conn, NEW msgs \in Seq(Request), Send(msgs)
  PROVE  requests' \in [Conn -> Seq(Request)]
<1>1. requests[visits] \o msgs \in Seq(Request)
  BY ConcatProperties DEF TypeOK
<1> QED
  BY <1>1 DEF TypeOK, Send

LEMMA ConnectJobType == ASSUME NEW j \in Place PROVE ConnectJob(j) \in Seq(Request)
  BY DEF ConnectJob, Place, Request

LEMMA DisconnectJobType == TypeOK => DisconnectJob \in Seq(Request)
<1> SUFFICES ASSUME TypeOK PROVE DisconnectJob \in Seq(Request)
  OBVIOUS
<1>1. CASE view = NoJob
  BY <1>1 DEF DisconnectJob
<1>2. CASE view # NoJob
  <2>1. <<"disconnectJob", view>> \in Request
    BY <1>2 DEF TypeOK, Place, Request
  <2>2. DisconnectJob = <<<<"disconnectJob", view>>>>
    BY <1>2 DEF DisconnectJob
  <2> QED
    BY <2>1, <2>2
<1> QED
  BY <1>1, <1>2

LEMMA OnlineConn == TypeOK /\ online => visits \in Conn
  BY ConsoleAssumption DEF TypeOK, Conn

LEMMA AnswerType ==
  ASSUME TypeOK, NEW k \in Conn, NEW reply \in Reply, Answer(k, reply)
  PROVE  replies' \in [Conn -> Seq(Reply)]
<1>1. Append(replies[k], reply) \in Seq(Reply)
  BY AppendProperties DEF TypeOK
<1> QED
  BY <1>1 DEF TypeOK, Answer

LEMMA DroppedType ==
  ASSUME TypeOK, NEW k \in Conn
  PROVE  Dropped(k) \in [Job -> [Conn -> Nat]]
  BY DEF TypeOK, Dropped

LEMMA DroppedHearsNothing ==
  ASSUME TypeOK, Listened, NEW k \in Conn, NEW j \in Job, NEW c \in Conn
  PROVE  Dropped(k)[j][c] = IF c = k THEN 0 ELSE callbacks[j][c]
  BY DEF TypeOK, Listened, Dropped

------------------------------------------------------------------------------
LEMMA IInvInit == Init => IInv
<1> SUFFICES ASSUME Init PROVE IInv
  OBVIOUS
<1>1. TypeOK
  <2>1. 0 \in 0..MaxVisits
    BY ConsoleAssumption
  <2>2. requests \in [Conn -> Seq(Request)] /\ replies \in [Conn -> Seq(Reply)]
    BY DEF Init
  <2>3. view \in Place
    BY DEF Init, Place
  <2> QED
    BY <2>1, <2>2, <2>3 DEF Init, TypeOK
<1> QED
  BY <1>1 DEF Init, IInv, Listened, EndedHearsNothing, Listening

(* The steps of the page change no callback and no listener.               *)
LEMMA PageStep ==
  ASSUME IInv, PageNext \/ \E j \in Job : Follow(j)
  PROVE  IInv'
<1> USE DEF IInv
<1>1. CASE Connect
  <2>1. visits + 1 \in Conn
    BY <1>1, ConsoleAssumption DEF Connect, TypeOK, Conn
  <2>2. ConnectJob(hash) \in Seq(Request)
    BY ConnectJobType DEF TypeOK
  <2>3. TypeOK'
    BY <1>1, <2>1, <2>2, ConsoleAssumption DEF Connect, TypeOK, Conn
  <2> QED
    BY <1>1, <2>1, <2>3 DEF Connect, TypeOK, Listened, EndedHearsNothing, Listening
<1>2. ASSUME NEW j \in Job, Follow(j) PROVE IInv'
  <2>1. requests' \in [Conn -> Seq(Request)]
    BY <1>2, SendType, ConnectJobType, OnlineConn DEF Follow, TypeOK, Place
  <2>2. TypeOK'
    BY <1>2, <2>1 DEF Follow, TypeOK, Place, server
  <2> QED
    BY <1>2, <2>2 DEF Follow, server, Listened, EndedHearsNothing, Listening
<1>3. CASE ShowTab
  <2>1. requests' \in [Conn -> Seq(Request)]
    BY <1>3, SendType, DisconnectJobType, OnlineConn DEF ShowTab, TypeOK
  <2>2. TypeOK'
    BY <1>3, <2>1 DEF ShowTab, TypeOK, Place, server
  <2> QED
    BY <1>3, <2>2 DEF ShowTab, server, Listened, EndedHearsNothing, Listening
<1>4. CASE Close
  <2>1. visits \in Conn
    BY <1>4, OnlineConn DEF Close
  <2>2. \A n \in 0..Len(requests[visits]) : SubSeq(requests[visits], 1, n) \in Seq(Request)
    BY <2>1, SubSeqProperties DEF TypeOK
  <2>3. requests' \in [Conn -> Seq(Request)] /\ replies' \in [Conn -> Seq(Reply)]
    BY <1>4, <2>1, <2>2 DEF Close, TypeOK
  <2>4. TypeOK'
    BY <1>4, <2>3 DEF Close, TypeOK, server
  <2> QED
    BY <1>4, <2>4 DEF Close, server, Listened, EndedHearsNothing, Listening
<1>5. CASE Receive
  <2>1. visits \in Conn /\ replies[visits] \in Seq(Reply) /\ replies[visits] # <<>>
    BY <1>5, OnlineConn DEF Receive, TypeOK
  <2>2. Head(replies[visits]) \in Reply /\ Tail(replies[visits]) \in Seq(Reply)
    BY <2>1, HeadTailProperties
  <2>3. Head(replies[visits])[2] \in Job
    BY <2>2 DEF Reply
  <2>4. requests' \in [Conn -> Seq(Request)]
    BY <1>5, <2>1, SendType, DisconnectJobType DEF Receive, TypeOK
  <2>5. TypeOK'
    BY <1>5, <2>1, <2>2, <2>3, <2>4 DEF Receive, TypeOK, Place, server
  <2> QED
    BY <1>5, <2>5 DEF Receive, server, Listened, EndedHearsNothing, Listening
<1> QED
  BY <1>1, <1>2, <1>3, <1>4, <1>5 DEF PageNext

(* A job that ends forgets callbacks, at most.                             *)
LEMMA JobStep ==
  ASSUME IInv, NEW j \in Job, End(j) \/ Forget(j)
  PROVE  IInv'
<1> USE DEF IInv
<1>1. CASE End(j)
  <2>1. /\ callbacks' \in [Job -> [Conn -> Nat]]
        /\ \A i \in Job, k \in Conn : callbacks'[i][k] = 0 \/ callbacks'[i][k] = callbacks[i][k]
    <3> DEFINE cleared == [callbacks EXCEPT ![j] = [k \in Conn |-> 0]]
    <3>1. cleared \in [Job -> [Conn -> Nat]]
      BY DEF TypeOK
    <3>2. \A i \in Job, k \in Conn : cleared[i][k] = 0 \/ cleared[i][k] = callbacks[i][k]
      BY DEF TypeOK
    <3>3. callbacks' = callbacks \/ callbacks' = cleared
      BY <1>1 DEF End
    <3> QED
      BY <3>1, <3>2, <3>3 DEF TypeOK
  <2>2. life' \in [Job -> {"runs", "ended", "over"}] /\ UNCHANGED <<listeners, stage>>
    BY <1>1 DEF End, TypeOK
  <2>3. TypeOK'
    BY <1>1, <2>1, <2>2 DEF End, TypeOK, page
  <2>4. \A i \in Job, k \in Conn : callbacks'[i][k] > 0 => callbacks[i][k] > 0
    BY <2>1
  <2>5. Listened'
    BY <2>2, <2>4 DEF Listened
  <2>6. EndedHearsNothing'
    BY <2>2, <2>4 DEF EndedHearsNothing, Listening
  <2> QED
    BY <2>3, <2>5, <2>6
<1>2. CASE Forget(j)
  BY <1>2 DEF Forget, TypeOK, server, page, Listened, EndedHearsNothing, Listening
<1> QED
  BY <1>1, <1>2

LEMMA HandlerStep ==
  ASSUME IInv, NEW k \in Conn, HandlerNext(k)
  PROVE  IInv'
<1> USE DEF IInv
<1>1. CASE Handle(k)
  <2> DEFINE method == Head(requests[k])[1]
             job == Head(requests[k])[2]
  <2>1. Head(requests[k]) \in Request /\ Tail(requests[k]) \in Seq(Request)
    BY <1>1, HeadTailProperties DEF Handle, TypeOK
  <2>2. job \in Job
    BY <2>1 DEF Request
  <2>3. requests' \in [Conn -> Seq(Request)]
    BY <1>1, <2>1 DEF Handle, TypeOK
  <2>4. stage[k] = "open" /\ stage' = stage /\ UNCHANGED <<life, page>>
    BY <1>1 DEF Handle
  <2> HIDE DEF method, job
  <2>5. CASE /\ callbacks' = [callbacks EXCEPT ![job][k] = @ + 1]
             /\ listeners' = [listeners EXCEPT ![k] = @ \union {job}]
             /\ Answer(k, <<"jobConnected", job>>)
    <3>1. replies' \in [Conn -> Seq(Reply)]
      BY <2>2, <2>5, AnswerType DEF Reply
    <3>2. callbacks' \in [Job -> [Conn -> Nat]] /\ listeners' \in [Conn -> SUBSET Job]
      BY <2>2, <2>5 DEF TypeOK
    <3>3. TypeOK'
      BY <2>3, <2>4, <3>1, <3>2 DEF TypeOK, page
    <3>4. \A i \in Job, c \in Conn : i # job \/ c # k => callbacks'[i][c] = callbacks[i][c]
      BY <2>2, <2>5 DEF TypeOK
    <3>5. \A c \in Conn : listeners[c] \subseteq listeners'[c] /\ job \in listeners'[k]
      BY <2>2, <2>5 DEF TypeOK
    <3>6. Listened'
      BY <3>4, <3>5 DEF Listened
    <3>7. EndedHearsNothing'
      BY <2>4, <3>4 DEF EndedHearsNothing, Listening
    <3> QED
      BY <3>3, <3>6, <3>7
  <2>6. CASE UNCHANGED <<callbacks, listeners>> /\ Answer(k, <<"404", job>>)
    <3>1. replies' \in [Conn -> Seq(Reply)]
      BY <2>2, <2>6, AnswerType DEF Reply
    <3> QED
      BY <2>3, <2>4, <2>6, <3>1 DEF TypeOK, page, Listened, EndedHearsNothing, Listening
  <2>7. CASE /\ callbacks' = Dropped(k) /\ UNCHANGED listeners
             /\ Answer(k, <<"jobDisconnected", job>>)
    <3>1. replies' \in [Conn -> Seq(Reply)]
      BY <2>2, <2>7, AnswerType DEF Reply
    <3>2. TypeOK'
      BY <2>3, <2>4, <2>7, <3>1, DroppedType DEF TypeOK, page
    <3>3. \A i \in Job, c \in Conn : callbacks'[i][c] = IF c = k THEN 0 ELSE callbacks[i][c]
      BY <2>7, DroppedHearsNothing
    <3> QED
      BY <2>4, <2>7, <3>2, <3>3 DEF Listened, EndedHearsNothing, Listening
  <2> QED
    BY <1>1, <2>5, <2>6, <2>7 DEF Handle, method, job
<1>2. CASE HandlerEnds(k)
  <2>1. TypeOK'
    BY <1>2, DroppedType DEF HandlerEnds, TypeOK, page
  <2>2. \A i \in Job, c \in Conn : callbacks'[i][c] = IF c = k THEN 0 ELSE callbacks[i][c]
    BY <1>2, DroppedHearsNothing DEF HandlerEnds
  <2>3. stage' = [stage EXCEPT ![k] = "ended"] /\ listeners' = listeners
    BY <1>2 DEF HandlerEnds
  <2>4. Listened'
    BY <2>2, <2>3 DEF Listened
  <2>5. EndedHearsNothing'
    BY <2>2, <2>3 DEF EndedHearsNothing, Listening, TypeOK
  <2> QED
    BY <2>1, <2>4, <2>5
<1>3. CASE HandlerRaises(k)
  <2>1. TypeOK'
    BY <1>3 DEF HandlerRaises, TypeOK
  <2> QED
    BY <1>3, <2>1 DEF HandlerRaises, TypeOK, Listened, EndedHearsNothing, Listening
<1> QED
  BY <1>1, <1>2, <1>3 DEF HandlerNext

LEMMA IInvStep == IInv /\ [Next]_vars => IInv'
<1> SUFFICES ASSUME IInv, [Next]_vars PROVE IInv'
  OBVIOUS
<1>1. CASE UNCHANGED vars
  BY <1>1 DEF vars, IInv, TypeOK, Listened, EndedHearsNothing, Listening
<1> QED
  BY <1>1, PageStep, JobStep, HandlerStep DEF Next, JobNext

(* The variables keep their types.                                         *)
THEOREM TypeCorrect == Spec => []TypeOK
<1>1. IInv => TypeOK
  BY DEF IInv
<1> QED
  BY <1>1, IInvInit, IInvStep, PTL DEF Spec

(* When the handler of a connection has ended, _disconnect_ws_console has  *)
(* found every callback of the connection.                                 *)
THEOREM EndedHearsNothingCorrect == Spec => []EndedHearsNothing
<1>1. IInv => EndedHearsNothing
  BY DEF IInv
<1> QED
  BY <1>1, IInvInit, IInvStep, PTL DEF Spec

------------------------------------------------------------------------------
(* What the page hears and what it shows.                                  *)
(*                                                                         *)
(* A reply that the page has not received yet decides what it will show:   *)
(* jobDisconnected clears the view, and a jobConnected after the last of   *)
(* these sets it (Coming).  When the page receives a jobConnected while it *)
(* has a job connected, it asks to disconnect, and what is heard meanwhile *)
(* is dropped: nothing is claimed while that request is under way.         *)
Cleared(r) == \E i \in DOMAIN r : r[i][1] = "jobDisconnected"
Coming(r) ==
    {i \in DOMAIN r : /\ r[i][1] = "jobConnected"
                      /\ \A m \in DOMAIN r : m > i => r[m][1] # "jobDisconnected"}
ComingFor(r, j) == \E i \in Coming(r) : r[i][2] = j

\* A jobConnected will be received while a job is connected.
Clash(r, v) ==
    \/ \E i, m \in Coming(r) : i # m
    \/ v # NoJob /\ ~Cleared(r) /\ Coming(r) # {}

\* The n callbacks of j on connection k go with the replies r under way and
\* with the view v of the page, set on connection s.
Accounted(n, j, v, s, k, r) ==
    /\ n > 0 <=> (v = j /\ s = k /\ ~Cleared(r)) \/ ComingFor(r, j)
    /\ n > 1 => Clash(r, v)

Disconnecting == \E i \in DOMAIN requests[visits] : requests[visits][i][1] = "disconnectJob"

Agreement ==
    online /\ ~Disconnecting => \A j \in Job : life[j] = "runs" =>
        Accounted(callbacks[j][visits], j, view, since, visits, replies[visits])

(* Nothing has happened on a connection to come.                           *)
Unused ==
    /\ since <= visits
    /\ \A k \in Conn : k > visits =>
          /\ stage[k] = "none" /\ replies[k] = <<>>
          /\ \A j \in Job : callbacks[j][k] = 0

HearInv == Agreement /\ Unused

------------------------------------------------------------------------------
(* How the replies under way change.                                       *)
LEMMA Added ==
  ASSUME NEW r \in Seq(Reply), NEW x \in Reply
  PROVE  /\ DOMAIN Append(r, x) = 1..(Len(r) + 1) /\ DOMAIN r = 1..Len(r) /\ Len(r) \in Nat
         /\ \A i \in DOMAIN r : Append(r, x)[i] = r[i]
         /\ Append(r, x)[Len(r) + 1] = x
  OBVIOUS

LEMMA Taken ==
  ASSUME NEW r \in Seq(Reply), r # <<>>
  PROVE  /\ Head(r) = r[1] /\ 1 \in DOMAIN r
         /\ \A i \in DOMAIN Tail(r) : i \in Nat /\ i + 1 \in DOMAIN r /\ Tail(r)[i] = r[i + 1]
         /\ \A i \in DOMAIN r : i \in Nat /\ (i = 1 \/ i - 1 \in DOMAIN Tail(r))
         /\ \A i \in DOMAIN r : i # 1 => Tail(r)[i - 1] = r[i] /\ (i - 1) + 1 = i
<1>1. DOMAIN r = 1..Len(r) /\ Len(r) \in Nat \ {0}
  OBVIOUS
<1>2. Tail(r) \in Seq(Reply) /\ Len(Tail(r)) = Len(r) - 1
  OBVIOUS
<1>3. DOMAIN Tail(r) = 1..(Len(r) - 1)
  BY <1>1, <1>2
<1>4. \A i \in 1..(Len(r) - 1) : Tail(r)[i] = r[i + 1]
  BY <1>1
<1>5. QED
  BY <1>1, <1>3, <1>4

LEMMA AddedConnected ==
  ASSUME NEW r \in Seq(Reply), NEW j \in Job
  PROVE  LET a == Append(r, <<"jobConnected", j>>)
         IN  /\ Cleared(a) <=> Cleared(r)
             /\ Coming(a) = Coming(r) \union {Len(r) + 1}
             /\ \A i : ComingFor(a, i) <=> (ComingFor(r, i) \/ i = j)
<1> DEFINE x == <<"jobConnected", j>>
           a == Append(r, x)
<1>1. x \in Reply /\ x[1] = "jobConnected" /\ x[2] = j
  BY DEF Reply
<1>2. /\ DOMAIN a = 1..(Len(r) + 1) /\ DOMAIN r = 1..Len(r) /\ Len(r) \in Nat
      /\ \A i \in DOMAIN r : a[i] = r[i]
      /\ a[Len(r) + 1] = x
  BY <1>1, Added
<1> HIDE DEF a, x
<1>3. Cleared(a) <=> Cleared(r)
  BY <1>1, <1>2 DEF Cleared
<1>4. Coming(a) = Coming(r) \union {Len(r) + 1}
  BY <1>1, <1>2 DEF Coming
<1>5. \A i \in Coming(r) : i \in DOMAIN r
  BY DEF Coming
<1>6. \A i : ComingFor(a, i) <=> (ComingFor(r, i) \/ i = j)
  BY <1>1, <1>2, <1>4, <1>5 DEF ComingFor
<1>7. QED
  BY <1>3, <1>4, <1>6 DEF a, x

LEMMA AddedDisconnected ==
  ASSUME NEW r \in Seq(Reply), NEW j \in Job
  PROVE  LET a == Append(r, <<"jobDisconnected", j>>)
         IN  Cleared(a) /\ Coming(a) = {}
<1> DEFINE x == <<"jobDisconnected", j>>
           a == Append(r, x)
<1>1. x \in Reply /\ x[1] = "jobDisconnected"
  BY DEF Reply
<1>2. /\ DOMAIN a = 1..(Len(r) + 1) /\ DOMAIN r = 1..Len(r) /\ Len(r) \in Nat
      /\ a[Len(r) + 1] = x
  BY <1>1, Added
<1> HIDE DEF a, x
<1>3. Len(r) + 1 \in DOMAIN a /\ \A i \in DOMAIN a : i = Len(r) + 1 \/ Len(r) + 1 > i
  BY <1>2
<1>4. Cleared(a)
  BY <1>1, <1>2, <1>3 DEF Cleared
<1>5. Coming(a) = {}
  BY <1>1, <1>2, <1>3 DEF Coming
<1>6. QED
  BY <1>4, <1>5 DEF a, x

LEMMA Added404 ==
  ASSUME NEW r \in Seq(Reply), NEW j \in Job
  PROVE  LET a == Append(r, <<"404", j>>)
         IN  /\ Cleared(a) <=> Cleared(r)
             /\ Coming(a) = Coming(r)
             /\ \A i : ComingFor(a, i) <=> ComingFor(r, i)
<1> DEFINE x == <<"404", j>>
           a == Append(r, x)
<1>1. x \in Reply /\ x[1] = "404"
  BY DEF Reply
<1>2. /\ DOMAIN a = 1..(Len(r) + 1) /\ DOMAIN r = 1..Len(r) /\ Len(r) \in Nat
      /\ \A i \in DOMAIN r : a[i] = r[i]
      /\ a[Len(r) + 1] = x
  BY <1>1, Added
<1> HIDE DEF a, x
<1>3. Cleared(a) <=> Cleared(r)
  BY <1>1, <1>2 DEF Cleared
<1>4. Coming(a) = Coming(r)
  BY <1>1, <1>2 DEF Coming
<1>5. \A i \in Coming(r) : a[i] = r[i]
  BY <1>2 DEF Coming
<1>6. \A i : ComingFor(a, i) <=> ComingFor(r, i)
  BY <1>4, <1>5 DEF ComingFor
<1>7. QED
  BY <1>3, <1>4, <1>6 DEF a, x

(* The first reply is received.                                            *)
LEMMA TakenComing ==
  ASSUME NEW r \in Seq(Reply), r # <<>>
  PROVE  /\ \A i \in Coming(Tail(r)) : i + 1 \in Coming(r) /\ i + 1 # 1
         /\ \A i \in Coming(r) : i # 1 => i - 1 \in Coming(Tail(r)) /\ r[i] = Tail(r)[i - 1]
         /\ 1 \in Coming(r) <=> (Head(r)[1] = "jobConnected" /\ ~Cleared(Tail(r)))
         /\ Cleared(r) <=> (Head(r)[1] = "jobDisconnected" \/ Cleared(Tail(r)))
         /\ \A j : ComingFor(r, j) <=> ((1 \in Coming(r) /\ Head(r)[2] = j) \/ ComingFor(Tail(r), j))
<1> DEFINE t == Tail(r)
<1>1. /\ Head(r) = r[1] /\ 1 \in DOMAIN r
      /\ \A i \in DOMAIN t : i \in Nat /\ i + 1 \in DOMAIN r /\ t[i] = r[i + 1]
      /\ \A i \in DOMAIN r : i \in Nat /\ (i = 1 \/ i - 1 \in DOMAIN t)
      /\ \A i \in DOMAIN r : i # 1 => t[i - 1] = r[i] /\ (i - 1) + 1 = i
  BY Taken
<1> HIDE DEF t
<1>2. \A i \in DOMAIN t : i \in Nat \ {0}
  BY <1>1
<1>3. \A i \in DOMAIN r : i \in Nat \ {0}
  OBVIOUS
<1>4. \A i \in Coming(t) : i + 1 \in Coming(r) /\ i + 1 # 1 /\ i \in DOMAIN t
  BY <1>1, <1>2, <1>3 DEF Coming
<1>5. \A i \in Coming(r) : i # 1 => i - 1 \in Coming(t) /\ r[i] = t[i - 1]
  BY <1>1, <1>2, <1>3 DEF Coming
<1>6. Cleared(r) <=> (Head(r)[1] = "jobDisconnected" \/ Cleared(t))
  BY <1>1 DEF Cleared
<1>7. 1 \in Coming(r) <=> (Head(r)[1] = "jobConnected" /\ ~Cleared(t))
  <2>1. (\E m \in DOMAIN r : m > 1 /\ r[m][1] = "jobDisconnected") <=> Cleared(t)
    BY <1>1, <1>2, <1>3 DEF Cleared
  <2>2. QED
    BY <1>1, <2>1 DEF Coming
<1>8. \A j : ComingFor(r, j) <=> ((1 \in Coming(r) /\ Head(r)[2] = j) \/ ComingFor(t, j))
  <2>1. \A i \in Coming(t) : r[i + 1] = t[i]
    BY <1>1, <1>4
  <2>2. QED
    BY <1>1, <1>4, <1>5, <2>1 DEF ComingFor
<1>9. QED
  BY <1>4, <1>5, <1>6, <1>7, <1>8 DEF t

------------------------------------------------------------------------------
(* What the steps do to the account of a job.                              *)
LEMMA AccountedConnect ==
  ASSUME NEW r \in Seq(Reply), NEW j \in Job, NEW i \in Job, NEW n \in Nat,
         NEW v \in Place, NEW s, NEW k, Accounted(n, i, v, s, k, r)
  PROVE  Accounted(IF i = j THEN n + 1 ELSE n, i, v, s, k, Append(r, <<"jobConnected", j>>))
<1> DEFINE a == Append(r, <<"jobConnected", j>>)
<1>1. /\ Cleared(a) <=> Cleared(r)
      /\ Coming(a) = Coming(r) \union {Len(r) + 1}
      /\ \A h : ComingFor(a, h) <=> (ComingFor(r, h) \/ h = j)
  BY AddedConnected
<1>2. \A h \in Coming(r) : h # Len(r) + 1
  BY DEF Coming
<1>3. ComingFor(r, i) => Coming(r) # {}
  BY DEF ComingFor
<1> HIDE DEF a
<1>4. Clash(r, v) => Clash(a, v)
  BY <1>1 DEF Clash
<1>5. CASE i = j
  <2>1. n + 1 > 0 /\ (n + 1 > 1 => n > 0)
    OBVIOUS
  <2>2. n > 0 => Clash(a, v)
    <3>1. CASE ComingFor(r, i)
      BY <1>1, <1>2, <1>3, <3>1 DEF Clash
    <3>2. CASE v = i /\ s = k /\ ~Cleared(r)
      BY <1>1, <3>2, ConsoleAssumption DEF Clash
    <3>3. QED
      BY <3>1, <3>2 DEF Accounted
  <2>3. QED
    BY <1>1, <1>5, <2>1, <2>2 DEF Accounted, a
<1>6. CASE i # j
  BY <1>1, <1>4, <1>6 DEF Accounted, a
<1>7. QED
  BY <1>5, <1>6

LEMMA Accounted404 ==
  ASSUME NEW r \in Seq(Reply), NEW j \in Job, NEW i \in Job, NEW n \in Nat,
         NEW v \in Place, NEW s, NEW k, Accounted(n, i, v, s, k, r)
  PROVE  Accounted(n, i, v, s, k, Append(r, <<"404", j>>))
  BY Added404 DEF Accounted, Clash

LEMMA AccountedDisconnect ==
  ASSUME NEW r \in Seq(Reply), NEW j \in Job, NEW i \in Job, NEW v, NEW s, NEW k
  PROVE  Accounted(0, i, v, s, k, Append(r, <<"jobDisconnected", j>>))
  BY AddedDisconnected DEF Accounted, ComingFor

LEMMA AccountedReceive ==
  ASSUME NEW r \in Seq(Reply), r # <<>>, NEW i \in Job, NEW n \in Nat,
         NEW v \in Place, NEW s, NEW k, Accounted(n, i, v, s, k, r)
  PROVE  /\ Head(r)[1] = "jobConnected" /\ v = NoJob
               => Accounted(n, i, Head(r)[2], k, k, Tail(r))
         /\ Head(r)[1] = "jobDisconnected" => Accounted(n, i, NoJob, k, k, Tail(r))
         /\ Head(r)[1] = "404" => Accounted(n, i, v, s, k, Tail(r))
<1> DEFINE t == Tail(r)
           h == Head(r)
<1>1. /\ \A m \in Coming(t) : m + 1 \in Coming(r) /\ m + 1 # 1
      /\ \A m \in Coming(r) : m # 1 => m - 1 \in Coming(t) /\ r[m] = t[m - 1]
      /\ 1 \in Coming(r) <=> (h[1] = "jobConnected" /\ ~Cleared(t))
      /\ Cleared(r) <=> (h[1] = "jobDisconnected" \/ Cleared(t))
      /\ \A j : ComingFor(r, j) <=> ((1 \in Coming(r) /\ h[2] = j) \/ ComingFor(t, j))
  BY TakenComing
<1>2. h \in Reply
  OBVIOUS
<1>3. h[2] \in Job
  BY <1>2 DEF Reply
<1>4. NoJob # i /\ NoJob # h[2]
  BY <1>3, ConsoleAssumption
<1>5. \A m \in Coming(r) : m \in Nat
  BY DEF Coming
<1> HIDE DEF t, h
<1>6. \A m, l \in Coming(r) : m # 1 /\ l # 1 /\ m # l => m - 1 # l - 1
  BY <1>5
<1>7. (\E m, l \in Coming(r) : m # l) => (\E m, l \in Coming(t) : m # l) \/ (1 \in Coming(r) /\ Coming(t) # {})
  BY <1>1, <1>6
<1>8. ASSUME h[1] = "jobConnected", v = NoJob PROVE Accounted(n, i, h[2], k, k, t)
  <2>1. n > 0 <=> ComingFor(r, i)
    BY <1>4, <1>8 DEF Accounted
  <2>2. n > 0 <=> (h[2] = i /\ ~Cleared(t)) \/ ComingFor(t, i)
    BY <1>1, <1>8, <2>1
  <2>3. n > 1 => Clash(t, h[2])
    <3>1. n > 1 => \E m, l \in Coming(r) : m # l
      BY <1>8 DEF Accounted, Clash
    <3>2. QED
      BY <1>1, <1>4, <1>7, <1>8, <3>1 DEF Clash
  <2>4. QED
    BY <2>2, <2>3 DEF Accounted
<1>9. ASSUME h[1] = "jobDisconnected" PROVE Accounted(n, i, NoJob, k, k, t)
  <2>1. Cleared(r) /\ 1 \notin Coming(r)
    BY <1>1, <1>9
  <2>2. n > 0 <=> ComingFor(t, i)
    BY <1>1, <2>1 DEF Accounted
  <2>3. n > 1 => Clash(t, NoJob)
    BY <1>7, <2>1 DEF Accounted, Clash
  <2>4. QED
    BY <1>4, <2>2, <2>3 DEF Accounted
<1>10. ASSUME h[1] = "404" PROVE Accounted(n, i, v, s, k, t)
  <2>1. (Cleared(r) <=> Cleared(t)) /\ 1 \notin Coming(r)
    BY <1>1, <1>10
  <2>2. n > 0 <=> (v = i /\ s = k /\ ~Cleared(t)) \/ ComingFor(t, i)
    BY <1>1, <2>1 DEF Accounted
  <2>3. Coming(r) # {} => Coming(t) # {}
    BY <1>1, <2>1
  <2>4. n > 1 => Clash(t, v)
    BY <1>7, <2>1, <2>3 DEF Accounted, Clash
  <2>5. QED
    BY <2>2, <2>4 DEF Accounted
<1>11. QED
  BY <1>8, <1>9, <1>10 DEF h, t

------------------------------------------------------------------------------
(* What is sent keeps what was sent before.                                *)
LEMMA SendKeeps ==
  ASSUME TypeOK, visits \in Conn, NEW msgs \in Seq(Request), Send(msgs), visits' = visits
  PROVE  /\ Disconnecting => Disconnecting'
         /\ \A i \in DOMAIN msgs : msgs[i][1] = "disconnectJob" => Disconnecting'
<1> DEFINE q == requests[visits]
<1>1. q \in Seq(Request) /\ requests'[visits'] = q \o msgs
  BY DEF TypeOK, Send
<1> HIDE DEF q
<1>2. /\ Len(q \o msgs) = Len(q) + Len(msgs) /\ q \o msgs \in Seq(Request)
      /\ \A i \in 1..(Len(q) + Len(msgs)) :
            (q \o msgs)[i] = IF i <= Len(q) THEN q[i] ELSE msgs[i - Len(q)]
  BY <1>1, ConcatProperties
<1>3. DOMAIN (q \o msgs) = 1..(Len(q) + Len(msgs))
  BY <1>2
<1>4. \A i \in DOMAIN q : i \in DOMAIN (q \o msgs) /\ (q \o msgs)[i] = q[i]
  BY <1>1, <1>2, <1>3
<1>5. \A i \in DOMAIN msgs : Len(q) + i \in DOMAIN (q \o msgs) /\ (q \o msgs)[Len(q) + i] = msgs[i]
  BY <1>1, <1>2, <1>3
<1>6. Disconnecting' <=> \E i \in DOMAIN (q \o msgs) : (q \o msgs)[i][1] = "disconnectJob"
  BY <1>1 DEF Disconnecting
<1>7. Disconnecting <=> \E i \in DOMAIN q : q[i][1] = "disconnectJob"
  BY DEF Disconnecting, q
<1>8. QED
  BY <1>4, <1>5, <1>6, <1>7

(* A step that changes neither what is heard nor what is shown.            *)
LEMMA AgreementKept ==
  ASSUME Agreement, UNCHANGED <<callbacks, replies, visits, view, since>>,
         online' => online, Disconnecting => Disconnecting',
         \A j \in Job : life'[j] = "runs" => life[j] = "runs"
  PROVE  Agreement'
  BY DEF Agreement, Accounted, ComingFor, Clash

LEMMA HearInvInit == Init => HearInv
<1> SUFFICES ASSUME Init PROVE HearInv
  OBVIOUS
<1>1. Agreement
  BY DEF Init, Agreement
<1>2. Unused
  BY ConsoleAssumption DEF Init, Unused
<1>3. QED
  BY <1>1, <1>2 DEF HearInv

(* The handler of a connection leaves what the others hear.                *)
LEMMA OthersHear ==
  ASSUME IInv, NEW k \in Conn, HandlerNext(k)
  PROVE  \A i \in Job, c \in Conn : c # k => callbacks'[i][c] = callbacks[i][c]
<1> USE DEF IInv
<1>1. \A i \in Job, c \in Conn : c # k => Dropped(k)[i][c] = callbacks[i][c]
  BY DroppedHearsNothing
<1>2. CASE Handle(k)
  BY <1>1, <1>2 DEF Handle, TypeOK
<1>3. CASE HandlerEnds(k)
  BY <1>1, <1>3 DEF HandlerEnds
<1>4. CASE HandlerRaises(k)
  BY <1>4 DEF HandlerRaises
<1>5. QED
  BY <1>2, <1>3, <1>4 DEF HandlerNext

LEMMA UnusedStep == IInv /\ Unused /\ [Next]_vars => Unused'
<1> SUFFICES ASSUME IInv, Unused, [Next]_vars PROVE Unused'
  OBVIOUS
<1> USE DEF IInv
<1>0. visits \in Nat /\ since \in Nat /\ \A k \in Conn : k \in Nat
  BY DEF TypeOK, Conn
<1>1. CASE Connect
  BY <1>0, <1>1 DEF Connect, Unused, TypeOK
<1>2. CASE ShowTab
  BY <1>2 DEF ShowTab, Unused, server
<1>3. CASE Close
  BY <1>0, <1>3 DEF Close, Unused, server, TypeOK
<1>4. CASE Receive
  <2>1. visits' = visits /\ since' <= visits' /\ UNCHANGED server
    BY <1>0, <1>4 DEF Receive, Unused
  <2>2. \A k \in Conn : k > visits => replies'[k] = replies[k]
    BY <1>0, <1>4 DEF Receive, TypeOK
  <2>3. QED
    BY <2>1, <2>2 DEF Unused, server
<1>5. ASSUME NEW j \in Job, End(j) PROVE Unused'
  <2>1. \A i \in Job, k \in Conn : callbacks'[i][k] = 0 \/ callbacks'[i][k] = callbacks[i][k]
    <3> DEFINE cleared == [callbacks EXCEPT ![j] = [k \in Conn |-> 0]]
    <3>1. \A i \in Job, k \in Conn : cleared[i][k] = 0 \/ cleared[i][k] = callbacks[i][k]
      BY DEF TypeOK
    <3>2. callbacks' = callbacks \/ callbacks' = cleared
      BY <1>5 DEF End
    <3>3. QED
      BY <3>1, <3>2
  <2>2. UNCHANGED <<stage, replies, visits, since>>
    BY <1>5 DEF End, page
  <2>3. QED
    BY <2>1, <2>2 DEF Unused
<1>6. ASSUME NEW j \in Job, Forget(j) PROVE Unused'
  BY <1>6 DEF Forget, Unused, server, page
<1>7. ASSUME NEW j \in Job, Follow(j) PROVE Unused'
  BY <1>7 DEF Follow, Unused, server
<1>8. ASSUME NEW k \in Conn, HandlerNext(k) PROVE Unused'
  <2>1. ~(k > visits) /\ stage[k] = "open"
    BY <1>8 DEF HandlerNext, Handle, HandlerEnds, HandlerRaises, Unused
  <2>2. UNCHANGED <<visits, since>>
    BY <1>8 DEF HandlerNext, Handle, HandlerEnds, HandlerRaises, page
  <2>3. \A c \in Conn : c # k => stage'[c] = stage[c] /\ replies'[c] = replies[c]
    BY <1>8 DEF HandlerNext, Handle, HandlerEnds, HandlerRaises, Answer, TypeOK
  <2>4. \A i \in Job, c \in Conn : c # k => callbacks'[i][c] = callbacks[i][c]
    BY <1>8, OthersHear
  <2>5. QED
    BY <2>1, <2>2, <2>3, <2>4 DEF Unused
<1>9. CASE UNCHANGED vars
  BY <1>9 DEF vars, Unused
<1>10. QED
  BY <1>1, <1>2, <1>3, <1>4, <1>5, <1>6, <1>7, <1>8, <1>9 DEF Next, PageNext, JobNext

LEMMA ReceiveAgrees ==
  ASSUME IInv, HearInv, Receive
  PROVE  Agreement'
<1> USE DEF IInv
<1> DEFINE r == replies[visits]
<1>1. visits \in Conn /\ r \in Seq(Reply) /\ r # <<>> /\ visits' = visits /\ online
  BY OnlineConn DEF Receive, TypeOK
<1>2. replies'[visits] = Tail(r) /\ UNCHANGED <<life, callbacks>>
  BY <1>1 DEF Receive, TypeOK, server
<1>3. view \in Place /\ \A j \in Job : callbacks[j][visits] \in Nat
  BY <1>1 DEF TypeOK
<1> HIDE DEF r
<1> SUFFICES ASSUME ~Disconnecting', NEW j \in Job, life'[j] = "runs"
             PROVE  Accounted(callbacks[j][visits], j, view', since', visits, Tail(r))
  <2>1. ASSUME NEW j \in Job
        PROVE  Accounted(callbacks[j][visits], j, view, since, visits, replies[visits])'
                 <=> Accounted(callbacks[j][visits], j, view', since', visits, Tail(r))
    BY <1>1, <1>2 DEF Accounted, ComingFor, Clash
  <2>2. QED
    BY <2>1 DEF Agreement
<1>0. life[j] = "runs"
  BY <1>2
<1>4. ~Disconnecting => Accounted(callbacks[j][visits], j, view, since, visits, r)
  BY <1>0, <1>1 DEF HearInv, Agreement, r
<1>5. CASE Head(r)[1] = "jobConnected"
  <2>1. Send(DisconnectJob) /\ view' = Head(r)[2] /\ since' = visits
    BY <1>5 DEF Receive, r
  <2>2. DisconnectJob \in Seq(Request)
    BY DisconnectJobType
  <2>3. ~Disconnecting
    BY <1>1, <2>1, <2>2, SendKeeps
  <2>4. view = NoJob
    <3> SUFFICES ASSUME view # NoJob PROVE FALSE
      OBVIOUS
    <3>1. DisconnectJob = <<<<"disconnectJob", view>>>>
      BY DEF DisconnectJob
    <3>2. 1 \in DOMAIN DisconnectJob /\ DisconnectJob[1][1] = "disconnectJob"
      BY <3>1
    <3>3. QED
      BY <1>1, <2>1, <2>2, <3>2, SendKeeps
  <2>5. QED
    BY <1>1, <1>3, <1>4, <1>5, <2>1, <2>3, <2>4, AccountedReceive
<1>6. CASE Head(r)[1] = "jobDisconnected"
  <2>1. requests' = requests /\ view' = NoJob /\ since' = visits
    BY <1>6 DEF Receive, r
  <2>2. ~Disconnecting
    BY <1>1, <2>1 DEF Disconnecting
  <2>3. QED
    BY <1>1, <1>3, <1>4, <1>6, <2>1, <2>2, AccountedReceive
<1>7. CASE Head(r)[1] = "404"
  <2>1. requests' = requests /\ view' = view /\ since' = since
    BY <1>7 DEF Receive, r
  <2>2. ~Disconnecting
    BY <1>1, <2>1 DEF Disconnecting
  <2>3. QED
    BY <1>1, <1>3, <1>4, <1>7, <2>1, <2>2, AccountedReceive
<1>8. QED
  BY <1>5, <1>6, <1>7 DEF Receive, r

(* The connection of the page has its requests handled in turn.            *)
LEMMA HandleAgrees ==
  ASSUME IInv, HearInv, visits \in Conn, online, Handle(visits)
  PROVE  Agreement'
<1> USE DEF IInv
<1> DEFINE q == requests[visits]
           r == replies[visits]
           method == Head(q)[1]
           job == Head(q)[2]
<1>1. q \in Seq(Request) /\ q # <<>> /\ r \in Seq(Reply)
  BY DEF Handle, TypeOK
<1>2. Head(q) \in Request
  BY <1>1
<1>3. job \in Job
  BY <1>2 DEF Request
<1>4. requests'[visits'] = Tail(q) /\ UNCHANGED <<life, visits, online, view, since>>
  BY DEF Handle, TypeOK, page
<1>5. view \in Place /\ \A j \in Job : callbacks[j][visits] \in Nat
  BY DEF TypeOK
<1> HIDE DEF r, method, job
<1> SUFFICES ASSUME ~Disconnecting', NEW j \in Job, life[j] = "runs"
             PROVE  Accounted(callbacks'[j][visits], j, view, since, visits, replies'[visits])
  BY <1>4 DEF Agreement, Accounted, ComingFor, Clash
<1>6. method # "disconnectJob" => ~Disconnecting
  <2>1. ~\E i \in DOMAIN Tail(q) : Tail(q)[i][1] = "disconnectJob"
    BY <1>4 DEF Disconnecting
  <2>2. DOMAIN q = 1..Len(q) /\ \A i \in 1..Len(q) : i # 1 => i - 1 \in DOMAIN Tail(q) /\ q[i] = Tail(q)[i - 1]
    BY <1>1
  <2>3. Head(q) = q[1]
    BY <1>1
  <2>4. QED
    BY <2>1, <2>2, <2>3 DEF Disconnecting, method
<1>7. ~Disconnecting => Accounted(callbacks[j][visits], j, view, since, visits, r)
  BY DEF HearInv, Agreement, r
<1>8. CASE /\ method = "connectJob"
           /\ callbacks' = [callbacks EXCEPT ![job][visits] = @ + 1]
           /\ Answer(visits, <<"jobConnected", job>>)
  <2>1. replies'[visits] = Append(r, <<"jobConnected", job>>)
    BY <1>8 DEF Answer, TypeOK, r
  <2>2. callbacks'[j][visits] = IF j = job THEN callbacks[j][visits] + 1 ELSE callbacks[j][visits]
    BY <1>3, <1>8 DEF TypeOK
  <2>3. Accounted(callbacks[j][visits], j, view, since, visits, r)
    BY <1>6, <1>7, <1>8
  <2>4. QED
    BY <1>1, <1>3, <1>5, <2>1, <2>2, <2>3, AccountedConnect
<1>9. CASE /\ method = "connectJob"
           /\ UNCHANGED callbacks
           /\ Answer(visits, <<"404", job>>)
  <2>1. replies'[visits] = Append(r, <<"404", job>>)
    BY <1>9 DEF Answer, TypeOK, r
  <2>2. Accounted(callbacks[j][visits], j, view, since, visits, r)
    BY <1>6, <1>7, <1>9
  <2>3. QED
    BY <1>1, <1>3, <1>5, <1>9, <2>1, <2>2, Accounted404
<1>10. CASE /\ callbacks' = Dropped(visits)
            /\ Answer(visits, <<"jobDisconnected", job>>)
  <2>1. replies'[visits] = Append(r, <<"jobDisconnected", job>>)
    BY <1>10 DEF Answer, TypeOK, r
  <2>2. callbacks'[j][visits] = 0
    BY <1>10, DroppedHearsNothing
  <2>3. QED
    BY <1>1, <1>3, <2>1, <2>2, AccountedDisconnect
<1>11. QED
  BY <1>8, <1>9, <1>10 DEF Handle, method, job

LEMMA AgreementStep == IInv /\ HearInv /\ [Next]_vars => Agreement'
<1> SUFFICES ASSUME IInv, HearInv, [Next]_vars PROVE Agreement'
  OBVIOUS
<1> USE DEF IInv, HearInv
<1>1. CASE Connect
  <2>1. /\ visits + 1 \in Conn /\ visits' = visits + 1 /\ visits + 1 > visits
        /\ UNCHANGED <<callbacks, replies, view, since>>
    BY <1>1, ConsoleAssumption DEF Connect, TypeOK, Conn
  <2>2. since # visits + 1
    BY DEF Unused, TypeOK
  <2>3. replies[visits + 1] = <<>> /\ \A j \in Job : callbacks[j][visits + 1] = 0
    BY <2>1 DEF Unused
  <2>4. QED
    BY <2>1, <2>2, <2>3 DEF Agreement, Accounted, ComingFor, Coming
<1>2. CASE ShowTab
  <2>1. Disconnecting => Disconnecting'
    <3>1. CASE online
      BY <1>2, <3>1, SendKeeps, DisconnectJobType, OnlineConn DEF ShowTab
    <3>2. CASE ~online
      BY <1>2, <3>2 DEF ShowTab, Disconnecting
    <3>3. QED
      BY <3>1, <3>2
  <2>2. QED
    BY <1>2, <2>1, AgreementKept DEF ShowTab, server
<1>3. CASE Close
  BY <1>3 DEF Close, Agreement
<1>4. CASE Receive
  BY <1>4, ReceiveAgrees
<1>5. ASSUME NEW j \in Job, End(j) PROVE Agreement'
  <2>1. \A i \in Job : life'[i] = "runs" => i # j /\ life[i] = "runs"
    BY <1>5 DEF End, TypeOK
  <2>2. \A i \in Job : i # j => callbacks'[i] = callbacks[i]
    BY <1>5 DEF End, TypeOK
  <2>3. UNCHANGED <<replies, requests, online, visits, view, since>>
    BY <1>5 DEF End, page
  <2>4. QED
    BY <2>1, <2>2, <2>3 DEF Agreement, Accounted, ComingFor, Clash, Disconnecting
<1>6. ASSUME NEW j \in Job, Forget(j) PROVE Agreement'
  <2>1. \A i \in Job : life'[i] = "runs" => life[i] = "runs"
    BY <1>6 DEF Forget, TypeOK
  <2>2. UNCHANGED <<callbacks, replies, requests, online, visits, view, since>>
    BY <1>6 DEF Forget, server, page
  <2>3. Disconnecting => Disconnecting'
    BY <2>2 DEF Disconnecting
  <2>4. QED
    BY <2>1, <2>2, <2>3, AgreementKept
<1>7. ASSUME NEW j \in Job, Follow(j) PROVE Agreement'
  <2>1. Disconnecting => Disconnecting'
    <3>1. ConnectJob(j) \in Seq(Request)
      BY ConnectJobType DEF Place
    <3>2. CASE online
      BY <1>7, <3>1, <3>2, SendKeeps, OnlineConn DEF Follow
    <3>3. CASE ~online
      BY <1>7, <3>3 DEF Follow, Disconnecting
    <3>4. QED
      BY <3>2, <3>3
  <2>2. QED
    BY <1>7, <2>1, AgreementKept DEF Follow, server
<1>8. ASSUME NEW k \in Conn, HandlerNext(k) PROVE Agreement'
  <2>1. CASE ~online
    BY <1>8, <2>1 DEF HandlerNext, Handle, HandlerEnds, HandlerRaises, page, Agreement
  <2>2. CASE online /\ k = visits
    <3>1. CASE Handle(k)
      BY <2>2, <3>1, HandleAgrees
    <3>2. CASE HandlerRaises(k)
      BY <2>2, <3>2 DEF HandlerRaises, Agreement
    <3>3. QED
      BY <1>8, <2>2, <3>1, <3>2 DEF HandlerNext, HandlerEnds
  <2>3. CASE online /\ k # visits
    <3>1. visits \in Conn /\ UNCHANGED <<life, online, visits, view, since>>
      BY <1>8, <2>3, OnlineConn DEF HandlerNext, Handle, HandlerEnds, HandlerRaises, page
    <3>2. replies'[visits] = replies[visits] /\ requests'[visits] = requests[visits]
      BY <1>8, <2>3, <3>1 DEF HandlerNext, Handle, HandlerEnds, HandlerRaises, Answer, TypeOK
    <3>3. \A j \in Job : callbacks'[j][visits] = callbacks[j][visits]
      BY <1>8, <2>3, <3>1, OthersHear
    <3>4. QED
      BY <3>1, <3>2, <3>3 DEF Agreement, Accounted, ComingFor, Clash, Disconnecting
  <2>4. QED
    BY <2>1, <2>2, <2>3
<1>9. CASE UNCHANGED vars
  <2>1. Disconnecting => Disconnecting'
    BY <1>9 DEF vars, Disconnecting
  <2>2. QED
    BY <1>9, <2>1, AgreementKept DEF vars
<1>10. QED
  BY <1>1, <1>2, <1>3, <1>4, <1>5, <1>6, <1>7, <1>8, <1>9 DEF Next, PageNext, JobNext

(* A page that has had all its answers hears the job it takes for          *)
(* connected, once, and no other, however connectJob and disconnectJob     *)
(* cross with their answers.                                               *)
THEOREM HearsWhatItShowsCorrect == Spec => []HearsWhatItShows
<1>1. TypeOK /\ HearInv => HearsWhatItShows
  <2> SUFFICES ASSUME TypeOK, HearInv, Quiet, NEW j \in Job, life[j] = "runs"
               PROVE  callbacks[j][visits] = IF view = j /\ since = visits THEN 1 ELSE 0
    BY DEF HearsWhatItShows
  <2>1. replies[visits] = <<>> /\ requests[visits] = <<>> /\ online /\ visits \in Conn
    BY OnlineConn DEF Quiet
  <2>2. Accounted(callbacks[j][visits], j, view, since, visits, <<>>)
    BY <2>1 DEF HearInv, Agreement, Disconnecting
  <2>3. callbacks[j][visits] \in Nat
    BY <2>1 DEF TypeOK
  <2>4. Coming(<<>>) = {} /\ ~Cleared(<<>>)
    BY DEF Coming, Cleared
  <2>5. ~Clash(<<>>, view) /\ ~ComingFor(<<>>, j)
    BY <2>4 DEF Clash, ComingFor
  <2>6. \A n \in Nat : ~(n > 1) => n = 0 \/ n = 1
    OBVIOUS
  <2>7. QED
    BY <2>2, <2>3, <2>4, <2>5, <2>6 DEF Accounted
<1>2. IInv => TypeOK
  BY DEF IInv
<1>3. IInv /\ HearInv /\ [Next]_vars => IInv' /\ HearInv'
  BY IInvStep, UnusedStep, AgreementStep DEF HearInv
<1>4. QED
  BY <1>1, <1>2, <1>3, IInvInit, HearInvInit, PTL DEF Spec

==============================================================================
