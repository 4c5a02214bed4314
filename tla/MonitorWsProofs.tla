--------------------------- MODULE MonitorWsProofs ---------------------------
(***************************************************************************)
(* Proofs about MonitorWs, for any pages, events, number of connections    *)
(* and messages under way: which connections the monitor knows, and what   *)
(* a page shows when it has received all that was sent to it.              *)
(***************************************************************************)
EXTENDS MonitorWs, FiniteSetTheorems, SequenceTheorems, TLAPS

InLoop == {"open", "closing", "raised"}

(* A connection that is to come has not been used, and one that a handler  *)
(* is about to register is not registered.                                 *)
StageInv ==
    /\ \A k \in Conn : k[2] > visits[k[1]] => stage[k] = "none"
    /\ \A b \in online : visits[b] > 0

(* Messages are under way on open connections only, the last one of a page *)
(* that is online.                                                         *)
InboxInv == \A k \in Conn : inbox[k] # <<>> => stage[k] = "open"

(* The messages about an event that are under way, and its announcements   *)
(* as finished.                                                            *)
About(q, e) == {i \in DOMAIN q : q[i].event = e}
Final(q, e) == {i \in DOMAIN q : q[i].event = e /\ q[i].finished}

\* The page will show the event: it shows it or is about to, and nothing
\* under way but the message at place l says that it has finished.
Stays(shown, q, e, l) ==
    /\ Final(q, e) \subseteq {l}
    /\ e \in shown \/ About(q, e) \ {l} # {}

\* The page will show the event although it was announced as finished: it
\* did not show it then.
Late(shown, q, e, l) ==
    /\ e \notin shown
    /\ \E i \in About(q, e) : i # l /\ About(q, e) \ {l} = {i}

(* What is under way leads from what is shown to what is to be shown.      *)
Agrees(status, shown, q, e) ==
    /\ status = "new" => e \notin shown /\ About(q, e) = {}
    /\ status \in {"live", "raised"} => Stays(shown, q, e, 0)
    /\ status = "done" => Stays(shown, q, e, 0) \/ Late(shown, q, e, 0)
    /\ status = "over" =>
          \/ e \notin shown /\ About(q, e) = {}
          \/ \E l \in Final(q, e) :
                /\ \A i \in About(q, e) : i <= l
                /\ Stays(shown, q, e, l) \/ Late(shown, q, e, l)

PageInv ==
    \A b \in online :
        LET k == <<b, visits[b]>>
        IN  /\ stage[k] = "auth" => elements[b] = {}
            /\ stage[k] = "open" /\ k \notin missed =>
                  \A e \in Event : Agrees(life[e], elements[b], inbox[k], e)

IInv == TypeOK /\ StageInv /\ Registered /\ InboxInv /\ IsFiniteSet(Tasks) /\ PageInv

------------------------------------------------------------------------------
(* How the messages under way change.                                      *)
LEMMA Sent ==
  ASSUME NEW q \in Seq(Msg), NEW m \in Msg
  PROVE  LET a == Append(q, m)
             n == Len(q) + 1
         IN  /\ \A e : \A i \in About(q, e) : i \in Nat /\ i < n
             /\ \A e : e # m.event => About(a, e) = About(q, e) /\ Final(a, e) = Final(q, e)
             /\ About(a, m.event) = About(q, m.event) \union {n}
             /\ m.finished => Final(a, m.event) = Final(q, m.event) \union {n}
             /\ ~m.finished => Final(a, m.event) = Final(q, m.event)
<1> DEFINE a == Append(q, m)
           n == Len(q) + 1
<1>1. /\ DOMAIN a = 1..n /\ DOMAIN q = 1..Len(q) /\ Len(q) \in Nat
      /\ \A i \in DOMAIN q : a[i] = q[i]
      /\ a[n] = m
  OBVIOUS
<1> HIDE DEF a
<1>2. \A i : i \in DOMAIN a <=> i \in DOMAIN q \/ i = n
  BY <1>1
<1>3. \A i \in DOMAIN q : i \in Nat /\ i < n
  BY <1>1
<1> HIDE DEF n
<1>4. \A e : \A i \in About(q, e) : i \in Nat /\ i < n
  BY <1>3 DEF About
<1>5. \A e : e # m.event => About(a, e) = About(q, e) /\ Final(a, e) = Final(q, e)
  BY <1>1, <1>2 DEF About, Final
<1>6. About(a, m.event) = About(q, m.event) \union {n}
  BY <1>1, <1>2 DEF About
<1>7. m.finished => Final(a, m.event) = Final(q, m.event) \union {n}
  BY <1>1, <1>2 DEF Final
<1>8. ~m.finished => Final(a, m.event) = Final(q, m.event)
  BY <1>1, <1>2 DEF Final
<1>9. QED
  BY <1>4, <1>5, <1>6, <1>7, <1>8 DEF a, n

LEMMA Received ==
  ASSUME NEW q \in Seq(Msg), q # <<>>, NEW e
  PROVE  LET t == Tail(q)
         IN  /\ \A i \in About(q, e) : i \in Nat \ {0} /\ (i = 1 \/ i - 1 \in About(t, e))
             /\ \A i \in About(t, e) : i \in Nat \ {0} /\ i + 1 \in About(q, e)
             /\ \A i \in Final(t, e) : i \in About(t, e) /\ i + 1 \in Final(q, e)
             /\ \A i \in Final(q, e) : i \in About(q, e) /\ (i = 1 \/ i - 1 \in Final(t, e))
             /\ 1 \in About(q, e) <=> Head(q).event = e
             /\ 1 \in Final(q, e) <=> Head(q).event = e /\ Head(q).finished
<1> DEFINE t == Tail(q)
<1>1. DOMAIN q = 1..Len(q) /\ Len(q) \in Nat \ {0} /\ Head(q) = q[1]
  OBVIOUS
<1>2. t \in Seq(Msg) /\ Len(t) = Len(q) - 1
  OBVIOUS
<1>3. DOMAIN t = 1..(Len(q) - 1)
  BY <1>1, <1>2
<1>4. \A i \in 1..(Len(q) - 1) : t[i] = q[i + 1]
  BY <1>1
<1> HIDE DEF t
<1>5. \A i \in DOMAIN q : i \in Nat \ {0} /\ (i = 1 \/ (i - 1 \in DOMAIN t /\ t[i - 1] = q[i]))
  <2>1. \A i \in 1..Len(q) : i # 1 => i - 1 \in 1..(Len(q) - 1) /\ (i - 1) + 1 = i
    BY <1>1
  <2>2. QED
    BY <1>1, <1>3, <1>4, <2>1
<1>6. \A i \in DOMAIN t : i \in Nat \ {0} /\ i + 1 \in DOMAIN q /\ t[i] = q[i + 1]
  BY <1>1, <1>3, <1>4
<1>7. 1 \in DOMAIN q
  BY <1>1
<1>8. QED
  BY <1>1, <1>5, <1>6, <1>7 DEF About, Final, t

------------------------------------------------------------------------------
(* What a broadcast and a received message do to the agreement.            *)
LEMMA AgreesOther ==
  ASSUME NEW q \in Seq(Msg), NEW m \in Msg, NEW e, e # m.event,
         NEW status, NEW shown, Agrees(status, shown, q, e)
  PROVE  Agrees(status, shown, Append(q, m), e)
  BY Sent DEF Agrees, Stays, Late

LEMMA AgreesUpdate ==
  ASSUME NEW q \in Seq(Msg), NEW e \in Event, NEW shown,
         NEW status \in {"new", "live", "raised"}, Agrees(status, shown, q, e),
         NEW after \in {"live", "raised"}
  PROVE  Agrees(after, shown, Append(q, Message(e, FALSE)), e)
<1> DEFINE m == Message(e, FALSE)
           n == Len(q) + 1
           a == Append(q, m)
<1>1. m \in Msg /\ m.event = e /\ ~m.finished
  BY DEF Message, Msg
<1>2. n # 0
  OBVIOUS
<1> HIDE DEF m
<1>3. About(a, e) = About(q, e) \union {n} /\ Final(a, e) = Final(q, e)
  BY <1>1, Sent
<1> HIDE DEF n, a
<1>4. Final(q, e) \subseteq {0}
  <2>1. Final(q, e) \subseteq About(q, e)
    BY DEF Final, About
  <2>2. QED
    BY <2>1 DEF Agrees, Stays
<1>5. Stays(shown, a, e, 0)
  BY <1>2, <1>3, <1>4 DEF Stays
<1>6. QED
  BY <1>5 DEF Agrees, a, m

\* The page may show an event whose run raised, or not.
LEMMA AgreesLost ==
  ASSUME NEW q, NEW e, NEW shown
  PROVE  Agrees("lost", shown, q, e)
  BY DEF Agrees

LEMMA AgreesForget ==
  ASSUME NEW q \in Seq(Msg), NEW e \in Event, NEW shown, Agrees("done", shown, q, e)
  PROVE  Agrees("over", shown, Append(q, Message(e, TRUE)), e)
<1> DEFINE m == Message(e, TRUE)
           n == Len(q) + 1
           a == Append(q, m)
<1>1. m \in Msg /\ m.event = e /\ m.finished
  BY DEF Message, Msg
<1> HIDE DEF m
<1>2. /\ About(a, e) = About(q, e) \union {n} /\ Final(a, e) = Final(q, e) \union {n}
      /\ \A i \in About(q, e) : i \in Nat /\ i < n
  BY <1>1, Sent
<1>3. n \in Nat /\ Final(q, e) \subseteq About(q, e) /\ 0 \notin About(q, e)
  BY DEF Final, About
<1> HIDE DEF n, a
<1>4. n \in Final(a, e) /\ \A i \in About(a, e) : i <= n
  BY <1>2, <1>3
<1>5. \A i \in About(q, e) : i # n
  BY <1>2, <1>3
<1>6. About(a, e) \ {n} = About(q, e) /\ About(q, e) \ {0} = About(q, e)
  BY <1>2, <1>3, <1>5
<1>7. Stays(shown, q, e, 0) => Stays(shown, a, e, n)
  BY <1>2, <1>3, <1>6 DEF Stays
<1>8. Late(shown, q, e, 0) => Late(shown, a, e, n)
  BY <1>2, <1>5, <1>6 DEF Late
<1>9. Stays(shown, a, e, n) \/ Late(shown, a, e, n)
  BY <1>7, <1>8 DEF Agrees
<1>10. QED
  BY <1>4, <1>9 DEF Agrees, a, m

\* handleTaskUpdate.
Handled(shown, m) ==
    IF m.event \in shown /\ m.finished THEN shown \ {m.event} ELSE shown \union {m.event}

LEMMA StaysReceived ==
  ASSUME NEW q \in Seq(Msg), q # <<>>, NEW e, NEW shown, NEW l, NEW p, l # 1,
         \A i \in Nat \ {0} : i = p <=> i + 1 = l,
         Stays(shown, q, e, l) \/ Late(shown, q, e, l)
  PROVE  LET after == Handled(shown, Head(q))
         IN  Stays(after, Tail(q), e, p) \/ Late(after, Tail(q), e, p)
<1> DEFINE t == Tail(q)
           m == Head(q)
           after == Handled(shown, m)
<1>1. /\ \A i \in About(q, e) : i \in Nat \ {0} /\ (i = 1 \/ i - 1 \in About(t, e))
      /\ \A i \in About(t, e) : i \in Nat \ {0} /\ i + 1 \in About(q, e)
      /\ \A i \in Final(t, e) : i \in About(t, e) /\ i + 1 \in Final(q, e)
      /\ 1 \in About(q, e) <=> m.event = e
      /\ 1 \in Final(q, e) <=> m.event = e /\ m.finished
  BY Received
<1> HIDE DEF t, m
<1>2. \A i \in About(q, e) : i # 1 => (i - 1) + 1 = i /\ (i - 1 = p <=> i = l)
  <2>1. \A i \in Nat \ {0} : i # 1 => i - 1 \in Nat \ {0} /\ (i - 1) + 1 = i
    OBVIOUS
  <2>2. QED
    BY <1>1, <2>1
<1>3. \A i \in About(t, e) : i = p <=> i + 1 = l
  BY <1>1
<1>4. Final(q, e) \subseteq {l} => Final(t, e) \subseteq {p}
  BY <1>1, <1>3
<1>5. CASE m.event # e
  <2>1. e \in after <=> e \in shown
    BY <1>5 DEF Handled
  <2>2. 1 \notin About(q, e)
    BY <1>1, <1>5
  <2>3. CASE Stays(shown, q, e, l)
    <3>1. About(q, e) \ {l} # {} => About(t, e) \ {p} # {}
      BY <1>1, <1>2, <2>2
    <3>2. QED
      BY <1>4, <2>1, <2>3, <3>1 DEF Stays, t, m
  <2>4. CASE Late(shown, q, e, l)
    <3>1. PICK i \in About(q, e) : i # l /\ About(q, e) \ {l} = {i}
      BY <2>4 DEF Late
    <3>2. i - 1 \in About(t, e) /\ i - 1 # p
      BY <1>1, <1>2, <2>2, <3>1
    <3>3. ASSUME NEW h \in About(t, e) \ {p} PROVE h = i - 1
      <4>1. h + 1 = i
        BY <1>1, <1>3, <3>1, <3>3
      <4>2. QED
        BY <1>1, <4>1
    <3>4. About(t, e) \ {p} = {i - 1}
      BY <3>2, <3>3
    <3>5. Late(after, t, e, p)
      BY <2>1, <2>4, <3>2, <3>4 DEF Late
    <3>6. QED
      BY <3>5 DEF t, m
  <2>5. QED
    BY <2>3, <2>4
<1>6. CASE m.event = e
  <2>1. ~(e \in shown /\ m.finished)
    BY <1>1, <1>6 DEF Stays, Late
  <2>2. e \in after
    BY <1>6, <2>1 DEF Handled
  <2>3. Final(t, e) \subseteq {p}
    <3>1. CASE Stays(shown, q, e, l)
      BY <1>4, <3>1 DEF Stays
    <3>2. CASE Late(shown, q, e, l)
      <4>1. About(q, e) \ {l} = {1}
        BY <1>1, <1>6, <3>2 DEF Late
      <4>2. \A i \in About(t, e) : i + 1 # 1
        BY <1>1
      <4>3. \A i \in About(t, e) : i + 1 = l
        BY <1>1, <4>1, <4>2
      <4>4. QED
        BY <1>1, <1>3, <4>3
    <3>3. QED
      BY <3>1, <3>2
  <2>4. Stays(after, t, e, p)
    BY <2>2, <2>3 DEF Stays
  <2>5. QED
    BY <2>4 DEF t, m
<1>7. QED
  BY <1>5, <1>6

LEMMA AgreesReceived ==
  ASSUME NEW q \in Seq(Msg), q # <<>>, NEW e, NEW shown, NEW status,
         Agrees(status, shown, q, e)
  PROVE  Agrees(status, Handled(shown, Head(q)), Tail(q), e)
<1> DEFINE t == Tail(q)
           m == Head(q)
           after == Handled(shown, m)
<1>1. /\ \A i \in About(q, e) : i \in Nat \ {0} /\ (i = 1 \/ i - 1 \in About(t, e))
      /\ \A i \in About(t, e) : i \in Nat \ {0} /\ i + 1 \in About(q, e)
      /\ \A i \in Final(q, e) : i \in About(q, e) /\ (i = 1 \/ i - 1 \in Final(t, e))
      /\ 1 \in About(q, e) <=> m.event = e
      /\ 1 \in Final(q, e) <=> m.event = e /\ m.finished
  BY Received
<1>2. ASSUME Stays(shown, q, e, 0) \/ Late(shown, q, e, 0)
      PROVE  Stays(after, t, e, 0) \/ Late(after, t, e, 0)
  <2>1. PICK zero : zero = 0
    OBVIOUS
  <2>2. zero # 1 /\ \A i \in Nat \ {0} : i = zero <=> i + 1 = zero
    BY <2>1
  <2>3. Stays(shown, q, e, zero) \/ Late(shown, q, e, zero)
    BY <1>2, <2>1
  <2>4. Stays(after, t, e, zero) \/ Late(after, t, e, zero)
    BY <2>2, <2>3, StaysReceived
  <2>5. QED
    BY <2>1, <2>4
<1>3. ASSUME NEW l \in Final(q, e), l # 1, \A i \in About(q, e) : i <= l,
             Stays(shown, q, e, l) \/ Late(shown, q, e, l)
      PROVE  /\ l - 1 \in Final(t, e) /\ \A i \in About(t, e) : i <= l - 1
             /\ Stays(after, t, e, l - 1) \/ Late(after, t, e, l - 1)
  <2>1. l \in Nat \ {0}
    BY <1>1
  <2>2. \A i \in Nat \ {0} : i = l - 1 <=> i + 1 = l
    BY <2>1
  <2>3. \A i \in About(t, e) : i <= l - 1
    BY <1>1, <1>3, <2>1
  <2>4. l - 1 \in Final(t, e)
    BY <1>1, <1>3
  <2>5. QED
    BY <1>3, <2>2, <2>3, <2>4, StaysReceived
<1>4. e \notin shown /\ About(q, e) = {} => e \notin after /\ About(t, e) = {}
  BY <1>1 DEF Handled
<1>5. ASSUME 1 \in Final(q, e), \A i \in About(q, e) : i <= 1,
             Stays(shown, q, e, 1) \/ Late(shown, q, e, 1)
      PROVE  e \notin after /\ About(t, e) = {}
  <2>1. About(q, e) = {1}
    BY <1>1, <1>5
  <2>2. e \in shown /\ m.event = e /\ m.finished
    BY <1>1, <1>5, <2>1 DEF Stays, Late
  <2>3. \A i \in About(t, e) : i + 1 # 1 /\ i + 1 \in About(q, e)
    BY <1>1
  <2>4. QED
    BY <2>1, <2>2, <2>3 DEF Handled
<1>6. status \in {"live", "raised"} => Stays(after, t, e, 0)
  <2> SUFFICES ASSUME status \in {"live", "raised"} PROVE Stays(after, t, e, 0)
    OBVIOUS
  <2>1. Stays(shown, q, e, 0)
    BY DEF Agrees
  <2>2. Final(t, e) \subseteq {0}
    <3>1. \A i \in Final(t, e) : i \in About(t, e) /\ i + 1 \in Final(q, e)
      BY Received
    <3>2. \A i \in About(t, e) : i + 1 # 0
      BY <1>1
    <3> HIDE DEF t, m, after
    <3>3. QED
      BY <2>1, <3>1, <3>2 DEF Stays
  <2>3. e \in after \/ About(t, e) \ {0} # {}
    <3>1. CASE m.event = e
      BY <1>1, <2>1, <3>1 DEF Handled, Stays
    <3>2. CASE m.event # e
      <4>1. e \in after <=> e \in shown
        BY <3>2 DEF Handled
      <4>2. \A i \in About(q, e) : i - 1 \in About(t, e) /\ (i # 0)
        BY <1>1, <3>2
      <4>3. \A i \in About(t, e) : i # 0
        BY <1>1
      <4> HIDE DEF t, m, after
      <4>4. QED
        BY <2>1, <4>1, <4>2, <4>3 DEF Stays
    <3>3. QED
      BY <3>1, <3>2
  <2>4. QED
    BY <2>2, <2>3 DEF Stays
<1> HIDE DEF t, m, after
<1>7. Agrees(status, after, t, e)
  BY <1>2, <1>3, <1>4, <1>5, <1>6 DEF Agrees
<1>8. QED
  BY <1>7 DEF t, m, after

------------------------------------------------------------------------------
(* _broadcast reaches the open connections that it has not missed.         *)
LEMMA BroadcastReaches ==
  ASSUME TypeOK, Registered, NEW e \in Event, NEW finished \in BOOLEAN, Broadcast(e, finished)
  PROVE  /\ inbox' \in [Conn -> Seq(Msg)]
         /\ missed \subseteq missed' /\ missed' \subseteq Conn
         /\ \A k \in Conn :
               /\ stage[k] # "open" => inbox'[k] = inbox[k]
               /\ stage[k] = "open" /\ k \notin missed' =>
                     inbox'[k] = Append(inbox[k], Message(e, finished))
<1>1. Message(e, finished) \in Msg
  BY DEF Message, Msg
<1>2. PICK cut \in Cuts :
        LET Hears(k) == stage[k] = "open" /\ \E i \in 1..(cut - 1) : connections[i] = k
        IN  /\ inbox' = [k \in Conn |-> IF Hears(k) THEN Append(inbox[k], Message(e, finished))
                                                    ELSE inbox[k]]
            /\ missed' = missed \union {k \in ToSet(connections) : ~Hears(k)}
  BY DEF Broadcast
<1> DEFINE Hears(k) == stage[k] = "open" /\ \E i \in 1..(cut - 1) : connections[i] = k
<1>3. ToSet(connections) \subseteq Conn
  BY DEF TypeOK, ToSet
<1>4. \A k \in Conn : Append(inbox[k], Message(e, finished)) \in Seq(Msg) /\ inbox[k] \in Seq(Msg)
  BY <1>1, AppendProperties DEF TypeOK
<1>5. inbox' = [k \in Conn |-> IF Hears(k) THEN Append(inbox[k], Message(e, finished))
                                           ELSE inbox[k]]
  BY <1>2
<1>6. missed' = missed \union {k \in ToSet(connections) : ~Hears(k)}
  BY <1>2
<1>7. \A k \in Conn : stage[k] = "open" => k \in ToSet(connections)
  BY DEF Registered
<1>8. \A k : Hears(k) => stage[k] = "open"
  OBVIOUS
<1> HIDE DEF Hears
<1>9. inbox' \in [Conn -> Seq(Msg)]
  BY <1>4, <1>5
<1>10. missed \subseteq missed' /\ missed' \subseteq Conn
  BY <1>3, <1>6 DEF TypeOK
<1>11. QED
  BY <1>5, <1>6, <1>7, <1>8, <1>9, <1>10

(* The first of the connections that are k, and so the only one, is taken  *)
(* out of the list.                                                        *)
LEMMA ListRemoved ==
  ASSUME NEW s \in Seq(Conn), IsInjective(s), NEW i \in DOMAIN s
  PROVE  /\ RemoveAt(s, i) \in Seq(Conn) /\ IsInjective(RemoveAt(s, i))
         /\ ToSet(RemoveAt(s, i)) = ToSet(s) \ {s[i]}
<1> DEFINE r == RemoveAt(s, i)
           n == Len(s)
<1>1. n \in Nat /\ DOMAIN s = 1..n /\ i \in 1..n /\ \A m \in 1..n : s[m] \in Conn
  OBVIOUS
<1>2. /\ SubSeq(s, 1, i - 1) \in Seq(Conn) /\ Len(SubSeq(s, 1, i - 1)) = i - 1
      /\ \A m \in 1..(i - 1) : SubSeq(s, 1, i - 1)[m] = s[m]
  <2>1. \A m \in 1..(i - 1) : s[m] \in Conn
    BY <1>1
  <2>2. /\ SubSeq(s, 1, i - 1) \in Seq(Conn)
        /\ Len(SubSeq(s, 1, i - 1)) = IF 1 <= i - 1 THEN (i - 1) - 1 + 1 ELSE 0
        /\ \A m \in 1..((i - 1) - 1 + 1) : SubSeq(s, 1, i - 1)[m] = s[1 + m - 1]
    BY <1>1, <2>1, SubSeqProperties
  <2>3. QED
    BY <1>1, <2>2
<1>3. /\ SubSeq(s, i + 1, n) \in Seq(Conn) /\ Len(SubSeq(s, i + 1, n)) = n - i
      /\ \A m \in 1..(n - i) : SubSeq(s, i + 1, n)[m] = s[i + m]
  <2>1. \A m \in (i + 1)..n : s[m] \in Conn
    BY <1>1
  <2>2. /\ SubSeq(s, i + 1, n) \in Seq(Conn)
        /\ Len(SubSeq(s, i + 1, n)) = IF i + 1 <= n THEN n - (i + 1) + 1 ELSE 0
        /\ \A m \in 1..(n - (i + 1) + 1) : SubSeq(s, i + 1, n)[m] = s[(i + 1) + m - 1]
    BY <1>1, <2>1, SubSeqProperties
  <2>3. /\ n - (i + 1) + 1 = n - i
        /\ (IF i + 1 <= n THEN n - (i + 1) + 1 ELSE 0) = n - i
        /\ \A m \in 1..(n - i) : (i + 1) + m - 1 = i + m
    BY <1>1
  <2> DEFINE v == SubSeq(s, i + 1, n)
  <2> HIDE DEF v
  <2>4. Len(v) = n - i
    BY <2>2, <2>3 DEF v
  <2>5. \A m \in 1..(n - i) : v[m] = s[(i + 1) + m - 1]
    BY <2>2, <2>3 DEF v
  <2>6. \A m \in 1..(n - i) : v[m] = s[i + m]
    BY <2>3, <2>5
  <2>7. QED
    BY <2>2, <2>4, <2>6 DEF v
<1>4. /\ r \in Seq(Conn) /\ Len(r) = n - 1
      /\ \A m \in 1..(n - 1) : r[m] = IF m < i THEN s[m] ELSE s[m + 1]
  <2> DEFINE u == SubSeq(s, 1, i - 1)
             v == SubSeq(s, i + 1, n)
  <2>1. r = u \o v
    BY DEF RemoveAt
  <2> HIDE DEF u, v, r
  <2>2. u \in Seq(Conn) /\ v \in Seq(Conn) /\ Len(u) = i - 1 /\ Len(v) = n - i
    BY <1>2, <1>3 DEF u, v
  <2>3. /\ r \in Seq(Conn) /\ Len(r) = Len(u) + Len(v)
        /\ \A m \in 1..(Len(u) + Len(v)) : r[m] = IF m <= Len(u) THEN u[m] ELSE v[m - Len(u)]
    BY <2>1, <2>2, ConcatProperties
  <2>4. Len(r) = n - 1 /\ \A m \in 1..(n - 1) : r[m] = IF m <= i - 1 THEN u[m] ELSE v[m - (i - 1)]
    BY <1>1, <2>2, <2>3
  <2>5. ASSUME NEW m \in 1..(n - 1) PROVE r[m] = IF m < i THEN s[m] ELSE s[m + 1]
    <3>1. CASE m < i
      BY <1>1, <1>2, <2>4, <3>1 DEF u
    <3>2. CASE ~(m < i)
      <4>1. m - (i - 1) \in 1..(n - i) /\ i + (m - (i - 1)) = m + 1 /\ ~(m <= i - 1)
        BY <1>1, <3>2
      <4>2. v[m - (i - 1)] = s[i + (m - (i - 1))]
        BY <1>3, <4>1 DEF v
      <4>3. QED
        BY <2>4, <3>2, <4>1, <4>2
    <3>3. QED
      BY <3>1, <3>2
  <2>6. QED
    BY <2>3, <2>4, <2>5
<1> HIDE DEF r, n
<1>5. DOMAIN r = 1..(n - 1)
  BY <1>1, <1>4
<1>6. \A a, b \in 1..n : s[a] = s[b] => a = b
  BY <1>1 DEF IsInjective
<1>7. \A m \in 1..(n - 1) : m \in 1..n /\ m + 1 \in 1..n
  BY <1>1
<1>8. ASSUME NEW a \in 1..(n - 1), NEW b \in 1..(n - 1), r[a] = r[b] PROVE a = b
  <2>1. r[a] = s[IF a < i THEN a ELSE a + 1] /\ r[b] = s[IF b < i THEN b ELSE b + 1]
    BY <1>4
  <2>2. (IF a < i THEN a ELSE a + 1) = (IF b < i THEN b ELSE b + 1)
    BY <1>6, <1>7, <1>8, <2>1
  <2>3. QED
    BY <1>1, <2>2
<1>9. ToSet(r) = ToSet(s) \ {s[i]}
  <2>1. ASSUME NEW m \in 1..(n - 1) PROVE r[m] \in ToSet(s) /\ r[m] # s[i]
    <3>1. CASE m < i
      <4>1. m \in 1..n /\ m # i /\ r[m] = s[m]
        BY <1>1, <1>4, <1>7, <3>1
      <4>2. QED
        BY <1>1, <1>6, <4>1 DEF ToSet
    <3>2. CASE ~(m < i)
      <4>1. m + 1 \in 1..n /\ m + 1 # i /\ r[m] = s[m + 1]
        BY <1>1, <1>4, <1>7, <3>2
      <4>2. QED
        BY <1>1, <1>6, <4>1 DEF ToSet
    <3>3. QED
      BY <3>1, <3>2
  <2>2. ASSUME NEW h \in 1..n, s[h] # s[i] PROVE \E m \in 1..(n - 1) : r[m] = s[h]
    <3>1. CASE h < i
      <4>1. h \in 1..(n - 1) /\ r[h] = s[h]
        BY <1>1, <1>4, <3>1
      <4>2. QED
        BY <4>1
    <3>2. CASE h > i
      <4>1. h - 1 \in 1..(n - 1) /\ ~(h - 1 < i) /\ (h - 1) + 1 = h
        BY <1>1, <3>2
      <4>2. r[h - 1] = s[h]
        BY <1>4, <4>1
      <4>3. QED
        BY <4>1, <4>2
    <3>3. h # i
      BY <2>2
    <3>4. QED
      BY <1>1, <3>1, <3>2, <3>3
  <2>3. \A x : x \in ToSet(r) <=> \E m \in 1..(n - 1) : r[m] = x
    BY <1>5 DEF ToSet
  <2>4. \A x : x \in ToSet(s) <=> \E h \in 1..n : s[h] = x
    BY <1>1 DEF ToSet
  <2>5. QED
    BY <2>1, <2>2, <2>3, <2>4
<1>10. QED
  BY <1>4, <1>5, <1>8, <1>9 DEF r, IsInjective

LEMMA ListAppended ==
  ASSUME NEW s \in Seq(Conn), IsInjective(s), NEW k \in Conn, k \notin ToSet(s)
  PROVE  /\ Append(s, k) \in Seq(Conn) /\ IsInjective(Append(s, k))
         /\ ToSet(Append(s, k)) = ToSet(s) \union {k}
<1> DEFINE a == Append(s, k)
<1>1. /\ a \in Seq(Conn) /\ Len(s) \in Nat
      /\ DOMAIN a = 1..(Len(s) + 1) /\ DOMAIN s = 1..Len(s)
      /\ \A i \in 1..Len(s) : a[i] = s[i]
      /\ a[Len(s) + 1] = k
  OBVIOUS
<1> HIDE DEF a
<1>2. \A i : i \in DOMAIN a <=> i \in DOMAIN s \/ i = Len(s) + 1
  BY <1>1
<1>3. \A i \in DOMAIN s : a[i] = s[i] /\ s[i] # k
  BY <1>1 DEF ToSet
<1>4. IsInjective(a)
  BY <1>1, <1>2, <1>3 DEF IsInjective
<1>5. ToSet(a) = ToSet(s) \union {k}
  BY <1>1, <1>2, <1>3 DEF ToSet
<1>6. QED
  BY <1>1, <1>4, <1>5 DEF a

(* The order of a dict: each of the tasks has a place in it, one place.    *)
LEMMA OrderHasAll ==
  ASSUME NEW S, IsFiniteSet(S), NEW order \in SetToSeqs(S)
  PROVE  /\ order \in Seq(S)
         /\ \A x \in S : \E i \in DOMAIN order : order[i] = x
         /\ \A i, m \in DOMAIN order : order[i] = order[m] => i = m
<1> DEFINE D == 1..Cardinality(S)
<1>1. Cardinality(S) \in Nat
  BY FS_CardinalityType
<1>2. order \in [D -> S] /\ \A i, m \in D : i # m => order[i] # order[m]
  BY DEF SetToSeqs
<1>3. IsFiniteSet(D) /\ Cardinality(D) = Cardinality(S)
  BY <1>1, FS_Interval
<1> HIDE DEF D
<1>4. order \in Injection(D, S)
  BY <1>2 DEF Injection, IsInjective
<1>5. order \in Surjection(D, S)
  BY <1>3, <1>4, FS_Injection
<1>6. \A x \in S : \E i \in D : order[i] = x
  BY <1>5 DEF Surjection
<1>7. order \in Seq(S)
  BY <1>1, <1>2, IsASeq DEF D
<1>8. QED
  BY <1>2, <1>6, <1>7

------------------------------------------------------------------------------
(* The steps.                                                              *)
EventActions(e) == Start(e) \/ Update(e) \/ Finish(e) \/ Raise(e) \/ Forget(e)

\* What the broadcast of an action is of.
LEMMA EventBroadcasts ==
  ASSUME TypeOK, NEW e \in Event, EventActions(e)
  PROVE  /\ UNCHANGED <<server, page>>
         /\ UNCHANGED <<inbox, missed>> \/ \E finished \in BOOLEAN : Broadcast(e, finished)
<1>1. (life[e] = "done") \in BOOLEAN
  OBVIOUS
<1>2. CASE Start(e) \/ Update(e)
  BY <1>2 DEF Start, Update
<1>3. CASE Finish(e) \/ Raise(e)
  BY <1>3 DEF Finish, Raise, page
<1>4. CASE Forget(e)
  BY <1>1, <1>4 DEF Forget
<1>5. QED
  BY <1>2, <1>3, <1>4 DEF EventActions

LEMMA PageConn ==
  ASSUME TypeOK, NEW b \in Browser
  PROVE  /\ visits[b] \in 0..MaxVisits
         /\ visits[b] > 0 => <<b, visits[b]>> \in Conn
         /\ visits[b] < MaxVisits => <<b, visits[b] + 1>> \in Conn
BY WsAssumption DEF TypeOK, Conn

LEMMA TypeStep ==
  ASSUME TypeOK, StageInv, Registered, InboxInv, IsFiniteSet(Tasks), [Next]_vars
  PROVE  TypeOK'
<1>1. CASE UNCHANGED vars
  BY <1>1 DEF vars, TypeOK
<1>2. ASSUME NEW e \in Event, EventActions(e) PROVE TypeOK'
  <2>1. UNCHANGED <<server, page>>
    BY <1>2, EventBroadcasts
  <2>2. life' \in [Event -> {"new", "live", "done", "over", "raised", "lost"}]
    BY <1>2 DEF EventActions, Start, Update, Finish, Raise, Forget, TypeOK
  <2>3. inbox' \in [Conn -> Seq(Msg)] /\ missed' \subseteq Conn
    <3>1. CASE UNCHANGED <<inbox, missed>>
      BY <3>1 DEF TypeOK
    <3>2. CASE \E finished \in BOOLEAN : Broadcast(e, finished)
      BY <3>2, BroadcastReaches
    <3>3. QED
      BY <1>2, <3>1, <3>2, EventBroadcasts
  <2>4. QED
    BY <2>1, <2>2, <2>3 DEF TypeOK, server, page
<1>3. ASSUME NEW k \in Conn, Authorised(k) PROVE TypeOK'
  <2>1. PICK order \in SetToSeqs(Tasks) :
          inbox' = [inbox EXCEPT ![k] =
              [i \in DOMAIN order |-> Message(order[i], life[order[i]] = "done")]]
    BY <1>3 DEF Authorised
  <2>2. order \in Seq(Event)
    <3>1. order \in Seq(Tasks)
      BY OrderHasAll
    <3>2. QED
      BY <3>1 DEF Tasks
  <2> DEFINE q == [i \in DOMAIN order |-> Message(order[i], life[order[i]] = "done")]
  <2>3. q \in Seq(Msg)
    <3>1. Len(order) \in Nat /\ DOMAIN order = 1..Len(order) /\ \A i \in DOMAIN order : order[i] \in Event
      BY <2>2
    <3>2. \A i \in 1..Len(order) : q[i] \in Msg
      BY <3>1 DEF Message, Msg
    <3>3. q = [i \in 1..Len(order) |-> q[i]]
      BY <3>1
    <3> HIDE DEF q
    <3>4. QED
      BY <3>1, <3>2, <3>3, IsASeq
  <2> HIDE DEF q
  <2>4. inbox' \in [Conn -> Seq(Msg)]
    BY <2>1, <2>3 DEF q, TypeOK
  <2>5. connections' \in Seq(Conn)
    BY <1>3, AppendProperties DEF Authorised, TypeOK
  <2>6. QED
    BY <1>3, <2>4, <2>5 DEF Authorised, TypeOK, page
<1>4. ASSUME NEW k \in Conn, Close(k) PROVE TypeOK'
  BY <1>4 DEF Close, TypeOK
<1>5. ASSUME NEW k \in Conn, HandlerEnds(k) PROVE TypeOK'
  <2>1. connections' \in Seq(Conn)
    BY <1>5, ListRemoved DEF HandlerEnds, TypeOK, Registered
  <2>2. QED
    BY <1>5, <2>1 DEF HandlerEnds, TypeOK, page
<1>6. ASSUME NEW k \in Conn, HandlerRaises(k) PROVE TypeOK'
  <2>1. stage' \in [Conn -> {"none", "auth", "open", "closing", "ended", "raised"}]
    BY <1>6 DEF HandlerRaises, TypeOK
  <2>2. online' \subseteq Browser
    BY <1>6 DEF HandlerRaises, TypeOK
  <2>3. QED
    BY <1>6, <2>1, <2>2 DEF HandlerRaises, TypeOK
<1>7. ASSUME NEW b \in Browser, Connect(b) PROVE TypeOK'
  <2>1. visits' \in [Browser -> 0..MaxVisits]
    BY <1>7, PageConn, WsAssumption DEF Connect, TypeOK
  <2>2. stage' \in [Conn -> {"none", "auth", "open", "closing", "ended", "raised"}]
    BY <1>7 DEF Connect, TypeOK
  <2>3. QED
    BY <1>7, <2>1, <2>2 DEF Connect, TypeOK
<1>8. ASSUME NEW b \in Browser, TaskUpdate(b) PROVE TypeOK'
  <2>1. <<b, visits[b]>> \in Conn
    BY <1>8, PageConn DEF TaskUpdate, StageInv
  <2>2. inbox' \in [Conn -> Seq(Msg)]
    BY <1>8, <2>1 DEF TaskUpdate, TypeOK
  <2>3. Head(inbox[<<b, visits[b]>>]).event \in Event
    <3>1. inbox[<<b, visits[b]>>] \in Seq(Msg) /\ inbox[<<b, visits[b]>>] # <<>>
      BY <1>8, <2>1 DEF TaskUpdate, TypeOK
    <3>2. Head(inbox[<<b, visits[b]>>]) \in Msg
      BY <3>1
    <3>3. QED
      BY <3>2 DEF Msg
  <2>4. elements' \in [Browser -> SUBSET Event]
    BY <1>8, <2>3 DEF TaskUpdate, TypeOK
  <2>5. QED
    BY <1>8, <2>2, <2>4 DEF TaskUpdate, TypeOK, server
<1>9. QED
  BY <1>1, <1>2, <1>3, <1>4, <1>5, <1>6, <1>7, <1>8
     DEF Next, EventNext, EventActions, ConnNext, PageNext

(* The list of connections, _ws_user_map, the handlers and what is under   *)
(* way keep together.                                                      *)
LEMMA ServerStep ==
  ASSUME TypeOK, StageInv, Registered, InboxInv, IsFiniteSet(Tasks), [Next]_vars
  PROVE  StageInv' /\ Registered' /\ InboxInv'
<1>1. CASE UNCHANGED vars
  BY <1>1 DEF vars, StageInv, Registered, InboxInv
<1>2. ASSUME NEW e \in Event, EventActions(e) PROVE StageInv' /\ Registered' /\ InboxInv'
  <2>1. UNCHANGED <<server, page>>
    BY <1>2, EventBroadcasts
  <2>2. \A k \in Conn : stage[k] # "open" => inbox'[k] = inbox[k]
    <3>1. CASE \E finished \in BOOLEAN : Broadcast(e, finished)
      BY <3>1, BroadcastReaches
    <3>2. QED
      BY <1>2, <3>1, EventBroadcasts
  <2>3. QED
    BY <2>1, <2>2 DEF StageInv, Registered, InboxInv, server, page
<1>3. ASSUME NEW k \in Conn, Authorised(k) PROVE StageInv' /\ Registered' /\ InboxInv'
  <2>1. stage[k] = "auth" /\ stage' = [stage EXCEPT ![k] = "open"]
    BY <1>3 DEF Authorised
  <2>2. k \notin ToSet(connections)
    BY <2>1 DEF Registered
  <2>3. IsInjective(connections') /\ ToSet(connections') = ToSet(connections) \union {k}
    BY <1>3, <2>2, ListAppended DEF Authorised, TypeOK, Registered
  <2>4. Registered'
    <3>1. users' = users \union {k}
      BY <1>3 DEF Authorised
    <3>2. \A h \in Conn : stage'[h] = IF h = k THEN "open" ELSE stage[h]
      BY <2>1 DEF TypeOK
    <3>3. QED
      BY <2>3, <3>1, <3>2 DEF Registered
  <2>5. StageInv'
    BY <1>3, <2>1 DEF Authorised, TypeOK, StageInv, page
  <2>6. \A h \in Conn : h # k => inbox'[h] = inbox[h]
    BY <1>3 DEF Authorised, TypeOK
  <2>7. QED
    BY <2>1, <2>4, <2>5, <2>6 DEF InboxInv, TypeOK
<1>4. ASSUME NEW k \in Conn, Close(k) PROVE StageInv' /\ Registered' /\ InboxInv'
  BY <1>4 DEF Close, TypeOK, StageInv, Registered, InboxInv
<1>5. ASSUME NEW k \in Conn, HandlerEnds(k) PROVE StageInv' /\ Registered' /\ InboxInv'
  <2>1. stage[k] = "closing" /\ stage' = [stage EXCEPT ![k] = "ended"]
    BY <1>5 DEF HandlerEnds
  <2>2. IsInjective(connections') /\ ToSet(connections') = ToSet(connections) \ {k}
    BY <1>5, ListRemoved DEF HandlerEnds, TypeOK, Registered
  <2>3. Registered'
    BY <1>5, <2>1, <2>2 DEF HandlerEnds, TypeOK, Registered
  <2>4. QED
    BY <1>5, <2>1, <2>3 DEF HandlerEnds, TypeOK, StageInv, InboxInv, page
<1>6. ASSUME NEW k \in Conn, HandlerRaises(k) PROVE StageInv' /\ Registered' /\ InboxInv'
  BY <1>6 DEF HandlerRaises, TypeOK, StageInv, Registered, InboxInv
<1>7. ASSUME NEW b \in Browser, Connect(b) PROVE StageInv' /\ Registered' /\ InboxInv'
  <2> DEFINE new == <<b, visits[b] + 1>>
  <2>1. new \in Conn /\ visits[b] \in Nat
    <3>1. visits[b] \in 0..MaxVisits
      BY PageConn
    <3>2. visits[b] < MaxVisits
      BY <1>7 DEF Connect
    <3>3. new \in Conn
      BY <3>2, PageConn
    <3>4. \A i \in 0..MaxVisits : i \in Nat
      OBVIOUS
    <3>5. QED
      BY <3>1, <3>3, <3>4
  <2>2. stage[new] = "none"
    BY <2>1 DEF StageInv
  <2>3. stage' = [stage EXCEPT ![new] = "auth"]
    BY <1>7 DEF Connect
  <2>4. Registered'
    BY <1>7, <2>1, <2>2, <2>3 DEF Connect, TypeOK, Registered
  <2>5. InboxInv'
    BY <1>7, <2>1, <2>2, <2>3 DEF Connect, TypeOK, InboxInv
  <2>6. ASSUME NEW k \in Conn, k[2] > visits'[k[1]] PROVE stage'[k] = "none"
    <3>1. k[1] \in Browser /\ k[2] \in Nat
      BY DEF Conn
    <3>2. k # new /\ k[2] > visits[k[1]]
      BY <1>7, <2>1, <2>6, <3>1 DEF Connect, TypeOK
    <3>3. QED
      BY <2>3, <3>2 DEF StageInv, TypeOK
  <2>7. \A c \in online' : visits'[c] > 0
    BY <1>7, <2>1 DEF Connect, TypeOK, StageInv
  <2>8. QED
    BY <2>4, <2>5, <2>6, <2>7 DEF StageInv
<1>8. ASSUME NEW b \in Browser, TaskUpdate(b) PROVE StageInv' /\ Registered' /\ InboxInv'
  BY <1>8 DEF TaskUpdate, TypeOK, StageInv, Registered, InboxInv, server
<1>9. QED
  BY <1>1, <1>2, <1>3, <1>4, <1>5, <1>6, <1>7, <1>8
     DEF Next, EventNext, EventActions, ConnNext, PageNext

LEMMA TasksStep ==
  ASSUME TypeOK, IsFiniteSet(Tasks), [Next]_vars
  PROVE  IsFiniteSet(Tasks')
<1>1. CASE UNCHANGED life
  <2>1. Tasks' = Tasks
    BY <1>1 DEF Tasks
  <2>2. QED
    BY <2>1
<1>2. ASSUME NEW e \in Event, EventActions(e) PROVE IsFiniteSet(Tasks')
  <2>1. Tasks' \subseteq Tasks \union {e}
    BY <1>2 DEF EventActions, Start, Update, Finish, Raise, Forget, Tasks, TypeOK
  <2>2. IsFiniteSet(Tasks \union {e})
    BY FS_AddElement
  <2>3. QED
    BY <2>1, <2>2, FS_Subset
<1>3. (\E k \in Conn : ConnNext(k)) \/ (\E b \in Browser : PageNext(b)) => UNCHANGED life
  BY DEF ConnNext, PageNext, Authorised, Close, HandlerEnds, HandlerRaises, Connect, TaskUpdate
<1>4. QED
  BY <1>1, <1>2, <1>3 DEF Next, EventNext, EventActions, vars

------------------------------------------------------------------------------
(* Every task is announced once to a connection that is registered.        *)
LEMMA AgreesAnnounced ==
  ASSUME TypeOK, IsFiniteSet(Tasks), NEW order \in SetToSeqs(Tasks), NEW e \in Event
  PROVE  Agrees(life[e], {},
                [i \in DOMAIN order |-> Message(order[i], life[order[i]] = "done")], e)
<1> DEFINE q == [i \in DOMAIN order |-> Message(order[i], life[order[i]] = "done")]
<1>1. /\ DOMAIN order \subseteq Nat \ {0}
      /\ \A i \in DOMAIN order : order[i] \in Tasks
      /\ \A x \in Tasks : \E i \in DOMAIN order : order[i] = x
      /\ \A i, m \in DOMAIN order : order[i] = order[m] => i = m
  <2>1. order \in Seq(Tasks)
    BY OrderHasAll
  <2>2. DOMAIN order = 1..Len(order) /\ Len(order) \in Nat
    BY <2>1
  <2>3. DOMAIN order \subseteq Nat \ {0} /\ \A i \in DOMAIN order : order[i] \in Tasks
    BY <2>1, <2>2
  <2>4. QED
    BY <2>3, OrderHasAll
<1>2. /\ DOMAIN q = DOMAIN order
      /\ \A i \in DOMAIN q : q[i].event = order[i]
      /\ \A i \in DOMAIN q : q[i].finished <=> life[order[i]] = "done"
  BY DEF Message
<1> HIDE DEF q
<1>3. CASE e \notin Tasks
  <2>1. About(q, e) = {}
    BY <1>1, <1>2, <1>3 DEF About
  <2>2. life[e] \notin {"live", "done", "raised"}
    BY <1>3 DEF Tasks
  <2>3. QED
    BY <2>1, <2>2 DEF Agrees, q
<1>4. CASE e \in Tasks
  <2>1. PICK i \in DOMAIN order : order[i] = e
    BY <1>1, <1>4
  <2>2. About(q, e) = {i} /\ i # 0
    BY <1>1, <1>2, <2>1 DEF About
  <2>3. Final(q, e) = IF life[e] = "done" THEN {i} ELSE {}
    BY <1>1, <1>2, <2>1 DEF Final
  <2>4. life[e] \in {"live", "raised"} => Stays({}, q, e, 0)
    BY <2>2, <2>3 DEF Stays
  <2>5. life[e] = "done" => Late({}, q, e, 0)
    BY <2>2 DEF Late
  <2>6. QED
    BY <1>4, <2>4, <2>5 DEF Agrees, Tasks, q
<1>5. QED
  BY <1>3, <1>4

(* What a broadcast about an event that moves on leaves a page with.       *)
LEMMA AgreesBroadcast ==
  ASSUME TypeOK, Registered, NEW e \in Event, EventActions(e), NEW k \in Conn,
         stage[k] = "open", k \notin missed', NEW shown, NEW h \in Event,
         Agrees(life[h], shown, inbox[k], h)
  PROVE  k \notin missed /\ Agrees(life'[h], shown, inbox'[k], h)
<1>1. inbox[k] \in Seq(Msg)
  BY DEF TypeOK
<1>2. \A s \in BOOLEAN : Message(e, s) \in Msg /\ Message(e, s).event = e
  BY DEF Message, Msg
<1>3. \A x \in Event \ {e} : life'[x] = life[x]
  BY DEF EventActions, Start, Update, Finish, Raise, Forget, TypeOK
<1>4. k \notin missed
  BY BroadcastReaches, EventBroadcasts
<1>5. ASSUME NEW finished \in BOOLEAN, Broadcast(e, finished)
      PROVE  /\ inbox'[k] = Append(inbox[k], Message(e, finished))
             /\ h # e => Agrees(life'[h], shown, inbox'[k], h)
  <2>1. inbox'[k] = Append(inbox[k], Message(e, finished))
    BY <1>5, BroadcastReaches
  <2>2. CASE h # e
    BY <1>1, <1>2, <1>3, <2>1, <2>2, AgreesOther
  <2>3. QED
    BY <2>1, <2>2
<1>6. CASE Start(e) \/ Update(e)
  <2>1. Broadcast(e, FALSE)
    BY <1>6 DEF Start, Update
  <2>2. \/ life[e] \in {"new", "live", "raised"} /\ life'[e] \in {"live", "raised"}
        \/ life'[e] = "lost"
    BY <1>6 DEF Start, Update, TypeOK
  <2>3. CASE h = e
    <3>1. inbox'[k] = Append(inbox[k], Message(e, FALSE))
      BY <1>5, <2>1
    <3>2. QED
      BY <1>1, <1>4, <2>2, <2>3, <3>1, AgreesUpdate, AgreesLost
  <2>4. CASE h # e
    BY <1>4, <1>5, <2>1, <2>4
  <2>5. QED
    BY <2>3, <2>4
<1>7. CASE Finish(e) \/ Raise(e)
  <2>1. inbox'[k] = inbox[k]
    BY <1>7 DEF Finish, Raise
  <2>2. life[e] = "live" /\ life'[e] \in {"done", "raised"}
    BY <1>7 DEF Finish, Raise, TypeOK
  <2>3. QED
    BY <1>3, <1>4, <2>1, <2>2 DEF Agrees
<1>8. CASE Forget(e)
  <2>1. CASE life[e] = "done"
    <3>1. Broadcast(e, TRUE) /\ life'[e] = "over"
      <4>1. (life[e] = "done") = TRUE
        BY <2>1
      <4>2. QED
        BY <1>8, <2>1, <4>1 DEF Forget, TypeOK
    <3>2. inbox'[k] = Append(inbox[k], Message(e, TRUE))
      BY <1>5, <3>1
    <3>3. h = e => Agrees(life'[h], shown, inbox'[k], h)
      BY <1>1, <2>1, <3>1, <3>2, AgreesForget
    <3>4. QED
      BY <1>4, <1>5, <3>1, <3>3
  <2>2. CASE life[e] # "done"
    <3>1. Broadcast(e, FALSE) /\ life'[e] = "lost"
      <4>1. (life[e] = "done") = FALSE
        BY <2>2
      <4>2. QED
        BY <1>8, <2>2, <4>1 DEF Forget, TypeOK
    <3>2. h = e => Agrees(life'[h], shown, inbox'[k], h)
      BY <3>1, AgreesLost
    <3>3. QED
      BY <1>4, <1>5, <3>1, <3>2
  <2>3. QED
    BY <2>1, <2>2
<1>9. QED
  BY <1>6, <1>7, <1>8 DEF EventActions

\* What PageInv says of one page.
PageOf(b) ==
    LET k == <<b, visits[b]>>
    IN  /\ stage[k] = "auth" => elements[b] = {}
        /\ stage[k] = "open" /\ k \notin missed =>
              \A e \in Event : Agrees(life[e], elements[b], inbox[k], e)

LEMMA PageStep ==
  ASSUME TypeOK, StageInv, Registered, InboxInv, IsFiniteSet(Tasks), PageInv, [Next]_vars
  PROVE  PageInv'
<1>1. \A b \in online : <<b, visits[b]>> \in Conn /\ PageOf(b)
  BY PageConn DEF TypeOK, StageInv, PageInv, PageOf
<1>2. ASSUME UNCHANGED vars PROVE PageInv'
  BY <1>2 DEF vars, PageInv, Agrees
<1>3. ASSUME NEW e \in Event, EventActions(e) PROVE PageInv'
  <2>1. UNCHANGED <<server, page>>
    BY <1>3, EventBroadcasts
  <2> SUFFICES ASSUME NEW b \in online, NEW k, k = <<b, visits[b]>>
               PROVE  /\ stage[k] = "auth" => elements[b] = {}
                      /\ stage[k] = "open" /\ k \notin missed' =>
                            \A h \in Event : Agrees(life'[h], elements[b], inbox'[k], h)
    BY <2>1 DEF PageInv, server, page
  <2>2. k \in Conn /\ PageOf(b)
    BY <1>1
  <2>3. ASSUME stage[k] = "open", k \notin missed', NEW h \in Event
        PROVE  Agrees(life'[h], elements[b], inbox'[k], h)
    <3>1. k \notin missed
      <4>1. missed \subseteq missed'
        BY <1>3, BroadcastReaches, EventBroadcasts
      <4>2. QED
        BY <2>3, <4>1
    <3>2. Agrees(life[h], elements[b], inbox[k], h)
      BY <2>2, <2>3, <3>1 DEF PageOf
    <3>3. QED
      BY <1>3, <2>2, <2>3, <3>2, AgreesBroadcast
  <2>4. QED
    BY <2>2, <2>3 DEF PageOf
<1>4. ASSUME NEW k \in Conn, Authorised(k) PROVE PageInv'
  <2>1. PICK order \in SetToSeqs(Tasks) :
          inbox' = [inbox EXCEPT ![k] =
              [i \in DOMAIN order |-> Message(order[i], life[order[i]] = "done")]]
    BY <1>4 DEF Authorised
  <2>2. stage[k] = "auth" /\ stage' = [stage EXCEPT ![k] = "open"]
        /\ UNCHANGED <<life, visits, online, elements, missed>>
    BY <1>4 DEF Authorised, page
  <2> SUFFICES ASSUME NEW b \in online, NEW h, h = <<b, visits[b]>>
               PROVE  /\ stage'[h] = "auth" => elements[b] = {}
                      /\ stage'[h] = "open" /\ h \notin missed =>
                            \A e \in Event : Agrees(life[e], elements[b], inbox'[h], e)
    BY <2>2 DEF PageInv
  <2>3. h \in Conn /\ PageOf(b)
    BY <1>1
  <2>4. CASE h = k
    <3>1. elements[b] = {} /\ stage'[h] = "open"
      BY <2>2, <2>3, <2>4 DEF PageOf, TypeOK
    <3>2. inbox'[h] = [i \in DOMAIN order |-> Message(order[i], life[order[i]] = "done")]
      BY <2>1, <2>4 DEF TypeOK
    <3>3. QED
      BY <3>1, <3>2, AgreesAnnounced
  <2>5. CASE h # k
    <3>1. stage'[h] = stage[h] /\ inbox'[h] = inbox[h]
      BY <2>1, <2>2, <2>3, <2>5 DEF TypeOK
    <3>2. QED
      BY <2>3, <3>1 DEF PageOf
  <2>6. QED
    BY <2>4, <2>5
<1>5. ASSUME NEW k \in Conn, Close(k) \/ HandlerEnds(k) \/ HandlerRaises(k) PROVE PageInv'
  <2>1. /\ UNCHANGED <<life, visits, elements, missed>> /\ online' \subseteq online
        /\ \A h \in Conn : h # k => stage'[h] = stage[h] /\ inbox'[h] = inbox[h]
        /\ stage'[k] \notin {"auth", "open"}
    BY <1>5 DEF Close, HandlerEnds, HandlerRaises, page, TypeOK
  <2> SUFFICES ASSUME NEW b \in online, NEW h, h = <<b, visits[b]>>
               PROVE  /\ stage'[h] = "auth" => elements[b] = {}
                      /\ stage'[h] = "open" /\ h \notin missed =>
                            \A e \in Event : Agrees(life[e], elements[b], inbox'[h], e)
    BY <2>1 DEF PageInv
  <2>2. h \in Conn /\ PageOf(b)
    BY <1>1
  <2>3. QED
    BY <2>1, <2>2 DEF PageOf
<1>6. ASSUME NEW b \in Browser, Connect(b) PROVE PageInv'
  <2> DEFINE new == <<b, visits[b] + 1>>
  <2>1. new \in Conn
    BY <1>6, PageConn DEF Connect
  <2>2. /\ UNCHANGED <<life, inbox, missed>> /\ online' = online \union {b}
        /\ stage'[new] = "auth" /\ \A h \in Conn : h # new => stage'[h] = stage[h]
        /\ elements'[b] = {} /\ visits'[b] = visits[b] + 1
        /\ \A c \in Browser : c # b => elements'[c] = elements[c] /\ visits'[c] = visits[c]
    BY <1>6, <2>1 DEF Connect, TypeOK
  <2> HIDE DEF new
  <2> SUFFICES ASSUME NEW c \in online', NEW h, h = <<c, visits'[c]>>
               PROVE  /\ stage'[h] = "auth" => elements'[c] = {}
                      /\ stage'[h] = "open" /\ h \notin missed =>
                            \A e \in Event : Agrees(life[e], elements'[c], inbox[h], e)
    BY <2>2 DEF PageInv
  <2>3. CASE c = b
    BY <2>2, <2>3 DEF new
  <2>4. CASE c # b
    <3>1. c \in online /\ h = <<c, visits[c]>> /\ elements'[c] = elements[c]
      BY <2>2, <2>4 DEF TypeOK
    <3>2. h \in Conn /\ PageOf(c) /\ h # new
      BY <1>1, <2>4, <3>1 DEF new
    <3>3. QED
      BY <2>2, <3>1, <3>2 DEF PageOf
  <2>5. QED
    BY <2>3, <2>4
<1>7. ASSUME NEW b \in Browser, TaskUpdate(b) PROVE PageInv'
  <2> DEFINE k == <<b, visits[b]>>
             q == inbox[k]
             m == Head(q)
  <2>1. b \in online /\ k \in Conn /\ PageOf(b)
    BY <1>1, <1>7 DEF TaskUpdate
  <2>2. q \in Seq(Msg) /\ q # <<>>
    BY <1>7, <2>1 DEF TaskUpdate, TypeOK
  <2>3. stage[k] = "open"
    BY <2>1, <2>2 DEF InboxInv
  <2>4. /\ UNCHANGED <<life, stage, visits, online, missed>>
        /\ inbox'[k] = Tail(q) /\ \A h \in Conn : h # k => inbox'[h] = inbox[h]
        /\ elements'[b] = Handled(elements[b], m)
        /\ \A c \in Browser : c # b => elements'[c] = elements[c]
    BY <1>7, <2>1 DEF TaskUpdate, TypeOK, Handled, server
  <2> SUFFICES ASSUME NEW c \in online, NEW h, h = <<c, visits[c]>>
               PROVE  /\ stage[h] = "auth" => elements'[c] = {}
                      /\ stage[h] = "open" /\ h \notin missed =>
                            \A e \in Event : Agrees(life[e], elements'[c], inbox'[h], e)
    BY <2>4 DEF PageInv
  <2>5. h \in Conn /\ PageOf(c)
    BY <1>1
  <2>6. CASE c = b
    <3>1. h = k
      BY <2>6
    <3>2. ASSUME h \notin missed, NEW e \in Event
          PROVE  Agrees(life[e], Handled(elements[b], m), Tail(q), e)
      <4>1. Agrees(life[e], elements[b], q, e)
        BY <2>1, <2>3, <3>1, <3>2 DEF PageOf
      <4>2. QED
        BY <2>2, <4>1, AgreesReceived
    <3>3. QED
      BY <2>3, <2>4, <2>6, <3>1, <3>2
  <2>7. CASE c # b
    <3>1. h # k /\ elements'[c] = elements[c]
      BY <2>4, <2>7 DEF TypeOK
    <3>2. QED
      BY <2>4, <2>5, <3>1 DEF PageOf
  <2>8. QED
    BY <2>6, <2>7
<1>8. QED
  BY <1>2, <1>3, <1>4, <1>5, <1>6, <1>7
     DEF Next, EventNext, EventActions, ConnNext, PageNext

------------------------------------------------------------------------------
LEMMA Inductive == Spec => []IInv
<1>1. Init => IInv
  <2>1. Init => Tasks = {}
    BY DEF Init, Tasks
  <2>2. Init => IsFiniteSet(Tasks)
    BY <2>1, FS_EmptySet
  <2>3. Init => TypeOK
    BY WsAssumption DEF Init, TypeOK
  <2>4. Init => Registered
    BY DEF Init, Registered, IsInjective, ToSet
  <2>5. QED
    BY <2>2, <2>3, <2>4 DEF Init, IInv, StageInv, InboxInv, PageInv
<1>2. IInv /\ [Next]_vars => IInv'
  BY TypeStep, ServerStep, TasksStep, PageStep DEF IInv
<1>3. QED
  BY <1>1, <1>2, PTL DEF Spec

(* Every variable keeps to its type: a connection is registered by its own *)
(* handler only, and a message is sent about an event of the daemon.       *)
THEOREM TypeCorrect == Spec => []TypeOK
<1>1. IInv => TypeOK
  BY DEF IInv
<1>2. QED
  BY <1>1, Inductive, PTL

(* Service.connections and _ws_user_map agree, whatever handlers end,      *)
(* raise or are cancelled: each connection is listed once, and those are   *)
(* listed whose handler is in its loop or raised in it.                    *)
THEOREM RegisteredCorrect == Spec => []Registered
<1>1. IInv => Registered
  BY DEF IInv
<1>2. QED
  BY <1>1, Inductive, PTL

(* A page that has received all that was sent to it shows every event of   *)
(* the daemon, although a finished event that it was told of late gets an  *)
(* element: the announcement that the event is over is still to come.  It  *)
(* shows no other event but ones whose run raised.                         *)
THEOREM PageCurrentCorrect == Spec => []PageCurrent
<1>1. ASSUME IInv PROVE PageCurrent
  <2> SUFFICES ASSUME NEW b \in online, NEW k, k = <<b, visits[b]>>,
                      stage[k] = "open", inbox[k] = <<>>, k \notin missed
               PROVE  Tasks \subseteq elements[b] /\ elements[b] \subseteq Tasks \union Lost
    BY DEF PageCurrent
  <2>1. \A e \in Event : Agrees(life[e], elements[b], <<>>, e)
    BY <1>1 DEF IInv, PageInv
  <2>2. \A e : About(<<>>, e) = {} /\ Final(<<>>, e) = {}
    BY DEF About, Final
  <2>3. /\ elements[b] \subseteq Event
        /\ \A e \in Event : life[e] \in {"new", "live", "done", "over", "raised", "lost"}
    BY <1>1 DEF IInv, TypeOK
  <2>4. \A e \in Event : /\ life[e] \in {"live", "done", "raised"} => e \in elements[b]
                         /\ life[e] \in {"new", "over"} => e \notin elements[b]
    BY <2>1, <2>2 DEF Agrees, Stays, Late
  <2>5. QED
    BY <2>3, <2>4 DEF Tasks, Lost
<1>2. QED
  BY <1>1, Inductive, PTL

==============================================================================
