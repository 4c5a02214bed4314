---------------------------- MODULE CommonProofs ----------------------------
(***************************************************************************)
(* Proofs about the clients of rci/common: the SSH connections of the      *)
(* scripts, for any scripts, any number of connections and any number of   *)
(* tries, and then the client of the cloud, for any number of callers and  *)
(* any delays that leave time for a login before the token expires.        *)
(***************************************************************************)
EXTENDS SshConnection, OpenStackClient, SequenceTheorems, TLAPS

(* The places in _ensure_connected.  A task is in that of the jump host    *)
(* exactly while it holds its lock.                                        *)
Trying == {"check", "tcp", "auth", "up"}

LockInv ==
    /\ \A s \in Script :
          /\ task[s].at \in {s, jump}
          /\ task[s].at = jump <=> s \in holder
          /\ task[s].at = jump => task[s].pc \in Trying
          /\ task[s].pc = "check" => task[s].at = jump
    /\ \A s, t \in holder : s = t

(* What a task knows of the connection it deals with.                      *)
AttemptInv(s) ==
    /\ task[s].pc = "tcp" => ~connected[task[s].at]
    /\ task[s].pc = "tcp" /\ task[s].at = s /\ s \in Jumped =>
          task[s].uses \in 1..made /\ owner[task[s].uses] = jump
    /\ task[s].pc \in {"auth", "up"} =>
          /\ task[s].uses \in 1..made
          /\ owner[task[s].uses] = task[s].at
          /\ connected[task[s].at] <=> task[s].uses \in open
          /\ \A c \in open : owner[c] = task[s].at => c = task[s].uses
    /\ task[s].pc \in {"opening", "running"} =>
          task[s].uses \in 1..made /\ owner[task[s].uses] = s

(* An object nobody connects has at most the connection it knows of.       *)
HostInv(h) ==
    /\ connected[h] <=> conn[h] \in open /\ owner[conn[h]] = h
    /\ \A c \in open : owner[c] = h => c = conn[h]

TunnelInv ==
    \A c \in open : owner[c] \in Jumped => via[c] \in 1..made /\ owner[via[c]] = jump

IInv ==
    /\ TypeOK
    /\ LockInv
    /\ \A s \in Script : AttemptInv(s)
    /\ \A h \in Host : ~Connecting(h) => HostInv(h)
    /\ TunnelInv

------------------------------------------------------------------------------
(* No two tasks are in _ensure_connected of one object.                    *)
LEMMA OneTask ==
  ASSUME LockInv, NEW s \in Script, NEW t \in Script, task[s].at = task[t].at
  PROVE  s = t
  BY SshAssumption DEF LockInv

LEMMA NotConnecting ==
  ASSUME LockInv, NEW s \in Script, task[s].pc \notin {"auth", "up"}
  PROVE  ~Connecting(task[s].at)
  BY OneTask DEF Connecting

LEMMA OpenMade == TypeOK => open \subseteq 1..made /\ 1..made \subseteq Conn
<1> SUFFICES ASSUME TypeOK PROVE 1..made \subseteq Conn
  BY DEF TypeOK
<1>1. made \in Nat /\ MaxConn \in Nat /\ made <= MaxConn
  BY SshAssumption DEF TypeOK
<1> QED
  BY <1>1 DEF Conn

(* The task when _ensure_connected has returned.                           *)
LEMMA ConnectedResult ==
  ASSUME TypeOK, NEW s \in Script, NEW c \in Conn
  PROVE  LET r == Connected(s, c)
         IN  /\ r \in Task
             /\ r.at = s
             /\ r.pc \in {"enter", "opening"}
             /\ r.pc = "opening" => r.uses = c
<1>1. s \in Host /\ task[s] \in Task /\ 0 \in 0..MaxTries
  BY SshAssumption DEF TypeOK, Host
<1> QED
  BY <1>1 DEF Connected, At, Task, Place

(* The task after Own: in run(), with the connection of its object, or     *)
(* about to connect.                                                       *)
LEMMA OwnResult ==
  ASSUME TypeOK, NEW s \in Script, NEW tunnel \in Conn \union {NoConn}
  PROVE  LET r == Own(s, tunnel)
         IN  /\ r \in Task
             /\ r.at = s
             /\ r.pc \in {"enter", "opening", "tcp"}
             /\ r.pc = "tcp" => ~connected[s] /\ r.uses = tunnel
             /\ r.pc = "opening" => connected[s] /\ r.uses = conn[s]
<1>1. conn[s] \in Conn \union {NoConn} /\ s \in Host /\ task[s] \in Task /\ 0 \in 0..MaxTries
  BY SshAssumption DEF TypeOK, Host
<1> QED
  BY <1>1 DEF Own, Connected, At, Task, Place

(* A step that touches one task and the lock only.                         *)
LEMMA TaskStep ==
  ASSUME IInv, NEW s \in Script, TypeOK', LockInv', AttemptInv(s)',
         \A t \in Script : t # s => task'[t] = task[t],
         UNCHANGED <<connected, conn, net>>,
         \A h \in Host : Connecting(h) => Connecting(h)' \/ HostInv(h)
  PROVE  IInv'
<1>1. \A t \in Script : AttemptInv(t)'
  <2> SUFFICES ASSUME NEW t \in Script, t # s PROVE AttemptInv(t)'
    OBVIOUS
  <2> QED
    BY DEF IInv, AttemptInv, net
<1>2. \A h \in Host : HostInv(h) => HostInv(h)'
  BY DEF HostInv, net
<1>3. TunnelInv'
  BY DEF IInv, TunnelInv, net
<1> QED
  BY <1>1, <1>2, <1>3 DEF IInv

------------------------------------------------------------------------------
LEMMA IInvInit == Init => IInv
<1> SUFFICES ASSUME Init PROVE IInv
  OBVIOUS
<1> USE SshAssumption
<1>1. \A s \in Script : At(s, "enter", "wait", "none") \in Task
  BY DEF At, Task, Place, Host
<1>2. TypeOK
  <2>1. task \in [Script -> Task] /\ holder \subseteq Jumped /\ queue \in Seq(Jumped)
    BY <1>1 DEF Init
  <2>2. 1 \in Conn /\ made \in 1..MaxConn /\ open \subseteq 1..made
    BY DEF Init, Conn
  <2>3. connected \in [Host -> BOOLEAN] /\ conn \in [Host -> Conn \union {NoConn}]
    BY <2>2 DEF Init
  <2>4. owner \in [Conn -> Host] /\ via \in [Conn -> Conn \union {NoConn}]
    BY DEF Init, Host
  <2> QED
    BY <2>1, <2>2, <2>3, <2>4 DEF TypeOK
<1>3. LockInv
  BY DEF Init, LockInv, At
<1>4. \A s \in Script : AttemptInv(s)
  BY DEF Init, AttemptInv, At
<1>5. \A h \in Host : HostInv(h)
  <2>1. \A h \in Host : conn[h] = IF h = jump THEN 1 ELSE 0
    BY DEF Init, NoConn
  <2>2. open = {1} /\ owner[1] = jump /\ \A h \in Host : connected[h] = (h = jump)
    BY DEF Init, Conn
  <2> QED
    BY <2>1, <2>2 DEF HostInv
<1>6. TunnelInv
  BY DEF Init, TunnelInv, Conn
<1> QED
  BY <1>2, <1>3, <1>4, <1>5, <1>6 DEF IInv

------------------------------------------------------------------------------
(* The steps by which a task enters _ensure_connected or waits for it.     *)
LEMMA EnterStep ==
  ASSUME IInv, NEW s \in Script, Enter(s) \/ Grant(s)
  PROVE  IInv'
<1> USE SshAssumption DEF IInv
<1>1. task[s].pc \in {"enter", "queued"} /\ task[s].at = s /\ s \notin holder
  BY DEF Enter, Grant, LockInv, Trying
<1>2. UNCHANGED <<connected, conn, net>>
  BY DEF Enter, Grant
<1>3. \A t \in Script : t # s => task'[t] = task[t]
  BY DEF Enter, Grant, TypeOK
<1>4. HostInv(s)
  BY <1>1, NotConnecting DEF Host
<1>5. CASE s \notin Jumped /\ task' = [task EXCEPT ![s] = Own(s, NoConn)] /\ UNCHANGED lock
  <2> DEFINE r == Own(s, NoConn)
  <2>1. /\ r \in Task /\ r.at = s /\ r.pc \in {"enter", "opening", "tcp"}
        /\ r.pc = "tcp" => ~connected[s]
        /\ r.pc = "opening" => connected[s] /\ r.uses = conn[s]
    BY OwnResult
  <2>2. task'[s] = r
    BY <1>5 DEF TypeOK
  <2> HIDE DEF r
  <2>3. TypeOK'
    BY <1>2, <1>5, <2>1, <2>2 DEF TypeOK, net, lock, r
  <2>4. LockInv'
    BY <1>1, <1>3, <1>5, <2>1, <2>2 DEF LockInv, lock
  <2>5. AttemptInv(s)'
    <3>1. r.pc = "opening" => r.uses \in 1..made /\ owner[r.uses] = s
      BY <1>4, <2>1 DEF HostInv, TypeOK
    <3> QED
      BY <1>2, <1>5, <2>1, <2>2, <3>1 DEF AttemptInv, net
  <2>6. \A h \in Host : Connecting(h) => Connecting(h)'
    BY <1>1, <1>3 DEF Connecting
  <2> QED
    BY <1>2, <1>3, <2>3, <2>4, <2>5, <2>6, TaskStep
<1>6. CASE /\ task' = [task EXCEPT ![s].pc = "queued"]
           /\ s \in Jumped /\ queue' = Append(queue, s) /\ UNCHANGED holder
  <2>1. task'[s] = [task[s] EXCEPT !.pc = "queued"] /\ task[s] \in Task
    BY <1>6 DEF TypeOK
  <2>2. queue' \in Seq(Jumped)
    BY <1>6, AppendProperties DEF TypeOK
  <2>3. task'[s] \in Task /\ task'[s].pc = "queued" /\ task'[s].at = s
    BY <1>1, <2>1 DEF Task, Place
  <2>4. TypeOK'
    BY <1>2, <1>6, <2>2, <2>3 DEF TypeOK, net
  <2>5. LockInv'
    BY <1>1, <1>3, <1>6, <2>3 DEF LockInv
  <2>6. AttemptInv(s)'
    BY <2>3 DEF AttemptInv
  <2>7. \A h \in Host : Connecting(h) => Connecting(h)'
    BY <1>1, <1>3 DEF Connecting
  <2> QED
    BY <1>2, <1>3, <2>4, <2>5, <2>6, <2>7, TaskStep
<1>7. CASE /\ task' = [task EXCEPT ![s].pc = "check", ![s].at = jump]
           /\ s \in Jumped /\ holder = {} /\ holder' = {s} /\ queue' \in Seq(Jumped)
  <2>1. task'[s] = [task[s] EXCEPT !.pc = "check", !.at = jump] /\ task[s] \in Task
    BY <1>7 DEF TypeOK
  <2>2. task'[s] \in Task /\ task'[s].pc = "check" /\ task'[s].at = jump
    BY <2>1 DEF Task, Place, Host
  <2>3. TypeOK'
    BY <1>2, <1>7, <2>2 DEF TypeOK, net
  <2>4. LockInv'
    <3>1. \A t \in Script : t # s => task[t].at = t /\ task'[t] = task[t]
      BY <1>3, <1>7 DEF LockInv
    <3>2. \A t \in Script : t # s => t # jump /\ t \notin holder'
      BY <1>7
    <3> QED
      BY <1>7, <2>2, <3>1, <3>2 DEF LockInv, Trying
  <2>5. AttemptInv(s)'
    BY <2>2 DEF AttemptInv
  <2>6. \A h \in Host : Connecting(h) => Connecting(h)'
    BY <1>1, <1>3 DEF Connecting
  <2> QED
    BY <1>2, <1>3, <2>3, <2>4, <2>5, <2>6, TaskStep
<1>8. CASE Enter(s)
  BY <1>5, <1>6, <1>7, <1>8 DEF Enter, TypeOK
<1>9. CASE Grant(s)
  <2>1. queue \in Seq(Jumped) /\ queue # <<>>
    BY <1>9 DEF Grant, TypeOK
  <2>2. Head(queue) \in Jumped /\ Tail(queue) \in Seq(Jumped)
    BY <2>1, HeadTailProperties
  <2> QED
    BY <1>7, <1>9, <2>2 DEF Grant
<1> QED
  BY <1>8, <1>9

(* The steps that leave _ensure_connected or its locks alone: a delay, the *)
(* command and its end.                                                    *)
LEMMA CommandStep ==
  ASSUME IInv, NEW s \in Script, Retry(s) \/ GiveUp(s) \/ Command(s)
  PROVE  IInv'
<1> USE SshAssumption DEF IInv
<1>1. /\ task[s].pc \in {"failed", "opening", "running"}
      /\ UNCHANGED <<lock, connected, conn, net>>
      /\ \A t \in Script : t # s => task'[t] = task[t]
  BY DEF Retry, GiveUp, Command, Open, Exit, ExitLost, TypeOK
<1>2. task[s] \in Task /\ task[s].at = s /\ s \notin holder
  BY <1>1 DEF TypeOK, LockInv, Trying
<1>3. /\ task'[s] \in Task /\ task'[s].at = s
      /\ task'[s].pc \in {"enter", "running", "ok", "error", "raised"}
      /\ task'[s].pc = "running" => task[s].pc = "opening" /\ task'[s].uses = task[s].uses
      /\ task' \in [Script -> Task]
  <2>1. CASE Retry(s)
    <3> DEFINE r == [task[s] EXCEPT !.pc = "enter", !.tries = task[s].tries + 1]
    <3>1. task' = [task EXCEPT ![s] = r]
      BY <2>1 DEF Retry
    <3>2. r \in Task
      <4>1. task[s].tries + 1 \in 0..MaxTries
        BY <1>2, <2>1 DEF Retry, Task
      <4> QED
        BY <1>2, <4>1 DEF Task, Place
    <3>3. r.at = s /\ r.pc = "enter"
      BY <1>2 DEF Task
    <3> HIDE DEF r
    <3> QED
      BY <3>1, <3>2, <3>3 DEF TypeOK
  <2>2. \A end \in Over, status \in {"none", "zero", "nonzero"} :
            /\ At(s, end, "run", status) \in Task
            /\ At(s, end, "run", status).at = s /\ At(s, end, "run", status).pc = end
    BY DEF At, Task, Place, Host, Over
  <2>3. CASE GiveUp(s) \/ Exit(s) \/ ExitLost(s)
    BY <2>2, <2>3 DEF GiveUp, Exit, ExitLost, TypeOK, Over
  <2>4. CASE Open(s)
    <3>1. [task[s] EXCEPT !.pc = "running"] \in Task
      BY <1>2 DEF Task, Place
    <3>2. CASE task[s].uses \in open
      <4>1. task' = [task EXCEPT ![s] = [task[s] EXCEPT !.pc = "running"]] /\ task[s].pc = "opening"
        BY <2>4, <3>2 DEF Open
      <4> QED
        BY <1>2, <3>1, <4>1 DEF TypeOK, Task
    <3>3. CASE task[s].uses \notin open
      BY <2>2, <2>4, <3>3 DEF Open, TypeOK, Over
    <3> QED
      BY <3>2, <3>3
  <2> QED
    BY <2>1, <2>3, <2>4 DEF Command
<1>4. TypeOK'
  BY <1>1, <1>3 DEF TypeOK, net, lock
<1>5. LockInv'
  BY <1>1, <1>2, <1>3 DEF LockInv, lock
<1>6. AttemptInv(s)'
  BY <1>1, <1>3 DEF AttemptInv, net
<1>7. \A h \in Host : Connecting(h) => Connecting(h)'
  BY <1>1 DEF Connecting
<1> QED
  BY <1>1, <1>4, <1>5, <1>6, <1>7, TaskStep

(* The attempt on a connection ends: the login succeeds, or it raises.     *)
LEMMA AttemptStep ==
  ASSUME IInv, NEW s \in Script, Authenticated(s) \/ Fails(s)
  PROVE  IInv'
<1> USE SshAssumption DEF IInv
<1>1. /\ UNCHANGED <<connected, conn, net>>
      /\ \A t \in Script : t # s => task'[t] = task[t]
      /\ task[s] \in Task
  BY DEF Authenticated, Fails, TypeOK
<1>2. CASE Authenticated(s)
  <2>1. task'[s] = [task[s] EXCEPT !.pc = "up"] /\ task[s].pc = "auth" /\ UNCHANGED lock
    BY <1>2 DEF Authenticated, TypeOK
  <2>2. /\ task'[s] \in Task /\ task'[s].pc = "up"
        /\ task'[s].at = task[s].at /\ task'[s].uses = task[s].uses
    BY <1>1, <2>1 DEF Task, Place
  <2>3. TypeOK'
    BY <1>1, <1>2, <2>1, <2>2 DEF Authenticated, TypeOK, net, lock
  <2>4. LockInv'
    BY <1>1, <2>1, <2>2 DEF LockInv, Trying, lock
  <2>5. AttemptInv(s)'
    BY <1>1, <2>1, <2>2 DEF AttemptInv, net
  <2>6. \A h \in Host : Connecting(h) => Connecting(h)'
    BY <1>1, <2>1, <2>2 DEF Connecting
  <2> QED
    BY <1>1, <2>3, <2>4, <2>5, <2>6, TaskStep
<1>3. CASE Fails(s)
  <2>1. /\ task'[s] = [task[s] EXCEPT !.pc = "failed", !.at = s, !.uses = NoConn]
        /\ holder' = holder \ {s} /\ queue' = queue
    BY <1>3 DEF Fails, TypeOK
  <2>2. task'[s] \in Task /\ task'[s].pc = "failed" /\ task'[s].at = s
    BY <1>1, <2>1 DEF Task, Place, Host
  <2>3. TypeOK'
    BY <1>1, <1>3, <2>1, <2>2 DEF Fails, TypeOK, net
  <2>4. LockInv'
    <3>1. s # jump /\ s \notin holder'
      BY <2>1
    <3> QED
      BY <1>1, <2>1, <2>2, <3>1 DEF LockInv
  <2>5. AttemptInv(s)'
    BY <2>2 DEF AttemptInv
  <2>6. ASSUME NEW h \in Host, Connecting(h) PROVE Connecting(h)' \/ HostInv(h)
    <3>1. PICK t \in Script : task[t].at = h /\ task[t].pc \in {"auth", "up"}
      BY <2>6 DEF Connecting
    <3>2. CASE t # s
      BY <1>1, <3>1, <3>2 DEF Connecting
    <3>3. CASE t = s
      <4>1. task[s].pc = "auth" /\ task[s].uses \notin open
        BY <1>3, <3>1, <3>3 DEF Fails
      <4> QED
        BY <3>1, <3>3, <4>1 DEF AttemptInv, HostInv
    <3> QED
      BY <3>2, <3>3
  <2> QED
    BY <1>1, <2>3, <2>4, <2>5, <2>6, TaskStep
<1> QED
  BY <1>2, <1>3

(* A task that has passed the jump host turns to its own object.           *)
LEMMA OwnAttempt ==
  ASSUME IInv, NEW s \in Script, HostInv(s), NEW tunnel \in Conn \union {NoConn},
         s \in Jumped => tunnel \in 1..made /\ owner[tunnel] = jump,
         task'[s] = Own(s, tunnel), UNCHANGED <<connected, net>>
  PROVE  AttemptInv(s)'
<1>1. /\ task'[s].pc \in {"enter", "opening", "tcp"} /\ task'[s].at = s
      /\ task'[s].pc = "tcp" => ~connected[s] /\ task'[s].uses = tunnel
      /\ task'[s].pc = "opening" => connected[s] /\ task'[s].uses = conn[s]
  BY OwnResult DEF IInv
<1>2. task'[s].pc = "opening" => task'[s].uses \in 1..made /\ owner[task'[s].uses] = s
  BY <1>1 DEF HostInv, IInv, TypeOK
<1> QED
  BY <1>1, <1>2 DEF AttemptInv, net

LEMMA CheckStep ==
  ASSUME IInv, NEW s \in Script, Check(s)
  PROVE  IInv'
<1> USE SshAssumption DEF IInv
<1>1. /\ task[s].pc = "check" /\ task[s].at = jump /\ s \in holder /\ task[s] \in Task
      /\ UNCHANGED <<connected, conn, net>> /\ queue' = queue
      /\ \A t \in Script : t # s => task'[t] = task[t]
  BY DEF Check, LockInv, TypeOK
<1>2. jump \in Host /\ s \in Host /\ s # jump
  BY DEF Host
<1>3. HostInv(jump) /\ HostInv(s)
  <2>1. ~Connecting(jump) /\ ~Connecting(s)
    BY <1>1, <1>2, OneTask DEF LockInv, Connecting
  <2> QED
    BY <1>2, <2>1
<1>4. \A h \in Host : Connecting(h) => Connecting(h)'
  BY <1>1 DEF Connecting
<1>5. CASE connected[jump]
  <2>1. task'[s] = Own(s, conn[jump]) /\ holder' = holder \ {s}
    BY <1>1, <1>5 DEF Check, TypeOK
  <2>2. conn[jump] \in Conn /\ conn[jump] \in 1..made /\ owner[conn[jump]] = jump
    <3>1. conn[jump] \in open /\ owner[conn[jump]] = jump
      BY <1>3, <1>5 DEF HostInv
    <3> QED
      BY <3>1, OpenMade
  <2>3. task'[s] \in Task /\ task'[s].at = s /\ task'[s].pc \in {"enter", "opening", "tcp"}
    BY <2>1, <2>2, OwnResult
  <2>4. TypeOK'
    BY <1>1, <1>5, <2>1, <2>3 DEF Check, TypeOK, net
  <2>5. LockInv'
    BY <1>1, <1>2, <2>1, <2>3 DEF LockInv
  <2>6. AttemptInv(s)'
    BY <1>1, <1>3, <2>1, <2>2, OwnAttempt
  <2> QED
    BY <1>1, <1>4, <2>4, <2>5, <2>6, TaskStep
<1>6. CASE ~connected[jump]
  <2>1. task'[s] = [task[s] EXCEPT !.pc = "tcp", !.uses = NoConn] /\ holder' = holder
    BY <1>1, <1>6 DEF Check, TypeOK
  <2>2. task'[s] \in Task /\ task'[s].at = jump /\ task'[s].pc = "tcp"
    BY <1>1, <2>1 DEF Task, Place
  <2>3. TypeOK'
    BY <1>1, <1>6, <2>1, <2>2 DEF Check, TypeOK, net
  <2>4. LockInv'
    BY <1>1, <2>1, <2>2 DEF LockInv, Trying
  <2>5. AttemptInv(s)'
    <3>1. ~connected'[task'[s].at]
      BY <1>1, <1>6, <2>2
    <3> QED
      BY <1>2, <2>2, <3>1 DEF AttemptInv
  <2> QED
    BY <1>1, <1>4, <2>3, <2>4, <2>5, TaskStep
<1> QED
  BY <1>5, <1>6

(* create_connection returns: conn is what _connected tells of.            *)
LEMMA ResumeStep ==
  ASSUME IInv, NEW s \in Script, Resume(s)
  PROVE  IInv'
<1> USE SshAssumption DEF IInv
<1> DEFINE h == task[s].at
           c == task[s].uses
<1>1. /\ task[s].pc = "up" /\ task[s] \in Task /\ h \in Host /\ h \in {s, jump}
      /\ c \in 1..made /\ c \in Conn /\ owner[c] = h
      /\ connected[h] <=> c \in open
      /\ \A d \in open : owner[d] = h => d = c
  BY DEF Resume, LockInv, AttemptInv, TypeOK, Host, Conn
<1>2. /\ UNCHANGED <<connected, net>> /\ queue' = queue
      /\ conn' = [conn EXCEPT ![h] = c]
      /\ \A t \in Script : t # s => task'[t] = task[t]
  BY DEF Resume, TypeOK
<1>3. /\ task'[s] \in Task /\ task'[s].at = s /\ task'[s].pc \notin {"check", "auth", "up"}
      /\ AttemptInv(s)' /\ holder' = holder \ {s} /\ task' \in [Script -> Task]
  <2>1. CASE h = jump
    <3>1. task' = [task EXCEPT ![s] = Own(s, c)] /\ holder' = holder \ {s}
      BY <2>1 DEF Resume
    <3>2. HostInv(s)
      <4>1. ~Connecting(s)
        BY <2>1 DEF LockInv, Connecting
      <4> QED
        BY <4>1 DEF Host
    <3>3. Own(s, c) \in Task /\ Own(s, c).at = s /\ Own(s, c).pc \in {"enter", "opening", "tcp"}
      BY <1>1, OwnResult
    <3>4. task'[s] = Own(s, c)
      BY <3>1 DEF TypeOK
    <3>5. AttemptInv(s)'
      BY <1>1, <1>2, <2>1, <3>2, <3>4, OwnAttempt
    <3> QED
      BY <3>1, <3>3, <3>4, <3>5 DEF TypeOK
  <2>2. CASE h = s
    <3>1. task' = [task EXCEPT ![s] = Connected(s, c)] /\ holder' = holder /\ s \notin holder
      BY <2>2 DEF Resume, LockInv
    <3>2. /\ Connected(s, c) \in Task /\ Connected(s, c).at = s
          /\ Connected(s, c).pc \in {"enter", "opening"}
          /\ Connected(s, c).pc = "opening" => Connected(s, c).uses = c
      BY <1>1, ConnectedResult
    <3>3. task'[s] = Connected(s, c)
      BY <3>1 DEF TypeOK
    <3>4. AttemptInv(s)'
      BY <1>1, <1>2, <2>2, <3>2, <3>3 DEF AttemptInv, net
    <3> QED
      BY <3>1, <3>2, <3>3, <3>4 DEF TypeOK
  <2> QED
    BY <1>1, <2>1, <2>2
<1> HIDE DEF h, c
<1>4. TypeOK'
  BY <1>1, <1>2, <1>3 DEF TypeOK, net
<1>5. LockInv'
  BY <1>2, <1>3 DEF LockInv
<1>6. \A t \in Script : AttemptInv(t)'
  <2> SUFFICES ASSUME NEW t \in Script, t # s PROVE AttemptInv(t)'
    BY <1>3
  <2> QED
    BY <1>2 DEF AttemptInv, net
<1>7. ASSUME NEW g \in Host, ~Connecting(g)' PROVE HostInv(g)'
  <2>1. CASE g = h
    BY <1>1, <1>2, <2>1 DEF HostInv, TypeOK, net
  <2>2. CASE g # h
    <3>1. ~Connecting(g)
      <4>1. ASSUME NEW t \in Script, task[t].at = g, task[t].pc \in {"auth", "up"}
            PROVE  Connecting(g)'
        <5>1. t # s
          BY <2>2, <4>1 DEF h
        <5> QED
          BY <1>2, <4>1, <5>1 DEF Connecting
      <4> QED
        BY <1>7, <4>1 DEF Connecting
    <3> QED
      BY <1>2, <2>2, <3>1 DEF HostInv, TypeOK, net
  <2> QED
    BY <2>1, <2>2
<1>8. TunnelInv'
  BY <1>2 DEF TunnelInv, net
<1> QED
  BY <1>4, <1>5, <1>6, <1>7, <1>8

LEMMA MadeStep ==
  ASSUME IInv, NEW s \in Script, Made(s)
  PROVE  IInv'
<1> USE SshAssumption DEF IInv
<1> DEFINE h == task[s].at
           c == made + 1
<1>1. /\ task[s].pc = "tcp" /\ task[s] \in Task /\ h \in Host /\ h \in {s, jump}
      /\ c \in Conn /\ c \notin 1..made /\ made \in Nat /\ made' = c
      /\ Tunnel(s) \in Conn \union {NoConn}
      /\ ~connected[h]
  BY DEF Made, LockInv, AttemptInv, TypeOK, Host, Conn, Tunnel, Task
<1>2. /\ open' = open \union {c} /\ owner' = [owner EXCEPT ![c] = h]
      /\ via' = [via EXCEPT ![c] = Tunnel(s)]
      /\ connected' = [connected EXCEPT ![h] = TRUE]
      /\ UNCHANGED <<holder, queue, conn>>
      /\ \A t \in Script : t # s => task'[t] = task[t]
      /\ task'[s] = [task[s] EXCEPT !.pc = "auth", !.uses = c]
  BY DEF Made, TypeOK, lock
<1>3. task'[s] \in Task /\ task'[s].at = h /\ task'[s].pc = "auth" /\ task'[s].uses = c
  BY <1>1, <1>2 DEF Task, Place
<1>4. task' \in [Script -> Task]
  BY <1>3 DEF Made, TypeOK
<1>5. HostInv(h)
  BY <1>1, NotConnecting
<1>6. \A d \in open : d \in 1..made /\ d # c /\ d \in Conn /\ owner[d] # h
  BY <1>1, <1>5 DEF HostInv, TypeOK, Conn
<1>7. \A t \in Script : t # s => task[t].at # h
  BY OneTask
<1> HIDE DEF h, c
<1>8. \A d \in 1..made : d \in 1..made' /\ owner'[d] = owner[d] /\ (d \in open' <=> d \in open)
  BY <1>1, <1>2 DEF TypeOK, c, Conn
<1>9. \A g \in Host : g # h => connected'[g] = connected[g] /\ conn'[g] = conn[g]
  BY <1>2 DEF TypeOK
<1>10. \A d \in open' : d = c \/ (d \in open /\ owner'[d] = owner[d] /\ via'[d] = via[d])
  BY <1>2, <1>6 DEF TypeOK
<1>11. owner'[c] = h /\ via'[c] = Tunnel(s) /\ connected'[h] /\ c \in 1..made' /\ c \in open'
  <2>1. c \in 1..c
    BY <1>1 DEF c
  <2>2. c \in Conn /\ h \in Host /\ made' = c
    BY <1>1 DEF c, h
  <2> QED
    BY <1>2, <2>1, <2>2 DEF TypeOK
<1>12. TypeOK'
  <2>1. open' \subseteq 1..made'
    BY <1>1, <1>2, <1>6, <1>8, <1>11
  <2>2. made' \in 1..MaxConn
    BY <1>1 DEF Conn
  <2> QED
    BY <1>1, <1>2, <1>4, <2>1, <2>2 DEF TypeOK
<1>13. LockInv'
  BY <1>1, <1>2, <1>3 DEF LockInv, Trying, h
<1>14. ASSUME NEW t \in Script PROVE AttemptInv(t)'
  <2>1. CASE t = s
    BY <1>3, <1>6, <1>10, <1>11, <2>1 DEF AttemptInv
  <2>2. CASE t # s
    <3>1. task'[t] = task[t] /\ task[t].at \in Host /\ task[t].at # h
      BY <1>2, <1>7, <2>2 DEF TypeOK, Task
    <3>2. connected'[task[t].at] = connected[task[t].at]
      BY <1>9, <3>1
    <3>3. AttemptInv(t)
      OBVIOUS
    <3>4. task[t].pc = "tcp" => ~connected'[task[t].at]
      BY <3>2, <3>3 DEF AttemptInv
    <3>5. task[t].pc = "tcp" /\ task[t].at = t /\ t \in Jumped =>
            task[t].uses \in 1..made' /\ owner'[task[t].uses] = jump
      BY <1>8, <3>3 DEF AttemptInv
    <3>6. task[t].pc \in {"auth", "up"} =>
            /\ task[t].uses \in 1..made'
            /\ owner'[task[t].uses] = task[t].at
            /\ connected'[task[t].at] <=> task[t].uses \in open'
      BY <1>8, <3>2, <3>3 DEF AttemptInv
    <3>7. task[t].pc \in {"auth", "up"} =>
            \A d \in open' : owner'[d] = task[t].at => d = task[t].uses
      BY <1>10, <1>11, <3>1, <3>3 DEF AttemptInv
    <3>8. task[t].pc \in {"opening", "running"} =>
            task[t].uses \in 1..made' /\ owner'[task[t].uses] = t
      BY <1>8, <3>3 DEF AttemptInv
    <3> QED
      BY <3>1, <3>4, <3>5, <3>6, <3>7, <3>8 DEF AttemptInv
  <2> QED
    BY <2>1, <2>2
<1>15. ASSUME NEW g \in Host, ~Connecting(g)' PROVE HostInv(g)'
  <2>1. g # h
    BY <1>3, <1>15 DEF Connecting
  <2>2. ~Connecting(g)
    <3>1. ASSUME NEW t \in Script, task[t].at = g, task[t].pc \in {"auth", "up"}
          PROVE  Connecting(g)'
      BY <1>1, <1>2, <3>1 DEF Connecting
    <3> QED
      BY <1>15, <3>1 DEF Connecting
  <2>3. conn[g] \in open' /\ owner'[conn[g]] = g <=> conn[g] \in open /\ owner[conn[g]] = g
    <3>1. conn[g] \in open => conn[g] \in open' /\ owner'[conn[g]] = owner[conn[g]]
      BY <1>2, <1>6, <1>8
    <3>2. conn[g] \in open' /\ owner'[conn[g]] = g => conn[g] \in open
      BY <1>10, <1>11, <2>1
    <3> QED
      BY <3>1, <3>2
  <2>4. connected'[g] = connected[g] /\ conn'[g] = conn[g]
    BY <1>9, <2>1
  <2>5. HostInv(g)
    BY <2>2
  <2> QED
    BY <1>10, <1>11, <2>1, <2>3, <2>4, <2>5 DEF HostInv
<1>16. TunnelInv'
  <2>1. ASSUME NEW d \in open', owner'[d] \in Jumped, d # c
        PROVE  via'[d] \in 1..made' /\ owner'[via'[d]] = jump
    BY <1>8, <1>10, <2>1 DEF TunnelInv
  <2>2. ASSUME h \in Jumped PROVE Tunnel(s) \in 1..made' /\ owner'[Tunnel(s)] = jump
    <3>1. h = s
      BY <1>1, <2>2
    <3>2. Tunnel(s) = task[s].uses
      BY <3>1 DEF Tunnel, h
    <3>3. task[s].uses \in 1..made /\ owner[task[s].uses] = jump
      BY <1>1, <2>2, <3>1 DEF AttemptInv, h
    <3> QED
      BY <1>8, <3>2, <3>3
  <2> QED
    BY <1>11, <2>1, <2>2 DEF TunnelInv
<1> QED
  BY <1>12, <1>13, <1>14, <1>15, <1>16

(* connection_lost clears what connection_made and the task have set.      *)
LEMMA LostStep ==
  ASSUME IInv, NEW c \in Conn, Lost(c)
  PROVE  IInv'
<1> USE SshAssumption DEF IInv
<1> DEFINE h == owner[c]
<1>1. /\ c \in open /\ c \in 1..made /\ h \in Host
      /\ open' = open \ {c}
      /\ connected' = [connected EXCEPT ![h] = FALSE]
      /\ conn' = [conn EXCEPT ![h] = NoConn]
      /\ via' = [via EXCEPT ![c] = NoConn]
      /\ UNCHANGED <<task, holder, queue, owner, made>>
  BY DEF Lost, TypeOK, lock
<1>2. \A g \in Host :
        /\ g = h => ~connected'[g] /\ conn'[g] = NoConn
        /\ g # h => connected'[g] = connected[g] /\ conn'[g] = conn[g]
  BY <1>1 DEF TypeOK
<1>3. NoConn \notin open
  BY DEF TypeOK, NoConn
<1>4. TypeOK'
  BY <1>1 DEF TypeOK
<1>5. LockInv'
  BY <1>1 DEF LockInv
<1>6. ASSUME NEW t \in Script PROVE AttemptInv(t)'
  <2>1. task[t].at \in Host
    BY DEF TypeOK, Task
  <2>2. AttemptInv(t) /\ task' = task /\ owner' = owner /\ made' = made
    BY <1>1
  <2>3. CASE task[t].at = h
    <3>1. ~connected'[task[t].at]
      BY <1>2, <2>1, <2>3
    <3>2. task[t].pc \in {"auth", "up"} => task[t].uses \notin open'
      BY <1>1, <2>2, <2>3 DEF AttemptInv
    <3> QED
      BY <1>1, <2>2, <3>1, <3>2 DEF AttemptInv
  <2>4. CASE task[t].at # h
    <3>1. connected'[task[t].at] = connected[task[t].at]
      BY <1>2, <2>1, <2>4
    <3>2. task[t].pc \in {"auth", "up"} => (task[t].uses \in open' <=> task[t].uses \in open)
      BY <1>1, <2>2, <2>4 DEF AttemptInv
    <3> QED
      BY <1>1, <2>2, <3>1, <3>2 DEF AttemptInv
  <2> QED
    BY <2>3, <2>4
<1>7. ASSUME NEW g \in Host, ~Connecting(g)' PROVE HostInv(g)'
  <2>1. HostInv(g)
    BY <1>1, <1>7 DEF Connecting
  <2>2. CASE g = h
    <3>1. \A d \in open' : owner[d] # h
      BY <1>1, <2>1, <2>2 DEF HostInv
    <3>2. ~connected'[g] /\ conn'[g] = NoConn
      BY <1>2, <2>2
    <3>3. conn'[g] \notin open' /\ owner' = owner
      BY <1>1, <1>3, <3>2
    <3> QED
      BY <2>2, <3>1, <3>2, <3>3 DEF HostInv
  <2>3. CASE g # h
    BY <1>1, <1>2, <2>1, <2>3 DEF HostInv
  <2> QED
    BY <2>2, <2>3
<1>8. TunnelInv'
  BY <1>1 DEF TunnelInv, TypeOK
<1> QED
  BY <1>4, <1>5, <1>6, <1>7, <1>8

LEMMA IInvStep == IInv /\ [Next]_vars => IInv'
<1> SUFFICES ASSUME IInv, [Next]_vars PROVE IInv'
  OBVIOUS
<1>1. CASE UNCHANGED vars
  BY <1>1 DEF vars, IInv, TypeOK, LockInv, AttemptInv, HostInv, TunnelInv, Connecting
<1> QED
  BY <1>1, EnterStep, CheckStep, ResumeStep, AttemptStep, CommandStep, MadeStep, LostStep
  DEF Next, Ensure, Attempt

------------------------------------------------------------------------------
(* The variables keep their types.                                         *)
THEOREM TypeCorrect == Spec => []TypeOK
<1>1. IInv => TypeOK
  BY DEF IInv
<1> QED
  BY <1>1, IInvInit, IInvStep, PTL DEF Spec

(* Outside a connection attempt, _connected is set exactly when conn is an *)
(* open connection of the object.                                          *)
THEOREM FlagMeansLiveCorrect == Spec => []FlagMeansLive
<1>1. IInv => FlagMeansLive
  BY DEF IInv, HostInv, FlagMeansLive
<1> QED
  BY <1>1, IInvInit, IInvStep, PTL DEF Spec

(* However many scripts find the jump host lost, one connects it again.    *)
THEOREM OneConnectionCorrect == Spec => []OneConnection
<1>1. IInv => OneConnection
  <2> SUFFICES ASSUME IInv, NEW c \in open, NEW d \in open, owner[c] = owner[d]
               PROVE  c = d
    BY DEF OneConnection
  <2>1. owner[c] \in Host
    BY OpenMade DEF IInv, TypeOK
  <2>2. CASE Connecting(owner[c])
    BY <2>2 DEF Connecting, IInv, AttemptInv
  <2>3. CASE ~Connecting(owner[c])
    BY <2>1, <2>3 DEF IInv, HostInv
  <2> QED
    BY <2>2, <2>3
<1> QED
  BY <1>1, IInvInit, IInvStep, PTL DEF Spec

(* No machine behind the jump host is connected to directly.               *)
THEOREM TunnelUsedCorrect == Spec => []TunnelUsed
<1>1. IInv => TunnelUsed
  BY DEF IInv, TunnelInv, TunnelUsed, NoConn, TypeOK
<1> QED
  BY <1>1, IInvInit, IInvStep, PTL DEF Spec

(* A command is started on a connection of the script's own machine.       *)
THEOREM CommandOnOwnCorrect == Spec => []CommandOnOwn
<1>1. IInv => CommandOnOwn
  BY DEF IInv, AttemptInv, CommandOnOwn, NoConn, TypeOK
<1> QED
  BY <1>1, IInvInit, IInvStep, PTL DEF Spec

------------------------------------------------------------------------------
(* The client of the cloud.                                                *)

(* What is left of the token outlasts what the next login may still take.  *)
TokenOutlasts ==
    /\ login # "dead" /\ Started => Catalog
    /\ login = "timer" => Catalog /\ due <= RenewDelay /\ left > due + Latency
    /\ login = "sent" => due <= Latency
    /\ login = "sent" /\ Started => left > due

(* A server is polled for its deletion after the cloud was asked for it.   *)
DeletionAgreed ==
    \A k \in Call : pc[k] = "deleting" =>
        server[k] \in {"deleting", "kept", "gone"} \/ (login = "dead" /\ ~Accepted)

Safe == TokenOutlasts /\ DeletionAgreed /\ DeletedMeansGone
ClientInv == ClientTypeOK /\ Safe

LEMMA ClientInitOK == ClientInit => ClientInv
  BY ClientAssumption DEF ClientInit, ClientInv, ClientTypeOK, Safe, TokenOutlasts, DeletionAgreed, ServerState,
     DeletedMeansGone, Started, Catalog, Accepted

LEMMA ClientTypeStep == ClientTypeOK /\ [ClientNext]_clientVars => ClientTypeOK'
<1> SUFFICES ASSUME ClientTypeOK, [ClientNext]_clientVars PROVE ClientTypeOK'
  OBVIOUS
<1> USE ClientAssumption DEF ClientTypeOK, CallOver, ServerState
<1>1. CASE Login
  BY <1>1 DEF Login, LoggedIn, LoginFails
<1>2. CASE Renew
  BY <1>2 DEF Renew
<1>3. CASE Tick
  <2>1. due' \in 0..(RenewDelay + Latency) /\ left' \in 0..Lifetime
    BY <1>3 DEF Tick
  <2>2. sleep' \in [Call -> 0..PollDelay]
    BY <1>3 DEF Tick
  <2>3. QED
    BY <1>3, <2>1, <2>2 DEF Tick
<1>4. ASSUME NEW k \in Call, Operation(k) PROVE ClientTypeOK'
  <2>1. CASE CreateServer(k)
    BY <2>1 DEF CreateServer, Moves, auth
  <2>2. CASE WaitServer(k)
    BY <2>2 DEF WaitServer, Moves, auth
  <2>3. CASE DeleteServer(k)
    <3>1. PICK s \in ServerState : server' = [server EXCEPT ![k] = s] \/ server' = server
      BY <2>3 DEF DeleteServer
    <3>2. misread' = misread /\ UNCHANGED auth
          /\ \E place \in {"deleting", "raised"}, nap \in {0, 1} : Moves(k, place, nap, 0)
      BY <2>3 DEF DeleteServer
    <3>3. PICK place \in {"deleting", "raised"}, nap \in {0, 1} : Moves(k, place, nap, 0)
      BY <3>2
    <3>4. QED
      BY <3>1, <3>2, <3>3 DEF Moves, auth
  <2>4. QED
    BY <1>4, <2>1, <2>2, <2>3 DEF Operation
<1>5. ASSUME NEW k \in Call, Poll(k) PROVE ClientTypeOK'
  <2>1. CASE PollWait(k)
    BY <2>1 DEF PollWait, Moves, auth
  <2>2. CASE PollDelete(k)
    BY <2>2 DEF PollDelete, Moves, auth
  <2>3. QED
    BY <1>5, <2>1, <2>2 DEF Poll
<1>6. ASSUME NEW k \in Call, ServerChanges(k) \/ DeletionEnds(k) PROVE ClientTypeOK'
  BY <1>6 DEF ServerChanges, DeletionEnds, auth
<1>7. CASE UNCHANGED clientVars
  BY <1>7 DEF clientVars
<1>8. QED
  BY <1>1, <1>2, <1>3, <1>4, <1>5, <1>6, <1>7 DEF ClientNext

LEMMA AcceptedHere == ClientInv => TokenAccepted
  BY ClientAssumption DEF ClientInv, ClientTypeOK, Safe, TokenOutlasts, TokenAccepted, Accepted

LEMMA ClientSafeStep == ClientInv /\ [ClientNext]_clientVars => Safe'
<1> SUFFICES ASSUME ClientInv, [ClientNext]_clientVars PROVE Safe'
  OBVIOUS
<1>t. ClientTypeOK /\ ClientTypeOK' /\ TokenAccepted
  BY ClientTypeStep, AcceptedHere DEF ClientInv
<1> USE DEF ClientInv, Safe, TokenOutlasts, DeletionAgreed, DeletedMeansGone, Started, Catalog,
        Accepted
<1>1. CASE LoggedIn
  BY <1>1, <1>t, ClientAssumption DEF LoggedIn, ClientTypeOK
<1>2. CASE LoginFails
  BY <1>2, <1>t DEF LoginFails, ClientTypeOK
<1>3. CASE Renew
  BY <1>3, <1>t, ClientAssumption DEF Renew, ClientTypeOK
<1>4. CASE Tick
  BY <1>4, <1>t, ClientAssumption DEF Tick, ClientTypeOK
<1>5. ASSUME NEW k \in Call, Operation(k) PROVE Safe'
  <2>1. CASE CreateServer(k)
    BY <2>1, <1>t DEF CreateServer, Moves, auth, ClientTypeOK
  <2>2. CASE WaitServer(k)
    BY <2>2, <1>t DEF WaitServer, Moves, auth, ClientTypeOK
  <2>3. CASE DeleteServer(k)
    BY <2>3, <1>t DEF DeleteServer, Moves, auth, ClientTypeOK, TokenAccepted
  <2>4. QED
    BY <1>5, <2>1, <2>2, <2>3 DEF Operation
<1>6. ASSUME NEW k \in Call, Poll(k) PROVE Safe'
  <2>1. CASE PollWait(k)
    BY <2>1, <1>t DEF PollWait, Moves, auth, ClientTypeOK
  <2>2. CASE PollDelete(k)
    BY <2>2, <1>t DEF PollDelete, Moves, auth, ClientTypeOK, TokenAccepted
  <2>3. QED
    BY <1>6, <2>1, <2>2 DEF Poll
<1>7. ASSUME NEW k \in Call, ServerChanges(k) \/ DeletionEnds(k) PROVE Safe'
  BY <1>7, <1>t DEF ServerChanges, DeletionEnds, auth, ClientTypeOK
<1>8. CASE UNCHANGED clientVars
  BY <1>8 DEF clientVars
<1>9. QED
  BY <1>1, <1>2, <1>3, <1>4, <1>5, <1>6, <1>7, <1>8 DEF ClientNext, Login

LEMMA ClientInductive == ClientSpec => []ClientInv
<1>1. ClientInv /\ [ClientNext]_clientVars => ClientInv'
  BY ClientTypeStep, ClientSafeStep DEF ClientInv
<1>2. QED
  BY ClientInitOK, <1>1, PTL DEF ClientSpec

(* The variables keep their types: no timer, sleep or retry leaves its     *)
(* range.                                                                  *)
THEOREM ClientTypeCorrect == ClientSpec => []ClientTypeOK
<1>1. ClientInv => ClientTypeOK
  BY DEF ClientInv
<1>2. QED
  BY ClientInductive, <1>1, PTL

(* Until a login fails, every request carries a token the cloud accepts.   *)
THEOREM TokenAcceptedCorrect == ClientSpec => []TokenAccepted
  BY ClientInductive, AcceptedHere, PTL

(* A deletion that has returned has deleted its server, unless the cloud   *)
(* could not answer one of its polls, or a login has failed and the token  *)
(* has expired.                                                            *)
THEOREM DeletedMeansGoneCorrect == ClientSpec => []DeletedMeansGone
<1>1. ClientInv => DeletedMeansGone
  BY DEF ClientInv, Safe
<1>2. QED
  BY ClientInductive, <1>1, PTL

==============================================================================
