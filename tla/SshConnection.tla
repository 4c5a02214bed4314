---------------------------- MODULE SshConnection ----------------------------
(***************************************************************************)
(* The SSH connections of running scripts (rci/common/ssh.py): each script *)
(* has an SSH object of its own (VM.get_ssh), which waits for the machine  *)
(* and then runs one command; all those of a provider with a jump host     *)
(* share that SSH object as their tunnel.                                  *)
(*                                                                         *)
(* An action is the code between two awaits of the task that runs the      *)
(* script, or a callback of asyncssh.                                      *)
(***************************************************************************)
EXTENDS Naturals, Sequences, FiniteSets

CONSTANTS
    Script,     \* the scripts
    Jumped,     \* those on machines that are reached through the jump host
    jump,       \* the jump host
    MaxConn,    \* bound: how many connections are ever made
    MaxTries    \* bound: how many delays fit into the timeout of wait()

Host == Script \union {jump}
Conn == 1..MaxConn
NoConn == 0

ASSUME SshAssumption ==
    /\ jump \notin Script
    /\ Jumped \subseteq Script
    /\ MaxConn \in Nat \ {0}
    /\ MaxTries \in Nat

VARIABLES
    task,       \* for each script, its task
    holder,     \* who holds _connecting of the jump host: at most one script
    queue,      \* the scripts that wait for it
    connected,  \* _connected of each SSH object
    conn,       \* conn of each SSH object
    open,       \* the connections that have been made and not lost
    owner, via, \* whose a connection is, and its tunnel
    made        \* how many connections have been made

net == <<open, owner, via, made>>
lock == <<holder, queue>>
vars == <<task, holder, queue, connected, conn, open, owner, via, made>>

(* A task: where it is, in wait() or in run(), in _ensure_connected of     *)
(* which object, and the connection it deals with: the tunnel, then the    *)
(* one it makes, then the one its command runs on.                         *)
Place == {"enter", "queued", "check", "tcp", "auth", "up", "failed",
          "opening", "running", "ok", "error", "raised"}
Task == [pc : Place, phase : {"wait", "run"}, at : Host, uses : Conn \union {NoConn},
         tries : 0..MaxTries, status : {"none", "zero", "nonzero"}]

Over == {"ok", "error", "raised"}

TypeOK ==
    /\ task \in [Script -> Task]
    /\ holder \subseteq Jumped
    /\ queue \in Seq(Jumped)
    /\ connected \in [Host -> BOOLEAN]
    /\ conn \in [Host -> Conn \union {NoConn}]
    /\ made \in 1..MaxConn
    /\ open \subseteq 1..made
    /\ owner \in [Conn -> Host]
    /\ via \in [Conn -> Conn \union {NoConn}]

(* A task at the place pc, with nothing of its own.                        *)
At(s, pc, phase, status) ==
    [pc |-> pc, phase |-> phase, at |-> s, uses |-> NoConn, tries |-> 0, status |-> status]

(* Provider.start has connected the jump host.                             *)
Init ==
    /\ task = [s \in Script |-> At(s, "enter", "wait", "none")]
    /\ holder = {}
    /\ queue = <<>>
    /\ connected = [h \in Host |-> h = jump]
    /\ conn = [h \in Host |-> IF h = jump THEN 1 ELSE NoConn]
    /\ open = {1}
    /\ owner = [c \in Conn |-> jump]
    /\ via = [c \in Conn |-> NoConn]
    /\ made = 1

Tunnel(s) == IF task[s].at = jump THEN NoConn ELSE task[s].uses

(* _ensure_connected has returned: wait() returns and run() calls it once  *)
(* more, or the command is started on c.                                   *)
Connected(s, c) ==
    IF task[s].phase = "wait"
    THEN At(s, "enter", "run", "none")
    ELSE [task[s] EXCEPT !.pc = "opening", !.at = s, !.uses = c]

(* Seeded fault: run() trusts that wait() has connected.                   *)
Own_TrustsWait(s, tunnel) ==
    IF connected[s] \/ task[s].phase = "run"
    THEN Connected(s, conn[s])
    ELSE [task[s] EXCEPT !.pc = "tcp", !.at = s, !.uses = tunnel]

(* The script's own object, when the tunnel is there.                      *)
Own(s, tunnel) ==
    IF connected[s]
    THEN Connected(s, conn[s])
    ELSE [task[s] EXCEPT !.pc = "tcp", !.at = s, !.uses = tunnel]

------------------------------------------------------------------------------
(* Seeded fault: the lock of the jump host is not waited for.              *)
Enter_NoLock(s) ==
    /\ task[s].pc = "enter"
    /\ IF s \in Jumped
       THEN task' = [task EXCEPT ![s].pc = "check", ![s].at = jump]
       ELSE task' = [task EXCEPT ![s] = Own(s, NoConn)]
    /\ UNCHANGED <<lock, connected, conn, net>>

(* _ensure_connected is called.  The lock of the script's own object is    *)
(* never contended; the one of the jump host is first come, first served.  *)
Enter(s) ==
    /\ task[s].pc = "enter"
    /\ \/ /\ s \notin Jumped
          /\ task' = [task EXCEPT ![s] = Own(s, NoConn)]
          /\ UNCHANGED lock
       \/ /\ s \in Jumped /\ holder = {} /\ queue = <<>>
          /\ task' = [task EXCEPT ![s].pc = "check", ![s].at = jump]
          /\ holder' = {s}
          /\ UNCHANGED queue
       \/ /\ s \in Jumped /\ (holder # {} \/ queue # <<>>)
          /\ task' = [task EXCEPT ![s].pc = "queued"]
          /\ queue' = Append(queue, s)
          /\ UNCHANGED holder
    /\ UNCHANGED <<connected, conn, net>>

Grant(s) ==
    /\ task[s].pc = "queued"
    /\ holder = {} /\ queue # <<>> /\ Head(queue) = s
    /\ task' = [task EXCEPT ![s].pc = "check", ![s].at = jump]
    /\ holder' = {s}
    /\ queue' = Tail(queue)
    /\ UNCHANGED <<connected, conn, net>>

(* Is the jump host connected?  If so, the lock is released, and its       *)
(* connection is the tunnel.                                               *)
Check(s) ==
    /\ task[s].pc = "check"
    /\ IF connected[jump]
       THEN task' = [task EXCEPT ![s] = Own(s, conn[jump])] /\ holder' = holder \ {s}
       ELSE task' = [task EXCEPT ![s].pc = "tcp", ![s].uses = NoConn] /\ UNCHANGED holder
    /\ UNCHANGED <<queue, connected, conn, net>>

(* SSHClient.connection_made: the flag is set before create_connection     *)
(* returns.                                                                *)
Made(s) ==
    LET h == task[s].at
        c == made + 1
    IN  /\ task[s].pc = "tcp"
        /\ made < MaxConn
        /\ Tunnel(s) \in open \union {NoConn}
        /\ made' = c
        /\ open' = open \union {c}
        /\ owner' = [owner EXCEPT ![c] = h]
        /\ via' = [via EXCEPT ![c] = Tunnel(s)]
        /\ connected' = [connected EXCEPT ![h] = TRUE]
        /\ task' = [task EXCEPT ![s].pc = "auth", ![s].uses = c]
        /\ UNCHANGED <<lock, conn>>

Authenticated(s) ==
    /\ task[s].pc = "auth"
    /\ task[s].uses \in open
    /\ task' = [task EXCEPT ![s].pc = "up"]
    /\ UNCHANGED <<lock, connected, conn, net>>

(* Seeded fault: the jump host's connection is not remembered.             *)
Resume_Forgets(s) ==
    /\ task[s].pc = "up"
    /\ IF task[s].at = jump
       THEN task' = [task EXCEPT ![s] = Own(s, conn[jump])] /\ holder' = holder \ {s}
       ELSE task' = [task EXCEPT ![s] = Connected(s, task[s].uses)] /\ UNCHANGED holder
    /\ conn' = IF task[s].at = jump THEN conn ELSE [conn EXCEPT ![s] = task[s].uses]
    /\ UNCHANGED <<queue, connected, net>>

(* create_connection returns to the task, which sets conn, even when the   *)
(* connection has been lost in the meantime.                               *)
Resume(s) ==
    /\ task[s].pc = "up"
    /\ conn' = [conn EXCEPT ![task[s].at] = task[s].uses]
    /\ IF task[s].at = jump
       THEN task' = [task EXCEPT ![s] = Own(s, task[s].uses)] /\ holder' = holder \ {s}
       ELSE task' = [task EXCEPT ![s] = Connected(s, task[s].uses)] /\ UNCHANGED holder
    /\ UNCHANGED <<queue, connected, net>>

(* Seeded fault: an exception leaves the lock held.                        *)
Fails_KeepLock(s) ==
    /\ \/ task[s].pc = "tcp"
       \/ task[s].pc = "auth" /\ task[s].uses \notin open
    /\ task' = [task EXCEPT ![s].pc = "failed", ![s].at = s, ![s].uses = NoConn]
    /\ UNCHANGED <<lock, connected, conn, net>>

(* create_connection raises: nobody answers, or the connection was lost    *)
(* before the login was over.  The locks are released.                     *)
Fails(s) ==
    /\ \/ task[s].pc = "tcp"
       \/ task[s].pc = "auth" /\ task[s].uses \notin open
    /\ task' = [task EXCEPT ![s].pc = "failed", ![s].at = s, ![s].uses = NoConn]
    /\ holder' = holder \ {s}
    /\ UNCHANGED <<queue, connected, conn, net>>

(* wait() tries again after a delay, until its timeout; run() raises.      *)
Retry(s) ==
    /\ task[s].pc = "failed" /\ task[s].phase = "wait"
    /\ task[s].tries < MaxTries
    /\ task' = [task EXCEPT ![s].pc = "enter", ![s].tries = @ + 1]
    /\ UNCHANGED <<lock, connected, conn, net>>

GiveUp(s) ==
    /\ task[s].pc = "failed"
    /\ task' = [task EXCEPT ![s] = At(s, "raised", "run", "none")]
    /\ UNCHANGED <<lock, connected, conn, net>>

------------------------------------------------------------------------------
(* create_session, and the end of the command.                             *)
Open(s) ==
    /\ task[s].pc = "opening"
    /\ task' = [task EXCEPT ![s] = IF task[s].uses \in open
                                   THEN [@ EXCEPT !.pc = "running"]
                                   ELSE At(s, "raised", "run", "none")]
    /\ UNCHANGED <<lock, connected, conn, net>>

Exit(s) ==
    /\ task[s].pc = "running"
    /\ task[s].uses \in open
    /\ \/ task' = [task EXCEPT ![s] = At(s, "ok", "run", "zero")]
       \/ task' = [task EXCEPT ![s] = At(s, "error", "run", "nonzero")]
    /\ UNCHANGED <<lock, connected, conn, net>>

(* The channel closes with the connection: wait_closed returns, the exit   *)
(* status is None, and run_script, which runs the command with check=False *)
(* and looks at "if e", takes that for success.                            *)
ExitLost(s) ==
    /\ task[s].pc = "running"
    /\ task[s].uses \notin open
    /\ task' = [task EXCEPT ![s] = At(s, "ok", "run", "none")]
    /\ UNCHANGED <<lock, connected, conn, net>>

(* Seeded fault: connection_lost leaves the flag set.                      *)
Lost_KeepFlag(c) ==
    /\ c \in open
    /\ open' = open \ {c}
    /\ conn' = [conn EXCEPT ![owner[c]] = NoConn]
    /\ UNCHANGED <<task, lock, connected, owner, via, made>>

(* SSHClient.connection_lost.                                              *)
Lost(c) ==
    /\ c \in open
    /\ open' = open \ {c}
    /\ connected' = [connected EXCEPT ![owner[c]] = FALSE]
    /\ conn' = [conn EXCEPT ![owner[c]] = NoConn]
    /\ via' = [via EXCEPT ![c] = NoConn]
    /\ UNCHANGED <<task, lock, owner, made>>

------------------------------------------------------------------------------
Ensure(s) == Enter(s) \/ Grant(s) \/ Check(s) \/ Authenticated(s) \/ Resume(s)
Attempt(s) == Made(s) \/ Fails(s) \/ Retry(s) \/ GiveUp(s)
Command(s) == Open(s) \/ Exit(s) \/ ExitLost(s)

Next ==
    \/ \E s \in Script : Ensure(s) \/ Attempt(s) \/ Command(s)
    \/ \E c \in Conn : Lost(c)

Spec == Init /\ [][Next]_vars

(* The loop runs what is ready; a connection attempt is answered or fails, *)
(* and a command ends.                                                     *)
FairSpec ==
    Spec /\ \A s \in Script :
        WF_vars(Ensure(s)) /\ WF_vars(Attempt(s)) /\ WF_vars(Command(s))

------------------------------------------------------------------------------
(* Properties.                                                             *)

(* Does some task make a connection for h, with _connected set and conn    *)
(* not yet assigned?                                                       *)
Connecting(h) == \E s \in Script : task[s].at = h /\ task[s].pc \in {"auth", "up"}

(* What _connected says is true: outside a connection attempt it is set    *)
(* exactly when conn is a connection of this object that is open.          *)
FlagMeansLive ==
    \A h \in Host : ~Connecting(h) =>
        (connected[h] <=> conn[h] \in open /\ owner[conn[h]] = h)

(* Scripts that start together do not each connect to the jump host, and a *)
(* reconnection does not leave a connection behind.                        *)
OneConnection == \A c, d \in open : owner[c] = owner[d] => c = d

(* A machine behind the jump host is never connected to directly:          *)
(* self.jumphost.conn, read after _ensure_connected, is a connection of    *)
(* the jump host, whatever was lost in the meantime.                       *)
TunnelUsed ==
    \A c \in open : owner[c] \in Jumped => via[c] # NoConn /\ owner[via[c]] = jump

(* A command is started on a connection of the script's own machine:       *)
(* self.conn is not the None connection_lost leaves.                       *)
CommandOnOwn ==
    \A s \in Script : task[s].pc \in {"opening", "running"} =>
        task[s].uses # NoConn /\ owner[task[s].uses] = s

(* Every script comes to an end, also when its connections are lost: no    *)
(* failure of another one keeps the lock of the jump host.                 *)
ScriptEnds == \A s \in Script : <>(task[s].pc \in Over)

(* run() returns the exit status of the command (its docstring), so a      *)
(* script that succeeds has exited with status 0.                          *)
OkMeansExited == \A s \in Script : task[s].pc = "ok" => task[s].status = "zero"

==============================================================================
