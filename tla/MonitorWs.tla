------------------------------ MODULE MonitorWs ------------------------------
(***************************************************************************)
(* The WebSocket connections of the monitor (ws_handler and the broadcasts *)
(* of rci/services/monitor/service.py) and the pages at their other end    *)
(* (monitor.html), which connect again when a connection is closed.        *)
(*                                                                         *)
(* An action is the code of the daemon between two awaits, a callback of   *)
(* the page, or a failure.                                                 *)
(***************************************************************************)
EXTENDS Naturals, Sequences, SequencesExt

CONSTANTS
    Browser,    \* the pages
    Event,      \* the events of the daemon
    Faults,     \* what may go wrong
    MaxVisits,  \* bound: how often a page connects
    MaxInbox    \* bound: a job is only updated when fewer messages are under way

\* A handler raises or is cancelled; send_str on a connection that the peer
\* has closed raises; Event.run raises when a job starts (_get_target_url of
\* the GitHub service finds no logs-url), and the jobs it started run on.
FaultKind == {"handler", "send", "run"}

ASSUME WsAssumption == Faults \subseteq FaultKind /\ {MaxVisits, MaxInbox} \subseteq Nat

Conn == Browser \X (1..MaxVisits)
Msg == [event : Event, finished : BOOLEAN]

VARIABLES
    life,         \* of an event: new, live, done (finished), over (forgotten), or
                  \* raised (its run did) and lost (forgotten, never finished)
    stage,        \* where the ws_handler of a connection is
    connections,  \* Service.connections
    users,        \* the keys of _ws_user_map
    inbox,        \* what was sent on a connection and not yet received
    visits,       \* how often a page has connected
    online,       \* the pages whose last connection is open, as they see it
    elements,     \* the events a page shows
    missed        \* auxiliary: connections a broadcast has not reached

server == <<stage, connections, users>>
page == <<visits, online, elements>>
vars == <<life, stage, connections, users, inbox, visits, online, elements, missed>>

TypeOK ==
    /\ life \in [Event -> {"new", "live", "done", "over", "raised", "lost"}]
    /\ stage \in [Conn -> {"none", "auth", "open", "closing", "ended", "raised"}]
    /\ connections \in Seq(Conn)
    /\ users \subseteq Conn
    /\ inbox \in [Conn -> Seq(Msg)]
    /\ visits \in [Browser -> 0..MaxVisits]
    /\ online \subseteq Browser
    /\ elements \in [Browser -> SUBSET Event]
    /\ missed \subseteq Conn

Init ==
    /\ life = [e \in Event |-> "new"]
    /\ stage = [k \in Conn |-> "none"]
    /\ connections = <<>>
    /\ users = {}
    /\ inbox = [k \in Conn |-> <<>>]
    /\ visits = [b \in Browser |-> 0]
    /\ online = {}
    /\ elements = [b \in Browser |-> {}]
    /\ missed = {}

\* Root.get_tasks: an event is there until its done callback.
Tasks == {e \in Event : life[e] \in {"live", "done", "raised"}}
Lost == {e \in Event : life[e] = "lost"}
Message(e, status) == [event |-> e, finished |-> status]

------------------------------------------------------------------------------
(* _broadcast sends to one connection after the other; an exception ends   *)
(* it (notify_services logs it), so those after the cut hear nothing.      *)
Cuts ==
    {Len(connections) + 1} \union
    {i \in DOMAIN connections :
        "send" \in Faults /\ stage[connections[i]] \in {"closing", "raised"}}

Broadcast(e, status) ==
    \E cut \in Cuts :
        LET Hears(k) == stage[k] = "open" /\ \E i \in 1..(cut - 1) : connections[i] = k
        IN  /\ inbox' = [k \in Conn |-> IF Hears(k) THEN Append(inbox[k], Message(e, status))
                                                    ELSE inbox[k]]
            /\ missed' = missed \union {k \in ToSet(connections) : ~Hears(k)}

(* Root.emit, and the status of a job that changes: of a live event, or of *)
(* an event whose run raised, which its jobs outlive.                      *)
Start(e) ==
    /\ life[e] = "new"
    /\ life' = [life EXCEPT ![e] = "live"]
    /\ Broadcast(e, FALSE)
    /\ UNCHANGED <<server, page>>

Update(e) ==
    /\ life[e] \in {"live", "raised", "lost"}
    /\ \A k \in Conn : Len(inbox[k]) < MaxInbox
    /\ Broadcast(e, FALSE)
    /\ UNCHANGED <<life, server, page>>

(* Event.run ends; its done callback comes in a later step of the loop.    *)
Finish(e) ==
    /\ life[e] = "live"
    /\ life' = [life EXCEPT ![e] = "done"]
    /\ UNCHANGED <<server, inbox, page, missed>>

(* Event.run ends by an exception: its status remains "pending".           *)
Raise(e) ==
    /\ "run" \in Faults
    /\ life[e] = "live"
    /\ life' = [life EXCEPT ![e] = "raised"]
    /\ UNCHANGED <<server, inbox, page, missed>>

(* Seeded fault: the end of an event is not announced.                     *)
Forget_Silent(e) ==
    /\ life[e] \in {"done", "raised"}
    /\ life' = [life EXCEPT ![e] = IF @ = "done" THEN "over" ELSE "lost"]
    /\ UNCHANGED <<server, inbox, page, missed>>

(* Root._event_done_cb announces the event with the status it has.         *)
Forget(e) ==
    /\ life[e] \in {"done", "raised"}
    /\ life' = [life EXCEPT ![e] = IF @ = "done" THEN "over" ELSE "lost"]
    /\ Broadcast(e, life[e] = "done")
    /\ UNCHANGED <<server, page>>

------------------------------------------------------------------------------
(* A page connects, for the first time or again; onopen clears it.         *)
Connect(b) ==
    /\ b \notin online
    /\ visits[b] < MaxVisits
    /\ visits' = [visits EXCEPT ![b] = @ + 1]
    /\ online' = online \union {b}
    /\ elements' = [elements EXCEPT ![b] = {}]
    /\ stage' = [stage EXCEPT ![<<b, visits[b] + 1>>] = "auth"]
    /\ UNCHANGED <<life, connections, users, inbox, missed>>

(* Seeded fault: the connection hears broadcasts from now on only.         *)
Authorised_NoTasks(k) ==
    /\ stage[k] = "auth"
    /\ stage' = [stage EXCEPT ![k] = "open"]
    /\ users' = users \union {k}
    /\ connections' = Append(connections, k)
    /\ UNCHANGED <<life, inbox, page, missed>>

(* The organisations of the user are known.  All tasks are announced, in   *)
(* the order of a dict, and the connection is registered, in one step.     *)
Authorised(k) ==
    /\ stage[k] = "auth"
    /\ stage' = [stage EXCEPT ![k] = "open"]
    /\ users' = users \union {k}
    /\ connections' = Append(connections, k)
    /\ \E order \in SetToSeqs(Tasks) :
          inbox' = [inbox EXCEPT ![k] =
              [i \in DOMAIN order |-> Message(order[i], life[order[i]] = "done")]]
    /\ UNCHANGED <<life, page, missed>>

(* The page is left or loses its connection, with what was under way, and  *)
(* the peer closes.                                                        *)
Close(k) ==
    /\ stage[k] = "open"
    /\ stage' = [stage EXCEPT ![k] = "closing"]
    /\ online' = online \ {k[1]}
    /\ inbox' = [inbox EXCEPT ![k] = <<>>]
    /\ UNCHANGED <<life, connections, users, visits, elements, missed>>

(* Seeded fault: the first connection of the list is removed.              *)
HandlerEnds_First(k) ==
    /\ stage[k] = "closing"
    /\ stage' = [stage EXCEPT ![k] = "ended"]
    /\ users' = users \ {k}
    /\ connections' = Tail(connections)
    /\ UNCHANGED <<life, inbox, page, missed>>

(* The loop over the messages ends, and the connection is forgotten.       *)
HandlerEnds(k) ==
    /\ stage[k] = "closing"
    /\ stage' = [stage EXCEPT ![k] = "ended"]
    /\ users' = users \ {k}
    /\ \E i \in DOMAIN connections :
          /\ connections[i] = k /\ \A n \in 1..(i - 1) : connections[n] # k
          /\ connections' = RemoveAt(connections, i)
    /\ UNCHANGED <<life, inbox, page, missed>>

(* GitHub does not answer, a message makes a method raise, or aiohttp      *)
(* cancels the handler of a broken connection: nothing is cleaned up.      *)
HandlerRaises(k) ==
    /\ "handler" \in Faults
    /\ stage[k] \in {"auth", "open", "closing"}
    /\ stage' = [stage EXCEPT ![k] = IF @ = "auth" THEN "ended" ELSE "raised"]
    /\ online' = IF k[2] = visits[k[1]] THEN online \ {k[1]} ELSE online
    /\ inbox' = [inbox EXCEPT ![k] = <<>>]
    /\ UNCHANGED <<life, connections, users, visits, elements, missed>>

(* handleTaskUpdate: a task the page does not show gets an element,        *)
(* whatever its status; one it shows is removed when it has finished.      *)
TaskUpdate(b) ==
    LET k == <<b, visits[b]>>
        msg == Head(inbox[k])
    IN  /\ b \in online
        /\ inbox[k] # <<>>
        /\ inbox' = [inbox EXCEPT ![k] = Tail(@)]
        /\ elements' = [elements EXCEPT ![b] =
              IF msg.event \in @ /\ msg.finished THEN @ \ {msg.event}
                                                 ELSE @ \union {msg.event}]
        /\ UNCHANGED <<life, server, visits, online, missed>>

------------------------------------------------------------------------------
EventNext(e) == Start(e) \/ Update(e) \/ Finish(e) \/ Raise(e) \/ Forget(e)
ConnNext(k) == Authorised(k) \/ Close(k) \/ HandlerEnds(k) \/ HandlerRaises(k)
PageNext(b) == Connect(b) \/ TaskUpdate(b)

Next ==
    \/ \E e \in Event : EventNext(e)
    \/ \E k \in Conn : ConnNext(k)
    \/ \E b \in Browser : PageNext(b)

Spec == Init /\ [][Next]_vars

(* Messages arrive, the loop runs what is ready, and GitHub answers.       *)
FairSpec ==
    /\ Spec
    /\ \A b \in Browser : WF_vars(TaskUpdate(b))
    /\ \A k \in Conn : WF_vars(Authorised(k)) /\ WF_vars(HandlerEnds(k))
    /\ \A e \in Event : WF_vars(Forget(e))

------------------------------------------------------------------------------
(* Properties.                                                             *)

(* connections and _ws_user_map have the same connections, each once:      *)
(* those whose handler is in its loop, and the ones it raised in.          *)
Registered ==
    /\ IsInjective(connections)
    /\ users = ToSet(connections)
    /\ users = {k \in Conn : stage[k] \in {"open", "closing", "raised"}}

(* A page that has received all that was sent to it shows every event of   *)
(* the daemon, and besides at most events whose run raised: those are      *)
(* announced as "pending" when they are forgotten.  The exception is a     *)
(* page whose connection a broadcast was cut before it came to.            *)
PageCurrent ==
    \A b \in online :
        LET k == <<b, visits[b]>>
        IN  stage[k] = "open" /\ inbox[k] = <<>> /\ k \notin missed =>
                Tasks \subseteq elements[b] /\ elements[b] \subseteq Tasks \union Lost

(* An event that finished and is over disappears from every page that      *)
(* stays connected, whatever became of other connections, unless a         *)
(* broadcast was cut before it came to the connection of this one.  One    *)
(* whose run raised is not over: its element stays until the page connects *)
(* again, and a late job may bring it back.                                *)
ElementsGo ==
    \A b \in Browser, e \in Event :
        (life[e] = "over" /\ e \in elements[b]) ~>
            (e \notin elements[b] \/ b \notin online \/ <<b, visits[b]>> \in missed)

==============================================================================
