-------------------------- MODULE ClusterPoolProofs --------------------------
(* Machine-checked theorems about ClusterPool, for every number of         *)
(* requests, servers, networks and slots, whatever may fail.               *)
EXTENDS ClusterPool, FiniteSetTheorems, TLAPS

(* The servers that have taken a slot and not given it back.               *)
UsesSlot(s) == server[s] \in {"granted", "booting", "active", "error",
                              "attached", "stopping", "stuck", "gone"}

(* What a request's phase says of each of its servers.                     *)
ServerInv(s) ==
    /\ s \in slots <=> UsesSlot(s)
    /\ phase[RequestOf[s]] \in {"idle", "queued"} => server[s] = "none"
    /\ phase[RequestOf[s]] \in {"building", "failed"} =>
          server[s] \in {"none", "chosen", "granted", "booting", "active", "error", "attached"}
    /\ phase[RequestOf[s]] = "returned" => server[s] = "attached"
    /\ phase[RequestOf[s]] \in {"deleting", "broken"} =>
          server[s] \in {"attached", "stopping", "stuck", "gone", "released",
                        "ghost", "undead", "late"}
    /\ phase[RequestOf[s]] = "deleted" => server[s] = "released" \/ Misread(s)

(* What it says of its networks: they are there from before the slot is    *)
(* taken until the servers are out of the cloud.                           *)
NetInv(s, n) ==
    /\ server[s] \in {"granted", "booting", "active", "error", "attached",
                      "stopping", "stuck"} => net[n] = "recorded"
    /\ server[s] \in {"ghost", "undead"} => net[n] \in {"recorded", "kept"}
    /\ net[n] \in {"deleted", "kept", "refused"} =>
          phase[RequestOf[s]] \in {"deleting", "deleted", "broken"}
    /\ phase[RequestOf[s]] = "deleted" => net[n] \in {"deleted", "kept", "refused"}

(* A network that was kept has a server in it that was misread.            *)
KeptInv(n) == net[n] = "kept" => \E s \in Server : n \in NetsOf[s] /\ Misread(s)

(* The lock is held by the one request that builds, and every waiter is    *)
(* queued, once.                                                           *)
LockInv ==
    /\ \A r \in Request : phase[r] = "building" <=> lock = r
    /\ \A i \in 1..Len(waiters) : phase[waiters[i]] = "queued"
    /\ \A i, k \in 1..Len(waiters) : waiters[i] = waiters[k] => i = k

IInv ==
    /\ TypeOK
    /\ SlotsAddUp
    /\ LockInv
    /\ \A s \in Server : ServerInv(s)
    /\ \A s \in Server : \A n \in NetsOf[s] : NetInv(s, n)
    /\ \A n \in Net : KeptInv(n)

------------------------------------------------------------------------------
(* Type correctness.                                                       *)
LEMMA TypeInit == Init => TypeOK
  BY PoolAssumption DEF Init, TypeOK, Phase, ServerState, NetState

LEMMA TypeStep == TypeOK /\ [Next]_vars => TypeOK'
<1> SUFFICES ASSUME TypeOK, [Next]_vars PROVE TypeOK'
  OBVIOUS
<1> USE PoolAssumption DEF TypeOK, Phase, ServerState, NetState
<1>1. ASSUME NEW r \in Request, Call(r) PROVE TypeOK'
  <2>1. CASE lock = NoRequest /\ waiters = <<>>
    BY <1>1, <2>1 DEF Call
  <2>2. CASE ~(lock = NoRequest /\ waiters = <<>>)
    <3>1. waiters' = Append(waiters, r) /\ phase' = [phase EXCEPT ![r] = "queued"]
          /\ UNCHANGED <<lock, sem, slots, server, net>>
      BY <1>1, <2>2 DEF Call
    <3>2. waiters' \in Seq(Request)
      BY <3>1
    <3> QED
      BY <3>1, <3>2
  <2> QED
    BY <2>1, <2>2
<1>2. ASSUME NEW r \in Request, Return(r) PROVE TypeOK'
  BY <1>2 DEF Return
<1>3. ASSUME NEW r \in Request, BuildRaises(r) PROVE TypeOK'
  BY <1>3 DEF BuildRaises
<1>4. ASSUME NEW r \in Request, Delete(r) PROVE TypeOK'
  BY <1>4 DEF Delete
<1>5. ASSUME NEW r \in Request, Deleted(r) PROVE TypeOK'
  BY <1>5 DEF Deleted
<1>6. ASSUME NEW r \in Request, DeleteRaises(r) PROVE TypeOK'
  BY <1>6 DEF DeleteRaises
<1>7. ASSUME Grant PROVE TypeOK'
  BY <1>7 DEF Grant
<1>8. ASSUME NEW s \in Server, Choose(s) PROVE TypeOK'
  BY <1>8 DEF Choose
<1>9. ASSUME NEW s \in Server, AcquireSlot(s) PROVE TypeOK'
  BY <1>9 DEF AcquireSlot
<1>10. ASSUME NEW s \in Server, CreateServer(s) PROVE TypeOK'
  BY <1>10 DEF CreateServer
<1>11. ASSUME NEW s \in Server, Attach(s) PROVE TypeOK'
  BY <1>11 DEF Attach
<1>12. ASSUME NEW s \in Server, StopServer(s) PROVE TypeOK'
  BY <1>12 DEF StopServer
<1>13. ASSUME NEW s \in Server, ReleaseSlot(s) \/ MisreadPoll(s) PROVE TypeOK'
  <2>1. CASE ReleaseSlot(s)
    BY <2>1 DEF ReleaseSlot
  <2>2. CASE MisreadPoll(s)
    <3>1. PICK end \in {"ghost", "undead"} : server' = [server EXCEPT ![s] = end]
      BY <2>2 DEF MisreadPoll
    <3> QED
      BY <2>2, <3>1 DEF MisreadPoll
  <2> QED
    BY <1>13, <2>1, <2>2
<1>14. ASSUME NEW s \in Server, ServerBoots(s) PROVE TypeOK'
  BY <1>14 DEF ServerBoots
<1>15. ASSUME NEW s \in Server, ServerFails(s) PROVE TypeOK'
  BY <1>15 DEF ServerFails
<1>16. ASSUME NEW s \in Server, ServerStops(s) \/ ServerStays(s) PROVE TypeOK'
  BY <1>16 DEF ServerStops, ServerStays
<1>17. ASSUME NEW n \in Net, CreateNetwork(n) PROVE TypeOK'
  BY <1>17 DEF CreateNetwork
<1>18. ASSUME NEW n \in Net, CreateSubnet(n) PROVE TypeOK'
  BY <1>18 DEF CreateSubnet
<1>19. ASSUME NEW n \in Net, DeleteNetwork(n) PROVE TypeOK'
  <2>1. PICK end \in {"kept", "deleted", "refused"} : net' = [net EXCEPT ![n] = end]
    BY <1>19 DEF DeleteNetwork
  <2> QED
    BY <1>19, <2>1 DEF DeleteNetwork
<1>20. CASE UNCHANGED vars
  BY <1>20 DEF vars
<1> QED
  BY <1>1, <1>2, <1>3, <1>4, <1>5, <1>6, <1>7, <1>8, <1>9, <1>10, <1>11, <1>12, <1>13, <1>14, <1>15, <1>16, <1>17, <1>18, <1>19, <1>20
  DEF Next, Raises, BuildServer, DeleteServer, Cloud, NetworkStep

THEOREM TypeCorrect == Spec => []TypeOK
  BY TypeInit, TypeStep, PTL DEF Spec

------------------------------------------------------------------------------
(* The inductive invariant.                                                *)
LEMMA InvInit == Init => IInv
<1> SUFFICES ASSUME Init PROVE IInv
  OBVIOUS
<1>1. SlotsAddUp
  BY FS_EmptySet, PoolAssumption DEF Init, SlotsAddUp
<1>2. LockInv
  BY PoolAssumption DEF Init, LockInv
<1>3. ASSUME NEW s \in Server PROVE ServerInv(s)
  BY PoolAssumption DEF Init, ServerInv, UsesSlot
<1>4. ASSUME NEW s \in Server, NEW n \in NetsOf[s] PROVE NetInv(s, n)
  BY PoolAssumption DEF Init, NetInv
<1>5. ASSUME NEW n \in Net PROVE KeptInv(n)
  BY DEF Init, KeptInv
<1> QED
  BY TypeInit, <1>1, <1>2, <1>3, <1>4, <1>5 DEF IInv

(* Only AcquireSlot and the end of delete_server touch the semaphore, each *)
(* for one server: one that has no slot, and one that has.                 *)
LEMMA SlotsStep == IInv /\ [Next]_vars => SlotsAddUp'
<1> SUFFICES ASSUME IInv, [Next]_vars PROVE SlotsAddUp'
  OBVIOUS
<1>0. IsFiniteSet(slots) /\ Cardinality(slots) \in Nat
  BY PoolAssumption, FS_Subset, FS_CardinalityType DEF IInv, TypeOK
<1>1. ASSUME NEW s \in Server, AcquireSlot(s) PROVE SlotsAddUp'
  <2>1. s \notin slots
    BY <1>1 DEF AcquireSlot, IInv, ServerInv, UsesSlot
  <2>2. Cardinality(slots \union {s}) = Cardinality(slots) + 1
    BY <1>0, <2>1, FS_AddElement
  <2> QED
    BY <1>0, <1>1, <2>2, PoolAssumption DEF AcquireSlot, IInv, TypeOK, SlotsAddUp
<1>2. ASSUME NEW s \in Server, ReleaseSlot(s) \/ MisreadPoll(s) PROVE SlotsAddUp'
  <2>1. s \in slots
    BY <1>2 DEF ReleaseSlot, MisreadPoll, IInv, ServerInv, UsesSlot
  <2>2. Cardinality(slots \ {s}) = Cardinality(slots) - 1
    BY <1>0, <2>1, FS_RemoveElement
  <2>3. sem' = sem + 1 /\ slots' = slots \ {s}
    BY <1>2 DEF ReleaseSlot, MisreadPoll
  <2> QED
    BY <1>0, <2>2, <2>3, PoolAssumption DEF IInv, TypeOK, SlotsAddUp
<1>3. CASE UNCHANGED <<sem, slots>>
  BY <1>3 DEF IInv, SlotsAddUp
<1> QED
  BY <1>1, <1>2, <1>3
  DEF Next, Raises, BuildServer, DeleteServer, Cloud, NetworkStep, vars, Grant, Call, Return, BuildRaises, Delete, Deleted, DeleteRaises, Choose, CreateServer, Attach, StopServer, ServerBoots, ServerFails, ServerStops, ServerStays, CreateNetwork, CreateSubnet, DeleteNetwork

(* The lock passes from the one who builds to nobody, and from nobody to   *)
(* the first of the queue.                                                 *)
LEMMA LockStep == IInv /\ [Next]_vars => LockInv'
<1> SUFFICES ASSUME IInv, [Next]_vars PROVE LockInv'
  OBVIOUS
<1> USE PoolAssumption DEF IInv, TypeOK
<1>1. ASSUME NEW r \in Request, Call(r) PROVE LockInv'
  <2>1. CASE lock = NoRequest /\ waiters = <<>>
    BY <1>1, <2>1 DEF Call, LockInv
  <2>2. CASE ~(lock = NoRequest /\ waiters = <<>>)
    <3>1. /\ waiters' = Append(waiters, r) /\ phase' = [phase EXCEPT ![r] = "queued"]
          /\ lock' = lock /\ phase[r] = "idle"
      BY <1>1, <2>2 DEF Call
    <3>2. \A q \in Request : phase'[q] = "building" <=> lock' = q
      BY <3>1 DEF LockInv
    <3>3. /\ Len(waiters') = Len(waiters) + 1 /\ waiters'[Len(waiters) + 1] = r
          /\ \A i \in 1..Len(waiters) : waiters'[i] = waiters[i] /\ waiters[i] \in Request
      BY <3>1
    <3>4. \A i \in 1..Len(waiters) : waiters[i] # r
      BY <3>1 DEF LockInv
    <3>5. \A i \in 1..Len(waiters') : i \in 1..Len(waiters) \/ i = Len(waiters) + 1
      BY <3>3
    <3>6. \A i \in 1..Len(waiters') : phase'[waiters'[i]] = "queued"
      BY <3>1, <3>3, <3>4, <3>5 DEF LockInv
    <3>7. \A i, k \in 1..Len(waiters') : waiters'[i] = waiters'[k] => i = k
      <4> SUFFICES ASSUME NEW i \in 1..Len(waiters'), NEW k \in 1..Len(waiters'),
                          waiters'[i] = waiters'[k]
                   PROVE  i = k
        OBVIOUS
      <4>1. CASE i \in 1..Len(waiters) /\ k \in 1..Len(waiters)
        BY <3>3, <4>1 DEF LockInv
      <4>2. CASE i \in 1..Len(waiters) /\ k = Len(waiters) + 1
        BY <3>3, <3>4, <4>2
      <4>3. CASE i = Len(waiters) + 1 /\ k \in 1..Len(waiters)
        BY <3>3, <3>4, <4>3
      <4>4. CASE i = Len(waiters) + 1 /\ k = Len(waiters) + 1
        BY <4>4
      <4> QED
        BY <3>5, <4>1, <4>2, <4>3, <4>4
    <3> QED
      BY <3>2, <3>6, <3>7 DEF LockInv
  <2> QED
    BY <2>1, <2>2
<1>2. ASSUME Grant PROVE LockInv'
  <2>1. /\ waiters # <<>> /\ waiters' = Tail(waiters) /\ lock = NoRequest
        /\ lock' = Head(waiters) /\ phase' = [phase EXCEPT ![Head(waiters)] = "building"]
    BY <1>2 DEF Grant
  <2>2. Len(waiters) \in Nat /\ Len(waiters) > 0 /\ Head(waiters) = waiters[1]
        /\ waiters[1] \in Request
    BY <2>1
  <2>3. /\ Len(waiters') = Len(waiters) - 1
        /\ \A i \in 1..Len(waiters') : /\ waiters'[i] = waiters[i + 1]
                                        /\ i + 1 \in 1..Len(waiters) /\ i + 1 # 1
                                        /\ waiters[i + 1] \in Request
    BY <2>1, <2>2
  <2>4. \A q \in Request : phase'[q] = "building" <=> lock' = q
    BY <2>1, <2>2 DEF LockInv
  <2>5. \A i \in 1..Len(waiters') : phase'[waiters'[i]] = "queued"
    BY <2>1, <2>2, <2>3 DEF LockInv
  <2>6. \A i, k \in 1..Len(waiters') : waiters'[i] = waiters'[k] => i = k
    <3> SUFFICES ASSUME NEW i \in 1..Len(waiters'), NEW k \in 1..Len(waiters'),
                        waiters'[i] = waiters'[k]
                 PROVE  i = k
      OBVIOUS
    <3>1. waiters[i + 1] = waiters[k + 1] /\ i + 1 \in 1..Len(waiters) /\ k + 1 \in 1..Len(waiters)
      BY <2>3
    <3>2. i + 1 = k + 1
      BY <3>1 DEF LockInv
    <3> QED
      BY <2>2, <2>3, <3>2
  <2> QED
    BY <2>4, <2>5, <2>6 DEF LockInv
<1>3. ASSUME NEW r \in Request, NEW new \in {"returned", "failed"}, phase[r] = "building",
             phase' = [phase EXCEPT ![r] = new], lock' = NoRequest, waiters' = waiters
      PROVE  LockInv'
  BY <1>3 DEF LockInv
<1>4. ASSUME NEW r \in Request, NEW new \in {"deleting", "deleted", "broken"},
             phase[r] \in {"returned", "deleting"},
             phase' = [phase EXCEPT ![r] = new], lock' = lock, waiters' = waiters
      PROVE  LockInv'
  BY <1>4 DEF LockInv
<1>5. ASSUME NEW r \in Request, Return(r) \/ Raises(r) \/ Delete(r) \/ Deleted(r) PROVE LockInv'
  BY <1>3, <1>4, <1>5 DEF Raises, Return, BuildRaises, Delete, Deleted, DeleteRaises, Deleting
<1>6. CASE UNCHANGED <<phase, lock, waiters>>
  BY <1>6 DEF LockInv
<1> QED
  BY <1>1, <1>2, <1>5, <1>6
  DEF Next, BuildServer, DeleteServer, Cloud, NetworkStep, vars, Choose, AcquireSlot, CreateServer, Attach, StopServer, ReleaseSlot, MisreadPoll, ServerBoots, ServerFails, ServerStops, ServerStays, CreateNetwork, CreateSubnet, DeleteNetwork

LEMMA ServerStep == IInv /\ [Next]_vars => \A s \in Server : ServerInv(s)'
<1> SUFFICES ASSUME IInv, [Next]_vars, NEW t \in Server PROVE ServerInv(t)'
  OBVIOUS
<1> USE PoolAssumption DEF IInv, TypeOK
<1>0. ServerInv(t) /\ RequestOf[t] \in Request /\ phase[RequestOf[t]] \in Phase
      /\ server[t] \in ServerState
  OBVIOUS
<1>1. ASSUME NEW r \in Request, Call(r) PROVE ServerInv(t)'
  BY <1>0, <1>1 DEF ServerInv, UsesSlot, Misread, Call
<1>2. ASSUME Grant PROVE ServerInv(t)'
  <2>1. Head(waiters) \in Request /\ phase[Head(waiters)] = "queued"
    BY <1>2 DEF Grant, LockInv
  <2> QED
    BY <1>0, <1>2, <2>1 DEF ServerInv, UsesSlot, Misread, Grant
<1>3. ASSUME NEW r \in Request, Return(r) PROVE ServerInv(t)'
  BY <1>0, <1>3 DEF ServerInv, UsesSlot, Misread, Return, ServersOf
<1>4. ASSUME NEW r \in Request, BuildRaises(r) PROVE ServerInv(t)'
  BY <1>0, <1>4 DEF ServerInv, UsesSlot, Misread, BuildRaises, ServersOf, Acquiring
<1>5. ASSUME NEW r \in Request, Delete(r) PROVE ServerInv(t)'
  BY <1>0, <1>5 DEF ServerInv, UsesSlot, Misread, Delete
<1>6. ASSUME NEW r \in Request, Deleted(r) PROVE ServerInv(t)'
  BY <1>0, <1>6 DEF ServerInv, UsesSlot, Misread, Deleted, Deleting, ServersGone, NetworksOf, ServersOf
<1>7. ASSUME NEW r \in Request, DeleteRaises(r) PROVE ServerInv(t)'
  BY <1>0, <1>7 DEF ServerInv, UsesSlot, Misread, DeleteRaises, Deleting
<1>8. ASSUME NEW s \in Server, Choose(s) PROVE ServerInv(t)'
  BY <1>0, <1>8 DEF ServerInv, UsesSlot, Misread, Choose, Building, Created
<1>9. ASSUME NEW s \in Server, AcquireSlot(s) PROVE ServerInv(t)'
  BY <1>0, <1>9 DEF ServerInv, UsesSlot, Misread, AcquireSlot, Building, NetworksReady
<1>10. ASSUME NEW s \in Server, CreateServer(s) PROVE ServerInv(t)'
  BY <1>0, <1>10 DEF ServerInv, UsesSlot, Misread, CreateServer, Building
<1>11. ASSUME NEW s \in Server, Attach(s) PROVE ServerInv(t)'
  BY <1>0, <1>11 DEF ServerInv, UsesSlot, Misread, Attach, Building, Created
<1>12. ASSUME NEW s \in Server, StopServer(s) PROVE ServerInv(t)'
  BY <1>0, <1>12 DEF ServerInv, UsesSlot, Misread, StopServer, Deleting
<1>13. ASSUME NEW s \in Server, ReleaseSlot(s) \/ MisreadPoll(s) PROVE ServerInv(t)'
  BY <1>0, <1>13 DEF ServerInv, UsesSlot, Misread, ReleaseSlot, MisreadPoll, Deleting
<1>14. ASSUME NEW s \in Server, ServerBoots(s) PROVE ServerInv(t)'
  BY <1>0, <1>14 DEF ServerInv, UsesSlot, Misread, ServerBoots
<1>15. ASSUME NEW s \in Server, ServerFails(s) PROVE ServerInv(t)'
  BY <1>0, <1>15 DEF ServerInv, UsesSlot, Misread, ServerFails
<1>16. ASSUME NEW s \in Server, ServerStops(s) \/ ServerStays(s) PROVE ServerInv(t)'
  BY <1>0, <1>16 DEF ServerInv, UsesSlot, Misread, ServerStops, ServerStays
<1>17. CASE UNCHANGED <<phase, slots, server>>
  BY <1>0, <1>17 DEF ServerInv, UsesSlot, Misread
<1> QED
  BY <1>1, <1>2, <1>3, <1>4, <1>5, <1>6, <1>7, <1>8, <1>9, <1>10, <1>11, <1>12, <1>13, <1>14, <1>15, <1>16, <1>17
  DEF Next, Raises, BuildServer, DeleteServer, Cloud, NetworkStep, vars, CreateNetwork, CreateSubnet, DeleteNetwork

LEMMA NetStep ==
  IInv /\ [Next]_vars => \A s \in Server : \A n \in NetsOf[s] : NetInv(s, n)'
<1> SUFFICES ASSUME IInv, [Next]_vars, NEW t \in Server, NEW m \in NetsOf[t] PROVE NetInv(t, m)'
  OBVIOUS
<1> USE PoolAssumption DEF IInv, TypeOK
<1>0. NetInv(t, m) /\ ServerInv(t) /\ RequestOf[t] \in Request /\ phase[RequestOf[t]] \in Phase
      /\ server[t] \in ServerState /\ m \in Net /\ net[m] \in NetState
  OBVIOUS
<1>1. ASSUME NEW r \in Request, Call(r) PROVE NetInv(t, m)'
  BY <1>0, <1>1 DEF NetInv, ServerInv, Call
<1>2. ASSUME Grant PROVE NetInv(t, m)'
  <2>1. Head(waiters) \in Request /\ phase[Head(waiters)] = "queued"
    BY <1>2 DEF Grant, LockInv
  <2> QED
    BY <1>0, <1>2, <2>1 DEF NetInv, ServerInv, Grant
<1>3. ASSUME NEW r \in Request, Return(r) PROVE NetInv(t, m)'
  BY <1>0, <1>3 DEF NetInv, ServerInv, Return, ServersOf
<1>4. ASSUME NEW r \in Request, BuildRaises(r) PROVE NetInv(t, m)'
  BY <1>0, <1>4 DEF NetInv, ServerInv, BuildRaises, ServersOf, Acquiring
<1>5. ASSUME NEW r \in Request, Delete(r) PROVE NetInv(t, m)'
  BY <1>0, <1>5 DEF NetInv, ServerInv, Delete
<1>6. ASSUME NEW r \in Request, Deleted(r) PROVE NetInv(t, m)'
  BY <1>0, <1>6 DEF NetInv, ServerInv, Deleted, Deleting, ServersGone, NetworksOf, ServersOf
<1>7. ASSUME NEW r \in Request, DeleteRaises(r) PROVE NetInv(t, m)'
  BY <1>0, <1>7 DEF NetInv, ServerInv, DeleteRaises, Deleting
<1>8. ASSUME NEW s \in Server, Choose(s) PROVE NetInv(t, m)'
  BY <1>0, <1>8 DEF NetInv, ServerInv, Choose, Building, Created
<1>9. ASSUME NEW s \in Server, AcquireSlot(s) PROVE NetInv(t, m)'
  BY <1>0, <1>9 DEF NetInv, ServerInv, AcquireSlot, Building, NetworksReady
<1>10. ASSUME NEW s \in Server, CreateServer(s) PROVE NetInv(t, m)'
  BY <1>0, <1>10 DEF NetInv, ServerInv, CreateServer, Building
<1>11. ASSUME NEW s \in Server, Attach(s) PROVE NetInv(t, m)'
  BY <1>0, <1>11 DEF NetInv, ServerInv, Attach, Building, Created
<1>12. ASSUME NEW s \in Server, StopServer(s) PROVE NetInv(t, m)'
  BY <1>0, <1>12 DEF NetInv, ServerInv, StopServer, Deleting
<1>13. ASSUME NEW s \in Server, ReleaseSlot(s) \/ MisreadPoll(s) PROVE NetInv(t, m)'
  BY <1>0, <1>13 DEF NetInv, ServerInv, ReleaseSlot, MisreadPoll, Deleting
<1>14. ASSUME NEW s \in Server, ServerBoots(s) PROVE NetInv(t, m)'
  BY <1>0, <1>14 DEF NetInv, ServerInv, ServerBoots
<1>15. ASSUME NEW s \in Server, ServerFails(s) PROVE NetInv(t, m)'
  BY <1>0, <1>15 DEF NetInv, ServerInv, ServerFails
<1>16. ASSUME NEW s \in Server, ServerStops(s) \/ ServerStays(s) PROVE NetInv(t, m)'
  BY <1>0, <1>16 DEF NetInv, ServerInv, ServerStops, ServerStays
<1>17. ASSUME NEW n \in Net, CreateNetwork(n) PROVE NetInv(t, m)'
  BY <1>0, <1>17 DEF NetInv, ServerInv, CreateNetwork, Building
<1>18. ASSUME NEW n \in Net, CreateSubnet(n) PROVE NetInv(t, m)'
  BY <1>0, <1>18 DEF NetInv, ServerInv, CreateSubnet, Building
<1>19. ASSUME NEW n \in Net, DeleteNetwork(n) PROVE NetInv(t, m)'
  BY <1>0, <1>19 DEF NetInv, ServerInv, DeleteNetwork, Deleting, ServersGone, NetworksOf, InCloud, Misread, ServersOf
<1>20. CASE UNCHANGED vars
  BY <1>0, <1>20 DEF NetInv, vars
<1> QED
  BY <1>1, <1>2, <1>3, <1>4, <1>5, <1>6, <1>7, <1>8, <1>9, <1>10, <1>11, <1>12, <1>13, <1>14, <1>15, <1>16, <1>17, <1>18, <1>19, <1>20
  DEF Next, Raises, BuildServer, DeleteServer, Cloud, NetworkStep

(* Nothing undoes that a server was misread.                               *)
LEMMA MisreadStays ==
  ASSUME IInv, [Next]_vars, NEW t \in Server, Misread(t)
  PROVE  Misread(t)'
<1> USE PoolAssumption DEF IInv, TypeOK, Misread
<1>1. ASSUME NEW s \in Server, BuildServer(s) PROVE Misread(t)'
  BY <1>1 DEF BuildServer, Choose, AcquireSlot, CreateServer, Attach
<1>2. ASSUME NEW s \in Server, DeleteServer(s) \/ MisreadPoll(s) PROVE Misread(t)'
  BY <1>2 DEF DeleteServer, StopServer, ReleaseSlot, MisreadPoll
<1>3. ASSUME NEW s \in Server, Cloud(s) PROVE Misread(t)'
  BY <1>3 DEF Cloud, ServerBoots, ServerFails, ServerStops, ServerStays
<1>4. ASSUME NEW r \in Request, BuildRaises(r) PROVE Misread(t)'
  BY <1>4 DEF BuildRaises
<1>5. CASE UNCHANGED server
  BY <1>5
<1> QED
  BY <1>1, <1>2, <1>3, <1>4, <1>5
  DEF Next, Raises, NetworkStep, vars, Grant, Call, Return, Delete, Deleted, DeleteRaises, CreateNetwork, CreateSubnet, DeleteNetwork

(* When a network is kept the servers of its request are believed gone,    *)
(* and nobody else has a server in it: the one it is kept for was misread. *)
LEMMA KeptStep == IInv /\ [Next]_vars => \A n \in Net : KeptInv(n)'
<1> SUFFICES ASSUME IInv, [Next]_vars, NEW m \in Net, net'[m] = "kept"
             PROVE  \E s \in Server : m \in NetsOf[s] /\ Misread(s)'
  BY DEF KeptInv
<1> USE PoolAssumption DEF IInv, TypeOK
<1>1. CASE net[m] = "kept"
  <2>1. PICK s \in Server : m \in NetsOf[s] /\ Misread(s)
    BY <1>1 DEF KeptInv
  <2> QED
    BY <2>1, MisreadStays
<1>2. ASSUME net[m] # "kept", NEW n \in Net, DeleteNetwork(n)
      PROVE  \E s \in Server : m \in NetsOf[s] /\ Misread(s)'
  <2>1. n = m /\ \E s \in Server : InCloud(s) /\ m \in NetsOf[s]
    BY <1>2 DEF DeleteNetwork
  <2>2. PICK s \in Server : InCloud(s) /\ m \in NetsOf[s]
    BY <2>1
  <2>3. PICK r \in Request : m \in NetworksOf(r) /\ ServersGone(r)
    BY <1>2, <2>1 DEF DeleteNetwork
  <2>4. PICK t \in ServersOf(r) : m \in NetsOf[t]
    BY <2>3 DEF NetworksOf
  <2>5. t \in Server /\ RequestOf[t] = r /\ m \in NetsOf[s] \intersect NetsOf[t]
    BY <2>2, <2>4 DEF ServersOf
  <2>6. s \in ServersOf(r)
    BY <2>5 DEF ServersOf
  <2>7. Misread(s)
    BY <2>2, <2>3, <2>6 DEF ServersGone, InCloud
  <2> QED
    BY <2>2, <2>7, MisreadStays
<1>3. CASE net[m] # "kept" /\ ~\E n \in Net : DeleteNetwork(n)
  <2>1. net'[m] # "kept"
    BY <1>3
    DEF Next, Raises, BuildServer, DeleteServer, Cloud, NetworkStep, vars, Grant, Call, Return, BuildRaises, Delete, Deleted, DeleteRaises, Choose, AcquireSlot, CreateServer, Attach, StopServer, ReleaseSlot, MisreadPoll, ServerBoots, ServerFails, ServerStops, ServerStays, CreateNetwork, CreateSubnet
  <2> QED
    BY <2>1
<1> QED
  BY <1>1, <1>2, <1>3

LEMMA InvStep == IInv /\ [Next]_vars => IInv'
  BY TypeStep, SlotsStep, LockStep, ServerStep, NetStep, KeptStep DEF IInv

------------------------------------------------------------------------------
(* The theorems.                                                           *)
THEOREM InvCorrect == Spec => []IInv
  BY InvInit, InvStep, PTL DEF Spec

(* No slot is lost but with a request that raised, none is given twice.    *)
THEOREM SlotsAddUpCorrect == Spec => []SlotsAddUp
<1>1. IInv => SlotsAddUp
  BY DEF IInv
<1> QED
  BY <1>1, InvCorrect, PTL

(* The servers in the cloud are among those that use a slot.               *)
THEOREM QuotaRespectedCorrect == Spec => []QuotaRespected
<1> DEFINE Counted == {s \in Server : InCloud(s) /\ ~Misread(s)}
<1>1. IInv => QuotaRespected
  <2> SUFFICES ASSUME IInv PROVE QuotaRespected
    OBVIOUS
  <2>1. Counted \subseteq slots
    BY DEF IInv, ServerInv, UsesSlot, InCloud, Misread
  <2>2. IsFiniteSet(slots)
    BY PoolAssumption, FS_Subset DEF IInv, TypeOK
  <2>3. /\ Cardinality(Counted) \in Nat /\ Cardinality(slots) \in Nat
        /\ Cardinality(Counted) <= Cardinality(slots)
    BY <2>1, <2>2, FS_Subset, FS_CardinalityType
  <2>4. Cardinality(slots) <= MaxVms
    BY <2>3, PoolAssumption DEF IInv, TypeOK, SlotsAddUp
  <2> QED
    BY <2>3, <2>4, PoolAssumption DEF QuotaRespected
<1> QED
  BY <1>1, InvCorrect, PTL

(* Whoever waits for a slot waits for complete clusters only.              *)
THEOREM OneUnfinishedClusterCorrect == Spec => []OneUnfinishedCluster
<1>1. IInv => OneUnfinishedCluster
  <2> SUFFICES ASSUME IInv, NEW s \in slots, RequestOf[s] # lock
               PROVE  \/ phase[RequestOf[s]] \in {"failed", "broken"}
                      \/ /\ phase[RequestOf[s]] \in {"returned", "deleting"}
                         /\ server[s] \in {"attached", "stopping", "stuck", "gone"}
    BY DEF OneUnfinishedCluster
  <2>1. /\ s \in Server /\ RequestOf[s] \in Request /\ ServerInv(s)
        /\ phase[RequestOf[s]] \in Phase
    BY PoolAssumption DEF IInv, TypeOK
  <2>2. phase[RequestOf[s]] # "building"
    BY <2>1 DEF IInv, LockInv
  <2> QED
    BY <2>1, <2>2 DEF ServerInv, UsesSlot, Misread, Phase
<1> QED
  BY <1>1, InvCorrect, PTL

(* A returned cluster is complete.                                         *)
THEOREM ReturnedWholeCorrect == Spec => []ReturnedWhole
<1>1. IInv => ReturnedWhole
  <2> SUFFICES ASSUME IInv, NEW r \in Request, phase[r] = "returned"
               PROVE  /\ \A s \in ServersOf(r) : server[s] = "attached" /\ s \in slots
                      /\ \A n \in NetworksOf(r) : net[n] = "recorded"
    BY DEF ReturnedWhole
  <2>1. ASSUME NEW s \in ServersOf(r) PROVE server[s] = "attached" /\ s \in slots
    BY DEF IInv, ServerInv, UsesSlot, ServersOf
  <2>2. ASSUME NEW n \in NetworksOf(r) PROVE net[n] = "recorded"
    <3>1. PICK s \in ServersOf(r) : n \in NetsOf[s]
      BY DEF NetworksOf
    <3>2. s \in Server /\ phase[RequestOf[s]] = "returned" /\ NetInv(s, n)
      BY <3>1 DEF IInv, ServersOf
    <3> QED
      BY <2>1, <3>1, <3>2 DEF NetInv
  <2> QED
    BY <2>1, <2>2
<1> QED
  BY <1>1, InvCorrect, PTL

(* The networks are created before the servers and deleted after them.     *)
THEOREM NetworksOutliveServersCorrect == Spec => []NetworksOutliveServers
<1>1. IInv => NetworksOutliveServers
  BY DEF IInv, NetInv, InCloud, Misread, NetworksOutliveServers
<1> QED
  BY <1>1, InvCorrect, PTL

(* A deletion that ends leaves nothing behind without a reason of its own. *)
THEOREM DeletedLeavesNothingCorrect == Spec => []DeletedLeavesNothing
<1>1. IInv => DeletedLeavesNothing
  <2> SUFFICES ASSUME IInv, NEW r \in Request, phase[r] = "deleted"
               PROVE  /\ \A s \in ServersOf(r) :
                            s \notin slots /\ (InCloud(s) => Misread(s))
                      /\ \A n \in NetworksOf(r) :
                            \/ net[n] \in {"deleted", "refused"}
                            \/ /\ net[n] = "kept"
                               /\ \E s \in ServersOf(r) : n \in NetsOf[s] /\ Misread(s)
    BY DEF DeletedLeavesNothing
  <2>1. ASSUME NEW s \in ServersOf(r)
        PROVE  s \notin slots /\ (InCloud(s) => Misread(s))
    BY DEF IInv, ServerInv, UsesSlot, InCloud, Misread, ServersOf
  <2>2. ASSUME NEW n \in NetworksOf(r)
        PROVE  \/ net[n] \in {"deleted", "refused"}
               \/ /\ net[n] = "kept"
                  /\ \E s \in ServersOf(r) : n \in NetsOf[s] /\ Misread(s)
    <3>1. PICK s \in ServersOf(r) : n \in NetsOf[s]
      BY DEF NetworksOf
    <3>2. /\ s \in Server /\ RequestOf[s] = r /\ NetInv(s, n)
          /\ n \in Net /\ KeptInv(n)
      BY <3>1, PoolAssumption DEF IInv, ServersOf
    <3>3. ASSUME NEW t \in Server, n \in NetsOf[t] PROVE t \in ServersOf(r)
      <4>1. n \in NetsOf[s] \intersect NetsOf[t]
        BY <3>1, <3>3
      <4> QED
        BY <3>2, <4>1, PoolAssumption DEF ServersOf
    <3> QED
      BY <3>2, <3>3 DEF NetInv, KeptInv
  <2> QED
    BY <2>1, <2>2
<1> QED
  BY <1>1, InvCorrect, PTL

------------------------------------------------------------------------------
(* ClusterPool implements PoolContract.                                    *)
LEMMA RefinesInit == Init => Contract!Init
  BY DEF Init, Contract!Init, answerOf

(* A change of one request's phase is a change of its answer.              *)
LEMMA AnswerChanges ==
  ASSUME TypeOK, NEW r \in Request, NEW new \in Phase, phase' = [phase EXCEPT ![r] = new]
  PROVE  answerOf' = [answerOf EXCEPT ![r] = answerOf'[r]]
  BY DEF answerOf, TypeOK

LEMMA RefinesStep ==
  ASSUME IInv, [Next]_vars
  PROVE  [Contract!Next]_Contract!vars
<1> DEFINE Step == [Contract!Next]_Contract!vars
<1> USE PoolAssumption
<1>0. TypeOK /\ LockInv /\ \A s \in Server : ServerInv(s) /\ RequestOf[s] \in Request
  BY DEF IInv
<1>1. ASSUME UNCHANGED <<phase, slots>> PROVE Step
  BY <1>1 DEF Contract!vars, answerOf
<1>2. ASSUME NEW r \in Request, Call(r) PROVE Step
  <2>1. answerOf[r] = "new" /\ answerOf'[r] = "asked" /\ slots' = slots
    BY <1>0, <1>2 DEF Call, answerOf, TypeOK
  <2>2. answerOf' = [answerOf EXCEPT ![r] = "asked"]
    BY <1>0, <1>2, <2>1, AnswerChanges DEF Call, Phase
  <2> QED
    BY <2>1, <2>2 DEF Contract!Ask, Contract!Becomes, Contract!Next
<1>3. ASSUME Grant PROVE Step
  <2>1. Head(waiters) \in Request /\ phase[Head(waiters)] = "queued"
    BY <1>0, <1>3 DEF Grant, LockInv, TypeOK
  <2>2. UNCHANGED <<answerOf, slots>>
    BY <1>0, <1>3, <2>1 DEF Grant, answerOf, TypeOK
  <2> QED
    BY <2>2 DEF Contract!vars
<1>4. ASSUME NEW s \in Server, AcquireSlot(s) PROVE Step
  <2>1. /\ answerOf[RequestOf[s]] = "asked" /\ answerOf' = answerOf
        /\ slots' = slots \union {s} /\ s \notin slots
    BY <1>0, <1>4 DEF AcquireSlot, Building, answerOf, ServerInv, UsesSlot
  <2>2. Contract!Cardinality(slots) < MaxVms
    <3>0. Contract!Cardinality(slots) = Cardinality(slots)
      BY DEF Contract!Cardinality, Cardinality
    <3>1. Cardinality(slots) \in Nat
      BY <1>0, FS_Subset, FS_CardinalityType DEF TypeOK
    <3>2. sem + Cardinality(slots) = MaxVms /\ sem \in Nat /\ sem > 0
      BY <1>0, <1>4 DEF AcquireSlot, IInv, SlotsAddUp, TypeOK
    <3> QED
      BY <3>0, <3>1, <3>2
  <2>3. ASSUME NEW t \in slots, answerOf[RequestOf[t]] = "asked"
        PROVE  RequestOf[t] = RequestOf[s]
    <3>1. t \in Server /\ RequestOf[t] \in Request /\ phase[RequestOf[t]] # "queued"
      BY <1>0 DEF TypeOK, ServerInv, UsesSlot
    <3>2. phase[RequestOf[t]] = "building" /\ phase[RequestOf[s]] = "building"
      BY <1>0, <1>4, <2>3, <3>1 DEF AcquireSlot, Building, answerOf, TypeOK, Phase
    <3> QED
      BY <1>0, <3>1, <3>2 DEF LockInv
  <2> QED
    BY <2>1, <2>2, <2>3 DEF Contract!Take, Contract!Next
<1>5. ASSUME NEW r \in Request, Return(r) PROVE Step
  <2>1. /\ answerOf[r] = "asked" /\ answerOf'[r] = "granted" /\ slots' = slots
        /\ \A s \in Server : RequestOf[s] = r => s \in slots
    BY <1>0, <1>5 DEF Return, answerOf, TypeOK, ServersOf, ServerInv, UsesSlot
  <2>2. answerOf' = [answerOf EXCEPT ![r] = "granted"]
    BY <1>0, <1>5, <2>1, AnswerChanges DEF Return, Phase
  <2> QED
    BY <2>1, <2>2 DEF Contract!Grant, Contract!Becomes, Contract!Next
<1>6. ASSUME NEW r \in Request, BuildRaises(r) PROVE Step
  <2>1. answerOf[r] = "asked" /\ answerOf'[r] = "refused" /\ slots' = slots
    BY <1>0, <1>6 DEF BuildRaises, answerOf, TypeOK
  <2>2. answerOf' = [answerOf EXCEPT ![r] = "refused"]
    BY <1>0, <1>6, <2>1, AnswerChanges DEF BuildRaises, Phase
  <2> QED
    BY <2>1, <2>2 DEF Contract!Refuse, Contract!Becomes, Contract!Next
<1>7. ASSUME NEW r \in Request, Delete(r) PROVE Step
  <2>1. answerOf[r] = "granted" /\ answerOf'[r] = "ending" /\ slots' = slots
    BY <1>0, <1>7 DEF Delete, answerOf, TypeOK
  <2>2. answerOf' = [answerOf EXCEPT ![r] = "ending"]
    BY <1>0, <1>7, <2>1, AnswerChanges DEF Delete, Phase
  <2> QED
    BY <2>1, <2>2 DEF Contract!GiveBack, Contract!Becomes, Contract!Next
<1>8. ASSUME NEW s \in Server, ReleaseSlot(s) \/ MisreadPoll(s) PROVE Step
  <2>1. /\ answerOf[RequestOf[s]] = "ending" /\ answerOf' = answerOf
        /\ slots' = slots \ {s} /\ s \in slots
    BY <1>0, <1>8 DEF ReleaseSlot, MisreadPoll, Deleting, answerOf, ServerInv, UsesSlot
  <2> QED
    BY <2>1 DEF Contract!Free, Contract!Next
<1>9. ASSUME NEW r \in Request, Deleted(r) PROVE Step
  <2>1. /\ answerOf[r] = "ending" /\ answerOf'[r] = "over" /\ slots' = slots
        /\ \A s \in Server : RequestOf[s] = r => s \notin slots
    BY <1>0, <1>9
    DEF Deleted, Deleting, ServersGone, Misread, answerOf, TypeOK, ServersOf, ServerInv, UsesSlot
  <2>2. answerOf' = [answerOf EXCEPT ![r] = "over"]
    BY <1>0, <1>9, <2>1, AnswerChanges DEF Deleted, Phase
  <2> QED
    BY <2>1, <2>2 DEF Contract!Close, Contract!Becomes, Contract!Next
<1>10. ASSUME NEW r \in Request, DeleteRaises(r) PROVE Step
  <2>1. answerOf[r] = "ending" /\ answerOf'[r] = "broken" /\ slots' = slots
    BY <1>0, <1>10 DEF DeleteRaises, Deleting, answerOf, TypeOK
  <2>2. answerOf' = [answerOf EXCEPT ![r] = "broken"]
    BY <1>0, <1>10, <2>1, AnswerChanges DEF DeleteRaises, Phase
  <2> QED
    BY <2>1, <2>2 DEF Contract!Break, Contract!Becomes, Contract!Next
<1> QED
  BY <1>1, <1>2, <1>3, <1>4, <1>5, <1>6, <1>7, <1>8, <1>9, <1>10
  DEF Next, Raises, BuildServer, DeleteServer, Cloud, NetworkStep, vars, Choose, CreateServer, Attach, StopServer, ServerBoots, ServerFails, ServerStops, ServerStays, CreateNetwork, CreateSubnet, DeleteNetwork

(* Every behaviour of the provider is one its contract allows.             *)
THEOREM ImplementsPoolContractCorrect == Spec => ImplementsPoolContract
<1>1. Init => Contract!Init
  BY RefinesInit
<1>2. IInv /\ [Next]_vars => [Contract!Next]_Contract!vars
  BY RefinesStep
<1> QED
  BY <1>1, <1>2, InvCorrect, PTL DEF Spec, ImplementsPoolContract, Contract!Spec

==============================================================================
