------------------------- MODULE RootLifecycleProofs -------------------------
(* Machine-checked theorems about RootLifecycle, for any services and      *)
(* providers, whatever fails and whenever the signals come.                *)
EXTENDS RootLifecycle, TLAPS

(* Root.run before it looks at the objects, and after it has waited for    *)
(* them.                                                                   *)
Before == {"providers", "serving", "joining"}
After == {"cleaning", "stopping", "closing", "exited"}

(* What the place of Root.run says of the configuration, the providers,    *)
(* the server and reload().                                                *)
PlaceInv ==
    /\ main = "new" => http = "down"
    /\ main = "providers" => http = "down" /\ config # 0
    /\ main \in {"serving", "joining", "draining"} \union After => http # "down"
    /\ http # "down" => started = Len(order) /\ config # 0
    /\ main = "serving" => reload = "waiting"
    /\ main = "joining" => reload \in {"cancelled", "unstarted", "ended"}
    /\ main \in {"draining"} \union After => reload = "ended"
    /\ main \in {"closing", "exited"} => stops = Len(order)
    /\ main = "exited" => http = "closed"
    /\ stops > 0 => order[Len(order)] \in stopped

(* What it says of a service: running or ended by itself before the        *)
(* cancellation, cancelled or ended during it, ended after it; a cleanup   *)
(* is started by the end of its service.                                   *)
ServiceInv(s) ==
    /\ main \in Before => object[s] \in {"running", "ended"}
    /\ main = "draining" => object[s] \in {"cancelled", "ended"}
    /\ main \in After => object[s] = "ended"
    /\ main = "raised" /\ http # "down" => reload = "unstarted" \/ object[s] = "ended"
    /\ s \in HasCleanup /\ object[s] = "ended" => cleanup[s] # "none"
    /\ main \in {"stopping", "closing", "exited"} => cleanup[s] # "running"

IInv == TypeOK /\ PlaceInv /\ \A s \in Service : ServiceInv(s)

------------------------------------------------------------------------------
LEMMA ProviderCount == order \in Orders => Len(order) \in Nat
  BY LifecycleAssumption

LEMMA TypeInit == Init => TypeOK
<1> SUFFICES ASSUME Init PROVE TypeOK
  OBVIOUS
<1>1. 0 \in 0..Len(order) /\ 1 \in 1..(MaxVersion + 1) /\ 0 \in 0..1
  BY ProviderCount, LifecycleAssumption
<1>2. main \in Main
  BY DEF Init, Main
<1> QED
  BY <1>1, <1>2 DEF Init, TypeOK, TaskState

LEMMA TypeStep == TypeOK /\ [Next]_vars => TypeOK'
<1> SUFFICES ASSUME TypeOK, [Next]_vars PROVE TypeOK'
  OBVIOUS
<1> USE LifecycleAssumption, ProviderCount DEF TypeOK, Main, TaskState, Over
<1>1. CASE Load
  BY <1>1 DEF Load
<1>2. CASE StartProvider
  BY <1>2 DEF StartProvider
<1>3. CASE Serve \/ ServeRaises \/ Interrupted \/ JoinRaises
  BY <1>3 DEF Serve, ServeRaises, Interrupted, JoinRaises
<1>4. CASE CancelObjects
  BY <1>4 DEF CancelObjects, Running
<1>5. CASE Drained \/ Cleaned \/ CloseHttp \/ Exit
  BY <1>5 DEF Drained, Cleaned, CloseHttp, Exit
<1>6. CASE StopProvider
  BY <1>6 DEF StopProvider
<1>7. CASE Reload \/ ReloadEnds \/ Signals
  <2>1. CASE Reload \/ ReloadEnds
    BY <2>1 DEF Reload, ReloadEnds
  <2>2. CASE Sigint \/ Sighup
    BY <2>2 DEF Sigint, Sighup
  <2>3. CASE Edit
    BY <2>3 DEF Edit
  <2> QED
    BY <1>7, <2>1, <2>2, <2>3 DEF Signals
<1>8. ASSUME NEW s \in Service, ObjectEnds(s) PROVE TypeOK'
  BY <1>8 DEF ObjectEnds
<1>9. ASSUME NEW s \in Service, CleanupEnds(s) PROVE TypeOK'
  BY <1>9 DEF CleanupEnds
<1>10. CASE UNCHANGED vars
  BY <1>10 DEF vars
<1> QED
  BY <1>1, <1>2, <1>3, <1>4, <1>5, <1>6, <1>7, <1>8, <1>9, <1>10 DEF Next, Run

(* The variables keep their types.                                         *)
THEOREM TypeCorrect == Spec => []TypeOK
  BY TypeInit, TypeStep, PTL DEF Spec

------------------------------------------------------------------------------
LEMMA InvInit == Init => IInv
  BY TypeInit, LifecycleAssumption DEF IInv, Init, PlaceInv, ServiceInv, Before, After

LEMMA PlaceStep == IInv /\ [Next]_vars => PlaceInv'
<1> SUFFICES ASSUME IInv, [Next]_vars PROVE PlaceInv'
  OBVIOUS
<1> USE LifecycleAssumption DEF IInv, TypeOK, PlaceInv, After
<1>1. CASE Load
  BY <1>1 DEF Load
<1>2. CASE StartProvider
  BY <1>2 DEF StartProvider
<1>3. CASE Serve \/ ServeRaises
  BY <1>3 DEF Serve, ServeRaises
<1>4. CASE Interrupted
  BY <1>4 DEF Interrupted
<1>5. CASE JoinRaises
  BY <1>5 DEF JoinRaises
<1>6. CASE CancelObjects
  BY <1>6 DEF CancelObjects
<1>7. CASE Drained \/ Cleaned
  BY <1>7 DEF Drained, Cleaned
<1>8. CASE StopProvider
  BY <1>8 DEF StopProvider
<1>9. CASE CloseHttp \/ Exit
  BY <1>9 DEF CloseHttp, Exit
<1>10. CASE Reload \/ ReloadEnds
  BY <1>10 DEF Reload, ReloadEnds, Alive, Over
<1>11. CASE Signals
  BY <1>11 DEF Signals, Sigint, Sighup, Edit, Alive, Over
<1>12. ASSUME NEW s \in Service, ObjectEnds(s) \/ CleanupEnds(s) PROVE PlaceInv'
  BY <1>12 DEF ObjectEnds, CleanupEnds
<1>13. CASE UNCHANGED vars
  BY <1>13 DEF vars
<1> QED
  BY <1>1, <1>2, <1>3, <1>4, <1>5, <1>6, <1>7, <1>8, <1>9, <1>10, <1>11, <1>12, <1>13
  DEF Next, Run

LEMMA ServiceStep == IInv /\ [Next]_vars => \A s \in Service : ServiceInv(s)'
<1> SUFFICES ASSUME IInv, [Next]_vars, NEW t \in Service PROVE ServiceInv(t)'
  OBVIOUS
<1> USE LifecycleAssumption DEF IInv, TypeOK, PlaceInv, ServiceInv, Before, After
<1>1. CASE Load
  BY <1>1 DEF Load
<1>2. CASE StartProvider \/ Serve \/ ServeRaises
  BY <1>2 DEF StartProvider, Serve, ServeRaises
<1>3. CASE Interrupted \/ JoinRaises
  BY <1>3 DEF Interrupted, JoinRaises
<1>4. CASE CancelObjects
  BY <1>4 DEF CancelObjects, Running
<1>5. CASE Drained \/ Cleaned
  BY <1>5 DEF Drained, Cleaned
<1>6. CASE StopProvider
  BY <1>6 DEF StopProvider
<1>7. CASE CloseHttp \/ Exit
  BY <1>7 DEF CloseHttp, Exit
<1>8. CASE Reload \/ ReloadEnds
  BY <1>8 DEF Reload, ReloadEnds, Alive, Over
<1>9. CASE Signals
  BY <1>9 DEF Signals, Sigint, Sighup, Edit, Alive, Over
<1>10. ASSUME NEW s \in Service, ObjectEnds(s) PROVE ServiceInv(t)'
  BY <1>10 DEF ObjectEnds, Alive, Over
<1>11. ASSUME NEW s \in Service, CleanupEnds(s) PROVE ServiceInv(t)'
  BY <1>11 DEF CleanupEnds, Alive, Over
<1>12. CASE UNCHANGED vars
  BY <1>12 DEF vars
<1> QED
  BY <1>1, <1>2, <1>3, <1>4, <1>5, <1>6, <1>7, <1>8, <1>9, <1>10, <1>11, <1>12
  DEF Next, Run

LEMMA InvStep == IInv /\ [Next]_vars => IInv'
  BY TypeStep, PlaceStep, ServiceStep DEF IInv

THEOREM InvCorrect == Spec => []IInv
  BY InvInit, InvStep, PTL DEF Spec

------------------------------------------------------------------------------
(* No request can arrive before the providers its job may need are there.  *)
THEOREM ServesWhenReadyCorrect == Spec => []ServesWhenReady
<1>1. IInv => ServesWhenReady
  BY DEF IInv, PlaceInv, ServesWhenReady
<1> QED
  BY <1>1, InvCorrect, PTL

(* Root.run that returns has waited for all it has started.                *)
THEOREM ExitIsOrderlyCorrect == Spec => []ExitIsOrderly
<1>1. IInv => ExitIsOrderly
  <2> SUFFICES ASSUME IInv, main = "exited" PROVE ExitIsOrderly
    BY DEF ExitIsOrderly
  <2>1. http = "closed" /\ reload = "ended" /\ stops = Len(order)
    BY DEF IInv, PlaceInv, After
  <2>2. \A s \in Service : object[s] = "ended" /\ cleanup[s] # "running"
    BY DEF IInv, ServiceInv, After
  <2>3. \A s \in HasCleanup : cleanup[s] = "ended"
    BY <2>2, LifecycleAssumption DEF IInv, TypeOK, ServiceInv
  <2>4. order # <<>> => order[Len(order)] \in stopped
    BY <2>1, LifecycleAssumption DEF IInv, PlaceInv
  <2> QED
    BY <2>1, <2>2, <2>3, <2>4 DEF ExitIsOrderly
<1> QED
  BY <1>1, InvCorrect, PTL

(* Root.run that raises leaves services running only while it starts.      *)
THEOREM AbandonedOnStartOnlyCorrect == Spec => []AbandonedOnStartOnly
<1>1. IInv => AbandonedOnStartOnly
  BY DEF IInv, ServiceInv, AbandonedOnStartOnly
<1> QED
  BY <1>1, InvCorrect, PTL

==============================================================================
