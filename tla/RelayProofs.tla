---------------------------- MODULE RelayProofs -----------------------------
(***************************************************************************)
(* Proofs about the relay: who receives what of its connections (Relay),   *)
(* for any devices and pages, and then where it cuts the bytes it forwards *)
(* (Wire), for any messages and any way the network splits them.           *)
(***************************************************************************)
EXTENDS Relay, Wire, SequenceLemmas, TLAPS

(* The port is bound once, and only the thread that binds it starts a device *)
(* server that connects to it.                                               *)
ServerInv == /\ servers \in [Tunnels -> Nat]
             /\ servers["reverse"] = IF bound THEN 1 ELSE 0

(* Every step keeps it so.                                                   *)
LEMMA ServerStep == ASSUME ServerInv, [Next]_vars PROVE ServerInv'
<1>1. ASSUME NEW w \in WebSocks, Adb(w) PROVE ServerInv'
  BY <1>1 DEF Adb, StartAdbProcess, ServerInv, Tunnels
<1>2. ASSUME NEW w \in WebSocks, Bind(w) PROVE ServerInv'
  BY <1>2 DEF Bind, BindFails, StartAdbProcess, ServerInv, Tunnels
<1>3. CASE UNCHANGED <<bound, servers>>
  BY <1>3 DEF ServerInv
<1>4. [Next]_vars => \/ \E w \in WebSocks : Adb(w) \/ Bind(w)
                     \/ UNCHANGED <<bound, servers>>
  BY DEF Next, OpenPage, DeviceUp, DeviceConnect, WebHandler, Upgrade, PrepareConnectPhone,
       Thread, Connect, FromWeb, AppHandler, PutAppChannel, TakeTable, AssociateWeb,
       AssociateApp, Store, FromDevice, vars, conn
<1> QED
  BY <1>1, <1>2, <1>3, <1>4

(* However many pages there are and however their handlers interleave, one   *)
(* device server that connects to the relay is started: the other threads    *)
(* find the port bound.                                                      *)
THEOREM OneDeviceServerHolds == Spec => []OneDeviceServer
<1>1. Init => ServerInv
  BY DEF Init, ServerInv, Tunnels
<1>2. ServerInv => OneDeviceServer
  BY DEF ServerInv, OneDeviceServer
<1> QED
  BY <1>1, <1>2, ServerStep, PTL DEF Spec

-----------------------------------------------------------------------------
(* Nothing is started before two sockets of the pages are registered.        *)
Started == \/ \E w \in WebSocks : thr[w] # "none"
           \/ (\E t \in Tunnels : starting[t] > 0) \/ dev # "down"
           \/ \E s \in AppSocks : as[s] # "none"

(* Where the handler of a device socket can be.                              *)
HandlerPlaces == {"none", "put", "web", "storeWeb", "app", "storeApp", "active"}

StartedInv ==
  /\ thr \in [WebSocks -> {"none", "adb", "bind", "serving", "connect", "connect2", "done"}]
  /\ as \in [AppSocks -> HandlerPlaces]
  /\ web \in ChannelData(WebSocks) /\ starting \in [Tunnels -> Nat]
  /\ web.tempPort # None => web.control # None
  /\ web.allConnected => None \notin {web.video, web.control}
  /\ Started => web.allConnected

(* A socket that is put is video or control, and the other one stays.        *)
LEMMA PutChannelKeeps ==
  ASSUME NEW socks \in SUBSET (Nat \ {None}), NEW d \in ChannelData(socks), NEW port \in socks,
         d.tempPort # None => d.control # None,
         d.allConnected => None \notin {d.video, d.control}
  PROVE  LET e == PutChannel(d, port) IN
         /\ e \in ChannelData(socks)
         /\ e.tempPort # None => e.control # None
         /\ e.allConnected => None \notin {e.video, e.control}
         /\ d.allConnected => e.allConnected
         /\ e.tempPort # None
BY DEF PutChannel, ChannelData, None

(* A new socket is one more, and its handler is at the beginning.            *)
LEMMA NewSocketConnects ==
  ASSUME NEW t \in Tunnels, NewSocket(t)
  PROVE  \E s \in AppSocks :
           /\ as' = [as EXCEPT ![s] = IF t = "forward" THEN "web" ELSE "put"]
           /\ \E x \in {"control", "video", "dead"} : role' = [role EXCEPT ![s] = x]
           /\ dev' \in {"control", "video", dev}
<1>1. PICK s \in AppSocks :
        LET now == IF tunnel = t THEN dev ELSE "down"
        IN /\ as' = [as EXCEPT ![s] = IF t = "forward" THEN "web" ELSE "put"]
           /\ role' = [role EXCEPT ![s] = CASE now = "none" -> "control"
                                            [] now = "control" -> "video"
                                            [] OTHER -> "dead"]
           /\ dev' = CASE now = "none" -> "control" [] now = "control" -> "video" [] OTHER -> dev
  BY Zenon DEF NewSocket
<1> DEFINE now == IF tunnel = t THEN dev ELSE "down"
           x == CASE now = "none" -> "control" [] now = "control" -> "video" [] OTHER -> "dead"
<1>2. x \in {"control", "video", "dead"} /\ dev' \in {"control", "video", dev}
  BY <1>1
<1>3. role' = [role EXCEPT ![s] = x]
  BY <1>1
<1> QED
  BY <1>1, <1>2, <1>3

(* Where a handler goes from where it is.                                    *)
LEMMA AppHandlerMoves ==
  ASSUME as \in [AppSocks -> HandlerPlaces], NEW s \in AppSocks, AppHandler(s)
  PROVE  /\ as[s] # "none"
         /\ \E x \in HandlerPlaces \ {"none"} : as' = [as EXCEPT ![s] = x]
BY DEF AppHandler, PutAppChannel, TakeTable, AssociateWeb, AssociateApp, AfterPut, AfterAssociate,
       HandlerPlaces

(* Every step keeps StartedInv.                                              *)
LEMMA StartedStep == ASSUME StartedInv, [Next]_vars PROVE StartedInv'
<1> USE DEF StartedInv
<1>0. WebSocks \in SUBSET (Nat \ {None})
  BY RelayAssumption DEF WebSocks, None
<1>1. ASSUME NEW w \in WebSocks, Upgrade(w) PROVE StartedInv'
  <2>1. web' = PutChannel(web, w) /\ UNCHANGED <<thr, starting, dev, as>>
    BY <1>1 DEF Upgrade, conn, device
  <2>2. /\ web' \in ChannelData(WebSocks)
        /\ web'.tempPort # None => web'.control # None
        /\ web'.allConnected => None \notin {web'.video, web'.control}
        /\ web.allConnected => web'.allConnected
    BY <1>0, <2>1, PutChannelKeeps
  <2>3. Started' <=> Started
    BY <2>1 DEF Started
  <2> QED
    BY <2>1, <2>2, <2>3
<1>2. ASSUME NEW w \in WebSocks, PrepareConnectPhone(w) PROVE StartedInv'
  <2>1. /\ UNCHANGED <<web, starting, dev, as>>
        /\ thr' = [thr EXCEPT ![w] = IF web.allConnected THEN "adb" ELSE "none"]
    BY <1>2 DEF PrepareConnectPhone, MayConnect, device
  <2>2. CASE web.allConnected
    BY <2>1, <2>2
  <2>3. CASE ~web.allConnected
    <3>1. thr[w] = "none" /\ thr' = thr
      BY <2>1, <2>3 DEF Started
    <3>2. Started' <=> Started
      BY <2>1, <3>1 DEF Started
    <3> QED
      BY <2>1, <3>1, <3>2
  <2> QED
    BY <2>2, <2>3
<1>3. ASSUME NEW w \in WebSocks, Thread(w) PROVE StartedInv'
  <2>1. web.allConnected
    BY <1>3 DEF Thread, Adb, Bind, Connect, Started
  <2>2. /\ UNCHANGED web /\ starting' \in [Tunnels -> Nat]
        /\ as' \in [AppSocks -> HandlerPlaces]
    <3>1. CASE Adb(w) \/ Bind(w)
      <4>1. UNCHANGED <<web, as>>
        BY <3>1 DEF Adb, Bind
      <4>2. starting' = starting \/ \E t \in Tunnels : starting' = [starting EXCEPT ![t] = @ + 1]
        <5>1. CASE Adb(w)
          BY <5>1 DEF Adb, StartAdbProcess, Tunnels
        <5>2. CASE Bind(w)
          BY <5>2 DEF Bind, StartAdbProcess, Tunnels
        <5> QED
          BY <3>1, <5>1, <5>2
      <4>3. starting' \in [Tunnels -> Nat]
        BY <4>2
      <4> QED
        BY <4>1, <4>3
    <3>2. CASE Connect(w)
      <4>1. UNCHANGED <<web, starting>> /\ (NewSocket("forward") \/ UNCHANGED as)
        BY <3>2 DEF Connect
      <4> QED
        BY <4>1, NewSocketConnects DEF Tunnels, HandlerPlaces
    <3> QED
      BY <1>3, <3>1, <3>2 DEF Thread
  <2>3. \E x \in {"adb", "bind", "serving", "connect", "connect2", "done"} :
          thr' = [thr EXCEPT ![w] = x]
    BY <1>3 DEF Thread, Adb, Bind, Connect
  <2>4. thr' \in [WebSocks -> {"none", "adb", "bind", "serving", "connect", "connect2", "done"}]
    BY <2>3
  <2> QED
    BY <2>1, <2>2, <2>4
<1>4. ASSUME NEW t \in Tunnels, DeviceUp(t) PROVE StartedInv'
  <2>1. web.allConnected
    BY <1>4 DEF DeviceUp, Started
  <2>2. UNCHANGED <<web, as, thr>> /\ starting' = [starting EXCEPT ![t] = @ - 1] /\ starting[t] > 0
    BY <1>4 DEF DeviceUp
  <2>3. starting' \in [Tunnels -> Nat]
    BY <2>2
  <2> QED
    BY <2>1, <2>2, <2>3
<1>5. CASE DeviceConnect
  <2>1. web.allConnected /\ UNCHANGED <<web, thr, starting>> /\ NewSocket("reverse")
    BY <1>5 DEF DeviceConnect, Started, conn
  <2>2. as' \in [AppSocks -> HandlerPlaces]
    BY <2>1, NewSocketConnects DEF Tunnels, HandlerPlaces
  <2> QED
    BY <2>1, <2>2
<1>6. ASSUME NEW s \in AppSocks, AppHandler(s) PROVE StartedInv'
  <2>1. as[s] # "none" /\ as' \in [AppSocks -> HandlerPlaces]
    BY <1>6, AppHandlerMoves
  <2>2. UNCHANGED <<web, starting, thr>>
    BY <1>6 DEF AppHandler, PutAppChannel, TakeTable, AssociateWeb, AssociateApp, Store, conn
  <2>3. web.allConnected
    BY <2>1 DEF Started
  <2> QED
    BY <2>1, <2>2, <2>3
<1>7. CASE UNCHANGED <<web, starting, dev, as, thr>>
  BY <1>7 DEF Started
<1>8. [Next]_vars => \/ \E w \in WebSocks : Upgrade(w) \/ PrepareConnectPhone(w) \/ Thread(w)
                     \/ (\E t \in Tunnels : DeviceUp(t)) \/ DeviceConnect
                     \/ \E s \in AppSocks : AppHandler(s)
                     \/ UNCHANGED <<web, starting, dev, as, thr>>
  BY DEF Next, OpenPage, WebHandler, FromWeb, FromDevice, vars, conn, device
<1> QED
  BY <1>1, <1>2, <1>3, <1>4, <1>5, <1>6, <1>7, <1>8

(* It holds at the beginning.                                                *)
LEMMA InitStarted == Init => StartedInv
BY DEF Init, StartedInv, Started, NoChannels, ChannelData, Tunnels, HandlerPlaces

-----------------------------------------------------------------------------
(* The race of the writes of addrMap.  Whoever allocates a table puts the    *)
(* web address into it and has the device address still to put: after any    *)
(* number of tables that are lost, the last one gets both.                   *)
Completes(s) == as[s] = "app" \/ (as[s] = "storeApp" /\ saw[s] = "table")
HasTable(s) == \/ as[s] \in {"app", "storeApp", "active"} \/ (as[s] = "put" /\ s \in isForward)
               \/ (as[s] = "storeWeb" /\ saw[s] # "none")

MapInv ==
  /\ as \in [AppSocks -> HandlerPlaces] /\ saw \in [AppSocks -> {"none", "table", "stale"}]
  /\ assoc # {} => "web" \in assoc
  /\ assoc # {} => "app" \in assoc \/ \E s \in AppSocks : Completes(s)
  /\ \A s \in AppSocks : HasTable(s) => assoc # {}
  /\ \A s \in AppSocks : as[s] = "storeApp" => saw[s] # "none"
  /\ \A s \in AppSocks : saw[s] # "none" => as[s] \in {"storeWeb", "storeApp"}

(* A socket is put before the handler ends.                                  *)
WasPut(s) == \/ as[s] = "active"
             \/ (as[s] \in {"web", "storeWeb", "app", "storeApp"} /\ s \notin isForward)

AppInv == /\ app \in ChannelData(AppSocks)
          /\ app.tempPort # None => app.control # None
          /\ app.allConnected => None \notin {app.video, app.control}
          /\ \A s \in AppSocks : WasPut(s) => app.tempPort # None
          /\ \A s \in isForward : s \in AppSocks => as[s] # "none"

(* A new socket has taken no table, and none is taken from another.          *)
LEMMA MapNewSocket ==
  ASSUME MapInv, AppInv, NEW t \in Tunnels, NewSocket(t), UNCHANGED <<saw, assoc, app>>
  PROVE  MapInv' /\ AppInv'
<1>1. PICK s \in AppSocks :
        /\ as[s] = "none"
        /\ as' = [as EXCEPT ![s] = IF t = "forward" THEN "web" ELSE "put"]
        /\ isForward' = IF t = "forward" THEN isForward \cup {s} ELSE isForward
  BY DEF NewSocket
<1>2. as' \in [AppSocks -> HandlerPlaces] /\ as'[s] = IF t = "forward" THEN "web" ELSE "put"
  BY <1>1 DEF MapInv, HandlerPlaces
<1>3. \A x \in AppSocks : x # s => as'[x] = as[x] /\ (x \in isForward' <=> x \in isForward)
  BY <1>1 DEF MapInv
<1>4. s \notin isForward /\ ~HasTable(s) /\ ~Completes(s)
  BY <1>1 DEF AppInv, HasTable, Completes
<1>5. \A x \in AppSocks : HasTable(x)' => HasTable(x)
  <2> SUFFICES ASSUME NEW x \in AppSocks, HasTable(x)' PROVE HasTable(x)
    OBVIOUS
  <2>1. CASE x = s
    BY <1>1, <1>2, <1>4, <2>1 DEF HasTable
  <2>2. CASE x # s
    BY <1>3, <2>2 DEF HasTable
  <2> QED
    BY <2>1, <2>2
<1>6. \A x \in AppSocks : Completes(x) => Completes(x)'
  BY <1>3, <1>4 DEF Completes
<1>7. MapInv'
  <2>1. \A x \in AppSocks : as'[x] = "storeApp" => saw'[x] # "none"
    BY <1>2, <1>3 DEF MapInv
  <2>2. \A x \in AppSocks : saw'[x] # "none" => as'[x] \in {"storeWeb", "storeApp"}
    BY <1>1, <1>3 DEF MapInv
  <2> QED
    BY <1>2, <1>5, <1>6, <2>1, <2>2 DEF MapInv
<1>8. \A x \in AppSocks : WasPut(x)' => WasPut(x)
  <2> SUFFICES ASSUME NEW x \in AppSocks, WasPut(x)' PROVE WasPut(x)
    OBVIOUS
  <2>1. x # s
    BY <1>1, <1>2 DEF WasPut
  <2> QED
    BY <1>3, <2>1 DEF WasPut
<1>9. \A x \in isForward' : x \in AppSocks => as'[x] # "none"
  BY <1>1, <1>2, <1>3 DEF AppInv
<1> QED
  BY <1>7, <1>8, <1>9 DEF AppInv

(* Taking the table, or finding none.                                        *)
LEMMA MapTake ==
  ASSUME MapInv, NEW s \in AppSocks, TakeTable(s) PROVE MapInv'
<1>1. /\ as[s] \in {"web", "app"} /\ UNCHANGED <<assoc, isForward>>
      /\ as' = [as EXCEPT ![s] = IF as[s] = "web" THEN "storeWeb" ELSE "storeApp"]
      /\ saw' = [saw EXCEPT ![s] = IF assoc = {} THEN "none" ELSE "table"]
  BY DEF TakeTable
<1>2. /\ as' \in [AppSocks -> HandlerPlaces] /\ saw' \in [AppSocks -> {"none", "table", "stale"}]
      /\ as'[s] = (IF as[s] = "web" THEN "storeWeb" ELSE "storeApp")
      /\ saw'[s] = IF assoc = {} THEN "none" ELSE "table"
  BY <1>1 DEF MapInv, HandlerPlaces
<1>3. \A x \in AppSocks : x # s => as'[x] = as[x] /\ saw'[x] = saw[x]
  BY <1>1 DEF MapInv
<1>4. as[s] = "app" => assoc # {}
  BY DEF MapInv, HasTable
<1>5. \A x \in AppSocks : Completes(x) => Completes(x)'
  BY <1>1, <1>2, <1>3, <1>4 DEF Completes
<1>6. \A x \in AppSocks : HasTable(x)' => assoc' # {}
  <2> SUFFICES ASSUME NEW x \in AppSocks, HasTable(x)' PROVE assoc' # {}
    OBVIOUS
  <2>1. CASE x = s
    BY <1>1, <1>2, <1>4, <2>1 DEF HasTable
  <2>2. CASE x # s
    <3>1. HasTable(x)
      BY <1>1, <1>3, <2>2 DEF HasTable
    <3> QED
      BY <1>1, <3>1 DEF MapInv
  <2> QED
    BY <2>1, <2>2
<1>7. \A x \in AppSocks : /\ as'[x] = "storeApp" => saw'[x] # "none"
                          /\ saw'[x] # "none" => as'[x] \in {"storeWeb", "storeApp"}
  BY <1>1, <1>2, <1>3, <1>4 DEF MapInv
<1> QED
  BY <1>1, <1>2, <1>5, <1>6, <1>7 DEF MapInv

(* The first write: a handler that finds no table makes the map anew, and is *)
(* about to put the device address into it.                                  *)
LEMMA MapStoreWeb ==
  ASSUME MapInv, NEW s \in AppSocks, AssociateWeb(s) PROVE MapInv'
<1>1. /\ as[s] = "storeWeb" /\ as' = [as EXCEPT ![s] = "app"]
      /\ assoc' = CASE saw[s] = "none" -> {"web"}
                    [] saw[s] = "table" -> assoc \cup {"web"}
                    [] saw[s] = "stale" -> assoc
      /\ saw' = [x \in AppSocks |->
                  IF x = s THEN "none"
                  ELSE IF saw[s] = "none" /\ saw[x] = "table" THEN "stale" ELSE saw[x]]
  BY DEF AssociateWeb, Store
<1>2. saw[s] \in {"none", "table", "stale"}
  BY DEF MapInv
<1>3. saw[s] # "none" => assoc # {} /\ "web" \in assoc
  BY <1>1 DEF MapInv, HasTable
<1>4. "web" \in assoc' /\ assoc' # {}
  BY <1>1, <1>2, <1>3
<1>5. as' \in [AppSocks -> HandlerPlaces] /\ as'[s] = "app"
  BY <1>1 DEF MapInv, HandlerPlaces
<1>6. \A x \in AppSocks : /\ x # s => as'[x] = as[x]
                          /\ saw'[x] \in {"none", "table", "stale"}
                          /\ saw'[x] # "none" <=> x # s /\ saw[x] # "none"
  BY <1>1 DEF MapInv
<1>7. saw' \in [AppSocks -> {"none", "table", "stale"}]
  BY <1>1, <1>6
<1>8. Completes(s)'
  BY <1>5 DEF Completes
<1>9. \A x \in AppSocks : /\ as'[x] = "storeApp" => saw'[x] # "none"
                          /\ saw'[x] # "none" => as'[x] \in {"storeWeb", "storeApp"}
  BY <1>5, <1>6 DEF MapInv
<1> QED
  BY <1>4, <1>5, <1>7, <1>8, <1>9 DEF MapInv

(* The second write: into the table that is, or into one that was.           *)
LEMMA MapStoreApp ==
  ASSUME MapInv, NEW s \in AppSocks, AssociateApp(s) PROVE MapInv'
<1>1. /\ as[s] = "storeApp" /\ as' = [as EXCEPT ![s] = AfterAssociate(s)]
      /\ assoc' = CASE saw[s] = "none" -> {"app"}
                    [] saw[s] = "table" -> assoc \cup {"app"}
                    [] saw[s] = "stale" -> assoc
      /\ saw' = [x \in AppSocks |->
                  IF x = s THEN "none"
                  ELSE IF saw[s] = "none" /\ saw[x] = "table" THEN "stale" ELSE saw[x]]
  BY DEF AssociateApp, Store
<1>2. saw[s] \in {"table", "stale"} /\ assoc # {} /\ "web" \in assoc
  BY <1>1 DEF MapInv, HasTable
<1>3. /\ "web" \in assoc' /\ assoc' # {}
      /\ saw[s] = "table" => "app" \in assoc'
      /\ saw[s] = "stale" => assoc' = assoc
  BY <1>1, <1>2
<1>4. as' \in [AppSocks -> HandlerPlaces] /\ as'[s] \in {"put", "active"}
  BY <1>1 DEF MapInv, HandlerPlaces, AfterAssociate
<1>5. \A x \in AppSocks : saw'[x] = IF x = s THEN "none" ELSE saw[x]
  BY <1>1, <1>2
<1>6. \A x \in AppSocks : x # s => as'[x] = as[x] /\ saw'[x] = saw[x]
  BY <1>1, <1>5 DEF MapInv
<1>7. saw' \in [AppSocks -> {"none", "table", "stale"}]
  BY <1>1, <1>5 DEF MapInv
<1>8. "app" \in assoc' \/ \E x \in AppSocks : Completes(x)'
  <2>1. CASE saw[s] = "stale"
    <3>1. ~Completes(s)
      BY <1>1, <2>1 DEF Completes
    <3>2. \A x \in AppSocks : Completes(x) => Completes(x)'
      BY <1>6, <3>1 DEF Completes
    <3> QED
      BY <1>2, <1>3, <2>1, <3>2 DEF MapInv
  <2> QED
    BY <1>2, <1>3, <2>1
<1>9. \A x \in AppSocks : /\ as'[x] = "storeApp" => saw'[x] # "none"
                          /\ saw'[x] # "none" => as'[x] \in {"storeWeb", "storeApp"}
  BY <1>4, <1>5, <1>6 DEF MapInv
<1> QED
  BY <1>3, <1>4, <1>7, <1>8, <1>9 DEF MapInv

(* Putting the channel takes no part in the race.                            *)
LEMMA MapPut ==
  ASSUME MapInv, NEW s \in AppSocks, PutAppChannel(s) PROVE MapInv'
<1>1. /\ as[s] = "put" /\ as' = [as EXCEPT ![s] = AfterPut(s)]
      /\ UNCHANGED <<saw, assoc, isForward>>
  BY DEF PutAppChannel, addrMap
<1>2. as' \in [AppSocks -> HandlerPlaces] /\ as'[s] = IF s \in isForward THEN "active" ELSE "web"
  BY <1>1 DEF MapInv, HandlerPlaces, AfterPut
<1>3. \A x \in AppSocks : x # s => as'[x] = as[x]
  BY <1>1 DEF MapInv
<1>4. saw[s] = "none"
  BY <1>1 DEF MapInv
<1>5. \A x \in AppSocks : HasTable(x)' => HasTable(x)
  BY <1>1, <1>2, <1>3, <1>4 DEF HasTable
<1>6. \A x \in AppSocks : Completes(x) => Completes(x)'
  BY <1>1, <1>3 DEF Completes
<1>7. \A x \in AppSocks : /\ as'[x] = "storeApp" => saw'[x] # "none"
                          /\ saw'[x] # "none" => as'[x] \in {"storeWeb", "storeApp"}
  BY <1>1, <1>2, <1>3, <1>4 DEF MapInv
<1> QED
  BY <1>1, <1>2, <1>5, <1>6, <1>7 DEF MapInv

(* A handler that has got beyond the put has put its channel.                *)
LEMMA AppStep ==
  ASSUME MapInv, AppInv, NEW s \in AppSocks, AppHandler(s) PROVE AppInv'
<1>1. as \in [AppSocks -> HandlerPlaces]
  BY DEF MapInv
<1>2. UNCHANGED isForward /\ \A x \in AppSocks : x # s => as'[x] = as[x]
  BY <1>1 DEF AppHandler, PutAppChannel, TakeTable, AssociateWeb, AssociateApp, Store
<1>3. \A x \in isForward' : x \in AppSocks => as'[x] # "none"
  BY <1>1, <1>2, AppHandlerMoves DEF AppInv
<1>4. CASE PutAppChannel(s)
  <2>0. AppSocks \in SUBSET (Nat \ {None})
    BY RelayAssumption DEF AppSocks, None
  <2>1. app' = PutChannel(app, s)
    BY <1>4 DEF PutAppChannel
  <2>2. /\ app' \in ChannelData(AppSocks) /\ app'.tempPort # None
        /\ app'.tempPort # None => app'.control # None
        /\ app'.allConnected => None \notin {app'.video, app'.control}
    BY <2>0, <2>1, PutChannelKeeps DEF AppInv
  <2> QED
    BY <1>3, <2>2 DEF AppInv
<1>5. CASE TakeTable(s) \/ AssociateWeb(s) \/ AssociateApp(s)
  <2>1. UNCHANGED app
    BY <1>5 DEF TakeTable, AssociateWeb, AssociateApp, Store
  <2>2. \A x \in AppSocks : WasPut(x)' => WasPut(x)
    BY <1>1, <1>2, <1>5 DEF WasPut, TakeTable, AssociateWeb, AssociateApp, AfterAssociate
  <2> QED
    BY <1>3, <2>1, <2>2 DEF AppInv
<1> QED
  BY <1>4, <1>5 DEF AppHandler

(* Every step keeps both.                                                    *)
LEMMA LinkStep == ASSUME MapInv, AppInv, [Next]_vars PROVE MapInv' /\ AppInv'
<1>1. ASSUME NEW s \in AppSocks, AppHandler(s) PROVE MapInv' /\ AppInv'
  BY <1>1, MapPut, MapTake, MapStoreWeb, MapStoreApp, AppStep DEF AppHandler
<1>2. ASSUME NEW t \in Tunnels, NewSocket(t), UNCHANGED <<saw, assoc, app>>
      PROVE MapInv' /\ AppInv'
  BY <1>2, MapNewSocket
<1>3. CASE UNCHANGED <<as, isForward, saw, assoc, app>>
  BY <1>3 DEF MapInv, AppInv, HasTable, Completes, WasPut
<1>4. ASSUME NEW w \in WebSocks, Connect(w)
      PROVE  \/ UNCHANGED <<as, isForward, saw, assoc, app>>
             \/ NewSocket("forward") /\ UNCHANGED <<saw, assoc, app>>
  BY <1>4 DEF Connect, addrMap
<1>5. DeviceConnect => NewSocket("reverse") /\ UNCHANGED <<saw, assoc, app>>
  BY DEF DeviceConnect, addrMap
<1>6. "forward" \in Tunnels /\ "reverse" \in Tunnels
  BY DEF Tunnels
<1>7. \/ \E s \in AppSocks : AppHandler(s)
      \/ \E w \in WebSocks : Connect(w)
      \/ DeviceConnect \/ UNCHANGED <<as, isForward, saw, assoc, app>>
  BY DEF Next, OpenPage, DeviceUp, WebHandler, Upgrade, PrepareConnectPhone, Thread, Adb, Bind,
       FromWeb, FromDevice, vars, addrMap
<1> QED
  BY <1>1, <1>2, <1>3, <1>4, <1>5, <1>6, <1>7

(* However many sockets the device and the relay open, and whichever of      *)
(* their writes to the map are lost: when no handler is inside them, what a  *)
(* registered device socket sends has a web socket to go to, but for a       *)
(* picture of a format the relay does not know, and input has the device's.  *)
THEOREM LinkedWhenQuietHolds == Spec => []LinkedWhenQuiet
<1>1. Init => MapInv /\ AppInv
  BY DEF Init, MapInv, AppInv, HandlerPlaces, HasTable, WasPut, NoChannels, ChannelData
<1>2. StartedInv /\ MapInv /\ AppInv => LinkedWhenQuiet
  <2> SUFFICES ASSUME StartedInv, MapInv, AppInv, \A x \in AppSocks : ~Associating(x),
                      NEW s \in AppSocks, as[s] = "active"
               PROVE  /\ \A kind \in Messages(role[s]) \ {"otherYuv"} : ToWeb(kind) # None
                      /\ ToDevice # None
    BY Zenon DEF LinkedWhenQuiet
  <2>1. assoc # {}
    BY DEF MapInv, HasTable
  <2>2. "web" \in assoc
    BY <2>1 DEF MapInv
  <2>3. \A x \in AppSocks : ~Completes(x)
    BY DEF Completes, Associating
  <2>4. "app" \in assoc
    BY <2>1, <2>3 DEF MapInv
  <2>5. web.control # None /\ web.video # None
    BY DEF StartedInv, Started
  <2>6. app.control # None
    BY DEF AppInv, WasPut
  <2> QED
    BY <2>2, <2>4, <2>5, <2>6 DEF ToWeb, ToDevice
<1> QED
  BY <1>1, <1>2, InitStarted, StartedStep, LinkStep, PTL DEF Spec

-----------------------------------------------------------------------------
(* The pages are shown what they know.                                       *)
ShownInv == shown \in [WebSocks -> SUBSET {"control", "yuv420p"}]

-----------------------------------------------------------------------------
(* Where the relay listens, the one device server opens two sockets, 1 and   *)
(* 2; they are put in either order.                                          *)
StartInv ==
  /\ fellBack \in BOOLEAN /\ bound \in BOOLEAN
  /\ ~fellBack => /\ \A w \in WebSocks : thr[w] \notin {"connect", "connect2"}
                  /\ starting["forward"] = 0
                  /\ starting["reverse"] = IF bound /\ dev = "down" THEN 1 ELSE 0
                  /\ dev # "down" => bound

DeviceSockets == IF dev = "video" THEN {1, 2} ELSE IF dev = "control" THEN {1} ELSE {}

SocketsInv ==
  /\ role \in [AppSocks -> {"none", "control", "video", "dead"}]
  /\ dev \in {"down", "none", "control", "video"}
  /\ ~fellBack => /\ tunnel = "reverse" /\ isForward = {}
                  /\ \A s \in AppSocks :
                       /\ as[s] # "none" <=> s \in DeviceSockets
                       /\ as[s] # "none" => role[s] = IF s = 1 THEN "control" ELSE "video"

Put(d) == {d.control, d.video} \ {None}

RightSoFar(d) == /\ d.tempPort = None <=> d.control = None
                 /\ d.allConnected => d.control = 1 /\ d.video = 2
                 /\ ~d.allConnected => d.video = None /\ d.control = d.tempPort

PutInv ==
  ~fellBack => /\ app \in ChannelData(AppSocks) /\ RightSoFar(app)
               /\ \A s \in AppSocks : as[s] \in HandlerPlaces \ {"none", "put"} <=> s \in Put(app)

DeviceInv == StartInv /\ SocketsInv /\ PutInv

(* Putting the one or the other of two sockets, 1 and 2.                     *)
LEMMA PutChannelRight ==
  ASSUME NEW socks \in SUBSET (Nat \ {None}),
         NEW d \in ChannelData(socks), RightSoFar(d), NEW s \in socks \cap {1, 2},
         Put(d) \subseteq {1, 2} \ {s}
  PROVE  /\ PutChannel(d, s) \in ChannelData(socks)
         /\ RightSoFar(PutChannel(d, s))
         /\ Put(PutChannel(d, s)) = Put(d) \cup {s}
<1>1. None \notin socks
  OBVIOUS
<1>2. ~d.allConnected
  BY <1>1 DEF RightSoFar, Put, None
<1>3. d.video = None /\ d.control = d.tempPort
  BY <1>2 DEF RightSoFar
<1>4. d.control = None \/ d.control \in {1, 2} \ {s}
  BY DEF Put
<1> DEFINE e == PutChannel(d, s)
<1>5. e \in ChannelData(socks)
  BY <1>2, <1>3, PutChannelKeeps
<1>6. CASE d.control = None
  <2>1. e.video = None /\ e.control = s /\ e.tempPort = s /\ e.allConnected = FALSE
    BY <1>2, <1>3, <1>6 DEF PutChannel, ChannelData
  <2>2. Put(d) = {} /\ s # None
    BY <1>1, <1>3, <1>6 DEF Put
  <2>3. RightSoFar(e) /\ Put(e) = {s}
    BY <2>1, <2>2 DEF RightSoFar, Put
  <2> QED
    BY <1>5, <2>2, <2>3
<1>7. CASE d.control # None
  <2>1. (d.control = 1 /\ s = 2) \/ (d.control = 2 /\ s = 1)
    BY <1>4, <1>7
  <2>2. Put(d) = {d.control}
    BY <1>3, <1>7 DEF Put
  <2>3. /\ e.video = 2 /\ e.control = 1 /\ e.allConnected = TRUE
        /\ e.tempPort = d.control
    BY <1>3, <2>1 DEF PutChannel, ChannelData, None
  <2>4. RightSoFar(e)
    BY <2>1, <2>3 DEF RightSoFar, None
  <2>5. Put(e) = {1, 2}
    BY <2>3 DEF Put, None
  <2> QED
    BY <1>5, <2>1, <2>2, <2>4, <2>5
<1> QED
  BY <1>6, <1>7

(* The thread that binds the port starts the device server, which comes up.  *)
LEMMA StartStep == ASSUME StartedInv, StartInv, [Next]_vars PROVE StartInv'
<1> USE DEF StartInv
<1>1. ASSUME NEW w \in WebSocks, PrepareConnectPhone(w) PROVE StartInv'
  BY <1>1 DEF PrepareConnectPhone, StartedInv, device
<1>2. ASSUME NEW w \in WebSocks, Adb(w) PROVE StartInv'
  <2>1. CASE thr[w] = "adb" /\ fellBack' = TRUE /\ bound' = bound
    BY <2>1
  <2>2. CASE \E x \in {"bind", "done"} :
               thr' = [thr EXCEPT ![w] = x] /\ UNCHANGED <<fellBack, bound, dev, starting>>
    BY <2>2 DEF StartedInv
  <2> QED
    BY <1>2, <2>1, <2>2 DEF Adb, device
<1>3. ASSUME NEW w \in WebSocks, Bind(w) PROVE StartInv'
  <2>1. UNCHANGED <<fellBack, dev>>
    BY <1>3 DEF Bind, device
  <2>2. CASE thr' = [thr EXCEPT ![w] = "done"] /\ UNCHANGED <<bound, starting>>
    BY <2>1, <2>2 DEF StartedInv
  <2>3. CASE /\ ~bound /\ bound' = TRUE /\ thr' = [thr EXCEPT ![w] = "serving"]
             /\ starting' = [starting EXCEPT !["reverse"] = @ + 1]
    BY <2>1, <2>3 DEF StartedInv, Tunnels
  <2> QED
    BY <1>3, <2>2, <2>3 DEF Bind, BindFails, StartAdbProcess
<1>4. ASSUME NEW w \in WebSocks, Connect(w) PROVE StartInv'
  <2>1. fellBack
    BY <1>4 DEF Connect
  <2> QED
    BY <1>4, <2>1 DEF Connect
<1>5. ASSUME NEW t \in Tunnels, DeviceUp(t) PROVE StartInv'
  <2>1. /\ starting[t] > 0 /\ starting' = [starting EXCEPT ![t] = @ - 1]
        /\ dev' = IF dev \in {"none", "control"} THEN dev ELSE "none"
        /\ UNCHANGED <<fellBack, thr, bound>>
    BY <1>5 DEF DeviceUp
  <2> QED
    BY <2>1 DEF StartedInv, Tunnels
<1>6. CASE DeviceConnect
  <2>1. UNCHANGED <<fellBack, bound, thr, starting>> /\ dev # "down" /\ dev' # "down"
    BY <1>6 DEF DeviceConnect, NewSocket, conn
  <2> QED
    BY <2>1
<1>7. CASE UNCHANGED <<conn, dev>>
  BY <1>7 DEF conn
<1>8. \/ \E w \in WebSocks : PrepareConnectPhone(w) \/ Adb(w) \/ Bind(w) \/ Connect(w)
      \/ (\E t \in Tunnels : DeviceUp(t)) \/ DeviceConnect \/ UNCHANGED <<conn, dev>>
  BY DEF Next, OpenPage, WebHandler, Upgrade, Thread, FromWeb, FromDevice, AppHandler,
       PutAppChannel, TakeTable, AssociateWeb, AssociateApp, Store, vars, device
<1> QED
  BY <1>1, <1>2, <1>3, <1>4, <1>5, <1>6, <1>7, <1>8

(* The device connects: its sockets get the next numbers.                    *)
LEMMA DeviceConnects ==
  ASSUME SocketsInv, DeviceConnect, ~fellBack
  PROVE  /\ UNCHANGED <<fellBack, app, tunnel>> /\ isForward' = {}
         /\ \E s \in {1, 2} \cap AppSocks :
              /\ dev = IF s = 1 THEN "none" ELSE "control"
              /\ dev' = IF s = 1 THEN "control" ELSE "video"
              /\ as[s] = "none" /\ as' = [as EXCEPT ![s] = "put"]
              /\ role' = [role EXCEPT ![s] = IF s = 1 THEN "control" ELSE "video"]
<1>1. PICK s \in AppSocks :
        LET now == IF tunnel = "reverse" THEN dev ELSE "down"
        IN /\ as[s] = "none" /\ \A x \in 1..s - 1 : as[x] # "none"
           /\ as' = [as EXCEPT ![s] = IF "reverse" = "forward" THEN "web" ELSE "put"]
           /\ isForward' = IF "reverse" = "forward" THEN isForward \cup {s} ELSE isForward
           /\ role' = [role EXCEPT ![s] = CASE now = "none" -> "control"
                                            [] now = "control" -> "video"
                                            [] OTHER -> "dead"]
           /\ dev' = CASE now = "none" -> "control" [] now = "control" -> "video" [] OTHER -> dev
  BY Zenon DEF DeviceConnect, NewSocket
<1>2. UNCHANGED <<fellBack, app, tunnel>> /\ isForward' = {} /\ tunnel = "reverse"
  BY <1>1 DEF DeviceConnect, conn, SocketsInv
<1>3. s \in Nat /\ s >= 1 /\ \A x \in 1..s - 1 : x \in AppSocks
  BY RelayAssumption DEF AppSocks
<1>4. dev \in {"none", "control"}
  BY DEF DeviceConnect
<1>5. s = IF dev = "none" THEN 1 ELSE 2
  <2>1. s \notin DeviceSockets /\ \A x \in 1..s - 1 : x \in DeviceSockets
    BY <1>1, <1>3 DEF SocketsInv
  <2>2. CASE dev = "none"
    BY <1>3, <2>1, <2>2 DEF DeviceSockets
  <2>3. CASE dev = "control"
    <3>1. DeviceSockets = {1}
      BY <2>3 DEF DeviceSockets
    <3>2. s # 1 /\ ~(2 \in 1..s - 1)
      BY <2>1, <3>1
    <3> QED
      BY <1>3, <2>3, <3>2
  <2> QED
    BY <1>4, <2>2, <2>3
<1>6. s \in {1, 2} \cap AppSocks
  BY <1>5
<1>7. /\ dev = IF s = 1 THEN "none" ELSE "control"
      /\ dev' = IF s = 1 THEN "control" ELSE "video"
      /\ as[s] = "none" /\ as' = [as EXCEPT ![s] = "put"]
      /\ role' = [role EXCEPT ![s] = IF s = 1 THEN "control" ELSE "video"]
  <2>1. CASE dev = "none"
    BY <1>1, <1>2, <1>5, <2>1
  <2>2. CASE dev = "control"
    BY <1>1, <1>2, <1>5, <2>2
  <2> QED
    BY <1>4, <2>1, <2>2
<1> QED
  BY <1>2, <1>6, <1>7

(* A handler puts its socket and relates the addresses, in this order.       *)
LEMMA AppHandlerDoes ==
  ASSUME as \in [AppSocks -> HandlerPlaces], NEW s \in AppSocks, AppHandler(s), isForward = {}
  PROVE  /\ UNCHANGED <<fellBack, dev, tunnel, role, isForward>>
         /\ \/ /\ as[s] = "put" /\ as' = [as EXCEPT ![s] = "web"]
               /\ app' = PutChannel(app, s)
            \/ /\ as[s] \in HandlerPlaces \ {"none", "put"}
               /\ \E x \in HandlerPlaces \ {"none", "put"} : as' = [as EXCEPT ![s] = x]
               /\ app' = app
<1>1. UNCHANGED <<fellBack, dev, tunnel, role, isForward>>
  BY DEF AppHandler, PutAppChannel, TakeTable, AssociateWeb, AssociateApp, Store, conn, device
<1>2. CASE PutAppChannel(s)
  BY <1>1, <1>2 DEF PutAppChannel, AfterPut
<1>3. CASE TakeTable(s)
  BY <1>1, <1>3 DEF TakeTable, HandlerPlaces
<1>4. CASE AssociateWeb(s)
  BY <1>1, <1>4 DEF AssociateWeb, Store, HandlerPlaces
<1>5. CASE AssociateApp(s)
  BY <1>1, <1>5 DEF AssociateApp, AfterAssociate, Store, HandlerPlaces
<1> QED
  BY <1>2, <1>3, <1>4, <1>5 DEF AppHandler

(* A new socket gets a role, the others keep theirs.                         *)
LEMMA RolesStep ==
  ASSUME role \in [AppSocks -> {"none", "control", "video", "dead"}],
         dev \in {"down", "none", "control", "video"}, [Next]_vars
  PROVE  /\ role' \in [AppSocks -> {"none", "control", "video", "dead"}]
         /\ dev' \in {"down", "none", "control", "video"}
<1>1. ASSUME NEW t \in Tunnels, NewSocket(t)
      PROVE  /\ role' \in [AppSocks -> {"none", "control", "video", "dead"}]
             /\ dev' \in {"down", "none", "control", "video"}
  BY <1>1, NewSocketConnects
<1>2. ASSUME NEW t \in Tunnels, DeviceUp(t)
      PROVE  /\ role' \in [AppSocks -> {"none", "control", "video", "dead"}]
             /\ dev' \in {"down", "none", "control", "video"}
  BY <1>2 DEF DeviceUp
<1>3. \/ NewSocket("forward") \/ NewSocket("reverse") \/ (\E t \in Tunnels : DeviceUp(t))
      \/ UNCHANGED <<dev, role>>
  BY DEF Next, OpenPage, DeviceConnect, WebHandler, Upgrade, PrepareConnectPhone, Thread, Adb,
       Bind, Connect, FromWeb, AppHandler, PutAppChannel, TakeTable, AssociateWeb, AssociateApp,
       Store, FromDevice, vars, device
<1>4. "forward" \in Tunnels /\ "reverse" \in Tunnels
  BY DEF Tunnels
<1> QED
  BY <1>1, <1>2, <1>3, <1>4

(* What the other steps leave to the sockets and to where they are put.      *)
SocketVars == <<fellBack, dev, tunnel, role, as, isForward, app>>
LEMMA DeviceSteps ==
  ASSUME StartInv, [Next]_vars
  PROVE  \/ UNCHANGED SocketVars
         \/ ~fellBack /\ DeviceConnect
         \/ ~fellBack /\ \E s \in AppSocks : AppHandler(s)
         \/ /\ ~fellBack /\ dev = "down" /\ dev' = "none" /\ tunnel' = "reverse"
            /\ UNCHANGED <<fellBack, role, as, isForward, app>>
         \/ fellBack'
<1>1. fellBack => fellBack'
  BY DEF Next, OpenPage, DeviceUp, DeviceConnect, WebHandler, Upgrade, PrepareConnectPhone,
       Thread, Adb, Bind, Connect, FromWeb, AppHandler, PutAppChannel, TakeTable,
       AssociateWeb, AssociateApp, Store, FromDevice, vars, conn
<1> SUFFICES ASSUME ~fellBack, ~fellBack'
             PROVE  \/ UNCHANGED SocketVars \/ DeviceConnect \/ \E s \in AppSocks : AppHandler(s)
                    \/ /\ dev = "down" /\ dev' = "none" /\ tunnel' = "reverse"
                       /\ UNCHANGED <<fellBack, role, as, isForward, app>>
  BY <1>1
<1> USE DEF SocketVars
<1>2. ASSUME NEW t \in Tunnels, DeviceUp(t)
      PROVE  /\ dev = "down" /\ dev' = "none" /\ tunnel' = "reverse"
             /\ UNCHANGED <<fellBack, role, as, isForward, app>>
  BY <1>2 DEF DeviceUp, StartInv, Tunnels
<1>3. ASSUME NEW w \in WebSocks, PrepareConnectPhone(w) \/ Adb(w) \/ Bind(w)
      PROVE UNCHANGED SocketVars
  BY <1>3 DEF PrepareConnectPhone, Adb, Bind, device
<1>4. ASSUME NEW w \in WebSocks, Connect(w) PROVE FALSE
  BY <1>4 DEF Connect, StartInv
<1>5. \/ (\E t \in Tunnels : DeviceUp(t)) \/ DeviceConnect \/ \E s \in AppSocks : AppHandler(s)
      \/ \E w \in WebSocks : PrepareConnectPhone(w) \/ Adb(w) \/ Bind(w) \/ Connect(w)
      \/ UNCHANGED SocketVars
  BY DEF Next, OpenPage, WebHandler, Upgrade, Thread, FromWeb, FromDevice, vars, conn, device
<1> QED
  BY <1>2, <1>3, <1>4, <1>5

(* Every step keeps who the sockets are.                                     *)
LEMMA SocketsStep == ASSUME StartedInv, StartInv, SocketsInv, [Next]_vars PROVE SocketsInv'
<1>1. CASE ~fellBack /\ DeviceConnect
  <2>1. PICK s \in {1, 2} \cap AppSocks :
          /\ dev = IF s = 1 THEN "none" ELSE "control"
          /\ dev' = IF s = 1 THEN "control" ELSE "video"
          /\ as[s] = "none" /\ as' = [as EXCEPT ![s] = "put"]
          /\ role' = [role EXCEPT ![s] = IF s = 1 THEN "control" ELSE "video"]
    BY <1>1, DeviceConnects
  <2>2. UNCHANGED <<fellBack, tunnel>> /\ isForward' = {}
    BY <1>1, DeviceConnects
  <2> QED
    BY <1>1, <2>1, <2>2 DEF SocketsInv, DeviceSockets, StartedInv
<1>2. ASSUME NEW s \in AppSocks, AppHandler(s), ~fellBack PROVE SocketsInv'
  <2>1. /\ UNCHANGED <<fellBack, dev, tunnel, role, isForward>> /\ as[s] # "none"
        /\ \E x \in HandlerPlaces \ {"none"} : as' = [as EXCEPT ![s] = x]
    BY <1>2, AppHandlerDoes, AppHandlerMoves DEF SocketsInv, StartedInv
  <2>2. \A x \in AppSocks : as'[x] # "none" <=> as[x] # "none"
    BY <2>1 DEF StartedInv
  <2> QED
    BY <2>1, <2>2 DEF SocketsInv, DeviceSockets
<1>3. CASE UNCHANGED SocketVars
  BY <1>3 DEF SocketsInv, DeviceSockets, SocketVars
<1>4. CASE /\ ~fellBack /\ dev = "down" /\ dev' = "none" /\ tunnel' = "reverse"
           /\ UNCHANGED <<fellBack, role, as, isForward, app>>
  BY <1>4 DEF SocketsInv, DeviceSockets
<1>5. CASE fellBack'
  BY <1>5, RolesStep DEF SocketsInv
<1> QED
  BY <1>1, <1>2, <1>3, <1>4, <1>5, DeviceSteps

(* Every step keeps what is put.                                             *)
LEMMA PutStep == ASSUME StartedInv, DeviceInv, [Next]_vars PROVE PutInv'
<1>1. CASE ~fellBack /\ DeviceConnect
  <2>1. PICK s \in {1, 2} \cap AppSocks :
          /\ dev = IF s = 1 THEN "none" ELSE "control"
          /\ as[s] = "none" /\ as' = [as EXCEPT ![s] = "put"]
    BY <1>1, DeviceConnects DEF DeviceInv
  <2>2. UNCHANGED <<fellBack, app>>
    BY <1>1, DeviceConnects DEF DeviceInv
  <2> QED
    BY <1>1, <2>1, <2>2 DEF DeviceInv, PutInv, StartedInv
<1>2. ASSUME NEW s \in AppSocks, AppHandler(s), ~fellBack PROVE PutInv'
  <2>0. isForward = {} /\ as \in [AppSocks -> HandlerPlaces]
    BY <1>2 DEF DeviceInv, SocketsInv, StartedInv
  <2>1. CASE as[s] = "put" /\ as' = [as EXCEPT ![s] = "web"] /\ app' = PutChannel(app, s)
    <3>2. s \in {1, 2} /\ s \notin Put(app)
      BY <1>2, <2>1 DEF DeviceInv, SocketsInv, DeviceSockets, PutInv
    <3>3. \A x \in Put(app) : x \in AppSocks
      BY <1>2 DEF DeviceInv, PutInv, Put, ChannelData
    <3>4. Put(app) \subseteq {1, 2} \ {s}
      BY <1>2, <3>2, <3>3 DEF DeviceInv, SocketsInv, DeviceSockets, PutInv
    <3>0. AppSocks \in SUBSET (Nat \ {None})
      BY RelayAssumption DEF AppSocks, None
    <3>5. /\ app' \in ChannelData(AppSocks) /\ RightSoFar(app') /\ Put(app') = Put(app) \cup {s}
      BY <1>2, <2>1, <3>0, <3>2, <3>4, PutChannelRight DEF DeviceInv, PutInv
    <3>6. \A x \in AppSocks : as'[x] \in HandlerPlaces \ {"none", "put"} <=> x \in Put(app')
      BY <1>2, <2>0, <2>1, <3>5 DEF DeviceInv, PutInv, HandlerPlaces
    <3> QED
      BY <3>5, <3>6 DEF PutInv
  <2>2. CASE /\ as[s] \in HandlerPlaces \ {"none", "put"}
             /\ \E x \in HandlerPlaces \ {"none", "put"} : as' = [as EXCEPT ![s] = x]
             /\ app' = app
    BY <1>2, <2>0, <2>2 DEF DeviceInv, PutInv
  <2> QED
    BY <1>2, <2>0, <2>1, <2>2, AppHandlerDoes
<1>3. CASE UNCHANGED <<fellBack, as, app>>
  BY <1>3 DEF DeviceInv, PutInv
<1>4. CASE fellBack'
  BY <1>4 DEF PutInv
<1> QED
  BY <1>1, <1>2, <1>3, <1>4, DeviceSteps DEF DeviceInv, SocketVars

(* Where the relay listens, the ports tell the device's control socket from  *)
(* its video socket, in whatever order the event loops put them and however  *)
(* many pages there are.                                                     *)
THEOREM DeviceChannelsRightHolds == Spec => []DeviceChannelsRight
<1>1. Init => DeviceInv
  <2> SUFFICES ASSUME Init PROVE DeviceInv
    OBVIOUS
  <2>1. StartInv
    BY DEF Init, StartInv, Tunnels
  <2>2. SocketsInv
    BY DEF Init, SocketsInv, DeviceSockets
  <2>3. app \in ChannelData(AppSocks) /\ RightSoFar(app) /\ Put(app) = {}
    BY DEF Init, NoChannels, ChannelData, RightSoFar, Put
  <2>4. PutInv
    BY <2>3 DEF Init, PutInv, HandlerPlaces
  <2> QED
    BY <2>1, <2>2, <2>4 DEF DeviceInv
<1>2. Init => StartedInv
  BY InitStarted
<1>3. DeviceInv => DeviceChannelsRight
  <2> SUFFICES ASSUME DeviceInv, ~fellBack, app.allConnected
               PROVE  role[app.control] = "control" /\ role[app.video] = "video"
    BY DEF DeviceChannelsRight
  <2>1. app.control = 1 /\ app.video = 2 /\ app \in ChannelData(AppSocks)
    BY DEF DeviceInv, PutInv, RightSoFar
  <2>2. 1 \in AppSocks /\ 2 \in AppSocks /\ 1 \in Put(app) /\ 2 \in Put(app)
    BY <2>1 DEF ChannelData, Put, None
  <2>3. as[1] # "none" /\ as[2] # "none"
    BY <2>2 DEF DeviceInv, PutInv
  <2>4. \A s \in AppSocks : as[s] # "none" => role[s] = IF s = 1 THEN "control" ELSE "video"
    BY DEF DeviceInv, SocketsInv
  <2>5. role[1] = "control"
    BY <2>2, <2>3, <2>4
  <2>6. role[2] = IF 2 = 1 THEN "control" ELSE "video"
    BY <2>2, <2>3, <2>4
  <2> QED
    BY <2>1, <2>5, <2>6
<1>4. DeviceInv /\ StartedInv /\ [Next]_vars => DeviceInv'
  BY StartStep, SocketsStep, PutStep DEF DeviceInv
<1> QED
  BY <1>1, <1>2, <1>3, <1>4, StartedStep, PTL DEF Spec

-----------------------------------------------------------------------------
(* The first page: its sockets 1 and 2 are put in either order too, and      *)
(* tempPort is fresh.                                                        *)
FirstPage == opened <= 1

PageInv ==
  /\ opened \in Nat
  /\ ws \in [WebSocks -> {"none", "request", "put", "active"}]
  /\ FirstPage => /\ RightSoFar(web)
                  /\ \A w \in WebSocks : /\ ws[w] # "none" => opened = 1 /\ w \in {1, 2}
                                         /\ ws[w] \in {"put", "active"} <=> w \in Put(web)

(* Every step keeps it so.                                                   *)
LEMMA PageStep == ASSUME StartedInv, PageInv, [Next]_vars PROVE PageInv'
<1>0. WebSocks \in SUBSET (Nat \ {None})
  BY RelayAssumption DEF WebSocks, None
<1>1. CASE OpenPage
  <2>1. /\ opened' = opened + 1 /\ web' = web
        /\ ws' = [w \in WebSocks |-> IF w \in {2 * opened + 1, 2 * opened + 2}
                                     THEN "request" ELSE ws[w]]
    BY <1>1 DEF OpenPage
  <2>2. CASE opened = 0
    <3>1. \A w \in WebSocks : ws[w] = "none" /\ w \notin Put(web)
      BY <2>2 DEF PageInv, FirstPage
    <3>2. ws' = [w \in WebSocks |-> IF w \in {1, 2} THEN "request" ELSE "none"]
      BY <2>1, <2>2, <3>1
    <3>3. RightSoFar(web) /\ opened' = 1
      BY <2>1, <2>2 DEF PageInv, FirstPage
    <3> QED
      BY <2>1, <3>1, <3>2, <3>3 DEF PageInv, FirstPage
  <2>3. CASE opened # 0
    BY <2>1, <2>3 DEF PageInv, FirstPage
  <2> QED
    BY <2>2, <2>3
<1>2. ASSUME NEW w \in WebSocks, Upgrade(w) PROVE PageInv'
  <2>1. /\ ws[w] = "request" /\ web' = PutChannel(web, w)
        /\ ws' = [ws EXCEPT ![w] = "put"] /\ opened' = opened
    BY <1>2 DEF Upgrade
  <2>2. CASE FirstPage
    <3>1. opened = 1 /\ w \in {1, 2} /\ w \notin Put(web)
      BY <2>1, <2>2 DEF PageInv
    <3>2. \A x \in Put(web) : x \in WebSocks
      BY DEF StartedInv, Put, ChannelData
    <3>3. Put(web) \subseteq {1, 2} \ {w}
      BY <2>2, <3>1, <3>2 DEF PageInv
    <3>4. RightSoFar(web') /\ Put(web') = Put(web) \cup {w}
      BY <1>0, <2>1, <2>2, <3>1, <3>3, PutChannelRight DEF PageInv, StartedInv
    <3>5. \A x \in WebSocks : /\ ws'[x] # "none" => x \in {1, 2}
                              /\ ws'[x] \in {"put", "active"} <=> x \in Put(web')
      BY <2>1, <2>2, <3>1, <3>4 DEF PageInv
    <3> QED
      BY <2>1, <3>1, <3>4, <3>5 DEF PageInv
  <2>3. CASE ~FirstPage
    BY <2>1, <2>3 DEF PageInv, FirstPage
  <2> QED
    BY <2>2, <2>3
<1>3. ASSUME NEW w \in WebSocks, PrepareConnectPhone(w) PROVE PageInv'
  <2>1. /\ ws[w] = "put" /\ ws' = [ws EXCEPT ![w] = "active"]
        /\ UNCHANGED <<opened, web>>
    BY <1>3 DEF PrepareConnectPhone
  <2> QED
    BY <2>1 DEF PageInv, FirstPage
<1>4. CASE UNCHANGED <<opened, ws, web>>
  BY <1>4 DEF PageInv, FirstPage
<1>5. \/ OpenPage \/ \E w \in WebSocks : Upgrade(w) \/ PrepareConnectPhone(w)
      \/ UNCHANGED <<opened, ws, web>>
  BY DEF Next, DeviceUp, DeviceConnect, WebHandler, Thread, Adb, Bind, Connect, FromWeb,
       AppHandler, PutAppChannel, TakeTable, AssociateWeb, AssociateApp, Store, FromDevice, vars
<1> QED
  BY <1>1, <1>2, <1>3, <1>4, <1>5

(* Only what the device sends changes what is shown.                         *)
LEMMA ShownStep ==
  ASSUME StartedInv, PageInv, ShownInv, FirstPage => NothingMisdelivered, [Next]_vars
  PROVE  ShownInv' /\ (FirstPage' => NothingMisdelivered')
<1>1. ASSUME NEW s \in AppSocks, FromDevice(s)
      PROVE  ShownInv' /\ (FirstPage' => NothingMisdelivered')
  <2>1. PICK kind \in Messages(role[s]) :
          shown' = IF ToWeb(kind) = None THEN shown
                   ELSE [shown EXCEPT ![ToWeb(kind)] = @ \cup {WebFrame(kind)}]
    BY <1>1 DEF FromDevice
  <2>2. opened' = opened /\ as[s] = "active"
    BY <1>1 DEF FromDevice
  <2>3. web.allConnected
    BY <2>2 DEF StartedInv, Started
  <2>4. kind = "control" \/ kind \in Pictures
    BY <2>1 DEF Messages
  <2>5. CASE ToWeb(kind) = None
    BY <2>1, <2>2, <2>5 DEF NothingMisdelivered, FirstPage, ShownInv
  <2>6. CASE ToWeb(kind) # None
    <3>1. kind # "otherYuv" /\ ToWeb(kind) = IF kind = "control" THEN web.control ELSE web.video
      BY <2>6 DEF ToWeb
    <3>2. WebFrame(kind) = IF kind = "control" THEN "control" ELSE "yuv420p"
      BY <2>4, <3>1 DEF WebFrame, Pictures
    <3>3. shown' = [shown EXCEPT ![ToWeb(kind)] = @ \cup {WebFrame(kind)}]
      BY <2>1, <2>6
    <3>4. ShownInv'
      BY <3>2, <3>3 DEF ShownInv
    <3>5. ASSUME FirstPage' PROVE NothingMisdelivered'
      <4>1. NothingMisdelivered /\ web.control = 1 /\ web.video = 2
        BY <2>2, <2>3, <3>5 DEF FirstPage, PageInv, RightSoFar
      <4>2. 1 % 2 = 1 /\ 2 % 2 = 0
        OBVIOUS
      <4>3. CASE kind = "control"
        <5>1. shown' = [shown EXCEPT ![1] = @ \cup {"control"}]
          BY <3>1, <3>2, <3>3, <4>1, <4>3
        <5> QED
          BY <4>1, <4>2, <5>1 DEF NothingMisdelivered, ShownInv
      <4>4. CASE kind # "control"
        <5>1. shown' = [shown EXCEPT ![2] = @ \cup {"yuv420p"}]
          BY <3>1, <3>2, <3>3, <4>1, <4>4
        <5> QED
          BY <4>1, <4>2, <5>1 DEF NothingMisdelivered, ShownInv
      <4> QED
        BY <4>3, <4>4
    <3> QED
      BY <3>4, <3>5
  <2> QED
    BY <2>5, <2>6
<1>2. CASE UNCHANGED <<opened, shown>>
  BY <1>2 DEF NothingMisdelivered, FirstPage, ShownInv
<1>3. CASE OpenPage
  <2>1. shown' = shown /\ (FirstPage' => FirstPage)
    BY <1>3 DEF OpenPage, data, FirstPage, PageInv
  <2> QED
    BY <2>1 DEF NothingMisdelivered, ShownInv
<1>4. OpenPage \/ UNCHANGED <<opened, shown>> \/ \E s \in AppSocks : FromDevice(s)
  BY DEF Next, DeviceUp, DeviceConnect, WebHandler, Upgrade, PrepareConnectPhone,
       Thread, Adb, Bind, Connect, FromWeb, AppHandler, PutAppChannel, TakeTable,
       AssociateWeb, AssociateApp, Store, vars, data
<1> QED
  BY <1>1, <1>2, <1>3, <1>4

(* What holds of the pages in every reachable state.                         *)
PagesInv == StartedInv /\ ShownInv /\ PageInv /\ (FirstPage => NothingMisdelivered)

(* It is an inductive invariant.                                             *)
LEMMA PagesInvHolds == Spec => []PagesInv
<1>1. Init => PagesInv
  <2> SUFFICES ASSUME Init PROVE PagesInv
    OBVIOUS
  <2>1. StartedInv
    BY InitStarted
  <2>2. ShownInv
    BY DEF Init, ShownInv
  <2>3. RightSoFar(web) /\ Put(web) = {}
    BY DEF Init, NoChannels, RightSoFar, Put
  <2>4. PageInv
    BY <2>3 DEF Init, PageInv
  <2> QED
    BY <2>1, <2>2, <2>4 DEF Init, NothingMisdelivered, PagesInv
<1>2. PagesInv /\ [Next]_vars => PagesInv'
  BY StartedStep, PageStep, ShownStep DEF PagesInv
<1> QED
  BY <1>1, <1>2, PTL DEF Spec

(* Until a second page is opened, the ports tell all four sockets apart.     *)
THEOREM FirstPageChannelsRight == Spec => [](opened <= 1 => ChannelsRight)
<1>1. PagesInv /\ opened <= 1 => PageChannelsRight
  BY DEF PagesInv, PageInv, FirstPage, RightSoFar, PageChannelsRight
<1>2. PageChannelsRight /\ DeviceChannelsRight => ChannelsRight
  BY DEF ChannelsRight
<1> QED
  BY <1>1, <1>2, PagesInvHolds, DeviceChannelsRightHolds, PTL

(* ... and nothing that the device sends goes to the page's other socket.    *)
THEOREM FirstPageNothingMisdelivered == Spec => [](opened <= 1 => NothingMisdelivered)
<1>1. PagesInv /\ opened <= 1 => NothingMisdelivered
  BY DEF PagesInv, FirstPage
<1> QED
  BY <1>1, PagesInvHolds, PTL

-----------------------------------------------------------------------------
(* The bytes through the relay: Wire.                                        *)

(* Where the messages of the pages end, of the bytes received.               *)
Ends(E) ==
  /\ E \in [0..Len(downSent) -> Nat] /\ E[0] = 0
  /\ \A k \in 1..Len(downSent) : E[k] = E[k - 1] + HEADER + downSent[k]

(* What DownEnd chooses is where they end.                                   *)
LEMMA DownEndIs ==
  ASSUME downSent \in Seq(Nat), NEW E, Ends(E), NEW n \in 0..Len(downSent)
  PROVE  DownEnd(n) = E[n]
<1> DEFINE B(F) == [k \in 0..n |-> IF k = 0 THEN 0 ELSE F[k - 1] + HEADER + downSent[k]]
           G == CHOOSE F : F = B(F)
           h == [k \in 0..n |-> E[k]]
<1>1. DownEnd(n) = G[n]
  BY DEF DownEnd
<1>2. n \in Nat /\ Len(downSent) \in Nat /\ n <= Len(downSent)
  OBVIOUS
<1>3. ASSUME NEW k \in 0..n
      PROVE  h[k] = IF k = 0 THEN 0 ELSE h[k - 1] + HEADER + downSent[k]
  <2>1. CASE k = 0
    BY <1>2, <2>1 DEF Ends
  <2>2. CASE k # 0
    <3>1. k \in 1..Len(downSent) /\ k - 1 \in 0..n
      BY <1>2, <2>2
    <3>2. E[k] = E[k - 1] + HEADER + downSent[k]
      BY <3>1, Zenon DEF Ends
    <3>3. h[k] = E[k] /\ h[k - 1] = E[k - 1]
      BY <3>1
    <3> QED
      BY <2>2, <3>2, <3>3
  <2> QED
    BY <2>1, <2>2
<1>4. h = B(h)
  BY <1>3
<1>5. G = B(G)
  <2> HIDE DEF h
  <2>1. \E F : F = B(F)
    BY <1>4, Zenon
  <2> HIDE DEF B
  <2> QED
    BY <2>1, Zenon
<1> HIDE DEF G
<1>6. \A k \in 0..n : G[k] = IF k = 0 THEN 0 ELSE G[k - 1] + HEADER + downSent[k]
  BY <1>5, Zenon
<1>7. G[0] = h[0]
  <2>1. 0 \in 0..n
    BY <1>2
  <2> HIDE DEF h
  <2> QED
    BY <1>3, <1>6, <2>1, Zenon
<1>8. ASSUME NEW k \in 1..n, G[k - 1] = h[k - 1] PROVE G[k] = h[k]
  <2>1. k \in 0..n /\ k # 0
    BY <1>2
  <2> HIDE DEF h
  <2> QED
    BY <1>3, <1>6, <1>8, <2>1, Zenon
<1>9. \A k \in 0..n : G[k] = h[k]
  <2> HIDE DEF h
  <2>1. n \in Nat
    BY <1>2
  <2> QED
    BY <1>7, <1>8, <2>1, Alike, ZenonT(30)
<1>10. n \in 0..n /\ h[n] = E[n]
  BY <1>2
<1> QED
  BY <1>1, <1>9, <1>10

(* There are such places.                                                    *)
LEMMA EndsExist == ASSUME downSent \in Seq(Nat) PROVE \E E : Ends(E)
<1> DEFINE n == Len(downSent)
           step == [k \in Nat |-> [v \in Nat |-> IF k \in 1..n THEN v + HEADER + downSent[k] ELSE v]]
<1>1. n \in Nat /\ \A k \in 1..n : downSent[k] \in Nat
  OBVIOUS
<1>2. step \in [Nat -> [Nat -> Nat]]
  BY DEF HEADER
<1>3. ASSUME NEW k \in 1..n, NEW v \in Nat PROVE step[k][v] = v + HEADER + downSent[k]
  <2>1. step[k] = [w \in Nat |-> IF k \in 1..n THEN w + HEADER + downSent[k] ELSE w]
    BY <1>1
  <2> HIDE DEF step
  <2> QED
    BY <2>1, Zenon
<1> HIDE DEF step
<1>4. PICK E \in [0..n -> Nat] : Follows(E, n, 0, step)
  BY <1>1, <1>2, RecursionExists
<1>5. ASSUME NEW k \in 1..n PROVE E[k] = E[k - 1] + HEADER + downSent[k]
  <2>1. k - 1 \in 0..n
    BY <1>1
  <2>2. E[k - 1] \in Nat
    BY <1>4, <2>1
  <2>3. E[k] = step[k][E[k - 1]]
    BY <1>4, Zenon DEF Follows
  <2> QED
    BY <1>3, <2>2, <2>3, Zenon
<1>6. E[0] = 0
  BY <1>4, Zenon DEF Follows
<1> QED
  BY <1>4, <1>5, <1>6, Zenon DEF Ends

(* The reader is behind what was received, by no more than its buffer; and   *)
(* when what was received ends in a header, a read was cut there.            *)
Reads(E) ==
  /\ Ends(E)
  /\ E[taken] <= received /\ received <= E[Len(downSent)]
  /\ received - E[taken] <= BufSize
  /\ \A k \in 0..Len(downSent) - 1 : received - E[k] \in 1..HEADER - 1 => cut

DownInvariant ==
  /\ downSent \in Seq(0..BufSize - HEADER)
  /\ received \in Nat /\ taken \in 0..Len(downSent)
  /\ reader \in {"run", "dead", "closed"} /\ cut \in BOOLEAN
  /\ \E E : Reads(E)
  /\ reader = "dead" => cut

(* At the start.                                                             *)
LEMMA DownStart == ASSUME WireAssumption, WireInit PROVE DownInvariant
<1>1. PICK n \in 0..MaxDown : downSent \in [1..n -> Lengths]
  BY DEF WireInit
<1>2. n \in Nat /\ BufSize \in Nat \ {0} /\ Lengths \subseteq 0..BufSize - HEADER
  BY DEF WireAssumption, HEADER
<1>3. downSent \in Seq(0..BufSize - HEADER) /\ Len(downSent) \in Nat
  <2> DEFINE T == 0..BufSize - HEADER
  <2>1. downSent \in Seq(Lengths) /\ Lengths \subseteq T
    BY <1>1, <1>2
  <2> HIDE DEF T
  <2>2. downSent \in Seq(T)
    BY <2>1, SeqWider
  <2>3. Len(downSent) \in Nat
    BY <2>1
  <2> QED
    BY <2>2, <2>3 DEF T
<1>4. downSent \in Seq(Nat)
  <2>1. 0..BufSize - HEADER \subseteq Nat
    BY <1>2
  <2> QED
    BY <1>3, <2>1, SeqWider
<1>5. PICK E : Ends(E)
  BY <1>4, EndsExist
<1>6. E[0] = 0 /\ E \in [0..Len(downSent) -> Nat]
  BY <1>5 DEF Ends
<1>7. received = 0 /\ taken = 0 /\ reader = "run" /\ cut = FALSE
  BY DEF WireInit
<1>8. Reads(E)
  <2>1. E[Len(downSent)] \in Nat
    BY <1>3, <1>6
  <2>2. ASSUME NEW k \in 0..Len(downSent) - 1 PROVE ~(received - E[k] \in 1..HEADER - 1)
    <3>1. E[k] \in Nat /\ received = 0
      BY <1>3, <1>6, <1>7
    <3> QED
      BY <3>1 DEF HEADER
  <2>3. E[taken] <= received /\ received <= E[Len(downSent)] /\ received - E[taken] <= BufSize
    BY <1>2, <1>6, <1>7, <2>1
  <2> QED
    BY <1>5, <2>2, <2>3, Zenon DEF Reads
<1>9. received \in Nat /\ taken \in 0..Len(downSent) /\ reader \in {"run", "dead", "closed"}
  BY <1>3, <1>7
<1>10. cut \in BOOLEAN /\ reader # "dead"
  BY <1>7, Zenon
<1> QED
  BY <1>3, <1>8, <1>9, <1>10, Zenon DEF DownInvariant

(* What the reader finds.                                                    *)
LEMMA ReaderFinds ==
  ASSUME WireAssumption, DownInvariant, NEW E, Reads(E)
  PROVE  /\ Len(downSent) \in Nat /\ received \in Nat /\ taken \in 0..Len(downSent) /\ BufSize \in Nat \ {0}
         /\ Remaining = received - E[taken] /\ Remaining \in 0..BufSize
         /\ \A k \in 0..Len(downSent) : DownEnd(k) = E[k] /\ E[k] \in Nat
         /\ Remaining # 0 =>
              /\ taken + 1 \in 1..Len(downSent) /\ downSent[taken + 1] \in 0..BufSize - HEADER
              /\ E[taken + 1] = E[taken] + HEADER + downSent[taken + 1]
<1> DEFINE N == Len(downSent)
<1>1. /\ N \in Nat /\ received \in Nat /\ taken \in 0..N /\ BufSize \in Nat \ {0}
      /\ downSent \in Seq(0..BufSize - HEADER) /\ downSent \in Seq(Nat)
  <2>1. 0..BufSize - HEADER \subseteq Nat
    BY DEF WireAssumption, HEADER
  <2>2. downSent \in Seq(0..BufSize - HEADER)
    BY DEF DownInvariant
  <2>3. downSent \in Seq(Nat)
    BY <2>1, <2>2, SeqWider
  <2> QED
    BY <2>2, <2>3 DEF DownInvariant, WireAssumption
<1>2. Ends(E) /\ E \in [0..N -> Nat] /\ \A k \in 1..N : E[k] = E[k - 1] + HEADER + downSent[k]
  BY DEF Reads, Ends
<1>3. \A k \in 0..N : DownEnd(k) = E[k] /\ E[k] \in Nat
  BY <1>1, <1>2, DownEndIs
<1>4. Remaining = received - E[taken]
  BY <1>1, <1>3 DEF Remaining
<1>5. E[taken] <= received /\ received <= E[N] /\ received - E[taken] <= BufSize /\ E[taken] \in Nat
  BY <1>1, <1>3 DEF Reads
<1>6. Remaining \in 0..BufSize
  BY <1>1, <1>4, <1>5
<1>7. ASSUME Remaining # 0
      PROVE  /\ taken + 1 \in 1..N /\ downSent[taken + 1] \in 0..BufSize - HEADER
             /\ E[taken + 1] = E[taken] + HEADER + downSent[taken + 1]
  <2>1. taken # N
    BY <1>1, <1>4, <1>5, <1>7
  <2>2. taken + 1 \in 1..N /\ (taken + 1) - 1 = taken
    BY <1>1, <2>1
  <2>3. downSent[taken + 1] \in 0..BufSize - HEADER
    <3> DEFINE T == 0..BufSize - HEADER
    <3>1. downSent \in Seq(T) /\ taken + 1 \in 1..Len(downSent)
      BY <1>1, <2>2
    <3> HIDE DEF T
    <3>2. downSent[taken + 1] \in T
      BY <3>1
    <3> QED
      BY <3>2 DEF T
  <2> QED
    BY <1>2, <2>2, <2>3
<1> QED
  BY <1>1, <1>3, <1>4, <1>6, <1>7

(* A message is handled.                                                     *)
LEMMA DownNewNext == ASSUME WireAssumption, DownInvariant, NewNext PROVE DownInvariant'
<1>1. PICK E : Reads(E)
  BY DEF DownInvariant
<1>2. /\ Len(downSent) \in Nat /\ received \in Nat /\ taken \in 0..Len(downSent) /\ BufSize \in Nat \ {0}
      /\ Remaining = received - E[taken] /\ Remaining \in 0..BufSize /\ E[taken] \in Nat
      /\ Remaining # 0 =>
           /\ taken + 1 \in 1..Len(downSent) /\ downSent[taken + 1] \in 0..BufSize - HEADER
           /\ E[taken + 1] = E[taken] + HEADER + downSent[taken + 1]
  BY <1>1, ReaderFinds
<1>3. Remaining >= 6 /\ Remaining - 6 >= downSent[taken + 1] /\ HEADER = 6
  BY DEF NewNext, HasMessage, HEADER
<1>4. /\ taken + 1 \in 1..Len(downSent) /\ downSent[taken + 1] \in Nat
      /\ E[taken + 1] = E[taken] + 6 + downSent[taken + 1]
  BY <1>2, <1>3
<1>5. E[taken + 1] <= received /\ received - E[taken + 1] <= BufSize
  <2> DEFINE x == E[taken + 1]  y == E[taken]  l == downSent[taken + 1]  m == Remaining
  <2>1. /\ m = received - y /\ m - 6 >= l /\ x = y + 6 + l /\ l \in Nat /\ y \in Nat
        /\ received \in Nat /\ m \in 0..BufSize /\ BufSize \in Nat
    BY <1>2, <1>3, <1>4
  <2> HIDE DEF x, y, l, m
  <2>2. x <= received /\ received - x <= BufSize
    BY <2>1
  <2> QED
    BY <2>2 DEF x
<1>6. taken' = taken + 1 /\ UNCHANGED <<downSent, received, reader, cut>>
  BY DEF NewNext
<1>7. Reads(E)'
  <2>1. Ends(E)'
    BY <1>1, <1>6 DEF Reads, Ends
  <2>2. /\ received <= E[Len(downSent)]
        /\ \A k \in 0..Len(downSent) - 1 : received - E[k] \in 1..HEADER - 1 => cut
    BY <1>1 DEF Reads
  <2> QED
    BY <1>5, <1>6, <2>1, <2>2 DEF Reads
<1>8. taken' \in 0..Len(downSent')
  BY <1>2, <1>4, <1>6
<1> QED
  BY <1>6, <1>7, <1>8 DEF DownInvariant

(* The thread dies in a header.                                              *)
LEMMA DownThrows == ASSUME WireAssumption, DownInvariant, NewNextThrows PROVE DownInvariant'
<1>1. PICK E : Reads(E)
  BY DEF DownInvariant
<1>2. /\ taken \in 0..Len(downSent) /\ Len(downSent) \in Nat
      /\ Remaining = received - E[taken]
      /\ Remaining # 0 => taken + 1 \in 1..Len(downSent)
  BY <1>1, ReaderFinds
<1>3. Remaining \in 1..HEADER - 1 /\ Remaining # 0
  BY DEF NewNextThrows, Underflow, HEADER
<1>4. taken \in 0..Len(downSent) - 1
  BY <1>2, <1>3
<1>5. cut
  BY <1>1, <1>2, <1>3, <1>4 DEF Reads
<1>6. reader' = "dead" /\ UNCHANGED <<downSent, received, taken, cut>>
  BY DEF NewNextThrows
<1>7. Reads(E)'
  BY <1>1, <1>6 DEF Reads, Ends
<1> QED
  BY <1>5, <1>6, <1>7 DEF DownInvariant

(* The reader reads; it never finds its buffer full.                         *)
LEMMA DownReadFrom == ASSUME WireAssumption, DownInvariant, ReadFrom PROVE DownInvariant'
<1>1. PICK E : Reads(E)
  BY DEF DownInvariant
<1>2. /\ Len(downSent) \in Nat /\ received \in Nat /\ taken \in 0..Len(downSent) /\ BufSize \in Nat \ {0}
      /\ Remaining = received - E[taken] /\ Remaining \in 0..BufSize /\ E[taken] \in Nat
      /\ \A k \in 0..Len(downSent) : DownEnd(k) = E[k] /\ E[k] \in Nat
      /\ Remaining # 0 =>
           taken + 1 \in 1..Len(downSent) /\ downSent[taken + 1] \in 0..BufSize - HEADER
  BY <1>1, ReaderFinds
<1>3. ~IsFull
  <2> SUFFICES ASSUME Remaining = BufSize PROVE FALSE
    BY DEF IsFull
  <2>1. ~(Remaining \in 1..HEADER - 1) /\ ~(Remaining >= HEADER /\ Remaining - HEADER >= downSent[taken + 1])
    BY DEF ReadFrom, Underflow, HasMessage
  <2>2. HEADER = 6
    BY DEF HEADER
  <2> QED
    BY <1>2, <2>1, <2>2, SMTT(20)
<1>4. PICK r \in 1..Room :
        /\ received + r <= DownEnd(Len(downSent))
        /\ received' = received + r
        /\ cut' = (cut \/ InHeader(received + r))
  BY <1>3, Zenon DEF ReadFrom
<1>5. UNCHANGED <<downSent, taken, reader>>
  BY <1>3, Zenon DEF ReadFrom
<1>6. r \in Nat /\ r <= BufSize - Remaining
  BY <1>2, <1>4 DEF Room
<1>7. received' \in Nat /\ E[taken] <= received' /\ received' - E[taken] <= BufSize
      /\ received' <= E[Len(downSent)]
  <2>1. Len(downSent) \in 0..Len(downSent)
    BY <1>2
  <2>2. received' <= E[Len(downSent)]
    BY <1>2, <1>4, <2>1
  <2>3. E[taken] <= received
    BY <1>2
  <2> QED
    BY <1>2, <1>4, <1>6, <2>2, <2>3
<1>8. ASSUME NEW k \in 0..Len(downSent) - 1, received' - E[k] \in 1..HEADER - 1 PROVE cut'
  <2>1. k \in 0..Len(downSent)
    BY <1>2
  <2>2. (received + r) - DownEnd(k) \in 1..HEADER - 1
    BY <1>2, <1>4, <1>8, <2>1
  <2> QED
    BY <1>4, <2>2 DEF InHeader
<1>9. cut' \in BOOLEAN
  <2>1. InHeader(received + r) \in BOOLEAN /\ cut \in BOOLEAN
    BY Zenon DEF InHeader, DownInvariant
  <2> QED
    BY <1>4, <2>1, Zenon
<1>10. Reads(E)'
  <2>1. Ends(E)'
    BY <1>1, <1>5 DEF Reads, Ends
  <2> QED
    BY <1>5, <1>7, <1>8, <2>1 DEF Reads
<1>11. reader = "run" /\ taken' \in 0..Len(downSent')
  BY <1>2, <1>5 DEF ReadFrom
<1>12. downSent' \in Seq(0..BufSize - HEADER)
  BY <1>5 DEF DownInvariant
<1> QED
  BY <1>5, <1>7, <1>9, <1>10, <1>11, <1>12 DEF DownInvariant

(* Every step keeps what is received in order.                               *)
LEMMA DownStep == ASSUME WireAssumption, DownInvariant, [WireNext]_wireVars PROVE DownInvariant'
<1>1. ASSUME UNCHANGED <<downSent, received, taken, cut>>, reader' \in {"run", "closed"} \/ reader' = reader
      PROVE  DownInvariant'
  <2>1. PICK E : Reads(E)
    BY DEF DownInvariant
  <2>2. Reads(E)'
    BY <1>1, <2>1 DEF Reads, Ends
  <2>3. /\ downSent' \in Seq(0..BufSize - HEADER) /\ received' \in Nat /\ taken' \in 0..Len(downSent')
        /\ reader' \in {"run", "dead", "closed"}
    BY <1>1 DEF DownInvariant
  <2>4. cut' \in BOOLEAN /\ (reader' = "dead" => cut')
    BY <1>1, Zenon DEF DownInvariant
  <2> QED
    BY <2>2, <2>3, <2>4, Zenon DEF DownInvariant
<1>2. CASE Decode
  BY <1>1, <1>2, Zenon DEF Decode, down
<1>3. CASE NewNext
  BY <1>3, DownNewNext
<1>4. CASE NewNextThrows
  BY <1>4, DownThrows
<1>5. CASE ReadFrom
  BY <1>5, DownReadFrom
<1>6. CASE Closed
  BY <1>1, <1>6 DEF Closed
<1>7. CASE UNCHANGED wireVars
  BY <1>1, <1>7 DEF wireVars, down
<1> QED
  BY <1>2, <1>3, <1>4, <1>5, <1>6, <1>7 DEF WireNext, ReaderThread, WireTerminated

-----------------------------------------------------------------------------
(* The least of a set of natural numbers.                                    *)
LEMMA MinIs ==
  ASSUME NEW T, T \subseteq Nat, T # {} PROVE Min(T) \in T /\ \A k \in T : Min(T) <= k
<1>1. \E m \in T : \A k \in T : m <= k
  BY LeastNat
<1> QED
  BY <1>1, Zenon DEF Min

(* Where the decoder stops skipping at j.                                    *)
Stops(b, j) == Readable(b, j) < BASE_LENGTH \/ SubSeq(b, j, j + 1) = DATA_BEGIN

(* Skipping goes to the first such place.                                    *)
LEMMA SkipIs ==
  ASSUME NEW b \in Seq(Byte), NEW i \in 1..Len(b) + 1
  PROVE  /\ Skip(b, i) \in i..Len(b) + 1 /\ Stops(b, Skip(b, i))
         /\ \A j \in i..Len(b) + 1 : Stops(b, j) => Skip(b, i) <= j
<1> DEFINE T == {j \in i..Len(b) + 1 : Stops(b, j)}
<1>1. Skip(b, i) = Min(T)
  BY DEF Skip, Stops
<1>2. T \subseteq Nat
  OBVIOUS
<1>3. Len(b) + 1 \in T
  BY DEF Stops, Readable, BASE_LENGTH
<1>4. Min(T) \in T /\ \A k \in T : Min(T) <= k
  <2> HIDE DEF T
  <2> QED
    BY <1>2, <1>3, MinIs
<1> QED
  BY <1>1, <1>4

(* What is skipped to and complete is a frame among the bytes.               *)
Behind(b, j) == j + BASE_LENGTH + Length(b, j)
Found(b, j) == [type |-> b[j + 2], payload |-> SubSeq(b, j + BASE_LENGTH, Behind(b, j) - 1)]
FrameData == [type : Types, payload : Seq(Byte)]

(* It lies within the bytes, and is frame data.                              *)
LEMMA FoundIs ==
  ASSUME NEW b \in Seq(Byte), NEW j \in 1..Len(b) + 1, Complete(b, j)
  PROVE  /\ Length(b, j) \in Nat /\ Behind(b, j) \in j + BASE_LENGTH..Len(b) + 1
         /\ Found(b, j) \in FrameData
<1>1. Len(b) \in Nat /\ Readable(b, j) = Len(b) - j + 1 /\ BASE_LENGTH = 7
  BY DEF Readable, BASE_LENGTH
<1>2. /\ Readable(b, j) >= 7 /\ b[j + 2] \in Types /\ Readable(b, j) - 7 >= Length(b, j)
  BY DEF Complete, BASE_LENGTH
<1>3. j + 4 \in 1..Len(b) /\ j + 5 \in 1..Len(b) /\ j + 6 \in 1..Len(b)
  BY <1>1, <1>2
<1>4. b[j + 4] \in Byte /\ b[j + 5] \in Byte /\ b[j + 6] \in Byte
  BY <1>3
<1>5. Length(b, j) \in Nat
  <2> DEFINE x == b[j + 4]  y == b[j + 5]  z == b[j + 6]
  <2>1. x \in 0..255 /\ y \in 0..255 /\ z \in 0..255
    BY <1>4 DEF Byte
  <2> HIDE DEF x, y, z
  <2>2. x * (256 * 256) + y * 256 + z \in Nat
    BY <2>1
  <2> QED
    BY <2>2 DEF Length, x, y, z
<1> DEFINE l == Length(b, j)
<1>6. j + 7 + l \in j + 7..Len(b) + 1
  <2>1. l \in Nat /\ Len(b) - j + 1 - 7 >= l
    BY <1>1, <1>2, <1>5
  <2> HIDE DEF l
  <2> QED
    BY <1>1, <2>1
<1>7. SubSeq(b, j + 7, (j + 7 + l) - 1) \in Seq(Byte)
  <2> DEFINE x == j + 6  y == j + 6 + l
  <2>1. x \in Nat /\ y \in Nat /\ x <= y /\ y <= Len(b) /\ x + 1 = j + 7 /\ (j + 7 + l) - 1 = y
    <3>1. l \in Nat
      BY <1>5
    <3> HIDE DEF l
    <3> QED
      BY <1>1, <1>6, <3>1
  <2> HIDE DEF x, y
  <2>2. SubSeq(b, x + 1, y) \in Seq(Byte)
    BY <2>1, PartAt
  <2> QED
    BY <2>1, <2>2
<1> QED
  BY <1>1, <1>2, <1>5, <1>6, <1>7, Zenon DEF Behind, Found, FrameData

(* The decoding of b from each of its bytes.                                 *)
Decoded(b) == [from : 1..Len(b) + 1, out : Seq(FrameData)]
Decodes(D, b) ==
  \A i \in 1..Len(b) + 1 :
    D[i] = LET j == Skip(b, i)
           IN IF ~Complete(b, j) THEN [from |-> j, out |-> <<>>]
              ELSE [D[Behind(b, j)] EXCEPT !.out = <<Found(b, j)>> \o @]

(* What DecodeAll chooses decodes b.                                         *)
LEMMA DecodeIs ==
  ASSUME NEW b \in Seq(Byte)
  PROVE  \E D \in [1..Len(b) + 1 -> Decoded(b)] : Decodes(D, b) /\ DecodeAll(b) = D[1]
<1> DEFINE m == Len(b) + 1
           V == Decoded(b)
           at(i) == Skip(b, i)
           next == [i \in 1..m |-> IF ~Complete(b, at(i)) THEN 0 ELSE Behind(b, at(i))]
           last == [i \in 1..m |-> [from |-> at(i), out |-> <<>>]]
           step == [i \in 1..m |-> [v \in V |-> IF Complete(b, at(i))
                                                THEN [v EXCEPT !.out = <<Found(b, at(i))>> \o @] ELSE v]]
<1>1. m \in Nat /\ Len(b) \in Nat
  OBVIOUS
<1>2. \A i \in 1..m : at(i) \in i..m /\ at(i) \in 1..m
  <2>1. \A i \in 1..m : at(i) \in i..m
    BY SkipIs
  <2> HIDE DEF at
  <2> QED
    BY <1>1, <2>1
<1>3. ASSUME NEW i \in 1..m, Complete(b, at(i))
      PROVE  Behind(b, at(i)) \in i + 1..m /\ Found(b, at(i)) \in FrameData
  <2>1. Behind(b, at(i)) \in at(i) + BASE_LENGTH..m /\ Found(b, at(i)) \in FrameData
    BY <1>2, <1>3, FoundIs
  <2> HIDE DEF at
  <2> QED
    BY <1>1, <1>2, <2>1 DEF BASE_LENGTH
<1> HIDE DEF at
<1>4. \A i \in 1..m : next[i] = 0 \/ next[i] \in i + 1..m
  BY <1>3
<1>5. last \in [1..m -> V]
  <2>1. ASSUME NEW i \in 1..m PROVE [from |-> at(i), out |-> <<>>] \in V
    <3>1. at(i) \in 1..Len(b) + 1 /\ <<>> \in Seq(FrameData)
      BY <1>2
    <3> QED
      BY <3>1 DEF Decoded
  <2> HIDE DEF V
  <2> QED
    BY <2>1
<1>6. step \in [1..m -> [V -> V]]
  <2>1. ASSUME NEW i \in 1..m, Complete(b, at(i)), NEW v \in V
        PROVE  [v EXCEPT !.out = <<Found(b, at(i))>> \o @] \in V
    <3>1. v.out \in Seq(FrameData) /\ <<Found(b, at(i))>> \in Seq(FrameData)
      BY <1>3, <2>1 DEF Decoded
    <3>2. <<Found(b, at(i))>> \o v.out \in Seq(FrameData)
      BY <3>1
    <3> HIDE DEF m
    <3> QED
      BY <3>2 DEF Decoded
  <2> HIDE DEF V
  <2> QED
    BY <2>1
<1> HIDE DEF next, last, step, V
<1>7. PICK D \in [1..m -> V] : Returns(D, m, next, last, step)
  BY <1>1, <1>4, <1>5, <1>6, BackwardExists
<1> DEFINE B(F) == [i \in 1..Len(b) + 1 |->
                      LET j == Skip(b, i)
                          nxt == j + BASE_LENGTH + Length(b, j)
                      IN IF ~Complete(b, j) THEN [from |-> Reset(b, j), out |-> <<>>]
                         ELSE [F[nxt] EXCEPT !.out = <<[type |-> b[j + 2],
                                                        payload |-> SubSeq(b, j + BASE_LENGTH, nxt - 1)]>> \o @]]
           G == CHOOSE F : F = B(F)
           Right(F, i) == F[i] = IF ~Complete(b, at(i)) THEN [from |-> at(i), out |-> <<>>]
                                 ELSE [F[Behind(b, at(i))] EXCEPT !.out = <<Found(b, at(i))>> \o @]
<1>8. DecodeAll(b) = G[1]
  BY DEF DecodeAll
<1>9. ASSUME NEW i \in 1..m PROVE Right(D, i)
  <2>1. D[i] = IF next[i] = 0 THEN last[i] ELSE step[i][D[next[i]]]
    BY <1>7 DEF Returns
  <2>2. CASE ~Complete(b, at(i))
    <3>1. next[i] = 0 /\ last[i] = [from |-> at(i), out |-> <<>>]
      BY <2>2, Zenon DEF next, last
    <3> QED
      BY <2>1, <2>2, <3>1, Zenon
  <2>3. CASE Complete(b, at(i))
    <3>1. next[i] = Behind(b, at(i))
      BY <2>3, Zenon DEF next
    <3>2. next[i] \in 1..m /\ next[i] # 0
      BY <1>1, <1>3, <2>3, <3>1
    <3>3. D[next[i]] \in V
      BY <1>7, <3>2
    <3>4. step[i] = [v \in V |-> IF Complete(b, at(i))
                                THEN [v EXCEPT !.out = <<Found(b, at(i))>> \o @] ELSE v]
      BY Zenon DEF step
    <3>5. step[i][D[next[i]]] = [D[next[i]] EXCEPT !.out = <<Found(b, at(i))>> \o @]
      BY <2>3, <3>3, <3>4, Zenon
    <3> QED
      BY <2>1, <2>3, <3>1, <3>2, <3>5, Zenon
  <2> QED
    BY <2>2, <2>3
<1>10. D = B(D)
  <2>1. D = [i \in 1..m |-> D[i]]
    BY <1>7
  <2> QED
    BY <1>9, <2>1, Zenon DEF at, Behind, Found, Reset
<1>11. G = B(G)
  <2>1. \E F : F = B(F)
    BY <1>10, Zenon
  <2> HIDE DEF B
  <2> QED
    BY <2>1, Zenon
<1> HIDE DEF G
<1>12. ASSUME NEW i \in 1..m PROVE Right(G, i)
  BY <1>11, Zenon DEF at, Behind, Found, Reset
<1>13. ASSUME NEW i \in 1..m, AlikeAfter(i, D, G, m) PROVE D[i] = G[i]
  <2>1. Complete(b, at(i)) => D[Behind(b, at(i))] = G[Behind(b, at(i))]
    BY <1>3, <1>13 DEF AlikeAfter
  <2> QED
    BY <1>9, <1>12, <2>1, Zenon
<1>14. \A i \in 1..m : D[i] = G[i]
  <2> HIDE DEF B, Right
  <2> QED
    BY <1>1, <1>13, BackwardAlike
<1>15. Decodes(D, b)
  BY <1>9 DEF Decodes, at
<1>16. DecodeAll(b) = D[1]
  BY <1>1, <1>8, <1>14
<1> QED
  BY <1>7, <1>15, <1>16 DEF V

-----------------------------------------------------------------------------
(* What the phone sends for a frame: the noise before it, and the frame.     *)
Unit(f) == f.noise \o Frame(f)
Units(fs) == [i \in DOMAIN fs |-> Unit(fs[i])]

(* The length of a payload, on the wire and back.                            *)
LEMMA IntBytesIs ==
  ASSUME NEW n \in Nat, n < 256 * 256 * 256
  PROVE  /\ IntBytes(n) \in Seq(Byte) /\ Len(IntBytes(n)) = 4
         /\ IntBytes(n)[2] * (256 * 256) + IntBytes(n)[3] * 256 + IntBytes(n)[4] = n
<1> DEFINE x == n \div (256 * 256)  y == (n \div 256) % 256  z == n % 256  q == n \div 256
<1>1. q \in Nat /\ z \in 0..255 /\ n = 256 * q + z /\ y = q % 256
  OBVIOUS
<1>2. x = q \div 256
  OBVIOUS
<1>3. x \in 0..255 /\ y \in 0..255 /\ q = 256 * x + y
  <2> HIDE DEF q, x, y, z
  <2>1. q < 256 * 256
    BY <1>1
  <2>2. q \div 256 \in 0..255 /\ q % 256 \in 0..255 /\ q = 256 * (q \div 256) + (q % 256)
    BY <1>1, <2>1
  <2> QED
    BY <1>1, <1>2, <2>2
<1> HIDE DEF x, y, z, q
<1>4. x * (256 * 256) + y * 256 + z = n
  BY <1>1, <1>3
<1>5. IntBytes(n) = <<0, x, y, z>>
  BY DEF IntBytes, x, y, z
<1>6. <<0, x, y, z>> \in Seq(Byte)
  BY <1>1, <1>3 DEF Byte
<1> QED
  BY <1>4, <1>5, <1>6

(* What is where in it.                                                      *)
IsUnit(u, f, l, n) ==
  /\ l = Len(f.noise) /\ n = Len(f.payload) /\ l \in Nat /\ n \in Nat
  /\ f.type \in Types /\ f.payload \in Seq(Byte) /\ u \in Seq(Byte) /\ Len(u) = l + 7 + n
  /\ u[l + 1] = 102 /\ u[l + 2] = 136 /\ u[l + 3] = f.type
  /\ u[l + 5] * (256 * 256) + u[l + 6] * 256 + u[l + 7] = n
  /\ \A k \in 1..n : u[l + 7 + k] = f.payload[k]
  /\ \A k \in 1..l : ~(u[k] = 102 /\ u[k + 1] = 136)

(* What the encoder writes for a frame is that.                              *)
LEMMA UnitIs ==
  ASSUME WireAssumption, NEW f \in UpFrames PROVE IsUnit(Unit(f), f, Len(f.noise), Len(f.payload))
<1> DEFINE noise == f.noise  payload == f.payload  type == f.type
           l == Len(noise)  n == Len(payload)  i == IntBytes(n)
<1>1. /\ noise \in Seq(Byte) /\ ~HasBegin(noise) /\ payload \in Seq(Byte) /\ n < 256 * 256 * 256
      /\ type \in Types
  BY DEF WireAssumption, UpFrames
<1>2. l \in Nat /\ n \in Nat
  BY <1>1
<1>3. /\ i \in Seq(Byte) /\ Len(i) = 4 /\ i[2] * (256 * 256) + i[3] * 256 + i[4] = n
  BY <1>1, <1>2, IntBytesIs
<1>0. l = Len(noise) /\ n = Len(payload)
  OBVIOUS
<1> HIDE DEF i, type, noise, payload, l, n
<1> DEFINE h == DATA_BEGIN \o <<type>>  g == h \o i  fr == g \o payload  u == noise \o fr
<1>4. Unit(f) = u
  BY DEF Unit, Frame, i, type, n, payload, noise
<1>5. h \in Seq(Byte) /\ Len(h) = 3 /\ h[1] = 102 /\ h[2] = 136 /\ h[3] = type
  <2>1. type \in Byte
    BY <1>1 DEF Types, CONTROLMSG_TYPE, VIDEOSTREAM_TYPE, Byte
  <2> DEFINE t == <<type>>
  <2>2. DATA_BEGIN \in Seq(Byte) /\ Len(DATA_BEGIN) = 2 /\ DATA_BEGIN[1] = 102 /\ DATA_BEGIN[2] = 136
    BY DEF DATA_BEGIN, Byte
  <2>3. t \in Seq(Byte) /\ Len(t) = 1 /\ t[1] = type
    BY <2>1
  <2> HIDE DEF t
  <2>4. /\ DATA_BEGIN \o t \in Seq(Byte) /\ Len(DATA_BEGIN \o t) = Len(DATA_BEGIN) + Len(t)
        /\ \A k \in 1..Len(DATA_BEGIN) : (DATA_BEGIN \o t)[k] = DATA_BEGIN[k]
        /\ \A k \in 1..Len(t) : (DATA_BEGIN \o t)[Len(DATA_BEGIN) + k] = t[k]
    <3>1. DATA_BEGIN \in Seq(Byte) /\ t \in Seq(Byte)
      BY <2>2, <2>3
    <3> QED
      BY <3>1, ConcatAt
  <2>5. /\ (DATA_BEGIN \o t)[1] = 102 /\ (DATA_BEGIN \o t)[2] = 136
        /\ (DATA_BEGIN \o t)[2 + 1] = type /\ Len(DATA_BEGIN \o t) = 3
    BY <2>2, <2>3, <2>4
  <2>6. h = DATA_BEGIN \o t
    BY DEF t
  <2> HIDE DEF h
  <2> QED
    BY <2>4, <2>5, <2>6
<1> HIDE DEF h
<1>6. /\ g \in Seq(Byte) /\ Len(g) = 7 /\ \A k \in 1..3 : g[k] = h[k]
      /\ \A k \in 1..4 : g[3 + k] = i[k]
  <2>1. /\ g \in Seq(Byte) /\ Len(g) = Len(h) + Len(i) /\ \A k \in 1..Len(h) : g[k] = h[k]
        /\ \A k \in 1..Len(i) : g[Len(h) + k] = i[k]
    <3>1. h \in Seq(Byte) /\ i \in Seq(Byte)
      BY <1>3, <1>5
    <3> QED
      BY <3>1, ConcatAt
  <2> HIDE DEF g
  <2> QED
    BY <1>3, <1>5, <2>1
<1> HIDE DEF g
<1>7. /\ fr \in Seq(Byte) /\ Len(fr) = 7 + n /\ \A k \in 1..7 : fr[k] = g[k]
      /\ \A k \in 1..n : fr[7 + k] = payload[k]
  <2>1. /\ fr \in Seq(Byte) /\ Len(fr) = Len(g) + Len(payload) /\ \A k \in 1..Len(g) : fr[k] = g[k]
        /\ \A k \in 1..Len(payload) : fr[Len(g) + k] = payload[k]
    <3>1. g \in Seq(Byte) /\ payload \in Seq(Byte)
      BY <1>1, <1>6
    <3> QED
      BY <3>1, ConcatAt
  <2> HIDE DEF fr
  <2> QED
    BY <1>0, <1>6, <2>1
<1> HIDE DEF fr
<1>8. /\ u \in Seq(Byte) /\ Len(u) = l + Len(fr) /\ \A k \in 1..l : u[k] = noise[k]
      /\ \A k \in 1..Len(fr) : u[l + k] = fr[k]
  <2>1. /\ u \in Seq(Byte) /\ Len(u) = Len(noise) + Len(fr) /\ \A k \in 1..Len(noise) : u[k] = noise[k]
        /\ \A k \in 1..Len(fr) : u[Len(noise) + k] = fr[k]
    <3>1. noise \in Seq(Byte) /\ fr \in Seq(Byte)
      BY <1>1, <1>7
    <3> QED
      BY <3>1, ConcatAt
  <2> HIDE DEF u
  <2> QED
    BY <1>0, <2>1
<1> HIDE DEF u
<1>9. ASSUME NEW k \in 1..7 PROVE u[l + k] = g[k]
  <2>1. k \in 1..Len(fr)
    BY <1>2, <1>7
  <2> QED
    BY <1>7, <1>8, <2>1
<1>10. u[l + 1] = 102 /\ u[l + 2] = 136 /\ u[l + 3] = type
  <2>1. g[1] = h[1] /\ g[2] = h[2] /\ g[3] = h[3]
    BY <1>6
  <2> QED
    BY <1>5, <1>9, <2>1
<1>11. u[l + 5] * (256 * 256) + u[l + 6] * 256 + u[l + 7] = n
  <2>1. g[3 + 2] = i[2] /\ g[3 + 3] = i[3] /\ g[3 + 4] = i[4]
    BY <1>6
  <2>2. u[l + 5] = g[5] /\ u[l + 6] = g[6] /\ u[l + 7] = g[7]
    BY <1>9
  <2>3. u[l + 5] = i[2] /\ u[l + 6] = i[3] /\ u[l + 7] = i[4]
    BY <2>1, <2>2
  <2> QED
    BY <1>3, <2>3
<1>12. ASSUME NEW k \in 1..n PROVE u[l + 7 + k] = payload[k]
  <2>1. 7 + k \in 1..Len(fr) /\ l + 7 + k = l + (7 + k)
    BY <1>2, <1>7
  <2> QED
    BY <1>7, <1>8, <2>1
<1>13. ASSUME NEW k \in 1..l, u[k] = 102, u[k + 1] = 136 PROVE FALSE
  <2>1. CASE k = l
    BY <1>10, <1>13, <2>1
  <2>2. CASE k # l
    <3>1. k \in 1..l - 1 /\ k + 1 \in 1..l
      BY <1>2, <2>2
    <3>2. noise[k] = 102 /\ noise[k + 1] = 136
      BY <1>8, <1>13, <3>1
    <3>3. k \in 1..Len(noise) - 1 /\ noise \in Seq(Byte)
      BY <1>0, <1>1, <3>1
    <3> DEFINE two == SubSeq(noise, k, k + 1)
    <3>4. Len(two) = 2 /\ two[1] = 102 /\ two[2] = 136
      BY <3>2, <3>3, PairAt
    <3>5. two \in Seq(Byte)
      BY <3>3
    <3> HIDE DEF two
    <3>6. two = <<102, 136>>
      BY <3>4, <3>5
    <3> QED
      BY <1>1, <3>3, <3>6 DEF HasBegin, two, DATA_BEGIN
  <2> QED
    BY <2>1, <2>2
<1>14. Len(u) = l + 7 + n
  BY <1>2, <1>7, <1>8
<1>15. \A k \in 1..l : ~(u[k] = 102 /\ u[k + 1] = 136)
  BY <1>13
<1>16. type = f.type /\ payload = f.payload /\ l = Len(f.noise) /\ n = Len(f.payload)
  BY DEF type, l, n, payload, noise
<1>17. /\ l = Len(f.noise) /\ n = Len(f.payload) /\ l \in Nat /\ n \in Nat
       /\ f.type \in Types /\ f.payload \in Seq(Byte) /\ u \in Seq(Byte) /\ Len(u) = l + 7 + n
       /\ u[l + 1] = 102 /\ u[l + 2] = 136 /\ u[l + 3] = f.type
  BY <1>1, <1>2, <1>8, <1>10, <1>14, <1>16
<1>18. \A k \in 1..n : u[l + 7 + k] = f.payload[k]
  BY <1>12, <1>16
<1>19. IsUnit(u, f, l, n)
  BY <1>11, <1>15, <1>17, <1>18 DEF IsUnit
<1> QED
  BY <1>4, <1>16, <1>19

(* The stream of frames, and where each of them begins in it.                *)
Places(off, fs) == CutBy(off, UpStream(fs), Units(fs))

(* The stream is the concatenation of what is written for each frame.        *)
LEMMA UnitsAre ==
  ASSUME WireAssumption, NEW fs \in Seq(UpFrames)
  PROVE  /\ Units(fs) \in Seq(Seq(Byte)) /\ Len(Units(fs)) = Len(fs) /\ Len(fs) \in Nat
         /\ \A j \in 1..Len(fs) : fs[j] \in UpFrames /\ Units(fs)[j] = Unit(fs[j])
         /\ UpStream(fs) = FlattenSeq(Units(fs)) /\ UpStream(fs) \in Seq(Byte)
         /\ \E off : Places(off, fs)
<1> DEFINE n == Len(fs)
<1>1. n \in Nat /\ Len(Units(fs)) = n /\ \A j \in 1..n : fs[j] \in UpFrames
  BY DEF Units
<1>2. \A j \in 1..n : Unit(fs[j]) \in Seq(Byte)
  BY <1>1, UnitIs, Zenon DEF IsUnit
<1>3. \A j \in 1..n : Units(fs)[j] = Unit(fs[j])
  BY <1>1 DEF Units
<1>4. Units(fs) = [j \in 1..n |-> Unit(fs[j])]
  BY DEF Units
<1>5. UpStream(fs) = FlattenSeq(Units(fs))
  BY DEF UpStream, Units, Unit
<1> HIDE DEF n
<1>6. [j \in 1..n |-> Unit(fs[j])] \in Seq(Seq(Byte))
  BY <1>1, <1>2
<1>7. Units(fs) \in Seq(Seq(Byte))
  BY <1>4, <1>6
<1>8. \E off : FlattenSeq(Units(fs)) \in Seq(Byte) /\ CutBy(off, FlattenSeq(Units(fs)), Units(fs))
  BY <1>7, FlattenCuts
<1>9. n = Len(fs)
  BY DEF n
<1> QED
  BY <1>1, <1>3, <1>5, <1>7, <1>8, <1>9 DEF Places

(* They are in order, and the bytes between them are the frames'.            *)
Filled(off, fs) ==
  \A i \in 1..Len(fs) : \A k \in 1..Len(Unit(fs[i])) : UpStream(fs)[off[i - 1] + k] = Unit(fs[i])[k]

(* ... from the first byte of the stream to its last.                        *)
LEMMA PlacesAre ==
  ASSUME WireAssumption, NEW fs \in Seq(UpFrames), NEW off, Places(off, fs)
  PROVE  /\ off[0] = 0 /\ off[Len(fs)] = Len(UpStream(fs)) /\ Len(fs) \in Nat
         /\ \A i \in 0..Len(fs) : off[i] \in Nat /\ off[i] <= Len(UpStream(fs))
         /\ \A i \in 0..Len(fs) : \A j \in i..Len(fs) : off[i] <= off[j]
         /\ \A i \in 1..Len(fs) : off[i] = off[i - 1] + Len(Unit(fs[i]))
         /\ Filled(off, fs)
<1> DEFINE N == Len(fs)
<1>1. /\ N \in Nat /\ Len(Units(fs)) = N /\ Units(fs) \in Seq(Seq(Byte))
      /\ \A j \in 1..N : Units(fs)[j] = Unit(fs[j])
  BY UnitsAre
<1>2. /\ off[0] = 0 /\ off[N] = Len(UpStream(fs))
      /\ \A i \in 1..N : off[i] = off[i - 1] + Len(Unit(fs[i]))
      /\ Filled(off, fs)
  <2>1. /\ off[0] = 0 /\ off[N] = Len(UpStream(fs))
        /\ \A i \in 1..N : off[i] = off[i - 1] + Len(Units(fs)[i])
        /\ \A i \in 1..N : \A k \in 1..Len(Units(fs)[i]) : UpStream(fs)[off[i - 1] + k] = Units(fs)[i][k]
    BY <1>1, Zenon DEF Places, CutBy
  <2> HIDE DEF N
  <2>2. \A i \in 1..N : off[i] = off[i - 1] + Len(Unit(fs[i]))
    BY <1>1, <2>1
  <2>3. ASSUME NEW i \in 1..N, NEW k \in 1..Len(Unit(fs[i]))
        PROVE  UpStream(fs)[off[i - 1] + k] = Unit(fs[i])[k]
    <3>1. Units(fs)[i] = Unit(fs[i])
      BY <1>1
    <3>2. k \in 1..Len(Units(fs)[i])
      BY <3>1
    <3> QED
      BY <2>1, <3>1, <3>2
  <2> QED
    BY <2>1, <2>2, <2>3, Zenon DEF Filled, N
<1>3. \A i \in 0..N : off[i] \in Nat /\ \A j \in i..N : off[i] <= off[j]
  BY <1>1, CutPlaces DEF Places
<1>4. \A i \in 0..N : off[i] <= Len(UpStream(fs))
  <2>1. \A i \in 0..N : N \in i..N
    BY <1>1
  <2> QED
    BY <1>2, <1>3, <2>1
<1> QED
  BY <1>1, <1>2, <1>3, <1>4

(* The stream of the last frames is as long as what is behind the others.    *)
LEMMA UpStreamTail ==
  ASSUME WireAssumption, NEW fs \in Seq(UpFrames), NEW off, Places(off, fs), NEW n \in 0..Len(fs)
  PROVE  Len(UpStream(SubSeq(fs, n + 1, Len(fs)))) = off[Len(fs)] - off[n]
<1> DEFINE N == Len(fs)  part == SubSeq(fs, n + 1, N)  w == SubSeq(Units(fs), n + 1, N)
<1>1. N \in Nat /\ Len(Units(fs)) = N /\ Units(fs) \in Seq(Seq(Byte)) /\ n \in Nat /\ n <= N
  BY UnitsAre
<1>2. part \in Seq(UpFrames) /\ Len(part) = N - n /\ \A i \in 1..N - n : part[i] = fs[n + i]
  <2>1. N <= Len(fs) /\ n \in Nat /\ N \in Nat /\ n <= N
    BY <1>1
  <2> HIDE DEF N
  <2> QED
    BY <2>1, PartAt
<1>3. w \in Seq(Seq(Byte)) /\ Len(w) = N - n /\ \A i \in 1..N - n : w[i] = Units(fs)[n + i]
  <2>1. N <= Len(Units(fs)) /\ n \in Nat /\ N \in Nat /\ n <= N
    BY <1>1
  <2> HIDE DEF N
  <2> QED
    BY <1>1, <2>1, PartAt
<1> HIDE DEF part, w
<1>4. /\ Units(part) \in Seq(Seq(Byte)) /\ Len(Units(part)) = N - n
      /\ \A i \in 1..N - n : Units(part)[i] = Unit(part[i])
      /\ UpStream(part) = FlattenSeq(Units(part))
  BY <1>2, UnitsAre
<1>5. ASSUME NEW i \in 1..N - n PROVE Units(part)[i] = w[i]
  <2>1. n + i \in 1..N
    BY <1>1
  <2>2. Units(fs)[n + i] = Unit(fs[n + i])
    BY <2>1, UnitsAre
  <2> QED
    BY <1>2, <1>3, <1>4, <2>2
<1>6. Units(part) = w
  BY <1>3, <1>4, <1>5, SeqEqual
<1>7. CutBy(off, UpStream(fs), Units(fs))
  BY DEF Places
<1>8. Len(FlattenSeq(SubSeq(Units(fs), n + 1, Len(Units(fs))))) = off[Len(Units(fs))] - off[n]
  BY <1>1, <1>7, FlattenTail
<1> QED
  BY <1>1, <1>4, <1>6, <1>8 DEF part, w

(* A part b of the stream, behind its first p bytes.                         *)
Piece(b, p, off, fs) ==
  /\ Places(off, fs) /\ p \in Nat /\ b \in Seq(Byte) /\ p + Len(b) <= Len(UpStream(fs))
  /\ \A y \in 1..Len(b) : b[y] = UpStream(fs)[p + y]

(* The decoder is behind k frames when a bytes are read: before the next     *)
(* frame or at it, and with the last one at the end.                         *)
Between(off, fs, k, a) ==
  off[k] <= a /\ IF k < Len(fs) THEN a <= off[k] + Len(fs[k + 1].noise) ELSE a = off[k]

(* The bytes of b that are of a frame.                                       *)
LEMMA PieceAt ==
  ASSUME WireAssumption, NEW fs \in Seq(UpFrames), NEW off, NEW b, NEW p, Piece(b, p, off, fs),
         NEW k \in 0..Len(fs) - 1, NEW x \in 1..Len(Unit(fs[k + 1])), NEW y \in 1..Len(b),
         p + y = off[k] + x
  PROVE  b[y] = Unit(fs[k + 1])[x]
<1>1. k + 1 \in 1..Len(fs) /\ (k + 1) - 1 = k
  BY UnitsAre
<1>2. \A i \in 1..Len(fs) : \A z \in 1..Len(Unit(fs[i])) : UpStream(fs)[off[i - 1] + z] = Unit(fs[i])[z]
  <2>1. Places(off, fs)
    BY DEF Piece
  <2> QED
    BY <2>1, PlacesAre DEF Filled
<1>3. UpStream(fs)[off[(k + 1) - 1] + x] = Unit(fs[k + 1])[x]
  BY <1>1, <1>2, Zenon
<1>4. b[y] = UpStream(fs)[p + y]
  BY DEF Piece
<1> QED
  BY <1>1, <1>3, <1>4

(* Where the frame behind k frames begins and ends.                          *)
LEMMA FrameEnds ==
  ASSUME WireAssumption, NEW fs \in Seq(UpFrames), NEW off, Places(off, fs), NEW k \in 0..Len(fs) - 1
  PROVE  /\ Len(fs) \in Nat /\ k \in 0..Len(fs) /\ k + 1 \in 1..Len(fs) /\ k + 1 \in 0..Len(fs)
         /\ off[k] \in Nat /\ off[k + 1] \in Nat /\ fs[k + 1] \in UpFrames
         /\ Len(fs[k + 1].noise) \in Nat /\ Len(fs[k + 1].payload) \in Nat
         /\ Len(Unit(fs[k + 1])) = Len(fs[k + 1].noise) + 7 + Len(fs[k + 1].payload)
         /\ off[k + 1] = off[k] + Len(fs[k + 1].noise) + 7 + Len(fs[k + 1].payload)
         /\ off[k + 1] <= Len(UpStream(fs))
<1>1. /\ Len(fs) \in Nat /\ k \in 0..Len(fs) /\ k + 1 \in 1..Len(fs) /\ k + 1 \in 0..Len(fs)
      /\ (k + 1) - 1 = k
  BY UnitsAre
<1>2. off[k] \in Nat /\ off[k + 1] \in Nat /\ off[k + 1] <= Len(UpStream(fs))
  BY <1>1, PlacesAre
<1>3. off[k + 1] = off[k] + Len(Unit(fs[k + 1]))
  BY <1>1, PlacesAre
<1>4. fs[k + 1] \in UpFrames
  BY <1>1, UnitsAre
<1>5. /\ Len(fs[k + 1].noise) \in Nat /\ Len(fs[k + 1].payload) \in Nat
      /\ Len(Unit(fs[k + 1])) = Len(fs[k + 1].noise) + 7 + Len(fs[k + 1].payload)
  <2>1. IsUnit(Unit(fs[k + 1]), fs[k + 1], Len(fs[k + 1].noise), Len(fs[k + 1].payload))
    BY <1>4, UnitIs
  <2> QED
    BY <2>1, Zenon DEF IsUnit
<1> DEFINE x == off[k]  l == Len(fs[k + 1].noise)  n == Len(fs[k + 1].payload)
<1>6. x + (l + 7 + n) = x + l + 7 + n
  <2>1. x \in Nat /\ l \in Nat /\ n \in Nat
    BY <1>2, <1>5
  <2> HIDE DEF x, l, n
  <2> QED
    BY <2>1
<1> QED
  BY <1>1, <1>2, <1>3, <1>4, <1>5, <1>6

(* The decoder skips to the frame, or stops before it for lack of bytes.     *)
LEMMA SkipsTo ==
  ASSUME WireAssumption, NEW fs \in Seq(UpFrames), NEW off, NEW b, NEW p, Piece(b, p, off, fs),
         NEW k \in 0..Len(fs) - 1, NEW i \in 1..Len(b) + 1, off[k] <= p + i - 1,
         NEW at \in Int, p + at = off[k] + Len(fs[k + 1].noise) + 1, i <= at
  PROVE  /\ Skip(b, i) \in i..Len(b) + 1 /\ Skip(b, i) <= at
         /\ Skip(b, i) # at => Readable(b, Skip(b, i)) < BASE_LENGTH
<1> DEFINE f == fs[k + 1]  l == Len(f.noise)  n == Len(f.payload)  j == Skip(b, i)  o == off[k]  m == Len(b)
<1>1. /\ o \in Nat /\ l \in Nat /\ n \in Nat /\ f \in UpFrames /\ Len(Unit(f)) = l + 7 + n
  BY FrameEnds DEF Piece
<1>2. /\ Unit(f)[l + 1] = 102 /\ Unit(f)[l + 2] = 136
      /\ \A x \in 1..l : ~(Unit(f)[x] = 102 /\ Unit(f)[x + 1] = 136)
  <2>1. IsUnit(Unit(f), f, l, n)
    BY <1>1, UnitIs
  <2> HIDE DEF f, l, n
  <2> QED
    BY <2>1, Zenon DEF IsUnit
<1>3. b \in Seq(Byte) /\ p \in Nat /\ m \in Nat /\ BASE_LENGTH = 7 /\ i \in 1..m + 1
  BY DEF Piece, BASE_LENGTH
<1>4. /\ j \in i..m + 1 /\ Stops(b, j)
      /\ \A x \in i..m + 1 : Stops(b, x) => j <= x
  BY <1>3, SkipIs
<1>5. ASSUME NEW x \in 1..l + 7 + n, NEW y \in 1..m, p + y = o + x PROVE b[y] = Unit(f)[x]
  <2>1. x \in 1..Len(Unit(fs[k + 1]))
    BY <1>1
  <2> QED
    BY <1>5, <2>1, PieceAt
<1>6. p + at = o + l + 1 /\ i <= at /\ o <= p + i - 1 /\ at \in Int
  OBVIOUS
<1>7. \A x \in 1..m - 1 : /\ Len(SubSeq(b, x, x + 1)) = 2
                          /\ SubSeq(b, x, x + 1)[1] = b[x] /\ SubSeq(b, x, x + 1)[2] = b[x + 1]
  BY <1>3, PairAt
<1> HIDE DEF f, l, n, j, o, m
<1>8. j <= at
  <2>1. CASE at <= m + 1
    <3>1. Stops(b, at)
      <4>1. CASE m - at + 1 < 7
        BY <1>3, <4>1 DEF Stops, Readable, m
      <4>2. CASE ~(m - at + 1 < 7)
        <5>1. /\ at \in 1..m - 1 /\ at \in 1..m /\ at + 1 \in 1..m /\ l + 1 \in 1..l + 7 + n
              /\ l + 2 \in 1..l + 7 + n /\ p + at = o + (l + 1) /\ p + (at + 1) = o + (l + 2)
          BY <1>1, <1>3, <1>6, <4>2
        <5>2. b[at] = 102 /\ b[at + 1] = 136
          BY <1>2, <1>5, <5>1
        <5> DEFINE two == SubSeq(b, at, at + 1)
        <5>3. two \in Seq(Byte) /\ Len(two) = 2 /\ two[1] = 102 /\ two[2] = 136
          <6>1. two \in Seq(Byte)
            BY <1>3, <5>1, SMTT(20) DEF m
          <6> QED
            BY <1>7, <5>1, <5>2, <6>1
        <5> HIDE DEF two
        <5>4. two = <<102, 136>>
          BY <5>3
        <5> QED
          BY <5>4 DEF Stops, two, DATA_BEGIN
      <4> QED
        BY <4>1, <4>2
    <3>2. at \in i..m + 1
      BY <1>3, <1>6, <2>1
    <3> QED
      BY <1>4, <3>1, <3>2
  <2>2. CASE ~(at <= m + 1)
    BY <1>3, <1>4, <1>6, <2>2
  <2> QED
    BY <2>1, <2>2
<1>9. ASSUME j # at, ~(Readable(b, j) < BASE_LENGTH) PROVE FALSE
  <2>1. SubSeq(b, j, j + 1) = DATA_BEGIN
    BY <1>4, <1>9 DEF Stops
  <2>2. ~(m - j + 1 < 7)
    BY <1>3, <1>9 DEF Readable, m
  <2> DEFINE x == p + j - o
  <2>3. /\ j \in 1..m - 1 /\ j \in 1..m /\ j + 1 \in 1..m /\ x \in 1..l /\ x \in 1..l + 7 + n
        /\ x + 1 \in 1..l + 7 + n /\ p + j = o + x /\ p + (j + 1) = o + (x + 1)
    BY <1>1, <1>3, <1>4, <1>6, <1>8, <1>9, <2>2
  <2> HIDE DEF x
  <2>4. b[j] = Unit(f)[x] /\ b[j + 1] = Unit(f)[x + 1]
    BY <1>5, <2>3
  <2>5. b[j] = 102 /\ b[j + 1] = 136
    <3>1. DATA_BEGIN[1] = 102 /\ DATA_BEGIN[2] = 136
      BY DEF DATA_BEGIN
    <3> QED
      BY <1>7, <2>1, <2>3, <3>1, ZenonT(30)
  <2>6. Unit(f)[x] = 102 /\ Unit(f)[x + 1] = 136 /\ x \in 1..l
    BY <2>3, <2>4, <2>5
  <2> QED
    BY <1>2, <2>6, Zenon
<1> QED
  BY <1>4, <1>8, <1>9 DEF j, m

(* At the frame: it is complete when all its bytes are there, and then it is *)
(* found as it was sent.                                                     *)
LEMMA FrameAt ==
  ASSUME WireAssumption, NEW fs \in Seq(UpFrames), NEW off, NEW b, NEW p, Piece(b, p, off, fs),
         NEW k \in 0..Len(fs) - 1, NEW at \in 1..Len(b) + 1,
         p + at = off[k] + Len(fs[k + 1].noise) + 1
  PROVE  /\ Complete(b, at) <=> off[k + 1] <= p + Len(b)
         /\ off[k + 1] <= p + Len(b) =>
              /\ Found(b, at) = [type |-> fs[k + 1].type, payload |-> fs[k + 1].payload]
              /\ p + Behind(b, at) = off[k + 1] + 1
<1> DEFINE f == fs[k + 1]  l == Len(f.noise)  n == Len(f.payload)  o == off[k]  z == off[k + 1]  m == Len(b)
           u == Unit(f)
<1>1. /\ o \in Nat /\ l \in Nat /\ n \in Nat /\ f \in UpFrames /\ Len(u) = l + 7 + n /\ z = o + l + 7 + n
  <2>1. Places(off, fs)
    BY DEF Piece
  <2> QED
    BY <2>1, FrameEnds, ZenonT(30)
<1>2. /\ u[l + 3] = f.type /\ f.type \in Types /\ f.payload \in Seq(Byte)
      /\ u[l + 5] * (256 * 256) + u[l + 6] * 256 + u[l + 7] = n
      /\ \A x \in 1..n : u[l + 7 + x] = f.payload[x]
  <2>1. IsUnit(u, f, l, n)
    BY <1>1, UnitIs
  <2> HIDE DEF u, f, l, n
  <2> QED
    BY <2>1, Zenon DEF IsUnit
<1>3. b \in Seq(Byte) /\ p \in Nat /\ m \in Nat /\ BASE_LENGTH = 7 /\ at \in 1..m + 1
  BY DEF Piece, BASE_LENGTH
<1>4. ASSUME NEW x \in 1..l + 7 + n, NEW y \in 1..m, p + y = o + x PROVE b[y] = u[x]
  <2>1. x \in 1..Len(Unit(fs[k + 1]))
    BY <1>1
  <2> QED
    BY <1>4, <2>1, PieceAt
<1>5. p + at = o + l + 1
  OBVIOUS
<1>6. n = Len(f.payload)
  OBVIOUS
<1> HIDE DEF f, l, n, o, z, m, u
<1>7. Readable(b, at) = m - at + 1
  BY DEF Readable, m
<1>8. CASE Readable(b, at) < 7
  <2>1. ~Complete(b, at)
    BY <1>3, <1>7, <1>8 DEF Complete
  <2>2. ~(z <= p + m)
    BY <1>1, <1>3, <1>5, <1>7, <1>8
  <2> QED
    BY <2>1, <2>2 DEF z, m
<1>9. CASE ~(Readable(b, at) < 7)
  <2>1. ASSUME NEW x \in 2..6 PROVE b[at + x] = u[l + 1 + x]
    <3>1. at + x \in 1..m /\ l + 1 + x \in 1..l + 7 + n /\ p + (at + x) = o + (l + 1 + x)
      BY <1>1, <1>3, <1>5, <1>7, <1>9
    <3> QED
      BY <1>4, <3>1
  <2>2. b[at + 2] = f.type /\ Length(b, at) = n
    <3>1. /\ b[at + 2] = u[l + 1 + 2] /\ b[at + 4] = u[l + 1 + 4]
          /\ b[at + 5] = u[l + 1 + 5] /\ b[at + 6] = u[l + 1 + 6]
      BY <2>1
    <3>2. l + 1 + 2 = l + 3 /\ l + 1 + 4 = l + 5 /\ l + 1 + 5 = l + 6 /\ l + 1 + 6 = l + 7
      BY <1>1
    <3> QED
      BY <1>2, <3>1, <3>2 DEF Length
  <2>3. Complete(b, at) <=> z <= p + m
    <3>1. Complete(b, at) <=> Readable(b, at) - 7 >= n
      BY <1>2, <1>3, <1>7, <1>9, <2>2 DEF Complete
    <3>2. Readable(b, at) - 7 >= n <=> z <= p + m
      BY <1>1, <1>3, <1>5, <1>7
    <3> QED
      BY <3>1, <3>2
  <2>4. ASSUME z <= p + m
        PROVE  Found(b, at) = [type |-> f.type, payload |-> f.payload] /\ p + Behind(b, at) = z + 1
    <3>1. Behind(b, at) = at + 7 + n
      BY <1>3, <2>2 DEF Behind
    <3> DEFINE x == at + 6  y == at + 6 + n
    <3>2. /\ x \in Nat /\ y \in Nat /\ x <= y /\ y <= m /\ y - x = n /\ x + 1 = at + 7 /\ (at + 7 + n) - 1 = y
          /\ p + (at + 7 + n) = z + 1
      BY <1>1, <1>3, <1>5, <2>4
    <3> HIDE DEF x, y
    <3> DEFINE s == SubSeq(b, x + 1, y)
    <3>3. s \in Seq(Byte) /\ Len(s) = y - x /\ \A c \in 1..y - x : s[c] = b[x + c]
      <4>1. b \in Seq(Byte) /\ x \in Nat /\ y \in Nat /\ x <= y /\ y <= Len(b)
        BY <1>3, <3>2 DEF m
      <4> QED
        BY <4>1, PartAt
    <3> HIDE DEF s
    <3>4. ASSUME NEW c \in 1..n PROVE s[c] = f.payload[c]
      <4>1. /\ x + c \in 1..m /\ l + 7 + c \in 1..l + 7 + n /\ p + (x + c) = o + (l + 7 + c)
        BY <1>1, <1>3, <1>5, <2>4, <3>2
      <4>2. b[x + c] = u[l + 7 + c]
        BY <1>4, <4>1
      <4> QED
        BY <1>2, <3>2, <3>3, <4>2
    <3>5. s = f.payload
      <4>1. Len(s) = n
        BY <3>2, <3>3
      <4> QED
        BY <1>2, <1>6, <3>3, <3>4, <4>1, SeqEqual
    <3>6. SubSeq(b, at + BASE_LENGTH, Behind(b, at) - 1) = s
      BY <1>3, <3>1, <3>2 DEF s
    <3> QED
      BY <2>2, <3>1, <3>2, <3>5, <3>6, Zenon DEF Found
  <2> QED
    BY <2>3, <2>4 DEF z, m, f
<1> QED
  BY <1>8, <1>9

(* What the frames carry.                                                    *)
LEMMA DataIs ==
  ASSUME WireAssumption, NEW fs \in Seq(UpFrames)
  PROVE  /\ Data(fs) \in Seq(FrameData) /\ Len(Data(fs)) = Len(fs) /\ Len(fs) \in Nat
         /\ \A i \in 1..Len(fs) : Data(fs)[i] = [type |-> fs[i].type, payload |-> fs[i].payload]
<1> DEFINE n == Len(fs)  d(i) == [type |-> fs[i].type, payload |-> fs[i].payload]
<1>1. n \in Nat /\ \A i \in 1..n : fs[i] \in UpFrames
  OBVIOUS
<1>2. ASSUME NEW i \in 1..n PROVE d(i) \in FrameData
  <2>1. IsUnit(Unit(fs[i]), fs[i], Len(fs[i].noise), Len(fs[i].payload))
    BY <1>1, UnitIs
  <2>2. fs[i].type \in Types /\ fs[i].payload \in Seq(Byte)
    BY <2>1, Zenon DEF IsUnit
  <2> QED
    BY <2>2 DEF FrameData
<1>3. Data(fs) = [i \in 1..n |-> d(i)]
  BY DEF Data
<1> HIDE DEF d, n
<1>4. [i \in 1..n |-> d(i)] \in Seq(FrameData) /\ Len([i \in 1..n |-> d(i)]) = n
  BY <1>1, <1>2
<1>5. \A i \in 1..n : Data(fs)[i] = d(i)
  BY <1>3
<1> QED
  BY <1>1, <1>3, <1>4, <1>5 DEF d, n

(* All frames of which q bytes hold all are behind, and no other one.        *)
Ahead(off, fs, k, q) == off[k] <= q /\ (k < Len(fs) => q < off[k + 1])

(* The decoding d, from a place behind k frames, gives what follows them up  *)
(* to the last complete one, and goes back to the beginning of the next.     *)
Reaches(d, b, p, off, fs, k, m) ==
  /\ Ahead(off, fs, m, p + Len(b))
  /\ d.out = SubSeq(Data(fs), k + 1, m)
  /\ Between(off, fs, m, p + d.from - 1)

(* ... behind the last frame.                                                *)
LEMMA DecodesLast ==
  ASSUME WireAssumption, NEW fs \in Seq(UpFrames), NEW off, NEW b, NEW p, Piece(b, p, off, fs),
         NEW D, Decodes(D, b), NEW i \in 1..Len(b) + 1, Between(off, fs, Len(fs), p + i - 1)
  PROVE  Reaches(D[i], b, p, off, fs, Len(fs), Len(fs))
<1> DEFINE N == Len(fs)  m == Len(b)  s == Len(UpStream(fs))
<1>1. b \in Seq(Byte) /\ p \in Nat /\ m \in Nat /\ p + m <= s /\ Places(off, fs) /\ i \in 1..m + 1
  BY DEF Piece
<1>2. off[N] = s /\ s \in Nat /\ N \in Nat
  <2>1. UpStream(fs) \in Seq(Byte)
    BY UnitsAre
  <2> QED
    BY <1>1, <2>1, PlacesAre
<1>3. p + i - 1 = off[N]
  BY <1>2 DEF Between
<1> HIDE DEF s, m
<1>4. i = m + 1 /\ off[N] <= p + m
  BY <1>1, <1>2, <1>3
<1>5. Skip(b, i) = i
  <2>1. Skip(b, i) \in i..m + 1
    BY <1>1, SkipIs DEF m
  <2> QED
    BY <1>1, <1>4, <2>1
<1>6. ~Complete(b, i)
  BY <1>1, <1>4 DEF Complete, Readable, BASE_LENGTH, m
<1>7. D[i] = [from |-> i, out |-> <<>>]
  BY <1>5, <1>6, Zenon DEF Decodes
<1>8. SubSeq(Data(fs), N + 1, N) = <<>>
  BY <1>2, SubSeqEmpty
<1>9. Ahead(off, fs, N, p + m)
  BY <1>2, <1>4 DEF Ahead
<1>10. D[i].out = <<>> /\ D[i].from = i
  BY <1>7
<1> QED
  BY <1>8, <1>9, <1>10 DEF Reaches, m

(* ... behind another one.                                                   *)
Onward(D, b, p, off, fs, k) ==
  \A x \in 1..Len(b) + 1 :
    Between(off, fs, k, p + x - 1) => \E m \in k..Len(fs) : Reaches(D[x], b, p, off, fs, k, m)

(* Decoding from a whole frame on finds it, then what is found behind it.    *)
LEMMA DecodesMore ==
  ASSUME WireAssumption, NEW fs \in Seq(UpFrames), NEW off, NEW b, NEW p, Piece(b, p, off, fs),
         NEW D, Decodes(D, b), NEW k \in 0..Len(fs) - 1,
         \A x \in 1..Len(b) + 1 : D[x] \in Decoded(b), Onward(D, b, p, off, fs, k + 1)
  PROVE  Onward(D, b, p, off, fs, k)
<1> SUFFICES ASSUME NEW i \in 1..Len(b) + 1, Between(off, fs, k, p + i - 1)
             PROVE  \E m \in k..Len(fs) : Reaches(D[i], b, p, off, fs, k, m)
  BY DEF Onward
<1> DEFINE N == Len(fs)  B == Len(b)  f == fs[k + 1]  l == Len(f.noise)  n == Len(f.payload)
           o == off[k]  z == off[k + 1]  at == o + l - p + 1  j == Skip(b, i)
<1>1. Places(off, fs) /\ b \in Seq(Byte) /\ p \in Nat /\ B \in Nat
  BY DEF Piece
<1>2. /\ N \in Nat /\ k \in 0..N /\ k + 1 \in 1..N /\ o \in Nat /\ z \in Nat /\ l \in Nat /\ n \in Nat
      /\ z = o + l + 7 + n
  BY <1>1, FrameEnds, ZenonT(30)
<1>3. k \in Nat /\ k < N
  BY <1>2
<1>4. o <= p + i - 1 /\ p + i - 1 <= o + l
  BY <1>3 DEF Between
<1>5. at \in Int /\ p + at = o + l + 1 /\ i <= at /\ i \in 1..B + 1
  <2> HIDE DEF o, l, B
  <2> QED
    BY <1>1, <1>2, <1>4 DEF B
<1>6. j \in i..B + 1 /\ j <= at /\ (j # at => Readable(b, j) < BASE_LENGTH)
  <2> HIDE DEF at
  <2> QED
    BY <1>1, <1>4, <1>5, SkipsTo
<1>7. Readable(b, j) = B - j + 1 /\ BASE_LENGTH = 7
  BY DEF Readable, BASE_LENGTH
<1> HIDE DEF o, l, n, z, at, j, B
<1>8. ASSUME ~Complete(b, j), p + B < z PROVE Reaches(D[i], b, p, off, fs, k, k)
  <2>1. D[i] = [from |-> j, out |-> <<>>]
    BY <1>5, <1>8, Zenon DEF Decodes, j, B
  <2>2. D[i].out = <<>> /\ D[i].from = j
    BY <2>1
  <2>3. SubSeq(Data(fs), k + 1, k) = <<>>
    BY <1>3, SubSeqEmpty
  <2>4. Ahead(off, fs, k, p + B)
    <3>1. o <= p + B
      BY <1>1, <1>2, <1>4, <1>5
    <3> QED
      BY <1>8, <3>1 DEF Ahead, o, z
  <2>5. Between(off, fs, k, p + j - 1)
    <3>1. o <= p + j - 1 /\ p + j - 1 <= o + l
      BY <1>1, <1>2, <1>4, <1>5, <1>6
    <3> QED
      BY <1>3, <3>1 DEF Between, o, l
  <2> QED
    BY <2>2, <2>3, <2>4, <2>5 DEF Reaches, B
<1>9. CASE j # at
  <2>1. B - j + 1 < 7
    BY <1>6, <1>7, <1>9
  <2>2. ~Complete(b, j)
    BY <1>1, <1>5, <1>6, <1>7, <2>1 DEF Complete
  <2>3. p + B < z
    BY <1>1, <1>2, <1>5, <1>6, <2>1
  <2>4. k \in k..N
    BY <1>2, <1>3
  <2> QED
    BY <1>8, <2>2, <2>3, <2>4
<1>10. CASE j = at
  <2>1. /\ at \in 1..B + 1 /\ p + at = off[k] + Len(fs[k + 1].noise) + 1
    BY <1>5, <1>6, <1>10 DEF o, l
  <2>2. /\ Complete(b, at) <=> z <= p + B
        /\ z <= p + B => Found(b, at) = [type |-> f.type, payload |-> f.payload] /\ p + Behind(b, at) = z + 1
    BY <2>1, FrameAt DEF B, z
  <2>3. CASE ~(z <= p + B)
    <3>1. ~Complete(b, j) /\ p + B < z /\ k \in k..N
      BY <1>1, <1>2, <1>3, <1>10, <2>2, <2>3
    <3> QED
      BY <1>8, <3>1
  <2>4. CASE z <= p + B
    <3> DEFINE x == Behind(b, at)
    <3>1. Complete(b, j) /\ Found(b, j) = Data(fs)[k + 1] /\ p + x = z + 1 /\ x = Behind(b, j)
      <4>1. Data(fs)[k + 1] = [type |-> f.type, payload |-> f.payload]
        BY <1>2, DataIs
      <4> QED
        BY <1>10, <2>2, <2>4, <4>1
    <3>2. x \in 1..B + 1
      <4>1. x \in at + BASE_LENGTH..B + 1
        BY <1>1, <2>1, <2>2, <2>4, FoundIs DEF B
      <4> HIDE DEF x
      <4> QED
        BY <1>1, <1>5, <1>6, <1>7, <1>10, <4>1
    <3>3. D[i] = [D[x] EXCEPT !.out = <<Data(fs)[k + 1]>> \o @]
      BY <1>5, <3>1, Zenon DEF Decodes, j, B
    <3> HIDE DEF x
    <3>4. Between(off, fs, k + 1, p + x - 1)
      <4>1. p + x - 1 = z
        <5>1. p \in Nat /\ z \in Nat /\ p + x = z + 1
          BY <1>1, <1>2, <3>1
        <5>2. x \in Nat
          BY <1>1, <3>2
        <5> QED
          BY <5>1, <5>2
      <4>2. k + 1 < N => z <= z + Len(fs[(k + 1) + 1].noise)
        <5>1. ASSUME k + 1 < N PROVE Len(fs[(k + 1) + 1].noise) \in Nat
          <6>1. (k + 1) + 1 \in 1..N
            BY <1>2, <1>3, <5>1
          <6>2. fs[(k + 1) + 1] \in UpFrames
            BY <6>1
          <6>3. IsUnit(Unit(fs[(k + 1) + 1]), fs[(k + 1) + 1],
                       Len(fs[(k + 1) + 1].noise), Len(fs[(k + 1) + 1].payload))
            BY <6>2, UnitIs
          <6> QED
            BY <6>3, Zenon DEF IsUnit
        <5> DEFINE w == Len(fs[(k + 1) + 1].noise)
        <5>2. k + 1 < N => w \in Nat
          BY <5>1
        <5> HIDE DEF w
        <5>3. z \in Nat
          BY <1>2
        <5>4. k + 1 < N => z <= z + w
          BY <5>2, <5>3
        <5> QED
          BY <5>4 DEF w
      <4>3. z <= z
        BY <1>2
      <4>4. z <= p + x - 1 /\ IF k + 1 < N THEN p + x - 1 <= z + Len(fs[(k + 1) + 1].noise) ELSE p + x - 1 = z
        BY <4>1, <4>2, <4>3, Zenon
      <4> QED
        BY <4>4, Zenon DEF Between, z
    <3>5. PICK m \in k + 1..N : Reaches(D[x], b, p, off, fs, k + 1, m)
      BY <3>2, <3>4 DEF Onward, B
    <3>6. D[x] \in Decoded(b)
      BY <3>2 DEF B
    <3>7. D[i].out = <<Data(fs)[k + 1]>> \o D[x].out /\ D[i].from = D[x].from
      BY <3>3, <3>6 DEF Decoded
    <3>8. <<Data(fs)[k + 1]>> \o SubSeq(Data(fs), (k + 1) + 1, m) = SubSeq(Data(fs), k + 1, m)
      <4>1. Data(fs) \in Seq(FrameData) /\ k + 1 \in 1..Len(Data(fs)) /\ m \in k + 1..Len(Data(fs))
        BY <1>2, DataIs
      <4> QED
        BY <4>1, SubSeqRecursiveFirst
    <3>9. Reaches(D[i], b, p, off, fs, k, m)
      BY <3>5, <3>7, <3>8, Zenon DEF Reaches
    <3>10. m \in k..N
      BY <1>2, <1>3
    <3> QED
      BY <3>9, <3>10
  <2> QED
    BY <2>3, <2>4
<1> QED
  BY <1>9, <1>10

(* ... behind any number of them, by induction from the last one down.       *)
LEMMA DecodesTo ==
  ASSUME WireAssumption, NEW fs \in Seq(UpFrames), NEW off, NEW b, NEW p, Piece(b, p, off, fs),
         NEW D, Decodes(D, b), NEW k \in 0..Len(fs),
         \A x \in 1..Len(b) + 1 : D[x] \in Decoded(b)
  PROVE  Onward(D, b, p, off, fs, k)
<1> DEFINE N == Len(fs)  S == {d \in Nat : d <= N => Onward(D, b, p, off, fs, N - d)}
<1>1. N \in Nat
  OBVIOUS
<1>2. 0 \in S
  <2>1. Onward(D, b, p, off, fs, N)
    <3>1. N \in N..N
      BY <1>1
    <3>2. \A x \in 1..Len(b) + 1 : Between(off, fs, N, p + x - 1) => Reaches(D[x], b, p, off, fs, N, N)
      BY DecodesLast
    <3> QED
      BY <3>1, <3>2, Zenon DEF Onward
  <2>2. N - 0 = N
    BY <1>1
  <2> QED
    BY <2>1, <2>2
<1>3. ASSUME NEW d \in Nat, d \in S PROVE d + 1 \in S
  <2> SUFFICES ASSUME d + 1 <= N PROVE Onward(D, b, p, off, fs, N - (d + 1))
    OBVIOUS
  <2> DEFINE c == N - (d + 1)
  <2>1. c \in 0..N - 1 /\ c + 1 = N - d
    BY <1>1
  <2>2. Onward(D, b, p, off, fs, N - d)
    BY <1>1, <1>3
  <2> HIDE DEF c
  <2>3. Onward(D, b, p, off, fs, c)
    BY <2>1, <2>2, DecodesMore
  <2> QED
    BY <2>3 DEF c
<1> HIDE DEF S
<1>4. N - k \in S
  <2>1. N - k \in Nat
    BY <1>1
  <2> QED
    BY <1>2, <1>3, <2>1, NatInduct
<1>5. N - (N - k) = k /\ N - k <= N
  BY <1>1
<1> QED
  BY <1>4, <1>5 DEF S

-----------------------------------------------------------------------------
(* The decoder forwarded n frames and keeps the bytes from p to q, of which  *)
(* no frame is complete; they begin before the next one.                     *)
Holds(off, n, p, q) ==
  /\ Places(off, upSent) /\ n \in 0..Len(upSent) /\ p \in Nat /\ q \in Nat /\ p <= q
  /\ q <= Len(UpStream(upSent))
  /\ upWire = SubSeq(UpStream(upSent), q + 1, Len(UpStream(upSent)))
  /\ upBuf = SubSeq(UpStream(upSent), p + 1, q)
  /\ forwarded = SubSeq(Data(upSent), 1, n)
  /\ Between(off, upSent, n, p) /\ Ahead(off, upSent, n, q)

UpInvariant == upSent \in Seq(UpFrames) /\ \E off, n, p, q : Holds(off, n, p, q)

(* At the start.                                                             *)
LEMMA UpStart == ASSUME WireAssumption, WireInit PROVE UpInvariant
<1>1. PICK k \in 0..MaxUp : upSent \in [1..k -> UpFrames]
  BY DEF WireInit
<1>2. upSent \in Seq(UpFrames)
  <2>1. k \in Nat
    BY <1>1 DEF WireAssumption
  <2> QED
    BY <1>1, <2>1
<1> DEFINE S == UpStream(upSent)
<1>3. PICK off : Places(off, upSent)
  BY <1>2, UnitsAre
<1>4. S \in Seq(Byte) /\ Len(S) \in Nat
  <2>1. S \in Seq(Byte)
    BY <1>2, UnitsAre
  <2> HIDE DEF S
  <2> QED
    BY <2>1
<1>5. /\ off[0] = 0 /\ off[Len(upSent)] = Len(S) /\ Len(upSent) \in Nat
      /\ \A i \in 1..Len(upSent) : off[i] = off[i - 1] + Len(Unit(upSent[i]))
  BY <1>2, <1>3, PlacesAre
<1>6. upWire = S /\ upBuf = <<>> /\ forwarded = <<>>
  BY DEF WireInit
<1>7. SubSeq(S, 0 + 1, Len(S)) = S /\ SubSeq(S, 0 + 1, 0) = <<>> /\ SubSeq(Data(upSent), 1, 0) = <<>>
  <2>1. SubSeq(S, 1, Len(S)) = S
    BY <1>4, SubSeqFull
  <2>2. SubSeq(S, 0 + 1, 0) = <<>> /\ SubSeq(Data(upSent), 1, 0) = <<>>
    BY SubSeqEmpty
  <2>3. 0 + 1 = 1
    OBVIOUS
  <2> QED
    BY <2>1, <2>2, <2>3
<1>8. ASSUME 0 < Len(upSent)
      PROVE  0 <= off[0] + Len(upSent[0 + 1].noise) /\ 0 < off[0 + 1]
  <2>1. 0 \in 0..Len(upSent) - 1
    BY <1>5, <1>8
  <2>2. /\ Len(upSent[0 + 1].noise) \in Nat /\ Len(upSent[0 + 1].payload) \in Nat /\ off[0] \in Nat
        /\ off[0 + 1] = off[0] + Len(upSent[0 + 1].noise) + 7 + Len(upSent[0 + 1].payload)
    BY <1>2, <1>3, <2>1, FrameEnds, Zenon
  <2> DEFINE l == Len(upSent[0 + 1].noise)  n == Len(upSent[0 + 1].payload)  o == off[0]  z == off[0 + 1]
  <2>3. l \in Nat /\ n \in Nat /\ o \in Nat /\ z = o + l + 7 + n
    BY <2>2
  <2> HIDE DEF l, n, o, z
  <2>4. 0 <= o + l /\ 0 < z
    BY <2>3
  <2> QED
    BY <2>4 DEF l, o, z
<1>9. Between(off, upSent, 0, 0)
  <2>1. CASE 0 < Len(upSent)
    BY <1>5, <1>8, <2>1 DEF Between
  <2>2. CASE ~(0 < Len(upSent))
    BY <1>5, <2>2 DEF Between
  <2> QED
    BY <2>1, <2>2
<1>10. Ahead(off, upSent, 0, 0)
  BY <1>5, <1>8 DEF Ahead
<1>11. 0 \in 0..Len(upSent) /\ 0 \in Nat /\ 0 <= 0 /\ 0 <= Len(S)
  BY <1>4, <1>5
<1>12. Holds(off, 0, 0, 0)
  BY <1>3, <1>6, <1>7, <1>9, <1>10, <1>11, Zenon DEF Holds
<1> QED
  BY <1>2, <1>12, Zenon DEF UpInvariant

(* What arrives joins what is kept.                                          *)
Joins(s, l, p, q, r) ==
  /\ r \in Nat /\ q + r <= l /\ l \in Nat /\ s \in Seq(Byte)
  /\ upBuf \o SubSeq(upWire, 1, r) = SubSeq(s, p + 1, q + r)
  /\ SubSeq(upWire, r + 1, Len(upWire)) = SubSeq(s, (q + r) + 1, l)

(* What the buffer and the bytes received join to is a part of the stream.   *)
LEMMA Joined ==
  ASSUME WireAssumption, upSent \in Seq(UpFrames), NEW off, NEW n, NEW p, NEW q, Holds(off, n, p, q),
         NEW r \in 1..Len(upWire)
  PROVE  Joins(UpStream(upSent), Len(UpStream(upSent)), p, q, r)
<1> DEFINE s == UpStream(upSent)  l == Len(s)
<1>1. s \in Seq(Byte)
  BY UnitsAre
<1>2. /\ p \in Nat /\ q \in Nat /\ p <= q /\ q <= l
      /\ upWire = SubSeq(s, q + 1, l) /\ upBuf = SubSeq(s, p + 1, q)
  BY DEF Holds
<1> HIDE DEF s
<1>3. l \in Nat /\ l <= Len(s)
  BY <1>1
<1>4. Len(upWire) = l - q
  <2> HIDE DEF l
  <2> QED
    BY <1>1, <1>2, <1>3, PartAt
<1> HIDE DEF l
<1>5. r \in Nat /\ r >= 1 /\ r <= l - q /\ q + r <= l /\ q + r \in Nat
  BY <1>2, <1>3, <1>4
<1>6. SubSeq(upWire, 1, r) = SubSeq(s, q + 1, q + r)
  <2>1. SubSeq(SubSeq(s, q + 1, l), 0 + 1, r) = SubSeq(s, (q + 0) + 1, q + r)
    <3>1. 0 \in Nat /\ 0 <= r
      BY <1>5
    <3> QED
      BY <1>1, <1>2, <1>3, <1>5, <3>1, PartOfPart
  <2>2. 0 + 1 = 1 /\ q + 0 = q
    BY <1>2
  <2> QED
    BY <1>2, <2>1, <2>2
<1>7. SubSeq(upWire, r + 1, Len(upWire)) = SubSeq(s, (q + r) + 1, l)
  <2>1. SubSeq(SubSeq(s, q + 1, l), r + 1, l - q) = SubSeq(s, (q + r) + 1, q + (l - q))
    <3>1. l - q \in Nat /\ l - q <= l - q
      BY <1>2, <1>3
    <3> QED
      BY <1>1, <1>2, <1>3, <1>5, <3>1, PartOfPart
  <2>2. q + (l - q) = l
    BY <1>2, <1>3
  <2> QED
    BY <1>2, <1>4, <2>1, <2>2
<1>8. upBuf \o SubSeq(upWire, 1, r) = SubSeq(s, p + 1, q + r)
  <2>1. q <= q + r /\ q + r <= Len(s)
    BY <1>2, <1>3, <1>5
  <2>2. SubSeq(s, p + 1, q) \o SubSeq(s, q + 1, q + r) = SubSeq(s, p + 1, q + r)
    BY <1>1, <1>2, <1>5, <2>1, PartsJoin, SMTT(20)
  <2> QED
    BY <1>2, <1>6, <2>2
<1> QED
  BY <1>1, <1>3, <1>5, <1>7, <1>8 DEF Joins, s, l

(* The decoder decodes what it has.                                          *)
LEMMA UpDecode == ASSUME WireAssumption, UpInvariant, Decode PROVE UpInvariant'
<1>1. upSent \in Seq(UpFrames) /\ upSent' = upSent
  BY Zenon DEF UpInvariant, Decode
<1>2. PICK off, n, p, q : Holds(off, n, p, q)
  BY Zenon DEF UpInvariant
<1>3. PICK r \in 1..Len(upWire) :
        LET b == upBuf \o SubSeq(upWire, 1, r)
            d == DecodeAll(b)
        IN /\ upWire' = SubSeq(upWire, r + 1, Len(upWire))
           /\ upBuf' = SubSeq(b, d.from, Len(b))
           /\ forwarded' = forwarded \o d.out
  BY Zenon DEF Decode
<1> DEFINE s == UpStream(upSent)  l == Len(s)  b == SubSeq(s, p + 1, q + r)  N == Len(upSent)
<1>4. /\ r \in Nat /\ q + r <= l /\ l \in Nat /\ s \in Seq(Byte)
      /\ upBuf \o SubSeq(upWire, 1, r) = b
      /\ upWire' = SubSeq(s, (q + r) + 1, l)
  <2>1. upWire' = SubSeq(upWire, r + 1, Len(upWire))
    BY <1>3, Zenon
  <2>2. /\ r \in Nat /\ q + r <= l /\ l \in Nat /\ s \in Seq(Byte)
        /\ upBuf \o SubSeq(upWire, 1, r) = b
        /\ SubSeq(upWire, r + 1, Len(upWire)) = SubSeq(s, (q + r) + 1, l)
    <3>1. Joins(s, l, p, q, r)
      BY <1>1, <1>2, Joined
    <3> QED
      BY <3>1, Zenon DEF Joins
  <2> QED
    BY <2>1, <2>2
<1>5. upBuf' = SubSeq(b, DecodeAll(b).from, Len(b)) /\ forwarded' = forwarded \o DecodeAll(b).out
  BY <1>3, <1>4, Zenon
<1>6. /\ Places(off, upSent) /\ n \in 0..N /\ p \in Nat /\ q \in Nat /\ p <= q
      /\ forwarded = SubSeq(Data(upSent), 1, n) /\ Between(off, upSent, n, p)
  BY <1>2, Zenon DEF Holds
<1>7. N \in Nat /\ n \in Nat
  BY <1>1, <1>6
<1> HIDE DEF s, l, b, N
<1>8. /\ q + r \in Nat /\ p <= q + r /\ b \in Seq(Byte) /\ Len(b) = (q + r) - p
      /\ \A y \in 1..(q + r) - p : b[y] = s[p + y]
  <2>1. q + r \in Nat /\ p <= q + r /\ q + r <= Len(s)
    BY <1>4, <1>6 DEF l
  <2> QED
    BY <1>4, <1>6, <2>1, PartAt DEF b
<1>9. Piece(b, p, off, upSent)
  <2>1. p + Len(b) = q + r
    BY <1>6, <1>8
  <2> QED
    BY <1>4, <1>6, <1>8, <2>1 DEF Piece, s, l
<1>10. PICK D \in [1..Len(b) + 1 -> Decoded(b)] : Decodes(D, b) /\ DecodeAll(b) = D[1]
  BY <1>8, DecodeIs
<1>11. 1 \in 1..Len(b) + 1 /\ p + 1 - 1 = p
  BY <1>6, <1>8
<1>12. Onward(D, b, p, off, upSent, n)
  <2>1. \A x \in 1..Len(b) + 1 : D[x] \in Decoded(b)
    BY <1>10
  <2>2. n \in 0..Len(upSent)
    BY <1>6 DEF N
  <2> QED
    BY <1>1, <1>9, <1>10, <2>1, <2>2, DecodesTo
<1>13. PICK m \in n..N : Reaches(D[1], b, p, off, upSent, n, m)
  BY <1>6, <1>11, <1>12 DEF Onward, N
<1> DEFINE d == D[1]
<1>14. d.from \in 1..Len(b) + 1 /\ d = DecodeAll(b)
  <2>1. d \in Decoded(b)
    BY <1>10, <1>11
  <2> HIDE DEF d
  <2>2. d.from \in 1..Len(b) + 1
    BY <2>1 DEF Decoded
  <2> QED
    BY <1>10, <2>2 DEF d
<1>15. /\ Ahead(off, upSent, m, p + Len(b)) /\ d.out = SubSeq(Data(upSent), n + 1, m)
       /\ Between(off, upSent, m, p + d.from - 1)
  BY <1>13 DEF Reaches
<1> HIDE DEF d
<1> DEFINE c == d.from  z == p + c - 1
<1>16. /\ z \in Nat /\ z <= q + r /\ p + Len(b) = q + r /\ c - 1 \in Nat /\ c - 1 <= Len(b)
       /\ (c - 1) + 1 = c /\ p + (c - 1) = z /\ Len(b) <= Len(b) /\ Len(b) \in Nat
  <2>1. c \in 1..Len(b) + 1 /\ Len(b) \in Nat
    BY <1>8, <1>14
  <2> HIDE DEF c
  <2>2. p + Len(b) = q + r
    BY <1>6, <1>8
  <2> QED
    BY <1>6, <1>8, <2>1, <2>2
<1> HIDE DEF c, z
<1>17. upBuf' = SubSeq(s, z + 1, q + r)
  <2> DEFINE e == c - 1  a == Len(b)  t == q + r
  <2>1. e \in Nat /\ a \in Nat /\ e <= a /\ a <= t - p /\ p + e = z /\ p + a = t /\ e + 1 = c
    BY <1>8, <1>16
  <2>2. t \in Nat /\ p <= t /\ t <= Len(s)
    BY <1>4, <1>8 DEF l
  <2> HIDE DEF e, a, t
  <2>3. SubSeq(SubSeq(s, p + 1, t), e + 1, a) = SubSeq(s, (p + e) + 1, p + a)
    BY <1>4, <1>6, <2>1, <2>2, PartOfPart
  <2>4. upBuf' = SubSeq(b, c, a)
    BY <1>5, <1>14 DEF c, a
  <2> QED
    BY <2>1, <2>3, <2>4 DEF b, t
<1>18. forwarded' = SubSeq(Data(upSent), 1, m)
  <2>1. /\ Data(upSent) \in Seq(FrameData) /\ 0 \in Nat /\ 0 <= n /\ n <= m /\ m \in Nat
        /\ m <= Len(Data(upSent)) /\ 0 + 1 = 1
    <3>1. Data(upSent) \in Seq(FrameData) /\ Len(Data(upSent)) = N
      BY <1>1, DataIs DEF N
    <3> QED
      BY <1>7, <3>1
  <2>2. SubSeq(Data(upSent), 0 + 1, n) \o SubSeq(Data(upSent), n + 1, m) = SubSeq(Data(upSent), 0 + 1, m)
    BY <1>7, <2>1, PartsJoin
  <2> QED
    BY <1>5, <1>6, <1>14, <1>15, <2>1, <2>2
<1>19. m \in 0..N
  BY <1>7
<1>20. Between(off, upSent, m, z) /\ Ahead(off, upSent, m, q + r)
  BY <1>15, <1>16 DEF z, c
<1>21. Holds(off, m, z, q + r)'
  BY <1>1, <1>4, <1>6, <1>8, <1>16, <1>17, <1>18, <1>19, <1>20, Zenon DEF Holds, s, l, N
<1> QED
  BY <1>1, <1>21, Zenon DEF UpInvariant

(* Every step keeps what the decoder holds.                                  *)
LEMMA UpStep == ASSUME WireAssumption, UpInvariant, [WireNext]_wireVars PROVE UpInvariant'
<1>1. ASSUME UNCHANGED up PROVE UpInvariant'
  <2>1. UNCHANGED <<upSent, upWire, upBuf, forwarded>>
    BY <1>1, Zenon DEF up
  <2> QED
    BY <2>1 DEF UpInvariant, Holds
<1>2. CASE Decode
  BY <1>2, UpDecode
<1>3. CASE ReaderThread
  BY <1>1, <1>3, Zenon DEF ReaderThread, NewNext, NewNextThrows, ReadFrom
<1>4. CASE Closed
  BY <1>1, <1>4, Zenon DEF Closed
<1>5. CASE UNCHANGED wireVars
  BY <1>1, <1>5 DEF wireVars
<1> QED
  BY <1>2, <1>3, <1>4, <1>5 DEF WireNext, WireTerminated

(* What they say of the properties.                                          *)
LEMMA UpConclusion ==
  ASSUME WireAssumption, UpInvariant PROVE ForwardsPrefix /\ ForwardsAtOnce
<1> DEFINE N == Len(upSent)  s == UpStream(upSent)
<1>1. upSent \in Seq(UpFrames)
  BY DEF UpInvariant
<1>2. PICK off, n, p, q : Holds(off, n, p, q)
  BY Zenon DEF UpInvariant
<1>3. /\ Places(off, upSent) /\ n \in 0..N /\ q \in Nat /\ q <= Len(s)
      /\ upWire = SubSeq(s, q + 1, Len(s)) /\ forwarded = SubSeq(Data(upSent), 1, n)
      /\ Ahead(off, upSent, n, q)
  BY <1>2, Zenon DEF Holds
<1>4. N \in Nat /\ n \in Nat /\ n <= N
  BY <1>1, <1>3
<1>5. /\ Data(upSent) \in Seq(FrameData) /\ Len(Data(upSent)) = N
  BY <1>1, DataIs
<1>6. Len(forwarded) = n
  <2>1. 0 \in Nat /\ 0 <= n /\ 0 + 1 = 1 /\ n - 0 = n /\ n <= Len(Data(upSent))
    BY <1>4, <1>5
  <2>2. Len(SubSeq(Data(upSent), 0 + 1, n)) = n - 0
    BY <1>4, <1>5, <2>1, PartAt
  <2> QED
    BY <1>3, <2>1, <2>2
<1>7. ForwardsPrefix
  <2>1. Len(forwarded) <= Len(Data(upSent))
    BY <1>4, <1>5, <1>6
  <2>2. forwarded = SubSeq(Data(upSent), 1, Len(forwarded))
    BY <1>3, <1>6
  <2> QED
    BY <2>1, <2>2 DEF ForwardsPrefix, IsPrefix
<1>8. /\ off[N] = Len(s) /\ \A i \in 0..N : off[i] \in Nat
      /\ \A i \in 0..N : \A j \in i..N : off[i] <= off[j]
  BY <1>1, <1>3, PlacesAre
<1>9. Len(upWire) = off[N] - q
  <2>1. s \in Seq(Byte)
    BY <1>1, UnitsAre
  <2> DEFINE l == Len(s)
  <2> HIDE DEF s
  <2>2. l \in Nat /\ l <= Len(s)
    BY <2>1
  <2>3. Len(SubSeq(s, q + 1, l)) = l - q
    <3>1. q <= l /\ q \in Nat
      BY <1>3
    <3> HIDE DEF l
    <3> QED
      BY <2>1, <2>2, <3>1, PartAt
  <2> QED
    BY <1>3, <1>8, <2>3
<1>10. ASSUME NEW k \in 1..N, Len(upWire) <= Len(UpStream(SubSeq(upSent, k + 1, N))) PROVE Len(forwarded) >= k
  <2>1. k \in 0..N /\ N \in 0..N
    BY <1>4
  <2>2. Len(UpStream(SubSeq(upSent, k + 1, N))) = off[N] - off[k]
    BY <1>1, <1>3, <2>1, UpStreamTail
  <2>3. off[k] <= q
    <3> DEFINE x == off[k]  y == off[N]
    <3>1. y - q <= y - x /\ x \in Nat /\ y \in Nat
      BY <1>8, <1>9, <1>10, <2>1, <2>2
    <3> HIDE DEF x, y
    <3>2. x <= q
      BY <1>3, <3>1
    <3> QED
      BY <3>2 DEF x
  <2>4. CASE n < k
    <3>1. n < N /\ n + 1 \in 0..N /\ k \in n + 1..N
      BY <1>4, <2>4
    <3>2. q < off[n + 1]
      BY <1>3, <3>1 DEF Ahead
    <3>3. off[n + 1] <= off[k] /\ off[n + 1] \in Nat /\ off[k] \in Nat
      BY <1>8, <2>1, <3>1
    <3> QED
      BY <1>3, <2>3, <3>2, <3>3
  <2> QED
    BY <1>4, <1>6, <2>4
<1> QED
  BY <1>7, <1>10 DEF ForwardsAtOnce

(* The relay forwards the frames of the phone whole, in order, none twice    *)
(* and none made of the payload of another (decode() of MessageDecoder),     *)
(* however TCP cuts the stream and whatever the payloads hold.               *)
THEOREM ForwardsPrefixHolds == ASSUME WireAssumption PROVE WireSpec => []ForwardsPrefix
<1>1. WireInit => UpInvariant
  BY UpStart
<1>2. UpInvariant /\ [WireNext]_wireVars => UpInvariant'
  BY UpStep
<1>3. UpInvariant => ForwardsPrefix
  BY UpConclusion
<1> QED
  BY <1>1, <1>2, <1>3, PTL DEF WireSpec

(* It forwards a frame with the bytes that complete it, after any noise      *)
(* without a beginning of a frame: decode() resynchronises at once.          *)
THEOREM ForwardsAtOnceHolds == ASSUME WireAssumption PROVE WireSpec => []ForwardsAtOnce
<1>1. WireInit => UpInvariant
  BY UpStart
<1>2. UpInvariant /\ [WireNext]_wireVars => UpInvariant'
  BY UpStep
<1>3. UpInvariant => ForwardsAtOnce
  BY UpConclusion
<1> QED
  BY <1>1, <1>2, <1>3, PTL DEF WireSpec

(* The controller thread of the phone dies of a frame cut in its header      *)
(* only: ControlMessageReader never finds its buffer full of an incomplete   *)
(* message, for all lengths of messages that fit in it.                      *)
THEOREM DiesOnlyOfCutHeaderHolds == ASSUME WireAssumption PROVE WireSpec => []DiesOnlyOfCutHeader
<1>1. WireInit => DownInvariant
  BY DownStart
<1>2. DownInvariant /\ [WireNext]_wireVars => DownInvariant'
  BY DownStep
<1>3. DownInvariant => DiesOnlyOfCutHeader
  BY DEF DownInvariant, DiesOnlyOfCutHeader
<1> QED
  BY <1>1, <1>2, <1>3, PTL DEF WireSpec

(* The types, and that the reader's buffer never holds more than it can.     *)
THEOREM WireTypeOKHolds == ASSUME WireAssumption PROVE WireSpec => []WireTypeOK
<1>1. WireInit => UpInvariant /\ DownInvariant
  BY UpStart, DownStart
<1>2. UpInvariant /\ DownInvariant /\ [WireNext]_wireVars => UpInvariant' /\ DownInvariant'
  BY UpStep, DownStep
<1>3. ASSUME UpInvariant, DownInvariant PROVE WireTypeOK
  <2>1. upSent \in Seq(UpFrames)
    BY <1>3 DEF UpInvariant
  <2>2. PICK off, n, p, q : Holds(off, n, p, q)
    BY <1>3, Zenon DEF UpInvariant
  <2> DEFINE s == UpStream(upSent)  d == Data(upSent)  l == Len(s)
  <2>3. /\ n \in 0..Len(upSent) /\ p \in Nat /\ q \in Nat /\ p <= q /\ q <= l
        /\ upWire = SubSeq(s, q + 1, l) /\ upBuf = SubSeq(s, p + 1, q) /\ forwarded = SubSeq(d, 1, n)
    BY <2>2, Zenon DEF Holds
  <2>4. s \in Seq(Byte) /\ d \in Seq(FrameData) /\ Len(d) = Len(upSent) /\ Len(upSent) \in Nat
    BY <2>1, UnitsAre, DataIs
  <2> HIDE DEF s, d
  <2>5. l \in Nat /\ l <= Len(s) /\ q <= Len(s)
    BY <2>3, <2>4
  <2>6. upBuf \in Seq(Byte)
    BY <2>3, <2>4, <2>5, PartAt
  <2>7. upWire \in Seq(Byte)
    <3> HIDE DEF l
    <3> QED
      BY <2>3, <2>4, <2>5, PartAt
  <2>8. forwarded \in Seq(FrameData)
    <3>1. 0 \in Nat /\ n \in Nat /\ 0 <= n /\ n <= Len(d) /\ 0 + 1 = 1
      BY <2>3, <2>4
    <3>2. SubSeq(d, 0 + 1, n) \in Seq(FrameData)
      BY <2>4, <3>1, PartAt
    <3> QED
      BY <2>3, <3>1, <3>2
  <2>9. PICK E : Reads(E)
    BY <1>3 DEF DownInvariant
  <2>10. /\ Remaining \in 0..BufSize /\ received \in 0..DownEnd(Len(downSent)) /\ taken \in 0..Len(downSent)
    <3>1. /\ Len(downSent) \in Nat /\ received \in Nat /\ taken \in 0..Len(downSent)
          /\ Remaining \in 0..BufSize
          /\ \A k \in 0..Len(downSent) : DownEnd(k) = E[k] /\ E[k] \in Nat
      BY <1>3, <2>9, ReaderFinds
    <3>2. received <= E[Len(downSent)]
      BY <2>9 DEF Reads
    <3>3. DownEnd(Len(downSent)) = E[Len(downSent)] /\ E[Len(downSent)] \in Nat
      BY <3>1
    <3> QED
      BY <3>1, <3>2, <3>3
  <2>11. reader \in {"run", "dead", "closed"} /\ cut \in BOOLEAN
    BY <1>3, Zenon DEF DownInvariant
  <2> QED
    BY <2>6, <2>7, <2>8, <2>10, <2>11, Zenon DEF WireTypeOK, FrameData
<1> QED
  BY <1>1, <1>2, <1>3, PTL DEF WireSpec
=============================================================================
