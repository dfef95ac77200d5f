-------------------------------- MODULE Relay --------------------------------
(***************************************************************************)
(* The Netty relay between the web pages and the phone: WebServerHandler,  *)
(* AppServerHandler, ClientHandler, SocketChannelData, and the maps and    *)
(* connection threads of Server.  Each channel is served by an event loop  *)
(* of its own, so the handlers of two channels interleave; putChannelId()  *)
(* is synchronized, associateWebAppAddr() and what reads the maps is not.  *)
(*                                                                         *)
(* A socket is numbered by its ephemeral port: ports grow in the order in  *)
(* which the sockets of one side are connected.  A page opens its control  *)
(* socket and then its video socket (AppYuvCanvas.js), a device does too   *)
(* (DesktopConnection.open()).  All web sockets have one local address and *)
(* all device sockets another, so each side has one SocketChannelData.     *)
(***************************************************************************)
EXTENDS Naturals

CONSTANTS Pages,      \* bound: web pages opened in a behaviour
          Sockets     \* bound: connections between the relay and the device

ASSUME RelayAssumption == Pages \in Nat /\ Sockets \in Nat

WebSocks == 1..2 * Pages
AppSocks == 1..Sockets
None == 0

VARIABLES
  opened,    \* pages opened
  ws,        \* where the handler of each web socket is
  thr,       \* where the thread started by each web socket is
  bound,     \* APP_PORT is bound by this process
  fellBack,  \* history: some thread went over to "adb forward"
  starting,  \* device servers started and not up, by the tunnel they use
  servers,   \* history: device servers started, by the tunnel they use
  dev,       \* the sockets the device server has
  tunnel,    \* the tunnel it uses
  role,      \* what each device socket is for the device
  as,        \* where the handler of each device socket is
  isForward, \* the sockets the relay has connected itself: ClientHandler
  saw,       \* the table of addrMap that a put under way has taken
  assoc,     \* the keys of addrMap: the web address and the device address
  web, app,  \* the SocketChannelData of either side
  shown,     \* history: what each web socket was sent
  got        \* history: the device sockets that were sent input

conn == <<thr, bound, fellBack, starting, servers>>
device == <<dev, tunnel, role>>
addrMap == <<saw, assoc>>
data == <<shown, got>>
vars == <<opened, ws, conn, device, as, isForward, addrMap, web, app, data>>

Tunnels == {"reverse", "forward"}
NoChannels == [video |-> None, control |-> None, tempPort |-> None, allConnected |-> FALSE]

Init == /\ opened = 0
        /\ ws = [w \in WebSocks |-> "none"] /\ thr = [w \in WebSocks |-> "none"]
        /\ bound = FALSE /\ fellBack = FALSE
        /\ starting = [t \in Tunnels |-> 0] /\ servers = [t \in Tunnels |-> 0]
        /\ dev = "down" /\ tunnel = "reverse" /\ role = [s \in AppSocks |-> "none"]
        /\ as = [s \in AppSocks |-> "none"] /\ isForward = {}
        /\ saw = [s \in AppSocks |-> "none"] /\ assoc = {}
        /\ web = NoChannels /\ app = NoChannels
        /\ shown = [w \in WebSocks |-> {}] /\ got = {}
-----------------------------------------------------------------------------
(* SocketChannelData.putChannelId()                                        *)
PutChannel_NoSwap(d, port) ==
  IF d.tempPort = None
  THEN [d EXCEPT !.tempPort = port, !.control = port]
  ELSE [d EXCEPT !.video = port, !.allConnected = TRUE]
PutChannel_FlagInOneBranch(d, port) ==
  IF d.tempPort = None
  THEN [d EXCEPT !.tempPort = port, !.control = port]
  ELSE IF port > d.tempPort
  THEN [d EXCEPT !.video = port, !.allConnected = TRUE]
  ELSE [d EXCEPT !.video = d.control, !.control = port]
PutChannel(d, port) ==
  IF d.tempPort = None
  THEN [d EXCEPT !.tempPort = port, !.control = port]
  ELSE IF port > d.tempPort
  THEN [d EXCEPT !.video = port, !.allConnected = TRUE]
  ELSE [d EXCEPT !.video = d.control, !.control = port, !.allConnected = TRUE]

(* A page is opened: two sockets, whose upgrade requests may arrive in any *)
(* order.                                                                  *)
OpenPage == /\ opened < Pages
            /\ opened' = opened + 1
            /\ ws' = [w \in WebSocks |-> IF w \in {2 * opened + 1, 2 * opened + 2}
                                         THEN "request" ELSE ws[w]]
            /\ UNCHANGED <<conn, device, as, isForward, addrMap, web, app, data>>

(* handleHttpRequest() up to putChannelId(), and from there.               *)
Upgrade(w) == /\ ws[w] = "request"
              /\ web' = PutChannel(web, w)
              /\ ws' = [ws EXCEPT ![w] = "put"]
              /\ UNCHANGED <<opened, conn, device, as, isForward, addrMap, app, data>>

MayConnect_Always == TRUE
MayConnect == web.allConnected

PrepareConnectPhone(w) ==
  /\ ws[w] = "put"
  /\ ws' = [ws EXCEPT ![w] = "active"]
  /\ thr' = [thr EXCEPT ![w] = IF MayConnect THEN "adb" ELSE "none"]
  /\ UNCHANGED <<opened, bound, fellBack, starting, servers, device>>
  /\ UNCHANGED <<as, isForward, addrMap, web, app, data>>
-----------------------------------------------------------------------------
(* The connection thread.                                                  *)
StartAdbProcess(t) == /\ starting' = [starting EXCEPT ![t] = @ + 1]
                      /\ servers' = [servers EXCEPT ![t] = @ + 1]

(* Each thread tries "adb reverse" and falls back to "adb forward", which  *)
(* starts the device server at once; "adb push" or both tunnels may fail.  *)
Adb(w) == /\ thr[w] = "adb"
          /\ \/ thr' = [thr EXCEPT ![w] = "done"] /\ UNCHANGED <<fellBack, starting, servers>>
             \/ thr' = [thr EXCEPT ![w] = "bind"] /\ UNCHANGED <<fellBack, starting, servers>>
             \/ /\ fellBack' = TRUE /\ StartAdbProcess("forward")
                /\ thr' = [thr EXCEPT ![w] = "connect"]
          /\ UNCHANGED <<opened, ws, bound, device, as, isForward, addrMap, web, app, data>>

(* startSocketServer(): bind().sync() throws when the port is bound by     *)
(* another thread, or held by adb for a forward tunnel; otherwise the      *)
(* thread stays until the server channel closes.                           *)
BindFails_Ignored == FALSE
BindFails == bound

Bind(w) == /\ thr[w] = "bind"
           /\ \/ /\ BindFails \/ fellBack
                 /\ thr' = [thr EXCEPT ![w] = "done"] /\ UNCHANGED <<bound, starting, servers>>
              \/ /\ ~BindFails /\ bound' = TRUE
                 /\ thr' = [thr EXCEPT ![w] = "serving"] /\ StartAdbProcess("reverse")
           /\ UNCHANGED <<opened, ws, fellBack, device, as, isForward, addrMap, web, app, data>>

(* The device server listens on (forward) or connects through (reverse)    *)
(* an abstract socket that only one process can hold.                      *)
DeviceUp(t) ==
  /\ starting[t] > 0 /\ starting' = [starting EXCEPT ![t] = @ - 1]
  /\ IF dev \in {"none", "control"} THEN UNCHANGED <<dev, tunnel>>
                                    ELSE dev' = "none" /\ tunnel' = t
  /\ UNCHANGED <<opened, ws, thr, bound, fellBack, servers, role>>
  /\ UNCHANGED <<as, isForward, addrMap, web, app, data>>

(* A new connection between the relay and the device: the device takes the *)
(* first for control and the second for video, and no more.                *)
NewSocket(t) ==
  \E s \in AppSocks :
    LET now == IF tunnel = t THEN dev ELSE "down"
    IN /\ as[s] = "none" /\ \A x \in 1..s - 1 : as[x] # "none"
       /\ as' = [as EXCEPT ![s] = IF t = "forward" THEN "web" ELSE "put"]
       /\ isForward' = IF t = "forward" THEN isForward \cup {s} ELSE isForward
       /\ role' = [role EXCEPT ![s] = CASE now = "none" -> "control"
                                        [] now = "control" -> "video"
                                        [] OTHER -> "dead"]
       /\ dev' = CASE now = "none" -> "control" [] now = "control" -> "video" [] OTHER -> dev

DeviceConnect == /\ tunnel = "reverse" /\ dev \in {"none", "control"}
                 /\ NewSocket("reverse")
                 /\ UNCHANGED <<opened, ws, conn, tunnel, addrMap, web, app, data>>

(* startSocketClient(): it connects twice, 500 ms after the device server  *)
(* was started, whether or not that listens by then; a connect().sync()    *)
(* that fails ends the thread.                                             *)
Connect(w) == /\ thr[w] \in {"connect", "connect2"}
              /\ \/ /\ NewSocket("forward")
                    /\ thr' = [thr EXCEPT ![w] = IF @ = "connect" THEN "connect2" ELSE "done"]
                 \/ /\ thr' = [thr EXCEPT ![w] = "done"]
                    /\ UNCHANGED <<as, isForward, role, dev>>
              /\ UNCHANGED <<opened, ws, bound, fellBack, starting, servers, tunnel>>
              /\ UNCHANGED <<addrMap, web, app, data>>
-----------------------------------------------------------------------------
(* initChannel() of the server puts the channel ("put") and then           *)
(* associates the addresses, the web address first ("web", "app");         *)
(* ClientHandler.channelActive() does it the other way round.              *)
AfterPut(s) == IF s \in isForward THEN "active" ELSE "web"
AfterAssociate(s) == IF s \in isForward THEN "put" ELSE "active"

PutAppChannel(s) == /\ as[s] = "put"
                    /\ app' = PutChannel(app, s)
                    /\ as' = [as EXCEPT ![s] = AfterPut(s)]
                    /\ UNCHANGED <<opened, ws, conn, device, isForward, addrMap, web, data>>

(* addrMap is a java.util.HashMap used without a lock.  A put takes the    *)
(* table, or finds that there is none yet ...                              *)
TakeTable(s) ==
  /\ as[s] \in {"web", "app"}
  /\ as' = [as EXCEPT ![s] = IF @ = "web" THEN "storeWeb" ELSE "storeApp"]
  /\ saw' = [saw EXCEPT ![s] = IF assoc = {} THEN "none" ELSE "table"]
  /\ UNCHANGED <<opened, ws, conn, device, isForward, assoc, web, app, data>>

(* ... and then stores into it.  One that found none allocates a table in  *)
(* place of whatever another handler has allocated meanwhile, and one that *)
(* holds a table replaced meanwhile stores for nobody.                     *)
Store(s, key) ==
  /\ assoc' = CASE saw[s] = "none" -> {key}
                [] saw[s] = "table" -> assoc \cup {key}
                [] saw[s] = "stale" -> assoc
  /\ saw' = [x \in AppSocks |->
               IF x = s THEN "none"
               ELSE IF saw[s] = "none" /\ saw[x] = "table" THEN "stale" ELSE saw[x]]
  /\ UNCHANGED <<opened, ws, conn, device, isForward, web, app, data>>

AssociateWeb(s) == /\ as[s] = "storeWeb" /\ Store(s, "web")
                   /\ as' = [as EXCEPT ![s] = "app"]
AssociateApp_WebAgain(s) == /\ as[s] = "storeApp" /\ Store(s, "web")
                            /\ as' = [as EXCEPT ![s] = AfterAssociate(s)]
AssociateApp(s) == /\ as[s] = "storeApp" /\ Store(s, "app")
                   /\ as' = [as EXCEPT ![s] = AfterAssociate(s)]
-----------------------------------------------------------------------------
(* What the device sends: messages, and pictures of which the relay knows  *)
(* two formats; it turns the interleaved one into the planar one.          *)
Pictures == {"yuv420p", "yuv420sp", "otherYuv"}
Messages(r) == CASE r = "control" -> {"control"} [] r = "video" -> Pictures [] OTHER -> {}
WebFrame(kind) == IF kind = "yuv420sp" THEN "yuv420p" ELSE kind

(* writeWebSocket(): a message of the device goes to the web socket its    *)
(* type names, once the addresses are related, and a picture of any other  *)
(* format is dropped; writeAppControlSocket().                             *)
ToWeb(kind) == CASE "app" \notin assoc \/ kind = "otherYuv" -> None
                 [] kind = "control" -> web.control
                 [] OTHER -> web.video
ToDevice == IF "web" \notin assoc THEN None ELSE app.control

FromDevice(s) ==
  /\ as[s] = "active"
  /\ \E kind \in Messages(role[s]) :
       LET w == ToWeb(kind)
       IN shown' = IF w = None THEN shown ELSE [shown EXCEPT ![w] = @ \cup {WebFrame(kind)}]
  /\ UNCHANGED <<opened, ws, conn, device, as, isForward, addrMap, web, app, got>>

(* Input from a page goes to the device.                                   *)
FromWeb(w) ==
  /\ ws[w] = "active" /\ w % 2 = 1
  /\ got' = IF ToDevice = None THEN got ELSE got \cup {ToDevice}
  /\ UNCHANGED <<opened, ws, conn, device, as, isForward, addrMap, web, app, shown>>

WebHandler(w) == Upgrade(w) \/ PrepareConnectPhone(w)
Thread(w) == Adb(w) \/ Bind(w) \/ Connect(w)
AppHandler(s) == PutAppChannel(s) \/ TakeTable(s) \/ AssociateWeb(s) \/ AssociateApp(s)

Next == \/ OpenPage \/ (\E t \in Tunnels : DeviceUp(t)) \/ DeviceConnect
        \/ \E w \in WebSocks : WebHandler(w) \/ Thread(w) \/ FromWeb(w)
        \/ \E s \in AppSocks : AppHandler(s) \/ FromDevice(s)

Spec == Init /\ [][Next]_vars

(* The event loops serve the requests they have. *)
FairSpec == Spec /\ \A w \in WebSocks : WF_vars(WebHandler(w))
-----------------------------------------------------------------------------
ChannelData(socks) == [video : socks \cup {None}, control : socks \cup {None},
                       tempPort : socks \cup {None}, allConnected : BOOLEAN]

(* Types, and isVideo() never finds a null videoChannel once all is said   *)
(* to be connected.                                                        *)
TypeOK ==
  /\ opened \in 0..Pages
  /\ ws \in [WebSocks -> {"none", "request", "put", "active"}]
  /\ thr \in [WebSocks -> {"none", "adb", "bind", "serving", "connect", "connect2", "done"}]
  /\ bound \in BOOLEAN /\ fellBack \in BOOLEAN
  /\ starting \in [Tunnels -> 0..2 * opened] /\ servers \in [Tunnels -> 0..2 * opened]
  /\ dev \in {"down", "none", "control", "video"} /\ tunnel \in Tunnels
  /\ role \in [AppSocks -> {"none", "control", "video", "dead"}]
  /\ as \in [AppSocks -> {"none", "put", "web", "storeWeb", "app", "storeApp", "active"}]
  /\ isForward \subseteq {s \in AppSocks : as[s] # "none"}
  /\ saw \in [AppSocks -> {"none", "table", "stale"}] /\ assoc \subseteq {"web", "app"}
  /\ web \in ChannelData(1..2 * opened) /\ app \in ChannelData(AppSocks)
  /\ \A d \in {web, app} : d.allConnected => None \notin {d.video, d.control}
  /\ shown \in [WebSocks -> SUBSET {"control", "yuv420p"}]
  /\ got \subseteq AppSocks

(* Whatever the order in which the event loops register the two sockets of *)
(* the page, the ports tell which is which ...                             *)
PageChannelsRight ==
  web.allConnected => web.control % 2 = 1 /\ web.video = web.control + 1

(* ... and so they do for the two of the device (in forward mode a device  *)
(* that starts late leaves a dead socket in front).                        *)
DeviceChannelsRight ==
  app.allConnected /\ ~fellBack => role[app.control] = "control" /\ role[app.video] = "video"

(* On either side: what the handlers of putChannelId() rely on.            *)
ChannelsRight == PageChannelsRight /\ DeviceChannelsRight

(* The page never gets a picture on its control socket or a message on its *)
(* video socket, nor a picture in a format it does not draw, although      *)
(* until both are registered the first is taken for the control socket:    *)
(* the phone is connected only after that.                                 *)
NothingMisdelivered ==
  \A w \in WebSocks : shown[w] \subseteq (IF w % 2 = 1 THEN {"control"} ELSE {"yuv420p"})

(* The two writes of associateWebAppAddr() race with those of the other    *)
(* sockets, and meanwhile what the device or the page sends may be         *)
(* dropped; but no key stays lost.  As soon as no handler is inside them,  *)
(* whatever a registered device socket sends has a web socket to go to, a  *)
(* picture of an unknown format excepted, and input has the device's.      *)
Associating(s) == as[s] \in {"storeWeb", "app", "storeApp"}

LinkedWhenQuiet ==
  (\A s \in AppSocks : ~Associating(s)) =>
  \A s \in AppSocks : as[s] = "active" =>
    /\ \A kind \in Messages(role[s]) \ {"otherYuv"} : ToWeb(kind) # None
    /\ ToDevice # None

(* Both sockets of the page may find everything connected and start a      *)
(* thread; the port stops the second from starting a second device server  *)
(* that connects to the relay (one that listens is started for each thread *)
(* that goes over to "adb forward").                                       *)
OneDeviceServer == servers["reverse"] <= 1

(* At least one of the two handlers sees that both sockets are there,      *)
(* however they interleave, and starts a connection thread (whose adb      *)
(* commands may then fail).                                                *)
ConnectionIsTried == opened > 0 ~> \E w \in WebSocks : thr[w] # "none"

(* SocketChannelData.java:16: the socket with the smaller port connected   *)
(* first and is the control socket.                                        *)
SmallerPortIsControl ==
  \A d \in {web, app} : d.allConnected => d.control < d.video
=============================================================================
