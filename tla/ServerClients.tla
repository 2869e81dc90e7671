----------------------------- MODULE ServerClients -----------------------------
(***************************************************************************)
(* The TCP server of the network debugger: TcpServerHandle and             *)
(* ServerChannelWorker on the server thread, and on the GUI thread the     *)
(* server side of NetworkDebuggerView and its ServerClientPanel.  A client *)
(* is its id; its adopted TcpChannel is Open, Closing, Closed or Error.    *)
(*                                                                         *)
(* The view has one isConnected_ and one protocol box for its three pages. *)
(* The client and the UDP page (one page here: to the server they are the  *)
(* same) are the environment: what they report is any value at any time.   *)
(* Their own side of the shared flag is in Debugger.                       *)
(***************************************************************************)
EXTENDS Integers, Sequences, SequencesExt, FiniteSetsExt

CONSTANTS
  MaxIds,        \* bound: connections accepted
  MaxClients,    \* maxClients_: 0 for no limit
  MaxClicks      \* bound: clicks, and states the client side reports

ASSUME MaxIdsAssumption == MaxIds \in Nat

VARIABLES
  handle,      \* listening, clients_ (id -> state of the channel), nextId_
  toHandle,    \* the server thread's queue: calls, and the removals it posts to itself
  toList,      \* signals queued to the view
  list,        \* the view: the page shown, isConnected_, the display of tcpServerWidget_, the
               \* clients listed in order, the selected ones, broadcast
  gone         \* history: how often each id was reported disconnected; clicks; who wrote
               \* isConnected_ last and whether the client side ever did; the clients a change
               \* of page took off the list

serverVars == <<handle, toHandle, toList, list, gone>>

Ids == 1..MaxIds
Pages == {"client", "server"}
ServerCall(kind, id) == [kind |-> kind, id |-> id]
NoClients == [id \in {} |-> "Open"]
Without(clients, id) == [i \in DOMAIN clients \ {id} |-> clients[i]]

-----------------------------------------------------------------------------
(* TcpServerHandle and ServerChannelWorker *)

\* Mutant of RemoveClient: a removal that waited does not look for its client again.
RemoveClientBlind(id) ==
  /\ handle' = [handle EXCEPT !.clients = Without(@, id)]
  /\ toHandle' = Tail(toHandle)
  /\ toList' = Append(toList, ServerCall("disconnected", id))
  /\ gone' = [gone EXCEPT !.times[id] = @ + 1]

\* removeClient(): erased, its handler removed, its channel closed, and reported.
RemoveClient(id) ==
  /\ toHandle' = Tail(toHandle)
  /\ IF id \in DOMAIN handle.clients
     THEN /\ handle' = [handle EXCEPT !.clients = Without(@, id)]
          /\ toList' = Append(toList, ServerCall("disconnected", id))
          /\ gone' = [gone EXCEPT !.times[id] = @ + 1]
     ELSE UNCHANGED <<handle, toList, gone>>

EachTo(kind, ids) == [i \in DOMAIN ids |-> ServerCall(kind, ids[i])]

\* stop(): every client is removed, in the order of a hash table.
Stopped == SetToSeqs(DOMAIN handle.clients)
CountAll == [gone EXCEPT !.times = [id \in Ids |-> @[id] + IF id \in DOMAIN handle.clients THEN 1 ELSE 0]]

\* openTcpServer() stops first; a listen that fails is reported as Closed.
RunListen ==
  /\ Head(toHandle).kind = "listen"
  /\ \E ok \in BOOLEAN, ids \in Stopped :
       /\ handle' = [handle EXCEPT !.listening = ok, !.clients = NoClients]
       /\ toList' = toList \o EachTo("disconnected", ids)
                          \o <<ServerCall(IF ok THEN "Open" ELSE "Closed", 0)>>
  /\ gone' = CountAll /\ toHandle' = Tail(toHandle)

RunCloseAll ==
  /\ Head(toHandle).kind = "closeAll"
  /\ handle' = [handle EXCEPT !.listening = FALSE, !.clients = NoClients]
  /\ \E ids \in Stopped :
       toList' = toList \o EachTo("disconnected", ids) \o <<ServerCall("Closed", 0)>>
  /\ gone' = CountAll /\ toHandle' = Tail(toHandle)

\* The state handler of a client's channel: a loss is removed in a turn of its own.
Lost(id) == <<ServerCall("remove", id)>>

\* closeClient(): the channel closes at once or when what it holds is sent; a channel
\* that said Error says Closed now, which is one more loss.
RunCloseClient ==
  /\ Head(toHandle).kind = "close"
  /\ LET id == Head(toHandle).id IN
     IF id \notin DOMAIN handle.clients
     THEN toHandle' = Tail(toHandle) /\ UNCHANGED handle
     ELSE \/ /\ handle' = [handle EXCEPT !.clients[id] = "Closed"]
             /\ toHandle' = Tail(toHandle) \o Lost(id)
          \/ /\ handle.clients[id] \in {"Open", "Closing"}
             /\ handle' = [handle EXCEPT !.clients[id] = "Closing"]
             /\ toHandle' = Tail(toHandle)
  /\ UNCHANGED <<toList, gone>>

\* writeToClient(): the view sees it, or an error.
RunWriteTo ==
  /\ Head(toHandle).kind = "write"
  /\ toHandle' = Tail(toHandle) /\ UNCHANGED <<handle, toList, gone>>

ServerStep ==
  /\ toHandle # <<>>
  /\ \/ RunListen \/ RunCloseAll \/ RunCloseClient \/ RunWriteTo
     \/ Head(toHandle).kind = "remove" /\ RemoveClient(Head(toHandle).id)
  /\ UNCHANGED list

\* onNewConnection(); over the limit the socket is closed.
NewConnection ==
  /\ handle.listening /\ handle.nextId <= MaxIds
  /\ MaxClients = 0 \/ Cardinality(DOMAIN handle.clients) < MaxClients
  /\ LET id == handle.nextId IN
     /\ handle' = [handle EXCEPT !.nextId = @ + 1,
           !.clients = [i \in DOMAIN @ \cup {id} |-> IF i = id THEN "Open" ELSE @[i]]]
     /\ toList' = Append(toList, ServerCall("connected", id))
  /\ UNCHANGED <<toHandle, list, gone>>

\* A client goes away, or a close that waited is done; Closed may come before Error.
ClientChannel ==
  /\ \E id \in DOMAIN handle.clients, s \in {"Closed", "Error"} :
       /\ handle.clients[id] \in {"Open", "Closing"} \/ (handle.clients[id] = "Closed" /\ s = "Error")
       /\ handle.clients[id] = "Closing" => s = "Closed"
       /\ handle' = [handle EXCEPT !.clients[id] = s]
       /\ toHandle' = toHandle \o Lost(id)
  /\ UNCHANGED <<toList, list, gone>>

-----------------------------------------------------------------------------
(* ServerClientPanel; p is the view's state *)

\* addOrUpdateClient(): someone is selected when nobody was.
AddClient(p, id) ==
  [p EXCEPT !.shown = IF id \in ToSet(@) THEN @ ELSE Append(@, id),
            !.selected = IF @ = {} /\ ~p.broadcast THEN {id} ELSE @]

\* removeClient(): the first one is selected when the selection is gone, and
\* broadcast ends with the last client.
DropClient(p, id) ==
  LET row == CHOOSE i \in DOMAIN p.shown : p.shown[i] = id
      left == RemoveAt(p.shown, row)
      kept == p.selected \ {id} IN
  IF id \notin ToSet(p.shown) THEN p
  ELSE [p EXCEPT !.shown = left, !.broadcast = @ /\ left # <<>>,
                 !.selected = IF left # <<>> /\ kept = {} /\ ~p.broadcast THEN {left[1]} ELSE kept]

ClearClients(p) == [p EXCEPT !.shown = <<>>, !.selected = {}, !.broadcast = FALSE]

\* onServerStateChanged()
ServerState(p, s) ==
  IF s = "Open" THEN [p EXCEPT !.connected = TRUE, !.display = "Connected"]
  ELSE [ClearClients(p) EXCEPT !.connected = FALSE, !.display = "Disconnected"]

\* The queued signals, whatever page is shown.
ListHears ==
  /\ toList # <<>> /\ toList' = Tail(toList)
  /\ LET e == Head(toList) IN
     \/ e.kind = "connected" /\ list' = AddClient(list, e.id) /\ UNCHANGED gone
     \/ e.kind = "disconnected" /\ list' = DropClient(list, e.id) /\ UNCHANGED gone
     \/ /\ e.kind \in {"Open", "Closed"} /\ list' = ServerState(list, e.kind)
        /\ gone' = [gone EXCEPT !.spoke = "server"]
  /\ UNCHANGED <<handle, toHandle>>

\* onWorkerStateChanged(): an attempt of the client or the UDP page, which may have been
\* begun before the server was, writes the same isConnected_; it shows its state elsewhere.
ClientSideReports ==
  /\ \E open \in BOOLEAN : list' = [list EXCEPT !.connected = open]
  /\ gone.clicks < MaxClicks
  /\ gone' = [gone EXCEPT !.clicks = @ + 1, !.spoke = "client", !.crossed = TRUE]
  /\ UNCHANGED <<handle, toHandle, toList>>

\* switchToProtocol(): every page but the server's clears the panel and hides it.
SwitchTo(p, page) == [(IF page = "server" THEN p ELSE ClearClients(p)) EXCEPT !.page = page]

\* A change of page, which isConnected_ alone refuses.
Switch(p) ==
  /\ ~list.connected /\ list' = p
  /\ gone' = [gone EXCEPT !.lost = @ \cup (ToSet(list.shown) \ ToSet(p.shown))]
  /\ UNCHANGED <<handle, toHandle, toList>>

\* onProtocolChanged(); the box keeps an index that was refused, so the page it is left for
\* may be the one shown.
SelectProtocol == \E page \in Pages : Switch(SwitchTo(list, page))

\* retranslateUi() empties the protocol box and fills it again: its first entry is the
\* client page, and then comes the one it was on.
LanguageChanged == \E page \in Pages : Switch(SwitchTo(SwitchTo(list, "client"), page))

\* selectedClientIds(), in the order of QListWidget.
SelectedIds(p) == SetToSeqs(p.selected)

\* onSendRequested(): every client listed when broadcasting, else the selected ones.
Targets(p) == IF p.broadcast THEN {p.shown} ELSE SelectedIds(p)

\* The panel and tcpServerWidget_ are on the server's page.
Click(calls) ==
  /\ list.page = "server"
  /\ gone.clicks < MaxClicks /\ gone' = [gone EXCEPT !.clicks = @ + 1]
  /\ toHandle' = toHandle \o calls /\ UNCHANGED <<handle, toList>>

StartListen == list.display = "Disconnected" /\ Click(<<ServerCall("listen", 0)>>)
               /\ list' = [list EXCEPT !.display = "Connecting"]
StopListen  == list.display \in {"Connecting", "Connected"} /\ Click(<<ServerCall("closeAll", 0)>>)
               /\ list' = [list EXCEPT !.display = "Disconnecting"]

DisconnectSelected == list.selected # {} /\ UNCHANGED list
                      /\ \E ids \in SelectedIds(list) : Click(EachTo("close", ids))
DisconnectAll == list.shown # <<>> /\ Click(EachTo("close", list.shown)) /\ UNCHANGED list
SendTo == list.connected /\ UNCHANGED list
          /\ \E ids \in Targets(list) : ids # <<>> /\ Click(EachTo("write", ids))

Choose ==
  /\ \/ \E ids \in SUBSET ToSet(list.shown) : ~list.broadcast /\ list' = [list EXCEPT !.selected = ids]
     \/ list.shown # <<>> /\ list' = [list EXCEPT !.broadcast = ~@]
  /\ UNCHANGED <<handle, toHandle, toList>> /\ list.page = "server"
  /\ gone.clicks < MaxClicks /\ gone' = [gone EXCEPT !.clicks = @ + 1]

-----------------------------------------------------------------------------
ServerInit ==
  /\ handle = [listening |-> FALSE, clients |-> NoClients, nextId |-> 1]
  /\ toHandle = <<>> /\ toList = <<>>
  /\ list = [page |-> "client", connected |-> FALSE, display |-> "Disconnected", shown |-> <<>>,
             selected |-> {}, broadcast |-> FALSE]
  /\ gone = [times |-> [id \in Ids |-> 0], clicks |-> 0, spoke |-> "server", crossed |-> FALSE,
             lost |-> {}]

ServerNext ==
  \/ ServerStep \/ NewConnection \/ ClientChannel
  \/ ListHears \/ ClientSideReports \/ SelectProtocol \/ LanguageChanged
  \/ StartListen \/ StopListen \/ DisconnectSelected \/ DisconnectAll \/ SendTo \/ Choose

-----------------------------------------------------------------------------
(* Properties *)

\* A client is reported disconnected once, when it goes, is closed, is over with the
\* server, or all of these at the same time.
GoneOnce ==
  \A id \in Ids : gone.times[id] = IF id < handle.nextId /\ id \notin DOMAIN handle.clients THEN 1 ELSE 0

\* When the view has heard everything, it lists the clients there are but for those a change
\* of page took off, whatever page it is on, and its server widget shows whether the server
\* listens and is not left on Connecting or Disconnecting.  isConnected_ says so too, unless
\* the client side wrote it last.
ListAgrees ==
  toList = <<>> =>
    /\ ToSet(list.shown) = DOMAIN handle.clients \ gone.lost
    /\ gone.spoke = "server" => (list.connected <=> handle.listening)
    /\ toHandle = <<>> => list.display = IF handle.listening THEN "Connected" ELSE "Disconnected"

\* A change of page takes a client off the list only because the client side has written
\* isConnected_; without that, a server with clients keeps its page.
LostToOthers == gone.lost # {} => gone.crossed

\* What is selected is listed, and broadcast has somebody to go to.
TargetsListed == list.selected \subseteq ToSet(list.shown) /\ (list.broadcast => list.shown # <<>>)

\* The client list is the server's: nobody left over or counted twice, and nobody missing
\* but by a change of page the client side's flag let through.
ClientsTracked == GoneOnce /\ ListAgrees /\ LostToOthers /\ TargetsListed

=============================================================================
