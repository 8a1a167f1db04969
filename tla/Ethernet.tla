------------------------------ MODULE Ethernet ------------------------------
(***************************************************************************)
(* The Ethernet driver (firmware/components/gate_drivers/src/ethernet.cpp) *)
(* and the network bit of the Control client that app_main wires it to.    *)
(* Link and address events pass through ESP-IDF's event loop; the PHY, the *)
(* interface and its DHCP client are external.                             *)
(***************************************************************************)
EXTENDS Naturals, Sequences

CONSTANT LoopDepth  \* bound: events in the event loop's queue

ASSUME EthernetAssumption == LoopDepth \in Nat \ {0}

VARIABLES
  start,    \* the call start() makes next, or how it ended
  hooked,   \* the event handlers are registered
  phy,      \* the PHY: "off", "down" or "up"
  netif,    \* the interface is up, as the glue's handlers see the link
  lease,    \* the DHCP client holds an address
  lostDue,  \* the interface's lost-address timer runs
  events,   \* the event loop's queue
  linkUp,   \* link_up
  ipAddr,   \* ip_addr is not 0
  netBit,   \* kNetUpBit
  client    \* the gate_rpc task is "waiting" for the bit or "trying" a session

driverVars == <<linkUp, ipAddr, netBit>>
espVars == <<phy, netif, lease, lostDue, events>>
ethVars == <<start, hooked, espVars, driverVars, client>>

-----------------------------------------------------------------------------
(* start().                                                                *)

\* Broken variant: the driver runs before anybody listens to it.
CallAfterDriverFirst(c) ==
  CASE c = "init" -> "driver" [] c = "driver" -> "handlers" [] c = "handlers" -> "done"

\* The netif and its glue, the handlers, and only then the driver.
CallAfter(c) ==
  CASE c = "init" -> "handlers" [] c = "handlers" -> "driver" [] c = "driver" -> "done"

\* One call of start(); without exactly one port it returns, and the gate runs
\* offline.
EthernetStart ==
  /\ start \in {"init", "handlers", "driver"}
  /\ \/ start' = CallAfter(start)
     \/ start = "init" /\ start' = "failed"
  /\ hooked' = (hooked \/ start = "handlers")
  /\ phy' = IF start = "driver" THEN "down" ELSE phy
  /\ UNCHANGED <<netif, lease, lostDue, events, driverVars, client>>

-----------------------------------------------------------------------------
(* ESP-IDF: the PHY, the interface, DHCP (external).                       *)

Raise(e) == Len(events) < LoopDepth /\ events' = Append(events, e)

LinkChanges ==
  /\ phy # "off"
  /\ phy' = IF phy = "up" THEN "down" ELSE "up"
  /\ Raise(IF phy = "up" THEN "DISCONNECTED" ELSE "CONNECTED")
  /\ UNCHANGED <<start, hooked, netif, lease, lostDue, driverVars, client>>

\* The interface learns of a dead link through the event loop, too: an answer may
\* still be turned into an address while DISCONNECTED waits there.
LeaseGranted ==
  /\ netif /\ ~lease /\ Raise("GOT_IP")
  /\ lease' = TRUE /\ lostDue' = FALSE
  /\ UNCHANGED <<start, hooked, phy, netif, driverVars, client>>

LeaseExpires ==
  /\ netif /\ lease
  /\ lease' = FALSE /\ lostDue' = TRUE
  /\ UNCHANGED <<start, hooked, phy, netif, events, driverVars, client>>

LostTimer ==
  /\ lostDue /\ Raise("LOST_IP")
  /\ lostDue' = FALSE
  /\ UNCHANGED <<start, hooked, phy, netif, lease, driverVars, client>>

-----------------------------------------------------------------------------
(* The event loop task: the glue's handlers, then the driver's.            *)

GlueHandles(e) ==
  /\ netif' = IF e = "CONNECTED" THEN TRUE ELSE IF e = "DISCONNECTED" THEN FALSE ELSE netif
  /\ lease' = (lease /\ e # "DISCONNECTED")
  /\ lostDue' = (lostDue \/ (e = "DISCONNECTED" /\ lease))

\* on_eth_event() and on_ip_event(), with the callbacks app_main has set: a link
\* that goes down clears the network bit, an address sets it, nobody has asked to
\* hear of an address that is lost.
DriverHandles(e) ==
  /\ linkUp' = IF e = "CONNECTED" THEN TRUE ELSE IF e = "DISCONNECTED" THEN FALSE ELSE linkUp
  /\ ipAddr' = (e = "GOT_IP" \/ (ipAddr /\ e = "CONNECTED"))
  /\ netBit' = (e = "GOT_IP" \/ (netBit /\ e # "DISCONNECTED"))

HandleEvent ==
  /\ events # <<>>
  /\ events' = Tail(events)
  /\ GlueHandles(Head(events))
  /\ IF hooked THEN DriverHandles(Head(events)) ELSE UNCHANGED driverVars
  /\ UNCHANGED <<start, hooked, phy, client>>

-----------------------------------------------------------------------------
(* task_main() waits for the bit before every session, and does not clear it. *)

ClientTries ==
  /\ client = "waiting" /\ netBit
  /\ client' = "trying"
  /\ UNCHANGED <<start, hooked, espVars, driverVars>>

SessionOver ==
  /\ client = "trying"
  /\ client' = "waiting"
  /\ UNCHANGED <<start, hooked, espVars, driverVars>>

EthInit ==
  /\ start = "init" /\ hooked = FALSE
  /\ phy = "off" /\ netif = FALSE /\ lease = FALSE /\ lostDue = FALSE /\ events = <<>>
  /\ linkUp = FALSE /\ ipAddr = FALSE /\ netBit = FALSE
  /\ client = "waiting"

EthNext ==
  \/ EthernetStart
  \/ LinkChanges
  \/ LeaseGranted
  \/ LeaseExpires
  \/ LostTimer
  \/ HandleEvent
  \/ ClientTries
  \/ SessionOver

EthSpec == EthInit /\ [][EthNext]_ethVars

-----------------------------------------------------------------------------

\* The client is never left waiting for a network that is there: whatever order
\* links and addresses came and went in, once the event loop has caught up an
\* address that is held is known, and the client may try.  (The converse does not
\* hold: an address that is lost, and one that overtakes a DISCONNECTED, leave the
\* bit set.)
NetworkIsNoticed ==
  (events = <<>> /\ lease) => linkUp /\ ipAddr /\ netBit

=============================================================================
