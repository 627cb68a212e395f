---------------------------- MODULE PortManager ----------------------------
(***************************************************************************)
(* The process-wide UDP port pool (src/src/common/common_port_manager.cpp) *)
(* and the sockets bound from it.  The pool keeps the vector              *)
(* m_available_ports (a sequence, order = hand-out order) and the set     *)
(* m_ports_in_use.  get_udp_port runs entirely under m_mutex; it is       *)
(* called by the signaling thread (RoomUser::initialize_video/audio and   *)
(* RTPTransmitterV4::init(NULL)), which then binds the port in a later,   *)
(* separate step, outside the pool's lock.  Sockets are closed by the     *)
(* RTPTransmitterV4 destructor, which never calls release_port.           *)
(*                                                                         *)
(* Other programs on the host may bind and unbind ports of the range at   *)
(* any time: the bind-probe check_available exists because of them.      *)
(***************************************************************************)
EXTENDS Naturals, Sequences, FiniteSets, SequencesExt

CONSTANTS
  PortStart,   \* first port of initialize_udp_ports(start, end), included
  PortEnd,     \* end port, excluded
  NoPort       \* model value: get_udp_port returned false / nothing pending

ASSUME PortStart \in Nat /\ PortEnd \in Nat /\ PortStart < PortEnd
ASSUME NoPort \notin Nat

PoolPorts == PortStart .. (PortEnd - 1)

VARIABLES
  initialized,  \* m_initialized
  available,    \* m_available_ports
  in_use,       \* m_ports_in_use
  pending,      \* port returned to the signaling thread, not yet bound
  held,         \* ports bound by live sockets of this process
  foreign       \* ports bound by other programs on the host

vars == <<initialized, available, in_use, pending, held, foreign>>

(* Ports on which a bind of 0.0.0.0:p fails right now. *)
Bound == held \cup foreign

(* std::set iterates in ascending order. *)
Ascending(S) == SetToSortSeq(S, <)

(***************************************************************************)
(* check_available(port, PORT_TYPE_UDP): open, bind, close a throwaway    *)
(* socket.  The bind succeeds exactly when no socket has the port.        *)
(***************************************************************************)
Probe(p) == p \notin Bound

(***************************************************************************)
(* The while loop of get_udp_port: take the head of the vector, move it   *)
(* to m_ports_in_use whatever the probe says, and return the first head   *)
(* whose probe succeeded.                                                 *)
(***************************************************************************)
RECURSIVE Scan(_, _)
Scan(av, iu) ==
  IF av = <<>>
  THEN [port |-> NoPort, avail |-> <<>>, inuse |-> iu]
  ELSE IF Probe(Head(av))
       THEN [port |-> Head(av), avail |-> Tail(av), inuse |-> iu \cup {Head(av)}]
       ELSE Scan(Tail(av), iu \cup {Head(av)})

TypeOK ==
  /\ initialized \in BOOLEAN
  /\ available \in Seq(PoolPorts)
  /\ in_use \subseteq PoolPorts
  /\ pending \in PoolPorts \cup {NoPort}
  /\ held \subseteq PoolPorts
  /\ foreign \subseteq PoolPorts

(* The constructor: not yet initialized, both collections empty. *)
Init ==
  /\ initialized = FALSE
  /\ available = <<>>
  /\ in_use = {}
  /\ pending = NoPort
  /\ held = {}
  /\ foreign = {}

(* Fault-injection variant: the end port included (port <= end). *)
InitializeUdpPortsInclusive ==
  /\ ~initialized
  /\ available' = [i \in 1 .. (PortEnd - PortStart + 1) |-> PortStart + i - 1]
  /\ in_use' = {}
  /\ initialized' = TRUE
  /\ UNCHANGED <<pending, held, foreign>>

(* initialize_udp_ports(start, end); a second call returns at once. *)
InitializeUdpPorts ==
  /\ ~initialized
  /\ available' = [i \in 1 .. (PortEnd - PortStart) |-> PortStart + i - 1]
  /\ in_use' = {}
  /\ initialized' = TRUE
  /\ UNCHANGED <<pending, held, foreign>>

(***************************************************************************)
(* get_udp_port, called by the signaling thread once main() has           *)
(* initialized the pool.  An empty vector is first refilled from the      *)
(* whole in-use set; when the scan finds nothing the vector is refilled   *)
(* again and false is returned.                                           *)
(***************************************************************************)
GetUdpPort ==
  /\ initialized
  /\ pending = NoPort
  /\ LET refill == available = <<>>
         r == Scan(IF refill THEN Ascending(in_use) ELSE available,
                   IF refill THEN {} ELSE in_use)
     IN \/ /\ r.port # NoPort
           /\ available' = r.avail
           /\ in_use' = r.inuse
           /\ pending' = r.port
        \/ /\ r.port = NoPort
           /\ available' = Ascending(r.inuse)
           /\ in_use' = {}
           /\ pending' = NoPort
  /\ UNCHANGED <<initialized, held, foreign>>

(***************************************************************************)
(* RTPTransmitterV4::init binds the port it was given.  If the bind fails *)
(* the session is torn down; the port stays in m_ports_in_use.            *)
(***************************************************************************)
BindSocket ==
  /\ pending # NoPort
  /\ held' = IF pending \in Bound THEN held ELSE held \cup {pending}
  /\ pending' = NoPort
  /\ UNCHANGED <<initialized, available, in_use, foreign>>

(* ~RTPTransmitterV4 closes the socket; release_port is not called. *)
CloseSocket(p) ==
  /\ p \in held
  /\ held' = held \ {p}
  /\ UNCHANGED <<initialized, available, in_use, pending, foreign>>

(* Fault-injection variant: the membership test of release_port dropped. *)
ReleasePortUnchecked(p) ==
  /\ available' = Append(available, p)
  /\ in_use' = in_use \ {p}
  /\ UNCHANGED <<initialized, pending, held, foreign>>

(* release_port(p): move p back to the vector if it is in the set. *)
ReleasePort(p) ==
  /\ p \in in_use
  /\ available' = Append(available, p)
  /\ in_use' = in_use \ {p}
  /\ UNCHANGED <<initialized, pending, held, foreign>>

(* Another program binds or unbinds a port of the range. *)
ForeignBind(p) ==
  /\ p \notin Bound
  /\ foreign' = foreign \cup {p}
  /\ UNCHANGED <<initialized, available, in_use, pending, held>>

ForeignUnbind(p) ==
  /\ p \in foreign
  /\ foreign' = foreign \ {p}
  /\ UNCHANGED <<initialized, available, in_use, pending, held>>

Next ==
  \/ InitializeUdpPorts
  \/ GetUdpPort
  \/ BindSocket
  \/ \E p \in PoolPorts :
       \/ CloseSocket(p)
       \/ ReleasePort(p)
       \/ ForeignBind(p)
       \/ ForeignUnbind(p)

Spec == Init /\ [][Next]_vars

-----------------------------------------------------------------------------
(***************************************************************************)
(* Properties.                                                            *)
(***************************************************************************)

(* Once initialized, every pool port is in exactly one of m_available_    *)
(* ports and m_ports_in_use, and the vector holds no port twice (spec     *)
(* section 3), across refills in get_udp_port and release_port.           *)
PoolPartition ==
  initialized =>
    /\ ToSet(available) \cap in_use = {}
    /\ ToSet(available) \cup in_use = PoolPorts
    /\ Len(available) = Cardinality(ToSet(available))

(* The bind in RTPTransmitterV4::init of the port get_udp_port handed    *)
(* out succeeds: check_available found it free under the pool's lock, but *)
(* the bind comes later, outside the lock, and another program may take   *)
(* the port in between.                                                   *)
BindFindsPortFree ==
  [][BindSocket => pending \notin Bound]_vars

(* get_udp_port reports exhaustion only when no pool port could be bound  *)
(* (spec 4.6: "returns none only if the pool cannot produce any           *)
(* candidate").                                                           *)
GetFailsOnlyWhenExhausted ==
  [][GetUdpPort /\ pending' = NoPort => PoolPorts \subseteq Bound]_vars

=============================================================================
