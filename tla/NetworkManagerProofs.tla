------------------------ MODULE NetworkManagerProofs ------------------------
(* Theorems about NetworkManager: its type; what DNS, NAT and RemoveNetwork   *)
(* keep, crashes or not; and that an address has one owner as long as no      *)
(* subnet is asked for and the daemon lives.                                  *)
EXTENDS NetworkManager, TLAPS

Creating == op.step \in {"masquerade", "record"}
Removing == op.step \in {"subnet", "unrecord"}
Plugged == op.step \in {"rules", "endpoint"}
Disconnecting == op.step \in {"detach", "release", "delete"}
Detached == op.step \in {"release", "delete"}

\* What the holder of the lock relies on from one step to the next.
OpInv ==
  /\ Creating => op.rec \in Network /\ ~Stored(op.net)
  /\ Removing => op.net # Default /\ Stored(op.net) /\ \A c \in Ctrs : ~Connected(op.net, c)
  /\ Connecting => op.ctr \in Ctrs /\ op.ep \in Endpoint /\ Stored(op.net)
  /\ Plugged => op.net \in bridges
  /\ Disconnecting => op.ctr \in Ctrs /\ \A n \in op.todo : Connected(n, op.ctr)
  /\ Detached => op.net \in op.todo /\ op.ep = eps[op.net][op.ctr]

\* The default network has no names; a name is taken back before its endpoint,
\* and one that is being given is that of the address it will have.
DnsInv ==
  /\ DnsTruthful
  /\ \A c \in Ctrs : dns[Default][c] = NoAddress
  /\ op.step = "endpoint" => dns[op.net][op.ctr] \in {NoAddress, op.ep.ip}
  /\ Detached => dns[op.net][op.ctr] = NoAddress

\* Port rules are taken out before their endpoint.
RulesInv ==
  /\ RulesOwned
  /\ Detached => RulesOf(op.net, op.ep) \cap rules = {}

\* Nobody holds the lock of a daemon that is dead.
DownInv == daemon = "down" => op.step = "idle"

TypeInv == TypeOK /\ OpInv
StoreInv == TypeInv /\ DownInv /\ NetworkHeld /\ DnsInv /\ RulesInv

\* Networks have subnets of their own, the one being created too.
SubnetsUnique ==
  /\ \A n, m \in Ids : Stored(n) /\ Stored(m) /\ n # m => SubnetOf(n) # SubnetOf(m)
  /\ Creating => \A n \in Ids : Stored(n) => SubnetOf(n) # op.rec.subnet

\* The endpoint of c on n, but for the moment between the release of its
\* address and its own end.
Holds(n, c) == Connected(n, c) /\ ~(op.step = "delete" /\ op.net = n /\ op.ctr = c)

Reserved ==
  /\ \A n \in Ids, c \in Ctrs : Holds(n, c) => eps[n][c].ip \in bitmap[SubnetOf(n)]
  /\ Connecting => op.ep.ip \in bitmap[SubnetOf(op.net)]

EndpointsUnique ==
  /\ \A n, m \in Ids, c, d \in Ctrs :
       Connected(n, c) /\ Connected(m, d) /\ <<n, c>> # <<m, d>> =>
         AddressOf(n, eps[n][c]) # AddressOf(m, eps[m][d])
  /\ Connecting => \A n \in Ids, c \in Ctrs :
       Connected(n, c) => AddressOf(n, eps[n][c]) # AddressOf(op.net, op.ep)

\* A live container's interface has the address of one of its endpoints, or of
\* the one it is about to get.
Eth0Owned ==
  /\ \A c \in Ctrs : eth0[c] # NoEth0 =>
       \/ \E n \in Ids : /\ Connected(n, c) /\ eth0[c] = AddressOf(n, eps[n][c])
                         /\ ~(Detached /\ op.net = n /\ op.ctr = c)
       \/ Plugged /\ op.ctr = c /\ eth0[c] = AddressOf(op.net, op.ep)
  /\ Plugged => eth0[op.ctr] \in {NoEth0, AddressOf(op.net, op.ep)}

UniqueInv ==
  crashes = 0 => SubnetsUnique /\ Reserved /\ EndpointsUnique /\ Eth0Owned

-----------------------------------------------------------------------------
(* Types *)

LEMMA Domains ==
  /\ 0 \in Subnets /\ Subnets \subseteq Int /\ Offsets \subseteq Int /\ NoAddress \notin Offsets
  /\ Default \in Ids /\ NoNet \notin Network /\ NoEp \notin Endpoint
  /\ AutoSubnets \subseteq Subnets \ {0} /\ 0 \in 0..MaxCrash /\ 0 \in 0..MaxConnect
BY NetworkConstants DEF NetworkConstants, Subnets, Offsets, NoAddress, NoNet, Network,
   DefaultName, NoEp, Endpoint, AutoSubnets

LEMMA IdleType ==
  ASSUME NEW s \in Steps, NEW n \in Ids, NEW c \in Ctrs \cup {NoCtr}, NEW todo \in SUBSET Ids,
         NEW r \in Network \cup {NoNet}, NEW ep \in Endpoint \cup {NoEp}, NEW found,
         op' = [step |-> s, net |-> n, ctr |-> c, todo |-> todo, rec |-> r, ep |-> ep,
                found |-> found]
  PROVE  OpOK'
BY Domains DEF OpOK, Endpoint, NoEp

LEMMA IdleOp == op' = Idle => OpOK' /\ OpInv'
<1>1. op' = Idle => OpOK'
  BY Domains, IdleType, "idle" \in Steps DEF Idle, Steps
<1>2. op' = Idle => OpInv'
  BY DEF Idle, OpInv, Creating, Removing, Connecting, Plugged, Disconnecting, Detached
<1> QED BY <1>1, <1>2

LEMMA TypeInit == ASSUME Init PROVE TypeInv
<1>1. StoreOK
  BY Domains, NetworkConstants DEF Init, Network, NetworkConstants, StoreOK
<1>2. KernelOK /\ MemOK /\ DaemonOK
  BY Domains DEF Init, KernelOK, MemOK, DaemonOK
<1>3. OpOK
  BY Domains DEF Init, Idle, Steps, NoEp, OpOK
<1>4. OpInv
  BY DEF Init, Idle, OpInv, Creating, Removing, Connecting, Plugged, Disconnecting, Detached
<1> QED BY <1>1, <1>2, <1>3, <1>4 DEF TypeInv, TypeOK

\* A group of variables that does not change keeps its type.
LEMMA Frame ==
  /\ StoreOK /\ UNCHANGED storeVars => StoreOK'
  /\ KernelOK /\ UNCHANGED kernelVars => KernelOK'
  /\ MemOK /\ UNCHANGED memVars => MemOK'
  /\ DaemonOK /\ UNCHANGED <<up, daemonVars, lost>> => DaemonOK'
BY DEF StoreOK, KernelOK, MemOK, DaemonOK, storeVars, kernelVars, memVars, daemonVars

LEMMA CreateType ==
  ASSUME TypeInv,
         \/ \E n \in Ids, name \in Names, s \in Subnets, i \in Internals : CreateNetwork(n, name, s, i)
         \/ CreateMasquerade \/ CreateRecord
  PROVE  TypeInv'
<1> USE DEF TypeInv, TypeOK
<1>1. ASSUME NEW n \in Ids, NEW name \in Names, NEW s \in Subnets, NEW i \in Internals,
             CreateNetwork(n, name, s, i)
      PROVE  TypeInv'
  <2> DEFINE r == [name |-> name, subnet |-> s, internal |-> i]
  <2>1. r \in Network
    BY NetworkConstants DEF Network, NetworkConstants
  <2>2. op' = [step |-> "masquerade", net |-> n, ctr |-> NoCtr, todo |-> {}, rec |-> r,
               ep |-> NoEp, found |-> Found]
    BY <1>1 DEF CreateNetwork, Idle
  <2>3. OpOK'
    BY <2>1, <2>2, IdleType, "masquerade" \in Steps DEF Steps
  <2>4. OpInv'
    BY <1>1, <2>1, <2>2 DEF CreateNetwork, OpInv, Creating, Removing, Connecting, Plugged,
       Disconnecting, Detached, Stored, storeVars
  <2> QED BY <1>1, <2>3, <2>4, Frame DEF CreateNetwork, KernelOK
<1>2. CASE CreateMasquerade
  <2>1. OpOK' /\ OpInv'
    <3>1. CASE op' = Idle
      BY <3>1, IdleOp
    <3>2. CASE op' = [op EXCEPT !.step = "record"]
      BY <1>2, <3>2 DEF CreateMasquerade, Doing, OpOK, Steps, OpInv, Creating, Removing, Connecting,
         Plugged, Disconnecting, Detached, Stored, storeVars
    <3> QED BY <1>2, <3>1, <3>2 DEF CreateMasquerade
  <2> QED BY <1>2, <2>1, Frame DEF CreateMasquerade, Doing, KernelOK, MemOK, OpInv, Creating, Network
<1>3. CASE CreateRecord
  <2>1. StoreOK'
    BY <1>3 DEF CreateRecord, Doing, StoreOK, OpInv, Creating
  <2> QED BY <1>3, <2>1, IdleOp, Frame DEF CreateRecord, KernelOK, MemOK
<1> QED BY <1>1, <1>2, <1>3

LEMMA RemoveType ==
  ASSUME TypeInv, (\E n \in Ids : RemoveNetwork(n)) \/ ReleaseSubnet \/ RemoveRecord
  PROVE  TypeInv'
<1> USE DEF TypeInv, TypeOK
<1>1. ASSUME NEW n \in Ids, RemoveNetwork(n) PROVE TypeInv'
  <2>1. op' = [step |-> "subnet", net |-> n, ctr |-> NoCtr, todo |-> {}, rec |-> NoNet,
               ep |-> NoEp, found |-> <<>>]
    BY <1>1 DEF RemoveNetwork, Idle
  <2>2. OpOK'
    BY <2>1, IdleType, "subnet" \in Steps DEF Steps
  <2>3. OpInv'
    <3>1. op'.step = "subnet" /\ op'.net = n
      BY <2>1
    <3>2. n # Default /\ Stored(n)' /\ \A c \in Ctrs : ~Connected(n, c)'
      BY <1>1 DEF RemoveNetwork, Connected, Stored, storeVars
    <3> QED BY <3>1, <3>2 DEF OpInv, Creating, Removing, Connecting, Plugged, Disconnecting,
       Detached, Connected, Stored
  <2>4. MemOK' /\ KernelOK'
    BY <1>1 DEF RemoveNetwork, MemOK, KernelOK
  <2> QED BY <1>1, <2>2, <2>3, <2>4, Frame DEF RemoveNetwork
<1>2. CASE ReleaseSubnet
  <2>1. StoreOK'
    BY <1>2 DEF ReleaseSubnet, StoreOK
  <2>2. OpOK' /\ OpInv'
    BY <1>2 DEF ReleaseSubnet, Doing, OpOK, Steps, OpInv, Creating, Removing, Connecting,
       Plugged, Disconnecting, Detached, Connected, Stored
  <2> QED BY <1>2, <2>1, <2>2, Frame DEF ReleaseSubnet
<1>3. CASE RemoveRecord
  <2>1. StoreOK'
    BY <1>3 DEF RemoveRecord, StoreOK
  <2> QED BY <1>3, <2>1, IdleOp, Frame DEF RemoveRecord
<1> QED BY <1>1, <1>2, <1>3

LEMMA UnplugType ==
  ASSUME KernelOK, NEW c \in Ctrs, NEW a \in Address PROVE Unplug(c, a) \in [Ctrs -> Address \cup {NoEth0}]
BY DEF KernelOK, Unplug

LEMMA ReleaseType ==
  ASSUME StoreOK, NEW s \in Subnets, NEW ip PROVE Release(s, ip) \in [Subnets -> SUBSET Offsets]
BY DEF StoreOK, Release

LEMMA RegisterType ==
  ASSUME MemOK, NEW n \in Ids, NEW c \in Ctrs, NEW ip \in Offsets \cup {NoAddress},
         Register(n, c, ip)
  PROVE  dns' \in [Ids -> [Ctrs -> Offsets \cup {NoAddress}]]
BY DEF MemOK, Register

LEMMA EndpointTypes ==
  ASSUME StoreOK, NEW n \in Ids, NEW ep \in Endpoint, Stored(n)
  PROVE  /\ SubnetOf(n) \in Subnets
         /\ AddressOf(n, ep) \in Address
         /\ RulesOf(n, ep) \subseteq Rule
<1>1. SubnetOf(n) \in Subnets
  BY DEF StoreOK, Stored, SubnetOf, Network
<1>2. ep.ip \in Offsets /\ ep.ports \subseteq Ports
  BY DEF Endpoint
<1>3. AddressOf(n, ep) \in Address
  BY <1>1, <1>2 DEF AddressOf, Address
<1>4. \A p \in ep.ports : [port |-> p, subnet |-> SubnetOf(n), ip |-> ep.ip] \in Rule
  BY <1>1, <1>2 DEF Rule
<1> QED BY <1>1, <1>3, <1>4 DEF RulesOf

LEMMA ConnectType ==
  ASSUME TypeInv,
         \/ \E n \in Ids, c \in Ctrs : \E ports \in {Publishes[c], {}} : Allocate(n, c, ports)
         \/ ConnectVeth \/ ConnectRules \/ ConnectEndpoint
  PROVE  TypeInv'
<1> USE DEF TypeInv, TypeOK
<1>1. ASSUME NEW n \in Ids, NEW c \in Ctrs, NEW ports \in {Publishes[c], {}}, Allocate(n, c, ports)
      PROVE  TypeInv'
  <2>1. PICK ip \in Lowest(FreeOffsets(SubnetOf(n))) :
          /\ bitmap' = [bitmap EXCEPT ![SubnetOf(n)] = @ \cup {ip}]
          /\ op' = [Idle EXCEPT !.step = "veth", !.net = n, !.ctr = c,
                      !.ep = [ip |-> ip, ports |-> ports], !.found = Found]
    BY <1>1 DEF Allocate
  <2> DEFINE ep == [ip |-> ip, ports |-> ports]
  <2>2. ip \in Offsets /\ ep \in Endpoint
    BY NetworkConstants DEF Lowest, FreeOffsets, Endpoint, NetworkConstants
  <2>3. op' = [step |-> "veth", net |-> n, ctr |-> c, todo |-> {}, rec |-> NoNet, ep |-> ep,
               found |-> Found]
    BY <2>1 DEF Idle
  <2>4. OpOK'
    BY <2>2, <2>3, IdleType, "veth" \in Steps DEF Steps
  <2>5. OpInv'
    BY <1>1, <2>2, <2>3 DEF Allocate, OpInv, Creating, Removing, Connecting, Plugged,
       Disconnecting, Detached, Stored
  <2>6. StoreOK'
    <3>1. bitmap' \in [Subnets -> SUBSET Offsets]
      BY <2>1, <2>2 DEF StoreOK
    <3> QED BY <1>1, <3>1 DEF Allocate, StoreOK
  <2>7. DaemonOK'
    <3>1. connects < MaxConnect /\ connects' = connects + 1 /\ UNCHANGED <<up, daemon, crashes, lost>>
      BY <1>1 DEF Allocate
    <3> QED BY <3>1, NetworkConstants DEF DaemonOK, NetworkConstants
  <2> QED BY <1>1, <2>4, <2>5, <2>6, <2>7, Frame DEF Allocate
<1>2. ASSUME Connecting
      PROVE  /\ op.net \in Ids /\ op.ctr \in Ctrs /\ op.ep \in Endpoint /\ op.ep.ip \in Offsets
             /\ SubnetOf(op.net) \in Subnets /\ AddressOf(op.net, op.ep) \in Address
             /\ RulesOf(op.net, op.ep) \subseteq Rule
  BY <1>2, EndpointTypes DEF OpOK, OpInv, Endpoint
<1>3. CASE ConnectVeth
  <2>1. Connecting
    BY <1>3 DEF ConnectVeth, Doing, Connecting
  <2>2. StoreOK' /\ KernelOK'
    BY <1>2, <1>3, <2>1, ReleaseType DEF ConnectVeth, StoreOK, KernelOK
  <2>3. OpOK' /\ OpInv'
    <3>1. CASE op' = Idle
      BY <3>1, IdleOp
    <3>2. CASE op' = [op EXCEPT !.step = "rules"] /\ op.net \in bridges
      BY <1>3, <2>1, <3>2 DEF ConnectVeth, Doing, OpOK, Steps, OpInv, Creating, Removing, Connecting,
         Plugged, Disconnecting, Detached, Stored
    <3> QED BY <1>3, <3>1, <3>2 DEF ConnectVeth
  <2> QED BY <1>3, <2>2, <2>3, Frame DEF ConnectVeth
<1>4. CASE ConnectRules
  <2>1. Connecting
    BY <1>4 DEF ConnectRules, Doing, Connecting
  <2>2. StoreOK' /\ KernelOK'
    BY <1>2, <1>4, <2>1, ReleaseType, UnplugType DEF ConnectRules, StoreOK, KernelOK
  <2>3. OpOK' /\ OpInv'
    <3>1. CASE op' = Idle
      BY <3>1, IdleOp
    <3>2. CASE op' = [op EXCEPT !.step = "endpoint"]
      BY <1>4, <2>1, <3>2 DEF ConnectRules, Doing, OpOK, Steps, OpInv, Creating, Removing, Connecting,
         Plugged, Disconnecting, Detached, Stored
    <3> QED BY <1>4, <3>1, <3>2 DEF ConnectRules
  <2>4. MemOK'
    BY <1>2, <1>4, <2>1, RegisterType DEF ConnectRules, MemOK
  <2> QED BY <1>4, <2>2, <2>3, <2>4, Frame DEF ConnectRules
<1>5. CASE ConnectEndpoint
  <2>1. Connecting
    BY <1>5 DEF ConnectEndpoint, Doing, Connecting
  <2>2. StoreOK' /\ KernelOK'
    <3>1. eps' \in [Ids -> [Ctrs -> Endpoint \cup {NoEp}]]
      BY <1>2, <1>5, <2>1 DEF ConnectEndpoint, StoreOK
    <3>2. bitmap' \in [Subnets -> SUBSET Offsets]
      BY <1>2, <1>5, <2>1, ReleaseType DEF ConnectEndpoint, StoreOK
    <3>3. eth0' \in [Ctrs -> Address \cup {NoEth0}]
      BY <1>2, <1>5, <2>1, UnplugType DEF ConnectEndpoint, KernelOK
    <3> QED BY <1>5, <3>1, <3>2, <3>3 DEF ConnectEndpoint, StoreOK, KernelOK
  <2>3. MemOK'
    BY <1>2, <1>5, <2>1, RegisterType DEF ConnectEndpoint, MemOK
  <2>4. LosesAddress(op.net, op.ctr) \subseteq Address
    BY <1>2, <2>1, EndpointTypes DEF LosesAddress, StoreOK, Connected, OpInv
  <2>5. DaemonOK'
    BY <1>5, <2>4 DEF ConnectEndpoint, DaemonOK, daemonVars
  <2> QED BY <1>5, <2>2, <2>3, <2>5, IdleOp DEF ConnectEndpoint
<1> QED BY <1>1, <1>3, <1>4, <1>5

LEMMA DisconnectType ==
  ASSUME TypeInv,
         \/ \E n \in Ids, c \in Ctrs : Disconnect(n, c)
         \/ \E c \in Ctrs : DisconnectAll(c)
         \/ Detach \/ ReleaseAddress \/ DeleteEndpoint
  PROVE  TypeInv'
<1> USE DEF TypeInv, TypeOK
<1>1. ASSUME NEW c \in Ctrs, NEW todo \in SUBSET Ids, \A n \in todo : Connected(n, c),
             op' = [Idle EXCEPT !.step = "detach", !.ctr = c, !.todo = todo],
             UNCHANGED <<storeVars, kernelVars, memVars, up, daemonVars, lost>>
      PROVE  TypeInv'
  <2>1. op' = [step |-> "detach", net |-> Default, ctr |-> c, todo |-> todo, rec |-> NoNet,
               ep |-> NoEp, found |-> <<>>]
    BY <1>1 DEF Idle
  <2>2. OpOK'
    BY <2>1, Domains, IdleType, "detach" \in Steps DEF Steps
  <2>3. OpInv'
    BY <1>1, <2>1 DEF OpInv, Creating, Removing, Connecting, Plugged, Disconnecting, Detached,
       Connected, storeVars
  <2> QED BY <1>1, <2>2, <2>3, Frame
<1>2. ASSUME NEW n \in Ids, NEW c \in Ctrs, Disconnect(n, c) PROVE TypeInv'
  <2>1. {n} \in SUBSET Ids /\ \A m \in {n} : Connected(m, c)
    BY <1>2 DEF Disconnect
  <2>2. /\ op' = [Idle EXCEPT !.step = "detach", !.ctr = c, !.todo = {n}]
        /\ UNCHANGED <<storeVars, kernelVars, memVars, up, daemonVars, lost>>
    BY <1>2 DEF Disconnect
  <2> QED BY <1>1, <2>1, <2>2
<1>3. ASSUME NEW c \in Ctrs, DisconnectAll(c) PROVE TypeInv'
  <2>1. NetworksOf(c) \in SUBSET Ids /\ \A m \in NetworksOf(c) : Connected(m, c)
    BY DEF NetworksOf
  <2>2. /\ op' = [Idle EXCEPT !.step = "detach", !.ctr = c, !.todo = NetworksOf(c)]
        /\ UNCHANGED <<storeVars, kernelVars, memVars, up, daemonVars, lost>>
    BY <1>3 DEF DisconnectAll
  <2> QED BY <1>1, <2>1, <2>2
<1>4. CASE Detach
  <2>1. PICK n \in op.todo :
          /\ rules' = rules \ RulesOf(n, eps[n][op.ctr])
          /\ dns' = [dns EXCEPT ![n][op.ctr] = NoAddress]
          /\ eth0' = Unplug(op.ctr, AddressOf(n, eps[n][op.ctr]))
          /\ op' = [op EXCEPT !.step = "release", !.net = n, !.ep = eps[n][op.ctr]]
    BY <1>4 DEF Detach
  <2>2. /\ n \in Ids /\ op.ctr \in Ctrs /\ eps[n][op.ctr] \in Endpoint \cup {NoEp}
        /\ \A m \in op.todo : Connected(m, op.ctr)
        /\ op.step = "detach"
    <3>1. op.step = "detach" /\ op.todo \in SUBSET Ids
      BY <1>4 DEF Detach, Doing, OpOK
    <3>2. op.ctr \in Ctrs /\ \A m \in op.todo : Connected(m, op.ctr)
      BY <3>1 DEF OpInv, Disconnecting
    <3> QED BY <2>1, <3>1, <3>2 DEF StoreOK
  <2>3. KernelOK'
    BY <1>4, <2>1, <2>2 DEF Detach, KernelOK, Unplug
  <2>4. MemOK'
    BY <1>4, <2>1, <2>2 DEF Detach, MemOK
  <2>5. OpOK'
    <3>1. Endpoint \cup {NoEp} \subseteq [ip : Offsets \cup {NoAddress}, ports : SUBSET Ports]
      BY DEF Endpoint, NoEp
    <3>2. eps[n][op.ctr] \in [ip : Offsets \cup {NoAddress}, ports : SUBSET Ports] /\ "release" \in Steps
      BY <2>2, <3>1 DEF Steps
    <3> QED BY <2>1, <2>2, <3>2 DEF OpOK
  <2>6. OpInv'
    BY <1>4, <2>1, <2>2 DEF Detach, OpOK, OpInv, Creating, Removing, Connecting, Plugged,
       Disconnecting, Detached, Connected, storeVars
  <2> QED BY <1>4, <2>3, <2>4, <2>5, <2>6, Frame DEF Detach
<1>5. CASE ReleaseAddress
  <2>1. StoreOK'
    BY <1>5 DEF ReleaseAddress, StoreOK, Release
  <2>2. OpOK' /\ OpInv'
    BY <1>5 DEF ReleaseAddress, Doing, OpOK, Steps, OpInv, Creating, Removing, Connecting,
       Plugged, Disconnecting, Detached, Connected
  <2> QED BY <1>5, <2>1, <2>2, Frame DEF ReleaseAddress
<1>6. CASE DeleteEndpoint
  <2>1. /\ op.net \in Ids /\ op.ctr \in Ctrs /\ op.todo \in SUBSET Ids
        /\ \A m \in op.todo : Connected(m, op.ctr)
    BY <1>6 DEF DeleteEndpoint, Doing, OpOK, OpInv, Disconnecting
  <2>2. StoreOK'
    BY <1>6, <2>1 DEF DeleteEndpoint, StoreOK
  <2>3. CASE op' = Idle
    BY <1>6, <2>2, <2>3, IdleOp, Frame DEF DeleteEndpoint
  <2>4. CASE op' = [Idle EXCEPT !.step = "detach", !.ctr = op.ctr, !.todo = op.todo \ {op.net}]
    <3>1. op' = [step |-> "detach", net |-> Default, ctr |-> op.ctr, todo |-> op.todo \ {op.net},
                 rec |-> NoNet, ep |-> NoEp, found |-> <<>>]
      BY <2>4 DEF Idle
    <3>2. OpOK'
      BY <2>1, <3>1, Domains, IdleType, "detach" \in Steps DEF Steps
    <3>3. \A m \in op.todo \ {op.net} : eps'[m][op.ctr] = eps[m][op.ctr]
      BY <1>6, <2>1 DEF DeleteEndpoint, StoreOK
    <3>4. OpInv'
      BY <2>1, <3>1, <3>3 DEF OpInv, Creating, Removing, Connecting, Plugged, Disconnecting,
         Detached, Connected
    <3> QED BY <1>6, <2>2, <3>2, <3>4, Frame DEF DeleteEndpoint
  <2> QED BY <1>6, <2>3, <2>4 DEF DeleteEndpoint
<1> QED BY <1>2, <1>3, <1>4, <1>5, <1>6

LEMMA EnvironmentType ==
  ASSUME TypeInv, (\E c \in Ctrs : CtrCreate(c) \/ CtrExit(c)) \/ Crash \/ Close \/ Boot
  PROVE  TypeInv'
<1> USE DEF TypeInv, TypeOK
<1>1. ASSUME UNCHANGED <<storeVars, bridges, op>> PROVE OpOK' /\ OpInv'
  BY <1>1 DEF OpOK, OpInv, Creating, Removing, Connecting, Plugged, Disconnecting,
     Detached, Connected, Stored, storeVars
<1>2. ASSUME NEW c \in Ctrs, CtrCreate(c) PROVE TypeInv'
  <2>1. DaemonOK'
    BY <1>2 DEF CtrCreate, DaemonOK, daemonVars
  <2> QED BY <1>1, <1>2, <2>1, Frame DEF CtrCreate, kernelVars
<1>3. ASSUME NEW c \in Ctrs, CtrExit(c) PROVE TypeInv'
  <2>1. DaemonOK' /\ KernelOK'
    BY <1>3 DEF CtrExit, DaemonOK, KernelOK, daemonVars, Netless
  <2> QED BY <1>1, <1>3, <2>1, Frame DEF CtrExit
<1>4. ASSUME MemoryGone, crashes < MaxCrash PROVE StoreOK' /\ MemOK' /\ OpOK' /\ OpInv'
  BY <1>4, IdleOp, Frame DEF MemoryGone, MemOK
<1>5. CASE Crash
  <2>1. op.step \in {"veth", "rules", "endpoint"} => AddressOf(op.net, op.ep) \in Address
    BY EndpointTypes DEF OpInv, Connecting, OpOK
  <2>2. KernelOK'
    BY <1>5 DEF Crash, MemoryGone, KernelOK, MemOK
  <2>3. lost' \subseteq Address
    BY <1>5, <2>1 DEF Crash, DaemonOK
  <2>4. crashes' \in 0..MaxCrash
    BY <1>5, NetworkConstants DEF Crash, MemoryGone, DaemonOK, NetworkConstants
  <2>5. DaemonOK'
    BY <1>5, <2>3, <2>4 DEF Crash, MemoryGone, DaemonOK
  <2> QED BY <1>4, <1>5, <2>2, <2>5 DEF Crash
<1>6. CASE Close
  <2>1. KernelOK'
    BY <1>6 DEF Close, MemoryGone, KernelOK
  <2>2. crashes' \in 0..MaxCrash
    BY <1>6, NetworkConstants DEF Close, MemoryGone, DaemonOK, NetworkConstants
  <2>3. DaemonOK'
    BY <1>6, <2>2 DEF Close, MemoryGone, DaemonOK
  <2> QED BY <1>4, <1>6, <2>1, <2>3 DEF Close
<1>7. CASE Boot
  <2>1. PICK made \in SUBSET {n \in Ids : Stored(n) /\ n \notin bridges} :
          /\ bridges' = bridges \cup made
          /\ masq' = {SubnetOf(n) : n \in {m \in Ids : Stored(m) /\ m \in bridges \cup made}}
          /\ dns' = [n \in Ids |-> [c \in Ctrs |->
                IF n \in {m \in Ids : Stored(m) /\ m \in bridges \cup made} \ {Default}
                THEN eps[n][c].ip ELSE NoAddress]]
    BY <1>7 DEF Boot
  <2>2. PICK killed \in SUBSET up : up' = up \ killed /\ eth0' = Netless(killed)
    BY <1>7 DEF Boot
  <2>3. UNCHANGED <<storeVars, oldRules, rules, op, crashes, connects, lost>> /\ daemon' = "up"
    BY <1>7 DEF Boot
  <2>4. KernelOK' /\ DaemonOK'
    BY <2>1, <2>2, <2>3 DEF KernelOK, DaemonOK, Netless
  <2>5. \A n \in Ids, c \in Ctrs : eps[n][c].ip \in Offsets \cup {NoAddress}
    BY DEF StoreOK, Endpoint, NoEp
  <2>6. \A n \in Ids : Stored(n) => SubnetOf(n) \in Subnets
    BY DEF StoreOK, Stored, SubnetOf, Network
  <2>7. MemOK'
    BY <2>1, <2>3, <2>5, <2>6 DEF MemOK
  <2>8. OpOK' /\ OpInv'
    BY <2>1, <2>3 DEF OpOK, OpInv, Creating, Removing, Connecting, Plugged, Disconnecting,
       Detached, Connected, Stored, storeVars
  <2> QED BY <2>3, <2>4, <2>7, <2>8, Frame
<1> QED BY <1>2, <1>3, <1>5, <1>6, <1>7

\* The steps, as the lemmas group them.
LEMMA NextCases ==
  Next =>
    \/ \/ \E n \in Ids, name \in Names, s \in Subnets, i \in Internals : CreateNetwork(n, name, s, i)
       \/ CreateMasquerade \/ CreateRecord
    \/ (\E n \in Ids : RemoveNetwork(n)) \/ ReleaseSubnet \/ RemoveRecord
    \/ \/ \E n \in Ids, c \in Ctrs : \E ports \in {Publishes[c], {}} : Allocate(n, c, ports)
       \/ ConnectVeth \/ ConnectRules \/ ConnectEndpoint
    \/ \/ \E n \in Ids, c \in Ctrs : Disconnect(n, c)
       \/ \E c \in Ctrs : DisconnectAll(c)
       \/ Detach \/ ReleaseAddress \/ DeleteEndpoint
    \/ (\E c \in Ctrs : CtrCreate(c) \/ CtrExit(c)) \/ Crash \/ Close \/ Boot
BY DEF Next

LEMMA TypeStep == ASSUME TypeInv, [Next]_vars PROVE TypeInv'
<1>1. CASE Next
  BY <1>1, NextCases, CreateType, RemoveType, ConnectType, DisconnectType, EnvironmentType
<1>2. CASE UNCHANGED vars
  <2>1. OpOK' /\ OpInv'
    BY <1>2 DEF vars, TypeInv, TypeOK, OpOK, OpInv, Creating, Removing, Connecting, Plugged,
       Disconnecting, Detached, Connected, Stored, storeVars, kernelVars
  <2> QED BY <1>2, <2>1, Frame DEF vars, TypeInv, TypeOK
<1> QED BY <1>1, <1>2

\* Every reachable state is well typed: no handler reads an address, a record or
\* an endpoint where there is none (network/manager.go).
THEOREM TypeCorrect == Spec => []TypeOK
<1>1. Init => TypeInv
  BY TypeInit
<1>2. TypeInv /\ [Next]_vars => TypeInv'
  BY TypeStep
<1>3. TypeInv => TypeOK
  BY DEF TypeInv
<1> QED BY <1>1, <1>2, <1>3, PTL DEF Spec

-----------------------------------------------------------------------------
(* What the store, DNS and NAT agree on *)

LEMMA HeldStep == ASSUME TypeInv, NetworkHeld, [Next]_vars PROVE NetworkHeld'
<1> USE DEF TypeInv, TypeOK
<1>1. ASSUME UNCHANGED <<nets, eps>>, bridges \subseteq bridges' PROVE NetworkHeld'
  BY <1>1 DEF NetworkHeld, Connected, Stored
<1>2. ASSUME NEW n \in Ids, UNCHANGED <<nets, eps>>, bridges' = bridges \ {n},
             \A c \in Ctrs : ~Connected(n, c)
      PROVE  NetworkHeld'
  BY <1>2 DEF NetworkHeld, Connected, Stored
<1>3. op.net \in Ids /\ (Creating => ~Stored(op.net) /\ op.rec \in Network)
  BY DEF OpOK, OpInv
<1>4. Creating => \A c \in Ctrs : ~Connected(op.net, c)
  BY <1>3 DEF NetworkHeld
<1>5. CASE CreateMasquerade
  <2>1. Creating
    BY <1>5 DEF CreateMasquerade, Doing, Creating
  <2> QED BY <1>1, <1>2, <1>3, <1>4, <1>5, <2>1 DEF CreateMasquerade, storeVars
<1>6. CASE CreateRecord
  <2>1. Creating
    BY <1>6 DEF CreateRecord, Doing, Creating
  <2>2. CASE nets' = [nets EXCEPT ![op.net] = op.rec] /\ UNCHANGED <<eps, bridges>>
    BY <1>3, <2>1, <2>2, Domains DEF NetworkHeld, Connected, Stored, StoreOK
  <2>3. CASE UNCHANGED <<nets, eps>> /\ bridges' = bridges \ {op.net}
    BY <1>2, <1>3, <1>4, <2>1, <2>3
  <2> QED BY <1>6, <2>2, <2>3 DEF CreateRecord
<1>7. ASSUME NEW n \in Ids, RemoveNetwork(n) PROVE NetworkHeld'
  BY <1>2, <1>7 DEF RemoveNetwork, storeVars
<1>8. CASE RemoveRecord
  <2>1. \A c \in Ctrs : ~Connected(op.net, c)
    BY <1>8 DEF RemoveRecord, Doing, OpInv, Removing
  <2> QED BY <1>3, <1>8, <2>1 DEF RemoveRecord, NetworkHeld, Connected, Stored, StoreOK, kernelVars
<1>9. CASE ConnectEndpoint
  <2>1. op.ctr \in Ctrs /\ Stored(op.net) /\ op.net \in bridges
    BY <1>9 DEF ConnectEndpoint, Doing, OpInv, Connecting, Plugged
  <2>2. eps' = eps \/ eps' = [eps EXCEPT ![op.net][op.ctr] = op.ep]
    BY <1>9 DEF ConnectEndpoint
  <2>3. ASSUME NEW n \in Ids, NEW c \in Ctrs, Connected(n, c)' PROVE Connected(n, c) \/ n = op.net
    BY <1>3, <2>1, <2>2, <2>3 DEF Connected, StoreOK
  <2> QED BY <1>9, <2>1, <2>3 DEF ConnectEndpoint, NetworkHeld, Stored
<1>10. CASE DeleteEndpoint
  <2>1. op.ctr \in Ctrs
    BY <1>10 DEF DeleteEndpoint, Doing, OpInv, Disconnecting
  <2>2. ASSUME NEW n \in Ids, NEW c \in Ctrs, Connected(n, c)' PROVE Connected(n, c)
    BY <1>3, <1>10, <2>1, <2>2 DEF DeleteEndpoint, Connected, StoreOK
  <2> QED BY <1>10, <2>2 DEF DeleteEndpoint, NetworkHeld, Stored, kernelVars
<1>11. CASE Boot
  BY <1>1, <1>11 DEF Boot, storeVars
<1>12. ASSUME NEW n \in Ids, NEW name \in Names, NEW s \in Subnets, NEW i \in Internals,
              CreateNetwork(n, name, s, i)
       PROVE  NetworkHeld'
  BY <1>1, <1>12 DEF CreateNetwork, storeVars
<1>13. ASSUME NEW n \in Ids, NEW c \in Ctrs, NEW ports \in {Publishes[c], {}}, Allocate(n, c, ports)
       PROVE  NetworkHeld'
  BY <1>1, <1>13 DEF Allocate, kernelVars
<1>14. CASE ReleaseSubnet \/ ConnectVeth \/ ConnectRules \/ Detach \/ ReleaseAddress
  BY <1>1, <1>14 DEF ReleaseSubnet, ConnectVeth, ConnectRules, Detach, ReleaseAddress,
     storeVars, kernelVars
<1>15. CASE (\E n \in Ids, c \in Ctrs : Disconnect(n, c)) \/ \E c \in Ctrs : DisconnectAll(c)
  BY <1>1, <1>15 DEF Disconnect, DisconnectAll, storeVars, kernelVars
<1>16. CASE (\E c \in Ctrs : CtrCreate(c) \/ CtrExit(c)) \/ Crash \/ Close
  BY <1>1, <1>16 DEF CtrCreate, CtrExit, Crash, Close, MemoryGone, storeVars, kernelVars
<1>17. CASE UNCHANGED vars
  BY <1>1, <1>17 DEF vars, storeVars, kernelVars
<1> QED BY <1>5, <1>6, <1>7, <1>8, <1>9, <1>10, <1>11, <1>12, <1>13, <1>14, <1>15, <1>16, <1>17,
           NextCases

LEMMA DownStep == ASSUME DownInv, [Next]_vars PROVE DownInv'
<1>1. ASSUME daemon = "up", UNCHANGED daemon PROVE DownInv'
  BY <1>1 DEF DownInv
<1>2. CASE UNCHANGED vars
  BY <1>2 DEF vars, daemonVars, DownInv
<1>3. CASE \/ \E n \in Ids, name \in Names, s \in Subnets, i \in Internals : CreateNetwork(n, name, s, i)
           \/ CreateMasquerade \/ CreateRecord
  BY <1>1, <1>3 DEF CreateNetwork, CreateMasquerade, CreateRecord, Free, Doing, daemonVars
<1>4. CASE (\E n \in Ids : RemoveNetwork(n)) \/ ReleaseSubnet \/ RemoveRecord
  BY <1>1, <1>4 DEF RemoveNetwork, ReleaseSubnet, RemoveRecord, Free, Doing, daemonVars
<1>5. ASSUME NEW n \in Ids, NEW c \in Ctrs, NEW ports \in {Publishes[c], {}}, Allocate(n, c, ports)
      PROVE  DownInv'
  BY <1>1, <1>5 DEF Allocate, Free
<1>6. CASE ConnectVeth \/ ConnectRules \/ ConnectEndpoint
  BY <1>1, <1>6 DEF ConnectVeth, ConnectRules, ConnectEndpoint, Doing, daemonVars
<1>7. CASE \/ \E n \in Ids, c \in Ctrs : Disconnect(n, c)
           \/ \E c \in Ctrs : DisconnectAll(c)
           \/ Detach \/ ReleaseAddress \/ DeleteEndpoint
  BY <1>1, <1>7 DEF Disconnect, DisconnectAll, Detach, ReleaseAddress, DeleteEndpoint, Free, Doing,
     daemonVars
<1>8. CASE (\E c \in Ctrs : CtrCreate(c) \/ CtrExit(c)) \/ Crash \/ Close \/ Boot
  <2>1. CASE (\E c \in Ctrs : CtrCreate(c) \/ CtrExit(c)) \/ Boot
    BY <2>1 DEF CtrCreate, CtrExit, Boot, DownInv, daemonVars
  <2>2. CASE Crash \/ Close
    <3>1. op' = Idle
      BY <2>2 DEF Crash, Close, MemoryGone
    <3> QED BY <3>1 DEF Idle, DownInv
  <2> QED BY <1>8, <2>1, <2>2
<1> QED BY <1>2, <1>3, <1>4, <1>5, <1>6, <1>7, <1>8, NextCases

LEMMA DnsStep == ASSUME TypeInv, DownInv, NetworkHeld, DnsInv, [Next]_vars PROVE DnsInv'
<1> USE DEF TypeInv, TypeOK
<1>1. ASSUME UNCHANGED <<eps, dns>>, op.step # "endpoint",
             op'.step \notin {"endpoint", "release", "delete"}
      PROVE  DnsInv'
  BY <1>1 DEF DnsInv, DnsTruthful, Detached
<1>2. ASSUME UNCHANGED <<eps, dns, op>> PROVE DnsInv'
  BY <1>2 DEF DnsInv, DnsTruthful, Detached
<1>3. op.net \in Ids /\ dns \in [Ids -> [Ctrs -> Offsets \cup {NoAddress}]]
  BY DEF OpOK, MemOK
<1>4. ASSUME NEW n \in Ids, NEW name \in Names, NEW s \in Subnets, NEW i \in Internals,
             CreateNetwork(n, name, s, i)
      PROVE  DnsInv'
  BY <1>1, <1>4 DEF CreateNetwork, Free, Idle, storeVars, memVars
<1>5. CASE CreateMasquerade \/ CreateRecord
  BY <1>1, <1>5 DEF CreateMasquerade, CreateRecord, Doing, Idle, OpOK, storeVars
<1>6. ASSUME NEW n \in Ids, RemoveNetwork(n) PROVE DnsInv'
  <2>1. op.step = "idle" /\ op'.step = "subnet" /\ UNCHANGED eps
        /\ dns' = [dns EXCEPT ![n] = [c \in Ctrs |-> NoAddress]]
    BY <1>6 DEF RemoveNetwork, Free, Idle, storeVars
  <2> QED BY <1>3, <2>1 DEF DnsInv, DnsTruthful, Detached
<1>7. CASE ReleaseSubnet \/ RemoveRecord
  BY <1>1, <1>7 DEF ReleaseSubnet, RemoveRecord, Doing, Idle, OpOK, memVars
<1>8. ASSUME NEW n \in Ids, NEW c \in Ctrs, NEW ports \in {Publishes[c], {}}, Allocate(n, c, ports)
      PROVE  DnsInv'
  BY <1>1, <1>8 DEF Allocate, Free, Idle, memVars
<1>9. CASE ConnectVeth
  BY <1>1, <1>9 DEF ConnectVeth, Doing, Idle, OpOK, memVars
<1>10. CASE ConnectRules
  <2>1. op.step = "rules" /\ op.ctr \in Ctrs /\ UNCHANGED eps
    BY <1>10 DEF ConnectRules, Doing, OpInv, Connecting
  <2>2. CASE Register(op.net, op.ctr, op.ep.ip) /\ op' = [op EXCEPT !.step = "endpoint"]
    <3>1. op'.step = "endpoint" /\ op'.net = op.net /\ op'.ctr = op.ctr /\ op'.ep = op.ep
      BY <2>2 DEF OpOK
    <3>2. \A c \in Ctrs : dns'[Default][c] = NoAddress
      BY <1>3, <2>1, <2>2 DEF Register, DnsInv
    <3>3. ASSUME NEW n \in Ids, NEW c \in Ctrs
          PROVE  \/ dns'[n][c] = dns[n][c]
                 \/ n = op.net /\ c = op.ctr /\ dns'[n][c] = op.ep.ip
      <4>1. dns' = dns \/ dns' = [dns EXCEPT ![op.net][op.ctr] = op.ep.ip]
        BY <2>2 DEF Register
      <4>2. CASE dns' = [dns EXCEPT ![op.net][op.ctr] = op.ep.ip]
        BY <1>3, <2>1, <4>2
      <4> QED BY <4>1, <4>2
    <3>4. dns'[op.net][op.ctr] \in {NoAddress, op.ep.ip}
      BY <1>3, <2>1, <2>2, Domains DEF Register, DnsInv
    <3> QED BY <2>1, <3>1, <3>2, <3>3, <3>4 DEF DnsInv, DnsTruthful, Detached
  <2>3. CASE op' = Idle /\ UNCHANGED dns
    BY <1>1, <2>1, <2>3 DEF Idle
  <2> QED BY <1>10, <2>2, <2>3 DEF ConnectRules
<1>11. CASE ConnectEndpoint
  <2>1. op.step = "endpoint" /\ op.ctr \in Ctrs /\ op'.step = "idle"
    BY <1>11 DEF ConnectEndpoint, Doing, OpInv, Connecting, Idle
  <2>2. CASE eps' = [eps EXCEPT ![op.net][op.ctr] = op.ep] /\ UNCHANGED dns
    <3>1. ASSUME NEW n \in Ids, NEW c \in Ctrs
          PROVE  eps'[n][c] = IF n = op.net /\ c = op.ctr THEN op.ep ELSE eps[n][c]
      BY <1>3, <2>1, <2>2 DEF StoreOK
    <3> QED BY <1>3, <2>1, <2>2, <3>1 DEF DnsInv, DnsTruthful, Detached
  <2>3. CASE Register(op.net, op.ctr, NoAddress) /\ UNCHANGED eps
    <3>1. ASSUME NEW n \in Ids, NEW c \in Ctrs
          PROVE  dns'[n][c] = IF n = op.net /\ c = op.ctr THEN NoAddress ELSE dns[n][c]
      BY <1>3, <2>1, <2>3 DEF Register, DnsInv
    <3> QED BY <1>3, <2>1, <2>3, <3>1, Domains DEF DnsInv, DnsTruthful, Detached
  <2> QED BY <1>11, <2>2, <2>3 DEF ConnectEndpoint
<1>12. CASE (\E n \in Ids, c \in Ctrs : Disconnect(n, c)) \/ \E c \in Ctrs : DisconnectAll(c)
  BY <1>1, <1>12 DEF Disconnect, DisconnectAll, Free, Idle, storeVars, memVars
<1>13. CASE Detach
  <2>1. PICK n \in op.todo :
          /\ dns' = [dns EXCEPT ![n][op.ctr] = NoAddress]
          /\ op' = [op EXCEPT !.step = "release", !.net = n, !.ep = eps[n][op.ctr]]
    BY <1>13 DEF Detach
  <2>2. n \in Ids /\ op.ctr \in Ctrs /\ UNCHANGED eps /\ op.step = "detach"
    BY <1>13 DEF Detach, Doing, OpOK, OpInv, Disconnecting, storeVars
  <2>3. op'.step = "release" /\ op'.net = n /\ op'.ctr = op.ctr
    BY <2>1 DEF OpOK
  <2>4. ASSUME NEW m \in Ids, NEW c \in Ctrs
        PROVE  dns'[m][c] = IF m = n /\ c = op.ctr THEN NoAddress ELSE dns[m][c]
    BY <1>3, <2>1, <2>2
  <2> QED BY <2>2, <2>3, <2>4, Domains DEF DnsInv, DnsTruthful, Detached
<1>14. CASE ReleaseAddress
  BY <1>14 DEF ReleaseAddress, Doing, OpOK, DnsInv, DnsTruthful, Detached, memVars
<1>15. CASE DeleteEndpoint
  <2>1. op.step = "delete" /\ op.ctr \in Ctrs /\ UNCHANGED dns /\ op'.step \in {"idle", "detach"}
    BY <1>15 DEF DeleteEndpoint, Doing, OpInv, Disconnecting, Idle, memVars
  <2>2. ASSUME NEW n \in Ids, NEW c \in Ctrs
        PROVE  eps'[n][c] = IF n = op.net /\ c = op.ctr THEN NoEp ELSE eps[n][c]
    BY <1>3, <1>15, <2>1 DEF DeleteEndpoint, StoreOK
  <2> QED BY <2>1, <2>2 DEF DnsInv, DnsTruthful, Detached
<1>16. CASE \E c \in Ctrs : CtrCreate(c) \/ CtrExit(c)
  BY <1>2, <1>16 DEF CtrCreate, CtrExit, storeVars, memVars
<1>17. CASE Crash \/ Close
  <2>1. op'.step = "idle" /\ dns' = [n \in Ids |-> [c \in Ctrs |-> NoAddress]]
    BY <1>17 DEF Crash, Close, MemoryGone, Idle
  <2> QED BY <2>1, Domains DEF DnsInv, DnsTruthful, Detached
<1>18. CASE Boot
  <2>1. op.step = "idle" /\ UNCHANGED <<op, eps>>
    BY <1>18 DEF Boot, DownInv, storeVars
  <2>2. PICK restored \in SUBSET Ids :
          dns' = [n \in Ids |-> [c \in Ctrs |->
                    IF n \in restored \ {Default} THEN eps[n][c].ip ELSE NoAddress]]
    BY <1>18 DEF Boot
  <2> QED BY <2>1, <2>2, Domains DEF DnsInv, DnsTruthful, Detached
<1>19. CASE UNCHANGED vars
  BY <1>2, <1>19 DEF vars, storeVars, memVars
<1> QED BY <1>4, <1>5, <1>6, <1>7, <1>8, <1>9, <1>10, <1>11, <1>12, <1>13, <1>14, <1>15, <1>16,
           <1>17, <1>18, <1>19, NextCases

LEMMA RulesStep == ASSUME TypeInv, DownInv, NetworkHeld, RulesInv, [Next]_vars PROVE RulesInv'
<1> USE DEF TypeInv, TypeOK
<1>1. ASSUME UNCHANGED eps, rules' \subseteq rules, lost \subseteq lost',
             \A n \in Ids, c \in Ctrs : Connected(n, c) => nets'[n] = nets[n],
             op.step # "endpoint", op'.step \notin {"release", "delete"}
      PROVE  RulesInv'
  BY <1>1 DEF RulesInv, RulesOwned, RulesOf, SubnetOf, Connected, Detached
<1>2. ASSUME UNCHANGED <<nets, eps, rules, op, lost>> PROVE RulesInv'
  BY <1>2 DEF RulesInv, RulesOwned, RulesOf, SubnetOf, Connected, Detached
<1>3. op.net \in Ids
  BY DEF OpOK
<1>4. ASSUME NEW n \in Ids, NEW name \in Names, NEW s \in Subnets, NEW i \in Internals,
             CreateNetwork(n, name, s, i)
      PROVE  RulesInv'
  BY <1>1, <1>4 DEF CreateNetwork, Free, Idle, storeVars, memVars
<1>5. CASE CreateMasquerade
  BY <1>1, <1>5 DEF CreateMasquerade, Doing, Idle, OpOK, storeVars
<1>6. CASE CreateRecord
  <2>1. op.step = "record" /\ \A c \in Ctrs : ~Connected(op.net, c)
    BY <1>3, <1>6 DEF CreateRecord, Doing, OpInv, Creating, NetworkHeld
  <2>2. \A n \in Ids : n # op.net => nets'[n] = nets[n]
    BY <1>6 DEF CreateRecord, StoreOK
  <2>3. UNCHANGED <<eps, rules, lost>> /\ op'.step = "idle"
    BY <1>6 DEF CreateRecord, Idle
  <2>4. \A n \in Ids, c \in Ctrs : Connected(n, c) => nets'[n] = nets[n]
    BY <2>1, <2>2
  <2> QED BY <1>1, <2>1, <2>3, <2>4
<1>7. ASSUME NEW n \in Ids, RemoveNetwork(n) PROVE RulesInv'
  BY <1>1, <1>7 DEF RemoveNetwork, Free, Idle, storeVars
<1>8. CASE ReleaseSubnet
  BY <1>1, <1>8 DEF ReleaseSubnet, Doing, OpOK, memVars
<1>9. CASE RemoveRecord
  <2>1. op.step = "unrecord" /\ \A c \in Ctrs : ~Connected(op.net, c)
    BY <1>9 DEF RemoveRecord, Doing, OpInv, Removing
  <2>2. \A n \in Ids : n # op.net => nets'[n] = nets[n]
    BY <1>9 DEF RemoveRecord, StoreOK
  <2>3. UNCHANGED <<eps, rules, lost>> /\ op'.step = "idle"
    BY <1>9 DEF RemoveRecord, Idle, memVars
  <2>4. \A n \in Ids, c \in Ctrs : Connected(n, c) => nets'[n] = nets[n]
    BY <2>1, <2>2
  <2> QED BY <1>1, <2>1, <2>3, <2>4
<1>10. ASSUME NEW n \in Ids, NEW c \in Ctrs, NEW ports \in {Publishes[c], {}}, Allocate(n, c, ports)
       PROVE  RulesInv'
  BY <1>1, <1>10 DEF Allocate, Free, Idle, memVars
<1>11. CASE ConnectVeth
  BY <1>1, <1>11 DEF ConnectVeth, Doing, Idle, OpOK, memVars
<1>12. CASE ConnectRules
  <2>1. op.step = "rules" /\ UNCHANGED <<nets, eps, lost>>
    BY <1>12 DEF ConnectRules, Doing
  <2>2. CASE rules' = rules \cup RulesOf(op.net, op.ep) /\ op' = [op EXCEPT !.step = "endpoint"]
    <3>1. op'.step = "endpoint" /\ op'.net = op.net /\ op'.ctr = op.ctr /\ op'.ep = op.ep
      BY <2>2 DEF OpOK
    <3> QED BY <2>1, <2>2, <3>1 DEF RulesInv, RulesOwned, RulesOf, SubnetOf, Connected, Detached
  <2>3. CASE op' = Idle /\ UNCHANGED rules
    BY <1>1, <2>1, <2>3 DEF Idle
  <2> QED BY <1>12, <2>2, <2>3 DEF ConnectRules
<1>13. CASE ConnectEndpoint
  <2>1. /\ op.step = "endpoint" /\ op.ctr \in Ctrs /\ op.ep \in Endpoint /\ op'.step = "idle"
        /\ UNCHANGED nets
    BY <1>13 DEF ConnectEndpoint, Doing, OpInv, Connecting, Idle
  <2>2. CASE /\ eps' = [eps EXCEPT ![op.net][op.ctr] = op.ep] /\ UNCHANGED rules
             /\ lost' = lost \cup LosesAddress(op.net, op.ctr)
    <3>1. ASSUME NEW n \in Ids, NEW c \in Ctrs
          PROVE  eps'[n][c] = IF n = op.net /\ c = op.ctr THEN op.ep ELSE eps[n][c]
      BY <1>3, <2>1, <2>2 DEF StoreOK
    <3>2. ASSUME NEW n \in Ids, NEW c \in Ctrs, n = op.net, c = op.ctr, NEW r \in RulesOf(n, op.ep)
          PROVE  Connected(n, c)' /\ r \in RulesOf(n, eps[n][c])'
      BY <2>1, <3>1, <3>2, Domains DEF RulesOf, SubnetOf, Connected
    <3>3. ASSUME Connected(op.net, op.ctr), NEW r \in RulesOf(op.net, eps[op.net][op.ctr])
          PROVE  <<r.subnet, r.ip>> \in lost'
      BY <2>2, <3>3 DEF RulesOf, LosesAddress, AddressOf
    <3>4. ASSUME NEW n \in Ids, NEW c \in Ctrs, Connected(n, c), ~(n = op.net /\ c = op.ctr),
                 NEW r \in RulesOf(n, eps[n][c])
          PROVE  Connected(n, c)' /\ r \in RulesOf(n, eps[n][c])'
      BY <2>1, <3>1, <3>4 DEF RulesOf, SubnetOf, Connected
    <3>5. RulesOwned'
      <4> SUFFICES ASSUME NEW r \in rules'
                   PROVE  \/ \E n \in Ids, c \in Ctrs : Connected(n, c)' /\ r \in RulesOf(n, eps[n][c])'
                          \/ <<r.subnet, r.ip>> \in lost'
        BY DEF RulesOwned
      <4>1. r \in rules /\ lost \subseteq lost'
        BY <2>2
      <4>2. CASE r \in RulesOf(op.net, op.ep)
        BY <1>3, <2>1, <3>2, <4>2
      <4>3. CASE <<r.subnet, r.ip>> \in lost
        BY <4>1, <4>3
      <4>4. ASSUME NEW n \in Ids, NEW c \in Ctrs, Connected(n, c), r \in RulesOf(n, eps[n][c])
            PROVE  \/ \E m \in Ids, d \in Ctrs : Connected(m, d)' /\ r \in RulesOf(m, eps[m][d])'
                   \/ <<r.subnet, r.ip>> \in lost'
        BY <3>3, <3>4, <4>4
      <4> QED BY <4>1, <4>2, <4>3, <4>4 DEF RulesInv, RulesOwned
    <3> QED BY <2>1, <3>5 DEF RulesInv, Detached
  <2>3. CASE rules' = rules \ RulesOf(op.net, op.ep) /\ UNCHANGED <<eps, lost>>
    BY <2>1, <2>3 DEF RulesInv, RulesOwned, RulesOf, SubnetOf, Connected, Detached
  <2> QED BY <1>13, <2>2, <2>3 DEF ConnectEndpoint
<1>14. CASE (\E n \in Ids, c \in Ctrs : Disconnect(n, c)) \/ \E c \in Ctrs : DisconnectAll(c)
  BY <1>1, <1>14 DEF Disconnect, DisconnectAll, Free, Idle, storeVars, memVars
<1>15. CASE Detach
  <2>1. PICK n \in op.todo :
          /\ rules' = rules \ RulesOf(n, eps[n][op.ctr])
          /\ op' = [op EXCEPT !.step = "release", !.net = n, !.ep = eps[n][op.ctr]]
    BY <1>15 DEF Detach
  <2>2. op'.step = "release" /\ op'.net = n /\ op'.ctr = op.ctr /\ op'.ep = eps[n][op.ctr]
    BY <2>1 DEF OpOK
  <2>3. UNCHANGED <<nets, eps, lost>> /\ op.step = "detach"
    BY <1>15 DEF Detach, Doing, storeVars
  <2> QED BY <2>1, <2>2, <2>3 DEF RulesInv, RulesOwned, RulesOf, SubnetOf, Connected, Detached
<1>16. CASE ReleaseAddress
  <2>1. /\ op.step = "release" /\ op'.step = "delete" /\ op'.net = op.net /\ op'.ep = op.ep
        /\ UNCHANGED <<nets, eps, rules, lost>>
    BY <1>16 DEF ReleaseAddress, Doing, OpOK, memVars
  <2> QED BY <2>1 DEF RulesInv, RulesOwned, RulesOf, SubnetOf, Connected, Detached
<1>17. CASE DeleteEndpoint
  <2>1. /\ op.step = "delete" /\ op.ctr \in Ctrs /\ op.ep = eps[op.net][op.ctr]
        /\ op'.step \in {"idle", "detach"} /\ UNCHANGED <<nets, rules, lost>>
    BY <1>17 DEF DeleteEndpoint, Doing, OpInv, Disconnecting, Detached, Idle, memVars
  <2>2. ASSUME NEW n \in Ids, NEW c \in Ctrs
        PROVE  eps'[n][c] = IF n = op.net /\ c = op.ctr THEN NoEp ELSE eps[n][c]
    BY <1>3, <1>17, <2>1 DEF DeleteEndpoint, StoreOK
  <2>3. RulesOf(op.net, eps[op.net][op.ctr]) \cap rules = {}
    BY <2>1 DEF RulesInv, Detached
  <2>4. ASSUME NEW n \in Ids, NEW c \in Ctrs, Connected(n, c), ~(n = op.net /\ c = op.ctr),
               NEW r \in RulesOf(n, eps[n][c])
        PROVE  Connected(n, c)' /\ r \in RulesOf(n, eps[n][c])'
    BY <2>1, <2>2, <2>4 DEF RulesOf, SubnetOf, Connected
  <2>5. RulesOwned'
    BY <1>3, <2>1, <2>3, <2>4, ZenonT(40) DEF RulesInv, RulesOwned
  <2> QED BY <2>1, <2>5 DEF RulesInv, Detached
<1>18. CASE \E c \in Ctrs : CtrCreate(c) \/ CtrExit(c)
  BY <1>2, <1>18 DEF CtrCreate, CtrExit, storeVars, memVars
<1>19. CASE Crash \/ Close
  <2>1. op'.step = "idle" /\ rules' = {}
    BY <1>19 DEF Crash, Close, MemoryGone, Idle
  <2> QED BY <2>1 DEF RulesInv, RulesOwned, Detached
<1>20. CASE Boot
  BY <1>2, <1>20 DEF Boot, storeVars
<1>21. CASE UNCHANGED vars
  BY <1>2, <1>21 DEF vars, storeVars, memVars
<1> QED BY <1>4, <1>5, <1>6, <1>7, <1>8, <1>9, <1>10, <1>11, <1>12, <1>13, <1>14, <1>15, <1>16,
           <1>17, <1>18, <1>19, <1>20, <1>21, NextCases

LEMMA StoreInit == ASSUME Init PROVE StoreInv
<1>1. ~Connecting /\ ~Detached /\ op.step # "endpoint"
  BY DEF Init, Idle, Connecting, Detached
<1>2. DownInv /\ NetworkHeld
  BY DEF Init, DownInv, NetworkHeld, Connected
<1>3. DnsInv /\ RulesInv
  BY <1>1, Domains DEF Init, DnsInv, DnsTruthful, RulesInv, RulesOwned
<1> QED BY <1>2, <1>3, TypeInit DEF StoreInv

LEMMA StoreStep == ASSUME StoreInv, [Next]_vars PROVE StoreInv'
BY TypeStep, DownStep, HeldStep, DnsStep, RulesStep DEF StoreInv

\* RemoveNetwork never takes a network or its bridge from under an endpoint,
\* whatever is created, connected, removed or cut short (manager.go:247-255).
THEOREM NetworksHeld == Spec => []NetworkHeld
<1>1. StoreInv => NetworkHeld
  BY DEF StoreInv
<1> QED BY <1>1, StoreInit, StoreStep, PTL DEF Spec

\* What the DNS server answers is what the store says, after any failure and any
\* restart (manager.go:350-365, 443-446, 757-768).
THEOREM NamesTruthful == Spec => []DnsTruthful
<1>1. StoreInv => DnsTruthful
  BY DEF StoreInv, DnsInv
<1> QED BY <1>1, StoreInit, StoreStep, PTL DEF Spec

\* Every port rule the daemon knows has an endpoint that asked for it, but for
\* those of an endpoint another was put over (manager.go:335-349, 438-442).
THEOREM RulesHaveOwners == Spec => []RulesOwned
<1>1. StoreInv => RulesOwned
  BY DEF StoreInv, RulesInv
<1> QED BY <1>1, StoreInit, StoreStep, PTL DEF Spec

-----------------------------------------------------------------------------
(* One owner for an address *)

\* While an endpoint names a network, its record stays as it is.
LEMMA NetsKept ==
  ASSUME TypeInv, NetworkHeld, [Next]_vars, NEW n \in Ids, NEW c \in Ctrs, Connected(n, c)
  PROVE  nets'[n] = nets[n]
<1> USE DEF TypeInv, TypeOK
<1>1. CASE CreateRecord
  <2>1. ~Stored(op.net) /\ Stored(n)
    BY <1>1 DEF CreateRecord, Doing, OpInv, Creating, NetworkHeld
  <2> QED BY <1>1, <2>1 DEF CreateRecord, StoreOK
<1>2. CASE RemoveRecord
  <2>1. ~Connected(op.net, c)
    BY <1>2 DEF RemoveRecord, Doing, OpInv, Removing
  <2> QED BY <1>2, <2>1 DEF RemoveRecord, StoreOK
<1>3. ASSUME NEW m \in Ids, NEW d \in Ctrs, NEW ports \in {Publishes[d], {}}, Allocate(m, d, ports)
      PROVE  UNCHANGED nets
  BY <1>3 DEF Allocate
<1>4. CASE CreateMasquerade \/ ConnectVeth \/ ConnectRules \/ ConnectEndpoint \/ Detach
           \/ ReleaseAddress \/ DeleteEndpoint \/ ReleaseSubnet
  BY <1>4 DEF CreateMasquerade, ConnectVeth, ConnectRules, ConnectEndpoint, Detach,
     ReleaseAddress, DeleteEndpoint, ReleaseSubnet, storeVars
<1>5. CASE \/ \E m \in Ids, name \in Names, s \in Subnets, i \in Internals : CreateNetwork(m, name, s, i)
           \/ \E m \in Ids : RemoveNetwork(m)
           \/ \E m \in Ids, d \in Ctrs : Disconnect(m, d)
           \/ \E d \in Ctrs : DisconnectAll(d)
  BY <1>5 DEF CreateNetwork, RemoveNetwork, Disconnect, DisconnectAll, storeVars
<1>6. CASE (\E d \in Ctrs : CtrCreate(d) \/ CtrExit(d)) \/ Crash \/ Close \/ Boot
  BY <1>6 DEF CtrCreate, CtrExit, Crash, Close, Boot, MemoryGone, storeVars
<1>7. CASE UNCHANGED vars
  BY <1>7 DEF vars, storeVars
<1> QED BY <1>1, <1>2, <1>3, <1>4, <1>5, <1>6, <1>7, NextCases

\* Endpoints that stay keep their addresses.
LEMMA SameEndpoint ==
  ASSUME TypeInv, NetworkHeld, [Next]_vars,
         NEW n \in Ids, NEW c \in Ctrs, Connected(n, c), eps'[n][c] = eps[n][c]
  PROVE  /\ SubnetOf(n)' = SubnetOf(n)
         /\ AddressOf(n, eps[n][c])' = AddressOf(n, eps[n][c])
BY NetsKept DEF SubnetOf, AddressOf

\* Only the ends of Connect and of Disconnect change endpoints.
LEMMA EndpointSteps ==
  ASSUME TypeInv, [Next]_vars, ~ConnectEndpoint, ~DeleteEndpoint PROVE UNCHANGED eps
<1>1. ASSUME NEW m \in Ids, NEW d \in Ctrs, NEW ports \in {Publishes[d], {}}, Allocate(m, d, ports)
      PROVE  UNCHANGED eps
  BY <1>1 DEF Allocate
<1>2. CASE CreateMasquerade \/ CreateRecord \/ ReleaseSubnet \/ RemoveRecord \/ ConnectVeth
           \/ ConnectRules \/ Detach \/ ReleaseAddress
  BY <1>2 DEF CreateMasquerade, CreateRecord, ReleaseSubnet, RemoveRecord, ConnectVeth,
     ConnectRules, Detach, ReleaseAddress, storeVars
<1>3. CASE \/ \E m \in Ids, name \in Names, s \in Subnets, i \in Internals : CreateNetwork(m, name, s, i)
           \/ \E m \in Ids : RemoveNetwork(m)
           \/ \E m \in Ids, d \in Ctrs : Disconnect(m, d)
           \/ \E d \in Ctrs : DisconnectAll(d)
  BY <1>3 DEF CreateNetwork, RemoveNetwork, Disconnect, DisconnectAll, storeVars
<1>4. CASE (\E d \in Ctrs : CtrCreate(d) \/ CtrExit(d)) \/ Crash \/ Close \/ Boot
  BY <1>4 DEF CtrCreate, CtrExit, Crash, Close, Boot, MemoryGone, storeVars
<1>5. CASE UNCHANGED vars
  BY <1>5 DEF vars, storeVars
<1> QED BY <1>1, <1>2, <1>3, <1>4, <1>5, NextCases

\* What the last step of a Connect, and that of a Disconnect, make of the endpoints.
LEMMA ConnectEndpointEffect ==
  ASSUME TypeInv, ConnectEndpoint
  PROVE  /\ op.step = "endpoint" /\ op.net \in Ids /\ op.ctr \in Ctrs /\ op.ep \in Endpoint
         /\ op'.step = "idle" /\ UNCHANGED nets
         /\ \/ /\ UNCHANGED <<bitmap, eth0>>
               /\ \A n \in Ids, c \in Ctrs :
                    eps'[n][c] = IF n = op.net /\ c = op.ctr THEN op.ep ELSE eps[n][c]
            \/ /\ UNCHANGED eps
               /\ bitmap' = Release(SubnetOf(op.net), op.ep.ip)
               /\ eth0' = Unplug(op.ctr, AddressOf(op.net, op.ep))
<1>1. op.step = "endpoint" /\ op.net \in Ids /\ op.ctr \in Ctrs /\ op.ep \in Endpoint
  BY DEF ConnectEndpoint, Doing, TypeInv, TypeOK, OpOK, OpInv, Connecting
<1>2. CASE eps' = [eps EXCEPT ![op.net][op.ctr] = op.ep] /\ UNCHANGED <<bitmap, eth0>>
  <2>1. \A n \in Ids, c \in Ctrs :
          eps'[n][c] = IF n = op.net /\ c = op.ctr THEN op.ep ELSE eps[n][c]
    BY <1>1, <1>2 DEF TypeInv, TypeOK, StoreOK
  <2> QED BY <1>1, <1>2, <2>1 DEF ConnectEndpoint, Idle
<1>3. CASE /\ UNCHANGED eps
           /\ bitmap' = Release(SubnetOf(op.net), op.ep.ip)
           /\ eth0' = Unplug(op.ctr, AddressOf(op.net, op.ep))
  BY <1>1, <1>3 DEF ConnectEndpoint, Idle
<1> QED BY <1>2, <1>3 DEF ConnectEndpoint

LEMMA DeleteEndpointEffect ==
  ASSUME TypeInv, DeleteEndpoint
  PROVE  /\ op.step = "delete" /\ op.net \in Ids /\ op.ctr \in Ctrs
         /\ op'.step \in {"idle", "detach"} /\ UNCHANGED <<nets, bitmap, eth0>>
         /\ \A n \in Ids, c \in Ctrs :
              eps'[n][c] = IF n = op.net /\ c = op.ctr THEN NoEp ELSE eps[n][c]
<1>1. /\ op.step = "delete" /\ op.net \in Ids /\ op.ctr \in Ctrs
      /\ op'.step \in {"idle", "detach"} /\ UNCHANGED <<nets, bitmap, eth0>>
  BY DEF DeleteEndpoint, Doing, TypeInv, TypeOK, OpOK, OpInv, Disconnecting, Idle, kernelVars
<1>2. \A n \in Ids, c \in Ctrs :
        eps'[n][c] = IF n = op.net /\ c = op.ctr THEN NoEp ELSE eps[n][c]
  BY <1>1 DEF DeleteEndpoint, TypeInv, TypeOK, StoreOK
<1> QED BY <1>1, <1>2

\* What the other steps make of nets, bitmap and eth0.
LEMMA ReleaseEffect ==
  ASSUME TypeInv, NEW s0 \in Subnets, NEW ip, bitmap' = Release(s0, ip)
  PROVE  \A s \in Subnets : bitmap'[s] = IF s = s0 THEN bitmap[s] \ {ip} ELSE bitmap[s]
BY DEF Release, TypeInv, TypeOK, StoreOK

LEMMA UnplugEffect ==
  ASSUME TypeInv, NEW c0 \in Ctrs, NEW a, eth0' = Unplug(c0, a)
  PROVE  \A c \in Ctrs : eth0'[c] = IF c = c0 /\ eth0[c] = a THEN NoEth0 ELSE eth0[c]
BY DEF Unplug, TypeInv, TypeOK, KernelOK

LEMMA ReleaseSubnetEffect ==
  ASSUME TypeInv, ReleaseSubnet
  PROVE  /\ op.step = "subnet" /\ op'.step = "unrecord" /\ UNCHANGED <<nets, eps, eth0>>
         /\ \A s \in Subnets : s # SubnetOf(op.net) => bitmap'[s] = bitmap[s]
BY DEF ReleaseSubnet, Doing, TypeInv, TypeOK, OpOK, StoreOK, kernelVars

LEMMA ConnectVethEffect ==
  ASSUME TypeInv, ConnectVeth
  PROVE  /\ op.step = "veth" /\ UNCHANGED <<nets, eps>>
         /\ \/ /\ op'.step = "rules" /\ op'.net = op.net /\ op'.ctr = op.ctr /\ op'.ep = op.ep
               /\ UNCHANGED bitmap
               /\ eth0' = [eth0 EXCEPT ![op.ctr] = AddressOf(op.net, op.ep)]
            \/ /\ op'.step = "idle" /\ UNCHANGED eth0
               /\ bitmap' = Release(SubnetOf(op.net), op.ep.ip)
BY DEF ConnectVeth, Doing, TypeInv, TypeOK, OpOK, Idle

LEMMA ConnectRulesEffect ==
  ASSUME TypeInv, ConnectRules
  PROVE  /\ op.step = "rules" /\ UNCHANGED <<nets, eps>>
         /\ \/ /\ op'.step = "endpoint" /\ op'.net = op.net /\ op'.ctr = op.ctr /\ op'.ep = op.ep
               /\ UNCHANGED <<bitmap, eth0>>
            \/ /\ op'.step = "idle"
               /\ bitmap' = Release(SubnetOf(op.net), op.ep.ip)
               /\ eth0' = Unplug(op.ctr, AddressOf(op.net, op.ep))
<1>1. CASE op' = [op EXCEPT !.step = "endpoint"] /\ UNCHANGED <<bitmap, eth0>>
  BY <1>1 DEF ConnectRules, Doing, TypeInv, TypeOK, OpOK
<1>2. CASE /\ op' = Idle /\ bitmap' = Release(SubnetOf(op.net), op.ep.ip)
           /\ eth0' = Unplug(op.ctr, AddressOf(op.net, op.ep))
  BY <1>2 DEF ConnectRules, Doing, Idle
<1> QED BY <1>1, <1>2 DEF ConnectRules

LEMMA DetachEffect ==
  ASSUME TypeInv, Detach
  PROVE  /\ op.step = "detach" /\ op'.step = "release" /\ UNCHANGED <<nets, eps, bitmap>>
         /\ op'.net \in Ids /\ op'.ctr = op.ctr /\ op.ctr \in Ctrs /\ Connected(op'.net, op.ctr)
         /\ eth0' = Unplug(op.ctr, AddressOf(op'.net, eps[op'.net][op.ctr]))
<1>1. PICK n \in op.todo :
        /\ op' = [op EXCEPT !.step = "release", !.net = n, !.ep = eps[n][op.ctr]]
        /\ eth0' = Unplug(op.ctr, AddressOf(n, eps[n][op.ctr]))
  BY DEF Detach
<1>2. op.step = "detach" /\ UNCHANGED <<nets, eps, bitmap>> /\ op.ctr \in Ctrs
  BY DEF Detach, Doing, TypeInv, OpInv, Disconnecting, storeVars
<1>3. n \in Ids /\ Connected(n, op.ctr)
  BY <1>2 DEF TypeInv, TypeOK, OpOK, OpInv, Disconnecting
<1>4. op'.net = n /\ op'.step = "release" /\ op'.ctr = op.ctr
  BY <1>1 DEF TypeInv, TypeOK, OpOK
<1> QED BY <1>1, <1>2, <1>3, <1>4

LEMMA ReleaseAddressEffect ==
  ASSUME TypeInv, ReleaseAddress
  PROVE  /\ op.step = "release" /\ op'.step = "delete" /\ UNCHANGED <<nets, eps, eth0>>
         /\ op'.net = op.net /\ op'.ctr = op.ctr
         /\ op.net \in Ids /\ op.ctr \in Ctrs /\ Connected(op.net, op.ctr)
         /\ op.ep = eps[op.net][op.ctr]
         /\ bitmap' = Release(SubnetOf(op.net), op.ep.ip)
BY DEF ReleaseAddress, Doing, TypeInv, TypeOK, OpOK, OpInv, Disconnecting, Detached, kernelVars

LEMMA AllocateEffect ==
  ASSUME TypeInv, NEW n \in Ids, NEW c \in Ctrs, NEW ports \in {Publishes[c], {}},
         Allocate(n, c, ports)
  PROVE  /\ op.step = "idle" /\ UNCHANGED <<nets, eps, eth0>> /\ Stored(n)
         /\ op'.step = "veth" /\ op'.net = n /\ op'.ctr = c
         /\ op'.ep.ip \notin bitmap[SubnetOf(n)]
         /\ \A s \in Subnets :
              bitmap'[s] = IF s = SubnetOf(n) THEN bitmap[s] \cup {op'.ep.ip} ELSE bitmap[s]
<1>1. PICK ip \in Lowest(FreeOffsets(SubnetOf(n))) :
        /\ bitmap' = [bitmap EXCEPT ![SubnetOf(n)] = @ \cup {ip}]
        /\ op' = [Idle EXCEPT !.step = "veth", !.net = n, !.ctr = c,
                    !.ep = [ip |-> ip, ports |-> ports], !.found = Found]
  BY DEF Allocate
<1>2. op'.step = "veth" /\ op'.net = n /\ op'.ctr = c /\ op'.ep.ip = ip
  BY <1>1 DEF Idle
<1>3. ip \notin bitmap[SubnetOf(n)]
  BY DEF Lowest, FreeOffsets
<1>4. \A s \in Subnets : bitmap'[s] = IF s = SubnetOf(n) THEN bitmap[s] \cup {ip} ELSE bitmap[s]
  BY <1>1 DEF TypeInv, TypeOK, StoreOK
<1>5. op.step = "idle" /\ UNCHANGED <<nets, eps, eth0>> /\ Stored(n)
  BY DEF Allocate, Free, kernelVars
<1> QED BY <1>2, <1>3, <1>4, <1>5

LEMMA SubnetsStep ==
  ASSUME Explicit = {}, TypeInv, SubnetsUnique, [Next]_vars PROVE SubnetsUnique'
<1> USE DEF TypeInv, TypeOK
<1>1. ASSUME UNCHANGED nets, op'.step \notin {"masquerade", "record"} PROVE SubnetsUnique'
  BY <1>1 DEF SubnetsUnique, Stored, SubnetOf, Creating
<1>2. ASSUME UNCHANGED <<nets, op>> PROVE SubnetsUnique'
  BY <1>2 DEF SubnetsUnique, Stored, SubnetOf, Creating
<1>3. ASSUME NEW n \in Ids, NEW name \in Names, NEW s \in Subnets, NEW i \in Internals,
             CreateNetwork(n, name, s, i)
      PROVE  SubnetsUnique'
  <2>1. s \in AutoSubnets /\ op'.rec.subnet = s /\ UNCHANGED nets
    BY <1>3 DEF CreateNetwork, Lowest, Idle, storeVars
  <2>2. \A m \in Ids : Stored(m) => SubnetOf(m) # s
    BY <2>1 DEF AutoSubnets, UsedSubnets
  <2> QED BY <2>1, <2>2 DEF SubnetsUnique, Stored, SubnetOf, Creating
<1>4. CASE CreateMasquerade
  <2>1. Creating /\ UNCHANGED nets
    BY <1>4 DEF CreateMasquerade, Doing, Creating, storeVars
  <2>2. op'.step = "idle" \/ op'.rec = op.rec
    BY <1>4 DEF CreateMasquerade, Idle, OpOK
  <2> QED BY <2>1, <2>2 DEF SubnetsUnique, Stored, SubnetOf, Creating
<1>5. CASE CreateRecord
  <2>1. op.net \in Ids /\ Creating /\ op'.step = "idle"
    BY <1>5 DEF CreateRecord, Doing, Creating, Idle, OpOK
  <2>2. CASE nets' = [nets EXCEPT ![op.net] = op.rec]
    <3>1. \A n \in Ids : nets'[n] = IF n = op.net THEN op.rec ELSE nets[n]
      BY <2>2 DEF StoreOK
    <3> QED BY <2>1, <3>1 DEF SubnetsUnique, Stored, SubnetOf, Creating
  <2>3. CASE UNCHANGED nets
    BY <1>1, <2>1, <2>3
  <2> QED BY <1>5, <2>2, <2>3 DEF CreateRecord
<1>6. CASE RemoveRecord
  <2>1. op'.step = "idle" /\ \A n \in Ids : nets'[n] \in {nets[n], NoNet}
    BY <1>6 DEF RemoveRecord, Idle, StoreOK
  <2> QED BY <2>1 DEF SubnetsUnique, Stored, SubnetOf, Creating
<1>7. ASSUME NEW n \in Ids, RemoveNetwork(n) PROVE SubnetsUnique'
  BY <1>1, <1>7 DEF RemoveNetwork, Idle, storeVars
<1>8. CASE ReleaseSubnet \/ Detach \/ ReleaseAddress \/ ConnectVeth \/ ConnectRules
  BY <1>1, <1>8, ReleaseSubnetEffect, DetachEffect, ReleaseAddressEffect, ConnectVethEffect,
     ConnectRulesEffect
<1>9. ASSUME NEW n \in Ids, NEW c \in Ctrs, NEW ports \in {Publishes[c], {}}, Allocate(n, c, ports)
      PROVE  SubnetsUnique'
  BY <1>1, <1>9 DEF Allocate, Idle
<1>10. CASE ConnectEndpoint
  BY <1>1, <1>10, ConnectEndpointEffect
<1>11. CASE DeleteEndpoint
  BY <1>1, <1>11, DeleteEndpointEffect
<1>12. CASE (\E n \in Ids, c \in Ctrs : Disconnect(n, c)) \/ \E c \in Ctrs : DisconnectAll(c)
  BY <1>1, <1>12 DEF Disconnect, DisconnectAll, Idle, storeVars
<1>13. CASE (\E c \in Ctrs : CtrCreate(c) \/ CtrExit(c)) \/ Boot
  BY <1>2, <1>13 DEF CtrCreate, CtrExit, Boot, storeVars
<1>14. CASE Crash \/ Close
  BY <1>1, <1>14 DEF Crash, Close, MemoryGone, Idle, storeVars
<1>15. CASE UNCHANGED vars
  BY <1>2, <1>15 DEF vars, storeVars
<1> QED BY <1>3, <1>4, <1>5, <1>6, <1>7, <1>8, <1>9, <1>10, <1>11, <1>12, <1>13, <1>14, <1>15,
           NextCases

LEMMA SubnetType == ASSUME TypeInv, NEW n \in Ids PROVE SubnetOf(n) \in Subnets
<1>1. nets[n] \in Network \cup {NoNet}
  BY DEF TypeInv, TypeOK, StoreOK
<1> QED BY <1>1, Domains DEF SubnetOf, Network, NoNet

LEMMA ReservedStep ==
  ASSUME TypeInv, DownInv, NetworkHeld, SubnetsUnique, Reserved, EndpointsUnique,
         [Next]_vars, ~Crash, ~Close
  PROVE  Reserved'
<1>1. op.net \in Ids
  BY DEF TypeInv, TypeOK, OpOK
<1>2. ASSUME UNCHANGED <<eps, bitmap>>, op.step # "delete",
             op'.step \notin {"veth", "rules", "endpoint"}
      PROVE  Reserved'
  BY <1>2, SameEndpoint DEF Reserved, Holds, Connected, Connecting
<1>3. ASSUME UNCHANGED <<nets, eps, bitmap>>, op.step # "delete", Connecting,
             op'.net = op.net, op'.ep = op.ep
      PROVE  Reserved'
  BY <1>3 DEF Reserved, Holds, Connected, Connecting, SubnetOf
<1>4. ASSUME UNCHANGED <<nets, eps>>, Connecting, op'.step = "idle",
             bitmap' = Release(SubnetOf(op.net), op.ep.ip)
      PROVE  Reserved'
  <2>1. ASSUME NEW n \in Ids, NEW c \in Ctrs, Connected(n, c)
        PROVE  eps[n][c].ip \in bitmap'[SubnetOf(n)]
    <3>1. eps[n][c].ip \in bitmap[SubnetOf(n)]
      BY <1>4, <2>1 DEF Reserved, Holds, Connecting
    <3>2. AddressOf(n, eps[n][c]) # AddressOf(op.net, op.ep)
      BY <1>4, <2>1 DEF EndpointsUnique
    <3>3. bitmap'[SubnetOf(n)] = IF SubnetOf(n) = SubnetOf(op.net)
                                 THEN bitmap[SubnetOf(n)] \ {op.ep.ip} ELSE bitmap[SubnetOf(n)]
      BY <1>1, <1>4, SubnetType, ReleaseEffect
    <3> QED BY <3>1, <3>2, <3>3 DEF AddressOf
  <2> QED BY <1>4, <2>1 DEF Reserved, Holds, Connected, Connecting, SubnetOf
<1>5. ASSUME UNCHANGED <<nets, eps, bitmap, op>> PROVE Reserved'
  BY <1>5 DEF Reserved, Holds, Connected, Connecting, SubnetOf
<1>6. CASE \/ \E n \in Ids, name \in Names, s \in Subnets, i \in Internals : CreateNetwork(n, name, s, i)
           \/ \E n \in Ids : RemoveNetwork(n)
           \/ \E n \in Ids, c \in Ctrs : Disconnect(n, c)
           \/ \E c \in Ctrs : DisconnectAll(c)
  BY <1>2, <1>6 DEF CreateNetwork, RemoveNetwork, Disconnect, DisconnectAll, Free, Idle, storeVars
<1>7. CASE CreateMasquerade
  BY <1>2, <1>7 DEF CreateMasquerade, Doing, Idle, TypeInv, TypeOK, OpOK, storeVars
<1>8. CASE CreateRecord \/ RemoveRecord
  BY <1>2, <1>8 DEF CreateRecord, RemoveRecord, Doing, Idle
<1>9. CASE Detach
  BY <1>2, <1>9, DetachEffect
<1>10. CASE ReleaseSubnet
  <2>1. /\ op.step = "subnet" /\ op'.step = "unrecord" /\ UNCHANGED <<nets, eps>>
        /\ \A s \in Subnets : s # SubnetOf(op.net) => bitmap'[s] = bitmap[s]
    BY <1>10, ReleaseSubnetEffect
  <2>2. ASSUME NEW n \in Ids, NEW c \in Ctrs, Connected(n, c)
        PROVE  eps[n][c].ip \in bitmap'[SubnetOf(n)]
    <3>1. n # op.net /\ Stored(n)
      BY <2>1, <2>2 DEF TypeInv, OpInv, Removing, NetworkHeld
    <3>2. Stored(op.net) /\ SubnetOf(n) # SubnetOf(op.net)
      BY <1>1, <2>1, <3>1 DEF TypeInv, OpInv, Removing, SubnetsUnique
    <3> QED BY <2>1, <2>2, <3>2, SubnetType DEF Reserved, Holds
  <2> QED BY <2>1, <2>2 DEF Reserved, Holds, Connected, Connecting, SubnetOf
<1>11. ASSUME NEW n \in Ids, NEW c \in Ctrs, NEW ports \in {Publishes[c], {}}, Allocate(n, c, ports)
       PROVE  Reserved'
  <2>1. \A s \in Subnets :
          bitmap'[s] = IF s = SubnetOf(n) THEN bitmap[s] \cup {op'.ep.ip} ELSE bitmap[s]
    BY <1>11, AllocateEffect
  <2>2. /\ op.step = "idle" /\ op'.step = "veth" /\ op'.net = n /\ UNCHANGED <<nets, eps>>
    BY <1>11, AllocateEffect
  <2> QED BY <2>1, <2>2, SubnetType DEF Reserved, Holds, Connected, Connecting, SubnetOf
<1>12. CASE ConnectVeth
  BY <1>3, <1>4, <1>12, ConnectVethEffect DEF Connecting
<1>13. CASE ConnectRules
  BY <1>3, <1>4, <1>13, ConnectRulesEffect DEF Connecting
<1>14. CASE ConnectEndpoint
  <2>1. op.step = "endpoint" /\ op'.step = "idle" /\ UNCHANGED nets
    BY <1>14, ConnectEndpointEffect
  <2>2. CASE /\ UNCHANGED bitmap
             /\ \A n \in Ids, c \in Ctrs :
                  eps'[n][c] = IF n = op.net /\ c = op.ctr THEN op.ep ELSE eps[n][c]
    BY <2>1, <2>2 DEF Reserved, Holds, Connected, Connecting, SubnetOf
  <2>3. CASE UNCHANGED eps /\ bitmap' = Release(SubnetOf(op.net), op.ep.ip)
    BY <1>4, <2>1, <2>3 DEF Connecting
  <2> QED BY <1>14, <2>2, <2>3, ConnectEndpointEffect
<1>15. CASE ReleaseAddress
  <2>1. /\ op.step = "release" /\ op'.step = "delete" /\ UNCHANGED <<nets, eps>>
        /\ op'.net = op.net /\ op'.ctr = op.ctr /\ op.ctr \in Ctrs /\ Connected(op.net, op.ctr)
        /\ op.ep = eps[op.net][op.ctr] /\ bitmap' = Release(SubnetOf(op.net), op.ep.ip)
    BY <1>15, ReleaseAddressEffect
  <2>2. ASSUME NEW n \in Ids, NEW c \in Ctrs, Connected(n, c), <<n, c>> # <<op.net, op.ctr>>
        PROVE  eps[n][c].ip \in bitmap'[SubnetOf(n)]
    <3>1. AddressOf(n, eps[n][c]) # AddressOf(op.net, op.ep)
      BY <1>1, <2>1, <2>2 DEF EndpointsUnique
    <3>2. eps[n][c].ip \in bitmap[SubnetOf(n)]
      BY <2>1, <2>2 DEF Reserved, Holds
    <3>3. bitmap'[SubnetOf(n)] = IF SubnetOf(n) = SubnetOf(op.net)
                                 THEN bitmap[SubnetOf(n)] \ {op.ep.ip} ELSE bitmap[SubnetOf(n)]
      BY <1>1, <2>1, SubnetType, ReleaseEffect
    <3> QED BY <3>1, <3>2, <3>3 DEF AddressOf
  <2> QED BY <2>1, <2>2 DEF Reserved, Holds, Connected, Connecting, SubnetOf
<1>16. CASE DeleteEndpoint
  BY <1>16, DeleteEndpointEffect DEF Reserved, Holds, Connected, Connecting, SubnetOf
<1>17. CASE (\E c \in Ctrs : CtrCreate(c) \/ CtrExit(c)) \/ Boot \/ UNCHANGED vars
  BY <1>5, <1>17 DEF CtrCreate, CtrExit, Boot, vars, storeVars
<1> QED BY <1>6, <1>7, <1>8, <1>9, <1>10, <1>11, <1>12, <1>13, <1>14, <1>15, <1>16, <1>17,
           NextCases

LEMMA EndpointsStep ==
  ASSUME TypeInv, DownInv, NetworkHeld, Reserved, EndpointsUnique, [Next]_vars
  PROVE  EndpointsUnique'
<1>1. op.net \in Ids
  BY DEF TypeInv, TypeOK, OpOK
\* Endpoints only go, and the Connect under way, if any, is the one there was.
<1>2. ASSUME \A n \in Ids, c \in Ctrs : Connected(n, c)' => eps'[n][c] = eps[n][c],
             \/ op'.step \notin {"veth", "rules", "endpoint"}
             \/ Connecting /\ op'.net = op.net /\ op'.ep = op.ep /\ UNCHANGED nets
      PROVE  EndpointsUnique'
  <2>1. ASSUME NEW n \in Ids, NEW c \in Ctrs, Connected(n, c)'
        PROVE  Connected(n, c) /\ AddressOf(n, eps[n][c])' = AddressOf(n, eps[n][c])
    <3>1. Connected(n, c) /\ eps'[n][c] = eps[n][c]
      BY <1>2, <2>1 DEF Connected
    <3> QED BY <3>1, SameEndpoint
  <2>2. ASSUME NEW n \in Ids, NEW m \in Ids, NEW c \in Ctrs, NEW d \in Ctrs,
               Connected(n, c)', Connected(m, d)', <<n, c>> # <<m, d>>
        PROVE  AddressOf(n, eps[n][c])' # AddressOf(m, eps[m][d])'
    <3>1. Connected(n, c) /\ Connected(m, d)
      BY <2>1, <2>2
    <3>2. AddressOf(n, eps[n][c]) # AddressOf(m, eps[m][d])
      BY <2>2, <3>1 DEF EndpointsUnique
    <3> QED BY <2>1, <2>2, <3>2
  <2>3. ASSUME Connecting', NEW n \in Ids, NEW c \in Ctrs, Connected(n, c)'
        PROVE  AddressOf(n, eps[n][c])' # AddressOf(op.net, op.ep)'
    <3>1. Connecting /\ op'.net = op.net /\ op'.ep = op.ep /\ UNCHANGED nets
      BY <1>2, <2>3 DEF Connecting
    <3>2. AddressOf(op.net, op.ep)' = AddressOf(op.net, op.ep)
      BY <3>1 DEF AddressOf, SubnetOf
    <3>3. AddressOf(n, eps[n][c]) # AddressOf(op.net, op.ep)
      BY <2>1, <2>3, <3>1 DEF EndpointsUnique
    <3> QED BY <2>1, <2>3, <3>2, <3>3
  <2> QED BY <2>2, <2>3 DEF EndpointsUnique
<1>3. ASSUME UNCHANGED eps, op'.step \notin {"veth", "rules", "endpoint"} PROVE EndpointsUnique'
  BY <1>2, <1>3
<1>4. ASSUME UNCHANGED <<nets, eps, op>> PROVE EndpointsUnique'
  BY <1>4 DEF EndpointsUnique, Connected, Connecting, AddressOf, SubnetOf
<1>5. CASE \/ \E n \in Ids, name \in Names, s \in Subnets, i \in Internals : CreateNetwork(n, name, s, i)
           \/ \E n \in Ids : RemoveNetwork(n)
           \/ \E n \in Ids, c \in Ctrs : Disconnect(n, c)
           \/ \E c \in Ctrs : DisconnectAll(c)
  BY <1>3, <1>5 DEF CreateNetwork, RemoveNetwork, Disconnect, DisconnectAll, Idle, storeVars
<1>6. CASE CreateMasquerade
  BY <1>3, <1>6 DEF CreateMasquerade, Idle, TypeInv, TypeOK, OpOK, storeVars
<1>7. CASE CreateRecord \/ RemoveRecord
  BY <1>3, <1>7 DEF CreateRecord, RemoveRecord, Idle
<1>8. CASE ReleaseSubnet \/ Detach \/ ReleaseAddress
  BY <1>3, <1>8, ReleaseSubnetEffect, DetachEffect, ReleaseAddressEffect
<1>9. ASSUME NEW n \in Ids, NEW c \in Ctrs, NEW ports \in {Publishes[c], {}}, Allocate(n, c, ports)
      PROVE  EndpointsUnique'
  <2>1. /\ op.step = "idle" /\ UNCHANGED <<nets, eps>> /\ op'.net = n
        /\ op'.ep.ip \notin bitmap[SubnetOf(n)]
    BY <1>9, AllocateEffect
  <2>2. ASSUME NEW m \in Ids, NEW d \in Ctrs, Connected(m, d)
        PROVE  AddressOf(m, eps[m][d]) # <<SubnetOf(n), op'.ep.ip>>
    <3>1. eps[m][d].ip \in bitmap[SubnetOf(m)]
      BY <2>1, <2>2 DEF Reserved, Holds
    <3> QED BY <2>1, <3>1 DEF AddressOf
  <2> QED BY <2>1, <2>2 DEF EndpointsUnique, Connected, Connecting, AddressOf, SubnetOf
<1>10. CASE ConnectVeth
  BY <1>2, <1>3, <1>10, ConnectVethEffect DEF Connecting
<1>11. CASE ConnectRules
  BY <1>2, <1>3, <1>11, ConnectRulesEffect DEF Connecting
<1>12. CASE ConnectEndpoint
  <2>1. op.step = "endpoint" /\ op'.step = "idle" /\ UNCHANGED nets /\ op.ctr \in Ctrs
    BY <1>12, ConnectEndpointEffect
  <2>2. CASE \A n \in Ids, c \in Ctrs :
               eps'[n][c] = IF n = op.net /\ c = op.ctr THEN op.ep ELSE eps[n][c]
    <3>1. ASSUME NEW n \in Ids, NEW m \in Ids, NEW c \in Ctrs, NEW d \in Ctrs,
                 Connected(n, c)', Connected(m, d)', <<n, c>> # <<m, d>>
          PROVE  AddressOf(n, eps[n][c])' # AddressOf(m, eps[m][d])'
      BY <1>1, <2>1, <2>2, <3>1 DEF EndpointsUnique, Connected, Connecting, AddressOf, SubnetOf
    <3> QED BY <2>1, <3>1 DEF EndpointsUnique, Connecting
  <2>3. CASE UNCHANGED eps
    BY <1>3, <2>1, <2>3
  <2> QED BY <1>12, <2>2, <2>3, ConnectEndpointEffect
<1>13. CASE DeleteEndpoint
  BY <1>2, <1>13, DeleteEndpointEffect DEF Connected
<1>14. CASE (\E c \in Ctrs : CtrCreate(c) \/ CtrExit(c)) \/ Boot \/ UNCHANGED vars
  BY <1>4, <1>14 DEF CtrCreate, CtrExit, Boot, vars, storeVars
<1>15. CASE Crash \/ Close
  BY <1>3, <1>15 DEF Crash, Close, MemoryGone, Idle, storeVars
<1> QED BY <1>5, <1>6, <1>7, <1>8, <1>9, <1>10, <1>11, <1>12, <1>13, <1>14, <1>15, NextCases

LEMMA Eth0Step ==
  ASSUME TypeInv, DownInv, NetworkHeld, Eth0Owned, [Next]_vars, ~Crash, ~Close
  PROVE  Eth0Owned'
<1>1. op.net \in Ids
  BY DEF TypeInv, TypeOK, OpOK
<1>2. eth0 \in [Ctrs -> Address \cup {NoEth0}]
  BY DEF TypeInv, TypeOK, KernelOK
\* Interfaces only go, and neither a Connect nor a Disconnect is under way.
<1>3. ASSUME UNCHANGED eps, \A c \in Ctrs : eth0'[c] \in {eth0[c], NoEth0},
             ~Plugged, ~Plugged', ~Detached'
      PROVE  Eth0Owned'
  <2>1. ASSUME NEW c \in Ctrs, eth0'[c] # NoEth0
        PROVE  \E n \in Ids : Connected(n, c)' /\ eth0'[c] = AddressOf(n, eps[n][c])'
    <3>1. eth0'[c] = eth0[c]
      BY <1>3, <2>1
    <3>2. PICK n \in Ids : Connected(n, c) /\ eth0[c] = AddressOf(n, eps[n][c])
      BY <1>3, <2>1, <3>1 DEF Eth0Owned
    <3>3. Connected(n, c)' /\ AddressOf(n, eps[n][c])' = AddressOf(n, eps[n][c])
      BY <1>3, <3>2, SameEndpoint DEF Connected
    <3> QED BY <3>1, <3>2, <3>3
  <2> QED BY <1>3, <2>1 DEF Eth0Owned
\* Interfaces only go, and the operation goes on with its endpoint.
<1>4. ASSUME UNCHANGED <<nets, eps>>, \A c \in Ctrs : eth0'[c] \in {eth0[c], NoEth0},
             \/ UNCHANGED op
             \/ Plugged /\ Plugged' /\ op'.net = op.net /\ op'.ctr = op.ctr /\ op'.ep = op.ep
             \/ Detached /\ Detached' /\ op'.net = op.net /\ op'.ctr = op.ctr
      PROVE  Eth0Owned'
  <2>1. \A n \in Ids, c \in Ctrs :
          /\ Connected(n, c)' <=> Connected(n, c)
          /\ AddressOf(n, eps[n][c])' = AddressOf(n, eps[n][c])
    BY <1>4 DEF Connected, AddressOf, SubnetOf
  <2>2. Plugged' <=> Plugged
    BY <1>4 DEF Plugged, Detached
  <2>3. Detached' <=> Detached
    BY <1>4 DEF Plugged, Detached
  <2>4. Plugged => /\ op'.ctr = op.ctr /\ op.ctr \in Ctrs
                   /\ AddressOf(op.net, op.ep)' = AddressOf(op.net, op.ep)
    BY <1>4 DEF AddressOf, SubnetOf, Plugged, Detached, Connecting, TypeInv, OpInv
  <2>5. Detached => op'.net = op.net /\ op'.ctr = op.ctr
    BY <1>4 DEF Plugged, Detached
  <2> QED BY <1>4, <2>1, <2>2, <2>3, <2>4, <2>5 DEF Eth0Owned
\* A Connect that fails takes its address from the interface it gave it to.
<1>5. ASSUME UNCHANGED <<nets, eps>>, Plugged, op'.step = "idle",
             eth0' = Unplug(op.ctr, AddressOf(op.net, op.ep))
      PROVE  Eth0Owned'
  <2>1. op.ctr \in Ctrs
    BY <1>5 DEF Plugged, Connecting, TypeInv, OpInv
  <2>2. \A c \in Ctrs : eth0'[c] = IF c = op.ctr /\ eth0[c] = AddressOf(op.net, op.ep)
                                  THEN NoEth0 ELSE eth0[c]
    BY <1>5, <2>1, UnplugEffect
  <2>3. ~Plugged' /\ ~Detached' /\ ~Detached
    BY <1>5 DEF Plugged, Detached
  <2> QED BY <1>5, <2>1, <2>2, <2>3 DEF Eth0Owned, Connected, AddressOf, SubnetOf
<1>6. CASE \/ \E n \in Ids, name \in Names, s \in Subnets, i \in Internals : CreateNetwork(n, name, s, i)
           \/ \E n \in Ids : RemoveNetwork(n)
           \/ \E n \in Ids, c \in Ctrs : Disconnect(n, c)
           \/ \E c \in Ctrs : DisconnectAll(c)
  BY <1>3, <1>6, ZenonT(40) DEF CreateNetwork, RemoveNetwork, Disconnect, DisconnectAll, Free, Idle, Plugged,
     Detached, storeVars, kernelVars
<1>7. CASE CreateMasquerade
  BY <1>3, <1>7 DEF CreateMasquerade, Doing, Idle, TypeInv, TypeOK, OpOK, Plugged, Detached, storeVars
<1>8. CASE CreateRecord \/ RemoveRecord
  BY <1>3, <1>8 DEF CreateRecord, RemoveRecord, Doing, Idle, Plugged, Detached, kernelVars
<1>9. CASE ReleaseSubnet
  BY <1>3, <1>9, ReleaseSubnetEffect DEF Plugged, Detached
<1>10. ASSUME NEW n \in Ids, NEW c \in Ctrs, NEW ports \in {Publishes[c], {}}, Allocate(n, c, ports)
       PROVE  Eth0Owned'
  BY <1>3, <1>10, AllocateEffect DEF Plugged, Detached
<1>11. CASE ConnectVeth
  <2>1. op.step = "veth" /\ UNCHANGED <<nets, eps>> /\ op.ctr \in Ctrs
    BY <1>11, ConnectVethEffect DEF Connecting, TypeInv, OpInv
  <2>2. CASE /\ op'.step = "rules" /\ op'.net = op.net /\ op'.ctr = op.ctr /\ op'.ep = op.ep
             /\ eth0' = [eth0 EXCEPT ![op.ctr] = AddressOf(op.net, op.ep)]
    <3>1. \A c \in Ctrs : eth0'[c] = IF c = op.ctr THEN AddressOf(op.net, op.ep) ELSE eth0[c]
      BY <1>2, <2>2
    <3>2. Plugged' /\ ~Detached' /\ ~Plugged /\ ~Detached
      BY <2>1, <2>2 DEF Plugged, Detached
    <3> QED BY <2>1, <2>2, <3>1, <3>2 DEF Eth0Owned, Connected, AddressOf, SubnetOf
  <2>3. CASE op'.step = "idle" /\ UNCHANGED eth0
    BY <1>3, <2>1, <2>3 DEF Plugged, Detached
  <2> QED BY <1>11, <2>2, <2>3, ConnectVethEffect
<1>12. CASE ConnectRules
  <2>1. op.step = "rules" /\ UNCHANGED <<nets, eps>>
    BY <1>12, ConnectRulesEffect
  <2>2. CASE /\ op'.step = "endpoint" /\ op'.net = op.net /\ op'.ctr = op.ctr /\ op'.ep = op.ep
             /\ UNCHANGED eth0
    BY <1>4, <2>1, <2>2 DEF Plugged
  <2>3. CASE op'.step = "idle" /\ eth0' = Unplug(op.ctr, AddressOf(op.net, op.ep))
    BY <1>5, <2>1, <2>3 DEF Plugged
  <2> QED BY <1>12, <2>2, <2>3, ConnectRulesEffect
<1>13. CASE ConnectEndpoint
  <2>1. op.step = "endpoint" /\ op'.step = "idle" /\ UNCHANGED nets /\ op.ctr \in Ctrs
        /\ op.ep \in Endpoint
    BY <1>13, ConnectEndpointEffect
  <2>2. CASE /\ UNCHANGED eth0
             /\ \A n \in Ids, c \in Ctrs :
                  eps'[n][c] = IF n = op.net /\ c = op.ctr THEN op.ep ELSE eps[n][c]
    <3>1. Plugged /\ ~Plugged' /\ ~Detached'
      BY <2>1 DEF Plugged, Detached
    <3>2. ASSUME NEW c \in Ctrs, eth0[c] # NoEth0
          PROVE  \E n \in Ids : eps'[n][c] # NoEp /\ eth0[c] = <<SubnetOf(n), eps'[n][c].ip>>
      <4>1. CASE c = op.ctr
        <5>1. eth0[c] = AddressOf(op.net, op.ep)
          BY <3>1, <3>2, <4>1 DEF Eth0Owned
        <5> QED BY <1>1, <2>1, <2>2, <4>1, <5>1, Domains DEF AddressOf
      <4>2. CASE c # op.ctr
        BY <2>2, <3>2, <4>2 DEF Eth0Owned, Connected, AddressOf
      <4> QED BY <4>1, <4>2
    <3> QED BY <2>1, <2>2, <3>1, <3>2 DEF Eth0Owned, Connected, AddressOf, SubnetOf
  <2>3. CASE UNCHANGED eps /\ eth0' = Unplug(op.ctr, AddressOf(op.net, op.ep))
    BY <1>5, <2>1, <2>3 DEF Plugged
  <2> QED BY <1>13, <2>2, <2>3, ConnectEndpointEffect
<1>14. CASE Detach
  <2>1. /\ op.step = "detach" /\ op'.step = "release" /\ UNCHANGED <<nets, eps>>
        /\ op'.net \in Ids /\ op'.ctr = op.ctr /\ op.ctr \in Ctrs
        /\ eth0' = Unplug(op.ctr, AddressOf(op'.net, eps[op'.net][op.ctr]))
    BY <1>14, DetachEffect
  <2>2. PICK m \in Ids : m = op'.net
    BY <2>1
  <2>3. \A c \in Ctrs : eth0'[c] = IF c = op.ctr /\ eth0[c] = AddressOf(m, eps[m][c])
                                  THEN NoEth0 ELSE eth0[c]
    BY <2>1, <2>2, UnplugEffect
  <2>4. ASSUME NEW c \in Ctrs, eth0'[c] # NoEth0
        PROVE  /\ eth0'[c] = eth0[c]
               /\ ~(c = op.ctr /\ eth0[c] = AddressOf(m, eps[m][c]))
    BY <2>3, <2>4
  <2>5. ASSUME NEW c \in Ctrs, eth0'[c] # NoEth0
        PROVE  \E n \in Ids : /\ Connected(n, c)' /\ eth0'[c] = AddressOf(n, eps[n][c])'
                              /\ ~(Detached' /\ op'.net = n /\ op'.ctr = c)
    <3>1. PICK n \in Ids : Connected(n, c) /\ eth0[c] = AddressOf(n, eps[n][c])
      BY <2>1, <2>4, <2>5 DEF Eth0Owned, Plugged
    <3>2. ~(m = n /\ op.ctr = c)
      BY <2>4, <2>5, <3>1
    <3> QED BY <2>1, <2>2, <2>4, <2>5, <3>1, <3>2 DEF Connected, AddressOf, SubnetOf
  <2>6. ~Plugged'
    BY <2>1 DEF Plugged
  <2> QED BY <2>5, <2>6 DEF Eth0Owned
<1>15. CASE ReleaseAddress
  BY <1>4, <1>15, ReleaseAddressEffect DEF Detached
<1>16. CASE DeleteEndpoint
  BY <1>16, DeleteEndpointEffect DEF Eth0Owned, Connected, AddressOf, SubnetOf, Plugged, Detached
<1>17. CASE (\E c \in Ctrs : CtrCreate(c) \/ CtrExit(c)) \/ Boot \/ UNCHANGED vars
  <2>1. UNCHANGED <<nets, eps, op>>
    BY <1>17 DEF CtrCreate, CtrExit, Boot, vars, storeVars
  <2>2. \A c \in Ctrs : eth0'[c] \in {eth0[c], NoEth0}
    BY <1>17 DEF CtrCreate, CtrExit, Boot, Netless, vars, kernelVars
  <2> QED BY <1>4, <2>1, <2>2
<1> QED BY <1>6, <1>7, <1>8, <1>9, <1>10, <1>11, <1>12, <1>13, <1>14, <1>15, <1>16, <1>17, NextCases

\* Only the daemon's end counts as one.
LEMMA CrashSteps ==
  ASSUME [Next]_vars, ~Crash, ~Close PROVE UNCHANGED crashes
<1>1. ASSUME NEW m \in Ids, NEW d \in Ctrs, NEW ports \in {Publishes[d], {}}, Allocate(m, d, ports)
      PROVE  UNCHANGED crashes
  BY <1>1 DEF Allocate
<1>2. CASE CreateMasquerade \/ CreateRecord \/ ReleaseSubnet \/ RemoveRecord \/ ConnectVeth
           \/ ConnectRules \/ ConnectEndpoint \/ Detach \/ ReleaseAddress \/ DeleteEndpoint
  BY <1>2 DEF CreateMasquerade, CreateRecord, ReleaseSubnet, RemoveRecord, ConnectVeth,
     ConnectRules, ConnectEndpoint, Detach, ReleaseAddress, DeleteEndpoint, daemonVars
<1>3. CASE \/ \E m \in Ids, name \in Names, s \in Subnets, i \in Internals : CreateNetwork(m, name, s, i)
           \/ \E m \in Ids : RemoveNetwork(m)
           \/ \E m \in Ids, d \in Ctrs : Disconnect(m, d)
           \/ \E d \in Ctrs : DisconnectAll(d)
  BY <1>3 DEF CreateNetwork, RemoveNetwork, Disconnect, DisconnectAll, daemonVars
<1>4. CASE (\E d \in Ctrs : CtrCreate(d) \/ CtrExit(d)) \/ Boot \/ UNCHANGED vars
  BY <1>4 DEF CtrCreate, CtrExit, Boot, vars, daemonVars
<1> QED BY <1>1, <1>2, <1>3, <1>4, NextCases

LEMMA UniqueInit == ASSUME Init PROVE UniqueInv
<1>1. \A n \in Ids, c \in Ctrs : ~Connected(n, c)
  BY DEF Init, Connected
<1>2. ~Creating /\ ~Connecting /\ ~Plugged /\ \A c \in Ctrs : eth0[c] = NoEth0
  BY DEF Init, Idle, Creating, Connecting, Plugged
<1>3. SubnetsUnique
  BY <1>2 DEF Init, SubnetsUnique, Stored
<1> QED BY <1>1, <1>2, <1>3 DEF UniqueInv, Reserved, Holds, EndpointsUnique, Eth0Owned

LEMMA UniqueStep ==
  ASSUME Explicit = {}, StoreInv, UniqueInv, [Next]_vars PROVE UniqueInv'
<1>1. ASSUME Crash \/ Close PROVE UniqueInv'
  <2>1. crashes \in Nat /\ crashes' = crashes + 1
    BY <1>1, NetworkConstants DEF Crash, Close, MemoryGone, StoreInv, TypeInv, TypeOK, DaemonOK,
       NetworkConstants
  <2>2. crashes' # 0
    BY <2>1
  <2> QED BY <2>2 DEF UniqueInv
<1>2. ASSUME ~Crash, ~Close, crashes' = 0 PROVE crashes = 0
  <2>1. UNCHANGED crashes
    BY <1>2, CrashSteps
  <2> QED BY <1>2, <2>1
<1>3. ASSUME ~Crash, ~Close, crashes' = 0 PROVE (SubnetsUnique /\ Reserved /\ EndpointsUnique /\ Eth0Owned)'
  BY <1>2, <1>3, SubnetsStep, ReservedStep, EndpointsStep, Eth0Step DEF StoreInv, UniqueInv
<1> QED BY <1>1, <1>3 DEF UniqueInv

\* As long as the daemon lives, no two endpoints and no two live containers
\* have one address, for every number of networks, containers and addresses;
\* when every network is given a subnet of the pool (ipam.go:40, manager.go:293).
THEOREM AddressesOwned == ASSUME Explicit = {} PROVE Spec => []AddressesUnique
<1>1. ASSUME StoreInv, UniqueInv PROVE AddressesUnique
  <2> SUFFICES ASSUME crashes = 0 PROVE LiveAddressesUnique /\ EndpointsUnique
    BY DEF AddressesUnique, EndpointsUnique
  <2>1. EndpointsUnique /\ Eth0Owned
    BY <1>1 DEF UniqueInv
  <2>2. ASSUME NEW c \in Ctrs, NEW d \in Ctrs, c # d, eth0[c] # NoEth0 PROVE eth0[c] # eth0[d]
    BY <2>1, <2>2 DEF EndpointsUnique, Eth0Owned, Plugged, Connecting
  <2> QED BY <2>1, <2>2 DEF LiveAddressesUnique
<1>2. (StoreInv /\ UniqueInv) /\ [Next]_vars => (StoreInv /\ UniqueInv)'
  BY StoreStep, UniqueStep
<1>3. Init => StoreInv /\ UniqueInv
  BY StoreInit, UniqueInit
<1> QED BY <1>1, <1>2, <1>3, PTL DEF Spec

=============================================================================
