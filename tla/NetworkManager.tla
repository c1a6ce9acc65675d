---------------------------- MODULE NetworkManager ----------------------------
(***************************************************************************)
(* internal/network's Manager with the IPAM, NAT and DNS it drives, beside *)
(* the containers whose network namespaces it fills.  Manager.mu is held   *)
(* for a whole operation, so at most one is under way: op says which and   *)
(* how far it got.  A step is one bbolt transaction or one change of the   *)
(* kernel with the memory that goes with it; the daemon can die between    *)
(* any two.  The store and the kernel survive the daemon, the rule maps    *)
(* and the DNS names do not.                                               *)
(*                                                                         *)
(* An address is a subnet and an offset in it (ipam.go); the gateway of a  *)
(* network is offset 1 of its subnet.  A kernel rule is "old" once the     *)
(* daemon that tracked it is dead.  Adding to the kernel or to the store   *)
(* can fail; taking away is taken to succeed, except for the record that   *)
(* RemoveNetwork deletes last.                                             *)
(***************************************************************************)
EXTENDS Integers

CONSTANTS
  Ids,         \* network ids ever generated
  Default,     \* the id of the predefined network "bridge"
  Names,       \* names a user gives to networks
  Ctrs,        \* containers; their names are unique, and so their DNS names
  MaxSubnet,   \* the default subnet is 0, the pool of autoAssignSubnet 1..MaxSubnet
  Explicit,    \* subnets a user may ask for
  Internals,   \* values of the internal flag tried
  MaxOffset,   \* the last offset of a subnet
  Ports,       \* host ports
  Publishes,   \* the host ports of each container's configuration
  MaxConnect,  \* bound: Connects
  MaxCrash     \* bound: ends of the daemon

Subnets == 0..MaxSubnet
Offsets == 2..MaxOffset
NoAddress == 0
NoCtr == "none"
NoEth0 == <<0, NoAddress>>
DefaultName == "bridge"

ASSUME NetworkConstants ==
  /\ Default \in Ids
  /\ MaxSubnet \in Nat /\ MaxOffset \in Nat
  /\ MaxConnect \in Nat /\ MaxCrash \in Nat
  /\ Publishes \in [Ctrs -> SUBSET Ports]
  /\ Explicit \subseteq Subnets /\ Internals \subseteq BOOLEAN
  /\ "none" \notin Names /\ NoCtr \notin Ctrs

VARIABLES
  \* the store
  nets,        \* network records
  eps,         \* endpoint records, by network and container
  bitmap,      \* allocated offsets of each subnet
  \* the kernel
  bridges,     \* networks whose bridge exists
  eth0,        \* the address a live namespace has at its end of the veth
  oldRules,    \* port rules added by a daemon that is dead
  \* the daemon's memory; masq and rules are in the kernel too
  masq,        \* NAT.masqRules, by subnet
  rules,       \* NAT.portMapRules
  dns,         \* DNS.records, by network and container
  op,          \* the operation that holds Manager.mu
  up,          \* containers whose init is alive, and its namespace with it
  daemon, crashes, connects,
  \* history
  lost         \* addresses a record ceased to name without a release

storeVars == <<nets, eps, bitmap>>
kernelVars == <<bridges, eth0, oldRules>>
memVars == <<masq, rules, dns>>
daemonVars == <<daemon, crashes, connects>>
vars == <<storeVars, kernelVars, memVars, op, up, daemonVars, lost>>

Address == Subnets \X Offsets
Network == [name : Names \cup {DefaultName}, subnet : Subnets, internal : BOOLEAN]
Rule == [port : Ports, subnet : Subnets, ip : Offsets]
Endpoint == [ip : Offsets, ports : SUBSET Ports]

NoNet == [name |-> "none", subnet |-> 0, internal |-> FALSE]
NoEp == [ip |-> NoAddress, ports |-> {}]
Idle == [step |-> "idle", net |-> Default, ctr |-> NoCtr, todo |-> {},
         rec |-> NoNet, ep |-> NoEp, found |-> <<>>]

Stored(n) == nets[n] # NoNet
Connected(n, c) == eps[n][c] # NoEp
SubnetOf(n) == nets[n].subnet
RulesOf(n, ep) == {[port |-> p, subnet |-> SubnetOf(n), ip |-> ep.ip] : p \in ep.ports}

\* The lock is free, or its holder is at step s.
Free == daemon = "up" /\ op.step = "idle"
Doing(s) == daemon = "up" /\ op.step = s

\* History: what an operation that may have to roll back finds.
Found == <<bitmap, rules, dns, masq, bridges>>

-----------------------------------------------------------------------------
(* IPAM, a bitmap as the set of its bits from offset 2 on *)

Lowest(S) == {x \in S : \A y \in S : x <= y}

FreeOffsets(s) == Offsets \ bitmap[s]

Release(s, ip) == [bitmap EXCEPT ![s] = @ \ {ip}]

-----------------------------------------------------------------------------
(* CreateNetwork: bridge, masquerade, record, DNS listener *)

UsedSubnets == {SubnetOf(n) : n \in {m \in Ids : Stored(m)}}
AutoSubnets == (1..MaxSubnet) \ UsedSubnets

\* Mutation: the subnets in use are not looked at.
CreateNetworkAnySubnet(n, name, s, internal) ==
  /\ Free
  /\ ~Stored(n) /\ n \notin bridges
  /\ s \in Explicit \/ s = 1
  /\ bridges' = bridges \cup {n}
  /\ op' = [Idle EXCEPT !.step = "masquerade", !.net = n,
              !.rec = [name |-> name, subnet |-> s, internal |-> internal], !.found = Found]
  /\ UNCHANGED <<storeVars, eth0, oldRules, memVars, up, daemonVars, lost>>

CreateNetwork(n, name, s, internal) ==
  /\ Free
  /\ ~Stored(n) /\ n \notin bridges
  /\ s \in Explicit \cup Lowest(AutoSubnets)
  /\ bridges' = bridges \cup {n}
  /\ op' = [Idle EXCEPT !.step = "masquerade", !.net = n,
              !.rec = [name |-> name, subnet |-> s, internal |-> internal], !.found = Found]
  /\ UNCHANGED <<storeVars, eth0, oldRules, memVars, up, daemonVars, lost>>

CreateMasquerade ==
  /\ Doing("masquerade")
  /\ \/ /\ masq' = IF op.rec.internal THEN masq ELSE masq \cup {op.rec.subnet}
        /\ op' = [op EXCEPT !.step = "record"]
        /\ UNCHANGED bridges
     \/ /\ ~op.rec.internal
        /\ bridges' = bridges \ {op.net}
        /\ op' = Idle
        /\ UNCHANGED masq
  /\ UNCHANGED <<storeVars, eth0, oldRules, rules, dns>>
  /\ UNCHANGED <<up, daemonVars, lost>>

\* The store refuses a name in use.
NameFree(name) == \A n \in Ids : nets[n].name # name

CreateRecord ==
  /\ Doing("record")
  /\ \/ /\ NameFree(op.rec.name)
        /\ nets' = [nets EXCEPT ![op.net] = op.rec]
        /\ UNCHANGED <<masq, bridges>>
     \/ /\ masq' = masq \ {op.rec.subnet}
        /\ bridges' = bridges \ {op.net}
        /\ UNCHANGED nets
  /\ op' = Idle
  /\ UNCHANGED <<eps, bitmap, eth0, oldRules, rules, dns>>
  /\ UNCHANGED <<up, daemonVars, lost>>

-----------------------------------------------------------------------------
(* RemoveNetwork, which NetworkPrune calls too *)

\* Mutation: connected containers do not matter.
RemoveNetworkConnected(n) ==
  /\ Free
  /\ Stored(n) /\ n # Default
  /\ dns' = [dns EXCEPT ![n] = [c \in Ctrs |-> NoAddress]]
  /\ masq' = masq \ {SubnetOf(n)}
  /\ bridges' = bridges \ {n}
  /\ op' = [Idle EXCEPT !.step = "subnet", !.net = n]
  /\ UNCHANGED <<storeVars, eth0, oldRules, rules, up, daemonVars, lost>>

\* DNS names, masquerade rule and bridge: what Init makes again if the daemon
\* dies before the record is gone.
RemoveNetwork(n) ==
  /\ Free
  /\ Stored(n) /\ n # Default
  /\ \A c \in Ctrs : ~Connected(n, c)
  /\ dns' = [dns EXCEPT ![n] = [c \in Ctrs |-> NoAddress]]
  /\ masq' = masq \ {SubnetOf(n)}
  /\ bridges' = bridges \ {n}
  /\ op' = [Idle EXCEPT !.step = "subnet", !.net = n]
  /\ UNCHANGED <<storeVars, eth0, oldRules, rules, up, daemonVars, lost>>

ReleaseSubnet ==
  /\ Doing("subnet")
  /\ bitmap' = [bitmap EXCEPT ![SubnetOf(op.net)] = {}]
  /\ op' = [op EXCEPT !.step = "unrecord"]
  /\ UNCHANGED <<nets, eps, kernelVars, memVars, up, daemonVars, lost>>

RemoveRecord ==
  /\ Doing("unrecord")
  /\ nets' \in {nets, [nets EXCEPT ![op.net] = NoNet]}
  /\ op' = Idle
  /\ UNCHANGED <<eps, bitmap, kernelVars, memVars, up, daemonVars, lost>>

-----------------------------------------------------------------------------
(* Connect: address, veth, port rules, DNS name, record; the deferred stack of
   cleanups undoes what was done, last first, when a later step fails.        *)

\* Mutation: the search does not look at the bitmap.
AllocateAny(n, c, ports) ==
  /\ Free /\ connects < MaxConnect /\ connects' = connects + 1
  /\ Stored(n)
  /\ bitmap' = [bitmap EXCEPT ![SubnetOf(n)] = @ \cup {2}]
  /\ op' = [Idle EXCEPT !.step = "veth", !.net = n, !.ctr = c,
              !.ep = [ip |-> 2, ports |-> ports], !.found = Found]
  /\ UNCHANGED <<nets, eps, kernelVars, memVars, up, daemon, crashes, lost>>

\* Mutation: the broadcast address is not told from a free one.
AllocatePastEnd(n, c, ports) ==
  /\ Free /\ connects < MaxConnect /\ connects' = connects + 1
  /\ Stored(n)
  /\ \E ip \in Lowest(FreeOffsets(SubnetOf(n)) \cup {MaxOffset + 1}) :
       /\ bitmap' = [bitmap EXCEPT ![SubnetOf(n)] = @ \cup {ip}]
       /\ op' = [Idle EXCEPT !.step = "veth", !.net = n, !.ctr = c,
                   !.ep = [ip |-> ip, ports |-> ports], !.found = Found]
  /\ UNCHANGED <<nets, eps, kernelVars, memVars, up, daemon, crashes, lost>>

\* A full subnet makes Connect fail before it has done anything.
Allocate(n, c, ports) ==
  /\ Free /\ connects < MaxConnect /\ connects' = connects + 1
  /\ Stored(n)
  /\ \E ip \in Lowest(FreeOffsets(SubnetOf(n))) :
       /\ bitmap' = [bitmap EXCEPT ![SubnetOf(n)] = @ \cup {ip}]
       /\ op' = [Idle EXCEPT !.step = "veth", !.net = n, !.ctr = c,
                   !.ep = [ip |-> ip, ports |-> ports], !.found = Found]
  /\ UNCHANGED <<nets, eps, kernelVars, memVars, up, daemon, crashes, lost>>

AddressOf(n, ep) == <<SubnetOf(n), ep.ip>>

\* ConnectContainer: the peer is renamed eth0, so it needs a live namespace
\* without one; on failure it removes its own veth.
ConnectVeth ==
  /\ Doing("veth")
  /\ \/ /\ op.net \in bridges /\ op.ctr \in up /\ eth0[op.ctr] = NoEth0
        /\ eth0' = [eth0 EXCEPT ![op.ctr] = AddressOf(op.net, op.ep)]
        /\ op' = [op EXCEPT !.step = "rules"]
        /\ UNCHANGED bitmap
     \/ /\ bitmap' = Release(SubnetOf(op.net), op.ep.ip)
        /\ op' = Idle
        /\ UNCHANGED eth0
  /\ UNCHANGED <<nets, eps, bridges, oldRules, memVars>>
  /\ UNCHANGED <<up, daemonVars, lost>>

\* DisconnectContainer: the veth goes if it is there still, for it died with its
\* namespace.  Veth names are random, so a later veth of c is another one.
Unplug(c, a) == [eth0 EXCEPT ![c] = IF @ = a THEN NoEth0 ELSE @]

Register(n, c, ip) ==
  dns' = IF n = Default THEN dns ELSE [dns EXCEPT ![n][c] = ip]

\* Port rules, then the DNS name.  The rules that were added before one that
\* fails are taken out again, which leaves none.
ConnectRules ==
  /\ Doing("rules")
  /\ \/ /\ rules' = rules \cup RulesOf(op.net, op.ep)
        /\ Register(op.net, op.ctr, op.ep.ip)
        /\ op' = [op EXCEPT !.step = "endpoint"]
        /\ UNCHANGED <<bitmap, eth0>>
     \/ /\ op.ep.ports # {}
        /\ eth0' = Unplug(op.ctr, AddressOf(op.net, op.ep))
        /\ bitmap' = Release(SubnetOf(op.net), op.ep.ip)
        /\ op' = Idle
        /\ UNCHANGED <<rules, dns>>
  /\ UNCHANGED <<nets, eps, bridges, oldRules, masq>>
  /\ UNCHANGED <<up, daemonVars, lost>>

\* CreateEndpoint is a Put: an endpoint that was there, of a run whose exit has
\* not been handled, is gone, and its address with it.
LosesAddress(n, c) == IF Connected(n, c) THEN {AddressOf(n, eps[n][c])} ELSE {}

\* Mutation: the rollback keeps the port rules.
ConnectEndpointKeepsRules ==
  /\ Doing("endpoint")
  /\ \/ /\ eps' = [eps EXCEPT ![op.net][op.ctr] = op.ep]
        /\ lost' = lost \cup LosesAddress(op.net, op.ctr)
        /\ UNCHANGED <<bitmap, eth0, rules, dns>>
     \/ /\ Register(op.net, op.ctr, NoAddress)
        /\ eth0' = Unplug(op.ctr, AddressOf(op.net, op.ep))
        /\ bitmap' = Release(SubnetOf(op.net), op.ep.ip)
        /\ UNCHANGED <<eps, lost, rules>>
  /\ op' = Idle
  /\ UNCHANGED <<nets, bridges, oldRules, masq, up, daemonVars>>

\* Mutation: the rollback keeps the address.
ConnectEndpointKeepsAddress ==
  /\ Doing("endpoint")
  /\ \/ /\ eps' = [eps EXCEPT ![op.net][op.ctr] = op.ep]
        /\ lost' = lost \cup LosesAddress(op.net, op.ctr)
        /\ UNCHANGED <<bitmap, eth0, rules, dns>>
     \/ /\ Register(op.net, op.ctr, NoAddress)
        /\ rules' = rules \ RulesOf(op.net, op.ep)
        /\ eth0' = Unplug(op.ctr, AddressOf(op.net, op.ep))
        /\ UNCHANGED <<eps, lost, bitmap>>
  /\ op' = Idle
  /\ UNCHANGED <<nets, bridges, oldRules, masq, up, daemonVars>>

ConnectEndpoint ==
  /\ Doing("endpoint")
  /\ \/ /\ eps' = [eps EXCEPT ![op.net][op.ctr] = op.ep]
        /\ lost' = lost \cup LosesAddress(op.net, op.ctr)
        /\ UNCHANGED <<bitmap, eth0, rules, dns>>
     \/ /\ Register(op.net, op.ctr, NoAddress)
        /\ rules' = rules \ RulesOf(op.net, op.ep)
        /\ eth0' = Unplug(op.ctr, AddressOf(op.net, op.ep))
        /\ bitmap' = Release(SubnetOf(op.net), op.ep.ip)
        /\ UNCHANGED <<eps, lost>>
  /\ op' = Idle
  /\ UNCHANGED <<nets, bridges, oldRules, masq, up, daemonVars>>

-----------------------------------------------------------------------------
(* Disconnect, and DisconnectAll from HandleExit or Remove *)

NetworksOf(c) == {n \in Ids : Connected(n, c)}

Disconnect(n, c) ==
  /\ Free
  /\ Connected(n, c)
  /\ op' = [Idle EXCEPT !.step = "detach", !.ctr = c, !.todo = {n}]
  /\ UNCHANGED <<storeVars, kernelVars, memVars, up, daemonVars, lost>>

DisconnectAll(c) ==
  /\ Free
  /\ NetworksOf(c) # {}
  /\ op' = [Idle EXCEPT !.step = "detach", !.ctr = c, !.todo = NetworksOf(c)]
  /\ UNCHANGED <<storeVars, kernelVars, memVars, up, daemonVars, lost>>

\* Mutation: the DNS name is kept.
DetachKeepsName ==
  /\ Doing("detach")
  /\ \E n \in op.todo :
       LET ep == eps[n][op.ctr] IN
       /\ rules' = rules \ RulesOf(n, ep)
       /\ eth0' = Unplug(op.ctr, AddressOf(n, ep))
       /\ op' = [op EXCEPT !.step = "release", !.net = n, !.ep = ep]
  /\ UNCHANGED <<storeVars, bridges, oldRules, masq, dns>>
  /\ UNCHANGED <<up, daemonVars, lost>>

\* Mutation: the port rules are kept.
DetachKeepsRules ==
  /\ Doing("detach")
  /\ \E n \in op.todo :
       LET ep == eps[n][op.ctr] IN
       /\ dns' = [dns EXCEPT ![n][op.ctr] = NoAddress]
       /\ eth0' = Unplug(op.ctr, AddressOf(n, ep))
       /\ op' = [op EXCEPT !.step = "release", !.net = n, !.ep = ep]
  /\ UNCHANGED <<storeVars, bridges, oldRules, masq, rules>>
  /\ UNCHANGED <<up, daemonVars, lost>>

\* disconnectLocked: port rules, DNS name and veth, then the address
Detach ==
  /\ Doing("detach")
  /\ \E n \in op.todo :
       LET ep == eps[n][op.ctr] IN
       /\ rules' = rules \ RulesOf(n, ep)
       /\ dns' = [dns EXCEPT ![n][op.ctr] = NoAddress]
       /\ eth0' = Unplug(op.ctr, AddressOf(n, ep))
       /\ op' = [op EXCEPT !.step = "release", !.net = n, !.ep = ep]
  /\ UNCHANGED <<storeVars, bridges, oldRules, masq>>
  /\ UNCHANGED <<up, daemonVars, lost>>

ReleaseAddress ==
  /\ Doing("release")
  /\ bitmap' = Release(SubnetOf(op.net), op.ep.ip)
  /\ op' = [op EXCEPT !.step = "delete"]
  /\ UNCHANGED <<nets, eps, kernelVars, memVars, up, daemonVars, lost>>

DeleteEndpoint ==
  /\ Doing("delete")
  /\ eps' = [eps EXCEPT ![op.net][op.ctr] = NoEp]
  /\ op' = IF op.todo = {op.net} THEN Idle
           ELSE [Idle EXCEPT !.step = "detach", !.ctr = op.ctr, !.todo = op.todo \ {op.net}]
  /\ UNCHANGED <<nets, bitmap, kernelVars, memVars, up, daemonVars, lost>>

-----------------------------------------------------------------------------
(* The containers, as internal/runtime drives them.  When HandleExit calls    *)
(* DisconnectAll is left open: a Start may come before it (the record says    *)
(* Exited first, container.go:1041-1058), and a Start that fails after its    *)
(* Connect never has it called (container.go:569-589).                        *)

CtrCreate(c) ==
  /\ daemon = "up" /\ c \notin up
  /\ up' = up \cup {c}
  /\ UNCHANGED <<storeVars, kernelVars, memVars, op, daemonVars, lost>>

Netless(dead) == [c \in Ctrs |-> IF c \in dead THEN NoEth0 ELSE eth0[c]]

CtrExit(c) ==
  /\ c \in up
  /\ up' = up \ {c}
  /\ eth0' = Netless({c})
  /\ UNCHANGED <<storeVars, bridges, oldRules, memVars, op, daemonVars, lost>>

-----------------------------------------------------------------------------
(* The daemon's end and its next start *)

MemoryGone ==
  /\ daemon' = "down" /\ crashes' = crashes + 1
  /\ masq' = {} /\ rules' = {}
  /\ dns' = [n \in Ids |-> [c \in Ctrs |-> NoAddress]]
  /\ op' = Idle
  /\ UNCHANGED <<storeVars, bridges, eth0, up, connects>>

\* A Connect cut short has an address no record names.
Crash ==
  /\ daemon = "up" /\ crashes < MaxCrash
  /\ MemoryGone
  /\ oldRules' = oldRules \cup rules
  /\ lost' = IF op.step \in {"veth", "rules", "endpoint"}
             THEN lost \cup {AddressOf(op.net, op.ep)} ELSE lost

\* Close deletes the nftables table.
Close ==
  /\ Free /\ crashes < MaxCrash
  /\ MemoryGone
  /\ oldRules' = {}
  /\ UNCHANGED lost

\* Init, with what RecoverOrphans kills right after it.  A bridge may fail to
\* come back, and its network is then left alone; a masquerade rule is taken to
\* come back.
Boot ==
  /\ daemon = "down"
  /\ daemon' = "up"
  /\ \E made \in SUBSET {n \in Ids : Stored(n) /\ n \notin bridges} :
       LET restored == {n \in Ids : Stored(n) /\ n \in bridges \cup made} IN
       /\ bridges' = bridges \cup made
       /\ masq' = {SubnetOf(n) : n \in restored}
       /\ dns' = [n \in Ids |-> [c \in Ctrs |->
                    IF n \in restored \ {Default} THEN eps[n][c].ip ELSE NoAddress]]
  /\ \E killed \in SUBSET up :
       /\ up' = up \ killed
       /\ eth0' = Netless(killed)
  /\ UNCHANGED <<storeVars, oldRules, rules, op, crashes, connects, lost>>

-----------------------------------------------------------------------------
Init ==
  /\ nets = [n \in Ids |-> IF n = Default
                THEN [name |-> DefaultName, subnet |-> 0, internal |-> FALSE] ELSE NoNet]
  /\ eps = [n \in Ids |-> [c \in Ctrs |-> NoEp]]
  /\ bitmap = [s \in Subnets |-> {}]
  /\ bridges = {Default}
  /\ eth0 = [c \in Ctrs |-> NoEth0]
  /\ oldRules = {}
  /\ masq = {0} /\ rules = {}
  /\ dns = [n \in Ids |-> [c \in Ctrs |-> NoAddress]]
  /\ op = Idle
  /\ up = {}
  /\ daemon = "up" /\ crashes = 0 /\ connects = 0
  /\ lost = {}

Next ==
  \/ \E n \in Ids, name \in Names, s \in Subnets, i \in Internals : CreateNetwork(n, name, s, i)
  \/ CreateMasquerade \/ CreateRecord
  \/ \E n \in Ids : RemoveNetwork(n)
  \/ ReleaseSubnet \/ RemoveRecord
  \/ \E n \in Ids, c \in Ctrs : \E ports \in {Publishes[c], {}} : Allocate(n, c, ports)
  \/ ConnectVeth \/ ConnectRules \/ ConnectEndpoint
  \/ \E n \in Ids, c \in Ctrs : Disconnect(n, c)
  \/ \E c \in Ctrs : DisconnectAll(c)
  \/ Detach \/ ReleaseAddress \/ DeleteEndpoint
  \/ \E c \in Ctrs : CtrCreate(c) \/ CtrExit(c)
  \/ Crash \/ Close \/ Boot

Spec == Init /\ [][Next]_vars

-----------------------------------------------------------------------------
(* Properties *)

Steps == {"idle", "masquerade", "record", "subnet", "unrecord",
          "veth", "rules", "endpoint", "detach", "release", "delete"}
Connecting == op.step \in {"veth", "rules", "endpoint"}

StoreOK ==
  /\ nets \in [Ids -> Network \cup {NoNet}]
  /\ eps \in [Ids -> [Ctrs -> Endpoint \cup {NoEp}]]
  /\ bitmap \in [Subnets -> SUBSET Offsets]

KernelOK ==
  /\ bridges \subseteq Ids
  /\ eth0 \in [Ctrs -> Address \cup {NoEth0}]
  /\ oldRules \subseteq Rule

MemOK ==
  /\ masq \subseteq Subnets /\ rules \subseteq Rule
  /\ dns \in [Ids -> [Ctrs -> Offsets \cup {NoAddress}]]

OpOK ==
  op \in [step : Steps, net : Ids, ctr : Ctrs \cup {NoCtr}, todo : SUBSET Ids,
          rec : Network \cup {NoNet},
          ep : [ip : Offsets \cup {NoAddress}, ports : SUBSET Ports], found : {op.found}]

DaemonOK ==
  /\ up \subseteq Ctrs /\ daemon \in {"up", "down"}
  /\ crashes \in 0..MaxCrash /\ connects \in 0..MaxConnect
  /\ lost \subseteq Address

\* Every variable keeps its type.
TypeOK == StoreOK /\ KernelOK /\ MemOK /\ OpOK /\ DaemonOK

\* No two live containers have the same address on the wire.
LiveAddressesUnique ==
  \A c, d \in Ctrs : c # d /\ eth0[c] # NoEth0 => eth0[c] # eth0[d]

\* As long as the daemon has not died: Allocate "assigns the next available IP"
\* (ipam.go:40), never one that an endpoint or a live container has, whatever
\* fails, is rolled back or is put over.
AddressesUnique ==
  crashes = 0 =>
    /\ LiveAddressesUnique
    /\ \A n, m \in Ids, c, d \in Ctrs :
         Connected(n, c) /\ Connected(m, d) /\ <<n, c>> # <<m, d>> =>
           AddressOf(n, eps[n][c]) # AddressOf(m, eps[m][d])

\* An address that is reserved is the address of an endpoint, or of the Connect
\* under way, or was lost when a record was put over another or a Connect was
\* cut short; and until the daemon dies an endpoint's address is reserved.
AddressesAccounted ==
  /\ \A s \in Subnets : \A ip \in bitmap[s] :
       \/ \E n \in Ids, c \in Ctrs : Connected(n, c) /\ SubnetOf(n) = s /\ eps[n][c].ip = ip
       \/ Connecting /\ SubnetOf(op.net) = s /\ op.ep.ip = ip
       \/ <<s, ip>> \in lost
  /\ crashes = 0 => \A n \in Ids, c \in Ctrs :
       Connected(n, c) /\ ~(op.step = "delete" /\ op.net = n /\ op.ctr = c) =>
         eps[n][c].ip \in bitmap[SubnetOf(n)]

\* "On any failure, all completed steps are rolled back" (manager.go:293): a
\* Connect or CreateNetwork that fails leaves bitmap, eth0, rules, names and
\* bridges as it found them, but for namespaces that died meanwhile and the name
\* of a container that was connected already; this as long as no endpoint was put
\* over another, whose port rules stay behind, and no daemon died.
RollbackExact ==
  [][daemon' = "up" /\ op'.step = "idle" /\ crashes = 0 /\ lost = {} =>
       /\ Connecting /\ eps' = eps /\ ~Connected(op.net, op.ctr) =>
            /\ bitmap' = op.found[1] /\ rules' = op.found[2] /\ dns' = op.found[3]
            /\ eth0'[op.ctr] # AddressOf(op.net, op.ep)
       /\ op.step \in {"masquerade", "record"} /\ nets' = nets =>
            masq' = op.found[4] /\ bridges' = op.found[5]]_vars

\* A name the DNS server answers with an address has that address in the store.
DnsTruthful ==
  \A n \in Ids, c \in Ctrs : dns[n][c] # NoAddress =>
    \/ eps[n][c].ip = dns[n][c]
    \/ op.step = "endpoint" /\ op.net = n /\ op.ctr = c /\ op.ep.ip = dns[n][c]

\* A port rule the daemon knows is that of an endpoint that asked for it, or
\* that of an endpoint that another was put over.
RulesOwned ==
  \A r \in rules :
    \/ \E n \in Ids, c \in Ctrs : Connected(n, c) /\ r \in RulesOf(n, eps[n][c])
    \/ op.step = "endpoint" /\ r \in RulesOf(op.net, op.ep)
    \/ <<r.subnet, r.ip>> \in lost

\* RemoveNetwork never takes a network, or its bridge, from under an endpoint.
NetworkHeld ==
  \A n \in Ids, c \in Ctrs : Connected(n, c) => Stored(n) /\ n \in bridges

\* A network that is not internal keeps its masquerade rule as long as it has a
\* bridge: no other network's failure or removal takes it away.
OutboundKept ==
  \A n \in Ids : daemon = "up" /\ Stored(n) /\ n \in bridges /\ ~nets[n].internal =>
    SubnetOf(n) \in masq

\* What the documentation says and the code does not do.

=============================================================================
