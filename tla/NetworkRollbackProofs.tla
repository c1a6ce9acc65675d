------------------------ MODULE NetworkRollbackProofs ------------------------
(* Further theorems about NetworkManager: what happens to the masquerade      *)
(* rules, which address belongs to whom, and what a failure undoes.           *)
EXTENDS NetworkManagerProofs

-----------------------------------------------------------------------------
(* Masquerade rules *)

\* A masquerade rule is that of a network, or of the one about to be recorded.
MasqOwned ==
  \A s \in masq : \/ \E n \in Ids : Stored(n) /\ SubnetOf(n) = s
                  \/ op.step = "record" /\ s = op.rec.subnet

MasqInv ==
  /\ OutboundKept
  /\ MasqOwned
  /\ op.step = "record" /\ ~op.rec.internal => op.rec.subnet \in masq
  /\ Removing => SubnetOf(op.net) \notin masq

LEMMA MasqInit == ASSUME Init PROVE MasqInv
<1>1. SubnetOf(Default) = 0 /\ Stored(Default) /\ Default \in Ids /\ masq = {0}
  BY Domains DEF Init, SubnetOf, Stored, NoNet, DefaultName
<1>2. \A n \in Ids : n \in bridges => n = Default
  BY DEF Init
<1>3. op.step = "idle"
  BY DEF Init, Idle
<1> QED BY <1>1, <1>2, <1>3 DEF MasqInv, OutboundKept, MasqOwned, Removing

LEMMA MasqStep ==
  ASSUME TypeInv, DownInv, SubnetsUnique, MasqInv, [Next]_vars PROVE MasqInv'
<1> USE DEF TypeInv, TypeOK
\* Networks, bridges and rules stay, and so does what the operation says of them.
<1>1. ASSUME UNCHANGED <<nets, bridges, masq, daemon>>, op.step # "record",
             op'.step # "record", Removing' => Removing /\ op'.net = op.net
      PROVE  MasqInv'
  BY <1>1 DEF MasqInv, OutboundKept, MasqOwned, Removing, Stored, SubnetOf
<1>2. ASSUME UNCHANGED <<nets, bridges, masq, daemon, op>> PROVE MasqInv'
  BY <1>2 DEF MasqInv, OutboundKept, MasqOwned, Removing, Stored, SubnetOf
<1>3. op.net \in Ids /\ (Creating => ~Stored(op.net) /\ op.rec \in Network)
  BY DEF OpOK, OpInv
<1>4. ASSUME NEW n \in Ids, NEW name \in Names, NEW s \in Subnets, NEW i \in Internals,
             CreateNetwork(n, name, s, i)
      PROVE  MasqInv'
  <2>1. /\ op.step = "idle" /\ op'.step = "masquerade" /\ ~Stored(n)
        /\ bridges' = bridges \cup {n} /\ UNCHANGED <<nets, masq, daemon>>
    BY <1>4 DEF CreateNetwork, Free, Idle, storeVars, memVars, daemonVars
  <2> QED BY <2>1 DEF MasqInv, OutboundKept, MasqOwned, Removing, Stored, SubnetOf
<1>5. CASE CreateMasquerade
  <2>1. op.step = "masquerade" /\ UNCHANGED <<nets, daemon>> /\ ~Stored(op.net)
    BY <1>3, <1>5 DEF CreateMasquerade, Doing, storeVars, daemonVars, Creating
  <2>2. CASE /\ masq' = IF op.rec.internal THEN masq ELSE masq \cup {op.rec.subnet}
             /\ op' = [op EXCEPT !.step = "record"] /\ UNCHANGED bridges
    <3>1. op'.step = "record" /\ op'.rec = op.rec
      BY <2>2 DEF OpOK
    <3> QED BY <2>1, <2>2, <3>1 DEF MasqInv, OutboundKept, MasqOwned, Removing, Stored, SubnetOf
  <2>3. CASE bridges' = bridges \ {op.net} /\ op' = Idle /\ UNCHANGED masq
    BY <2>1, <2>3 DEF MasqInv, OutboundKept, MasqOwned, Removing, Stored, SubnetOf, Idle
  <2> QED BY <1>5, <2>2, <2>3 DEF CreateMasquerade
<1>6. CASE CreateRecord
  <2>1. /\ op.step = "record" /\ op'.step = "idle" /\ UNCHANGED daemon /\ op.rec \in Network
        /\ ~Stored(op.net)
    BY <1>3, <1>6 DEF CreateRecord, Doing, Idle, daemonVars, Creating
  <2>2. CASE nets' = [nets EXCEPT ![op.net] = op.rec] /\ UNCHANGED <<masq, bridges>>
    <3>1. \A n \in Ids : nets'[n] = IF n = op.net THEN op.rec ELSE nets[n]
      BY <2>2 DEF StoreOK
    <3>2. OutboundKept'
      BY <2>1, <2>2, <3>1 DEF MasqInv, OutboundKept, Stored, SubnetOf
    <3>3. MasqOwned'
      BY <1>3, <2>1, <2>2, <3>1, Domains DEF MasqInv, MasqOwned, Stored, SubnetOf
    <3> QED BY <2>1, <3>2, <3>3 DEF MasqInv, Removing
  <2>3. CASE masq' = masq \ {op.rec.subnet} /\ bridges' = bridges \ {op.net} /\ UNCHANGED nets
    <3>1. \A n \in Ids : Stored(n) => SubnetOf(n) # op.rec.subnet
      BY <2>1 DEF SubnetsUnique, Creating
    <3> QED BY <2>1, <2>3, <3>1 DEF MasqInv, OutboundKept, MasqOwned, Removing, Stored, SubnetOf
  <2> QED BY <1>6, <2>2, <2>3 DEF CreateRecord
<1>7. ASSUME NEW n \in Ids, RemoveNetwork(n) PROVE MasqInv'
  <2>1. /\ op.step = "idle" /\ op'.step = "subnet" /\ op'.net = n /\ UNCHANGED <<nets, daemon>>
        /\ masq' = masq \ {SubnetOf(n)} /\ bridges' = bridges \ {n} /\ Stored(n)
    BY <1>7 DEF RemoveNetwork, Free, Idle, storeVars, daemonVars
  <2>2. \A m \in Ids : Stored(m) /\ m # n => SubnetOf(m) # SubnetOf(n)
    BY <2>1 DEF SubnetsUnique
  <2>3. OutboundKept' /\ MasqOwned'
    BY <2>1, <2>2 DEF MasqInv, OutboundKept, MasqOwned, Stored, SubnetOf
  <2> QED BY <2>1, <2>3 DEF MasqInv, SubnetOf
<1>8. CASE RemoveRecord
  <2>1. /\ op.step = "unrecord" /\ op'.step = "idle" /\ UNCHANGED <<masq, bridges, daemon>>
        /\ \A n \in Ids : nets'[n] = nets[n] \/ (nets'[n] = NoNet /\ n = op.net)
    BY <1>8 DEF RemoveRecord, Doing, Idle, StoreOK, memVars, kernelVars, daemonVars
  <2> QED BY <2>1 DEF MasqInv, OutboundKept, MasqOwned, Removing, Stored, SubnetOf
<1>9. CASE ReleaseSubnet
  <2>1. op'.net = op.net /\ op.step = "subnet" /\ op'.step = "unrecord"
    BY <1>9 DEF ReleaseSubnet, Doing, OpOK
  <2> QED BY <1>1, <1>9, <2>1 DEF ReleaseSubnet, Removing, memVars, kernelVars, daemonVars
<1>10. ASSUME NEW n \in Ids, NEW c \in Ctrs, NEW ports \in {Publishes[c], {}}, Allocate(n, c, ports)
       PROVE  MasqInv'
  BY <1>1, <1>10 DEF Allocate, Free, Idle, Removing, memVars, kernelVars
<1>11. CASE ConnectVeth
  BY <1>1, <1>11, ConnectVethEffect DEF ConnectVeth, Removing, memVars, daemonVars
<1>12. CASE ConnectRules
  BY <1>1, <1>12, ConnectRulesEffect DEF ConnectRules, Removing, daemonVars
<1>13. CASE ConnectEndpoint
  BY <1>1, <1>13, ConnectEndpointEffect DEF ConnectEndpoint, Removing, daemonVars
<1>14. CASE (\E n \in Ids, c \in Ctrs : Disconnect(n, c)) \/ \E c \in Ctrs : DisconnectAll(c)
  BY <1>1, <1>14 DEF Disconnect, DisconnectAll, Free, Idle, Removing, storeVars, memVars,
     kernelVars, daemonVars
<1>15. CASE Detach
  BY <1>1, <1>15, DetachEffect DEF Detach, Removing, storeVars, daemonVars
<1>16. CASE ReleaseAddress
  BY <1>1, <1>16, ReleaseAddressEffect DEF ReleaseAddress, Removing, memVars, kernelVars, daemonVars
<1>17. CASE DeleteEndpoint
  BY <1>1, <1>17, DeleteEndpointEffect DEF DeleteEndpoint, Removing, memVars, kernelVars, daemonVars
<1>18. CASE \E c \in Ctrs : CtrCreate(c) \/ CtrExit(c)
  BY <1>2, <1>18 DEF CtrCreate, CtrExit, storeVars, memVars, kernelVars, daemonVars
<1>19. CASE Crash \/ Close
  <2>1. op'.step = "idle" /\ daemon' = "down" /\ masq' = {}
    BY <1>19 DEF Crash, Close, MemoryGone, Idle
  <2> QED BY <2>1 DEF MasqInv, OutboundKept, MasqOwned, Removing
<1>20. CASE Boot
  <2>1. op.step = "idle" /\ UNCHANGED <<nets, op>>
    BY <1>20 DEF Boot, DownInv, storeVars
  <2>2. PICK made \in SUBSET {n \in Ids : Stored(n) /\ n \notin bridges} :
          /\ bridges' = bridges \cup made
          /\ masq' = {SubnetOf(n) : n \in {m \in Ids : Stored(m) /\ m \in bridges \cup made}}
    BY <1>20 DEF Boot
  <2> QED BY <2>1, <2>2 DEF MasqInv, OutboundKept, MasqOwned, Removing, Stored, SubnetOf
<1>21. CASE UNCHANGED vars
  BY <1>2, <1>21 DEF vars, storeVars, memVars, kernelVars, daemonVars
<1> QED BY <1>4, <1>5, <1>6, <1>7, <1>8, <1>9, <1>10, <1>11, <1>12, <1>13, <1>14, <1>15, <1>16,
           <1>17, <1>18, <1>19, <1>20, <1>21, NextCases

LEMMA SubnetsInit == ASSUME Init PROVE SubnetsUnique
BY DEF Init, Idle, SubnetsUnique, Stored, Creating

\* A network that has its bridge has its way out, whatever is created, fails, is
\* removed or is cut short; when every network is given a subnet of the pool, for
\* a rule is known by its subnet alone (nat.go:129-162, manager.go:166-190).
THEOREM OutboundAlwaysKept == ASSUME Explicit = {} PROVE Spec => []OutboundKept
<1> DEFINE IInv == StoreInv /\ SubnetsUnique /\ MasqInv
<1>1. Init => IInv
  BY StoreInit, SubnetsInit, MasqInit
<1>2. IInv /\ [Next]_vars => IInv'
  BY StoreStep, SubnetsStep, MasqStep DEF StoreInv
<1>3. IInv => OutboundKept
  BY DEF MasqInv
<1> QED BY <1>1, <1>2, <1>3, PTL DEF Spec

-----------------------------------------------------------------------------
(* Reserved addresses *)

\* Who an address is reserved for.
Claimed(s, ip) ==
  \/ \E n \in Ids, c \in Ctrs : Connected(n, c) /\ SubnetOf(n) = s /\ eps[n][c].ip = ip
  \/ Connecting /\ SubnetOf(op.net) = s /\ op.ep.ip = ip
  \/ <<s, ip>> \in lost

\* An endpoint ends after its address: what was reserved for it is not any more.
ClaimsInv ==
  /\ \A s \in Subnets : \A ip \in bitmap[s] : Claimed(s, ip)
  /\ op.step = "delete" => op.ep.ip \notin bitmap[SubnetOf(op.net)]

\* An address that is lost stays lost.
LEMMA LostGrows == ASSUME [Next]_vars PROVE lost \subseteq lost'
<1>1. ASSUME NEW m \in Ids, NEW d \in Ctrs, NEW ports \in {Publishes[d], {}}, Allocate(m, d, ports)
      PROVE  UNCHANGED lost
  BY <1>1 DEF Allocate
<1>2. CASE CreateMasquerade \/ CreateRecord \/ ReleaseSubnet \/ RemoveRecord \/ ConnectVeth
           \/ ConnectRules \/ ConnectEndpoint \/ Detach \/ ReleaseAddress \/ DeleteEndpoint
  BY <1>2 DEF CreateMasquerade, CreateRecord, ReleaseSubnet, RemoveRecord, ConnectVeth,
     ConnectRules, ConnectEndpoint, Detach, ReleaseAddress, DeleteEndpoint
<1>3. CASE \/ \E m \in Ids, name \in Names, s \in Subnets, i \in Internals : CreateNetwork(m, name, s, i)
           \/ \E m \in Ids : RemoveNetwork(m)
           \/ \E m \in Ids, d \in Ctrs : Disconnect(m, d)
           \/ \E d \in Ctrs : DisconnectAll(d)
  BY <1>3 DEF CreateNetwork, RemoveNetwork, Disconnect, DisconnectAll
<1>4. CASE (\E d \in Ctrs : CtrCreate(d) \/ CtrExit(d)) \/ Boot \/ UNCHANGED vars
  BY <1>4 DEF CtrCreate, CtrExit, Boot, vars
<1>5. CASE Crash \/ Close
  BY <1>5 DEF Crash, Close
<1> QED BY <1>1, <1>2, <1>3, <1>4, <1>5, NextCases

\* A claim lasts as long as its endpoint, or the Connect it is made by.
LEMMA ClaimKept ==
  ASSUME TypeInv, NetworkHeld, [Next]_vars, NEW s, NEW ip, Claimed(s, ip),
         \A n \in Ids, c \in Ctrs : Connected(n, c) => eps'[n][c] = eps[n][c],
         Connecting => Connecting' /\ UNCHANGED nets /\ op'.net = op.net /\ op'.ep = op.ep
  PROVE  Claimed(s, ip)'
<1>1. ASSUME NEW n \in Ids, NEW c \in Ctrs, Connected(n, c), SubnetOf(n) = s, eps[n][c].ip = ip
      PROVE  Claimed(s, ip)'
  <2>1. Connected(n, c)' /\ SubnetOf(n)' = s /\ eps'[n][c].ip = ip
    BY <1>1, SameEndpoint DEF Connected
  <2> QED BY <2>1 DEF Claimed
<1>2. CASE Connecting /\ SubnetOf(op.net) = s /\ op.ep.ip = ip
  BY <1>2 DEF Claimed, SubnetOf
<1>3. CASE <<s, ip>> \in lost
  BY <1>3, LostGrows DEF Claimed
<1> QED BY <1>1, <1>2, <1>3 DEF Claimed

LEMMA ClaimsInit == ASSUME Init PROVE ClaimsInv
BY DEF Init, Idle, ClaimsInv

LEMMA ClaimsStep ==
  ASSUME TypeInv, DownInv, NetworkHeld, ClaimsInv, [Next]_vars PROVE ClaimsInv'
<1>1. op.net \in Ids /\ SubnetOf(op.net) \in Subnets
  BY SubnetType DEF TypeInv, TypeOK, OpOK
\* Reservations and endpoints stay, and no Connect ends.
<1>2. ASSUME UNCHANGED <<eps, bitmap>>, ~Connecting, op'.step # "delete" PROVE ClaimsInv'
  BY <1>2, ClaimKept DEF ClaimsInv
<1>3. ASSUME UNCHANGED <<nets, eps, bitmap>>, op'.net = op.net, op'.ep = op.ep,
             Connecting => Connecting', op'.step = "delete" => op.step = "delete"
      PROVE  ClaimsInv'
  BY <1>3, ClaimKept DEF ClaimsInv, SubnetOf
\* A Connect that fails gives its address back.
<1>4. ASSUME UNCHANGED <<nets, eps>>, Connecting, op'.step = "idle",
             bitmap' = Release(SubnetOf(op.net), op.ep.ip)
      PROVE  ClaimsInv'
  <2>1. ASSUME NEW s \in Subnets, NEW ip \in bitmap'[s] PROVE Claimed(s, ip)'
    <3>1. ip \in bitmap[s] /\ ~(s = SubnetOf(op.net) /\ ip = op.ep.ip)
      BY <1>1, <1>4, <2>1, ReleaseEffect, Zenon
    <3>2. \/ \E n \in Ids, c \in Ctrs : Connected(n, c) /\ SubnetOf(n) = s /\ eps[n][c].ip = ip
          \/ <<s, ip>> \in lost
      BY <2>1, <3>1 DEF ClaimsInv, Claimed
    <3>3. CASE <<s, ip>> \in lost
      BY <3>3, LostGrows DEF Claimed
    <3> QED BY <1>4, <3>2, <3>3 DEF Claimed, Connected, SubnetOf
  <2> QED BY <1>4, <2>1 DEF ClaimsInv
<1>5. CASE \/ \E n \in Ids, name \in Names, s \in Subnets, i \in Internals : CreateNetwork(n, name, s, i)
           \/ \E n \in Ids : RemoveNetwork(n)
           \/ \E n \in Ids, c \in Ctrs : Disconnect(n, c)
           \/ \E c \in Ctrs : DisconnectAll(c)
  BY <1>2, <1>5 DEF CreateNetwork, RemoveNetwork, Disconnect, DisconnectAll, Free, Idle,
     Connecting, storeVars
<1>6. CASE CreateMasquerade
  BY <1>2, <1>6 DEF CreateMasquerade, Doing, Idle, TypeInv, TypeOK, OpOK, Connecting, storeVars
<1>7. CASE CreateRecord \/ RemoveRecord
  BY <1>2, <1>7 DEF CreateRecord, RemoveRecord, Doing, Idle, Connecting
<1>8. CASE ReleaseSubnet
  <2>1. /\ op.step = "subnet" /\ op'.step = "unrecord" /\ UNCHANGED <<nets, eps>>
        /\ \A s \in Subnets : s # SubnetOf(op.net) => bitmap'[s] = bitmap[s]
    BY <1>8, ReleaseSubnetEffect
  <2>2. bitmap'[SubnetOf(op.net)] = {}
    BY <1>1, <1>8 DEF ReleaseSubnet, TypeInv, TypeOK, StoreOK
  <2>3. ASSUME NEW s \in Subnets, NEW ip \in bitmap'[s] PROVE Claimed(s, ip)'
    <3>1. ip \in bitmap[s]
      BY <2>1, <2>2, <2>3
    <3> QED BY <2>1, <3>1, ClaimKept DEF ClaimsInv, Connecting
  <2> QED BY <2>1, <2>3 DEF ClaimsInv
<1>9. ASSUME NEW n \in Ids, NEW c \in Ctrs, NEW ports \in {Publishes[c], {}}, Allocate(n, c, ports)
      PROVE  ClaimsInv'
  <2>1. /\ op.step = "idle" /\ UNCHANGED <<nets, eps>> /\ op'.step = "veth" /\ op'.net = n
        /\ \A s \in Subnets :
             bitmap'[s] = IF s = SubnetOf(n) THEN bitmap[s] \cup {op'.ep.ip} ELSE bitmap[s]
    BY <1>9, AllocateEffect
  <2>2. ASSUME NEW s \in Subnets, NEW ip \in bitmap'[s] PROVE Claimed(s, ip)'
    <3>1. CASE ip \in bitmap[s]
      BY <2>1, <3>1, ClaimKept DEF ClaimsInv, Connecting
    <3>2. CASE s = SubnetOf(n) /\ ip = op'.ep.ip
      BY <2>1, <3>2 DEF Claimed, Connecting, SubnetOf
    <3> QED BY <2>1, <2>2, <3>1, <3>2
  <2> QED BY <2>1, <2>2 DEF ClaimsInv
<1>10. CASE ConnectVeth
  BY <1>3, <1>4, <1>10, ConnectVethEffect DEF Connecting
<1>11. CASE ConnectRules
  BY <1>3, <1>4, <1>11, ConnectRulesEffect DEF Connecting
<1>12. CASE ConnectEndpoint
  <2>1. /\ op.step = "endpoint" /\ op'.step = "idle" /\ UNCHANGED nets
        /\ op.ctr \in Ctrs /\ op.ep \in Endpoint
    BY <1>12, ConnectEndpointEffect
  <2>2. CASE UNCHANGED eps /\ bitmap' = Release(SubnetOf(op.net), op.ep.ip)
    BY <1>4, <2>1, <2>2 DEF Connecting
  <2>3. CASE /\ UNCHANGED bitmap /\ eps' = [eps EXCEPT ![op.net][op.ctr] = op.ep]
             /\ lost' = lost \cup LosesAddress(op.net, op.ctr)
    <3>0. \A n \in Ids, c \in Ctrs :
            eps'[n][c] = IF n = op.net /\ c = op.ctr THEN op.ep ELSE eps[n][c]
      BY <1>1, <2>1, <2>3 DEF TypeInv, TypeOK, StoreOK
    <3>1. ASSUME NEW n \in Ids, NEW c \in Ctrs, Connected(n, c)
          PROVE  \/ Connected(n, c)' /\ eps'[n][c] = eps[n][c]
                 \/ AddressOf(n, eps[n][c]) \in lost'
      BY <2>3, <3>0, <3>1 DEF Connected, LosesAddress
    <3>2. ASSUME NEW n \in Ids, NEW c \in Ctrs, n = op.net, c = op.ctr
          PROVE  Connected(n, c)' /\ eps'[n][c] = op.ep
      BY <2>1, <3>0, <3>2, Domains DEF Connected
    <3>3. ASSUME NEW s \in Subnets, NEW ip \in bitmap[s] PROVE Claimed(s, ip)'
      <4>1. ASSUME NEW n \in Ids, NEW c \in Ctrs, Connected(n, c), SubnetOf(n) = s, eps[n][c].ip = ip
            PROVE  Claimed(s, ip)'
        BY <2>1, <3>1, <4>1 DEF Claimed, AddressOf, SubnetOf
      <4>2. CASE SubnetOf(op.net) = s /\ op.ep.ip = ip
        BY <1>1, <2>1, <3>2, <4>2 DEF Claimed, SubnetOf
      <4>3. CASE <<s, ip>> \in lost
        BY <4>3, LostGrows DEF Claimed
      <4> QED BY <3>3, <4>1, <4>2, <4>3 DEF ClaimsInv, Claimed
    <3> QED BY <2>1, <2>3, <3>3 DEF ClaimsInv
  <2> QED BY <1>12, <2>2, <2>3 DEF ConnectEndpoint
<1>13. CASE Detach
  BY <1>2, <1>13, DetachEffect DEF Connecting
<1>14. CASE ReleaseAddress
  <2>1. /\ op.step = "release" /\ op'.step = "delete" /\ UNCHANGED <<nets, eps>>
        /\ op'.net = op.net /\ op'.ep = op.ep /\ bitmap' = Release(SubnetOf(op.net), op.ep.ip)
    BY <1>14, ReleaseAddressEffect DEF ReleaseAddress, TypeInv, TypeOK, OpOK
  <2>2. \A s \in Subnets :
          bitmap'[s] = IF s = SubnetOf(op.net) THEN bitmap[s] \ {op.ep.ip} ELSE bitmap[s]
    BY <1>1, <2>1, ReleaseEffect
  <2>3. ASSUME NEW s \in Subnets, NEW ip \in bitmap'[s] PROVE Claimed(s, ip)'
    <3>1. Claimed(s, ip)
      BY <2>2, <2>3 DEF ClaimsInv
    <3> QED BY <2>1, <3>1, ClaimKept DEF Connecting
  <2> QED BY <1>1, <2>1, <2>2, <2>3 DEF ClaimsInv, SubnetOf
<1>15. CASE DeleteEndpoint
  <2>1. /\ op.step = "delete" /\ op.ctr \in Ctrs /\ op'.step \in {"idle", "detach"}
        /\ UNCHANGED <<nets, bitmap>>
        /\ \A n \in Ids, c \in Ctrs :
             eps'[n][c] = IF n = op.net /\ c = op.ctr THEN NoEp ELSE eps[n][c]
    BY <1>15, DeleteEndpointEffect
  <2>2. op.ep = eps[op.net][op.ctr]
    BY <2>1 DEF TypeInv, OpInv, Detached
  <2>3. ASSUME NEW s \in Subnets, NEW ip \in bitmap[s] PROVE Claimed(s, ip)'
    <3>1. ~(s = SubnetOf(op.net) /\ ip = op.ep.ip)
      BY <2>1, <2>3 DEF ClaimsInv
    <3>2. ASSUME NEW n \in Ids, NEW c \in Ctrs, Connected(n, c), SubnetOf(n) = s, eps[n][c].ip = ip
          PROVE  Claimed(s, ip)'
      <4>1. ~(n = op.net /\ c = op.ctr)
        BY <2>2, <3>1, <3>2
      <4> QED BY <2>1, <3>2, <4>1 DEF Claimed, Connected, SubnetOf
    <3>3. CASE <<s, ip>> \in lost
      BY <3>3, LostGrows DEF Claimed
    <3> QED BY <2>1, <2>3, <3>2, <3>3 DEF ClaimsInv, Claimed, Connecting
  <2> QED BY <2>1, <2>3 DEF ClaimsInv
<1>16. CASE (\E c \in Ctrs : CtrCreate(c) \/ CtrExit(c)) \/ Boot \/ UNCHANGED vars
  BY <1>3, <1>16 DEF CtrCreate, CtrExit, Boot, vars, storeVars, Connecting
<1>17. CASE Crash
  <2>1. op'.step = "idle" /\ UNCHANGED <<nets, eps, bitmap>>
        /\ (Connecting => AddressOf(op.net, op.ep) \in lost')
    BY <1>17 DEF Crash, MemoryGone, Idle, storeVars, Connecting
  <2>2. ASSUME NEW s \in Subnets, NEW ip \in bitmap[s] PROVE Claimed(s, ip)'
    <3>1. Claimed(s, ip)
      BY <2>2 DEF ClaimsInv
    <3> QED BY <2>1, <3>1, LostGrows DEF Claimed, Connected, SubnetOf, AddressOf
  <2> QED BY <2>1, <2>2 DEF ClaimsInv
<1>18. CASE Close
  BY <1>2, <1>18 DEF Close, MemoryGone, Free, Idle, storeVars, Connecting
<1> QED BY <1>5, <1>6, <1>7, <1>8, <1>9, <1>10, <1>11, <1>12, <1>13, <1>14, <1>15, <1>16, <1>17,
           <1>18, NextCases

\* No address leaks: one that is reserved is that of an endpoint or of the Connect
\* under way, or was lost when an endpoint was put over another or a Connect was
\* cut short; and as long as the daemon lives an endpoint's address is reserved.
\* When every network is given a subnet of the pool (ipam.go:98-190, store.go:56).
THEOREM ReservationsAccounted == ASSUME Explicit = {} PROVE Spec => []AddressesAccounted
<1> DEFINE IInv == StoreInv /\ UniqueInv /\ ClaimsInv
<1>1. Init => IInv
  BY StoreInit, UniqueInit, ClaimsInit
<1>2. IInv /\ [Next]_vars => IInv'
  BY StoreStep, UniqueStep, ClaimsStep DEF StoreInv
<1>3. IInv => AddressesAccounted
  <2> SUFFICES ASSUME IInv PROVE AddressesAccounted
    OBVIOUS
  <2>1. \A s \in Subnets : \A ip \in bitmap[s] : Claimed(s, ip)
    BY DEF ClaimsInv
  <2>2. crashes = 0 => Reserved
    BY DEF UniqueInv
  <2> QED BY <2>1, <2>2 DEF AddressesAccounted, Claimed, Reserved, Holds
<1> QED BY <1>1, <1>2, <1>3, PTL DEF Spec

-----------------------------------------------------------------------------
(* What a failure undoes *)

\* CreateNetwork has added its bridge, then its masquerade rule, to what it found.
CreateFound ==
  Creating =>
    /\ op.net \notin op.found[5] /\ bridges = op.found[5] \cup {op.net}
    /\ op.rec.subnet \notin op.found[4]
    /\ masq = IF op.step = "record" /\ ~op.rec.internal
              THEN op.found[4] \cup {op.rec.subnet} ELSE op.found[4]

\* Connect has reserved an address, then added its rules and its name.
ReservedFound ==
  /\ op.found[1] \in [Subnets -> SUBSET Offsets]
  /\ op.ep.ip \notin op.found[1][SubnetOf(op.net)]
  /\ bitmap = [op.found[1] EXCEPT ![SubnetOf(op.net)] = @ \cup {op.ep.ip}]

NamedFound ==
  /\ op.found[3] \in [Ids -> [Ctrs -> Offsets \cup {NoAddress}]]
  /\ op.found[3][op.net][op.ctr] = NoAddress
  /\ dns = IF op.net = Default THEN op.found[3]
           ELSE [op.found[3] EXCEPT ![op.net][op.ctr] = op.ep.ip]

RulesFound ==
  /\ op.step # "endpoint" => rules = op.found[2] /\ dns = op.found[3]
  /\ op.step = "endpoint" =>
       /\ RulesOf(op.net, op.ep) \cap op.found[2] = {}
       /\ rules = op.found[2] \cup RulesOf(op.net, op.ep)
       /\ ~Connected(op.net, op.ctr) => NamedFound

ConnectFound ==
  crashes = 0 /\ lost = {} /\ Connecting => ReservedFound /\ RulesFound

LEMMA FoundInit == ASSUME Init PROVE CreateFound /\ ConnectFound
BY DEF Init, Idle, CreateFound, ConnectFound, Creating, Connecting

\* Only its own steps move a CreateNetwork.
LEMMA CreateFoundStep ==
  ASSUME Explicit = {}, TypeInv, DownInv, MasqInv, CreateFound, [Next]_vars PROVE CreateFound'
<1> USE DEF TypeInv, TypeOK
<1>1. ASSUME op'.step \notin {"masquerade", "record"} PROVE CreateFound'
  BY <1>1 DEF CreateFound, Creating
<1>2. ASSUME UNCHANGED <<op, bridges, masq>> PROVE CreateFound'
  BY <1>2 DEF CreateFound, Creating
<1>3. ASSUME NEW n \in Ids, NEW name \in Names, NEW s \in Subnets, NEW i \in Internals,
             CreateNetwork(n, name, s, i)
      PROVE  CreateFound'
  <2>1. /\ op.step = "idle" /\ op'.step = "masquerade" /\ op'.net = n /\ op'.rec.subnet = s
        /\ op'.found = <<bitmap, rules, dns, masq, bridges>>
    BY <1>3 DEF CreateNetwork, Free, Idle, Found
  <2>2. n \notin bridges /\ bridges' = bridges \cup {n} /\ UNCHANGED masq /\ s \in AutoSubnets
    BY <1>3 DEF CreateNetwork, memVars, Lowest
  <2>3. s \notin masq
    BY <2>1, <2>2 DEF MasqInv, MasqOwned, AutoSubnets, UsedSubnets
  <2>4. op'.found[4] = masq /\ op'.found[5] = bridges
    BY <2>1
  <2> QED BY <2>1, <2>2, <2>3, <2>4 DEF CreateFound
<1>4. CASE CreateMasquerade
  <2>1. op.step = "masquerade" /\ Creating
    BY <1>4 DEF CreateMasquerade, Doing, Creating
  <2>2. CASE /\ masq' = IF op.rec.internal THEN masq ELSE masq \cup {op.rec.subnet}
             /\ op' = [op EXCEPT !.step = "record"] /\ UNCHANGED bridges
    <3>1. op'.step = "record" /\ op'.net = op.net /\ op'.rec = op.rec /\ op'.found = op.found
      BY <2>2 DEF OpOK
    <3> QED BY <2>1, <2>2, <3>1 DEF CreateFound, Creating
  <2>3. CASE op' = Idle
    BY <1>1, <2>3 DEF Idle
  <2> QED BY <1>4, <2>2, <2>3 DEF CreateMasquerade
<1>5. CASE CreateRecord \/ RemoveRecord \/ ConnectEndpoint \/ DeleteEndpoint \/ Crash \/ Close
  BY <1>1, <1>5, ConnectEndpointEffect, DeleteEndpointEffect
    DEF CreateRecord, RemoveRecord, Crash, Close, MemoryGone, Idle
<1>6. CASE \/ \E n \in Ids : RemoveNetwork(n)
           \/ \E n \in Ids, c \in Ctrs : Disconnect(n, c)
           \/ \E c \in Ctrs : DisconnectAll(c)
  BY <1>1, <1>6 DEF RemoveNetwork, Disconnect, DisconnectAll, Idle
<1>7. CASE ReleaseSubnet \/ ConnectVeth \/ ConnectRules \/ Detach \/ ReleaseAddress
  BY <1>1, <1>7, ReleaseSubnetEffect, ConnectVethEffect, ConnectRulesEffect, DetachEffect,
     ReleaseAddressEffect
<1>8. ASSUME NEW n \in Ids, NEW c \in Ctrs, NEW ports \in {Publishes[c], {}}, Allocate(n, c, ports)
      PROVE  CreateFound'
  BY <1>1, <1>8, AllocateEffect
<1>9. CASE \E c \in Ctrs : CtrCreate(c) \/ CtrExit(c)
  BY <1>2, <1>9 DEF CtrCreate, CtrExit, memVars, kernelVars
<1>10. CASE Boot
  BY <1>1, <1>10 DEF Boot, DownInv
<1>11. CASE UNCHANGED vars
  BY <1>2, <1>11 DEF vars, memVars, kernelVars
<1> QED BY <1>3, <1>4, <1>5, <1>6, <1>7, <1>8, <1>9, <1>10, <1>11, NextCases

\* The rules and the name that Connect adds are new ones.
LEMMA NewRules ==
  ASSUME StoreInv, EndpointsUnique, lost = {}, op.step = "rules"
  PROVE  RulesOf(op.net, op.ep) \cap rules = {}
<1> SUFFICES ASSUME NEW r \in rules, r \in RulesOf(op.net, op.ep) PROVE FALSE
  OBVIOUS
<1>1. PICK n \in Ids, c \in Ctrs : Connected(n, c) /\ r \in RulesOf(n, eps[n][c])
  BY DEF StoreInv, RulesInv, RulesOwned
<1>2. r.subnet = SubnetOf(n) /\ r.ip = eps[n][c].ip /\ r.subnet = SubnetOf(op.net) /\ r.ip = op.ep.ip
  BY <1>1 DEF RulesOf
<1> QED BY <1>1, <1>2 DEF EndpointsUnique, Connecting, AddressOf

LEMMA NewName ==
  ASSUME StoreInv, op.step = "rules", ~Connected(op.net, op.ctr)
  PROVE  dns[op.net][op.ctr] = NoAddress
<1>1. op.net \in Ids /\ op.ctr \in Ctrs
  BY DEF StoreInv, TypeInv, TypeOK, OpOK, OpInv, Connecting
<1>2. NoEp.ip = NoAddress
  BY DEF NoEp
<1> QED BY <1>1, <1>2 DEF StoreInv, DnsInv, DnsTruthful, Connected

LEMMA ConnectFoundStep ==
  ASSUME StoreInv, UniqueInv, ConnectFound, [Next]_vars PROVE ConnectFound'
<1> USE DEF StoreInv, TypeInv, TypeOK
<1>1. ASSUME op'.step \notin {"veth", "rules", "endpoint"} PROVE ConnectFound'
  BY <1>1 DEF ConnectFound, Connecting
\* From here on the daemon lives and no address is lost.
<1>2. ASSUME UNCHANGED <<nets, eps, bitmap, rules, dns, op, crashes>> PROVE ConnectFound'
  <2>1. lost' = {} => lost = {}
    BY LostGrows
  <2> QED BY <1>2, <2>1 DEF ConnectFound, ReservedFound, RulesFound, NamedFound, Connecting,
     Connected, RulesOf, SubnetOf
<1>3. ASSUME NEW n \in Ids, NEW c \in Ctrs, NEW ports \in {Publishes[c], {}}, Allocate(n, c, ports)
      PROVE  ConnectFound'
  <2>1. PICK ip \in Lowest(FreeOffsets(SubnetOf(n))) :
          /\ bitmap' = [bitmap EXCEPT ![SubnetOf(n)] = @ \cup {ip}]
          /\ op' = [Idle EXCEPT !.step = "veth", !.net = n, !.ctr = c,
                      !.ep = [ip |-> ip, ports |-> ports], !.found = Found]
    BY <1>3 DEF Allocate
  <2>2. /\ op'.step = "veth" /\ op'.net = n /\ op'.ep.ip = ip
        /\ op'.found = <<bitmap, rules, dns, masq, bridges>>
    BY <2>1 DEF Idle, Found
  <2>3. op'.found[1] = bitmap /\ op'.found[2] = rules /\ op'.found[3] = dns
    BY <2>2
  <2>4. ip \notin bitmap[SubnetOf(n)] /\ UNCHANGED <<nets, rules, dns>>
    BY <1>3 DEF Lowest, FreeOffsets, Allocate, memVars
  <2> QED BY <2>1, <2>2, <2>3, <2>4 DEF ConnectFound, ReservedFound, RulesFound, StoreOK, SubnetOf
<1>4. CASE ConnectVeth
  <2>1. CASE op' = [op EXCEPT !.step = "rules"] /\ UNCHANGED bitmap
    <3>1. /\ op.step = "veth" /\ op'.step = "rules" /\ op'.net = op.net /\ op'.ep = op.ep
          /\ op'.found = op.found /\ UNCHANGED <<nets, rules, dns, crashes, lost>>
      BY <1>4, <2>1 DEF ConnectVeth, Doing, OpOK, memVars, daemonVars
    <3> QED BY <2>1, <3>1 DEF ConnectFound, ReservedFound, RulesFound, Connecting, SubnetOf
  <2>2. CASE op' = Idle
    BY <1>1, <2>2 DEF Idle
  <2> QED BY <1>4, <2>1, <2>2 DEF ConnectVeth
<1>5. CASE ConnectRules
  <2>1. CASE /\ op' = [op EXCEPT !.step = "endpoint"] /\ UNCHANGED bitmap
             /\ rules' = rules \cup RulesOf(op.net, op.ep) /\ Register(op.net, op.ctr, op.ep.ip)
    <3>1. /\ op.step = "rules" /\ op'.step = "endpoint" /\ op'.net = op.net /\ op'.ctr = op.ctr
          /\ op'.ep = op.ep /\ op'.found = op.found /\ UNCHANGED <<nets, eps, crashes, lost>>
      BY <1>5, <2>1 DEF ConnectRules, Doing, OpOK, daemonVars
    <3>2. SUFFICES ASSUME crashes = 0, lost = {} PROVE (ReservedFound /\ RulesFound)'
      BY <3>1 DEF ConnectFound
    <3>3. ReservedFound /\ rules = op.found[2] /\ dns = op.found[3]
      BY <3>1, <3>2 DEF ConnectFound, RulesFound, Connecting
    <3>4. ReservedFound'
      BY <2>1, <3>1, <3>3 DEF ReservedFound, SubnetOf
    <3>5. RulesOf(op.net, op.ep)' = RulesOf(op.net, op.ep)
      BY <3>1 DEF RulesOf, SubnetOf
    <3>6. RulesOf(op.net, op.ep) \cap rules = {}
      BY <3>1, <3>2, NewRules DEF UniqueInv
    <3>7. ASSUME ~Connected(op.net, op.ctr)' PROVE NamedFound'
      <4>1. ~Connected(op.net, op.ctr)
        BY <3>1, <3>7 DEF Connected
      <4>2. dns[op.net][op.ctr] = NoAddress
        BY <3>1, <4>1, NewName
      <4> QED BY <2>1, <3>1, <3>3, <4>2 DEF NamedFound, Register, MemOK
    <3> QED BY <2>1, <3>1, <3>3, <3>4, <3>5, <3>6, <3>7 DEF RulesFound
  <2>2. CASE op' = Idle
    BY <1>1, <2>2 DEF Idle
  <2> QED BY <1>5, <2>1, <2>2 DEF ConnectRules
<1>6. CASE \/ CreateRecord \/ RemoveRecord \/ ConnectEndpoint \/ DeleteEndpoint \/ Crash \/ Close
  BY <1>1, <1>6, ConnectEndpointEffect, DeleteEndpointEffect
    DEF CreateRecord, RemoveRecord, Crash, Close, MemoryGone, Idle
<1>7. CASE \/ \E n \in Ids, name \in Names, s \in Subnets, i \in Internals : CreateNetwork(n, name, s, i)
           \/ \E n \in Ids : RemoveNetwork(n)
           \/ \E n \in Ids, c \in Ctrs : Disconnect(n, c)
           \/ \E c \in Ctrs : DisconnectAll(c)
  BY <1>1, <1>7 DEF CreateNetwork, RemoveNetwork, Disconnect, DisconnectAll, Idle
<1>8. CASE CreateMasquerade
  BY <1>1, <1>8 DEF CreateMasquerade, Idle, OpOK
<1>9. CASE ReleaseSubnet \/ Detach \/ ReleaseAddress
  BY <1>1, <1>9, ReleaseSubnetEffect, DetachEffect, ReleaseAddressEffect
<1>10. CASE \E c \in Ctrs : CtrCreate(c) \/ CtrExit(c)
  BY <1>2, <1>10 DEF CtrCreate, CtrExit, storeVars, memVars, daemonVars
<1>11. CASE Boot
  BY <1>1, <1>11 DEF Boot, DownInv
<1>12. CASE UNCHANGED vars
  BY <1>2, <1>12 DEF vars, storeVars, memVars, daemonVars
<1> QED BY <1>3, <1>4, <1>5, <1>6, <1>7, <1>8, <1>9, <1>10, <1>11, <1>12, NextCases

\* A Connect that fails before it has an interface finds none with its address.
LEMMA NoInterfaceYet ==
  ASSUME EndpointsUnique, Eth0Owned, Connecting, ~Plugged, op.ctr \in Ctrs,
         SubnetOf(op.net) \in Int, op.ep.ip \in Offsets
  PROVE  eth0[op.ctr] # AddressOf(op.net, op.ep)
<1>1. NoEth0 # AddressOf(op.net, op.ep)
  BY Domains DEF NoEth0, AddressOf
<1> QED BY <1>1 DEF EndpointsUnique, Eth0Owned

\* A failing Connect.
LEMMA ConnectUndone ==
  ASSUME StoreInv, UniqueInv, ConnectFound, crashes = 0, lost = {}, Connecting,
         ConnectVeth \/ ConnectRules \/ ConnectEndpoint,
         op'.step = "idle", UNCHANGED eps, ~Connected(op.net, op.ctr)
  PROVE  /\ bitmap' = op.found[1] /\ rules' = op.found[2] /\ dns' = op.found[3]
         /\ eth0'[op.ctr] # AddressOf(op.net, op.ep)
<1> USE DEF StoreInv, TypeInv, TypeOK
<1>1. /\ op.net \in Ids /\ op.ctr \in Ctrs /\ op.ep \in Endpoint /\ op.ep.ip \in Offsets
      /\ SubnetOf(op.net) \in Subnets /\ SubnetOf(op.net) \in Int
  BY SubnetType, Domains DEF OpOK, OpInv, Endpoint
<1>2. ReservedFound /\ RulesFound
  BY DEF ConnectFound
<1>3. Release(SubnetOf(op.net), op.ep.ip) = op.found[1]
  BY <1>1, <1>2 DEF ReservedFound, Release
<1>4. NoEth0 # AddressOf(op.net, op.ep)
  BY <1>1, Domains DEF NoEth0, AddressOf
<1>5. Unplug(op.ctr, AddressOf(op.net, op.ep))[op.ctr] # AddressOf(op.net, op.ep)
  BY <1>1, <1>4 DEF Unplug, KernelOK
<1>6. CASE ConnectVeth
  <2>1. op.step = "veth" /\ UNCHANGED <<rules, dns, eth0>> /\ bitmap' = Release(SubnetOf(op.net), op.ep.ip)
    BY <1>6, ConnectVethEffect DEF ConnectVeth, memVars
  <2>2. eth0[op.ctr] # AddressOf(op.net, op.ep)
    BY <1>1, <2>1, NoInterfaceYet DEF UniqueInv, Plugged
  <2> QED BY <1>2, <1>3, <2>1, <2>2 DEF RulesFound
<1>7. CASE ConnectRules
  <2>1. /\ op.step = "rules" /\ UNCHANGED <<rules, dns>>
        /\ bitmap' = Release(SubnetOf(op.net), op.ep.ip)
        /\ eth0' = Unplug(op.ctr, AddressOf(op.net, op.ep))
    BY <1>7, ConnectRulesEffect DEF ConnectRules, OpOK
  <2> QED BY <1>2, <1>3, <1>5, <2>1 DEF RulesFound
<1>8. CASE ConnectEndpoint
  <2>1. op.step = "endpoint"
    BY <1>8 DEF ConnectEndpoint, Doing
  <2>2. eps' # [eps EXCEPT ![op.net][op.ctr] = op.ep]
    BY <1>1, Domains DEF Connected, StoreOK
  <2>3. /\ Register(op.net, op.ctr, NoAddress) /\ rules' = rules \ RulesOf(op.net, op.ep)
        /\ eth0' = Unplug(op.ctr, AddressOf(op.net, op.ep))
        /\ bitmap' = Release(SubnetOf(op.net), op.ep.ip)
    BY <1>8, <2>2 DEF ConnectEndpoint
  <2>4. rules' = op.found[2]
    BY <1>2, <2>1, <2>3 DEF RulesFound
  <2>5. dns' = op.found[3]
    <3>1. NamedFound
      BY <1>2, <2>1 DEF RulesFound
    <3> QED BY <1>1, <2>3, <3>1 DEF NamedFound, Register
  <2> QED BY <1>3, <1>5, <2>3, <2>4, <2>5
<1> QED BY <1>6, <1>7, <1>8

\* A failing CreateNetwork.
LEMMA CreateUndone ==
  ASSUME TypeInv, CreateFound, Creating, CreateMasquerade \/ CreateRecord,
         op'.step = "idle", UNCHANGED nets
  PROVE  masq' = op.found[4] /\ bridges' = op.found[5]
<1> USE DEF TypeInv, TypeOK
<1>1. op.net \in Ids /\ op.rec \in Network /\ ~Stored(op.net)
  BY DEF OpOK, OpInv
<1>2. CASE CreateMasquerade
  <2>1. op.step = "masquerade" /\ UNCHANGED masq /\ bridges' = bridges \ {op.net}
    BY <1>2 DEF CreateMasquerade, Doing, OpOK
  <2> QED BY <2>1 DEF CreateFound
<1>3. CASE CreateRecord
  <2>1. nets' # [nets EXCEPT ![op.net] = op.rec]
    BY <1>1, Domains DEF Stored, StoreOK
  <2>2. op.step = "record" /\ masq' = masq \ {op.rec.subnet} /\ bridges' = bridges \ {op.net}
    BY <1>3, <2>1 DEF CreateRecord, Doing
  <2> QED BY <2>2 DEF CreateFound
<1> QED BY <1>2, <1>3

\* While an operation holds the lock, its next step is one of its own, or one of
\* a container, or the end of the daemon.
LEMMA HolderSteps ==
  ASSUME [Next]_vars, daemon' = "up", op'.step = "idle", op.step # "idle"
  PROVE  /\ Connecting => ConnectVeth \/ ConnectRules \/ ConnectEndpoint
         /\ Creating => CreateMasquerade \/ CreateRecord
<1>1. ASSUME NEW n \in Ids, NEW c \in Ctrs, NEW ports \in {Publishes[c], {}}, Allocate(n, c, ports)
      PROVE  FALSE
  BY <1>1 DEF Allocate, Free
<1>2. CASE \/ \E n \in Ids, name \in Names, s \in Subnets, i \in Internals : CreateNetwork(n, name, s, i)
           \/ \E n \in Ids : RemoveNetwork(n)
           \/ \E n \in Ids, c \in Ctrs : Disconnect(n, c)
           \/ \E c \in Ctrs : DisconnectAll(c)
  BY <1>2 DEF CreateNetwork, RemoveNetwork, Disconnect, DisconnectAll, Free
<1>3. CASE \/ CreateMasquerade \/ CreateRecord \/ ReleaseSubnet \/ RemoveRecord \/ ConnectVeth
           \/ ConnectRules \/ ConnectEndpoint \/ Detach \/ ReleaseAddress \/ DeleteEndpoint
  BY <1>3 DEF CreateMasquerade, CreateRecord, ReleaseSubnet, RemoveRecord, ConnectVeth, ConnectRules,
     ConnectEndpoint, Detach, ReleaseAddress, DeleteEndpoint, Doing, Connecting, Creating
<1>4. CASE (\E c \in Ctrs : CtrCreate(c) \/ CtrExit(c)) \/ Boot \/ UNCHANGED vars
  BY <1>4 DEF CtrCreate, CtrExit, Boot, vars
<1>5. CASE Crash \/ Close
  BY <1>5 DEF Crash, Close, MemoryGone
<1> QED BY <1>1, <1>2, <1>3, <1>4, <1>5, NextCases

\* A Connect or a CreateNetwork that fails at any step leaves reservations,
\* rules, names, bridges and interfaces as it found them, as long as the daemon
\* lives and no endpoint was put over another; when every network is given a
\* subnet of the pool (manager.go:166-245, 293-375).
THEOREM RollbackIsExact == ASSUME Explicit = {} PROVE Spec => RollbackExact
<1> DEFINE IInv == StoreInv /\ SubnetsUnique /\ UniqueInv /\ MasqInv /\ CreateFound /\ ConnectFound
<1> DEFINE Exact ==
      daemon' = "up" /\ op'.step = "idle" /\ crashes = 0 /\ lost = {} =>
       /\ Connecting /\ eps' = eps /\ ~Connected(op.net, op.ctr) =>
            /\ bitmap' = op.found[1] /\ rules' = op.found[2] /\ dns' = op.found[3]
            /\ eth0'[op.ctr] # AddressOf(op.net, op.ep)
       /\ op.step \in {"masquerade", "record"} /\ nets' = nets =>
            masq' = op.found[4] /\ bridges' = op.found[5]
<1>1. Init => IInv
  BY StoreInit, SubnetsInit, UniqueInit, MasqInit, FoundInit
<1>2. IInv /\ [Next]_vars => IInv'
  BY StoreStep, SubnetsStep, UniqueStep, MasqStep, CreateFoundStep, ConnectFoundStep DEF StoreInv
<1>3. IInv /\ [Next]_vars => [Exact]_vars
  <2> SUFFICES ASSUME IInv, [Next]_vars, daemon' = "up", op'.step = "idle", crashes = 0, lost = {}
               PROVE  /\ Connecting /\ eps' = eps /\ ~Connected(op.net, op.ctr) =>
                           /\ bitmap' = op.found[1] /\ rules' = op.found[2] /\ dns' = op.found[3]
                           /\ eth0'[op.ctr] # AddressOf(op.net, op.ep)
                      /\ op.step \in {"masquerade", "record"} /\ nets' = nets =>
                           masq' = op.found[4] /\ bridges' = op.found[5]
    OBVIOUS
  <2>1. ASSUME Connecting, eps' = eps, ~Connected(op.net, op.ctr)
        PROVE  /\ bitmap' = op.found[1] /\ rules' = op.found[2] /\ dns' = op.found[3]
               /\ eth0'[op.ctr] # AddressOf(op.net, op.ep)
    <3>1. ConnectVeth \/ ConnectRules \/ ConnectEndpoint
      BY <2>1, HolderSteps DEF Connecting
    <3> QED BY <2>1, <3>1, ConnectUndone
  <2>2. ASSUME op.step \in {"masquerade", "record"}, nets' = nets
        PROVE  masq' = op.found[4] /\ bridges' = op.found[5]
    <3>1. CreateMasquerade \/ CreateRecord
      BY <2>2, HolderSteps DEF Creating
    <3> QED BY <2>2, <3>1, CreateUndone DEF StoreInv, Creating
  <2> QED BY <2>1, <2>2
<1> QED BY <1>1, <1>2, <1>3, PTL DEF Spec, RollbackExact

=============================================================================
