------------------------ MODULE DriftDetectionProofs ------------------------
(***************************************************************************)
(* Proofs about generation and detection for every width of addresses and   *)
(* every set of MTUs.  NetOf is never expanded: that the two agree does not  *)
(* depend on what the network of an address is.                             *)
(*                                                                         *)
(* What detection misses depends on which files there can be: a file        *)
(* without an address has no prefix, and if netplan's no MTU.               *)
(***************************************************************************)
EXTENDS DriftDetection, TLAPS

\* The files the generators write.
WellFormed(f) ==
  /\ f.addr = NoAddr => f.prefix = NoPrefix
  /\ os = "ubuntu" /\ f.addr = NoAddr => f.mtu = 0

IInv == TypeOK /\ (file # NoFile => WellFormed(file))

LEMMA MtuWritten ==
  ASSUME NEW r \in Rows
  PROVE  PositiveMtu(r) \in {0} \cup {m \in Mtus : m > 0}
BY DriftAssumption DEF Rows, PositiveMtu

LEMMA Generated ==
  ASSUME TypeOK, NEW r \in Rows
  PROVE  Generate(r) \in Files /\ WellFormed(Generate(r))
<1>1. CASE HasIp(r)
  <2>1. Ip(r) \in Files /\ Ip(r).addr # NoAddr
    BY <1>1, MtuWritten, MarkersAreApart DEF HasIp, Ip, Files, Rows, Networks
  <2>2. Generate(r) = Ip(r)
    BY <1>1 DEF Generate, GenerateNetplan, GenerateIfcfg
  <2> QED
    BY <2>1, <2>2 DEF WellFormed
<1>2. CASE ~HasIp(r)
  <2>1. \A m \in {0} \cup {n \in Mtus : n > 0} :
          NoIp(m) \in Files /\ NoIp(m).addr = NoAddr /\ NoIp(m).prefix = NoPrefix
                            /\ NoIp(m).mtu = m
    BY DEF NoIp, Files, Strings
  <2>2. Generate(r) = IF os = "rhel" THEN NoIp(PositiveMtu(r)) ELSE NoIp(0)
    BY <1>2 DEF Generate, GenerateNetplan, GenerateIfcfg
  <2>3. CASE os = "rhel"
    BY <2>1, <2>2, <2>3, MtuWritten DEF WellFormed
  <2>4. CASE os = "ubuntu"
    BY <2>1, <2>2, <2>4 DEF WellFormed
  <2> QED
    BY <2>3, <2>4 DEF TypeOK
<1> QED
  BY <1>1, <1>2

LEMMA InitIInv == Init => IInv
BY DEF Init, IInv, TypeOK

LEMMA NextIInv == IInv /\ [Next]_vars => IInv'
<1> SUFFICES ASSUME IInv, [Next]_vars PROVE IInv'
  OBVIOUS
<1>1. ASSUME NEW r \in Rows, Edit(r) PROVE IInv'
  BY <1>1 DEF Edit, IInv, TypeOK, WellFormed
<1>2. CASE Poll
  <2>1. row \in Rows /\ TypeOK
    BY DEF IInv, TypeOK
  <2>2. file' \in Files /\ WellFormed(Generate(row)) /\ file' = Generate(row)
    BY <1>2, <2>1, Generated DEF Poll
  <2> QED
    BY <1>2, <2>1, <2>2 DEF Poll, IInv, TypeOK, WellFormed
<1>3. CASE UNCHANGED vars
  BY <1>3 DEF vars, IInv, TypeOK, WellFormed
<1> QED
  BY <1>1, <1>2, <1>3 DEF Next

\* Rows and files keep the forms their columns and generators give them
\* (netplan_adapter.go:155-195, rhel_adapter.go:254-280).
THEOREM TypeCorrect == Spec => []TypeOK
<1>1. Init => IInv
  BY InitIInv
<1>2. IInv /\ [Next]_vars => IInv'
  BY NextIInv
<1>3. IInv => TypeOK
  BY DEF IInv
<1> QED
  BY <1>1, <1>2, <1>3, PTL DEF Spec

-----------------------------------------------------------------------------
\* A CIDR that was read back is a network, and not one of the other values.
LEMMA ReadBack ==
  ASSUME NEW r \in Rows, NEW f \in Files, Parses(f), r.cidr = CidrRead(f)
  PROVE  r.cidr \in Networks /\ r.cidr.prefix = f.prefix
<1>1. f.addr \in Addrs /\ f.prefix \in 0 .. Bits
  BY DEF Parses
<1>2. r.cidr = [net |-> NetOf(f.addr, f.prefix), prefix |-> f.prefix]
  BY DEF CidrRead
<1>3. r.cidr \in Networks
  BY <1>1, <1>2, MarkersAreApart DEF Rows, Cidrs
<1> QED
  BY <1>2, <1>3

LEMMA MtuKept ==
  ASSUME NEW r \in Rows, NEW f \in Files, r.mtu = f.mtu
  PROVE  PositiveMtu(r) = f.mtu
BY DriftAssumption DEF Rows, Files, PositiveMtu

LEMMA SameFile ==
  ASSUME NEW f \in Files, NEW g \in Files,
         f.addr = g.addr, f.prefix = g.prefix, f.mtu = g.mtu
  PROVE  f = g
BY DEF Files

LEMMA NetplanFaithful ==
  ASSUME TypeOK, os = "ubuntu", NEW r \in Rows, NEW f \in Files, WellFormed(f),
         ~NetplanDrifts(r, f)
  PROVE  f = Generate(r)
<1>1. r.addr = AddrRead(f) /\ r.cidr = CidrRead(f) /\ r.mtu = f.mtu
  BY DEF NetplanDrifts
<1>2. Generate(r) = GenerateNetplan(r) /\ Generate(r) \in Files
  BY Generated DEF Generate
<1>3. CASE f.addr = NoAddr
  <2>1. ~HasIp(r)
    BY <1>1, <1>3 DEF AddrRead, HasIp
  <2> QED
    BY <1>2, <1>3, <2>1, SameFile DEF GenerateNetplan, NoIp, WellFormed
<1>4. CASE f.addr # NoAddr
  <2>1. Parses(f)
    BY <1>1, <1>4, MarkersAreApart DEF AddrRead, Rows, Strings
  <2>2. r.addr = f.addr /\ r.cidr \in Networks /\ r.cidr.prefix = f.prefix
    BY <1>1, <2>1, ReadBack DEF AddrRead
  <2>3. Generate(r) = Ip(r)
    BY <1>2, <1>4, <2>2 DEF GenerateNetplan, HasIp
  <2> QED
    BY <1>1, <1>2, <2>2, <2>3, MtuKept, SameFile DEF Ip
<1> QED
  BY <1>3, <1>4

LEMMA IfcfgFaithful ==
  ASSUME TypeOK, os = "rhel", NEW r \in Rows, NEW f \in Files, WellFormed(f),
         ~IfcfgDrifts(r, f),
         r.addr # NoAddr => HasPrefix(r.cidr) /\ f.prefix # NoPrefix
  PROVE  f = Generate(r)
<1>1. Generate(r) = GenerateIfcfg(r) /\ Generate(r) \in Files
  BY Generated DEF Generate
<1>2. r.addr = f.addr /\ PositiveMtu(r) = f.mtu
  BY MtuKept DEF IfcfgDrifts
<1>3. CASE r.addr = NoAddr
  BY <1>1, <1>2, <1>3, SameFile DEF GenerateIfcfg, HasIp, NoIp, WellFormed
<1>4. CASE r.addr # NoAddr
  <2>1. r.cidr.prefix = f.prefix
    BY <1>2, <1>4 DEF IfcfgDrifts
  <2> QED
    BY <1>1, <1>2, <1>4, <2>1, SameFile DEF GenerateIfcfg, HasIp, HasPrefix, Ip
<1> QED
  BY <1>3, <1>4

\* On a netplan node no edit goes unnoticed, for addresses of any width
\* (configure_network.go:335-341, netplan_adapter.go:155-195).
THEOREM NetplanComplete == Spec => []NetplanMissesNothing
<1>1. Init => IInv
  BY InitIInv
<1>2. IInv /\ [Next]_vars => IInv'
  BY NextIInv
<1>3. IInv => NetplanMissesNothing
  BY NetplanFaithful DEF IInv, TypeOK, NetplanMissesNothing, Unnoticed, Drifts
<1> QED
  BY <1>1, <1>2, <1>3, PTL DEF Spec

\* On a node with ifcfg files none goes unnoticed while the row and its file have
\* a prefix beside the address
\* (configure_network.go:453-465, rhel_adapter.go:254-280).
THEOREM IfcfgComplete == Spec => []IfcfgMissesNothingOfNetworks
<1>1. Init => IInv
  BY InitIInv
<1>2. IInv /\ [Next]_vars => IInv'
  BY NextIInv
<1>3. IInv => IfcfgMissesNothingOfNetworks
  BY IfcfgFaithful DEF IInv, TypeOK, IfcfgMissesNothingOfNetworks, Unnoticed, Drifts
<1> QED
  BY <1>1, <1>2, <1>3, PTL DEF Spec

-----------------------------------------------------------------------------
LEMMA MtuSettles ==
  ASSUME NEW r \in Rows
  PROVE  r.mtu = PositiveMtu(r) <=> r.mtu >= 0
<1>1. r.mtu \in Int
  BY DriftAssumption DEF Rows
<1> QED
  BY <1>1 DEF PositiveMtu

LEMMA NetplanSettlesOnce ==
  ASSUME NEW r \in Rows
  PROVE  ~NetplanDrifts(r, GenerateNetplan(r)) <=> Bare(r) \/ Networked(r)
<1> DEFINE f == GenerateNetplan(r)
<1>1. CASE ~HasIp(r)
  <2>1. AddrRead(f) = NoAddr /\ CidrRead(f) = NoCidr /\ f.mtu = 0
    BY <1>1, MarkersAreApart DEF GenerateNetplan, NoIp, AddrRead, CidrRead, Parses
  <2>2. ~Networked(r)
    BY <1>1, MarkersAreApart DEF Networked, HasIp
  <2> QED
    BY <2>1, <2>2 DEF NetplanDrifts, Bare
<1>2. CASE HasIp(r)
  <2>1. /\ f.addr = r.addr /\ f.prefix = r.cidr.prefix /\ f.mtu = PositiveMtu(r)
        /\ r.addr # NoAddr /\ r.addr # RawAddr /\ r.cidr \in Networks
    BY <1>2, MarkersAreApart DEF GenerateNetplan, Ip, HasIp, Rows, Strings
  <2>2. ~Bare(r)
    BY <2>1 DEF Bare
  <2>3. r.addr = AddrRead(f) <=> Parses(f)
    BY <2>1 DEF AddrRead
  <2>4. Parses(f) =>
          (r.cidr = CidrRead(f) <=> r.cidr.net = NetOf(r.addr, r.cidr.prefix))
    BY <2>1 DEF CidrRead, Networks
  <2> HIDE DEF f
  <2>5. ~NetplanDrifts(r, f) <=> Networked(r)
    BY <2>1, <2>3, <2>4, MtuSettles DEF NetplanDrifts, Networked, Parses
  <2> QED
    BY <2>2, <2>5 DEF f
<1> QED
  BY <1>1, <1>2

LEMMA IfcfgSettlesOnce ==
  ASSUME NEW r \in Rows
  PROVE  ~IfcfgDrifts(r, GenerateIfcfg(r))
           <=> (r.addr # NoAddr => r.cidr \in Networks) /\ r.mtu >= 0
<1> DEFINE f == GenerateIfcfg(r)
<1>1. CASE HasIp(r)
  <2>1. f.addr = r.addr /\ f.prefix = r.cidr.prefix /\ f.mtu = PositiveMtu(r)
    BY <1>1 DEF GenerateIfcfg, Ip
  <2> HIDE DEF f
  <2>2. ~IfcfgDrifts(r, f) <=> r.mtu >= 0
    BY <2>1, MtuSettles DEF IfcfgDrifts
  <2> QED
    BY <1>1, <2>2 DEF f, HasIp
<1>2. CASE ~HasIp(r)
  <2>1. f.addr = NoAddr /\ f.prefix = NoPrefix /\ f.mtu = PositiveMtu(r)
    BY <1>2 DEF GenerateIfcfg, NoIp
  <2> HIDE DEF f
  <2>2. ~IfcfgDrifts(r, f) <=> r.addr = NoAddr /\ r.mtu >= 0
    BY <2>1, MtuSettles DEF IfcfgDrifts
  <2> QED
    BY <1>2, <2>2 DEF f, HasIp
<1> QED
  BY <1>1, <1>2

\* A poll leaves no drift behind for exactly the rows that NetplanSettles and
\* IfcfgSettles name (configure_network.go:308-341,453-465,554-569).
THEOREM NetplanSettlesAlways == Spec => NetplanSettles
<1>1. Init => IInv
  BY InitIInv
<1>2. IInv /\ [Next]_vars => IInv'
  BY NextIInv
<1>3. IInv /\ [Next]_vars =>
        [os = "ubuntu" /\ Poll
           => (~Drifts(row, file') <=> Bare(row) \/ Networked(row))]_vars
  BY NetplanSettlesOnce DEF IInv, TypeOK, Poll, Drifts, Generate
<1> QED
  BY <1>1, <1>2, <1>3, PTL DEF Spec, NetplanSettles

\* The same for ifcfg files.
THEOREM IfcfgSettlesAlways == Spec => IfcfgSettles
<1>1. Init => IInv
  BY InitIInv
<1>2. IInv /\ [Next]_vars => IInv'
  BY NextIInv
<1>3. IInv /\ [Next]_vars =>
        [os = "rhel" /\ Poll
           => (~Drifts(row, file') <=>
                 (row.addr # NoAddr => row.cidr \in Networks) /\ row.mtu >= 0)]_vars
  BY IfcfgSettlesOnce DEF IInv, TypeOK, Poll, Drifts, Generate
<1> QED
  BY <1>1, <1>2, <1>3, PTL DEF Spec, IfcfgSettles
=============================================================================
