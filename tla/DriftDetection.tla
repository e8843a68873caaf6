---------------------------- MODULE DriftDetection ----------------------------
(***************************************************************************)
(* How a row becomes a configuration file, and how a later poll decides     *)
(* from that file whether the row has changed.  Generation is in the        *)
(* adapters (generateNetplanConfig, generateIfcfgContent), detection in the *)
(* use case (isDrifted, isIfcfgDrifted): nothing but this module makes the  *)
(* two agree.  A node uses one of the two formats.                          *)
(*                                                                         *)
(* An IPv4 address is a number of Bits bits, and any other word in its      *)
(* place is BadAddr; a CIDR is what the string says, whether or not it is a *)
(* network that could exist.  The MAC, which both detections compare first, *)
(* is the same throughout.                                                  *)
(***************************************************************************)
EXTENDS Integers

CONSTANTS
  Bits,       \* 32 in the code
  Mtus,       \* values of column mtu; 0 stands for NULL
  NoAddr,     \* the empty string, in column address or in a file
  NoCidr,     \* the empty string, in column cidr
  BadAddr,    \* a word that is no IPv4 address, and has no slash
  BadCidr,    \* a string that is not two parts around one slash
  NoPrefix,   \* the empty string, in a file or behind the slash of a CIDR
  RawAddr,    \* an entry of a netplan file that ParseCIDR refuses
  NoFile

ASSUME DriftAssumption ==
  /\ Bits \in Nat
  /\ Mtus \subseteq Int

Addrs    == 0 .. 2^Bits - 1
Prefixes == 0 .. Bits + 1     \* Bits + 1: a number that is no prefix length
Networks == [net : Addrs \cup {BadAddr}, prefix : Prefixes \cup {NoPrefix}]
Cidrs    == Networks \cup {NoCidr, BadCidr}
Strings  == Addrs \cup {NoAddr, BadAddr}
Rows     == [addr : Strings, cidr : Cidrs, mtu : Mtus]
Files    == [addr : Strings, prefix : Prefixes \cup {NoPrefix},
             mtu : {0} \cup {m \in Mtus : m > 0}]

\* The network of an address: its first `prefix` bits.
NetOf(addr, prefix) == addr - (addr % (2^(Bits - prefix)))

ASSUME MarkersAreApart ==
  /\ {NoAddr, BadAddr, RawAddr} \cap Addrs = {}
  /\ NoAddr # BadAddr /\ RawAddr \notin {NoAddr, BadAddr}
  /\ NoCidr \notin Networks /\ BadCidr \notin Networks /\ NoCidr # BadCidr
  /\ \A a \in Addrs, p \in 0 .. Bits :
       [net |-> NetOf(a, p), prefix |-> p] \notin {NoCidr, BadCidr}
  /\ NoPrefix \notin Prefixes
  /\ NoFile \notin Files

-----------------------------------------------------------------------------
\* Generation.  Both formats write the address only when the row also has a
\* CIDR of two parts, and take the prefix from it unchecked.  The netplan file
\* has an MTU only beside an address; the ifcfg file has it on its own.
HasIp(r) == r.addr # NoAddr /\ r.cidr \in Networks

\* Whatever the row says is written.
AnyMtu(r) == r.mtu

PositiveMtu(r) == IF r.mtu > 0 THEN r.mtu ELSE 0

NoIp(mtu) == [addr |-> NoAddr, prefix |-> NoPrefix, mtu |-> mtu]

Ip(r) == [addr |-> r.addr, prefix |-> r.cidr.prefix,
          mtu |-> PositiveMtu(r)]

\* The netplan file gets the MTU whether or not there is an address.
GenerateNetplanMtuAlways(r) ==
  IF HasIp(r) THEN Ip(r) ELSE NoIp(PositiveMtu(r))

GenerateNetplan(r) == IF HasIp(r) THEN Ip(r) ELSE NoIp(0)

\* The MTU is written only beside an address.
GenerateIfcfgMtuWithIp(r) == IF HasIp(r) THEN Ip(r) ELSE NoIp(0)

GenerateIfcfg(r) == IF HasIp(r) THEN Ip(r) ELSE NoIp(PositiveMtu(r))

-----------------------------------------------------------------------------
\* Detection.  The netplan file is read back through net.ParseCIDR, so its
\* CIDR is the network of its address; an entry that does not parse stays as it
\* is written, address, slash and prefix, and then there is no CIDR.
Parses(f) == f.addr \in Addrs /\ f.prefix \in 0 .. Bits

AddrRead(f) ==
  IF f.addr = NoAddr \/ Parses(f) THEN f.addr ELSE RawAddr

CidrRead(f) ==
  IF Parses(f) THEN [net |-> NetOf(f.addr, f.prefix), prefix |-> f.prefix]
               ELSE NoCidr

\* The prefix length is compared instead of the network.
NetplanDriftsByPrefix(r, f) ==
  \/ r.addr # AddrRead(f)
  \/ r.cidr \in Networks /\ r.cidr.prefix # f.prefix
  \/ r.mtu # f.mtu

NetplanDrifts(r, f) ==
  \/ r.addr # AddrRead(f)
  \/ r.cidr # CidrRead(f)
  \/ r.mtu # f.mtu

\* The prefix is ignored.
IfcfgDriftsNoPrefix(r, f) ==
  \/ r.addr # f.addr
  \/ r.mtu # f.mtu

HasPrefix(cidr) == cidr \in Networks /\ cidr.prefix # NoPrefix

\* The ifcfg file has no network; prefixes are compared when both are there.
IfcfgDrifts(r, f) ==
  \/ r.addr # f.addr
  \/ HasPrefix(r.cidr) /\ f.prefix # NoPrefix /\ r.cidr.prefix # f.prefix
  \/ r.mtu # f.mtu

-----------------------------------------------------------------------------
VARIABLES
  os,     \* the family of the node, which decides the format of the file
  row,    \* the row of one interface
  file    \* its configuration file

vars == <<os, row, file>>

TypeOK ==
  /\ os \in {"ubuntu", "rhel"}
  /\ row \in Rows
  /\ file \in Files \cup {NoFile}

Generate(r)  == IF os = "rhel" THEN GenerateIfcfg(r) ELSE GenerateNetplan(r)
Drifts(r, f) == IF os = "rhel" THEN IfcfgDrifts(r, f) ELSE NetplanDrifts(r, f)

Init == os \in {"ubuntu", "rhel"} /\ row \in Rows /\ file = NoFile

Edit(r) == row' = r /\ UNCHANGED <<os, file>>

\* A poll that succeeds on a row that is already marked configured.
Poll ==
  /\ file # NoFile => Drifts(row, file)
  /\ file' = Generate(row)
  /\ UNCHANGED <<os, row>>

Next == (\E r \in Rows : Edit(r)) \/ Poll

Spec == Init /\ [][Next]_vars

-----------------------------------------------------------------------------
Unnoticed == file # NoFile /\ ~Drifts(row, file)

\* No edit of a row goes unnoticed on a netplan node: where the check sees no
\* drift, the file is what the row would generate now
\* (configure_network.go:335-341, netplan_adapter.go:155-195, README.md:112-118).
NetplanMissesNothing ==
  os = "ubuntu" /\ Unnoticed => file = Generate(row)

\* On a node with ifcfg files the only edit that can go unnoticed is one of the
\* CIDR, where the address stays and the row or the file is without a prefix
\* (configure_network.go:453-465, rhel_adapter.go:254-280).
IfcfgMissesNothingOfNetworks ==
  os = "rhel" /\ Unnoticed =>
    \/ file = Generate(row)
    \/ /\ row.addr # NoAddr
       /\ ~HasPrefix(row.cidr) \/ file.prefix = NoPrefix

\* The rows whose netplan file is final: the next poll finds no drift in what
\* this one wrote.  Nothing at all, or an IPv4 address with its own network.
Bare(r) == r.addr = NoAddr /\ r.cidr = NoCidr /\ r.mtu = 0

Networked(r) ==
  /\ r.addr \in Addrs
  /\ r.cidr \in Networks
  /\ r.cidr.prefix \in 0 .. Bits
  /\ r.cidr.net = NetOf(r.addr, r.cidr.prefix)
  /\ r.mtu >= 0

\* A poll leaves no drift behind exactly for those rows; every other row is
\* configured again by every poll (configure_network.go:308-341,554-569).
NetplanSettles ==
  [][os = "ubuntu" /\ Poll
       => (~Drifts(row, file') <=> Bare(row) \/ Networked(row))]_vars

\* With ifcfg files only an address without a usable CIDR, or a negative MTU,
\* is configured again by every poll (configure_network.go:453-465).
IfcfgSettles ==
  [][os = "rhel" /\ Poll
       => (~Drifts(row, file') <=>
             (row.addr # NoAddr => row.cidr \in Networks) /\ row.mtu >= 0)]_vars
=============================================================================
