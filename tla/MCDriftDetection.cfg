CONSTANTS
  Bits = 2
  Mtus <- SomeMtus
  NoAddr = NoAddr
  BadAddr = BadAddr
  NoCidr = NoCidr
  BadCidr = BadCidr
  NoPrefix = NoPrefix
  RawAddr = RawAddr
  NoFile = NoFile
SPECIFICATION Spec
INVARIANTS
  TypeOK
  NetplanMissesNothing
  IfcfgMissesNothingOfNetworks
PROPERTIES
  NetplanSettles
  IfcfgSettles
