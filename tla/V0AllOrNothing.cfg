\* The old whole-buffer client on fresh StetClients, under the KMS, EKM and
\* key-file faults the current client tolerates share by share.
CONSTANTS
  kRsa = kRsa  kSoft = kSoft  kExt = kExt  uExt = uExt
  c1 = c1  c2 = c2  c3 = c3
  NoOptions = NoOptions  NoUri = NoUri  NoDek = NoDek
  KEKs <- MCKEKs
  RsaKeks <- MCRsaKeks
  ExtUris <- MCExtUris
  Clients <- MCClients
  ProtectionLevel <- MCProtectionLevel
  ExternalKeyUri <- MCExternalKeyUri
  EncryptConfigs <- MCEncryptConfigs
  DecryptConfigs <- MCDecryptConfigs
  KmsHealth <- TolerableHealth
  RsaHealth <- AllRsaHealth
  WriteOutcomes <- OkWrites
  MaxCalls = 2
  MaxTampers = 0
  ReuseClients = FALSE
SPECIFICATION SpecV0
SYMMETRY ClientSymmetry
PROPERTY DecryptContract
