\* Encrypt and Decrypt on fresh StetClients against KMS, EKM and key-file
\* faults the client tolerates, with tampering of stored blobs.
CONSTANTS
  kRsa = kRsa  kSoft = kSoft  kExt = kExt  uExt = uExt
  c1 = c1  c2 = c2  c3 = c3
  NoOptions = NoOptions  NoUri = NoUri  NoDek = NoDek
  KEKs <- MCKEKs
  RsaKeks <- MCRsaKeks
  ExtUris <- MCExtUris
  Clients <- MCClients
  ProtectionLevel <- MCProtectionLevel
  ExternalKeyUri <- MCExternalKeyUri
  EncryptConfigs <- MCEncryptConfigs
  DecryptConfigs <- MCDecryptConfigs
  KmsHealth <- TolerableHealth
  RsaHealth <- AllRsaHealth
  WriteOutcomes <- AllWrites
  MaxCalls = 3
  MaxTampers = 1
  ReuseClients = FALSE
SPECIFICATION Spec
SYMMETRY ClientSymmetry
INVARIANT TypeOK
PROPERTY ThresholdCompleteness
PROPERTY EncryptCompleteness
PROPERTY CancelAborts
PROPERTY ImplementsStetAbstract
