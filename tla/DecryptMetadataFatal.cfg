\* Decrypt after a KEK of a 2-of-3 config is disabled.
CONSTANTS
  kRsa = kRsa  kSoft = kSoft  kExt = kExt  uExt = uExt
  c1 = c1  c2 = c2  c3 = c3
  NoOptions = NoOptions  NoUri = NoUri  NoDek = NoDek
  KEKs <- MCKEKs
  RsaKeks <- MCRsaKeks
  ExtUris <- MCExtUris
  ProtectionLevel <- MCProtectionLevel
  ExternalKeyUri <- MCExternalKeyUri
  EncryptConfigs <- MCEncryptConfigs
  DecryptConfigs <- MCDecryptConfigs
  RsaHealth <- AllRsaHealth
  WriteOutcomes <- OkWrites
  MaxTampers = 0
  KmsHealth <- MetadataHealth
  Clients <- MCClients
  MaxCalls = 2
  ReuseClients = FALSE
SPECIFICATION Spec
PROPERTY ThresholdCompleteness
