\* Encrypt when the EKM fails EndSession after a successful wrap.
CONSTANTS
  kRsa = kRsa  kSoft = kSoft  kExt = kExt  uExt = uExt
  c1 = c1  c2 = c2  c3 = c3
  NoOptions = NoOptions  NoUri = NoUri  NoDek = NoDek
  KEKs <- MCKEKs
  RsaKeks <- MCRsaKeks
  ExtUris <- MCExtUris
  ProtectionLevel <- MCProtectionLevel
  ExternalKeyUri <- MCExternalKeyUri
  EncryptConfigs <- MCEncryptConfigs
  DecryptConfigs <- MCDecryptConfigs
  RsaHealth <- AllRsaHealth
  WriteOutcomes <- OkWrites
  MaxTampers = 0
  KmsHealth <- EndSessionHealth
  Clients <- MCClients
  MaxCalls = 1
  ReuseClients = FALSE
SPECIFICATION Spec
PROPERTY EncryptCompleteness
