---------------------------- MODULE MCStetClient ----------------------------
(***************************************************************************)
(* Instances of StetClient for TLC.  Three KEKs, one per backend: an RSA   *)
(* key file, a Cloud KMS SOFTWARE key and a Cloud KMS EXTERNAL key whose   *)
(* version points at an external key URI.  Callers encrypt under a 2-of-3 *)
(* Shamir config over all three, a no-split config over the SOFTWARE key   *)
(* (unknown to the DecryptConfig), or an invalid no-split config.          *)
(***************************************************************************)
EXTENDS StetClient, TLC

CONSTANTS kRsa, kSoft, kExt, uExt, c1, c2, c3

MCKEKs == {kRsa, kSoft, kExt}
MCRsaKeks == {kRsa}
MCExtUris == {uExt}
MCClients == {c1, c2, c3}
MCOneClient == {c1}
MCProtectionLevel == (kSoft :> "SOFTWARE") @@ (kExt :> "EXTERNAL")
MCExternalKeyUri == (kSoft :> NoOptions) @@ (kExt :> uExt)

Shamir2of3 == [kekInfos |-> <<kRsa, kSoft, kExt>>, alg |-> "Shamir", shares |-> 3, threshold |-> 2]
NoSplitSoft == [kekInfos |-> <<kSoft>>, alg |-> "NoSplit", shares |-> 0, threshold |-> 0]
NoSplitTwoKeks == [kekInfos |-> <<kRsa, kSoft>>, alg |-> "NoSplit", shares |-> 0, threshold |-> 0]
MCEncryptConfigs == {Shamir2of3, NoSplitSoft, NoSplitTwoKeks}
MCDecryptConfigs == <<Shamir2of3>>

\* Environment faults the client is meant to tolerate share by share.
TolerableHealth == {"ok", "rpcError", "sessionFails"}
\* Faults that end a Decrypt early in the code.
MetadataHealth == {"ok", "disabled"}
EndSessionHealth == {"ok", "endSessionFails"}
OnlyOk == {"ok"}
AllRsaHealth == {"ok", "missingKey"}
AllWrites == {"ok", "headerFails", "aeadFails"}
OkWrites == {"ok"}

ClientSymmetry == Permutations(MCClients)
====
