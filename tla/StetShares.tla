----------------------------- MODULE StetShares -----------------------------
(***************************************************************************)
(* The share codec and the AEAD stream (package shares and the streaming  *)
(* AEAD of the STET container, which are not under src/; modelled from    *)
(* the spec, sections 3, 4.1 and 4.2).  Cryptography is abstract: a DEK   *)
(* is a value, a share is [x, dek], a hash is an injective digest.        *)
(***************************************************************************)
EXTENDS Integers, Sequences, FiniteSets

CONSTANT NoDek  \* what a failed combine yields

\* shares.CreateDEKShares: the KeyConfig invariants of spec section 3.
ValidKeyConfig(cfg) ==
  \/ cfg.alg = "NoSplit" /\ Len(cfg.kekInfos) = 1
  \/ /\ cfg.alg = "Shamir" /\ Len(cfg.kekInfos) = cfg.shares
     /\ 2 <= cfg.threshold /\ cfg.threshold <= cfg.shares

\* One share per KekInfo; x-coordinates 1..n.  The no-split share is the DEK.
CreateDEKShares(dek, cfg) == [i \in 1..Len(cfg.kekInfos) |-> [x |-> i, dek |-> dek]]

\* shares.HashShare: SHA-256 of the share, an injective digest here.
HashShare(s) == [digest |-> s]

\* shares.ValidateShare: constant-time comparison with the stored hash.
ValidateShare(s, h) == HashShare(s) = h

\* shares.CombineUnwrappedShares: no-split takes the one share; Shamir
\* interpolates the first `threshold` shares and fails below the threshold.
CombineUnwrappedShares(cfg, us) ==
  IF cfg.alg = "NoSplit"
  THEN IF Len(us) = 1 THEN us[1].share.dek ELSE NoDek
  ELSE IF Len(us) < cfg.threshold THEN NoDek
       ELSE LET first == {us[j].share.dek : j \in 1..cfg.threshold}
            IN IF Cardinality(first) = 1 THEN CHOOSE d \in first : TRUE ELSE NoDek

\* AeadDecrypt: succeeds only under the blob's DEK, on the AAD it was sealed
\* with (blob id, key config, share hashes) and on an untruncated stream.
AeadDecrypt(dek, b) == dek = b.dek /\ b.aadIntact /\ b.complete
====
