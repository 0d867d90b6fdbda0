---------------------------- MODULE StetAbstract ----------------------------
(***************************************************************************)
(* What a STET client promises its caller (spec section 4.7), with each   *)
(* Encrypt and Decrypt one atomic step.  `store` is what Encrypt calls     *)
(* have written, as it is now on disk; `result` is what the last call      *)
(* returned.  `health` and `dialOK` are the world the calls run in: which  *)
(* key files, KMS keys and external key managers answer.  The world and   *)
(* the damage done to stored blobs are the environment's, so the spec     *)
(* constrains only the two variables a client writes.                     *)
(***************************************************************************)
EXTENDS StetShares, SequencesExt

CONSTANTS KEKs, RsaKeks, ProtectionLevel, ExternalKeyUri, NoOptions, KmsFaults,
          EncryptConfigs, DecryptConfigs, WriteOutcomes

VARIABLES health, dialOK, store, result

UriKeks == KEKs \ RsaKeks

\* What the spec (sections 4.4, 4.6, 7) says a KEK yields when the world lets
\* it: its key file or KMS key is there and answers, the KMS client can be
\* created, and its protection level is one the client supports.  A failing
\* EndSession after a successful operation is only a warning.
KekServes(k) ==
  IF k \in RsaKeks THEN health[k] = "ok"
  ELSE /\ dialOK
       /\ health[k] \notin {"unreachable", "disabled"}
       /\ \/ ProtectionLevel[k] \in {"SOFTWARE", "HSM"} /\ health[k] \notin KmsFaults
          \/ /\ ProtectionLevel[k] = "EXTERNAL" /\ ExternalKeyUri[k] # NoOptions
             /\ health[k] \notin {"rpcError", "sessionFails"}

\* The shares of blob b that a correct client can recover: the wrapped bytes
\* are the ones Encrypt wrote for this blob and the KEK serves.
Recoverable(b) ==
  {i \in 1..Len(store[b].shares) :
     /\ store[b].shares[i].intact
     /\ store[b].shares[i].share.dek = store[b].dek
     /\ KekServes(store[b].cfg.kekInfos[i])}

Threshold(cfg) == IF cfg.alg = "NoSplit" THEN 1 ELSE cfg.threshold

\* The KeyConfig invariants of spec section 3.
SpecKeyConfig(cfg) ==
  IF cfg.alg = "NoSplit" THEN Len(cfg.kekInfos) = 1
  ELSE 2 <= cfg.threshold /\ cfg.threshold <= cfg.shares /\ cfg.shares = Len(cfg.kekInfos)

\* The URI spec section 4.4 reports for a KEK: the external key URI of an
\* EXTERNAL key, the gcp-kms:// URI otherwise.
ObservableUri(k) == IF ProtectionLevel[k] = "EXTERNAL" THEN ExternalKeyUri[k] ELSE k

\* The observable URIs of the KekUri shares among positions S, in order.
UrisOf(cfg, S) ==
  LET idx == SetToSortSeq({i \in S : cfg.kekInfos[i] \in UriKeks}, <)
  IN [j \in 1..Len(idx) |-> ObservableUri(cfg.kekInfos[idx[j]])]

\* The first k positions of S.
FirstK(S, k) == {i \in S : Cardinality({j \in S : j < i}) < k}

\* The blob a successful Encrypt of cfg under DEK d writes: a header, then
\* share i of d wrapped under KekInfo i with its hash, then the whole
\* AEAD stream.
SealedBlob(cfg, d) ==
  [cfg |-> cfg, dek |-> d, header |-> TRUE, complete |-> TRUE, aadIntact |-> TRUE,
   shares |-> [i \in 1..Len(cfg.kekInfos) |->
                 LET s == CreateDEKShares(d, cfg)[i]
                 IN [kek |-> cfg.kekInfos[i], share |-> s, intact |-> TRUE, hash |-> HashShare(s)]]]

\* A DEK no earlier blob was sealed under.
Fresh(d) == \A b \in DOMAIN store : store[b].dek # d

\* Encrypt succeeds exactly when its KeyConfig is valid, every KEK serves
\* and the output is written, unless the caller cancelled; it then appends
\* a sealed blob under a fresh DEK and reports every KEK's URI.  A failed
\* write may leave a blob without a header or with a truncated stream.
Encrypt ==
  /\ result'.n > result.n /\ result'.op = "encrypt" /\ result'.cfg \in EncryptConfigs
  /\ LET cfg    == result'.cfg
         served == \A i \in 1..Len(cfg.kekInfos) : KekServes(cfg.kekInfos[i])
         d      == Last(store').dek
     IN \/ /\ result'.ok /\ result'.io = "ok" /\ SpecKeyConfig(cfg) /\ served
           /\ Len(store') = Len(store) + 1 /\ Fresh(d)
           /\ store' = Append(store, SealedBlob(cfg, d))
           /\ result'.blob = Len(store')
           /\ result'.uris = UrisOf(cfg, 1..Len(cfg.kekInfos))
        \/ /\ ~result'.ok /\ result'.uris = <<>>
           /\ result'.cancelled \/ result'.io # "ok" \/ ~SpecKeyConfig(cfg) \/ ~served
           /\ \/ store' = store
              \/ /\ result'.io \in WriteOutcomes \ {"ok"}
                 /\ Len(store') = Len(store) + 1 /\ Fresh(d)
                 /\ store' = Append(store, [SealedBlob(cfg, d) EXCEPT
                                              !.header = result'.io # "headerFails",
                                              !.complete = FALSE])

\* Decrypt of a stored blob succeeds exactly when the blob is whole and
\* authentic, its KeyConfig is one of DecryptConfigs and at least
\* `threshold` shares are recoverable, unless the caller cancelled.  It
\* writes nothing.  Its URIs are, in KekInfo order, those of some of the
\* recovered shares, never of a share it could not recover.  This is the
\* promise of Decrypt's doc comment ("the key URIs used during
\* decryption"), which both the code (every recovered share) and spec 4.7
\* (only the `threshold` shares consumed in the reconstruction) keep; the
\* gap between those two readings is KeyUrisOnlyConsumed's question.
Decrypt ==
  /\ result'.n > result.n /\ result'.op = "decrypt"
  /\ store' = store /\ result'.blob \in DOMAIN store
  /\ LET b        == result'.blob
         readable == /\ store[b].header /\ store[b].complete /\ store[b].aadIntact
                     /\ Contains(DecryptConfigs, store[b].cfg)
         enough   == Cardinality(Recoverable(b)) >= Threshold(store[b].cfg)
     IN /\ result'.cfg = store[b].cfg
        /\ \/ /\ result'.ok /\ readable /\ enough
              /\ \E S \in SUBSET Recoverable(b) : result'.uris = UrisOf(store[b].cfg, S)
           \/ /\ ~result'.ok /\ result'.uris = <<>>
              /\ result'.cancelled \/ ~readable \/ ~enough

\* The environment corrupts a stored blob that has a header: its shares or
\* its authenticated metadata, never its KeyConfig or DEK.
Damage ==
  /\ result' = result /\ DOMAIN store' = DOMAIN store
  /\ \E b \in DOMAIN store :
       /\ store[b].header /\ store'[b].header
       /\ store'[b].cfg = store[b].cfg /\ store'[b].dek = store[b].dek
       /\ \A b2 \in DOMAIN store \ {b} : store'[b2] = store[b2]

Init == store = <<>> /\ result.n = 0 /\ ~result.ok

Next == Encrypt \/ Decrypt \/ Damage

Spec == Init /\ [][Next]_<<store, result>>
====
