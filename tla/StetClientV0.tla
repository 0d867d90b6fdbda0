---------------------------- MODULE StetClientV0 ----------------------------
(***************************************************************************)
(* The older, whole-buffer revision of the client library                 *)
(* (src/unnamed/part_000): Encrypt returns an EncryptedData proto and     *)
(* Decrypt takes one, with no streaming.  Its KEK backends (Cloud KMS     *)
(* client creation, GetCryptoKey checks, wrapKMSShare, unwrapKMSShare and  *)
(* the secure-session wrap and unwrap) are line for line those of         *)
(* client.go, so they are taken from StetClient.  What differs is        *)
(* modelled here:                                                          *)
(*  - protectionLevelsAndUris fetches the metadata of every KekUri of the *)
(*    KeyConfig at the first KekUri share, and any error ends the call;   *)
(*  - unwrapAndValidateShares returns on the first share that fails to    *)
(*    unwrap or to validate;                                               *)
(*  - Decrypt combines every share and reports the KekUris of all         *)
(*    KeyConfigs of the DecryptConfig.                                     *)
(***************************************************************************)
EXTENDS StetClient

VARIABLE
  kekMetadatas  \* has this call's loop populated its kekMetadatas slice?

varsV0 == <<vars, kekMetadatas>>

\* protectionLevelsAndUris: GetCryptoKey and the checks for every KekUri of
\* the list, in order; the first error is returned for the whole list.
ProtectionLevelsAndUris(kekInfos, st) ==
  \A j \in 1..Len(kekInfos) : kekInfos[j] \in UriKeks => ~KekMetadata(kekInfos[j], st).err

\* The protection level a KekUri share is wrapped or unwrapped by: read from
\* kekMetadatas, populated at the first KekUri share of the loop.
CachedLevel(k, st) ==
  IF kekMetadatas THEN ProtectionLevel[k] ELSE KekMetadata(k, st).pl

\* One pass of the old wrapShares loop body: the RSA case, or the KekUri
\* case (initializeKMSClient, the one-time metadata fetch, then the wrap by
\* protection level).  Every error returns from the loop.
WrapResultV0(k) ==
  LET st == ClientAfterInit(k) IN
  CASE k \in RsaKeks -> [ok |-> health[k] = "ok", session |-> "none"]
    [] InitFails(k) -> [ok |-> FALSE, session |-> "none"]
    [] ~kekMetadatas /\ ~ProtectionLevelsAndUris(call.cfg.kekInfos, st) ->
         [ok |-> FALSE, session |-> "none"]
    [] CachedLevel(k, st) \in {"SOFTWARE", "HSM"} ->
         [ok |-> WrapKMSShare(k, st), session |-> "none"]
    [] CachedLevel(k, st) = "EXTERNAL" ->
         LET s == EkmSecureSessionWrap(k) IN [ok |-> s.ok, session |-> s.session]
    [] OTHER -> [ok |-> FALSE, session |-> "none"]

\* The KekUri case populates kekMetadatas once the client is initialised.
Populated(k) == kekMetadatas \/ (k \in UriKeks /\ ~InitFails(k))

WrapShareV0 ==
  /\ call.op = "encrypt" /\ call.i <= Len(call.cfg.kekInfos) /\ ~NilClientPanics
  /\ LET k     == ShareKek
         r     == WrapResultV0(k)
         st    == ClientAfterInit(k)
         share == CreateDEKShares(call.dek, call.cfg)[call.i]
         ws    == [kek |-> k, share |-> share, intact |-> TRUE, hash |-> HashShare(share)]
     IN /\ RecordSession(r.session)
        /\ \/ /\ r.ok
              /\ call' = [call EXCEPT !.i = @ + 1, !.wrapped = Append(@, ws),
                                      !.deferClose = DeferClose(k)]
              /\ kekMetadatas' = Populated(k)
              /\ RunDefers(st, DeferClose(k) /\ LastShare)
              /\ UNCHANGED <<ret, blobs>>
           \/ /\ ~r.ok
              /\ RunDefers(st, DeferClose(k))
              /\ EncryptReturnsError
              /\ UNCHANGED kekMetadatas
  /\ UNCHANGED <<health, dialOK, used, calls, tampers>>

\* metadataToAAD and aeadEncrypt over the whole plaintext; the
\* EncryptedData is returned whole, with no key URIs.
EncryptFinishV0 ==
  /\ call.op = "encrypt" /\ call.i > Len(call.cfg.kekInfos)
  /\ blobs' = Append(blobs, [cfg |-> call.cfg, dek |-> call.dek, shares |-> call.wrapped,
                             header |-> TRUE, complete |-> TRUE, aadIntact |-> TRUE])
  /\ Return(TRUE, <<>>, Len(blobs) + 1, "ok")
  /\ UNCHANGED <<health, dialOK, kms, used, sessions, calls, tampers, kekMetadatas>>

\* One pass of the old unwrapAndValidateShares loop body.
UnwrapResultV0(ws, k) ==
  LET st == ClientAfterInit(k) IN
  CASE k \in RsaKeks -> [ok |-> health[k] = "ok" /\ Unwraps(ws, k), session |-> "none"]
    [] InitFails(k) -> [ok |-> FALSE, session |-> "none"]
    [] ~kekMetadatas /\ ~ProtectionLevelsAndUris(call.cfg.kekInfos, st) ->
         [ok |-> FALSE, session |-> "none"]
    [] CachedLevel(k, st) \in {"SOFTWARE", "HSM"} ->
         [ok |-> UnwrapKMSShare(ws, k, st), session |-> "none"]
    [] CachedLevel(k, st) = "EXTERNAL" ->
         LET s == EkmSecureSessionUnwrap(ws, k) IN [ok |-> s.ok, session |-> s.session]
    [] OTHER -> [ok |-> FALSE, session |-> "none"]

\* A share that fails to unwrap, or whose hash does not match, returns
\* from the loop; Decrypt then fails.
UnwrapShareV0 ==
  /\ call.op = "decrypt" /\ call.i <= Len(call.cfg.kekInfos) /\ ~NilClientPanics
  /\ LET k  == ShareKek
         ws == blobs[call.blob].shares[call.i]
         r  == UnwrapResultV0(ws, k)
         st == ClientAfterInit(k)
     IN /\ RecordSession(r.session)
        /\ \/ /\ r.ok /\ ValidateShare(ws.share, ws.hash)
              /\ call' = [call EXCEPT !.i = @ + 1, !.deferClose = DeferClose(k),
                                      !.unwrapped = Append(@, [share |-> ws.share, uri |-> NoUri])]
              /\ kekMetadatas' = Populated(k)
              /\ RunDefers(st, DeferClose(k) /\ LastShare)
              /\ UNCHANGED ret
           \/ /\ ~(r.ok /\ ValidateShare(ws.share, ws.hash))
              /\ RunDefers(st, DeferClose(k))
              /\ Return(FALSE, <<>>, call.blob, "ok")
              /\ UNCHANGED kekMetadatas
  /\ UNCHANGED <<health, dialOK, used, blobs, calls, tampers>>

\* The key URIs the old Decrypt reports: the KekUri of every KekInfo of
\* every KeyConfig of the DecryptConfig, in order.
DecryptKeyUrisV0 ==
  FlattenSeq([j \in 1..Len(DecryptConfigs) |->
                SelectSeq(DecryptConfigs[j].kekInfos, LAMBDA k : k \in UriKeks)])

\* The no-split length check or CombineShares over all shares, then
\* metadataToAAD, aeadDecrypt and the key URIs.
DecryptFinishV0 ==
  /\ call.op = "decrypt" /\ call.i > Len(call.cfg.kekInfos)
  /\ LET dek == CombineUnwrappedShares(call.cfg, call.unwrapped)
         ok  == dek # NoDek /\ AeadDecrypt(dek, blobs[call.blob])
     IN Return(ok, IF ok THEN DecryptKeyUrisV0 ELSE <<>>, call.blob, "ok")
  /\ UNCHANGED <<health, dialOK, kms, used, blobs, sessions, calls, tampers, kekMetadatas>>

InitV0 == Init /\ kekMetadatas = FALSE

\* Encrypt's KeyConfig checks and Decrypt's search for a matching
\* KeyConfig are those of the current revision (StartEncrypt, StartDecrypt;
\* an EncryptedData always has its metadata); each call starts with an
\* empty kekMetadatas.
NextV0 ==
  \/ \E c \in Clients, cfg \in EncryptConfigs :
       StartEncrypt(c, cfg) /\ kekMetadatas' = FALSE
  \/ WrapShareV0
  \/ EncryptFinishV0
  \/ \E c \in Clients, b \in DOMAIN blobs : StartDecrypt(c, b) /\ kekMetadatas' = FALSE
  \/ UnwrapShareV0
  \/ DecryptFinishV0
  \/ /\ \/ NilClientPanic \/ Cancel \/ ChangeHealth \/ ToggleDial
        \/ \E b \in DOMAIN blobs : \E i \in 1..Len(blobs[b].shares) : CorruptShare(b, i)
        \/ \E b, b2 \in DOMAIN blobs : \E i \in 1..Len(blobs[b].shares) : TransplantShare(b, b2, i)
        \/ \E b \in DOMAIN blobs : CorruptAad(b)
     /\ UNCHANGED kekMetadatas

SpecV0 == InitV0 /\ [][NextV0]_varsV0

\* Spec 4.7 on the URIs a successful Decrypt reports: the observable URIs
\* (the external key URI of an EXTERNAL key) of the shares consumed in the
\* reconstruction, the first `threshold` recovered ones.
DecryptReportsConsumedUris ==
  [][ Returns("decrypt") /\ ret'.ok /\ ~ret'.cancelled =>
      ret'.uris = Abs!UrisOf(ret'.cfg, Abs!FirstK(Abs!Recoverable(ret'.blob),
                                                  Abs!Threshold(ret'.cfg))) ]_vars

\* Spec 4.7 and section 7, Decrypt's contract: a per-share failure is
\* skipped, so Decrypt fails only below the threshold (or on a damaged,
\* unknown or cancelled input), and on success it reports the URIs of the
\* shares consumed in the reconstruction.  The old unwrapAndValidateShares returns on the first
\* failing share, and the old Decrypt lists the KekUris of every KeyConfig.
DecryptContract == ThresholdCompleteness /\ DecryptReportsConsumedUris
====
