----------------------------- MODULE StetClient -----------------------------
(***************************************************************************)
(* The STET client library, src/client/client.go: StetClient.Encrypt and  *)
(* StetClient.Decrypt with their per-share loops wrapShares and            *)
(* unwrapAndValidateShares over the three KEK backends (a local RSA key    *)
(* file, a Cloud KMS SOFTWARE or HSM key, an EXTERNAL key reached through  *)
(* a secure session to an external key manager), the Cloud KMS client     *)
(* that a StetClient creates lazily and closes with a deferred Close, and *)
(* the secure sessions each EXTERNAL share opens.                         *)
(*                                                                         *)
(* Cryptography is abstract.  A DEK is the number of the Encrypt call     *)
(* that drew it, a share is [x, dek], a wrapped share remembers the KEK it *)
(* was wrapped under and whether its bytes are still intact, and an       *)
(* unwrap succeeds only under that KEK on intact bytes.  The servers and  *)
(* key files a call talks to are the variables `health` and `dialOK`,     *)
(* which the environment changes only between calls; the caller's        *)
(* context may be cancelled at any step of a call.                        *)
(***************************************************************************)
EXTENDS StetShares, SequencesExt

CONSTANTS
  KEKs,             \* the KekInfos: RSA fingerprints and gcp-kms:// URIs
  RsaKeks,          \* the KekInfos of type RsaFingerprint
  ProtectionLevel,  \* [KEKs \ RsaKeks -> Levels]: the primary version's level
  ExternalKeyUri,   \* [KEKs \ RsaKeks -> ExtUris \cup {NoOptions}]
  ExtUris,          \* external key URIs held by EXTERNAL key versions
  NoOptions,        \* an EXTERNAL version without ExternalProtectionLevelOptions
  NoUri,            \* unwrapped.URI == "" (an RSA share)
  Clients,          \* StetClient values
  EncryptConfigs,   \* the KeyConfigs callers pass to Encrypt
  DecryptConfigs,   \* DecryptConfig.KeyConfigs, in order
  KmsHealth,        \* behaviours a Cloud KMS or EKM key may show
  RsaHealth,        \* behaviours of the local RSA key files
  WriteOutcomes,    \* how writing the output may end
  MaxCalls,         \* bound on Encrypt and Decrypt calls
  MaxTampers,       \* bound on modifications of stored blobs
  ReuseClients      \* may one StetClient serve several calls?

UriKeks == KEKs \ RsaKeks
Levels == {"SOFTWARE", "HSM", "EXTERNAL", "EXTERNAL_VPC", "UNSPECIFIED"}
AllKmsHealth == {"ok", "unreachable", "disabled", "rpcError", "reqCorrupt",
                 "respCorrupt", "sessionFails", "endSessionFails"}
\* Faults of the Cloud KMS Encrypt/Decrypt RPC: an RPC error, a request whose
\* CRC32C the server did not verify, a response whose CRC32C does not match.
KmsFaults == {"rpcError", "reqCorrupt", "respCorrupt"}

ASSUME /\ RsaKeks \subseteq KEKs
       /\ ProtectionLevel \in [UriKeks -> Levels]
       /\ ExternalKeyUri \in [UriKeks -> ExtUris \cup {NoOptions}]
       /\ KmsHealth \subseteq AllKmsHealth /\ "ok" \in KmsHealth
       /\ RsaHealth \subseteq {"ok", "missingKey"} /\ "ok" \in RsaHealth
       /\ WriteOutcomes \subseteq {"ok", "headerFails", "aeadFails"}
       /\ MaxCalls \in Nat /\ MaxTampers \in Nat /\ ReuseClients \in BOOLEAN

VARIABLES
  health,    \* [KEKs -> health]: how each KEK's server or key file behaves
  dialOK,    \* does kms.NewKeyManagementClient succeed?
  kms,       \* [Clients -> {"nil", "typedNil", "open", "closed"}]: StetClient.kmsClient
  used,      \* clients that have served a call
  call,      \* the Encrypt or Decrypt in progress, or op = "idle"
  blobs,     \* every output Encrypt wrote, as it is now on disk
  sessions,  \* one entry per secure session established
  ret,       \* what the last call returned
  calls,     \* calls started
  tampers    \* modifications made to stored blobs

vars == <<health, dialOK, kms, used, call, blobs, sessions, ret, calls, tampers>>

Idle == [op |-> "idle", n |-> 0, client |-> NoUri, cfg |-> NoUri, dek |-> NoDek,
         blob |-> 0, i |-> 0, wrapped |-> <<>>, uris |-> <<>>,
         unwrapped |-> <<>>, deferClose |-> FALSE, cancelled |-> FALSE]

(***************************************************************************)
(* KEK backends.                                                           *)
(***************************************************************************)

\* Unwrapping authenticates: only the KEK that wrapped, on intact bytes.
Unwraps(ws, k) == ws.intact /\ ws.kek = k

\* initializeKMSClient: a no-op once the field is non-nil.  A failed
\* kms.NewKeyManagementClient returns a nil *KeyManagementClient, which the
\* assignment stores in the interface field before the error is returned:
\* the field is then non-nil ("typedNil") and the nil check never fires again.
InitializeKMSClient(st) ==
  IF st # "nil" THEN st ELSE IF dialOK THEN "open" ELSE "typedNil"

\* Every RPC on a closed connection, or under a cancelled context, errors.
RpcFails(st) == st = "closed" \/ call.cancelled

\* Faulty variant: the external-options check made without its EXTERNAL guard.
KekMetadataOptionsUnguarded(k, st) ==
  IF \/ RpcFails(st) \/ health[k] \in {"unreachable", "disabled"}
     \/ ProtectionLevel[k] = "UNSPECIFIED" \/ ExternalKeyUri[k] = NoOptions
  THEN [err |-> TRUE, pl |-> "none", uri |-> NoUri]
  ELSE [err |-> FALSE, pl |-> ProtectionLevel[k],
        uri |-> IF ProtectionLevel[k] = "EXTERNAL" THEN ExternalKeyUri[k] ELSE k]

\* Faulty variant: the Cloud KMS URI kept for EXTERNAL keys too.
KekMetadataKmsUri(k, st) ==
  IF \/ RpcFails(st) \/ health[k] \in {"unreachable", "disabled"}
     \/ ProtectionLevel[k] = "UNSPECIFIED"
     \/ ProtectionLevel[k] = "EXTERNAL" /\ ExternalKeyUri[k] = NoOptions
  THEN [err |-> TRUE, pl |-> "none", uri |-> NoUri]
  ELSE [err |-> FALSE, pl |-> ProtectionLevel[k], uri |-> k]

\* getKekURIMetadata: GetCryptoKey, then the state, protection level and
\* external-options checks; the URI is swapped for the external key URI.
KekMetadata(k, st) ==
  IF \/ RpcFails(st) \/ health[k] \in {"unreachable", "disabled"}
     \/ ProtectionLevel[k] = "UNSPECIFIED"
     \/ ProtectionLevel[k] = "EXTERNAL" /\ ExternalKeyUri[k] = NoOptions
  THEN [err |-> TRUE, pl |-> "none", uri |-> NoUri]
  ELSE [err |-> FALSE, pl |-> ProtectionLevel[k],
        uri |-> IF ProtectionLevel[k] = "EXTERNAL" THEN ExternalKeyUri[k] ELSE k]

\* wrapKMSShare: Encrypt RPC, VerifiedPlaintextCrc32C, response CRC check.
WrapKMSShare(k, st) == ~RpcFails(st) /\ health[k] \notin KmsFaults

\* unwrapKMSShare: Decrypt RPC (the server checks the request CRC) and the
\* response CRC check.
UnwrapKMSShare(ws, k, st) == ~RpcFails(st) /\ health[k] \notin KmsFaults /\ Unwraps(ws, k)

\* ekmSecureSessionWrap: token and EstablishSecureSession, ConfidentialWrap,
\* then EndSession.  A failed ConfidentialWrap returns before EndSession.
EkmSecureSessionWrap(k) ==
  CASE call.cancelled \/ health[k] = "sessionFails" -> [ok |-> FALSE, session |-> "none"]
    [] health[k] = "rpcError"        -> [ok |-> FALSE, session |-> "open"]
    [] health[k] = "endSessionFails" -> [ok |-> FALSE, session |-> "endFailed"]
    [] OTHER                         -> [ok |-> TRUE, session |-> "ended"]

\* ekmSecureSessionUnwrap: as above with ConfidentialUnwrap of the share.
EkmSecureSessionUnwrap(ws, k) ==
  CASE call.cancelled \/ health[k] = "sessionFails" -> [ok |-> FALSE, session |-> "none"]
    [] health[k] = "rpcError" \/ ~Unwraps(ws, k) -> [ok |-> FALSE, session |-> "open"]
    [] health[k] = "endSessionFails" -> [ok |-> FALSE, session |-> "endFailed"]
    [] OTHER                         -> [ok |-> TRUE, session |-> "ended"]

\* The KekInfo_KekUri case of wrapShares after the client is initialised.
WrapKekUri(k, st) ==
  LET md == KekMetadata(k, st) IN
  CASE md.err -> [ok |-> FALSE, session |-> "none", uri |-> NoUri]
    [] md.pl \in {"SOFTWARE", "HSM"} ->
         [ok |-> WrapKMSShare(k, st), session |-> "none", uri |-> md.uri]
    [] md.pl = "EXTERNAL" ->
         LET s == EkmSecureSessionWrap(k) IN [ok |-> s.ok, session |-> s.session, uri |-> md.uri]
    [] OTHER -> [ok |-> FALSE, session |-> "none", uri |-> NoUri]

\* Faulty variant: a Cloud KMS Decrypt error returned, as wrapShares does.
UnwrapKekUriKmsErrorFatal(ws, k, st) ==
  LET md == KekMetadata(k, st) IN
  CASE md.err -> [status |-> "fatal", session |-> "none", uri |-> NoUri]
    [] md.pl \in {"SOFTWARE", "HSM"} ->
         [status |-> IF UnwrapKMSShare(ws, k, st) THEN "ok" ELSE "fatal",
          session |-> "none", uri |-> md.uri]
    [] md.pl = "EXTERNAL" ->
         LET s == EkmSecureSessionUnwrap(ws, k)
         IN [status |-> IF s.ok THEN "ok" ELSE "skip", session |-> s.session, uri |-> md.uri]
    [] OTHER -> [status |-> "skip", session |-> "none", uri |-> NoUri]

\* Faulty variant: a metadata error skips the share, as spec 4.7 asks.
UnwrapKekUriMetadataSkip(ws, k, st) ==
  LET md == KekMetadata(k, st) IN
  CASE md.err -> [status |-> "skip", session |-> "none", uri |-> NoUri]
    [] md.pl \in {"SOFTWARE", "HSM"} ->
         [status |-> IF UnwrapKMSShare(ws, k, st) THEN "ok" ELSE "skip",
          session |-> "none", uri |-> md.uri]
    [] md.pl = "EXTERNAL" ->
         LET s == EkmSecureSessionUnwrap(ws, k)
         IN [status |-> IF s.ok THEN "ok" ELSE "skip", session |-> s.session, uri |-> md.uri]
    [] OTHER -> [status |-> "skip", session |-> "none", uri |-> NoUri]

\* The KekInfo_KekUri case of unwrapAndValidateShares: a metadata error is
\* returned ("fatal"); any other failure skips the share.
UnwrapKekUri(ws, k, st) ==
  LET md == KekMetadata(k, st) IN
  CASE md.err -> [status |-> "fatal", session |-> "none", uri |-> NoUri]
    [] md.pl \in {"SOFTWARE", "HSM"} ->
         [status |-> IF UnwrapKMSShare(ws, k, st) THEN "ok" ELSE "skip",
          session |-> "none", uri |-> md.uri]
    [] md.pl = "EXTERNAL" ->
         LET s == EkmSecureSessionUnwrap(ws, k)
         IN [status |-> IF s.ok THEN "ok" ELSE "skip", session |-> s.session, uri |-> md.uri]
    [] OTHER -> [status |-> "skip", session |-> "none", uri |-> NoUri]

(***************************************************************************)
(* StetClient.Encrypt and StetClient.Decrypt.                              *)
(***************************************************************************)

ClientFree(c) == ReuseClients \/ c \notin used
ShareKek == call.cfg.kekInfos[call.i]
LastShare == call.i = Len(call.cfg.kekInfos)

\* kmsClient after the initializeKMSClient that a KekUri share makes.
ClientAfterInit(k) ==
  IF k \in RsaKeks THEN kms[call.client] ELSE InitializeKMSClient(kms[call.client])

\* The initializeKMSClient of this KekUri share returns its dial error.
InitFails(k) == k \in UriKeks /\ kms[call.client] = "nil" /\ ~dialOK

\* This KekUri share finds the nil *KeyManagementClient in the field:
\* initializeKMSClient returns nil and GetCryptoKey dereferences it.
NilClientPanics == ShareKek \in UriKeks /\ kms[call.client] = "typedNil"

\* `defer c.kmsClient.Close()` is pushed by every KekUri share whose
\* initializeKMSClient succeeded; the deferred calls run when the loop returns.
DeferClose(k) == call.deferClose \/ (k \in UriKeks /\ ~InitFails(k))
RunDefers(st, closeNow) == kms' = [kms EXCEPT ![call.client] = IF closeNow THEN "closed" ELSE st]

RecordSession(s) == sessions' = IF s = "none" THEN sessions ELSE Append(sessions, s)

RetRec(n, op, ok, uris, b, cfg, cancelled, io) ==
  [n |-> n, op |-> op, ok |-> ok, uris |-> uris, blob |-> b, cfg |-> cfg,
   cancelled |-> cancelled, io |-> io]

\* The call in progress returns.
Return(ok, uris, b, io) ==
  /\ ret' = RetRec(call.n, call.op, ok, uris, b, call.cfg, call.cancelled, io)
  /\ call' = Idle

\* Encrypt: NewDEK, then CreateDEKShares, which rejects an invalid KeyConfig.
StartEncrypt(c, cfg) ==
  /\ call.op = "idle" /\ calls < MaxCalls /\ ClientFree(c)
  /\ calls' = calls + 1
  /\ used' = used \cup {c}
  /\ \/ /\ ValidKeyConfig(cfg)
        /\ call' = [Idle EXCEPT !.op = "encrypt", !.n = calls + 1, !.client = c,
                                !.cfg = cfg, !.dek = calls + 1, !.i = 1]
        /\ UNCHANGED ret
     \/ /\ ~ValidKeyConfig(cfg)
        /\ ret' = RetRec(calls + 1, "encrypt", FALSE, <<>>, 0, cfg, FALSE, "ok")
        /\ UNCHANGED call
  /\ UNCHANGED <<health, dialOK, kms, blobs, sessions, tampers>>

\* One pass of wrapShares' loop body, for share call.i.
WrapResult(k) ==
  LET st == ClientAfterInit(k) IN
  CASE k \in RsaKeks -> [ok |-> health[k] = "ok", session |-> "none", uri |-> NoUri]
    [] InitFails(k)  -> [ok |-> FALSE, session |-> "none", uri |-> NoUri]
    [] OTHER         -> WrapKekUri(k, st)

\* A wrap error makes Encrypt return it before anything is written.
EncryptReturnsError == Return(FALSE, <<>>, 0, "ok") /\ UNCHANGED blobs

WrapShare ==
  /\ call.op = "encrypt" /\ call.i <= Len(call.cfg.kekInfos) /\ ~NilClientPanics
  /\ LET k     == ShareKek
         r     == WrapResult(k)
         st    == ClientAfterInit(k)
         share == CreateDEKShares(call.dek, call.cfg)[call.i]
         ws    == [kek |-> k, share |-> share, intact |-> TRUE, hash |-> HashShare(share)]
     IN /\ RecordSession(r.session)
        /\ \/ /\ r.ok
              /\ call' = [call EXCEPT !.i = @ + 1, !.wrapped = Append(@, ws),
                                      !.uris = IF r.uri = NoUri THEN @ ELSE Append(@, r.uri),
                                      !.deferClose = DeferClose(k)]
              /\ RunDefers(st, DeferClose(k) /\ LastShare)
              /\ UNCHANGED <<ret, blobs>>
           \/ /\ ~r.ok
              /\ RunDefers(st, DeferClose(k))
              /\ EncryptReturnsError
  /\ UNCHANGED <<health, dialOK, used, calls, tampers>>

\* MetadataToAAD, proto.Marshal, WriteSTETHeader, the metadata bytes, then
\* AeadEncrypt streaming the input; a write may fail at any of these.
EncryptFinish ==
  /\ call.op = "encrypt" /\ call.i > Len(call.cfg.kekInfos)
  /\ \E io \in WriteOutcomes :
       /\ blobs' = Append(blobs, [cfg |-> call.cfg, dek |-> call.dek, shares |-> call.wrapped,
                                  header |-> io # "headerFails", complete |-> io = "ok",
                                  aadIntact |-> TRUE])
       /\ Return(io = "ok", IF io = "ok" THEN call.uris ELSE <<>>, Len(blobs) + 1, io)
  /\ UNCHANGED <<health, dialOK, kms, used, sessions, calls, tampers>>

\* Decrypt: ReadMetadata, then the first DecryptConfig KeyConfig equal to
\* the metadata's.
StartDecrypt(c, b) ==
  /\ call.op = "idle" /\ calls < MaxCalls /\ ClientFree(c) /\ b \in DOMAIN blobs
  /\ calls' = calls + 1
  /\ used' = used \cup {c}
  /\ LET md == blobs[b] IN
     \/ /\ ~md.header
        /\ ret' = RetRec(calls + 1, "decrypt", FALSE, <<>>, b, md.cfg, FALSE, "ok")
        /\ UNCHANGED call
     \/ /\ md.header /\ ~Contains(DecryptConfigs, md.cfg)
        /\ ret' = RetRec(calls + 1, "decrypt", FALSE, <<>>, b, md.cfg, FALSE, "ok")
        /\ UNCHANGED call
     \/ /\ md.header /\ Contains(DecryptConfigs, md.cfg)
        /\ call' = [Idle EXCEPT !.op = "decrypt", !.n = calls + 1, !.client = c,
                                !.cfg = md.cfg, !.blob = b, !.i = 1]
        /\ UNCHANGED ret
  /\ UNCHANGED <<health, dialOK, kms, blobs, sessions, tampers>>

\* One pass of unwrapAndValidateShares' loop body, for share call.i.
UnwrapResult(ws, k) ==
  LET st == ClientAfterInit(k) IN
  CASE k \in RsaKeks ->
         [status |-> IF health[k] = "ok" /\ Unwraps(ws, k) THEN "ok" ELSE "skip",
          session |-> "none", uri |-> NoUri]
    [] InitFails(k) -> [status |-> "skip", session |-> "none", uri |-> NoUri]
    [] OTHER        -> UnwrapKekUri(ws, k, st)

UnwrapShare ==
  /\ call.op = "decrypt" /\ call.i <= Len(call.cfg.kekInfos) /\ ~NilClientPanics
  /\ LET k    == ShareKek
         ws   == blobs[call.blob].shares[call.i]
         r    == UnwrapResult(ws, k)
         st   == ClientAfterInit(k)
         keep == r.status = "ok" /\ ValidateShare(ws.share, ws.hash)
     IN /\ RecordSession(r.session)
        /\ \/ /\ r.status # "fatal"
              /\ call' = [call EXCEPT !.i = @ + 1, !.deferClose = DeferClose(k),
                            !.unwrapped = IF keep THEN Append(@, [share |-> ws.share, uri |-> r.uri])
                                          ELSE @]
              /\ RunDefers(st, DeferClose(k) /\ LastShare)
              /\ UNCHANGED ret
           \/ /\ r.status = "fatal"
              /\ RunDefers(st, DeferClose(k))
              /\ Return(FALSE, <<>>, call.blob, "ok")
  /\ UNCHANGED <<health, dialOK, used, blobs, calls, tampers>>

\* A KekUri share on a client whose field holds the nil *KeyManagementClient
\* left by an earlier failed dial: getKekURIMetadata's GetCryptoKey panics
\* on the nil pointer.  The panic unwinds out of Encrypt or Decrypt (the
\* deferred Closes, on the same nil client, panic again): the call ends with
\* no result, and the field keeps its nil client.
NilClientPanic ==
  /\ call.op \in {"encrypt", "decrypt"} /\ call.i <= Len(call.cfg.kekInfos)
  /\ NilClientPanics
  /\ Return(FALSE, <<>>, call.blob, "ok")
  /\ UNCHANGED <<health, dialOK, kms, used, blobs, sessions, calls, tampers>>

\* Faulty variant: the `unwrapped.URI != ""` filter dropped.
DecryptKeyUrisUnfiltered(us) == [j \in 1..Len(us) |-> us[j].uri]

\* The URIs Decrypt returns: those of the retained shares that have one.
DecryptKeyUris(us) ==
  LET withUri == SelectSeq(us, LAMBDA u : u.uri # NoUri)
  IN [j \in 1..Len(withUri) |-> withUri[j].uri]

\* Faulty variant: the AeadDecrypt error ignored once a DEK was combined.
DecryptFinishIgnoresAead ==
  /\ call.op = "decrypt" /\ call.i > Len(call.cfg.kekInfos)
  /\ LET dek == CombineUnwrappedShares(call.cfg, call.unwrapped)
         ok  == dek # NoDek
     IN Return(ok, IF ok THEN DecryptKeyUris(call.unwrapped) ELSE <<>>, call.blob, "ok")
  /\ UNCHANGED <<health, dialOK, kms, used, blobs, sessions, calls, tampers>>

\* CombineUnwrappedShares, MetadataToAAD, AeadDecrypt, then the key URIs.
DecryptFinish ==
  /\ call.op = "decrypt" /\ call.i > Len(call.cfg.kekInfos)
  /\ LET dek == CombineUnwrappedShares(call.cfg, call.unwrapped)
         ok  == dek # NoDek /\ AeadDecrypt(dek, blobs[call.blob])
     IN Return(ok, IF ok THEN DecryptKeyUris(call.unwrapped) ELSE <<>>, call.blob, "ok")
  /\ UNCHANGED <<health, dialOK, kms, used, blobs, sessions, calls, tampers>>

(***************************************************************************)
(* The environment.                                                        *)
(***************************************************************************)

\* The caller cancels the context of the call in progress.
Cancel ==
  /\ call.op # "idle" /\ ~call.cancelled
  /\ call' = [call EXCEPT !.cancelled = TRUE]
  /\ UNCHANGED <<health, dialOK, kms, used, blobs, sessions, ret, calls, tampers>>

\* Between calls a key is disabled, a server fails or recovers, a key file
\* goes missing, or creating a KMS client starts or stops failing.
ChangeHealth ==
  /\ call.op = "idle"
  /\ \/ \E k \in RsaKeks, h \in RsaHealth : h # health[k] /\ health' = [health EXCEPT ![k] = h]
     \/ \E k \in UriKeks, h \in KmsHealth : h # health[k] /\ health' = [health EXCEPT ![k] = h]
  /\ UNCHANGED <<dialOK, kms, used, call, blobs, sessions, ret, calls, tampers>>

ToggleDial ==
  /\ call.op = "idle"
  /\ dialOK' = ~dialOK
  /\ UNCHANGED <<health, kms, used, call, blobs, sessions, ret, calls, tampers>>

Tamper(b, nb) ==
  /\ call.op = "idle" /\ tampers < MaxTampers /\ blobs[b].header
  /\ blobs' = [blobs EXCEPT ![b] = nb]
  /\ tampers' = tampers + 1
  /\ UNCHANGED <<health, dialOK, kms, used, call, sessions, ret, calls>>

\* The bytes of wrapped share i are corrupted (outside the AAD).
CorruptShare(b, i) ==
  /\ blobs[b].shares[i].intact
  /\ Tamper(b, [blobs[b] EXCEPT !.shares[i].intact = FALSE])

\* Wrapped share i is replaced by share i of another blob under the same
\* KeyConfig; the stored hash, part of the AAD, is left alone.
TransplantShare(b, b2, i) ==
  /\ b # b2 /\ blobs[b2].cfg = blobs[b].cfg
  /\ blobs[b2].shares[i].share # blobs[b].shares[i].share
  /\ Tamper(b, [blobs[b] EXCEPT !.shares[i] = [blobs[b2].shares[i] EXCEPT !.hash = blobs[b].shares[i].hash]])

\* A byte of the authenticated metadata (the blob id) is flipped.
CorruptAad(b) ==
  /\ blobs[b].aadIntact
  /\ Tamper(b, [blobs[b] EXCEPT !.aadIntact = FALSE])

Init ==
  /\ health = [k \in KEKs |-> "ok"]
  /\ dialOK = TRUE
  /\ kms = [c \in Clients |-> "nil"]
  /\ used = {}
  /\ call = Idle
  /\ blobs = <<>>
  /\ sessions = <<>>
  /\ ret = RetRec(0, "none", FALSE, <<>>, 0, NoUri, FALSE, "ok")
  /\ calls = 0
  /\ tampers = 0

Next ==
  \/ \E c \in Clients, cfg \in EncryptConfigs : StartEncrypt(c, cfg)
  \/ WrapShare
  \/ EncryptFinish
  \/ \E c \in Clients, b \in DOMAIN blobs : StartDecrypt(c, b)
  \/ UnwrapShare
  \/ DecryptFinish
  \/ NilClientPanic
  \/ Cancel
  \/ ChangeHealth
  \/ ToggleDial
  \/ \E b \in DOMAIN blobs : \E i \in 1..Len(blobs[b].shares) : CorruptShare(b, i)
  \/ \E b, b2 \in DOMAIN blobs : \E i \in 1..Len(blobs[b].shares) : TransplantShare(b, b2, i)
  \/ \E b \in DOMAIN blobs : CorruptAad(b)

Spec == Init /\ [][Next]_vars

(***************************************************************************)
(* Properties.                                                             *)
(***************************************************************************)

Uris == UriKeks \cup ExtUris

\* The client's promise (StetAbstract): blobs on disk are the abstract store,
\* the last return is the abstract result.
Abs == INSTANCE StetAbstract WITH store <- blobs, result <- ret

\* Refinement: seen at the step each call returns, every Encrypt and Decrypt
\* of StetClient is one atomic Encrypt or Decrypt of the abstract client,
\* and no other step writes a blob or a result.  Beyond the completeness
\* properties below, this states soundness: Decrypt succeeds only on a
\* whole, authentic blob with `threshold` recoverable shares, Encrypt only
\* when every KEK served, and a failed Encrypt never leaves a blob whose
\* header promises shares that were not all wrapped.  On URIs: Encrypt
\* reports the observable URI of every KekUri share in KekInfo order, and
\* Decrypt reports URIs of recovered shares only; unwrapAndValidateShares
\* sets unwrapped.URI before the hash check, so a share that fails it must
\* not be kept.
ImplementsStetAbstract == Abs!Spec

TypeOK ==
  /\ health \in [KEKs -> AllKmsHealth \cup {"missingKey"}]
  /\ dialOK \in BOOLEAN
  /\ kms \in [Clients -> {"nil", "typedNil", "open", "closed"}]
  /\ used \subseteq Clients
  /\ call.op \in {"idle", "encrypt", "decrypt"}
  /\ call.uris \in Seq(Uris)
  /\ \A j \in 1..Len(call.unwrapped) : call.unwrapped[j].uri \in Uris \cup {NoUri}
  /\ ret.uris \in Seq(Uris)
  /\ sessions \in Seq({"open", "ended", "endFailed"})
  /\ calls \in 0..MaxCalls /\ tampers \in 0..MaxTampers

Returns(op) == ret'.n # ret.n /\ ret'.op = op

\* Threshold completeness (spec 4.7 steps 3-4, section 7): Decrypt of an
\* untampered blob whose KeyConfig is known fails, without a cancellation,
\* only when fewer than `threshold` of its shares can be recovered.  A
\* per-share failure must skip the share, never end the loop.
ThresholdCompleteness ==
  [][ Returns("decrypt") /\ ~ret'.ok /\ ~ret'.cancelled
      /\ blobs[ret'.blob].header /\ blobs[ret'.blob].complete
      /\ blobs[ret'.blob].aadIntact /\ Contains(DecryptConfigs, blobs[ret'.blob].cfg)
      => Cardinality(Abs!Recoverable(ret'.blob)) < Abs!Threshold(blobs[ret'.blob].cfg) ]_vars

\* Encrypt completeness: Encrypt with a valid KeyConfig fails, without a
\* cancellation or an output write error, only when some KEK of the config
\* does not serve.
EncryptCompleteness ==
  [][ Returns("encrypt") /\ ~ret'.ok /\ ~ret'.cancelled /\ ret'.io = "ok"
      /\ Abs!SpecKeyConfig(ret'.cfg)
      => \E i \in 1..Len(ret'.cfg.kekInfos) : ~Abs!KekServes(ret'.cfg.kekInfos[i]) ]_vars

\* Spec sections 5 and 7: a Cancelled received anywhere aborts the call at
\* once.  Neither loop of client.go looks at ctx; a share whose KEK is a
\* Cloud KMS key makes an RPC (GetCryptoKey first), and under a cancelled
\* context that step must end the call with an error rather than go on to
\* the next share, and possibly succeed from RSA shares alone.
CancelAborts ==
  [][ /\ call.op \in {"encrypt", "decrypt"} /\ call.cancelled
      /\ call.i <= Len(call.cfg.kekInfos)
      /\ ShareKek \in UriKeks /\ ~InitFails(ShareKek)
      /\ call' # call
      => call' = Idle /\ ret'.n = call.n /\ ~ret'.ok ]_vars

\* Spec section 8: every wrap or unwrap that established a secure session
\* is followed by an EndSession, whether it succeeded or failed.
EverySessionEnded == \A s \in 1..Len(sessions) : sessions[s] # "open"

\* Spec 4.7: Decrypt reports the URIs of only the shares consumed in the
\* reconstruction, the first `threshold` recovered ones.
KeyUrisOnlyConsumed ==
  [][ Returns("decrypt") /\ ret'.ok /\ ~ret'.cancelled =>
      ret'.uris = Abs!UrisOf(ret'.cfg, Abs!FirstK(Abs!Recoverable(ret'.blob), Abs!Threshold(ret'.cfg))) ]_vars

====
