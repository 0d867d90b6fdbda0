--------------------------- MODULE SharedKmsClient ---------------------------
(***************************************************************************)
(* Concurrent Encrypt and Decrypt calls on one StetClient                 *)
(* (src/client/client.go): the Cloud KMS client lives in the field        *)
(* c.kmsClient, which initializeKMSClient sets when it reads nil, every   *)
(* KekUri share closes with `defer c.kmsClient.Close()` (the receiver is  *)
(* read when the defer statement runs), and getKekURIMetadata and the KMS *)
(* Encrypt/Decrypt RPCs read again.  Nothing guards the field, so each    *)
(* read and each write is a step of its own, and a racy read sees the     *)
(* last value written (a torn interface read is not modelled).            *)
(*                                                                         *)
(* Only the KekUri shares of a call touch the field; its RSA shares are   *)
(* left out.  Every key is a healthy SOFTWARE key and creating a client   *)
(* succeeds, so the only failures are those the calls cause each other.  *)
(***************************************************************************)
EXTENDS Naturals, Sequences, FiniteSets, SequencesExt

CONSTANTS
  Callers,    \* goroutines, each making one call on the shared StetClient
  Ops,        \* [Callers -> {"encrypt", "decrypt"}]
  NShares,    \* KekUri shares per call
  Threshold,  \* shares Decrypt needs
  Nil         \* c.kmsClient before initialisation

ASSUME /\ Ops \in [Callers -> {"encrypt", "decrypt"}]
       /\ NShares \in Nat \ {0} /\ Threshold \in 1..NShares

\* Each kms.NewKeyManagementClient returns a new connection; the field is
\* never reset, so at most one is made per caller.
ClientIds == 1..Cardinality(Callers)

VARIABLES
  kmsClient,  \* the field c.kmsClient: Nil or a connection
  conn,       \* [ClientIds -> {"none", "open", "closed"}]
  pc,         \* [Callers -> step]: where each goroutine is
  share,      \* [Callers -> 1..NShares+1]: the loop index
  defers,     \* [Callers -> Seq(ClientIds)]: receivers of deferred Closes
  recovered,  \* [Callers -> Nat]: shares wrapped or unwrapped
  outcome     \* [Callers -> {"running", "ok", "failed"}]

vars == <<kmsClient, conn, pc, share, defers, recovered, outcome>>

Created == {x \in ClientIds : conn[x] # "none"}

Step(g, from, to) == pc[g] = from /\ pc' = [pc EXCEPT ![g] = to]

\* initializeKMSClient: `if c.kmsClient != nil { return nil }`.
InitializeKMSClient(g) ==
  /\ pc[g] = "init"
  /\ pc' = [pc EXCEPT ![g] = IF kmsClient # Nil THEN "defer" ELSE "dial"]
  /\ UNCHANGED <<kmsClient, conn, share, defers, recovered, outcome>>

\* `c.kmsClient, err = kms.NewKeyManagementClient(...)`, after the nil
\* check: the write overwrites whatever another goroutine stored meanwhile.
NewKeyManagementClient(g) ==
  /\ Step(g, "dial", "defer")
  /\ LET x == CHOOSE y \in ClientIds \ Created : TRUE
     IN /\ kmsClient' = x
        /\ conn' = [conn EXCEPT ![x] = "open"]
  /\ UNCHANGED <<share, defers, recovered, outcome>>

\* `defer c.kmsClient.Close()`: the receiver is evaluated now.
DeferClose(g) ==
  /\ Step(g, "defer", "metadata")
  /\ defers' = [defers EXCEPT ![g] = Append(@, kmsClient)]
  /\ UNCHANGED <<kmsClient, conn, share, recovered, outcome>>

\* getKekURIMetadata(ctx, c.kmsClient, kek): GetCryptoKey on a closed
\* connection errors, and both loops return that error.
GetKekURIMetadata(g) ==
  /\ pc[g] = "metadata"
  /\ IF conn[kmsClient] = "closed"
     THEN /\ pc' = [pc EXCEPT ![g] = "return"]
          /\ outcome' = [outcome EXCEPT ![g] = "failed"]
     ELSE /\ pc' = [pc EXCEPT ![g] = "rpc"]
          /\ UNCHANGED outcome
  /\ UNCHANGED <<kmsClient, conn, share, defers, recovered>>

\* c.wrapKMSShare / c.unwrapKMSShare: the Encrypt or Decrypt RPC on
\* c.kmsClient.  Encrypt returns the error; Decrypt skips the share.
KmsShareRpc(g) ==
  /\ pc[g] = "rpc"
  /\ LET ok   == conn[kmsClient] = "open"
         last == share[g] = NShares
     IN /\ recovered' = [recovered EXCEPT ![g] = IF ok THEN @ + 1 ELSE @]
        /\ share' = [share EXCEPT ![g] = @ + 1]
        /\ IF ~ok /\ Ops[g] = "encrypt"
           THEN /\ pc' = [pc EXCEPT ![g] = "return"]
                /\ outcome' = [outcome EXCEPT ![g] = "failed"]
           ELSE /\ pc' = [pc EXCEPT ![g] = IF last THEN "return" ELSE "init"]
                /\ UNCHANGED outcome
  /\ UNCHANGED <<kmsClient, conn, defers>>

\* The loop returns: every deferred Close runs on the connection it named.
\* A Decrypt below the threshold fails in CombineUnwrappedShares.
Return(g) ==
  /\ Step(g, "return", "done")
  /\ conn' = [x \in ClientIds |-> IF x \in Range(defers[g]) THEN "closed" ELSE conn[x]]
  /\ outcome' = [outcome EXCEPT ![g] =
                   IF @ = "running" /\ (Ops[g] = "encrypt" \/ recovered[g] >= Threshold)
                   THEN "ok" ELSE "failed"]
  /\ UNCHANGED <<kmsClient, share, defers, recovered>>

Init ==
  /\ kmsClient = Nil
  /\ conn = [x \in ClientIds |-> "none"]
  /\ pc = [g \in Callers |-> "init"]
  /\ share = [g \in Callers |-> 1]
  /\ defers = [g \in Callers |-> <<>>]
  /\ recovered = [g \in Callers |-> 0]
  /\ outcome = [g \in Callers |-> "running"]

Next ==
  \E g \in Callers :
    \/ InitializeKMSClient(g)
    \/ NewKeyManagementClient(g)
    \/ DeferClose(g)
    \/ GetKekURIMetadata(g)
    \/ KmsShareRpc(g)
    \/ Return(g)

Spec == Init /\ [][Next]_vars

====
