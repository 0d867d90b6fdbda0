------------------------- MODULE MCSharedKmsClient -------------------------
(***************************************************************************)
(* Two goroutines sharing one StetClient: one encrypts, one decrypts.    *)
(***************************************************************************)
EXTENDS SharedKmsClient, TLC

CONSTANTS g1, g2

MCCallers == {g1, g2}
MCOps == (g1 :> "encrypt") @@ (g2 :> "decrypt")
====
