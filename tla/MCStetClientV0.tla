--------------------------- MODULE MCStetClientV0 ---------------------------
(***************************************************************************)
(* The old whole-buffer client under the instances of MCStetClient.        *)
(***************************************************************************)
EXTENDS MCStetClient, StetClientV0
====
