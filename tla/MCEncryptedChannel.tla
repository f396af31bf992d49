------------------------- MODULE MCEncryptedChannel -------------------------
(* Instances of EncryptedChannel for TLC. *)
EXTENDS EncryptedChannel
==============================================================================
