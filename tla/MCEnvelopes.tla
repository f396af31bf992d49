----------------------------- MODULE MCEnvelopes -----------------------------
(* Instances of Envelopes for TLC. *)
EXTENDS Envelopes

CONSTANT Signer \* the one key that signs

\* Public envelopes, announcements among them, carry neither signature nor
\* expiry and the others both, so that every check can fail alone and with
\* others; one envelope has another version.
MCBodies ==
  {e \in [version_ok : BOOLEAN, intent : {"announce", "match"},
          policy : {"public", "mesh-only", "private"}, agent : Agents, mesh : Meshes,
          signature : {Signer, None}, expiry : {0, None}] :
     /\ e.intent = "announce" <=> e.policy = "public"
     /\ e.policy # "mesh-only" => e.mesh = Here
     /\ e.policy = "public" <=> e.signature = None
     /\ e.signature = None <=> e.expiry = None
     /\ ~ e.version_ok => e.intent = "announce"}
==============================================================================
