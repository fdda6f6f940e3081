-------------------------- MODULE CustodyDocClaims --------------------------
(* As DocClaims, for the custody half alone. *)
EXTENDS MCCustody

\* HANDOFF.md on refresh_custody_proof: "Re-verify to reset proof expiry
\* timestamp"; the lending gate of the web client tells the owner of a vault
\* whose proof has expired to "Re-run verify_custody_proof".
LapsedProofRenewable ==
    \A v \in Vaults :
      ProofLapsed(v) => \/ ENABLED VerifyCustodyProof(v, OwnerOf[v])
                        \/ ENABLED RefreshCustodyProof(v, OwnerOf[v])
=============================================================================
