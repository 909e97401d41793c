------------------------- MODULE RemoteCommandsClaims -------------------------
(***************************************************************************)
(* What comments and migrations of the repository say about remote         *)
(* remediation and the code does not keep.  The run CancelRace ends in a   *)
(* counterexample to CanceledNeverRuns; the README tells what breaks the   *)
(* other two.                                                              *)
(***************************************************************************)
EXTENDS RemoteCommands

(* "the POST ack handler refuses to accept acks for already-expired        *)
(* commands": an expired row stays expired.                                *)
ExpiredRowsRefuseAcks ==
  [][\A c \in Cmd : outcome[c] = "expired" => outcome'[c] = "expired"]_vars

(* Cancel sets completed_at "so the agent never sees the row": what was    *)
(* canceled has not happened.                                              *)
CanceledNeverRuns == \A c \in Cmd : outcome[c] = "canceled" => runs[c] = 0

(* Revoke means "wipe everything the agent persists": a device the         *)
(* dashboard shows as revoked has nothing left.                            *)
RevokedMeansWiped == revoked => ~enrolled
=============================================================================
