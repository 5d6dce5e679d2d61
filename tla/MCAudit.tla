------------------------------- MODULE MCAudit -------------------------------
(***************************************************************************)
(* AuditChain for TLC with the metadata recordEvidence passes: a digest of *)
(* the content may be left out, and then is a key whose value is undefined. *)
(***************************************************************************)
EXTENDS AuditChain

RecordedEvidence == {"recorded"}
PerhapsLeftOut == [{"contentDigest"} -> {"given", "undefined"}]
=============================================================================
