--------------------------- MODULE ProviderWriter ---------------------------
(***************************************************************************)
(* One object at one provider, seen by a writer: a conditional PUT, a HEAD   *)
(* that compares size, checksum and type, and an unconditional DELETE. An    *)
(* upload, a retry of one target and the repair of a replica all write       *)
(* through it. A result says how far the writer is, and whether the provider *)
(* holds the exact bytes then.                                               *)
(***************************************************************************)

WriterSteps == {"resolved", "stored", "undo", "failed", "verified"}

Contents == {"absent", "exact"}

Result(step, content) == [step |-> step, content |-> content]

(* Mutant: no error of a PUT asks for a cleanup.                             *)
AfterPutWithoutUndo(source, content) ==
  (IF content = "absent" THEN {Result("stored", source), Result("failed", source)} ELSE {})
  \cup {Result("failed", content)}

(* A PUT with If-None-Match: created; refused with 412, or not even sent for *)
(* want of credentials, and then nothing is to be undone; or failed with any *)
(* other error, before or after the bytes arrived.                           *)
AfterPut(source, content) ==
  (IF content = "absent" THEN {Result("stored", source), Result("undo", source)} ELSE {})
  \cup {Result("failed", content), Result("undo", content)}

(* The HEAD finds an object of the size and with the checksum the PUT put    *)
(* into its metadata, or does not, or fails.                                 *)
AfterHead(content) ==
  (IF content # "absent" THEN {Result("verified", content)} ELSE {})
  \cup {Result("undo", content)}

(* A DELETE names the key and nothing else: it takes away whatever is there. *)
(* One that fails is reported in a result.                                   *)
AfterDelete == {Result("failed", "absent")}

AfterLostDelete(content) == {Result("failed", content)}

=============================================================================
