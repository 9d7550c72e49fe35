---------------------------- MODULE StorageTruth ----------------------------
(***************************************************************************)
(* What an upload promises, with no transactions, locks, providers or       *)
(* idempotency keys in sight: a write intent is accepted, then closed       *)
(* exactly once, and the states of the object's copies and the state of the *)
(* object change together with it, in that same step, to one row of the     *)
(* outcome table.                                                           *)
(***************************************************************************)

EXTENDS OutcomeTable

CONSTANT Intents   \* write intents; each one owns one storage object

VARIABLES
  intent,   \* the state of each write intent's row
  copies,   \* the copy_state of each copy's row
  truth     \* registry_state and object_protection_stage of each object's row

truthVars == <<intent, copies, truth>>

-----------------------------------------------------------------------------

Init ==
  /\ intent = [i \in Intents |-> "none"]
  /\ copies = [i \in Intents |-> NothingWritten]
  /\ truth = [i \in Intents |-> Created]

Accept(i) ==
  /\ intent[i] = "none"
  /\ intent' = [intent EXCEPT ![i] = "accepted"]
  /\ UNCHANGED <<copies, truth>>

(* The outcome of every written copy becomes known at once. A route whose    *)
(* primary write failed records nothing.                                     *)
Record(i) ==
  /\ intent[i] = "accepted"
  /\ intent' = [intent EXCEPT ![i] = "completed"]
  /\ \E outcome \in [Targets -> CopyStates] :
       /\ \A t \in Targets : (outcome[t] = "pending") <=> (t \notin Written)
       /\ Configured => outcome[Primary] = "verified"
       /\ copies' = [copies EXCEPT ![i] = outcome]
       /\ truth' = [truth EXCEPT ![i] = DeriveTruth(outcome)]

Close(i) ==
  /\ intent[i] = "accepted"
  /\ \E state \in {"cancelled", "failed"} : intent' = [intent EXCEPT ![i] = state]
  /\ UNCHANGED <<copies, truth>>

Next == \E i \in Intents : Accept(i) \/ Record(i) \/ Close(i)

Spec == Init /\ [][Next]_truthVars

=============================================================================
