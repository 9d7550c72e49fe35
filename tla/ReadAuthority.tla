--------------------------- MODULE ReadAuthority ---------------------------
(***************************************************************************)
(* What a read grant promises, with no rows, tokens, clocks or copies in    *)
(* sight: a grant is issued once and ends once, and a read is admitted only *)
(* at an instant at which its grant is live. What was admitted goes on when *)
(* the grant ends.                                                          *)
(***************************************************************************)

CONSTANTS Grants, Reads, NoGrant

VARIABLES
  authority,   \* "none", "live" or "over", for each grant
  reads,       \* "idle", "waiting", "admitted" or "ended", for each read
  using        \* the grant each read presents

authorityVars == <<authority, reads, using>>

-----------------------------------------------------------------------------

Init ==
  /\ authority = [g \in Grants |-> "none"]
  /\ reads = [r \in Reads |-> "idle"]
  /\ using = [r \in Reads |-> NoGrant]

Issue(g) ==
  /\ authority[g] = "none"
  /\ authority' = [authority EXCEPT ![g] = "live"]
  /\ UNCHANGED <<reads, using>>

(* One revocation, or the passing of time over any number of grants.         *)
End(ended) ==
  /\ \A g \in ended : authority[g] = "live"
  /\ authority' = [g \in Grants |-> IF g \in ended THEN "over" ELSE authority[g]]
  /\ UNCHANGED <<reads, using>>

Ask(r, g) ==
  /\ reads[r] = "idle"
  /\ reads' = [reads EXCEPT ![r] = "waiting"]
  /\ using' = [using EXCEPT ![r] = g]
  /\ UNCHANGED authority

Admit(r) ==
  /\ reads[r] = "waiting" /\ authority[using[r]] = "live"
  /\ reads' = [reads EXCEPT ![r] = "admitted"]
  /\ UNCHANGED <<authority, using>>

(* Refused, served, broken off, or lost with the process.                    *)
Finish(finished) ==
  /\ \A r \in finished : reads[r] \in {"waiting", "admitted"}
  /\ reads' = [r \in Reads |-> IF r \in finished THEN "ended" ELSE reads[r]]
  /\ UNCHANGED <<authority, using>>

Next ==
  \/ \E g \in Grants : Issue(g)
  \/ \E ended \in SUBSET Grants : End(ended)
  \/ \E r \in Reads : Admit(r) \/ \E g \in Grants : Ask(r, g)
  \/ \E finished \in SUBSET Reads : Finish(finished)

Spec == Init /\ [][Next]_authorityVars

=============================================================================
