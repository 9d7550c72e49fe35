--------------------------- MODULE ReleaseHistory ---------------------------
(***************************************************************************)
(* What the versions of a client's configuration promise, with no drafts,    *)
(* editors, connections or transactions in sight: one release is in force at *)
(* a time, a release is made once and from a valid document, and what was    *)
(* released never changes.                                                   *)
(***************************************************************************)
CONSTANTS Versions, Documents, NoVersion, NoDocument

VARIABLES
  current,    \* the version in force
  released    \* the document of every version that is or was in force

releaseVars == <<current, released>>

-----------------------------------------------------------------------------

Init ==
  /\ current = NoVersion
  /\ released = [v \in Versions |-> NoDocument]

Release(v, d) ==
  /\ released[v] = NoDocument
  /\ d.valid
  /\ current' = v
  /\ released' = [released EXCEPT ![v] = d]

Next == \E v \in Versions : \E d \in Documents : Release(v, d)

Spec == Init /\ [][Next]_releaseVars

=============================================================================
