----------------------------- MODULE MCSession -----------------------------
(***************************************************************************)
(* Session for TLC: a password identity that can be registered, deleted    *)
(* and registered again under another uid, a Google identity, and an Apple *)
(* identity for which Firebase reports no email.                           *)
(***************************************************************************)
EXTENDS Session, TLC

CONSTANTS a1, a2, g1, p1,  \* uids
          s1, s2           \* slots

\* Requests differ only in what they ask for.
SlotSymmetry == Permutations(Slots)

\* The identities are strings that also serve as emails.
MCIds == {IdOf[u] : u \in Accounts}
MCIdOf == [u \in Accounts |->
  CASE u \in {a1, a2} -> "ana" [] u = g1 -> "gus" [] u = p1 -> "pia"]
MCProvider == [i \in MCIds |->
  CASE i = "ana" -> "password" [] i = "gus" -> "google" [] i = "pia" -> "apple"]
MCMail == [i \in MCIds |-> IF i = "pia" THEN None ELSE i]
=============================================================================
