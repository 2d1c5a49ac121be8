---------------------------- MODULE OneTimeGrant ----------------------------
(***************************************************************************)
(* What the identity layer promises of a session: it is offered once,      *)
(* accepted at most once, and once accepted grants at most one proof.      *)
(***************************************************************************)
EXTENDS Naturals

CONSTANT Sessions

VARIABLES
  phase,    \* how far each session has come
  granted   \* how often it has authorized the issuance of a proof

Phases == {"none", "offered", "accepted", "ended"}

Init ==
  /\ phase = [s \in Sessions |-> "none"]
  /\ granted = [s \in Sessions |-> 0]

Move(s, from, to) == phase[s] = from /\ phase' = [phase EXCEPT ![s] = to]

Offer(s)  == Move(s, "none", "offered") /\ UNCHANGED granted
Accept(s) == Move(s, "offered", "accepted") /\ UNCHANGED granted

Grant(s) ==
  /\ Move(s, "accepted", "ended")
  /\ granted' = [granted EXCEPT ![s] = @ + 1]

\* Any number of sessions may end without a grant, at once when the verifier
\* forgets them.
Withdraw ==
  /\ phase' \in [Sessions -> Phases]
  /\ \A s \in Sessions : \/ phase'[s] = phase[s]
                         \/ phase[s] \in {"offered", "accepted"} /\ phase'[s] = "ended"
  /\ UNCHANGED granted

Next == Withdraw \/ \E s \in Sessions : Offer(s) \/ Accept(s) \/ Grant(s)

Spec == Init /\ [][Next]_<<phase, granted>>
=============================================================================
