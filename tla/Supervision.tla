---------------------------- MODULE Supervision ----------------------------
(***************************************************************************)
(* What an agent promises of one strategy, whatever it does to keep it:    *)
(* at most one copy runs, only what was deployed is started and only what  *)
(* was ordered is deployed, and a verdict other than "up" is the last word *)
(* on its order: after it nothing is deployed and nothing is started.      *)
(*                                                                         *)
(* Agent implements this specification (Agent!KeepsPromise).               *)
(***************************************************************************)
EXTENDS Naturals

CONSTANTS
  Bytes,   \* artifact digests
  None     \* the strategy is not assigned

Wants == [bytes : Bytes, halted : BOOLEAN] \cup {None}

\* "refused": the version ordered is the one the agent last rolled back from.
Verdicts == {"pending", "up", "failed", "refused", "stopped", "gone"}

VARIABLES
  gen, want,   \* the last order that reached the agent, and its generation
  verdict,     \* the agent's answer to it
  deployed,    \* bytes that some deploy was begun for
  copies       \* the processes of the strategy that run: [pid, bytes]

vars == <<gen, want, verdict, deployed, copies>>

Init == gen = 0 /\ want = None /\ verdict = "gone" /\ deployed = {} /\ copies = {}

Wanted == want # None /\ ~want.halted

Fits ==
  /\ verdict \in {"up", "failed", "refused"} => Wanted
  /\ verdict = "up" => copies # {}
  /\ verdict = "stopped" => want # None /\ want.halted /\ copies = {}
  /\ verdict = "gone" => want = None /\ copies = {}

\* An order is answered at once when it asks for what is so already.
Ask ==
  /\ gen' > gen /\ want' \in Wants
  /\ verdict' \in Verdicts \ {"failed"} /\ Fits'
  /\ UNCHANGED <<deployed, copies>>

Decide ==
  /\ verdict = "pending" /\ verdict' \in Verdicts /\ Fits'
  /\ UNCHANGED <<gen, want, deployed, copies>>

Begin ==
  /\ verdict = "pending" /\ Wanted
  /\ deployed' = deployed \cup {want.bytes}
  /\ UNCHANGED <<gen, want, verdict, copies>>

OneMore == \E c \in copies' : c \notin copies /\ c.bytes \in deployed /\ copies' = {c}

Start ==
  /\ verdict = "pending" /\ Wanted /\ copies = {} /\ OneMore
  /\ verdict' \in {"pending", "up"}
  /\ UNCHANGED <<gen, want, deployed>>

\* The failed copy is stopped and another one is started in its place.
RollBack ==
  /\ verdict = "pending" /\ Wanted /\ OneMore
  /\ verdict' = "refused"
  /\ UNCHANGED <<gen, want, deployed>>

\* The copy is gone: stopped, or ended on its own.  With it an attempt may fail.
Stop ==
  /\ copies # {} /\ copies' = {}
  /\ \/ verdict # "up" /\ verdict' = verdict
     \/ verdict = "up" /\ verdict' = "pending"
     \/ verdict = "pending" /\ Wanted /\ verdict' = "failed"
  /\ UNCHANGED <<gen, want, deployed>>

Next == Ask \/ Decide \/ Begin \/ Start \/ RollBack \/ Stop

Spec == Init /\ [][Next]_vars
=============================================================================
