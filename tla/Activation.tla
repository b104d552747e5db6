----------------------------- MODULE Activation -----------------------------
(***************************************************************************)
(* What nixnas-switch promises its callers, whatever the machinery below:  *)
(* one activation of the system at a time, an activation that began runs   *)
(* to its own end, and a caller that is told an outcome is told the        *)
(* outcome of the activation it asked for.                                 *)
(*                                                                         *)
(* The promise is the header of modules/appliance/switch.nix; Switch.tla   *)
(* is the wrapper, the transient unit and the two files that keep it.      *)
(***************************************************************************)

CONSTANTS
  Requests,   \* invocations of nixnas-switch
  Foreign,    \* an activation nobody asked this tool for
  Outcomes    \* how an activation can end

VARIABLES
  active,     \* who is activating the system now
  verdict,    \* how the activation of a request ended, or "none"
  told        \* the outcome its caller was given, or "none"

vars == <<active, verdict, told>>

Init ==
  /\ active \in {{}, {Foreign}}
  /\ verdict = [r \in Requests |-> "none"]
  /\ told = [r \in Requests |-> "none"]

Begin(r) ==
  /\ active = {}
  /\ verdict[r] = "none"
  /\ active' = {r}
  /\ UNCHANGED <<verdict, told>>

End(r, o) ==
  /\ active = {r}
  /\ active' = {}
  /\ verdict' = [verdict EXCEPT ![r] = o]
  /\ UNCHANGED told

\* The request fails before it touches the system.
Abandon(r, o) ==
  /\ r \notin active
  /\ verdict[r] = "none"
  /\ verdict' = [verdict EXCEPT ![r] = o]
  /\ UNCHANGED <<active, told>>

ForeignEnd ==
  /\ active = {Foreign}
  /\ active' = {}
  /\ UNCHANGED <<verdict, told>>

Tell(r) ==
  /\ verdict[r] # "none"
  /\ told[r] = "none"
  /\ told' = [told EXCEPT ![r] = verdict[r]]
  /\ UNCHANGED <<active, verdict>>

Next ==
  \/ \E r \in Requests : Begin(r) \/ Tell(r)
  \/ \E r \in Requests, o \in Outcomes : End(r, o) \/ Abandon(r, o)
  \/ ForeignEnd

Spec == Init /\ [][Next]_vars

=============================================================================
