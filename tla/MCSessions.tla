----------------------------- MODULE MCSessions -----------------------------
(***************************************************************************)
(* Small instances of CarriedWork and of ClaudeSession, the sessions of the *)
(* two hosts.  They share no state; each is run by itself.                  *)
(***************************************************************************)
EXTENDS CarriedWork, ClaudeSession

CONSTANTS w1, w2

VARIABLE host

\* A shell beside an agent, a monitor or nothing else of its own goes through one handoff,
\* at which its host may be paused; one work of any family goes through more, and through
\* the end of the wrapper.
TwoWorks == family[w1] = "shell" /\ family[w2] # "workflow"
WorkStarts ==
  /\ CarriedInit
  /\ family[w2] = "workflow" \/ (family[w1] = "shell" /\ family[w2] \in {"agent", "monitor"})
WorkBounds ==
  IF TwoWorks
  THEN used'.seams <= 1 /\ wrapper' \notin {"stop", "down"}
  ELSE truth'[w2] = "idle" /\ used'.seams + used'.prompts + used'.starts <= 3

\* The host that does not run stays as it began.
CarriedRests == CarriedInit /\ family = [w \in Works |-> "shell"]
SessionRests == SessionInit /\ cli = NewCli(<<>>, 0, <<>>)

SessionsInit ==
  \/ host = "cc-lhc" /\ WorkStarts /\ SessionRests
  \/ host = "claude-lhc" /\ SessionInit /\ CarriedRests

SessionsNext ==
  \/ host = "cc-lhc" /\ CarriedNext /\ WorkBounds /\ UNCHANGED <<sessionVars, host>>
  \/ host = "claude-lhc" /\ SessionNext /\ UNCHANGED <<carriedVars, host>>

SessionsSpec == SessionsInit /\ [][SessionsNext]_<<carriedVars, sessionVars, host>>
=============================================================================
