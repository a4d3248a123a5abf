-------------------------- MODULE DerivationLedger --------------------------
(***************************************************************************)
(* What the derivation table promises its readers, whatever queue, leases, *)
(* drain loops and crashes stand behind it: an operation's version only    *)
(* rises; each version is requested once and answered at most once, while  *)
(* it is the current one; answers come one at a time; and a request may    *)
(* arrive together with the answer that caused it.  WorkQueue is shown to  *)
(* implement this module.                                                  *)
(***************************************************************************)
EXTENDS Naturals

CONSTANTS Op, MaxVersion

VARIABLE ledger   \* per operation: its state and the version last requested

Answer == {"ready", "failed", "blocked"}

Entry == [state : {"absent", "pending"} \cup Answer, ver : 0..MaxVersion]

Init == ledger = [o \in Op |-> [state |-> "absent", ver |-> 0]]

Answered(o) == /\ ledger[o].state = "pending"
               /\ ledger'[o].state \in Answer
               /\ ledger'[o].ver = ledger[o].ver

Rerequested(o) == /\ ledger'[o].state = "pending"
                  /\ ledger'[o].ver > ledger[o].ver
                  /\ ledger'[o].ver <= MaxVersion

Dropped(o) == /\ ledger[o].state # "absent"
              /\ ledger'[o].state = "absent"
              /\ ledger'[o].ver = ledger[o].ver

\* One transaction: some operations are requested or dropped, and at most one
\* other is answered.
Next == /\ ledger' \in [Op -> Entry]
        /\ \A o \in Op : \/ ledger'[o] = ledger[o]
                         \/ Answered(o) \/ Rerequested(o) \/ Dropped(o)
        /\ \A o, p \in Op : Answered(o) /\ Answered(p) => o = p
        /\ \A o, p \in Op : ~ (Answered(o) /\ Dropped(p))

Spec == Init /\ [][Next]_ledger
=============================================================================
