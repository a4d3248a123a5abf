----------------------------- MODULE ThreadOwner -----------------------------
(***************************************************************************)
(* The lease of a thread among the cc-lhc wrappers of one machine           *)
(* (cc-lhc/src/runtime/thread-owner.ts).  The lease is a file that names    *)
(* the process that owns the thread; a directory beside it, the guard, is   *)
(* held while a wrapper acquires or releases.  A process is known by its    *)
(* pid and by its start, so a pid the kernel gave to another process does   *)
(* not keep a dead wrapper's lease.  A process may die at any step and      *)
(* leave the lease, the guard or both behind.                               *)
(***************************************************************************)
EXTENDS Naturals

CONSTANTS Pids,         \* the pids the kernel hands out
          MaxStarts,    \* bound: processes started with one pid
          NoLease,      \* no lease file
          Damaged       \* a lease file that cannot be parsed

ASSUME StartsAssumption == MaxStarts \in Nat
ASSUME LeaseAssumption == NoLease # Damaged /\ {NoLease, Damaged} \cap (Pids \X Nat) = {}

VARIABLES
  lease,    \* the lease file: the identity in it
  guard,    \* the guard directory is there
  starts,   \* starts[p]: the processes that have had pid p; the last one is its identity
  wrap,     \* wrap[p]: where the process with pid p is
  found,    \* found[p]: the lease the process read last
  tries     \* tries[p]: turns of the acquire loop that found a lease

ownerVars == <<lease, guard, starts, wrap, found, tries>>

Identity(p) == <<p, starts[p]>>
Identities == Pids \X Nat
Leases == Identities \cup {NoLease, Damaged}

Acquiring == {"link", "read", "probe", "unlink", "give_up", "hand_over"}
Releasing == {"check", "remove", "leave"}
Places == {"dead", "stranger", "launching", "owner"} \cup Acquiring \cup Releasing

Live(p) == wrap[p] # "dead"
InGuard(p) == wrap[p] \in Acquiring \cup Releasing

OwnerTypeOK ==
  /\ lease \in Leases
  /\ guard \in BOOLEAN
  /\ starts \in [Pids -> Nat]
  /\ wrap \in [Pids -> Places]
  /\ found \in [Pids -> Leases]
  /\ tries \in [Pids -> 0..2]

OwnerInit ==
  /\ lease \in {NoLease, Damaged}
  /\ guard = FALSE
  /\ starts = [p \in Pids |-> 0]
  /\ wrap = [p \in Pids |-> "dead"]
  /\ found = [p \in Pids |-> NoLease]
  /\ tries = [p \in Pids |-> 0]

Moves(p, from, to) == wrap[p] = from /\ wrap' = [wrap EXCEPT ![p] = to]

\* The kernel starts a process with pid p: a wrapper for the thread, or another program.
Start(p) ==
  /\ starts[p] < MaxStarts
  /\ starts' = [starts EXCEPT ![p] = @ + 1]
  /\ \/ Moves(p, "dead", "launching")
     \/ Moves(p, "dead", "stranger")
  /\ UNCHANGED <<lease, guard, found, tries>>

\* Mutant: the guard is not taken, and two acquirers reclaim one dead lease.
TakeGuardAlways(p) ==
  /\ Moves(p, "launching", "link")
  /\ guard' = TRUE
  /\ tries' = [tries EXCEPT ![p] = 0]
  /\ UNCHANGED <<lease, starts, found>>

\* The acquirer makes the guard directory; held, the launch is refused.
TakeGuard(p) ==
  /\ \/ ~guard /\ Moves(p, "launching", "link")
     \/ guard /\ Moves(p, "launching", "dead")
  /\ guard' = TRUE
  /\ tries' = [tries EXCEPT ![p] = 0]
  /\ UNCHANGED <<lease, starts, found>>

\* link(2) of the finished temporary file: taken, or there is a lease.
Link(p) ==
  /\ \/ /\ lease = NoLease
        /\ Moves(p, "link", "hand_over")
        /\ lease' = Identity(p)
     \/ /\ lease # NoLease
        /\ Moves(p, "link", "read")
        /\ UNCHANGED lease
  /\ UNCHANGED <<guard, starts, found, tries>>

\* The loop turns again while it has turns left; then it is a conflict.
LoopsOn(p, from) ==
  /\ tries' = [tries EXCEPT ![p] = @ + 1]
  /\ Moves(p, from, IF tries[p] = 0 THEN "link" ELSE "give_up")

ReadLease(p) ==
  /\ \/ LoopsOn(p, "read") /\ UNCHANGED found            \* the file cannot be read
     \/ lease = Damaged /\ Moves(p, "read", "give_up") /\ UNCHANGED <<found, tries>>
     \/ /\ lease \in Identities
        /\ Moves(p, "read", "probe")
        /\ found' = [found EXCEPT ![p] = lease]
        /\ UNCHANGED tries
  /\ UNCHANGED <<lease, guard, starts>>

\* The process a lease names is alive: its pid is, and it started when the lease says.
SameProcess(l) == \E q \in Pids : Live(q) /\ l = Identity(q)

\* A live owner is a conflict, a probe that cannot tell is an error, a dead one is reclaimed.
Probe(p) ==
  /\ \/ ~SameProcess(found[p]) /\ Moves(p, "probe", "unlink")
     \/ Moves(p, "probe", "give_up")
  /\ UNCHANGED <<lease, guard, starts, found, tries>>

Unlink(p) ==
  /\ LoopsOn(p, "unlink")
  /\ lease' = NoLease
  /\ UNCHANGED <<guard, starts, found>>

\* The finally of acquire: the guard goes; a wrapper without the lease exits.
DropGuard(p) ==
  /\ \/ Moves(p, "hand_over", "owner")
     \/ Moves(p, "give_up", "dead")
  /\ guard' = FALSE
  /\ UNCHANGED <<lease, starts, found, tries>>

\* release(): with the guard held by another, the lease is left to be reclaimed.
TakeReleaseGuard(p) ==
  /\ \/ ~guard /\ Moves(p, "owner", "check")
     \/ guard /\ Moves(p, "owner", "dead")
  /\ guard' = TRUE
  /\ UNCHANGED <<lease, starts, found, tries>>

\* Only the lease with this acquisition's token is removed.
CheckToken(p) ==
  /\ \/ lease = Identity(p) /\ Moves(p, "check", "remove")
     \/ lease # Identity(p) /\ Moves(p, "check", "leave")
  /\ UNCHANGED <<lease, guard, starts, found, tries>>

RemoveLease(p) ==
  /\ Moves(p, "remove", "leave")
  /\ lease' = NoLease
  /\ UNCHANGED <<guard, starts, found, tries>>

LeaveGuard(p) ==
  /\ Moves(p, "leave", "dead")
  /\ guard' = FALSE
  /\ UNCHANGED <<lease, starts, found, tries>>

\* Any process may be killed between two system calls, or simply end.
Dies(p) ==
  /\ Live(p)
  /\ wrap' = [wrap EXCEPT ![p] = "dead"]
  /\ UNCHANGED <<lease, guard, starts, found, tries>>

\* The operator removes a guard nobody is in, as its error message asks, and with it
\* a lease no wrapper can parse.
ClearGuard ==
  /\ \A p \in Pids : ~InGuard(p)
  /\ guard \/ lease = Damaged
  /\ guard' = FALSE
  /\ lease' = IF lease = Damaged THEN NoLease ELSE lease
  /\ UNCHANGED <<starts, wrap, found, tries>>

OwnerNext ==
  \/ ClearGuard
  \/ \E p \in Pids :
       \/ Start(p) \/ TakeGuard(p) \/ Link(p) \/ ReadLease(p) \/ Probe(p) \/ Unlink(p)
       \/ DropGuard(p) \/ TakeReleaseGuard(p) \/ CheckToken(p) \/ RemoveLease(p)
       \/ LeaveGuard(p) \/ Dies(p)

OwnerSpec == OwnerInit /\ [][OwnerNext]_ownerVars

\* A wrapper that runs the thread is the one its lease names, so no two wrappers ever
\* run one thread: whatever dies, however many find the dead owner's lease at once, and
\* whichever pid is used again (acquireThreadOwner, release).
OwnerHoldsLease == \A p \in Pids : wrap[p] \in {"hand_over", "owner"} => lease = Identity(p)

=============================================================================
