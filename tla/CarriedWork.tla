----------------------------- MODULE CarriedWork -----------------------------
(***************************************************************************)
(* Background work carried across the swap of a Claude child               *)
(* (cc-lhc/src/continuity and its callers in wrapper/run.ts).  A seam      *)
(* freezes the open work in a new generation; after the swap every member  *)
(* is adopted, restarted or left to a manifest; the hook of a later prompt *)
(* settles what has ended and tells the model; the capture, reading the    *)
(* transcript, marks as delivered what the model was told; an orderly exit *)
(* stops the restarted monitors and moves what they left.  The wrapper,    *)
(* the hook of a prompt and `cc-lhc tasks stop` are processes of their own *)
(* on one database, each store operation one transaction of it.            *)
(***************************************************************************)
EXTENDS Naturals, Sequences, FiniteSets, FiniteSetsExt

CONSTANTS Works,          \* launches
          MaxSwaps,       \* bound: handoffs to a new session
          MaxGenerations, \* bound: generations allocated
          MaxPrompts,     \* bound: prompts
          MaxResumes      \* bound: starts of the wrapper on the thread after the first

ASSUME WorksAssumption == IsFiniteSet(Works)

VARIABLES
  family,     \* family[w]: shell, agent, monitor, workflow (a wakeup is carried like a workflow)
  item,       \* cc_continuity_items
  result,     \* cc_continuity_results
  gens,       \* cc_continuity_generations
  copies,     \* works with a file under continuity/results
  fences,     \* <<work, generation>>: output files of restarts
  restarts,   \* <<work, generation>>: restarted monitors that run
  inFolder,   \* <<agent, session>>: its transcript is in the folder of the session
  truth,      \* what the work itself has come to
  home,       \* the session that launched it
  noted,      \* works whose end is a line of their session's transcript
  claude,     \* claude[s]: the Claude child of session s: up, paused, gone
  current,    \* the session on the terminal
  wrapper,    \* where the wrapper is
  carry,      \* the generation it carries over and the members left
  hook,       \* the hook process of a prompt
  printed,    \* works named in the transcript and not yet read back
  told,       \* works whose result a prompt has shown
  settle,     \* the wrapper is about to look at the retained host
  signalled,  \* works whose restart `cc-lhc tasks stop` has signalled and not yet recorded
  stamped,    \* works stamped into a generation while open
  late,       \* works stamped into a generation when they had ended
  again,      \* works whose row was deleted and made anew
  used        \* [seams, prompts, starts]: the bounds

carriedStore == <<item, result, gens>>
outputVars == <<copies, fences, restarts, inFolder>>
workVars == <<truth, home, noted, claude, current>>
toldVars == <<printed, told>>
stampVars == <<stamped, late, again>>
asideVars == <<settle, signalled, stampVars, used>>
carriedVars == <<family, carriedStore, outputVars, workVars, wrapper, carry, hook, toldVars, asideVars>>

Families == {"shell", "agent", "monitor", "workflow"}
ClaudeSessions == 1..(MaxSwaps + 1)
GenerationIds == 1..MaxGenerations

\* No row, and the row of a launch: at 0 it has no verified identity (carry mode unqualified).
NoItem == [st |-> "none", gen |-> 0, at |-> 0, fence |-> 0, known |-> FALSE, pin |-> FALSE,
           end |-> "none"]
NewItem == [NoItem EXCEPT !.st = "active"]
NoResult == [to |-> "none", end |-> "none", art |-> "none", note |-> "none"]
NoHook == [pc |-> "off", s |-> 0, todo |-> {}, w |-> {}, wrote |-> FALSE, pend |-> {}]
NoCarry == [members |-> {}, todo |-> {}, w |-> {}]

Ends == {"none", "completed", "failed", "killed", "stopped"}

CarriedTypeOK ==
  /\ family \in [Works -> Families]
  /\ item \in [Works -> [st : {"none", "active", "unknown", "terminal"}, gen : 0..MaxGenerations,
                         at : ({0} \cup ClaudeSessions), fence : 0..MaxGenerations, known : BOOLEAN, pin : BOOLEAN,
                         end : Ends]]
  /\ result \in [Works -> [to : {"none", "pending", "delivered"}, end : Ends,
                           art : {"none", "adopted", "relaunch", "copy"},
                           note : {"none", "final", "resume", "restart"}]]
  /\ gens \in Seq([st : {"open", "closed", "superseded"}, members : SUBSET Works,
                   old : ClaudeSessions, host : {"none", "live", "paused"}])
  /\ copies \subseteq Works
  /\ restarts \subseteq fences /\ fences \subseteq Works \X GenerationIds
  /\ inFolder \subseteq Works \X ClaudeSessions
  /\ truth \in [Works -> {"idle", "runs", "done", "cut", "lost"}]
  /\ home \in [Works -> ({0} \cup ClaudeSessions)]
  /\ noted \subseteq Works
  /\ claude \in [ClaudeSessions -> {"none", "up", "paused", "gone"}]
  /\ current \in ClaudeSessions
  /\ wrapper \in {"down", "idle", "allocate", "seam", "carry", "record", "stop", "clean"}
  /\ carry \in [members : SUBSET Works, todo : SUBSET Works, w : SUBSET Works]
  /\ hook \in [pc : {"off", "reconcile", "helpers", "settle", "record", "attach", "list", "print"},
               s : ({0} \cup ClaudeSessions), todo : SUBSET Works, w : SUBSET Works, wrote : BOOLEAN,
               pend : SUBSET Works]
  /\ printed \subseteq Works /\ told \subseteq Works /\ signalled \subseteq Works
  /\ settle \in BOOLEAN
  /\ stamped \subseteq Works /\ late \subseteq Works /\ again \subseteq Works
  /\ used \in [seams : 0..MaxGenerations, prompts : 0..MaxPrompts, starts : 0..MaxResumes]

CarriedInit ==
  /\ family \in [Works -> Families]
  /\ item = [w \in Works |-> NoItem] /\ result = [w \in Works |-> NoResult] /\ gens = <<>>
  /\ copies = {} /\ fences = {} /\ restarts = {} /\ inFolder = {}
  /\ truth = [w \in Works |-> "idle"] /\ home = [w \in Works |-> 0] /\ noted = {}
  /\ claude = [s \in ClaudeSessions |-> IF s = 1 THEN "up" ELSE "none"] /\ current = 1
  /\ wrapper = "idle" /\ carry = NoCarry /\ hook = NoHook
  /\ printed = {} /\ told = {} /\ settle = FALSE /\ signalled = {}
  /\ stamped = {} /\ late = {} /\ again = {}
  /\ used = [seams |-> 0, prompts |-> 0, starts |-> 0]

------------------------------------------------------------------------------
(* The store.                                                              *)

IsOpen(row) == row.st \in {"active", "unknown"}

\* ownedArtifactOf: what of the row's output a result points at.
ArtifactOf(w, row) ==
  IF row.fence # 0 THEN "relaunch"
  ELSE IF family[w] = "shell" /\ row.at # 0 THEN "adopted" ELSE "none"

\* Mutant: the update does not look whether the row is terminal already.
EndedAgain(row, end) == IF row.st = "none" THEN row ELSE [row EXCEPT !.st = "terminal", !.end = end]

\* terminalizeItem: a terminal row stays as it is.
EndedRow(row, end) == IF IsOpen(row) THEN [row EXCEPT !.st = "terminal", !.end = end] ELSE row

\* insertResult, in the transaction that turns the row of w into `row`: work of a
\* generation leaves a result when it ends.
ResultOf(w, row, note) ==
  IF IsOpen(item[w]) /\ row.st = "terminal" /\ row.gen > 0 /\ result[w].to = "none"
  THEN [to |-> "pending", end |-> row.end, art |-> ArtifactOf(w, row), note |-> note]
  ELSE result[w]

RecordTerminal(w, end, note) ==
  /\ item' = [item EXCEPT ![w] = EndedRow(@, end)]
  /\ result' = [result EXCEPT ![w] = ResultOf(w, EndedRow(item[w], end), note)]
  /\ UNCHANGED gens

\* latestGeneration and retainedHostGeneration: numbers of generations, 0 for none.
Latest == Len(gens)
HostGeneration == LET held == {g \in DOMAIN gens : gens[g].host # "none"}
                  IN IF held = {} THEN 0 ELSE Max(held)
Closed(g) == g \in DOMAIN gens /\ gens[g].st = "closed"

\* The old child that hosts for generation g.
HostUp(g) == claude[gens[g].old] # "gone"
HostPaused == HostGeneration # 0 /\ gens[HostGeneration].host = "paused"

------------------------------------------------------------------------------
(* The children and their work.                                            *)

ChildUp == claude[current] = "up" /\ wrapper \in {"idle", "seam"}

\* A launch acknowledgement is written and read back (openLaunch, recordLaunch).
LaunchWork(w) ==
  /\ ChildUp /\ truth[w] = "idle"
  /\ truth' = [truth EXCEPT ![w] = "runs"]
  /\ home' = [home EXCEPT ![w] = current]
  /\ item' = [item EXCEPT ![w] = NewItem]
  /\ inFolder' = IF family[w] = "agent" THEN inFolder \cup {<<w, current>>} ELSE inFolder
  /\ UNCHANGED <<family, result, gens, copies, fences, restarts, noted, claude, current,
                 wrapper, carry, hook, toldVars, asideVars>>

\* The work ends by itself; a living child on the terminal says so in its transcript. A
\* paused child's shells go on, and so does a workflow the replacement took over.
WorkEnds(w) ==
  /\ truth[w] = "runs"
  /\ \/ claude[home[w]] = "up"
     \/ claude[home[w]] = "paused" /\ family[w] = "shell"
     \/ family[w] = "workflow" /\ claude[current] = "up"
  /\ truth' = [truth EXCEPT ![w] = "done"]
  /\ noted' = IF home[w] = current \/ family[w] = "workflow" THEN noted \cup {w} ELSE noted
  /\ UNCHANGED <<family, carriedStore, outputVars, home, claude, current, wrapper, carry, hook,
                 toldVars, asideVars>>

\* The capture reads the end of work its fold holds open (closeWork, recordTerminal).
SeeEnd(w) ==
  /\ wrapper \in {"idle", "seam"} /\ w \in noted /\ IsOpen(item[w])
  /\ RecordTerminal(w, "completed", "none")
  /\ UNCHANGED <<family, outputVars, workVars, wrapper, carry, hook, toldVars, asideVars>>

\* A restarted monitor exits.
MonitorExits(p) ==
  /\ p \in restarts /\ restarts' = restarts \ {p}
  /\ UNCHANGED <<family, carriedStore, copies, fences, inFolder, workVars, wrapper, carry, hook,
                 toldVars, asideVars>>

\* What is left of the work of session s when its child goes: what has not ended is cut,
\* a shell of a paused child that is killed outright leaves no word.
After(s, outright) ==
  [w \in Works |-> IF truth[w] # "runs" \/ home[w] # s THEN truth[w]
                   ELSE IF family[w] = "workflow" THEN "runs"
                   ELSE IF outright THEN "lost" ELSE "cut"]

------------------------------------------------------------------------------
(* The seam: reconcile, qualify, snapshot.                                  *)

\* reconcileAdoptedShells for one adopted shell; a paused host's exit record may be unreadable.
ShellVerdict(w, readable) ==
  LET row == item[w]
  IN IF HostPaused
     THEN CASE ~row.pin \/ (readable /\ truth[w] = "runs") -> "keep"
            [] row.pin /\ readable /\ truth[w] = "done" -> "completed"
            [] row.pin /\ readable /\ truth[w] \in {"cut", "lost"} -> "failed"
            [] OTHER -> "unknown"
     ELSE CASE truth[w] = "done" -> "completed"
            [] truth[w] = "cut" -> "killed"
            [] OTHER -> IF /\ HostGeneration # 0 /\ ~HostUp(HostGeneration)
                           /\ row.pin => truth[w] # "runs"
                        THEN "unknown" ELSE "keep"

Adopted(w) == family[w] = "shell" /\ item[w].at # 0 /\ IsOpen(item[w])

Reconciled(w, readable) ==
  LET verdict == ShellVerdict(w, readable)
  IN IF ~Adopted(w) \/ verdict = "keep" THEN item[w]
     ELSE IF verdict = "unknown" THEN [item[w] EXCEPT !.st = "unknown"]
     ELSE EndedRow(item[w], verdict)

\* What identifies the work when it is verified in the session on the terminal: the
\* transcript of an agent and the rollout of a monitor are files of one session.
IdentityNow(w) == IF family[w] \in {"agent", "monitor"} THEN current ELSE 1

\* Mutant: a new identity is taken over without a look at the recorded one.
QualifiesAnew(w, row, found, pins) ==
  IF ~IsOpen(row) THEN row
  ELSE IF family[w] = "monitor" /\ row.fence # 0 THEN [row EXCEPT !.st = "active"]
  ELSE IF family[w] = "monitor" /\ ~found THEN EndedRow(row, "failed")
  ELSE IF found
       THEN [row EXCEPT !.st = "active", !.at = IdentityNow(w),
                        !.pin = @ \/ (pins /\ family[w] = "shell")]
  ELSE IF row.at # 0 THEN [row EXCEPT !.st = "unknown"] ELSE row

\* qualifyActiveItems for one row: a restarted monitor is carried as it is; one that cannot
\* be restarted fails; other work is verified, the same as before, or turns unknown.
Qualified(w, row, found, pins) ==
  IF ~IsOpen(row) THEN row
  ELSE IF family[w] = "monitor" /\ row.fence # 0 THEN [row EXCEPT !.st = "active"]
  ELSE IF family[w] = "monitor" /\ ~found THEN EndedRow(row, "failed")
  ELSE IF found /\ row.at \in {0, IdentityNow(w)}
       THEN [row EXCEPT !.st = "active", !.at = IdentityNow(w),
                        !.pin = @ \/ (pins /\ family[w] = "shell")]
  ELSE IF row.at # 0 THEN [row EXCEPT !.st = "unknown"] ELSE row

\* acceptCarryoverAtSeam up to the list the snapshot is made of; it refuses while a row is
\* unknown or open without an identity.
AcceptSeam(readable, found, pins) ==
  LET rows == [w \in Works |-> Qualified(w, Reconciled(w, readable), w \in found, pins)]
      listed == {w \in Works : IsOpen(rows[w])}
  IN /\ wrapper = "idle" /\ claude[current] = "up"
     /\ used.seams < MaxGenerations
     /\ item' = rows
     /\ result' = [w \in Works |-> ResultOf(w, rows[w], "none")]
     /\ settle' = TRUE
     /\ IF \A w \in listed : rows[w].st = "active" /\ rows[w].at # 0
        THEN wrapper' = "allocate" /\ carry' = [NoCarry EXCEPT !.members = listed]
        ELSE UNCHANGED <<wrapper, carry>>
     /\ UNCHANGED <<family, gens, outputVars, workVars, hook, toldVars, signalled, stampVars, used>>

\* allocateGeneration: open generations are superseded, the members stamped.
Allocate ==
  LET g == Latest + 1
  IN /\ wrapper = "allocate" /\ wrapper' = "seam"
     /\ gens' = Append([h \in DOMAIN gens |->
                          [gens[h] EXCEPT !.st = IF @ = "open" THEN "superseded" ELSE @]],
                       [st |-> "open", members |-> carry.members, old |-> current, host |-> "none"])
     /\ item' = [w \in Works |-> IF w \in carry.members THEN [item[w] EXCEPT !.gen = g] ELSE item[w]]
     /\ stamped' = stamped \cup {w \in carry.members : IsOpen(item[w])}
     /\ late' = late \cup {w \in carry.members : item[w].st = "terminal"}
     /\ used' = [used EXCEPT !.seams = @ + 1]
     /\ UNCHANGED <<family, result, outputVars, workVars, carry, hook, toldVars, settle,
                    signalled, again>>

\* The compaction or the swap fails, and the session stays.
SeamFails ==
  /\ wrapper = "seam" /\ wrapper' = "idle" /\ carry' = NoCarry
  /\ UNCHANGED <<family, carriedStore, outputVars, workVars, hook, toldVars, asideVars>>

\* The replacement is on the terminal; killOldChild keeps the old child as the host of the
\* adopted shells: alive when there is nothing else, paused beside other work when every
\* shell's process is known. A probe or the pause may fail, and then the child goes.
SwapChild(keeps) ==
  LET shells == {w \in carry.members : family[w] = "shell"}
      mixed == carry.members # shells
      host == IF keeps /\ shells # {} /\ (mixed => \A w \in shells : item[w].pin)
              THEN (IF mixed THEN "paused" ELSE "live") ELSE "none"
      old == [none |-> "gone", live |-> "up", paused |-> "paused"][host]
  IN /\ wrapper = "seam" /\ claude[current] = "up" /\ current <= MaxSwaps
     /\ current' = current + 1
     /\ claude' = [claude EXCEPT ![current] = old, ![current + 1] = "up"]
     /\ truth' = IF host = "none" THEN After(current, FALSE) ELSE truth
     /\ gens' = [gens EXCEPT ![Latest].host = host]
     /\ printed' \in {printed, {}}
     /\ wrapper' = "carry"
     /\ carry' = [carry EXCEPT !.todo = carry.members]
     /\ UNCHANGED <<family, item, result, outputVars, home, noted, hook, told, asideVars>>

------------------------------------------------------------------------------
(* invokeCarryover: after the swap, member by member.                       *)

Carries(w) == carry' = [carry EXCEPT !.todo = @ \ {w}]

\* The output file of a restart is there when this generation has made the restart already.
NeedsRestart(w) == family[w] = "monitor" /\ item[w].fence = 0 /\ <<w, Latest>> \notin fences

\* Adopted, left to the manifest or carried as it is; or failed: a shell whose output file
\* is gone, a monitor that cannot be resolved or started.
CarryOver(w) ==
  /\ wrapper = "carry" /\ w \in carry.todo /\ Carries(w)
  /\ \/ ~NeedsRestart(w) /\ UNCHANGED <<carriedStore, fences>>
     \/ family[w] = "shell" /\ RecordTerminal(w, "failed", "none") /\ UNCHANGED fences
     \/ /\ NeedsRestart(w) /\ RecordTerminal(w, "failed", "none")
        /\ fences' \in {fences, fences \cup {<<w, Latest>>}}
  /\ UNCHANGED <<family, copies, restarts, inFolder, workVars, wrapper, hook, toldVars, asideVars>>

\* The output file is made, which fails when it is there already, and the command runs.
RestartMonitor(w) ==
  /\ wrapper = "carry" /\ w \in carry.todo /\ NeedsRestart(w)
  /\ fences' = fences \cup {<<w, Latest>>} /\ restarts' = restarts \cup {<<w, Latest>>}
  /\ wrapper' = "record"
  /\ carry' = [carry EXCEPT !.todo = @ \ {w}, !.w = {w}]
  /\ UNCHANGED <<family, carriedStore, copies, inFolder, workVars, hook, toldVars, asideVars>>

\* setRelaunched, unless the output file cannot be verified; the process may not be known.
RecordRestart ==
  /\ wrapper = "record" /\ wrapper' = "carry" /\ carry' = [carry EXCEPT !.w = {}]
  /\ \E w \in carry.w, verified, known \in BOOLEAN :
       item' = IF verified /\ IsOpen(item[w]) /\ item[w].fence = 0
               THEN [item EXCEPT ![w].fence = Latest, ![w].known = known] ELSE item
  /\ UNCHANGED <<family, result, gens, outputVars, workVars, hook, toldVars, asideVars>>

\* closeContinuitySnapshot.
Refused(g) ==
  \E w \in Works :
    /\ item[w].st # "none"
    /\ IF w \in gens[g].members THEN item[w].st = "unknown" ELSE IsOpen(item[w])

CloseSnapshot ==
  /\ wrapper = "carry" /\ carry.todo = {} /\ wrapper' = "idle" /\ carry' = NoCarry
  /\ gens' = IF gens[Latest].st = "open" /\ ~Refused(Latest)
             THEN [gens EXCEPT ![Latest].st = "closed"] ELSE gens
  /\ UNCHANGED <<family, item, result, outputVars, workVars, hook, toldVars, asideVars>>

------------------------------------------------------------------------------
(* The hook of a prompt (executeTasksHook), which may be killed at any step. *)

Prompt ==
  /\ wrapper = "idle" /\ claude[current] = "up" /\ hook.pc = "off" /\ used.prompts < MaxPrompts
  /\ hook' = [NoHook EXCEPT !.pc = "reconcile", !.s = current]
  /\ used' = [used EXCEPT !.prompts = @ + 1]
  /\ UNCHANGED <<family, carriedStore, outputVars, workVars, wrapper, carry, toldVars, settle,
                 signalled, stampVars>>

HookGoes(pc) == hook' = [hook EXCEPT !.pc = pc]

HookReconciles ==
  /\ hook.pc = "reconcile" /\ HookGoes("helpers")
  /\ \E readable \in BOOLEAN :
       /\ item' = [w \in Works |-> Reconciled(w, readable)]
       /\ result' = [w \in Works |-> ResultOf(w, Reconciled(w, readable), "none")]
  /\ UNCHANGED <<family, gens, outputVars, workVars, wrapper, carry, toldVars, asideVars>>

\* carryHelpersFromPreviousSession: from the folder the last handoff left, once its child
\* cannot write there; then settleCarriedWork lists the rows.
HelpersMove ==
  /\ Closed(Latest) /\ gens[Latest].old # hook.s /\ gens[Latest].host # "live"

HookCarriesHelpers ==
  /\ hook.pc = "helpers"
  /\ inFolder' \in {inFolder, IF HelpersMove
                          THEN inFolder \cup {<<w, hook.s>> : w \in {v \in Works : <<v, gens[Latest].old>> \in inFolder}}
                          ELSE inFolder}
  /\ hook' = [hook EXCEPT !.pc = "settle", !.todo = {w \in Works : IsOpen(item[w]) /\ item[w].gen > 0}]
  /\ UNCHANGED <<family, carriedStore, copies, fences, restarts, workVars, wrapper, carry,
                 toldVars, asideVars>>

HandedOver(w) == Closed(item[w].gen)

\* A carried agent with a final answer: the answer goes to a file first, if it can.
HookCopiesAnswer(w) ==
  /\ hook.pc = "settle" /\ w \in hook.todo /\ HandedOver(w)
  /\ family[w] = "agent" /\ truth[w] = "done"
  /\ \E wrote \in BOOLEAN :
       /\ copies' = IF wrote THEN copies \cup {w} ELSE copies
       /\ hook' = [hook EXCEPT !.pc = "record", !.w = {w}, !.wrote = wrote, !.todo = @ \ {w}]
  /\ UNCHANGED <<family, carriedStore, fences, restarts, inFolder, workVars, wrapper, carry,
                 toldVars, asideVars>>

\* Then the row is ended, and the file is attached to the result or removed again.
HookRecordsAnswer(w) ==
  /\ hook.pc = "record" /\ w \in hook.w
  /\ RecordTerminal(w, "completed", "final")
  /\ hook' = [hook EXCEPT !.pc = IF hook.wrote THEN "attach" ELSE "settle",
                          !.w = IF hook.wrote THEN {w} ELSE {},
                          !.pend = IF IsOpen(item[w]) THEN {w} ELSE {}]
  /\ UNCHANGED <<family, outputVars, workVars, wrapper, carry, toldVars, asideVars>>

\* Mutant: the file goes whoever ended the row.
DropsCopyAlways(w) == copies \ {w}

CopiesLeft(w) == IF hook.pend = {w} THEN copies ELSE copies \ {w}

HookAttaches(w) ==
  /\ hook.pc = "attach" /\ w \in hook.w
  /\ result' = IF hook.pend = {w} /\ result[w].to # "none" THEN [result EXCEPT ![w].art = "copy"] ELSE result
  /\ copies' = CopiesLeft(w)
  /\ hook' = [hook EXCEPT !.pc = "settle", !.w = {}, !.wrote = FALSE, !.pend = {}]
  /\ UNCHANGED <<family, item, gens, fences, restarts, inFolder, workVars, wrapper, carry,
                 toldVars, asideVars>>

\* An agent without one: its transcript is copied to the session of the prompt, and the
\* notice says resume or, when it is not there, start again.
HookInterrupts(w) ==
  LET there == <<w, hook.s>> \in inFolder
      source == <<w, item[w].at>> \in inFolder
  IN /\ hook.pc = "settle" /\ w \in hook.todo /\ HandedOver(w)
     /\ family[w] = "agent" /\ truth[w] # "done"
     /\ \E copied \in BOOLEAN :
          /\ copied => there \/ source
          /\ there => copied
          /\ inFolder' = IF copied THEN inFolder \cup {<<w, hook.s>>} ELSE inFolder
          /\ RecordTerminal(w, "killed", IF copied THEN "resume" ELSE "restart")
     /\ hook' = [hook EXCEPT !.todo = @ \ {w}]
     /\ UNCHANGED <<family, copies, fences, restarts, workVars, wrapper, carry, toldVars,
                    asideVars>>

Runs(w) == <<w, item[w].fence>> \in restarts

\* The rest of the loop: a known monitor that has exited ends, other rows are left alone.
HookSettles(w) ==
  /\ hook.pc = "settle" /\ w \in hook.todo /\ (HandedOver(w) => family[w] # "agent")
  /\ IF HandedOver(w) /\ family[w] = "monitor" /\ item[w].st = "active" /\ item[w].known /\ ~Runs(w)
     THEN RecordTerminal(w, "completed", "none") ELSE UNCHANGED carriedStore
  /\ hook' = [hook EXCEPT !.todo = @ \ {w}]
  /\ UNCHANGED <<family, outputVars, workVars, wrapper, carry, toldVars, asideVars>>

HookLists ==
  /\ hook.pc = "settle" /\ hook.todo = {}
  /\ hook' = [hook EXCEPT !.pc = "print", !.pend = {w \in Works : result[w].to = "pending"}]
  /\ UNCHANGED <<family, carriedStore, outputVars, workVars, wrapper, carry, toldVars, asideVars>>

\* The hook's output becomes part of the prompt and a line of the transcript.
HookPrints ==
  /\ hook.pc = "print" /\ hook.s = current /\ claude[current] = "up"
  /\ printed' = printed \cup hook.pend
  /\ told' = told \cup hook.pend
  /\ hook' = NoHook
  /\ UNCHANGED <<family, carriedStore, outputVars, workVars, wrapper, carry, asideVars>>

HookDies ==
  /\ hook.pc # "off" /\ hook' = NoHook
  /\ UNCHANGED <<family, carriedStore, outputVars, workVars, wrapper, carry, toldVars, asideVars>>

\* The capture reads the line back (deliveredResultKeys, markDelivered) and looks at the host.
Deliver(w) ==
  /\ wrapper \in {"idle", "seam"} /\ w \in printed
  /\ printed' = printed \ {w}
  /\ result' = IF result[w].to = "pending" THEN [result EXCEPT ![w].to = "delivered"] ELSE result
  /\ settle' = (settle \/ result[w].to = "pending")
  /\ UNCHANGED <<family, item, gens, outputVars, workVars, wrapper, carry, hook, told, signalled,
                 stampVars, used>>

------------------------------------------------------------------------------
(* The retained host, and `cc-lhc tasks stop`.                              *)

\* Mutant: the host goes whatever it hosts.
NeedsNoHost(w) == FALSE

NeedsHost(w) == Adopted(w)

\* settleRetainedHost: a host that is gone is forgotten, one whose shells have all ended is
\* terminated, which may fail.
SettleHost ==
  LET g == HostGeneration
      s == gens[g].old
  IN /\ settle /\ wrapper # "down" /\ settle' = FALSE
     /\ \/ g = 0 /\ UNCHANGED <<gens, claude, truth>>
        \/ /\ g # 0 /\ HostUp(g) /\ \E w \in Works : NeedsHost(w)
           /\ UNCHANGED <<gens, claude, truth>>
        \/ /\ g # 0 /\ ~HostUp(g)
           /\ gens' = [gens EXCEPT ![g].host = "none"]
           /\ UNCHANGED <<claude, truth>>
        \/ /\ g # 0 /\ HostUp(g) /\ \A w \in Works : ~NeedsHost(w)
           /\ claude' = [claude EXCEPT ![s] = "gone"]
           /\ truth' = After(s, gens[g].host = "paused")
           /\ gens' \in {gens, [gens EXCEPT ![g].host = "none"]}
     /\ UNCHANGED <<family, item, result, outputVars, home, noted, current, wrapper, carry, hook,
                    toldVars, signalled, stampVars, used>>

\* stopItem: the restart of an active row is signalled, then the row is ended.
StopSignals(w) ==
  /\ claude[current] = "up" /\ w \notin signalled
  /\ item[w].st = "active" /\ item[w].known /\ Runs(w)
  /\ restarts' = restarts \ {<<w, item[w].fence>>}
  /\ signalled' = signalled \cup {w}
  /\ UNCHANGED <<family, carriedStore, copies, fences, inFolder, workVars, wrapper, carry, hook,
                 toldVars, settle, stampVars, used>>

StopRecords(w) ==
  /\ w \in signalled /\ signalled' = signalled \ {w}
  /\ RecordTerminal(w, "stopped", "none")
  /\ UNCHANGED <<family, outputVars, workVars, wrapper, carry, hook, toldVars, settle, stampVars,
                 used>>

------------------------------------------------------------------------------
(* The end of the wrapper, and a wrapper that resumes the session.          *)

\* Every child goes: Claude marks the shells it ends, a paused child is killed outright.
AllGone(s) == IF claude[s] = "none" THEN "none" ELSE "gone"
AfterAll(outright) ==
  [w \in Works |-> IF truth[w] # "runs" \/ family[w] = "workflow" THEN truth[w]
                   ELSE IF claude[home[w]] = "paused" \/ outright THEN "lost" ELSE "cut"]

\* The child exits and the wrapper with it; stopRelaunchedMonitors lists the rows.
WrapperExits ==
  /\ wrapper = "idle" /\ claude[current] = "up"
  /\ claude' = [s \in ClaudeSessions |-> AllGone(s)] /\ truth' = AfterAll(FALSE)
  /\ wrapper' = "stop"
  /\ carry' = [NoCarry EXCEPT !.todo = {w \in Works : item[w].st # "none"}]
  /\ UNCHANGED <<family, carriedStore, outputVars, home, noted, current, hook, toldVars, asideVars>>

\* stopRelaunchedMonitors for one row: a known restart that runs is stopped, unless that
\* fails, and the row of one that has exited is ended.
StopMonitor(w) ==
  LET known == family[w] = "monitor" /\ item[w].known /\ item[w].st \in {"active", "terminal"}
  IN /\ wrapper = "stop" /\ w \in carry.todo /\ Carries(w)
     /\ \/ (known => Runs(w) \/ item[w].st = "terminal") /\ UNCHANGED <<carriedStore, restarts>>
        \/ /\ known /\ Runs(w) /\ restarts' = restarts \ {<<w, item[w].fence>>}
           /\ RecordTerminal(w, "stopped", "none")
        \/ known /\ ~Runs(w) /\ RecordTerminal(w, "completed", "none") /\ UNCHANGED restarts
     /\ UNCHANGED <<family, copies, fences, inFolder, workVars, wrapper, hook, toldVars, asideVars>>

\* cleanupThread lists the rows: the open ones are preserved.
CleanBegins ==
  /\ wrapper = "stop" /\ carry.todo = {} /\ wrapper' = "clean"
  /\ carry' = [NoCarry EXCEPT !.todo = {w \in Works : item[w].st = "terminal"},
                              !.members = {w \in Works : IsOpen(item[w])}]
  /\ UNCHANGED <<family, carriedStore, outputVars, workVars, hook, toldVars, asideVars>>

\* What a row's output has to be copied for: a result that points into it.
HasOutput(w) == ArtifactOf(w, item[w]) # "none" /\ result[w].art # "copy"

\* Mutant: a row goes whether or not it has left a result.
GoesAnyway(w) == TRUE

MayGo(w) == item[w].gen > 0 => result[w].to # "none"
Retained(w) == (item[w].known /\ Runs(w)) \/ ~MayGo(w)

\* cleanupThread for one ended row: its output is copied and the result points at the copy,
\* or the row is retained (also where the output is gone or cannot be copied).
CleanCopies(w) ==
  /\ wrapper = "clean" /\ w \in carry.todo /\ carry.w = {}
  /\ item[w].gen > 0 /\ HasOutput(w) /\ ~Retained(w)
  /\ \/ Carries(w) /\ UNCHANGED <<result, copies>>
     \/ /\ copies' = copies \cup {w} /\ result' = [result EXCEPT ![w].art = "copy"]
        /\ carry' = [carry EXCEPT !.todo = @ \ {w}, !.w = {w}]
  /\ UNCHANGED <<family, item, gens, fences, restarts, inFolder, workVars, wrapper, hook,
                 toldVars, asideVars>>

Drop(w) == item' = [item EXCEPT ![w] = NoItem]

\* Then the restart's file goes, and the row.
CleanDrops(w) ==
  /\ wrapper = "clean" /\ w \in carry.w /\ carry' = [carry EXCEPT !.w = {}]
  /\ fences' \in {fences, fences \ {<<w, item[w].fence>>}} /\ restarts \subseteq fences'
  /\ Drop(w)
  /\ UNCHANGED <<family, result, gens, copies, restarts, inFolder, workVars, wrapper, hook,
                 toldVars, asideVars>>

\* A row with no output to keep goes at once, and one that must stay stays.
CleanOther(w) ==
  /\ wrapper = "clean" /\ w \in carry.todo /\ carry.w = {} /\ Carries(w)
  /\ Retained(w) \/ item[w].gen = 0 \/ ~HasOutput(w)
  /\ IF Retained(w) THEN UNCHANGED item ELSE Drop(w)
  /\ UNCHANGED <<family, result, gens, outputVars, workVars, wrapper, hook, toldVars, settle,
                 signalled, stampVars, used>>

\* removeObsoleteGenerations, and the wrapper is down.
CleanEnds ==
  /\ wrapper = "clean" /\ carry.todo = {} /\ carry.w = {} /\ wrapper' = "down" /\ carry' = NoCarry
  /\ gens' = IF carry.members = {} /\ \A w \in Works : item[w].st = "none" THEN <<>> ELSE gens
  /\ settle' = FALSE
  /\ UNCHANGED <<family, item, result, outputVars, workVars, hook, toldVars, signalled,
                 stampVars, used>>

\* The wrapper dies between two steps, and its children with it.
WrapperCrashes ==
  /\ wrapper # "down" /\ wrapper' = "down" /\ carry' = NoCarry /\ settle' = FALSE
  /\ claude' = [s \in ClaudeSessions |-> AllGone(s)]
  /\ \E outright \in BOOLEAN : truth' = AfterAll(outright)
  /\ UNCHANGED <<family, carriedStore, outputVars, home, noted, current, hook, toldVars, signalled,
                 stampVars, used>>

\* A wrapper resumes the session; its capture reads the transcript from the start, and
\* a launch without a row becomes a row (recordLaunch), with the end that is noted.
WrapperResumes ==
  LET unknown == {w \in Works : home[w] = current /\ item[w].st = "none"}
  IN /\ wrapper = "down" /\ used.starts < MaxResumes
     /\ wrapper' = "idle" /\ claude' = [claude EXCEPT ![current] = "up"]
     /\ used' = [used EXCEPT !.starts = @ + 1]
     /\ item' = [w \in Works |-> IF w \notin unknown THEN item[w]
                                ELSE IF w \in noted THEN EndedRow(NewItem, "completed")
                                ELSE NewItem]
     /\ again' = again \cup unknown
     /\ UNCHANGED <<family, result, gens, outputVars, truth, home, noted, current, carry, hook,
                    toldVars, settle, signalled, stamped, late>>

------------------------------------------------------------------------------
HookStep(w) ==
  \/ HookCopiesAnswer(w) \/ HookRecordsAnswer(w) \/ HookAttaches(w)
  \/ HookInterrupts(w) \/ HookSettles(w)

CarriedNext ==
  \/ \E w \in Works :
       \/ LaunchWork(w) \/ WorkEnds(w) \/ SeeEnd(w)
       \/ CarryOver(w) \/ RestartMonitor(w) \/ HookStep(w) \/ Deliver(w)
       \/ StopSignals(w) \/ StopRecords(w)
       \/ StopMonitor(w) \/ CleanCopies(w) \/ CleanDrops(w) \/ CleanOther(w)
  \/ \E p \in Works \X GenerationIds : MonitorExits(p)
  \/ \E readable, pins \in BOOLEAN, found \in SUBSET Works : AcceptSeam(readable, found, pins)
  \/ Allocate \/ SeamFails
  \/ \E keeps \in BOOLEAN : SwapChild(keeps)
  \/ RecordRestart \/ CloseSnapshot
  \/ Prompt \/ HookReconciles \/ HookCarriesHelpers \/ HookLists \/ HookPrints \/ HookDies
  \/ SettleHost \/ WrapperExits \/ CleanBegins \/ CleanEnds \/ WrapperCrashes \/ WrapperResumes

CarriedSpec == CarriedInit /\ [][CarriedNext]_carriedVars

------------------------------------------------------------------------------
(* Properties.                                                              *)

\* Carried work leaves a result when it ends, whoever ends it (the hook, the capture, the
\* seam, the carryover, a stop or the exit), and no row goes before its result is there:
\* also where a row had ended when the generation stamped it.
WorkLeavesResult ==
  \A w \in Works :
    /\ w \in stamped => IsOpen(item[w]) \/ result[w].to # "none"
    /\ w \in late => item[w].st # "none" \/ result[w].to # "none"

\* What a result points at is a file: the output of a restart until it is copied, and the
\* copy from then on, whichever of hook and cleanup made it and wherever they were stopped.
OutputIsThere ==
  \A w \in Works :
    /\ result[w].art = "copy" => w \in copies
    /\ result[w].art = "relaunch" => \E p \in fences : p[1] = w

\* The hook, the capture, the seam and a stop may all see the end of one work; the first
\* decides, and the row and the result say the same of it.
OutcomesAgree ==
  \A w \in Works \ again :
    item[w].st = "terminal" /\ result[w].to # "none" => result[w].end = item[w].end

\* A monitor is restarted once, however many handoffs, failed seams and starts of the
\* wrapper follow: a second restart would run the command twice at the same time.
OneRestart == \A w \in Works : Cardinality({p \in restarts : p[1] = w}) <= 1

\* A shell that still runs under the child of an earlier session is not ended by the
\* wrapper before its row is, unless the wrapper itself ends.
HostOutlivesShells ==
  [][\A w \in Works :
       Adopted(w) /\ truth[w] = "runs" /\ home[w] # current /\ wrapper' \notin {"stop", "down"}
       => truth'[w] \in {"runs", "done"}]_carriedVars
=============================================================================
