--------------------------- MODULE ClaudeSession ---------------------------
(***************************************************************************)
(* The sidecar session of claude-lhc (src/packages/claude-lhc/src/         *)
(* session.ts): the inputs of a host, the generation of the Claude CLI     *)
(* that runs them, and the compacts that replace the generation.           *)
(*                                                                         *)
(* A prompt goes to the CLI at once, or is held while a compact runs, is   *)
(* due or is asked for; a /compact waits until everything before it is     *)
(* answered.  The pump handles the messages of the live generation one at  *)
(* a time and awaits the capture of each; hooks, the pulls of the CLI and  *)
(* the frames of the host come in between.  A rebuild takes long: it is    *)
(* one step to begin and one to end, and everything may happen in between. *)
(*                                                                         *)
(* The CLI is external: what it does is what session.ts relies on and the  *)
(* fake of test/input-order.property.test.ts does.  It reports the         *)
(* lifecycle of every prompt.                                              *)
(***************************************************************************)
EXTENDS Naturals, Integers, Sequences, SequencesExt, FiniteSets

CONSTANTS MaxInputs,    \* inputs the host sends
          MaxStops,     \* mid-turn compacts (each sends a note of its own)
          MaxFailures,  \* rebuilds that fail
          MaxReads,     \* controls after which the context is read again
          MaxLag,       \* messages of the CLI the pump has not handled
          Trigger,      \* the compact trigger, in requests
          MaxContext    \* context sizes told apart

ASSUME SessionBounds ==
  /\ {MaxInputs, MaxStops, MaxFailures, MaxReads} \subseteq Nat
  /\ MaxLag \in Nat \ {0} /\ Trigger \in Nat \ {0}
  /\ MaxContext \in Nat /\ Trigger <= MaxContext

VARIABLES kinds,    \* what the host has sent: "prompt" or "compact"
          side,     \* the fields of ClaudeLhcSession
          job,      \* the compact that is running
          pump,     \* the message the pump awaits the capture of
          cli,      \* the live generation
          read,     \* whether a context read is on its way (readWindow)
          answers,  \* the inputs whose result the host has got, in order
          started,  \* the prompts a CLI has started, in order
          spent     \* [stops, failures, reads]

sessionVars == <<kinds, side, job, pump, cli, read, answers, started, spent>>

Prompts == 1..MaxInputs
Notes == (MaxInputs + 1)..(MaxInputs + MaxStops)
NoTurn == [stage |-> "none", labels |-> <<>>, uuids |-> <<>>]
NoJob == [by |-> "none", id |-> 0, labels |-> <<>>, pump |-> FALSE]
NoMessage == [t |-> "none", id |-> 0, n |-> 0, labels |-> <<>>]
Reading(n) == [NoMessage EXCEPT !.t = "assistant", !.n = n]
Lifecycle(state, id) == [NoMessage EXCEPT !.t = state, !.id = id]
Result(terminal, labels) == [NoMessage EXCEPT !.t = terminal, !.labels = labels]

\* #compactFloor: null, "unread" or the first reading after a compact.
NoFloor == -1
Unread == -2

NewCli(input, context, stopped) ==
  [input |-> input, before |-> 0, pulled |-> <<>>, turn |-> NoTurn, out |-> <<>>, context |-> context,
   base |-> context, stopped |-> stopped, reread |-> FALSE]

SessionInit ==
  /\ kinds = <<>>
  /\ side = [inputs |-> <<>>, sent |-> [i \in Prompts \cup Notes |-> "no"], seen |-> FALSE, due |-> FALSE,
             compacting |-> FALSE, stopping |-> FALSE, midTurnFailed |-> FALSE, turnOpen |-> FALSE,
             advancing |-> FALSE, last |-> 0, floor |-> NoFloor, inputEnded |-> FALSE, closed |-> FALSE]
  /\ job = NoJob
  /\ pump = NoMessage
  /\ cli \in {NewCli(<<>>, 0, <<>>), NewCli(<<>>, Trigger, <<>>)}
  /\ read = FALSE
  /\ answers = <<>>
  /\ started = <<>>
  /\ spent = [stops |-> 0, failures |-> 0, reads |-> 0]

-----------------------------------------------------------------------------
(* What several handlers call.  A world is the part of the state they      *)
(* change: the session's fields, its generation and its compact.           *)

World == [side |-> side, cli |-> cli, job |-> job]
Becomes(w) == side' = w.side /\ cli' = w.cli /\ job' = w.job

NoneSent(s) == \A i \in DOMAIN s.sent : s.sent[i] = "no"

CliHoldsUnstarted(s) == s.seen /\ \E i \in DOMAIN s.sent : s.sent[i] = "sent"

\* Mutant: a started prompt is left to its lifecycle message.
SettledLater(s) == s

\* What a result leaves of #sent: the prompts the CLI still holds.
Settled(s) ==
  [s EXCEPT !.sent = [i \in DOMAIN s.sent |-> IF s.seen /\ s.sent[i] = "sent" THEN "sent" ELSE "no"]]

\* Mutant: the first reading after a compact is forgotten.
PastTriggerAgain(s) == s.last >= Trigger

PastTrigger(s) == s.last >= Trigger /\ s.last > s.floor

EndIfIdle(w) ==
  IF w.side.inputEnded /\ w.side.inputs = <<>> /\ NoneSent(w.side) /\ ~ w.side.compacting
  THEN [w EXCEPT !.side.closed = TRUE] ELSE w

Send(w, id) == [w EXCEPT !.side.sent[id] = "sent", !.cli.input = Append(@, id)]

Compacts(w, by, id, labels, waits) ==
  [w EXCEPT !.side.compacting = TRUE, !.job = [by |-> by, id |-> id, labels |-> labels, pump |-> waits]]

MayAdvance(s) == ~ s.closed /\ NoneSent(s) /\ ~ s.compacting /\ ~ s.stopping

\* One round of the loop of #advance.  A prompt that is sent ends the loop; a compact
\* holds it (advancing) until its rebuild is over.
Advances(w, waits) ==
  LET id == Head(w.side.inputs)
      taken == [w EXCEPT !.side.inputs = Tail(@)]
      held == [taken EXCEPT !.side.advancing = TRUE]
      over == [w EXCEPT !.side.advancing = FALSE]
  IN IF ~ MayAdvance(w.side) \/ w.side.inputs = <<>> THEN EndIfIdle(over)
     ELSE IF kinds'[id] = "compact" THEN Compacts(held, "manual", id, <<>>, waits)
     ELSE IF w.side.due /\ ~ w.side.turnOpen
          THEN Compacts([held EXCEPT !.side.due = FALSE], "send", id, <<>>, waits)
     ELSE [Send(taken, id) EXCEPT !.side.advancing = FALSE]

Advance(w, waits) == IF w.side.advancing THEN w ELSE Advances(w, waits)

-----------------------------------------------------------------------------
(* The host.  Its frames are handled one at a time: an input waits while a  *)
(* control is answered.                                                     *)

\* Mutant: a prompt waits behind other inputs only.
HoldsBehind(s) == s.inputs # <<>>

Holds(s) == s.inputs # <<>> \/ s.compacting \/ s.stopping \/ s.due

PushUser(kind) ==
  /\ ~ read /\ ~ side.inputEnded /\ Len(kinds) < MaxInputs
  /\ kinds' = Append(kinds, kind)
  /\ LET id == Len(kinds) + 1
         w == IF kind = "compact" \/ Holds(side)
              THEN [World EXCEPT !.side.inputs = Append(@, id)] ELSE Send(World, id)
     IN Becomes(Advance(w, FALSE))
  /\ UNCHANGED <<pump, read, answers, started, spent>>

EndInput ==
  /\ ~ read /\ ~ side.inputEnded
  /\ Becomes(EndIfIdle([World EXCEPT !.side.inputEnded = TRUE]))
  /\ UNCHANGED <<kinds, pump, read, answers, started, spent>>

\* setModel, a model in the flag settings, and setCompactPolicy read the context again.
ReadAgain ==
  /\ ~ read /\ spent.reads < MaxReads
  /\ read' = TRUE
  /\ spent' = [spent EXCEPT !.reads = @ + 1]
  /\ UNCHANGED <<kinds, side, job, pump, cli, answers, started>>

ReadArrives(usable) ==
  /\ read /\ read' = FALSE
  /\ LET past == usable /\ cli.context >= Trigger
     IN /\ side' = [side EXCEPT !.due = IF usable THEN past ELSE @, !.last = IF past THEN cli.context ELSE @]
        /\ cli' = [cli EXCEPT !.reread = @ \/ past]
  /\ UNCHANGED <<kinds, job, pump, answers, started, spent>>

-----------------------------------------------------------------------------
(* The CLI of the live generation.                                          *)

IsNote(id) == id \in Notes
Emits(messages) == cli.out \o messages
MayEmit == Len(cli.out) < MaxLag
NextContext == IF cli.context < MaxContext THEN cli.context + 1 ELSE cli.context
Lifecycles(state, ids) == [i \in DOMAIN ids |-> Lifecycle(state, ids[i])]

Pull ==
  /\ cli.before = 0 /\ cli.input # <<>>
  /\ cli' = [cli EXCEPT !.input = Tail(@), !.before = Head(cli.input)]
  /\ side' = [side EXCEPT !.turnOpen = @ \/ ~ IsNote(Head(cli.input))]
  /\ UNCHANGED <<kinds, job, pump, read, answers, started, spent>>

Pulled ==
  /\ cli.before # 0 /\ MayEmit
  /\ cli' = [cli EXCEPT !.before = 0, !.pulled = Append(@, cli.before),
                        !.out = Emits(<<Lifecycle("queued", cli.before)>>)]
  /\ UNCHANGED <<kinds, side, job, pump, read, answers, started, spent>>

\* A request of the turn: the first one of a prompt, or one after a tool call.
Request(tool) ==
  LET id == Head(cli.pulled)
      starts == cli.turn.stage = "none"
      labels == IF ~ starts THEN cli.turn.labels ELSE IF IsNote(id) THEN cli.stopped ELSE <<id>>
      said == IF starts THEN <<Lifecycle("started", id)>> ELSE <<>>
  IN /\ MayEmit
     /\ cli.turn.stage = "work" \/ (starts /\ cli.pulled # <<>>)
     /\ cli' = [cli EXCEPT !.pulled = IF starts THEN Tail(@) ELSE @,
                           !.turn = [stage |-> IF tool THEN "tool" ELSE "finish", labels |-> labels,
                                     uuids |-> IF starts THEN <<id>> ELSE @.uuids],
                           !.context = NextContext,
                           !.out = Emits(said \o <<Reading(NextContext)>>)]
     /\ started' = IF starts /\ ~ IsNote(id) THEN Append(started, id) ELSE started
     /\ UNCHANGED <<kinds, side, job, pump, read, answers, spent>>

\* The turn ends, or a stop of the hook ends it; an interrupt ends a stopped turn otherwise.
TurnEnds(terminal) ==
  /\ MayEmit
  /\ cli.turn.stage = (IF terminal = "result" THEN "finish" ELSE "stopped")
  /\ LET said == IF terminal = "hook_stopped" THEN "hook_stopped" ELSE "result"
     IN cli' = [cli EXCEPT !.turn = NoTurn,
                           !.out = Emits(<<Result(said, cli.turn.labels)>> \o Lifecycles("completed", cli.turn.uuids))]
  /\ UNCHANGED <<kinds, side, job, pump, read, answers, started, spent>>

-----------------------------------------------------------------------------
(* PostToolUse.                                                             *)

MidTurnDue ==
  ~ side.compacting /\ ~ side.stopping /\ ~ side.midTurnFailed /\ (side.due \/ PastTrigger(side))

\* The turn goes on, with all the prompts the CLI holds or with none.
Folds(folds) ==
  LET ids == IF folds THEN cli.pulled ELSE <<>>
      left == IF folds THEN <<>> ELSE cli.pulled
      turn == [cli.turn EXCEPT !.stage = "work", !.labels = @ \o ids, !.uuids = @ \o ids]
  IN /\ cli' = [cli EXCEPT !.pulled = left, !.turn = turn, !.out = Emits(Lifecycles("started", ids))]
     /\ started' = started \o ids

\* A tool is over only after the pump has handled a first lifecycle message of the session;
\* beyond the bound no boundary is safe.
PostToolUse(safe, folds) ==
  /\ MayEmit
  /\ cli.turn.stage = "tool" /\ side.seen
  /\ IF MidTurnDue /\ ~ CliHoldsUnstarted(side) /\ safe /\ spent.stops < MaxStops
     THEN /\ side' = [side EXCEPT !.stopping = TRUE, !.due = FALSE]
          /\ cli' = [cli EXCEPT !.turn.stage = "stopped"]
          /\ spent' = [spent EXCEPT !.stops = @ + 1]
          /\ UNCHANGED started
     ELSE /\ side' = [side EXCEPT !.due = @ \/ (MidTurnDue /\ CliHoldsUnstarted(side))]
          /\ Folds(folds)
          /\ UNCHANGED spent
  /\ UNCHANGED <<kinds, job, pump, read, answers>>

-----------------------------------------------------------------------------
(* The pump.                                                                *)

Message == Head(cli.out)
PumpTakes == pump = NoMessage /\ ~ job.pump /\ cli.out # <<>>
Handled == [World EXCEPT !.cli.out = Tail(@)]

OnLifecycle ==
  /\ PumpTakes /\ Message.t \in {"queued", "started", "completed"}
  /\ UNCHANGED <<kinds, pump, read, answers, started, spent>>
  /\ LET id == Message.id
         now == IF side.sent[id] = "no" \/ Message.t = "completed" THEN "no"
                ELSE IF Message.t = "started" THEN "started" ELSE side.sent[id]
     IN Becomes(Advance([Handled EXCEPT !.side.seen = TRUE, !.side.sent[id] = now], TRUE))

OnAssistant ==
  /\ PumpTakes /\ Message.t = "assistant"
  /\ Becomes([Handled EXCEPT !.side.turnOpen = TRUE, !.side.last = Message.n,
                             !.side.floor = IF @ = Unread THEN Message.n ELSE @])
  /\ UNCHANGED <<kinds, pump, read, answers, started, spent>>

OnResult ==
  /\ PumpTakes /\ Message.t \in {"result", "hook_stopped"}
  /\ LET w == [Handled EXCEPT !.side.stopping = FALSE]
     IN IF side.stopping /\ Message.t = "hook_stopped"
        THEN Becomes(Compacts(w, "mid", 0, Message.labels, TRUE)) /\ UNCHANGED pump
        ELSE Becomes([w EXCEPT !.side.midTurnFailed = FALSE]) /\ pump' = Message
  /\ UNCHANGED <<kinds, read, answers, started, spent>>

DueCompact(s) == ~ s.compacting /\ (s.due \/ PastTrigger(s))

\* The capture of the result is done: the turn is over, and a compact that is due runs
\* before the host gets the result, unless the CLI holds a prompt it would start.
ResultCaptured ==
  LET over == Settled([side EXCEPT !.turnOpen = FALSE])
      due == DueCompact(side)
      w == [World EXCEPT !.side = [over EXCEPT !.due = @ /\ side.compacting]]
      waits == [w EXCEPT !.side.due = @ \/ due]
  IN /\ pump # NoMessage /\ ~ job.pump
     /\ pump' = NoMessage
     /\ kinds' = kinds
     /\ IF due /\ ~ CliHoldsUnstarted(over)
        THEN Becomes(Compacts(w, "turn", 0, pump.labels, TRUE)) /\ answers' = answers
        ELSE Becomes(Advance(waits, TRUE)) /\ answers' = answers \o pump.labels
     /\ UNCHANGED <<read, started, spent>>

-----------------------------------------------------------------------------
(* The rebuild.                                                             *)

\* The old query is closed: a prompt it was about to be given is lost with it.
Adopt ==
  [World EXCEPT !.side = [@ EXCEPT !.due = FALSE, !.floor = Unread, !.last = 0, !.compacting = FALSE],
                !.cli = NewCli(cli.input, cli.base, job.labels),
                !.job = NoJob]

KeepsGeneration ==
  [World EXCEPT !.side.compacting = FALSE, !.side.midTurnFailed = @ \/ job.by = "mid",
                !.cli.stopped = job.labels,
                !.job = NoJob]

\* What the caller of the rebuild does when it is over.
Continues(w) ==
  IF job.by = "turn" THEN Advance(w, TRUE)
  ELSE IF job.by = "mid" THEN Send([w EXCEPT !.side = Settled(w.side)], MaxInputs + spent.stops)
  ELSE IF job.by = "send" THEN EndIfIdle([Send(w, job.id) EXCEPT !.side.advancing = FALSE])
  ELSE Advances(w, job.pump)

\* What the host is told when it is over.
Answered == IF job.by = "turn" THEN job.labels ELSE IF job.by = "manual" THEN <<job.id>> ELSE <<>>

Rebuilt(adopted) ==
  /\ job.by # "none"
  /\ adopted \/ spent.failures < MaxFailures
  /\ spent' = [spent EXCEPT !.failures = IF adopted THEN @ ELSE @ + 1]
  /\ kinds' = kinds
  /\ Becomes(Continues(IF adopted THEN Adopt ELSE KeepsGeneration))
  /\ answers' = answers \o Answered
  /\ read' = (read /\ ~ adopted)
  /\ UNCHANGED <<pump, started>>

SessionStep ==
  \/ \E kind \in {"prompt", "compact"} : PushUser(kind)
  \/ EndInput
  \/ ReadAgain
  \/ \E usable \in BOOLEAN : ReadArrives(usable)
  \/ Pull
  \/ Pulled
  \/ \E tool \in BOOLEAN : Request(tool)
  \/ \E terminal \in {"result", "hook_stopped", "interrupted"} : TurnEnds(terminal)
  \/ \E safe, folds \in BOOLEAN : PostToolUse(safe, folds)
  \/ OnLifecycle
  \/ OnAssistant
  \/ OnResult
  \/ ResultCaptured
  \/ \E adopted \in BOOLEAN : Rebuilt(adopted)

SessionNext == ~ side.closed /\ SessionStep
SessionSpec == SessionInit /\ [][SessionNext]_sessionVars

-----------------------------------------------------------------------------
(* Properties.                                                              *)

\* Hosts pair results with inputs in order: every input is answered once and in the order
\* it was sent, prompts of one turn together, a /compact only when all before it are; and
\* the CLIs start every prompt once and in that order, whatever generations are replaced.
InputOrder ==
  /\ \A i \in DOMAIN answers : answers[i] = i
  /\ \A i, j \in DOMAIN started : i < j => started[i] < started[j]

\* A session in which nothing is on its way has answered everything it was sent, and has
\* closed if its input ended: no held input waits for a wake-up that never comes.
Quiet ==
  /\ job = NoJob /\ pump = NoMessage /\ ~ read
  /\ cli.input = <<>> /\ cli.before = 0 /\ cli.pulled = <<>> /\ cli.turn = NoTurn /\ cli.out = <<>>
QuietMeansAnswered ==
  (Quiet \/ side.closed) => /\ Len(answers) = Len(kinds) /\ side.inputs = <<>>
                            /\ side.inputEnded => side.closed

\* An automatic compact follows new context: a generation that a compact started is replaced
\* by another one only after a request that told more than its first, or when a control had
\* the context read again.
NewContextFirst ==
  [][ (job = NoJob /\ job'.by \in {"turn", "mid", "send"} /\ side.floor # NoFloor /\ ~ cli.reread)
      => cli.context >= cli.base + 2 ]_sessionVars
=============================================================================
