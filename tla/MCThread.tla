------------------------------ MODULE MCThread ------------------------------
(* Small instances of the record and its view, from threads with a past. *)
EXTENDS ThreadView

\* A full band of two messages, room for one rendered turn and one chunk each.
TightProfile == [full |-> 2, smooth |-> 2, detailed |-> 2, brief |-> 1, protect |-> 1, lower |-> 8]

SmallSizes == [turn |-> 2, part |-> 1, detailed |-> 2, brief |-> 1, elder |-> 1, gap |-> 1]

Said(kind, t, step) ==
  [kind |-> kind, turn |-> t, step |-> step, keep |-> 0, state |-> "live", rev |-> 0]

Closed(at) == [status |-> "closed", closed |-> at, deleted |-> FALSE, ready |-> TRUE]

TurnOf(t) == <<Said("user_prompt", t, -1), Said("assistant_text", t, 0), Said("turn_end", 0, -1)>>

\* What is left of each bound.
Left(rollbacks, mutations, lapses, compacts, items) ==
  [rollbacks |-> MaxRollbacks - rollbacks, mutations |-> MaxMutations - mutations,
   lapses |-> MaxLapses - lapses, compacts |-> MaxCompacts - compacts, items |-> items]

\* Two turns are closed and derived, and the chunk of the first is closed; the
\* third is open, before its tool call and after.
TwoTurns ==
  /\ turn = <<Closed(3), Closed(6), NewTurn>>
  /\ chunk = <<[status |-> "closed", members |-> <<1>>, tokens |-> 2],
              [status |-> "open", members |-> <<2>>, tokens |-> 2]>>
  /\ summary = <<Pending(1)>>
  /\ job = <<NewJob(1, 1)>>
  /\ handler = {}
  /\ \/ event = TurnOf(1) \o TurnOf(2) \o <<Said("user_prompt", 3, -1)>>
        /\ count = Left(1, 0, 1, 1, 1)
     \/ event = TurnOf(1) \o TurnOf(2) \o <<Said("user_prompt", 3, -1), Said("tool_call", 3, 0)>>
        /\ count = Left(0, 1, 0, 1, 1)

\* One turn is closed, and the open one is three steps long.
LongTurn ==
  LET past == TurnOf(1) \o <<Said("user_prompt", 2, -1), Said("tool_call", 2, 0), Said("tool_result", 2, 0),
                             Said("assistant_text", 2, 1), Said("assistant_text", 2, 2)>> IN
  /\ turn = <<Closed(3), NewTurn>>
  /\ chunk = <<[status |-> "open", members |-> <<1>>, tokens |-> 2]>>
  /\ summary = <<>> /\ job = <<>> /\ handler = {}
  /\ \/ event = Append(past, Said("assistant_text", 2, 3)) /\ count = Left(0, 1, 0, 2, 0)
     \/ event = past /\ count = Left(1, 0, 0, 2, 0)

\* The only closed turn was rolled back while the summary of its chunk was made.
Emptied ==
  /\ event = <<[Said("user_prompt", 1, -1) EXCEPT !.state = "hidden"],
               [Said("assistant_text", 1, 0) EXCEPT !.state = "hidden"],
               [Said("assistant_text", 1, 1) EXCEPT !.state = "hidden"],
               Said("turn_end", 0, -1), Said("rollback", 0, -1)>>
  /\ turn = <<[Closed(4) EXCEPT !.deleted = TRUE, !.ready = FALSE], NewTurn>>
  /\ chunk = <<[status |-> "closed", members |-> <<1>>, tokens |-> 3]>>
  /\ summary = <<>>
  /\ job = <<[NewJob(1, 1) EXCEPT !.status = "claimed", !.attempt = 1]>>
  /\ handler = {[item |-> 1, attempt |-> 1, read |-> {<<1, 0>>, <<2, 0>>, <<3, 0>>}]}
  /\ count = Left(0, 0, 1, 1, 1)

MCInit ==
  /\ TwoTurns \/ LongTurn \/ Emptied
  /\ view = {} /\ boundary = 0 /\ prepared = {}

MCSpec == MCInit /\ [][Next]_vars
=============================================================================
