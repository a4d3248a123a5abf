-------------------------- MODULE TranscriptCapture --------------------------
(***************************************************************************)
(* How the transcript a Claude child writes reaches the thread's record     *)
(* (cc-lhc/src/rollout/watcher.ts, rollout/torn-tail.ts and                 *)
(* intake/session.ts).  The watcher reads whole lines and queues them in    *)
(* batches; the batches are committed one after another; a new capture of   *)
(* the same file reads it from the end of its rebuilt prefix again, and     *)
(* drops what it knows by content until it meets something new.  A line is  *)
(* one event, known to the record by its id (the uuid of the line).         *)
(***************************************************************************)
EXTENDS Naturals, Sequences, SequencesExt

CONSTANTS MaxLines,     \* bound: lines of the transcript
          Contents      \* what a line may say

ASSUME TranscriptAssumption == MaxLines \in Nat \ {0} /\ Contents # {}

VARIABLES
  text,       \* text[i]: what line i says
  base,       \* lines of the rebuilt prefix
  file,       \* the transcript: id and state of every line
  mine,       \* the last line of the file belongs to the living child
  author,     \* the child is alive
  whole,      \* lines whose text was written to its end
  refused,    \* a repair left a torn tail as it was
  up,         \* the wrapper runs
  phase,      \* of the capture: binding, ready, degraded
  caught,     \* its first read has happened
  offset,     \* lines it has read
  watching,   \* its watcher reads
  stopping,   \* it is being replaced by a rebuild
  queue,      \* batches read and not committed
  window,     \* replayWindowActive
  seen,       \* the signatures it knows
  signed,     \* the signatures in the lineage database
  recorded    \* the ids in the record

fileVars == <<file, mine, author, whole, refused>>
lineVars == <<text, base>>
captureVars == <<phase, caught, offset, watching, stopping, queue, window, seen>>
recordVars == <<signed, recorded>>
transcriptVars == <<fileVars, lineVars, captureVars, recordVars, up>>

LineIds == 1..MaxLines
LineStates == {"torn", "bare", "line", "glued", "bad"}
Ended(l) == l.st \in {"line", "bad"}

TranscriptTypeOK ==
  /\ text \in [LineIds -> Contents] /\ base \in 0..MaxLines
  /\ file \in Seq([id : LineIds, st : LineStates])
  /\ {mine, author, refused, up, caught, watching, stopping, window} \subseteq BOOLEAN
  /\ whole \subseteq LineIds
  /\ phase \in {"none", "binding", "ready", "degraded"}
  /\ offset \in 0..Len(file)
  /\ queue \in Seq(Seq([id : LineIds, st : {"line", "bad"}]))
  /\ {seen, signed} \subseteq SUBSET Contents
  /\ recorded \subseteq LineIds

\* What startCaptureSession of a known session begins with.
CaptureStarts ==
  /\ phase' = "binding" /\ caught' = FALSE /\ offset' = base
  /\ watching' = TRUE /\ stopping' = FALSE /\ queue' = <<>>
  /\ window' = TRUE /\ seen' = signed'

TranscriptInit ==
  /\ text \in [LineIds -> Contents]
  /\ base \in 0..1
  /\ file = [i \in 1..base |-> [id |-> i, st |-> "line"]]
  /\ mine = FALSE /\ author = FALSE /\ whole = {} /\ refused = FALSE /\ up = FALSE
  /\ phase = "none" /\ caught = FALSE /\ offset = 0 /\ watching = FALSE /\ stopping = FALSE
  /\ queue = <<>> /\ window = FALSE /\ seen = {}
  /\ signed = {text[i] : i \in 1..base}
  /\ recorded = {}

--------------------------------------------------------------------------
\* The child writes; it may die between any two writes.

LastLine == file[Len(file)]
Torn == file # <<>> /\ ~Ended(LastLine)
NewTail(st) == [file EXCEPT ![Len(file)].st = st]

\* A line begins; after a tail that is not its own it becomes one line with that tail.
WriteBegins ==
  /\ author /\ ~(mine /\ Torn)
  /\ \/ Torn /\ file' = NewTail("glued")
     \/ /\ ~Torn /\ Len(file) < MaxLines
        /\ file' = Append(file, [id |-> Len(file) + 1, st |-> "torn"])
  /\ mine' = TRUE
  /\ UNCHANGED <<lineVars, author, whole, refused, up, captureVars, recordVars>>

WriteEnds ==
  /\ author /\ mine /\ Torn
  /\ \/ LastLine.st = "torn" /\ file' = NewTail("bare") /\ whole' = whole \cup {LastLine.id}
     \/ LastLine.st = "bare" /\ file' = NewTail("line") /\ UNCHANGED whole
     \/ LastLine.st = "glued" /\ file' = NewTail("bad") /\ UNCHANGED whole
  /\ UNCHANGED <<lineVars, mine, author, refused, up, captureVars, recordVars>>

ChildDies ==
  /\ author /\ author' = FALSE
  /\ UNCHANGED <<lineVars, file, mine, whole, refused, up, captureVars, recordVars>>

--------------------------------------------------------------------------
\* The launch: the tail is repaired, then the capture and the child start.

\* Mutant: the fragment goes without a look whether it is a whole record.
TrimmedTail == IF Torn THEN Front(file) ELSE file

\* repairTornTranscriptTail: a whole record gets its newline, a fragment goes to a side file.
RepairedTail ==
  IF ~Torn THEN file
  ELSE IF LastLine.st = "bare" THEN NewTail("line")
  ELSE Front(file)

\* With the file held open, or no way to tell, a torn tail is left as it is.
LaunchWrapper ==
  /\ ~up /\ up' = TRUE
  /\ \/ ~author /\ file' = RepairedTail /\ UNCHANGED refused
     \/ UNCHANGED file /\ refused' = (refused \/ Torn)
  /\ author' = TRUE /\ mine' = FALSE
  /\ UNCHANGED <<lineVars, whole, recordVars>>
  /\ CaptureStarts

\* The wrapper dies with its queue; the child may outlive it.
WrapperDies ==
  /\ up /\ up' = FALSE
  /\ phase' = "none" /\ caught' = FALSE /\ offset' = 0 /\ watching' = FALSE /\ stopping' = FALSE
  /\ queue' = <<>> /\ window' = FALSE /\ seen' = {}
  /\ UNCHANGED <<lineVars, fileVars, recordVars>>

--------------------------------------------------------------------------
\* Watcher and batches.

\* The lines up to the last newline, after those already read.
Unread == SubSeq(file, offset + 1, IF Torn THEN Len(file) - 1 ELSE Len(file))
Queued == IF Unread = <<>> THEN queue ELSE Append(queue, Unread)

\* attemptCoherentSnapshot and deliver, of the first read and of a later one.
ReadMore ==
  /\ watching /\ (~caught \/ Unread # <<>>)
  /\ caught' = TRUE
  /\ offset' = offset + Len(Unread)
  /\ queue' = Queued
  /\ UNCHANGED <<lineVars, fileVars, recordVars, up, phase, watching, stopping, window, seen>>

\* The file shrank, was replaced or rewritten, or cannot be read: intake halts for good.
WatchFails ==
  /\ watching
  /\ watching' = FALSE /\ queue' = <<>> /\ phase' = "degraded"
  /\ UNCHANGED <<lineVars, fileVars, recordVars, up, caught, offset, stopping, window, seen>>

\* Line k of a batch says something: inside the replay window, only from the first line on
\* whose content the capture does not know (filterReplayEvents).
Known(l) == l.st = "bad" \/ text[l.id] \in seen
Passes(lines, k) == lines[k].st = "line" /\ (window => \E n \in 1..k : ~Known(lines[n]))
Sent(lines) == {lines[k].id : k \in {n \in DOMAIN lines : Passes(lines, n)}}

\* Mutant: a batch that could not be recorded is logged and forgotten.
PhaseAfterAnyway(bad, stored, signatures) == IF bad \/ ~signatures THEN "degraded" ELSE phase

\* The phase after a batch: a malformed line, a failed intake or failed signatures degrade.
PhaseAfter(bad, stored, signatures) ==
  IF bad \/ ~stored \/ ~signatures THEN "degraded" ELSE phase

\* The intake records all that is sent or none of it, and skips what it has; the signatures
\* are stored after it.
Commits(sent, stored, signatures) ==
  LET new == IF stored THEN sent \ recorded ELSE {}
      says == {text[id] : id \in new}
  IN /\ recorded' = recorded \cup new
     /\ seen' = seen \cup says
     /\ signed' = IF signatures THEN signed \cup says ELSE signed

\* processEmissions of the first batch in the queue.
CommitBatch ==
  /\ up /\ queue # <<>>
  /\ queue' = Tail(queue)
  /\ window' = (window /\ Sent(Head(queue)) = {})
  /\ \E stored, signatures \in BOOLEAN :
       /\ Commits(Sent(Head(queue)), stored, signatures)
       /\ phase' = PhaseAfter(\E l \in ToSet(Head(queue)) : l.st = "bad", stored, signatures)
  /\ UNCHANGED <<lineVars, fileVars, up, caught, offset, watching, stopping>>

\* The first read and every batch so far are behind it, and nothing has degraded it.
BecomesReady ==
  /\ phase = "binding" /\ caught /\ queue = <<>> /\ ~stopping
  /\ phase' = "ready"
  /\ UNCHANGED <<lineVars, fileVars, recordVars, up, caught, offset, watching, stopping, queue,
                 window, seen>>

\* rebuildCaptureFromTranscript stops the capture: one last read, then its batches.
RebuildStopsCapture ==
  /\ phase \in {"binding", "degraded"} /\ ~stopping
  /\ stopping' = TRUE /\ watching' = FALSE
  /\ queue' = IF watching THEN Queued ELSE queue
  /\ offset' = IF watching THEN offset + Len(Unread) ELSE offset
  /\ UNCHANGED <<lineVars, fileVars, recordVars, up, phase, caught, window, seen>>

RebuildStarts ==
  /\ stopping /\ queue = <<>>
  /\ UNCHANGED <<lineVars, fileVars, recordVars, up>>
  /\ CaptureStarts

TranscriptNext ==
  \/ WriteBegins \/ WriteEnds \/ ChildDies \/ LaunchWrapper \/ WrapperDies
  \/ ReadMore \/ WatchFails \/ CommitBatch \/ BecomesReady
  \/ RebuildStopsCapture \/ RebuildStarts

TranscriptSpec == TranscriptInit /\ [][TranscriptNext]_transcriptVars

--------------------------------------------------------------------------
\* Properties.

\* Whatever was read, failed, crashed or was read again: what a line says that a ready
\* capture has passed is in the record, under that line or under one that says the same
\* (enqueueEmissions, flushBatch, filterReplayEvents).
ReadyHasNoGap ==
  phase = "ready" =>
    LET waiting == UNION {ToSet(b) : b \in ToSet(queue)}
        passed == {file[i] : i \in base + 1..offset} \ waiting
        said == {text[id] : id \in recorded \cup 1..base}
    IN \A l \in passed : l.st = "line" /\ text[l.id] \in said

\* A line whose text the child had written stays a line of the transcript through the death
\* of the child, the repair of the tail and the next child's writes, unless the repair was
\* refused (repairTornTranscriptTail).
WholeLinesSurvive ==
  refused \/ \A id \in whole : \E i \in DOMAIN file : file[i].id = id /\ file[i].st \in {"bare", "line"}
=============================================================================
