---------------------------- MODULE StreamCommit ----------------------------
(***************************************************************************)
(* How far an upstream answer is read before the caller is owed a byte.     *)
(* A walk tries its children in turn; each child's event stream is held to   *)
(* its first event under a bound, and what that event says decides between    *)
(* committing to the child, trying the next and keeping a fault.  A committed *)
(* answer is relayed as it comes, cut at its terminator, or read whole.       *)
(***************************************************************************)
EXTENDS Naturals, Sequences

CONSTANTS
    Children,   \* how many children the router holds
    MaxChunks   \* bound: chunks one upstream writes

CommitAssumption == Children \in Nat \ {0} /\ MaxChunks \in Nat

(* A chunk stops inside an event, or ends one: a comment, an event of the    *)
(* answer, an error a sibling may cure, the caller's own fault, the          *)
(* terminator.                                                              *)
Chunks == {"part", "note", "data", "rate", "fault", "done"}
ErrorEvents == {"rate", "fault"}

VARIABLES
    wants,       \* what the caller asked for: a stream or one whole body
    answerAt,    \* the child being tried
    answerPhase, \* where its attempt stands
    shape,       \* what the upstream's headers say it carries
    way,         \* how the committed answer is carried
    answerSent,  \* the chunks this child's upstream wrote
    up,          \* whether its upstream still writes
    read,        \* how many of the chunks were read
    bodies,      \* the children whose upstream body is still held
    answerBound, \* whether the first event's bound is running
    down,        \* the chunks handed to the caller, each with its child
    caller       \* what the caller has been told

answerVars == <<wants, answerAt, answerPhase, shape, way, answerSent, up, read,
    bodies, answerBound, down, caller>>

Kids == 1..Children
Taken == SubSeq(answerSent, 1, read)
Named(chunks) == [i \in DOMAIN chunks |-> <<answerAt, chunks[i]>>]
Opened == \E i \in 1..read : answerSent[i] # "part"

-----------------------------------------------------------------------------
(* The upstream.                                                           *)

Writes(chunk) ==
    /\ answerAt \in Kids /\ up = "open" /\ answerAt \in bodies /\ Len(answerSent) < MaxChunks
    /\ answerSent' = Append(answerSent, chunk)
    /\ UNCHANGED <<wants, answerAt, answerPhase, shape, way, up, read, bodies,
                   answerBound, down, caller>>

Ends ==
    /\ answerAt \in Kids /\ up = "open" /\ answerAt \in bodies
    /\ up' = "ended"
    /\ UNCHANGED <<wants, answerAt, answerPhase, shape, way, answerSent, read,
                   bodies, answerBound, down, caller>>

Breaks ==
    /\ answerAt \in Kids /\ up = "open" /\ answerAt \in bodies
    /\ up' = "died"
    /\ UNCHANGED <<wants, answerAt, answerPhase, shape, way, answerSent, read,
                   bodies, answerBound, down, caller>>

-----------------------------------------------------------------------------
(* One attempt, to the latch.                                              *)

(* The next child, or a refusal that names them all.                       *)
MovesToTheNextChild ==
    IF answerAt < Children
      THEN /\ answerAt' = answerAt + 1 /\ answerPhase' = "sending" /\ UNCHANGED caller
           /\ answerSent' = <<>> /\ read' = 0 /\ up' = "unsent"
      ELSE /\ answerAt' = Children + 1 /\ answerPhase' = "over" /\ caller' = "refused"
           /\ UNCHANGED <<answerSent, read, up>>

CannotSend ==
    /\ answerPhase = "sending"
    /\ MovesToTheNextChild
    /\ UNCHANGED <<wants, shape, way, bodies, answerBound, down>>

(* An event stream is latched under its bound; anything else is committed   *)
(* as it stands.                                                           *)
Answers(carries) ==
    /\ answerPhase = "sending"
    /\ shape' = carries
    /\ up' = "open" /\ bodies' = bodies \union {answerAt}
    /\ IF carries = "events" THEN answerPhase' = "latched" /\ answerBound' = TRUE /\ UNCHANGED way
       ELSE answerPhase' = "carried" /\ way' = "text" /\ UNCHANGED answerBound
    /\ UNCHANGED <<wants, answerAt, answerSent, read, down, caller>>

HoldsAChunk ==
    /\ answerPhase = "latched" /\ up # "died" /\ ~Opened /\ read < Len(answerSent)
    /\ read' = read + 1
    /\ UNCHANGED <<wants, answerAt, answerPhase, shape, way, answerSent, up,
                   bodies, answerBound, down, caller>>

LetGoOf == bodies' = bodies \ {answerAt} /\ answerBound' = FALSE

(* A body that dies unopened, or outlasts the bound, is a child nothing was *)
(* reached at.                                                             *)
DiesUnopened ==
    /\ answerPhase = "latched" /\ up = "died" /\ ~Opened
    /\ LetGoOf /\ MovesToTheNextChild
    /\ UNCHANGED <<wants, shape, way, down>>

SilenceAfter ==
    /\ answerPhase = "latched" /\ answerBound /\ ~Opened
    /\ LetGoOf /\ MovesToTheNextChild
    /\ UNCHANGED <<wants, shape, way, down>>

(* Mutant: an error is read only where one chunk carries the event.        *)
FirstChunkErrs == read = 1 /\ Taken[1] \in ErrorEvents

FirstEventErrs == Opened /\ answerSent[read] \in ErrorEvents

(* An error that opens the stream: a sibling may cure it, or the caller is  *)
(* handed the fault and nothing after it.                                  *)
ErrorBeforeCommit ==
    /\ answerPhase = "latched" /\ FirstEventErrs
    /\ LetGoOf
    /\ IF answerSent[read] = "rate" THEN MovesToTheNextChild /\ UNCHANGED down
       ELSE /\ down' = down \o Named(Taken)
            /\ answerPhase' = "over" /\ caller' = "closed"
            /\ UNCHANGED <<answerAt, answerSent, up, read>>
    /\ UNCHANGED <<wants, shape, way>>

(* How the caller is carried an event stream: one whole answer gathered     *)
(* where the upstream speaks Responses and none was asked streamed, a chat   *)
(* stream cut at its terminator where the dialects are one, or a relay.      *)
Ways == (IF wants = "whole" THEN {"gathered"} ELSE {}) \union {"relayed", "cut"}

EnqueueHeld == Named(Taken)

(* A cut stream looks for its terminator only when its first bytes are data. *)
CutsAt(chunk) == way = "cut" /\ chunk = "done" /\ answerSent[1] # "note"

Commits ==
    /\ answerPhase = "latched"
    /\ Opened \/ (up = "ended" /\ read = Len(answerSent))
    /\ ~FirstEventErrs
    /\ way' \in Ways
    /\ answerPhase' = "carried" /\ answerBound' = FALSE
    /\ IF way' = "gathered" THEN UNCHANGED <<down, caller>>
       ELSE down' = down \o EnqueueHeld /\ caller' = "reading"
    /\ UNCHANGED <<wants, answerAt, shape, answerSent, up, read, bodies>>

-----------------------------------------------------------------------------
(* The committed answer.                                                   *)

Relaying == answerPhase = "carried" /\ way \in {"relayed", "cut"}
Gathering == answerPhase = "carried" /\ way \in {"gathered", "text"}
HasMore == up # "died" /\ read < Len(answerSent)
AtEnd == up = "ended" /\ read = Len(answerSent)
WasCut == read > 0 /\ CutsAt(answerSent[read])

RelaysAChunk ==
    /\ Relaying /\ HasMore /\ ~WasCut
    /\ read' = read + 1
    /\ down' = Append(down, <<answerAt, answerSent[read + 1]>>)
    /\ UNCHANGED <<wants, answerAt, answerPhase, shape, way, answerSent, up,
                   bodies, answerBound, caller>>

(* Mutant: a relay ends at its terminator alone.                           *)
ClosesAtTheTerminator ==
    /\ Relaying /\ WasCut
    /\ LetGoOf
    /\ answerPhase' = "over" /\ caller' = "closed"
    /\ UNCHANGED <<wants, answerAt, shape, way, answerSent, up, read, down>>

(* The stream ended, or its terminator passed: the caller's is closed.     *)
Closes ==
    /\ Relaying /\ (AtEnd \/ WasCut)
    /\ LetGoOf
    /\ answerPhase' = "over" /\ caller' = "closed"
    /\ UNCHANGED <<wants, answerAt, shape, way, answerSent, up, read, down>>

(* A connection that dies here travels on as a truncated stream.           *)
ReadingOnFails ==
    /\ Relaying /\ up = "died" /\ ~WasCut
    /\ LetGoOf
    /\ answerPhase' = "over" /\ caller' = "truncated"
    /\ UNCHANGED <<wants, answerAt, shape, way, answerSent, up, read, down>>

Cancel ==
    /\ Relaying
    /\ LetGoOf
    /\ answerPhase' = "over" /\ caller' = "left"
    /\ UNCHANGED <<wants, answerAt, shape, way, answerSent, up, read, down>>

GathersAChunk ==
    /\ Gathering /\ HasMore
    /\ read' = read + 1
    /\ UNCHANGED <<wants, answerAt, answerPhase, shape, way, answerSent, up,
                   bodies, answerBound, down, caller>>

(* A terminal error among gathered events answers for the whole.           *)
CodexTerminalError ==
    /\ answerPhase = "carried" /\ way = "gathered" /\ read > 0
    /\ answerSent[read] \in ErrorEvents
    /\ LetGoOf
    /\ answerPhase' = "over" /\ caller' = "error"
    /\ UNCHANGED <<wants, answerAt, shape, way, answerSent, up, read, down>>

(* The whole was read: it is translated, or no answer was among it.        *)
AnswersWhole ==
    /\ Gathering /\ AtEnd
    /\ LetGoOf
    /\ answerPhase' = "over" /\ caller' = "whole"
    /\ down' = down \o Named(Taken)
    /\ UNCHANGED <<wants, answerAt, shape, way, answerSent, up, read>>

(* A death while it is read whole is met outside the attempt's guard, and   *)
(* crosses the walk as a throw.                                            *)
Throws ==
    /\ Gathering /\ up = "died"
    /\ LetGoOf
    /\ answerPhase' = "over" /\ caller' = "thrown"
    /\ UNCHANGED <<wants, answerAt, shape, way, answerSent, up, read, down>>

-----------------------------------------------------------------------------

AnswerInit ==
    /\ wants \in {"stream", "whole"}
    /\ answerAt = 1 /\ answerPhase = "sending" /\ shape = "none" /\ way = "none"
    /\ answerSent = <<>> /\ up = "unsent" /\ read = 0 /\ bodies = {} /\ answerBound = FALSE
    /\ down = <<>> /\ caller = "waiting"

Reads == HoldsAChunk \/ RelaysAChunk \/ GathersAChunk
AnswerSettles ==
    \/ DiesUnopened \/ ErrorBeforeCommit \/ Commits \/ Closes \/ ReadingOnFails
    \/ CodexTerminalError \/ AnswersWhole \/ Throws

AnswerNext ==
    \/ CannotSend \/ \E carries \in {"events", "json"} : Answers(carries)
    \/ (\E chunk \in Chunks : Writes(chunk)) \/ Ends \/ Breaks
    \/ Reads \/ AnswerSettles \/ SilenceAfter \/ Cancel

(* Reads come back, sends are answered and the bound runs out; an upstream  *)
(* owes nothing, but the transport ends a silence between two chunks.       *)
AnswerFairness ==
    /\ WF_answerVars(Reads \/ AnswerSettles) /\ WF_answerVars(SilenceAfter)
    /\ WF_answerVars(CannotSend \/ \E carries \in {"events", "json"} : Answers(carries))

AnswerSpec == AnswerInit /\ [][AnswerNext]_answerVars /\ AnswerFairness

-----------------------------------------------------------------------------

(* Every attempt stands at one place, and reads no further than was written. *)
CommitTypeOK ==
    /\ answerAt \in 1..Children + 1
    /\ answerPhase \in {"sending", "latched", "carried", "over"}
    /\ answerSent \in Seq(Chunks) /\ read \in 0..Len(answerSent)
    /\ up \in {"unsent", "open", "ended", "died"} /\ (up = "unsent" => answerSent = <<>>)
    /\ caller \notin {"waiting", "reading"} <=> answerPhase = "over"

(* The caller hears one child, from its first chunk on and in order: what    *)
(* was held for classification is lost to nobody, and nothing of a child      *)
(* the walk moved past is among it.                                         *)
OneChildSpeaks ==
    /\ Len(down) <= Len(answerSent)
    /\ \A i \in DOMAIN down : down[i] = <<answerAt, answerSent[i]>>
    /\ answerPhase = "carried" /\ caller = "reading" => Len(down) = read

(* The walk holds the body of the child it is at, and of no other: a child   *)
(* it gave up on leaves no connection open, nor does an answer that is over. *)
AbandonedIsLetGo == bodies \subseteq (IF answerPhase \in {"latched", "carried"} THEN {answerAt} ELSE {})

(* The bound counts towards the first event alone: an answer that has begun  *)
(* is never cut by it.                                                      *)
TheBoundEndsAtTheFirstEvent == answerBound <=> answerPhase = "latched"

(* A stream a sibling could have served is not begun by an error: a caller   *)
(* hears a curable error only behind something the child had said before.    *)
NoStreamOpensWithARateLimit ==
    \A i \in DOMAIN down : down[i][2] = "rate" /\ shape = "events" =>
        \E j \in 1..i-1 : down[j][2] # "part"

(* The five together: what the caller hears is one child's, whole, and never *)
(* opens with an error a sibling could have cured.                          *)
AnswersComeFromOneChild ==
    CommitTypeOK /\ OneChildSpeaks /\ AbandonedIsLetGo /\ TheBoundEndsAtTheFirstEvent
      /\ NoStreamOpensWithARateLimit

(* What must not last: a child held to its first event, and a relay whose   *)
(* upstream is through with it.                                             *)
EndIsOwed == answerPhase = "latched" \/ (answerPhase = "carried" /\ up # "open")

(* A child that dies before the caller was owed a byte hands the turn on.   *)
(* The code departs from this (README, Departures).                         *)
ADeathUnheardMovesOn == caller # "thrown"

(* Anything after the terminator of a chat stream is withheld.             *)
(* The code departs from this (README, Departures).                        *)
NothingAfterTheTerminator ==
    way = "cut" => \A i \in DOMAIN down : down[i][2] = "done" => i = Len(down)

=============================================================================
