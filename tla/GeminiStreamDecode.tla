------------------------- MODULE GeminiStreamDecode -------------------------
(***************************************************************************)
(* A Gemini stream decoded into hub events                                 *)
(* (packages/engine/src/dialect/gemini-stream.ts, gemini-stream-runs.ts).  *)
(*                                                                         *)
(* Gemini tells parts, not blocks: parts of one kind that follow one       *)
(* another are one run, told as one block, and a signature ends a run.  A  *)
(* call may be split, its later parts unnamed.  `run` is the run that      *)
(* stands open, `life` the stream's lifecycle, `out` the events not yet    *)
(* pulled and `heard` what the reader has pulled.  Parts are numbered, and *)
(* an event bears its part's number: `drawn` are the numbers of the parts  *)
(* that were signed, `last` the kind of the part that came last.           *)
(***************************************************************************)
EXTENDS HubEvents, Sequences, SequencesExt

CONSTANTS
  MaxParts,     \* bound: parts the upstream tells
  PerChunk,     \* bound: parts to one chunk
  SignsSplits   \* whether a call that goes on unnamed may be signed

GeminiAssumption == MaxParts \in Nat /\ PerChunk \in Nat /\ SignsSplits \in BOOLEAN

VARIABLES run, life, upstream, drawn, out, heard, spoken
vars == <<run, life, upstream, drawn, out, heard, spoken>>

NoRun == [open |-> None, nextIndex |-> 0]

Init ==
  /\ run = NoRun
  /\ life = [began |-> FALSE, ended |-> FALSE, sawTool |-> FALSE]
  /\ upstream = [parts |-> 0, last |-> None, over |-> "no", finished |-> FALSE]
  /\ drawn = {}
  /\ out = <<>>
  /\ heard = Silence
  /\ spoken = [i \in {} |-> {}]

-----------------------------------------------------------------------------
(* A part is its kind, whether it is signed, and its number. *)
PartKinds == {"text", "thought", "call", "split", "search", "media", "bare"}

BlockKind(part) ==
  CASE part.kind = "thought" -> "thinking"
    [] part.kind \in {"call", "split", "search"} -> "tool"
    [] OTHER -> "text"

At(part, e) == [part |-> part.number, kindOf |-> part.kind] @@ e

DeltasOf(part) ==
  CASE part.kind = "search" -> <<>>
    [] part.kind \in {"call", "split"} -> <<"json-args">>
    [] part.kind = "thought" -> IF part.signed THEN <<"thinking", "signature">> ELSE <<"thinking">>
    [] OTHER -> IF part.signed THEN <<"annotation", "text", "signature">> ELSE <<"annotation", "text">>

DeltaEvents(part, i) ==
  LET deltas == DeltasOf(part) IN [m \in DOMAIN deltas |-> At(part, BlockDelta(i, deltas[m]))]

SealsItsRun(part) == part.signed \/ part.kind = "search"

(* A named call, a search and a signed part each begin a run. *)
Continues(r, part) ==
  /\ r.open # None /\ ~r.open.sealed /\ ~part.signed
  /\ part.kind \notin {"search", "call"}
  /\ r.open.kind = BlockKind(part)

ClosedRun(r) ==
  IF r.open = None THEN [run |-> r, events |-> <<>>]
  ELSE [run |-> [open |-> None, nextIndex |-> r.open.index + 1],
        events |-> <<BlockClose(r.open.index)>>]

OpenedRun(r, part) ==
  [run |-> [r EXCEPT !.open = [index |-> r.nextIndex, kind |-> BlockKind(part),
                               sealed |-> SealsItsRun(part)]],
   events |-> <<At(part, BlockOpen(r.nextIndex, BlockKind(part)))>> \o DeltaEvents(part, r.nextIndex)]

BlockEvents(r, part) ==
  CASE part.kind = "media" -> [run |-> r, events |-> <<At(part, Media)>>]
    [] part.kind = "bare" /\ part.signed -> ClosedRun(r)
    [] part.kind = "bare" /\ ~part.signed -> [run |-> r, events |-> <<>>]
    [] Continues(r, part) -> [run |-> r, events |-> DeltaEvents(part, r.open.index)]
    [] OTHER -> LET closed == ClosedRun(r)
                    opened == OpenedRun(closed.run, part)
                IN [run |-> opened.run, events |-> closed.events \o opened.events]

IsCall(part) == part.kind \in {"call", "split"}

FoldedParts(r, parts) ==
  FoldLeft(LAMBDA acc, part :
             LET next == BlockEvents(acc.run, part)
             IN [run |-> next.run, events |-> acc.events \o next.events],
           [run |-> r, events |-> <<>>], parts)

Finished(r, parts, sawTool, stop) ==
  LET closed == ClosedRun(r) IN
  [run |-> closed.run,
   events |-> Append(closed.events, MessageEnd(IF sawTool THEN "tool_use" ELSE stop))]

GeminiStops == {"end", "max_output", "refusal"}

-----------------------------------------------------------------------------
Reads == out = <<>> /\ upstream.over = "no"

Numbered(kinds, signs) ==
  [m \in DOMAIN kinds |-> [kind |-> kinds[m], signed |-> signs[m], number |-> upstream.parts + m]]

Before(parts, m) == IF m = 1 THEN upstream.last ELSE parts[m - 1]

(* An unnamed part goes on with the call before it, and Gemini signs       *)
(* neither its searches nor its media.                                     *)
Sendable(parts) ==
  \A m \in DOMAIN parts :
    /\ parts[m].signed => parts[m].kind \notin {"search", "media", "split"}
    /\ parts[m].kind = "split" =>
         /\ Before(parts, m) # None /\ IsCall(Before(parts, m))
         /\ Before(parts, m).signed => SignsSplits

Chunk(parts, finish) ==
  /\ Reads
  /\ upstream' = [parts |-> upstream.parts + Len(parts), finished |-> upstream.finished \/ finish # None,
                  last |-> IF parts = <<>> THEN upstream.last ELSE Last(parts), over |-> "no"]
  /\ IF life.ended THEN UNCHANGED <<run, life, drawn, out>>
     ELSE LET folded == FoldedParts(run, parts)
              sawTool == life.sawTool \/ \E m \in DOMAIN parts : IsCall(parts[m])
              ending == IF finish = None THEN [run |-> folded.run, events |-> <<>>]
                        ELSE Finished(folded.run, parts, sawTool, finish)
          IN /\ run' = ending.run
             /\ life' = [began |-> TRUE, ended |-> finish # None, sawTool |-> sawTool]
             /\ drawn' = drawn \cup {parts[m].number : m \in {n \in DOMAIN parts : parts[n].signed}}
             /\ out' = (IF life.began THEN <<>> ELSE <<MessageBegin>>) \o folded.events \o ending.events
  /\ UNCHANGED <<heard, spoken>>

(* A stream that stops without a finish is closed and ended. *)
UnfinishedTerminal ==
  IF ~life.began \/ life.ended THEN <<>> ELSE ClosedRun(run).events \o <<MessageEnd("end")>>

Stop ==
  /\ Reads
  /\ upstream' = [upstream EXCEPT !.over = "ended"]
  /\ out' = UnfinishedTerminal
  /\ UNCHANGED <<run, life, drawn, heard, spoken>>

(* Reading the source throws: the reader is thrown to, and told no end. *)
Throws ==
  /\ Reads
  /\ upstream' = [upstream EXCEPT !.over = "threw"]
  /\ UNCHANGED <<run, life, drawn, out, heard, spoken>>

Bare(e) ==
  CASE e.type = "media" -> Media
    [] e.type = "block-open" -> BlockOpen(e.index, e.kind)
    [] e.type = "block-delta" -> BlockDelta(e.index, e.delta)
    [] OTHER -> e

(* The reader notes which parts it was told in each block. *)
Yield ==
  /\ out # <<>>
  /\ LET e == Head(out) IN
     /\ heard' = Hear(heard, Bare(e))
     /\ spoken' = IF e.type \in {"block-open", "block-delta"}
                  THEN (e.index :> ((IF e.index \in DOMAIN spoken THEN spoken[e.index] ELSE {})
                                    \cup {<<e.part, e.kindOf>>})) @@ spoken
                  ELSE spoken
  /\ out' = Tail(out)
  /\ UNCHANGED <<run, life, upstream, drawn>>

Next ==
  \/ \E count \in 0..PerChunk, finish \in GeminiStops \cup {None} :
       /\ upstream.parts + count <= MaxParts
       /\ \E kinds \in [1..count -> PartKinds], signs \in [1..count -> BOOLEAN] :
            Sendable(Numbered(kinds, signs)) /\ Chunk(Numbered(kinds, signs), finish)
  \/ Stop \/ Throws
  \/ Yield

Fairness == WF_vars(Yield)

Spec == Init /\ [][Next]_vars /\ Fairness

-----------------------------------------------------------------------------
TypeOK ==
  /\ run.open # None => run.open.index = run.nextIndex
  /\ life.ended => life.began /\ run.open = None

Hub == INSTANCE HubStream WITH Indices <- 0..MaxParts, Width <- 1, Contiguous <- TRUE

(* Parts that come in any order and any number to a chunk are told as a    *)
(* hub stream of one block at a time.                                      *)
HubSpec == Hub!Spec

(* No run of text is read across a boundary the model drew: a block that   *)
(* tells a part tells none that came after a signature that followed it.   *)
NoRunCrossesASignature ==
  \A i \in DOMAIN spoken : \A first, second \in spoken[i] :
    \A boundary \in drawn : ~(first[1] <= boundary /\ boundary < second[1])

(* A message finished by the upstream stops for a tool's sake just when    *)
(* the reader was told of a call.                                          *)
ToolUseMeansACall ==
  heard.last.type = "message-end" /\ upstream.finished =>
    (heard.last.stop = "tool_use")
      = (\E i \in DOMAIN spoken : \E told \in spoken[i] : told[2] \in {"call", "split"})

(* A call's block start carries the call's name. *)
CallsAreNamed ==
  \A i \in DOMAIN spoken :
    (\E told \in spoken[i] : told[2] = "split") => \E told \in spoken[i] : told[2] = "call"

(* A stream the upstream began and ended is told an end, finish or none. *)
EndIsOwed == upstream.over = "ended" /\ life.began
EndIsTold == heard.over = "ended"
EveryStreamIsEnded == EndIsOwed ~> EndIsTold
=============================================================================
