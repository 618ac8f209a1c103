----------------------------- MODULE HubEvents -----------------------------
(***************************************************************************)
(* The events every dialect's stream is decoded into and encoded from      *)
(* (packages/engine/src/dialect/hub.ts, HubStreamEvent), and what a reader *)
(* who has heard some of them knows: which blocks stand open, which were   *)
(* ever opened, and whether the stream is over.                            *)
(*                                                                         *)
(* Texts, arguments and usage are left out: an event is its type, its      *)
(* block's index and the kind of what it opens or adds.                    *)
(***************************************************************************)
EXTENDS Naturals, FiniteSets, Functions, TLC

CONSTANT None   \* undefined

Kinds == {"text", "thinking", "tool"}
Deltas == {"text", "thinking", "json-args", "signature", "annotation"}

(* What may be added to a block of each kind. *)
Fits(kind, delta) ==
  CASE kind = "text" -> delta \in {"text", "signature", "annotation"}
    [] kind = "thinking" -> delta \in {"thinking", "signature"}
    [] kind = "tool" -> delta \in {"json-args", "signature"}

MessageBegin == [type |-> "message-begin"]
BlockOpen(i, kind) == [type |-> "block-open", index |-> i, kind |-> kind]
BlockDelta(i, delta) == [type |-> "block-delta", index |-> i, delta |-> delta]
BlockClose(i) == [type |-> "block-close", index |-> i]
Media == [type |-> "media"]
MessageEnd(stop) == [type |-> "message-end", stop |-> stop]
StreamError == [type |-> "stream-error"]

IsBlockEvent(e) == e.type \in {"block-open", "block-delta", "block-close"}
IsTerminal(e) == e.type \in {"message-end", "stream-error"}

Nothing == [type |-> "nothing"]
NoBlocks == [i \in {} |-> "text"]

(* A reader that has heard nothing. *)
Silence == [begun |-> FALSE, open |-> NoBlocks, seen |-> {}, last |-> Nothing, over |-> "no"]

(* A table with one more entry, or another one under the same key. *)
Entered(table, key, entry) ==
  [k \in DOMAIN table \cup {key} |-> IF k = key THEN entry ELSE table[k]]

(* The reader hears e and takes it at its word: nothing here asks whether  *)
(* the event was due.                                                      *)
Hear(h, e) ==
  LET told == [h EXCEPT !.last = e] IN
  CASE e.type = "message-begin" -> [told EXCEPT !.begun = TRUE]
    [] e.type = "block-open" ->
         [told EXCEPT !.open = Entered(@, e.index, e.kind), !.seen = @ \cup {e.index}]
    [] e.type = "block-close" -> [told EXCEPT !.open = Restrict(@, DOMAIN @ \ {e.index})]
    [] e.type = "message-end" -> [told EXCEPT !.over = "ended"]
    [] e.type = "stream-error" -> [told EXCEPT !.over = "broken"]
    [] OTHER -> told
=============================================================================
