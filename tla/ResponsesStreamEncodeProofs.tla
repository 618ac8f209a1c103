--------------------- MODULE ResponsesStreamEncodeProofs ---------------------
(***************************************************************************)
(* Proofs about ResponsesStreamEncode, for every finite set of blocks, any *)
(* number of them open at once, and signatures native or not: a client of  *)
(* the encoder reads a hub stream, and its last event lists that stream.   *)
(***************************************************************************)
EXTENDS ResponsesStreamEncode, FiniteSetTheorems, SequenceTheorems, TLAPS

-----------------------------------------------------------------------------
(* Readers.                                                                *)

IsReader(h) ==
    /\ h = [begun |-> h.begun, open |-> h.open, seen |-> h.seen, last |-> h.last, over |-> h.over]
    /\ h.open = [i \in DOMAIN h.open |-> h.open[i]]
    /\ h.begun \in BOOLEAN

(* What each event adds to what a reader knows.                            *)
LEMMA HearBegin ==
    ASSUME NEW h, IsReader(h)
    PROVE  /\ IsReader(Hear(h, MessageBegin))
           /\ Hear(h, MessageBegin).begun = TRUE
           /\ Hear(h, MessageBegin).open = h.open
           /\ Hear(h, MessageBegin).seen = h.seen
           /\ Hear(h, MessageBegin).last = MessageBegin
           /\ Hear(h, MessageBegin).over = h.over
BY DEF IsReader, Hear, MessageBegin

LEMMA HearOpen ==
    ASSUME NEW h, IsReader(h), NEW i, NEW kind
    PROVE  /\ IsReader(Hear(h, BlockOpen(i, kind)))
           /\ Hear(h, BlockOpen(i, kind)).begun = h.begun
           /\ Hear(h, BlockOpen(i, kind)).open = Entered(h.open, i, kind)
           /\ Hear(h, BlockOpen(i, kind)).seen = h.seen \cup {i}
           /\ Hear(h, BlockOpen(i, kind)).last = BlockOpen(i, kind)
           /\ Hear(h, BlockOpen(i, kind)).over = h.over
<1> DEFINE e == BlockOpen(i, kind)
           now == Entered(h.open, i, kind)
<1>1. e.type = "block-open" /\ e.index = i /\ e.kind = kind
  BY DEF BlockOpen
<1>2. now = [j \in DOMAIN now |-> now[j]]
  BY DEF Entered
<1> HIDE DEF e
<1>3. Hear(h, e) = [[h EXCEPT !.last = e] EXCEPT !.open = now, !.seen = h.seen \cup {i}]
  BY <1>1 DEF Hear, IsReader
<1> HIDE DEF now
<1>4. Hear(h, e) = [begun |-> h.begun, open |-> now, seen |-> h.seen \cup {i},
                    last |-> e, over |-> h.over]
  BY <1>3 DEF IsReader
<1>5. QED
  BY <1>2, <1>4 DEF IsReader, e, now

LEMMA HearDelta ==
    ASSUME NEW h, IsReader(h), NEW i, NEW delta
    PROVE  /\ IsReader(Hear(h, BlockDelta(i, delta)))
           /\ Hear(h, BlockDelta(i, delta)).begun = h.begun
           /\ Hear(h, BlockDelta(i, delta)).open = h.open
           /\ Hear(h, BlockDelta(i, delta)).seen = h.seen
           /\ Hear(h, BlockDelta(i, delta)).last = BlockDelta(i, delta)
           /\ Hear(h, BlockDelta(i, delta)).over = h.over
BY DEF IsReader, Hear, BlockDelta

LEMMA HearClose ==
    ASSUME NEW h, IsReader(h), NEW i
    PROVE  /\ IsReader(Hear(h, BlockClose(i)))
           /\ Hear(h, BlockClose(i)).begun = h.begun
           /\ Hear(h, BlockClose(i)).open = Restrict(h.open, DOMAIN h.open \ {i})
           /\ Hear(h, BlockClose(i)).seen = h.seen
           /\ Hear(h, BlockClose(i)).last = BlockClose(i)
           /\ Hear(h, BlockClose(i)).over = h.over
BY DEF IsReader, Hear, BlockClose, Restrict

LEMMA HearMedia ==
    ASSUME NEW h, IsReader(h)
    PROVE  /\ IsReader(Hear(h, Media))
           /\ Hear(h, Media).begun = h.begun
           /\ Hear(h, Media).open = h.open
           /\ Hear(h, Media).seen = h.seen
           /\ Hear(h, Media).last = Media
           /\ Hear(h, Media).over = h.over
BY DEF IsReader, Hear, Media

LEMMA HearEnd ==
    ASSUME NEW h, IsReader(h), NEW stop
    PROVE  /\ IsReader(Hear(h, MessageEnd(stop)))
           /\ Hear(h, MessageEnd(stop)).begun = h.begun
           /\ Hear(h, MessageEnd(stop)).open = h.open
           /\ Hear(h, MessageEnd(stop)).seen = h.seen
           /\ Hear(h, MessageEnd(stop)).last = MessageEnd(stop)
           /\ Hear(h, MessageEnd(stop)).over = "ended"
BY DEF IsReader, Hear, MessageEnd

LEMMA HearBreak ==
    ASSUME NEW h, IsReader(h)
    PROVE  /\ IsReader(Hear(h, StreamError))
           /\ Hear(h, StreamError).begun = h.begun
           /\ Hear(h, StreamError).open = h.open
           /\ Hear(h, StreamError).seen = h.seen
           /\ Hear(h, StreamError).last = StreamError
           /\ Hear(h, StreamError).over = "broken"
BY DEF IsReader, Hear, StreamError

-----------------------------------------------------------------------------
(* What the client has been shown of the blocks the encoder holds open.    *)

Block == [at : Nat, kind : Kinds, size : Nat, signed : BOOLEAN]

(* The items added are numbered without a gap, and those that stand open   *)
(* are the open blocks', each under a number and a kind of its own.        *)
Shows(open, seen, blocks, next) ==
    /\ next \in Nat /\ seen = 0..(next - 1)
    /\ blocks \in [DOMAIN blocks -> Block]
    /\ \A i \in DOMAIN blocks :
          /\ blocks[i].at < next
          /\ blocks[i].at \in DOMAIN open
          /\ open[blocks[i].at] = blocks[i].kind
    /\ \A i, j \in DOMAIN blocks : blocks[i].at = blocks[j].at => i = j
    /\ \A at \in DOMAIN open : \E i \in DOMAIN blocks : blocks[i].at = at

LEMMA ShowsOpened ==
    ASSUME NEW open, NEW seen, NEW blocks, NEW next, Shows(open, seen, blocks, next),
           NEW i, i \notin DOMAIN blocks, NEW b \in Block, b.at = next
    PROVE  Shows(Entered(open, next, b.kind), seen \cup {next}, Entered(blocks, i, b), next + 1)
<1> DEFINE shown == Entered(open, next, b.kind)
           held == Entered(blocks, i, b)
<1>1. /\ DOMAIN shown = DOMAIN open \cup {next}
      /\ \A at \in DOMAIN shown : shown[at] = IF at = next THEN b.kind ELSE open[at]
      /\ DOMAIN held = DOMAIN blocks \cup {i}
      /\ \A j \in DOMAIN held : held[j] = IF j = i THEN b ELSE blocks[j]
      /\ held = [j \in DOMAIN held |-> held[j]]
  BY DEF Entered
<1>2. /\ next \in Nat /\ seen = 0..(next - 1)
      /\ \A j \in DOMAIN blocks : blocks[j] \in Block /\ blocks[j].at < next /\ blocks[j].at \in Nat
  BY DEF Shows, Block
<1>3. next + 1 \in Nat /\ seen \cup {next} = 0..((next + 1) - 1)
  BY <1>2
<1>4. \A j \in DOMAIN held : held[j] \in Block
  BY <1>1, <1>2
<1>5. held \in [DOMAIN held -> Block]
  BY <1>1, <1>4
<1>6. \A j \in DOMAIN held : held[j].at < next + 1 /\ held[j].at \in DOMAIN shown
                             /\ shown[held[j].at] = held[j].kind
  BY <1>1, <1>2 DEF Shows
<1>7. \A j, k \in DOMAIN held : held[j].at = held[k].at => j = k
  BY <1>1, <1>2 DEF Shows
<1>8. \A at \in DOMAIN shown : \E j \in DOMAIN held : held[j].at = at
  BY <1>1, <1>2 DEF Shows
<1> HIDE DEF shown, held
<1>9. QED
  BY <1>3, <1>5, <1>6, <1>7, <1>8 DEF Shows, shown, held

(* An item added and done at once leaves nothing open.                     *)
LEMMA ShowsCarried ==
    ASSUME NEW open, NEW seen, NEW blocks, NEW next, Shows(open, seen, blocks, next)
    PROVE  Shows(open, seen \cup {next}, blocks, next + 1)
<1>1. next \in Nat /\ seen = 0..(next - 1) /\ \A j \in DOMAIN blocks : blocks[j].at \in Nat
  BY DEF Shows, Block
<1>2. next + 1 \in Nat /\ seen \cup {next} = 0..((next + 1) - 1)
  BY <1>1
<1>3. \A j \in DOMAIN blocks : blocks[j].at < next + 1
  BY <1>1 DEF Shows
<1>4. QED
  BY <1>2, <1>3 DEF Shows

LEMMA ShowsClosed ==
    ASSUME NEW open, NEW seen, NEW blocks, NEW next, Shows(open, seen, blocks, next),
           NEW i \in DOMAIN blocks
    PROVE  Shows(Restrict(open, DOMAIN open \ {blocks[i].at}), seen,
                 Restrict(blocks, DOMAIN blocks \ {i}), next)
<1> DEFINE shown == Restrict(open, DOMAIN open \ {blocks[i].at})
           held == Restrict(blocks, DOMAIN blocks \ {i})
<1>1. /\ DOMAIN shown = DOMAIN open \ {blocks[i].at}
      /\ \A at \in DOMAIN shown : shown[at] = open[at]
      /\ DOMAIN held = DOMAIN blocks \ {i}
      /\ \A j \in DOMAIN held : held[j] = blocks[j]
      /\ held = [j \in DOMAIN held |-> held[j]]
  BY DEF Restrict
<1>0. /\ next \in Nat /\ seen = 0..(next - 1)
      /\ \A j \in DOMAIN blocks : blocks[j] \in Block
  BY DEF Shows
<1> HIDE DEF shown, held
<1>2. held \in [DOMAIN held -> Block]
  BY <1>0, <1>1
<1>3. \A j \in DOMAIN held : held[j].at < next /\ held[j].at \in DOMAIN shown
                             /\ shown[held[j].at] = held[j].kind
  BY <1>1 DEF Shows
<1>4. \A j, k \in DOMAIN held : held[j].at = held[k].at => j = k
  BY <1>1 DEF Shows
<1>5. \A at \in DOMAIN shown : \E j \in DOMAIN held : held[j].at = at
  BY <1>1 DEF Shows
<1>6. QED
  BY <1>0, <1>2, <1>3, <1>4, <1>5 DEF Shows, shown, held

LEMMA ShowsTold ==
    ASSUME NEW open, NEW seen, NEW blocks, NEW next, Shows(open, seen, blocks, next),
           NEW i \in DOMAIN blocks, NEW b \in Block, b.at = blocks[i].at, b.kind = blocks[i].kind
    PROVE  Shows(open, seen, [blocks EXCEPT ![i] = b], next)
<1> DEFINE held == [blocks EXCEPT ![i] = b]
<1>1. /\ blocks \in [DOMAIN blocks -> Block]
      /\ DOMAIN held = DOMAIN blocks
      /\ held \in [DOMAIN held -> Block]
      /\ \A j \in DOMAIN held : held[j].at = blocks[j].at /\ held[j].kind = blocks[j].kind
  BY DEF Shows
<1> HIDE DEF held
<1>2. QED
  BY <1>1 DEF Shows, held

(* No more items stand open than blocks, and none where no block does.     *)
LEMMA ShowsNoMore ==
    ASSUME NEW open, NEW seen, NEW blocks, NEW next, Shows(open, seen, blocks, next),
           IsFiniteSet(DOMAIN blocks)
    PROVE  /\ IsFiniteSet(DOMAIN open)
           /\ Cardinality(DOMAIN open) \in Nat
           /\ Cardinality(DOMAIN open) <= Cardinality(DOMAIN blocks)
           /\ DOMAIN blocks = {} => DOMAIN open = {}
           /\ next \notin DOMAIN open /\ next \notin seen /\ Cardinality(seen) = next
<1> DEFINE number == [i \in DOMAIN blocks |-> blocks[i].at]
<1>1. number \in Surjection(DOMAIN blocks, DOMAIN open)
  BY DEF Shows, Surjection
<1> HIDE DEF number
<1>2. IsFiniteSet(DOMAIN open) /\ Cardinality(DOMAIN open) <= Cardinality(DOMAIN blocks)
  BY <1>1, FS_Surjection
<1>3. Cardinality(DOMAIN open) \in Nat
  BY <1>2, FS_CardinalityType
<1>4. /\ next \in Nat /\ seen = 0..(next - 1)
      /\ \A i \in DOMAIN blocks : blocks[i].at < next /\ blocks[i].at \in Nat
  BY DEF Shows, Block
<1>5. next \notin DOMAIN open /\ next \notin seen
  BY <1>4 DEF Shows
<1>6. Cardinality(seen) = next
  <2>1. 0 \in Int /\ next - 1 \in Int
    BY <1>4
  <2>2. Cardinality(0..(next - 1)) = IF 0 > next - 1 THEN 0 ELSE next - 1 - 0 + 1
    BY <2>1, FS_Interval
  <2>3. QED
    BY <1>4, <2>2
<1>7. DOMAIN blocks = {} => DOMAIN open = {}
  BY DEF Shows
<1>8. QED
  BY <1>2, <1>3, <1>5, <1>6, <1>7

-----------------------------------------------------------------------------
(* What the last event would list.                                         *)

Listed == [at : Nat, kind : Kinds \cup {"carrier"}, size : Nat]

(* Every item added so far is an open block's or listed, once, and says    *)
(* what the client was told of it.                                         *)
Lists(output, told, blocks, next) ==
    /\ output \in Seq(Listed)
    /\ told \in [OutputIndices -> Nat]
    /\ 0..(next - 1) \subseteq OutputIndices
    /\ \A at \in OutputIndices : next <= at => told[at] = 0
    /\ \A i \in DOMAIN blocks : told[blocks[i].at] = blocks[i].size
    /\ \A m \in 1..Len(output) :
          /\ output[m].at < next
          /\ output[m].size = told[output[m].at]
          /\ \A i \in DOMAIN blocks : blocks[i].at # output[m].at
    /\ \A m, k \in 1..Len(output) : output[m].at = output[k].at => m = k
    /\ \A at \in 0..(next - 1) :
          \/ \E i \in DOMAIN blocks : blocks[i].at = at
          \/ \E m \in 1..Len(output) : output[m].at = at

LEMMA Appended ==
    ASSUME NEW S, NEW s \in Seq(S), NEW e \in S
    PROVE  /\ Append(s, e) \in Seq(S)
           /\ Len(s) \in Nat /\ Len(Append(s, e)) = Len(s) + 1
           /\ Append(s, e)[Len(s) + 1] = e
           /\ \A m \in 1..Len(s) : Append(s, e)[m] = s[m] /\ m # Len(s) + 1 /\ s[m] \in S
           /\ 1..(Len(s) + 1) = 1..Len(s) \cup {Len(s) + 1}
OBVIOUS

LEMMA ListedAreTyped ==
    ASSUME NEW output \in Seq(Listed), NEW m \in 1..Len(output)
    PROVE  output[m] \in Listed /\ output[m].at \in Nat
<1>1. output[m] \in Listed
  OBVIOUS
<1>2. QED
  BY <1>1 DEF Listed

LEMMA ListsOpened ==
    ASSUME NEW output, NEW told, NEW blocks, NEW next \in Nat, Lists(output, told, blocks, next),
           blocks \in [DOMAIN blocks -> Block],
           NEW i, i \notin DOMAIN blocks, NEW b \in Block, b.at = next, b.size = 0,
           next \in OutputIndices
    PROVE  Lists(output, told, Entered(blocks, i, b), next + 1)
<1> DEFINE held == Entered(blocks, i, b)
<1>1. /\ DOMAIN held = DOMAIN blocks \cup {i}
      /\ \A j \in DOMAIN held : held[j] = IF j = i THEN b ELSE blocks[j]
  BY DEF Entered
<1> HIDE DEF held
<1>2. 0..((next + 1) - 1) = 0..(next - 1) \cup {next} /\ OutputIndices \subseteq Nat
  BY DEF OutputIndices
<1>3. \A m \in 1..Len(output) : output[m] \in Listed /\ output[m].at \in Nat
  BY ListedAreTyped DEF Lists
<1>4. \A at \in OutputIndices : next + 1 <= at => told[at] = 0
  BY <1>2 DEF Lists
<1>5. \A j \in DOMAIN held : told[held[j].at] = held[j].size
  BY <1>1 DEF Lists
<1>6. \A m \in 1..Len(output) :
          /\ output[m].at < next + 1
          /\ output[m].size = told[output[m].at]
          /\ \A j \in DOMAIN held : held[j].at # output[m].at
  BY <1>1, <1>3 DEF Lists
<1>7. \A at \in 0..((next + 1) - 1) :
          \/ \E j \in DOMAIN held : held[j].at = at
          \/ \E m \in 1..Len(output) : output[m].at = at
  <2> SUFFICES ASSUME NEW at \in 0..((next + 1) - 1)
               PROVE  (\E j \in DOMAIN held : held[j].at = at) \/ \E m \in 1..Len(output) : output[m].at = at
    OBVIOUS
  <2>1. CASE at = next
    BY <1>1, <2>1
  <2>2. CASE at # next
    <3>1. (\E j \in DOMAIN blocks : blocks[j].at = at) \/ \E m \in 1..Len(output) : output[m].at = at
      BY <1>2, <2>2 DEF Lists
    <3>2. \A j \in DOMAIN blocks : j \in DOMAIN held /\ held[j] = blocks[j]
      BY <1>1
    <3>3. QED
      BY <3>1, <3>2
  <2>3. QED
    BY <2>1, <2>2
<1>8. QED
  BY <1>2, <1>4, <1>5, <1>6, <1>7 DEF Lists, held

LEMMA ListsCarried ==
    ASSUME NEW output, NEW told, NEW blocks, NEW next \in Nat, Lists(output, told, blocks, next),
           blocks \in [DOMAIN blocks -> Block], \A i \in DOMAIN blocks : blocks[i].at < next,
           next \in OutputIndices
    PROVE  Lists(Append(output, Item(next, "carrier", 0)), told, blocks, next + 1)
<1> DEFINE item == Item(next, "carrier", 0)
           more == Append(output, item)
<1>1. item \in Listed /\ item.at = next /\ item.size = 0
  BY DEF Listed, Item
<1>2. output \in Seq(Listed)
  BY DEF Lists
<1> HIDE DEF item
<1>3. /\ more \in Seq(Listed) /\ Len(more) = Len(output) + 1 /\ Len(output) \in Nat
      /\ more[Len(output) + 1] = item
      /\ \A m \in 1..Len(output) : more[m] = output[m] /\ m # Len(output) + 1 /\ output[m] \in Listed
      /\ 1..Len(more) = 1..Len(output) \cup {Len(output) + 1}
  BY <1>1, <1>2, Appended
<1> HIDE DEF more
<1>4. 0..((next + 1) - 1) = 0..(next - 1) \cup {next} /\ OutputIndices \subseteq Nat
  BY DEF OutputIndices
<1>5. /\ \A m \in 1..Len(output) : output[m].at \in Nat /\ output[m].at < next
      /\ \A i \in DOMAIN blocks : blocks[i].at \in Nat
  BY <1>3 DEF Lists, Listed, Block
<1>6. told[next] = 0
  BY DEF Lists
<1>7. \A m \in 1..Len(more) :
          /\ more[m].at < next + 1
          /\ more[m].size = told[more[m].at]
          /\ \A i \in DOMAIN blocks : blocks[i].at # more[m].at
  BY <1>1, <1>3, <1>5, <1>6 DEF Lists
<1>8. \A m, k \in 1..Len(more) : more[m].at = more[k].at => m = k
  BY <1>1, <1>3, <1>5 DEF Lists
<1>9. \A at \in 0..((next + 1) - 1) :
          \/ \E i \in DOMAIN blocks : blocks[i].at = at
          \/ \E m \in 1..Len(more) : more[m].at = at
  BY <1>1, <1>3, <1>4 DEF Lists
<1>10. \A at \in OutputIndices : next + 1 <= at => told[at] = 0
  BY <1>4 DEF Lists
<1>11. QED
  BY <1>3, <1>4, <1>7, <1>8, <1>9, <1>10 DEF Lists, more, item

LEMMA ListsClosed ==
    ASSUME NEW output, NEW told, NEW blocks, NEW next \in Nat, Lists(output, told, blocks, next),
           blocks \in [DOMAIN blocks -> Block], \A i \in DOMAIN blocks : blocks[i].at < next,
           \A i, j \in DOMAIN blocks : blocks[i].at = blocks[j].at => i = j,
           NEW i \in DOMAIN blocks
    PROVE  Lists(Append(output, Item(blocks[i].at, blocks[i].kind, blocks[i].size)), told,
                 Restrict(blocks, DOMAIN blocks \ {i}), next)
<1> DEFINE item == Item(blocks[i].at, blocks[i].kind, blocks[i].size)
           more == Append(output, item)
           held == Restrict(blocks, DOMAIN blocks \ {i})
<1>1. item \in Listed /\ item.at = blocks[i].at /\ item.size = blocks[i].size
  BY DEF Listed, Item, Block
<1>2. output \in Seq(Listed)
  BY DEF Lists
<1> HIDE DEF item
<1>3. /\ more \in Seq(Listed) /\ Len(more) = Len(output) + 1 /\ Len(output) \in Nat
      /\ more[Len(output) + 1] = item
      /\ \A m \in 1..Len(output) : more[m] = output[m] /\ m # Len(output) + 1 /\ output[m] \in Listed
      /\ 1..Len(more) = 1..Len(output) \cup {Len(output) + 1}
  BY <1>1, <1>2, Appended
<1>4. DOMAIN held = DOMAIN blocks \ {i} /\ \A j \in DOMAIN held : held[j] = blocks[j]
  BY DEF Restrict
<1> HIDE DEF more, held
<1>5. \A m \in 1..Len(more) :
          /\ more[m].at < next
          /\ more[m].size = told[more[m].at]
          /\ \A j \in DOMAIN held : held[j].at # more[m].at
  BY <1>1, <1>3, <1>4 DEF Lists
<1>6. \A m, k \in 1..Len(more) : more[m].at = more[k].at => m = k
  BY <1>1, <1>3 DEF Lists
<1>7. \A at \in 0..(next - 1) :
          \/ \E j \in DOMAIN held : held[j].at = at
          \/ \E m \in 1..Len(more) : more[m].at = at
  <2> SUFFICES ASSUME NEW at \in 0..(next - 1)
               PROVE  (\E j \in DOMAIN held : held[j].at = at) \/ \E m \in 1..Len(more) : more[m].at = at
    OBVIOUS
  <2>1. (\E j \in DOMAIN blocks : blocks[j].at = at) \/ \E m \in 1..Len(output) : output[m].at = at
    BY DEF Lists
  <2>2. CASE at = blocks[i].at
    BY <1>1, <1>3, <2>2
  <2>3. CASE at # blocks[i].at
    <3>1. \A j \in DOMAIN blocks : blocks[j].at = at => j \in DOMAIN held /\ held[j] = blocks[j]
      BY <1>4, <2>3
    <3>2. QED
      BY <1>3, <2>1, <3>1
  <2>4. QED
    BY <2>2, <2>3
<1>8. \A j \in DOMAIN held : told[held[j].at] = held[j].size
  BY <1>4 DEF Lists
<1>9. QED
  BY <1>3, <1>5, <1>6, <1>7, <1>8 DEF Lists, more, item, held

(* A piece told is counted on both sides, and a piece kept on neither.     *)
LEMMA ListsTold ==
    ASSUME NEW output, NEW told, NEW blocks, NEW next \in Nat, Lists(output, told, blocks, next),
           blocks \in [DOMAIN blocks -> Block], \A i \in DOMAIN blocks : blocks[i].at < next,
           \A i, j \in DOMAIN blocks : blocks[i].at = blocks[j].at => i = j,
           NEW i \in DOMAIN blocks, NEW b \in Block, b.at = blocks[i].at, NEW more \in Nat,
           b.size = blocks[i].size + more
    PROVE  Lists(output, [told EXCEPT ![blocks[i].at] = @ + more], [blocks EXCEPT ![i] = b], next)
<1> DEFINE counts == [told EXCEPT ![blocks[i].at] = @ + more]
           held == [blocks EXCEPT ![i] = b]
<1>1. /\ told \in [OutputIndices -> Nat] /\ blocks[i].at \in OutputIndices
      /\ OutputIndices \subseteq Nat
  BY DEF Lists, Block, OutputIndices
<1>2. /\ counts \in [OutputIndices -> Nat]
      /\ \A at \in OutputIndices :
            counts[at] = IF at = blocks[i].at THEN told[at] + more ELSE told[at]
      /\ DOMAIN held = DOMAIN blocks
      /\ \A j \in DOMAIN held : held[j].at = blocks[j].at
      /\ \A j \in DOMAIN held : held[j] = IF j = i THEN b ELSE blocks[j]
      /\ blocks[i].at < next /\ next \in Nat /\ blocks[i].at \in Nat
  BY <1>1 DEF Block
<1> HIDE DEF counts, held
<1>3. \A at \in OutputIndices : next <= at => counts[at] = 0
  BY <1>1, <1>2 DEF Lists
<1>4. \A j \in DOMAIN held : blocks[j].at \in OutputIndices
  BY <1>1, <1>2 DEF Lists, Block
<1>5. \A j \in DOMAIN held : counts[held[j].at] = held[j].size
  <2> SUFFICES ASSUME NEW j \in DOMAIN held
               PROVE  counts[held[j].at] = held[j].size
    OBVIOUS
  <2>1. told[blocks[j].at] = blocks[j].size /\ told[blocks[i].at] = blocks[i].size
    BY <1>2 DEF Lists
  <2>2. CASE j = i
    BY <1>2, <1>4, <2>1, <2>2
  <2>3. CASE j # i
    BY <1>2, <1>4, <2>1, <2>3
  <2>4. QED
    BY <2>2, <2>3
<1>6. \A m \in 1..Len(output) : output[m].at \in OutputIndices /\ output[m].at # blocks[i].at
  <2>1. \A m \in 1..Len(output) : output[m].at \in Nat
    BY ListedAreTyped DEF Lists
  <2>2. QED
    BY <1>1, <2>1 DEF Lists
<1>7. \A m \in 1..Len(output) : output[m].size = counts[output[m].at]
  BY <1>2, <1>6 DEF Lists
<1>8. QED
  BY <1>2, <1>3, <1>5, <1>7 DEF Lists, counts, held

-----------------------------------------------------------------------------
(* How many items there may be.                                            *)

Texts(blocks) == {i \in DOMAIN blocks : blocks[i].kind = "text"}

(* A block has two items at most, and a text that stands open may still    *)
(* earn its second.                                                        *)
Fitted(blocks, next, met) == next + Cardinality(Texts(blocks)) <= 2 * Cardinality(met)

LEMMA TextsCount ==
    ASSUME NEW blocks, IsFiniteSet(DOMAIN blocks)
    PROVE  IsFiniteSet(Texts(blocks)) /\ Cardinality(Texts(blocks)) \in Nat
<1>1. Texts(blocks) \in SUBSET DOMAIN blocks
  BY DEF Texts
<1>2. QED
  BY <1>1, FS_Subset, FS_CardinalityType

LEMMA FitOpened ==
    ASSUME NEW blocks, IsFiniteSet(DOMAIN blocks), NEW next \in Nat, NEW met, IsFiniteSet(met),
           Fitted(blocks, next, met), NEW i, i \notin met, i \notin DOMAIN blocks, NEW b
    PROVE  /\ Fitted(Entered(blocks, i, b), next + 1, met \cup {i})
           /\ b.kind # "text" => Fitted(Entered(blocks, i, b), next + 2, met \cup {i})
<1>1. Cardinality(met) \in Nat /\ Cardinality(met \cup {i}) = Cardinality(met) + 1
  BY FS_CardinalityType, FS_AddElement
<1>2. /\ IsFiniteSet(Texts(blocks)) /\ Cardinality(Texts(blocks)) \in Nat
      /\ Cardinality(Texts(blocks) \cup {i}) = Cardinality(Texts(blocks)) + 1
  <2>1. i \notin Texts(blocks)
    BY DEF Texts
  <2>2. QED
    BY <2>1, TextsCount, FS_AddElement
<1>3. Texts(Entered(blocks, i, b)) = IF b.kind = "text" THEN Texts(blocks) \cup {i} ELSE Texts(blocks)
  BY DEF Texts, Entered
<1>4. QED
  BY <1>1, <1>2, <1>3 DEF Fitted

LEMMA FitClosed ==
    ASSUME NEW blocks, IsFiniteSet(DOMAIN blocks), NEW next \in Nat, NEW met, IsFiniteSet(met),
           Fitted(blocks, next, met), NEW i \in DOMAIN blocks
    PROVE  /\ Fitted(Restrict(blocks, DOMAIN blocks \ {i}), next, met)
           /\ blocks[i].kind = "text" => Fitted(Restrict(blocks, DOMAIN blocks \ {i}), next + 1, met)
<1>1. Cardinality(met) \in Nat
  BY FS_CardinalityType
<1>2. /\ IsFiniteSet(Texts(blocks)) /\ Cardinality(Texts(blocks)) \in Nat
      /\ Cardinality(Texts(blocks) \ {i}) =
            IF blocks[i].kind = "text" THEN Cardinality(Texts(blocks)) - 1 ELSE Cardinality(Texts(blocks))
  <2>1. i \in Texts(blocks) <=> blocks[i].kind = "text"
    BY DEF Texts
  <2>2. QED
    BY <2>1, TextsCount, FS_RemoveElement
<1>3. Texts(Restrict(blocks, DOMAIN blocks \ {i})) = Texts(blocks) \ {i}
  BY DEF Texts, Restrict
<1>4. next + Cardinality(Texts(blocks)) <= 2 * Cardinality(met)
  BY DEF Fitted
<1>5. CASE blocks[i].kind = "text"
  <2>1. Cardinality(Texts(blocks) \ {i}) = Cardinality(Texts(blocks)) - 1
    BY <1>2, <1>5
  <2>2. Cardinality(Texts(Restrict(blocks, DOMAIN blocks \ {i}))) = Cardinality(Texts(blocks)) - 1
    BY <1>3, <2>1
  <2>3. QED
    BY <1>1, <1>2, <1>4, <2>2 DEF Fitted
<1>6. CASE blocks[i].kind # "text"
  <2>1. Cardinality(Texts(blocks) \ {i}) = Cardinality(Texts(blocks))
    BY <1>2, <1>6
  <2>2. QED
    BY <1>3, <1>4, <1>6, <2>1 DEF Fitted
<1>7. QED
  BY <1>5, <1>6

LEMMA FitTold ==
    ASSUME NEW blocks, NEW next, NEW met, Fitted(blocks, next, met),
           NEW i \in DOMAIN blocks, NEW b, b.kind = blocks[i].kind
    PROVE  Fitted([blocks EXCEPT ![i] = b], next, met)
<1>1. Texts([blocks EXCEPT ![i] = b]) = Texts(blocks)
  BY DEF Texts
<1>2. QED
  BY <1>1 DEF Fitted

-----------------------------------------------------------------------------
(* What is owed to the client.                                             *)

(* What the decoder upstream has said.                                     *)
SourceKnows(src) ==
    /\ IsReader(src)
    /\ src.seen \subseteq Blocks
    /\ DOMAIN src.open \subseteq src.seen
    /\ \A i \in DOMAIN src.open : src.open[i] \in Kinds
    /\ DOMAIN src.open # {} => src.begun = TRUE
    /\ Cardinality(DOMAIN src.open) <= Held

IsState(s) ==
    s = [blocks |-> s.blocks, nextOutputIndex |-> s.nextOutputIndex, output |-> s.output,
         reasoned |-> s.reasoned]

(* A client that has pulled everything knows what the encoder knows.       *)
Matches(h, told, src, s) ==
    /\ IsReader(h) /\ IsState(s)
    /\ h.begun = src.begun
    /\ src.over = "no" => h.over = "no"
    /\ DOMAIN s.blocks = DOMAIN src.open
    /\ \A i \in DOMAIN src.open : s.blocks[i].kind = src.open[i]
    /\ Shows(h.open, h.seen, s.blocks, s.nextOutputIndex)
    /\ Lists(s.output, told, s.blocks, s.nextOutputIndex)
    /\ Fitted(s.blocks, s.nextOutputIndex, src.seen)

(* The event is one the client may be told next.                           *)
Due(h, e) ==
    /\ h.over = "no"
    /\ \/ e = MessageBegin /\ h.begun = FALSE
       \/ \E kind \in Kinds :
             /\ e = BlockOpen(Cardinality(h.seen), kind)
             /\ h.begun = TRUE
             /\ Cardinality(DOMAIN h.open) < Held
             /\ Cardinality(h.seen) \in OutputIndices \ h.seen
       \/ \E i \in DOMAIN h.open, delta \in Deltas :
             e = BlockDelta(i, delta) /\ Fits(h.open[i], delta)
       \/ \E i \in DOMAIN h.open : e = BlockClose(i)
       \/ \E stop \in Client!Stops : e = MessageEnd(stop) /\ DOMAIN h.open = {}
       \/ e = StreamError

Count(told, e) == IF e.type = "block-delta" THEN [told EXCEPT ![e.index] = @ + 1] ELSE told

(* The events not yet pulled are due one after the other, and lead to a    *)
(* client that knows what the encoder knows.                               *)
Plays(h, told, events, src, s) ==
    \/ events = <<>> /\ Matches(h, told, src, s)
    \/ \E a :
          /\ events = <<a>>
          /\ Due(h, a)
          /\ Matches(Hear(h, a), Count(told, a), src, s)
    \/ \E a, b :
          /\ events = <<a, b>>
          /\ Due(h, a) /\ Due(Hear(h, a), b)
          /\ Matches(Hear(Hear(h, a), b), Count(Count(told, a), b), src, s)
    \/ \E a, b, c :
          /\ events = <<a, b, c>>
          /\ Due(h, a) /\ Due(Hear(h, a), b) /\ Due(Hear(Hear(h, a), b), c)
          /\ Matches(Hear(Hear(Hear(h, a), b), c), Count(Count(Count(told, a), b), c), src, s)

(* The client's last event comes once no block stands open, and alone.     *)
Ending(events, src, s) ==
    \A m \in 1..Len(events) : events[m].type = "message-end" =>
        Len(events) = 1 /\ src.over # "no" /\ DOMAIN s.blocks = {}

EndsAlone ==
    /\ Ending(out, source, state)
    /\ listed # None =>
          /\ out = <<>> /\ source.over # "no" /\ DOMAIN state.blocks = {}
          /\ listed = state.output

EncodeInv ==
    /\ SourceKnows(source)
    /\ IsReader(heard)
    /\ Plays(heard, got, out, source, state)
    /\ EndsAlone

-----------------------------------------------------------------------------
(* What the encoder owes for each event it takes.                          *)

LEMMA Matched ==
    ASSUME EncodeAssumption, NEW h, NEW told, NEW src, NEW s,
           SourceKnows(src), Matches(h, told, src, s)
    PROVE  /\ IsFiniteSet(src.seen) /\ Cardinality(src.seen) \in Nat
           /\ IsFiniteSet(Blocks) /\ Cardinality(Blocks) \in Nat
           /\ Cardinality(src.seen) <= Cardinality(Blocks)
           /\ IsFiniteSet(DOMAIN src.open) /\ Cardinality(DOMAIN src.open) \in Nat
           /\ s.nextOutputIndex \in Nat
           /\ Cardinality(Texts(s.blocks)) \in Nat
           /\ Cardinality(DOMAIN h.open) \in Nat
           /\ Cardinality(DOMAIN h.open) <= Cardinality(DOMAIN src.open)
           /\ Cardinality(h.seen) = s.nextOutputIndex
           /\ s.nextOutputIndex \notin h.seen
           /\ s.nextOutputIndex \notin DOMAIN h.open
           /\ DOMAIN src.open = {} => DOMAIN h.open = {}
           /\ s.blocks \in [DOMAIN s.blocks -> Block]
           /\ \A i \in DOMAIN s.blocks : s.blocks[i].at < s.nextOutputIndex
           /\ \A i, j \in DOMAIN s.blocks : s.blocks[i].at = s.blocks[j].at => i = j
<1>1. IsFiniteSet(Blocks) /\ src.seen \in SUBSET Blocks /\ DOMAIN src.open \in SUBSET src.seen
  BY DEF EncodeAssumption, SourceKnows
<1>2. /\ IsFiniteSet(src.seen) /\ Cardinality(src.seen) <= Cardinality(Blocks)
      /\ Cardinality(src.seen) \in Nat /\ Cardinality(Blocks) \in Nat
  BY <1>1, FS_Subset, FS_CardinalityType
<1>3. IsFiniteSet(DOMAIN src.open) /\ Cardinality(DOMAIN src.open) \in Nat
  BY <1>1, <1>2, FS_Subset, FS_CardinalityType
<1>4. DOMAIN s.blocks = DOMAIN src.open /\ Shows(h.open, h.seen, s.blocks, s.nextOutputIndex)
  BY DEF Matches
<1>5. Cardinality(Texts(s.blocks)) \in Nat
  BY <1>3, <1>4, TextsCount
<1>6. /\ Cardinality(DOMAIN h.open) \in Nat
      /\ Cardinality(DOMAIN h.open) <= Cardinality(DOMAIN src.open)
      /\ Cardinality(h.seen) = s.nextOutputIndex
      /\ s.nextOutputIndex \notin h.seen
      /\ s.nextOutputIndex \notin DOMAIN h.open
      /\ DOMAIN src.open = {} => DOMAIN h.open = {}
  <2>1. IsFiniteSet(DOMAIN s.blocks)
    BY <1>3, <1>4
  <2>2. /\ Cardinality(DOMAIN h.open) \in Nat
        /\ Cardinality(DOMAIN h.open) <= Cardinality(DOMAIN s.blocks)
        /\ DOMAIN s.blocks = {} => DOMAIN h.open = {}
        /\ s.nextOutputIndex \notin DOMAIN h.open /\ s.nextOutputIndex \notin h.seen
        /\ Cardinality(h.seen) = s.nextOutputIndex
    BY ONLY <1>4, <2>1, ShowsNoMore
  <2>3. QED
    BY ONLY <1>4, <2>2
<1>7. /\ s.nextOutputIndex \in Nat
      /\ s.blocks \in [DOMAIN s.blocks -> Block]
      /\ \A i \in DOMAIN s.blocks : s.blocks[i].at < s.nextOutputIndex
      /\ \A i, j \in DOMAIN s.blocks : s.blocks[i].at = s.blocks[j].at => i = j
  BY <1>4 DEF Shows
<1>8. QED
  BY <1>1, <1>2, <1>3, <1>5, <1>6, <1>7

(* An item for a signature is added and done in two events, after which    *)
(* the client has what it had open.                                        *)
CarrierCame(h, n, r) ==
    /\ Due(h, BlockOpen(n, "thinking"))
    /\ Due(Hear(h, BlockOpen(n, "thinking")), BlockClose(n))
    /\ IsReader(r)
    /\ r.begun = TRUE /\ r.over = "no" /\ r.open = h.open /\ r.seen = h.seen \cup {n}

LEMMA CarriersPlay ==
    ASSUME NEW h, IsReader(h), h.over = "no", h.begun = TRUE,
           NEW n, n = Cardinality(h.seen), n \in OutputIndices \ h.seen, n \notin DOMAIN h.open,
           Cardinality(DOMAIN h.open) < Held,
           NEW r, r = Hear(Hear(h, BlockOpen(n, "thinking")), BlockClose(n))
    PROVE  CarrierCame(h, n, r)
<1> DEFINE r1 == Hear(h, BlockOpen(n, "thinking"))
<1>1. /\ IsReader(r1) /\ r1.begun = h.begun /\ r1.over = h.over
      /\ r1.open = Entered(h.open, n, "thinking") /\ r1.seen = h.seen \cup {n}
  <2>1. IsReader(r1) /\ r1.begun = h.begun /\ r1.over = h.over
    BY HearOpen
  <2>2. r1.open = Entered(h.open, n, "thinking")
    BY HearOpen
  <2>3. r1.seen = h.seen \cup {n}
    BY HearOpen
  <2>4. QED
    BY <2>1, <2>2, <2>3
<1>2. Due(h, BlockOpen(n, "thinking"))
  BY DEF Due, Kinds
<1> HIDE DEF r1
<1>3. /\ IsReader(r) /\ r.begun = r1.begun /\ r.over = r1.over
      /\ r.open = Restrict(r1.open, DOMAIN r1.open \ {n}) /\ r.seen = r1.seen
  BY <1>1, HearClose DEF r1
<1>4. n \in DOMAIN r1.open
  BY <1>1 DEF Entered
<1>5. Due(r1, BlockClose(n))
  BY <1>1, <1>4 DEF Due
<1>6. Restrict(r1.open, DOMAIN r1.open \ {n}) = h.open
  BY <1>1 DEF Entered, Restrict, IsReader
<1>7. QED
  BY <1>1, <1>2, <1>3, <1>5, <1>6 DEF r1, CarrierCame

LEMMA UncountedEvents ==
    /\ \A told, i, kind : Count(told, BlockOpen(i, kind)) = told
    /\ \A told, i : Count(told, BlockClose(i)) = told
    /\ \A told : Count(told, MessageBegin) = told
    /\ \A told : Count(told, StreamError) = told
    /\ \A told, stop : Count(told, MessageEnd(stop)) = told
    /\ \A told, i, delta : Count(told, BlockDelta(i, delta)) = [told EXCEPT ![i] = @ + 1]
BY DEF Count, BlockOpen, BlockClose, MessageBegin, StreamError, MessageEnd, BlockDelta

(* The decoder's own reader, one block on.                                 *)
OneMore(src, i, kind, r) ==
    /\ r.over = src.over
    /\ DOMAIN r.open = DOMAIN src.open \cup {i}
    /\ \A j \in DOMAIN r.open : r.open[j] = IF j = i THEN kind ELSE src.open[j]
    /\ r.seen = src.seen \cup {i}

LEMMA SourceOpens ==
    ASSUME EncodeAssumption, NEW src, SourceKnows(src), src.begun = TRUE,
           Cardinality(DOMAIN src.open) < Held,
           NEW i \in Blocks \ src.seen, NEW kind \in Kinds,
           NEW r, r = Hear(src, BlockOpen(i, kind))
    PROVE  SourceKnows(r) /\ r.begun = TRUE /\ OneMore(src, i, kind, r)
<1>1. /\ IsReader(r) /\ r.begun = src.begun /\ r.over = src.over
      /\ r.open = Entered(src.open, i, kind) /\ r.seen = src.seen \cup {i}
  <2>1. IsReader(src)
    BY DEF SourceKnows
  <2>2. IsReader(r)
    BY <2>1, HearOpen
  <2>3. /\ Hear(src, BlockOpen(i, kind)).begun = src.begun
        /\ Hear(src, BlockOpen(i, kind)).over = src.over
    BY ONLY <2>1, HearOpen
  <2>4. r.open = Entered(src.open, i, kind)
    BY <2>1, HearOpen
  <2>5. r.seen = src.seen \cup {i}
    BY <2>1, HearOpen
  <2>6. QED
    BY <2>2, <2>3, <2>4, <2>5
<1>2. /\ DOMAIN r.open = DOMAIN src.open \cup {i}
      /\ \A j \in DOMAIN r.open : r.open[j] = IF j = i THEN kind ELSE src.open[j]
  BY <1>1 DEF Entered
<1>3. IsFiniteSet(DOMAIN src.open) /\ Cardinality(DOMAIN src.open) \in Nat
  <2>1. IsFiniteSet(Blocks) /\ DOMAIN src.open \in SUBSET Blocks
    BY DEF EncodeAssumption, SourceKnows
  <2>2. QED
    BY <2>1, FS_Subset, FS_CardinalityType
<1>4. Cardinality(DOMAIN r.open) <= Held
  <2>1. i \notin DOMAIN src.open
    BY DEF SourceKnows
  <2>2. Cardinality(DOMAIN r.open) = Cardinality(DOMAIN src.open) + 1
    BY <1>2, <1>3, <2>1, FS_AddElement
  <2>3. QED
    BY <1>3, <2>2 DEF EncodeAssumption
<1>5. QED
  BY <1>1, <1>2, <1>4 DEF SourceKnows, OneMore

LEMMA SourceCloses ==
    ASSUME EncodeAssumption, NEW src, SourceKnows(src), NEW i \in DOMAIN src.open,
           NEW r, r = Hear(src, BlockClose(i))
    PROVE  /\ SourceKnows(r) /\ r.begun = src.begun /\ r.over = src.over
           /\ DOMAIN r.open = DOMAIN src.open \ {i}
           /\ \A j \in DOMAIN r.open : r.open[j] = src.open[j]
           /\ r.seen = src.seen
           /\ Cardinality(DOMAIN r.open) \in Nat
           /\ Cardinality(DOMAIN r.open) < Held
<1>1. /\ IsReader(r) /\ r.begun = src.begun /\ r.over = src.over
      /\ r.open = Restrict(src.open, DOMAIN src.open \ {i}) /\ r.seen = src.seen
  BY HearClose DEF SourceKnows
<1>2. /\ DOMAIN r.open = DOMAIN src.open \ {i}
      /\ \A j \in DOMAIN r.open : r.open[j] = src.open[j]
  BY <1>1 DEF Restrict
<1>3. IsFiniteSet(DOMAIN src.open) /\ Cardinality(DOMAIN src.open) \in Nat
  <2>1. IsFiniteSet(Blocks) /\ DOMAIN src.open \in SUBSET Blocks
    BY DEF EncodeAssumption, SourceKnows
  <2>2. QED
    BY <2>1, FS_Subset, FS_CardinalityType
<1>4. Cardinality(DOMAIN r.open) \in Nat /\ Cardinality(DOMAIN r.open) < Held
  <2>1. /\ IsFiniteSet(DOMAIN r.open)
        /\ Cardinality(DOMAIN r.open) = Cardinality(DOMAIN src.open) - 1
    BY <1>2, <1>3, FS_RemoveElement
  <2>2. Cardinality(DOMAIN r.open) \in Nat
    BY <2>1, FS_CardinalityType
  <2>3. Cardinality(DOMAIN src.open) <= Held /\ Held \in Nat
    BY DEF SourceKnows, EncodeAssumption
  <2>4. QED
    BY <1>3, <2>1, <2>2, <2>3
<1>5. Cardinality(DOMAIN r.open) <= Held
  BY <1>4 DEF EncodeAssumption
<1>6. QED
  BY <1>1, <1>2, <1>4, <1>5 DEF SourceKnows

(* An item opened for a block.                                             *)
LEMMA OpeningPlays ==
    ASSUME EncodeAssumption, NEW h, IsReader(h), h.over = "no", h.begun = TRUE,
           NEW told, NEW blocks, NEW n, NEW output,
           Shows(h.open, h.seen, blocks, n), Lists(output, told, blocks, n),
           IsFiniteSet(DOMAIN blocks), Cardinality(DOMAIN blocks) < Held, n \in OutputIndices,
           NEW i, i \notin DOMAIN blocks, NEW kind \in Kinds,
           NEW b, b = [at |-> n, kind |-> kind, size |-> 0, signed |-> FALSE],
           NEW r, r = Hear(h, BlockOpen(n, kind))
    PROVE  /\ Due(h, BlockOpen(n, kind))
           /\ IsReader(r) /\ r.begun = TRUE /\ r.over = "no"
           /\ Shows(r.open, r.seen, Entered(blocks, i, b), n + 1)
           /\ Lists(output, told, Entered(blocks, i, b), n + 1)
<1>1. /\ n \in Nat /\ blocks \in [DOMAIN blocks -> Block]
      /\ b \in Block /\ b.at = n /\ b.kind = kind /\ b.size = 0
  BY DEF Shows, Block
<1>2. /\ IsFiniteSet(DOMAIN h.open)
      /\ Cardinality(DOMAIN h.open) \in Nat
      /\ Cardinality(DOMAIN h.open) <= Cardinality(DOMAIN blocks)
      /\ n \notin DOMAIN h.open /\ n \notin h.seen /\ Cardinality(h.seen) = n
  BY ShowsNoMore
<1>3. Cardinality(DOMAIN h.open) < Held
  <2>1. Cardinality(DOMAIN blocks) \in Nat /\ Held \in Nat
    BY FS_CardinalityType DEF EncodeAssumption
  <2>2. QED
    BY <1>2, <2>1
<1>4. Due(h, BlockOpen(n, kind))
  BY <1>2, <1>3 DEF Due
<1>5. IsReader(r) /\ r.begun = TRUE /\ r.over = "no"
  BY HearOpen
<1>6. r.open = Entered(h.open, n, kind)
  BY HearOpen
<1>7. r.seen = h.seen \cup {n}
  BY HearOpen
<1>8. Shows(Entered(h.open, n, b.kind), h.seen \cup {n}, Entered(blocks, i, b), n + 1)
  BY <1>1, ShowsOpened
<1>9. Lists(output, told, Entered(blocks, i, b), n + 1)
  BY <1>1, ListsOpened
<1>10. QED
  BY <1>1, <1>4, <1>5, <1>6, <1>7, <1>8, <1>9

(* A signature's item comes, and goes, between two others.                 *)
LEMMA CarryingPlays ==
    ASSUME EncodeAssumption, NEW h, IsReader(h), h.over = "no", h.begun = TRUE,
           NEW told, NEW blocks, NEW n, NEW output,
           Shows(h.open, h.seen, blocks, n), Lists(output, told, blocks, n),
           IsFiniteSet(DOMAIN blocks), Cardinality(DOMAIN blocks) < Held, n \in OutputIndices,
           NEW r, r = Hear(Hear(h, BlockOpen(n, "thinking")), BlockClose(n))
    PROVE  /\ Due(h, BlockOpen(n, "thinking"))
           /\ Due(Hear(h, BlockOpen(n, "thinking")), BlockClose(n))
           /\ IsReader(r) /\ r.begun = TRUE /\ r.over = "no"
           /\ Shows(r.open, r.seen, blocks, n + 1)
           /\ Lists(Append(output, Item(n, "carrier", 0)), told, blocks, n + 1)
<1>1. /\ n \in Nat /\ blocks \in [DOMAIN blocks -> Block]
      /\ \A i \in DOMAIN blocks : blocks[i].at < n
  BY DEF Shows
<1>2. /\ Cardinality(DOMAIN h.open) \in Nat
      /\ Cardinality(DOMAIN h.open) <= Cardinality(DOMAIN blocks)
      /\ n \notin DOMAIN h.open /\ n \notin h.seen /\ Cardinality(h.seen) = n
  BY ShowsNoMore
<1>3. Cardinality(DOMAIN h.open) < Held
  <2>1. Cardinality(DOMAIN blocks) \in Nat /\ Held \in Nat
    BY FS_CardinalityType DEF EncodeAssumption
  <2>2. QED
    BY <1>2, <2>1
<1>4. /\ Due(h, BlockOpen(n, "thinking"))
      /\ Due(Hear(h, BlockOpen(n, "thinking")), BlockClose(n))
      /\ IsReader(r)
      /\ r.begun = TRUE /\ r.over = "no" /\ r.open = h.open /\ r.seen = h.seen \cup {n}
  <2>1. n = Cardinality(h.seen) /\ n \in OutputIndices \ h.seen
    BY <1>2
  <2>2. /\ IsReader(h) /\ h.over = "no" /\ h.begun = TRUE
        /\ r = Hear(Hear(h, BlockOpen(n, "thinking")), BlockClose(n))
    OBVIOUS
  <2>3. CarrierCame(h, n, r)
    BY ONLY <1>2, <1>3, <2>1, <2>2, CarriersPlay
  <2>4. QED
    BY <2>3 DEF CarrierCame
<1>5. Shows(h.open, h.seen \cup {n}, blocks, n + 1)
  BY ShowsCarried
<1>6. Lists(Append(output, Item(n, "carrier", 0)), told, blocks, n + 1)
  BY <1>1, ListsCarried
<1>7. QED
  BY <1>4, <1>5, <1>6

LEMMA Changed ==
    ASSUME NEW s, IsState(s), NEW reasoned, NEW output, NEW next, NEW blocks,
           NEW a, a = [s EXCEPT !.reasoned = reasoned, !.output = output,
                                !.nextOutputIndex = next, !.blocks = blocks]
    PROVE  /\ IsState(a) /\ a.blocks = blocks /\ a.nextOutputIndex = next /\ a.output = output
BY DEF IsState

(* Three events are three events however they are put together.            *)
LEMMA Thrice ==
    ASSUME NEW a, NEW b, NEW c
    PROVE  Append(<<a, b>>, c) = <<a, b, c>> /\ <<a>> \o <<b, c>> = <<a, b, c>>
<1> DEFINE S == {a, b, c}
           s == Append(<<a, b>>, c)
           t == <<a>> \o <<b, c>>
           u == <<a, b, c>>
<1>1. <<a>> \in Seq(S) /\ <<a, b>> \in Seq(S) /\ <<b, c>> \in Seq(S) /\ u \in Seq(S)
  OBVIOUS
<1>2. /\ Len(s) = 3 /\ s \in Seq(S) /\ s[1] = a /\ s[2] = b /\ s[3] = c
  BY <1>1
<1>3. /\ Len(t) = 3 /\ t \in Seq(S) /\ t[1] = a /\ t[2] = b /\ t[3] = c
  BY <1>1
<1>4. Len(u) = 3 /\ u[1] = a /\ u[2] = b /\ u[3] = c
  OBVIOUS
<1> HIDE DEF s, t, u
<1>5. /\ \A i \in 1..Len(s) : s[i] = u[i]
      /\ \A i \in 1..Len(t) : t[i] = u[i]
  BY <1>2, <1>3, <1>4
<1>6. QED
  BY <1>1, <1>2, <1>3, <1>4, <1>5, SeqEqual DEF s, t, u

(* What opening a block does to the encoder, signed or not.                *)
OpensAt(enc, s, i, kind, at, events, output) ==
    /\ enc.events = events
    /\ IsState(enc.state)
    /\ enc.state.blocks =
          Entered(s.blocks, i, [at |-> at, kind |-> kind, size |-> 0, signed |-> FALSE])
    /\ enc.state.nextOutputIndex = at + 1
    /\ enc.state.output = output

LEMMA OpensPlain ==
    ASSUME NEW s, IsState(s), s.nextOutputIndex \in Nat, NEW i, NEW kind, NEW signed,
           ~(kind = "tool" /\ signed), NEW n, n = s.nextOutputIndex
    PROVE  OpensAt(OpenBlock(s, i, kind, signed), s, i, kind, n, <<BlockOpen(n, kind)>>, s.output)
<1> DEFINE enc == OpenBlock(s, i, kind, signed)
           b == [at |-> n, kind |-> kind, size |-> 0, signed |-> FALSE]
           thought == IF kind = "thinking" THEN TRUE ELSE s.reasoned
           held == Entered(s.blocks, i, b)
<1>1. PICK after : after = [s EXCEPT !.reasoned = thought, !.output = s.output,
                                     !.nextOutputIndex = n + 1, !.blocks = held]
  OBVIOUS
<1>2. enc = [state |-> after, events |-> Append(<<>>, BlockOpen(n, kind))]
  <2>1. s.nextOutputIndex + 0 = n
    OBVIOUS
  <2>2. QED
    BY <1>1, <2>1 DEF OpenBlock
<1>3. Append(<<>>, BlockOpen(n, kind)) = <<BlockOpen(n, kind)>>
  OBVIOUS
<1>4. /\ IsState(after) /\ after.blocks = held
      /\ after.nextOutputIndex = n + 1 /\ after.output = s.output
  <2> HIDE DEF thought, held
  <2>1. IsState(s)
    OBVIOUS
  <2>2. QED
    BY ONLY <1>1, <2>1 DEF IsState
<1> HIDE DEF enc
<1>5. QED
  BY <1>2, <1>3, <1>4 DEF OpensAt, enc

LEMMA OpensCarried ==
    ASSUME NEW s, IsState(s), s.nextOutputIndex \in Nat, NEW i, NEW kind, NEW signed,
           kind = "tool" /\ signed, NEW n, n = s.nextOutputIndex
    PROVE  OpensAt(OpenBlock(s, i, kind, signed), s, i, kind, n + 1,
                   <<BlockOpen(n, "thinking"), BlockClose(n), BlockOpen(n + 1, kind)>>,
                   Append(s.output, Item(n, "carrier", 0)))
<1> DEFINE enc == OpenBlock(s, i, kind, signed)
           b == [at |-> n + 1, kind |-> kind, size |-> 0, signed |-> FALSE]
           thought == IF kind = "thinking" THEN TRUE ELSE s.reasoned
           more == Append(s.output, Item(n, "carrier", 0))
           held == Entered(s.blocks, i, b)
           told == Append(<<BlockOpen(n, "thinking"), BlockClose(n)>>, BlockOpen(n + 1, kind))
<1>1. PICK after : after = [s EXCEPT !.reasoned = thought, !.output = more,
                                     !.nextOutputIndex = (n + 1) + 1, !.blocks = held]
  OBVIOUS
<1>2. enc = [state |-> after, events |-> told]
  BY <1>1 DEF OpenBlock, Carrier
<1>3. told = <<BlockOpen(n, "thinking"), BlockClose(n), BlockOpen(n + 1, kind)>>
  BY Thrice
<1>4. /\ IsState(after) /\ after.blocks = held
      /\ after.nextOutputIndex = (n + 1) + 1 /\ after.output = more
  <2> HIDE DEF thought, held, more
  <2>1. IsState(s)
    OBVIOUS
  <2>2. QED
    BY ONLY <1>1, <2>1 DEF IsState
<1> HIDE DEF told, enc
<1>5. QED
  BY ONLY <1>2, <1>3, <1>4 DEF OpensAt, enc

(* A block opens: its item, after the one of its signature.                *)
LEMMA OpensPlay ==
    ASSUME EncodeAssumption, NEW h, NEW told, NEW src, NEW s,
           SourceKnows(src), Matches(h, told, src, s), src.over = "no", src.begun = TRUE,
           Cardinality(DOMAIN src.open) < Held,
           NEW i \in Blocks \ src.seen, NEW kind \in Kinds,
           NEW signed \in BOOLEAN, NEW r, r = Hear(src, BlockOpen(i, kind)),
           NEW enc, enc = OpenBlock(s, i, kind, signed)
    PROVE  SourceKnows(r) /\ Plays(h, told, enc.events, r, enc.state)
<1> DEFINE n == s.nextOutputIndex
           Fresh(at) == [at |-> at, kind |-> kind, size |-> 0, signed |-> FALSE]
           held(at) == Entered(s.blocks, i, Fresh(at))
<1>1. /\ SourceKnows(r) /\ r.begun = TRUE /\ r.over = src.over
      /\ DOMAIN r.open = DOMAIN src.open \cup {i}
      /\ \A j \in DOMAIN r.open : r.open[j] = IF j = i THEN kind ELSE src.open[j]
      /\ r.seen = src.seen \cup {i}
  <2>1. SourceKnows(r) /\ r.begun = TRUE /\ OneMore(src, i, kind, r)
    BY SourceOpens
  <2>2. QED
    BY <2>1 DEF OneMore
<1>2. /\ IsFiniteSet(src.seen) /\ Cardinality(src.seen) \in Nat
      /\ IsFiniteSet(Blocks) /\ Cardinality(Blocks) \in Nat
      /\ IsFiniteSet(DOMAIN src.open) /\ n \in Nat
      /\ Cardinality(Texts(s.blocks)) \in Nat
  BY Matched
<1>3. /\ IsReader(h) /\ IsState(s) /\ h.begun = TRUE /\ h.over = "no"
      /\ DOMAIN s.blocks = DOMAIN src.open
      /\ \A j \in DOMAIN src.open : s.blocks[j].kind = src.open[j]
      /\ Shows(h.open, h.seen, s.blocks, n)
      /\ Lists(s.output, told, s.blocks, n)
      /\ Fitted(s.blocks, n, src.seen)
  BY DEF Matches
<1>4. i \notin DOMAIN s.blocks /\ i \notin src.seen
  BY <1>3 DEF SourceKnows
<1>5. n \in OutputIndices /\ n + 1 \in OutputIndices
  <2>1. Cardinality(src.seen \cup {i}) = Cardinality(src.seen) + 1
    BY <1>2, FS_AddElement
  <2>2. Cardinality(src.seen \cup {i}) <= Cardinality(Blocks)
    <3>1. src.seen \cup {i} \in SUBSET Blocks
      BY DEF SourceKnows
    <3>2. QED
      BY <1>2, <3>1, FS_Subset
  <2>3. QED
    BY <1>2, <1>3, <2>1, <2>2 DEF Fitted, OutputIndices
<1>6. ASSUME NEW at
      PROVE  /\ DOMAIN held(at) = DOMAIN r.open
             /\ \A j \in DOMAIN r.open : held(at)[j].kind = r.open[j]
  BY <1>1, <1>3, <1>4 DEF Entered
<1>7. /\ Fitted(held(n), n + 1, src.seen \cup {i})
      /\ kind # "text" => Fitted(held(n + 1), (n + 1) + 1, src.seen \cup {i})
  <2>1. /\ Fitted(held(n), n + 1, src.seen \cup {i})
        /\ Fresh(n + 1).kind # "text" => Fitted(held(n + 1), n + 2, src.seen \cup {i})
    BY <1>2, <1>3, <1>4, FitOpened
  <2>2. QED
    BY <1>2, <2>1
<1>8. CASE ~(kind = "tool" /\ signed)
  <2> DEFINE e == BlockOpen(n, kind)
             h1 == Hear(h, e)
  <2>1. /\ enc.events = <<e>>
        /\ IsState(enc.state)
        /\ enc.state.blocks = held(n) /\ enc.state.nextOutputIndex = n + 1
        /\ enc.state.output = s.output
    <3>1. OpensAt(enc, s, i, kind, n, <<e>>, s.output)
      BY <1>2, <1>3, <1>8, OpensPlain
    <3>2. QED
      BY ONLY <3>1 DEF OpensAt
  <2>2. /\ Due(h, e)
        /\ IsReader(h1) /\ h1.begun = TRUE /\ h1.over = "no"
        /\ Shows(h1.open, h1.seen, held(n), n + 1)
        /\ Lists(s.output, told, held(n), n + 1)
    BY <1>2, <1>3, <1>4, <1>5, OpeningPlays
  <2>3. Count(told, e) = told
    BY UncountedEvents
  <2> HIDE DEF n, held, e, h1
  <2>4. Matches(h1, told, r, enc.state)
    <3>1. DOMAIN enc.state.blocks = DOMAIN r.open
      BY <1>6, <2>1
    <3>2. \A j \in DOMAIN r.open : enc.state.blocks[j].kind = r.open[j]
      BY <1>6, <2>1
    <3>3. Fitted(enc.state.blocks, enc.state.nextOutputIndex, r.seen)
      BY <1>1, <1>7, <2>1
    <3>4. QED
      BY <1>1, <2>1, <2>2, <3>1, <3>2, <3>3 DEF Matches
  <2>5. QED
    BY <1>1, <2>1, <2>2, <2>3, <2>4 DEF Plays, h1
<1>9. CASE kind = "tool" /\ signed
  <2> DEFINE e1 == BlockOpen(n, "thinking")
             e2 == BlockClose(n)
             e3 == BlockOpen(n + 1, kind)
             h2 == Hear(Hear(h, e1), e2)
             h3 == Hear(h2, e3)
             more == Append(s.output, Item(n, "carrier", 0))
  <2>1. /\ enc.events = <<e1, e2, e3>>
        /\ IsState(enc.state)
        /\ enc.state.blocks = held(n + 1) /\ enc.state.nextOutputIndex = (n + 1) + 1
        /\ enc.state.output = more
    <3>1. OpensAt(enc, s, i, kind, n + 1, <<e1, e2, e3>>, more)
      BY <1>2, <1>3, <1>9, OpensCarried
    <3>2. QED
      BY ONLY <3>1 DEF OpensAt
  <2>2. /\ Due(h, e1) /\ Due(Hear(h, e1), e2)
        /\ IsReader(h2) /\ h2.begun = TRUE /\ h2.over = "no"
        /\ Shows(h2.open, h2.seen, s.blocks, n + 1)
        /\ Lists(more, told, s.blocks, n + 1)
    BY <1>2, <1>3, <1>5, CarryingPlays
  <2>3. /\ Due(h2, e3)
        /\ IsReader(h3) /\ h3.begun = TRUE /\ h3.over = "no"
        /\ Shows(h3.open, h3.seen, held(n + 1), (n + 1) + 1)
        /\ Lists(more, told, held(n + 1), (n + 1) + 1)
    <3> HIDE DEF h2, more
    <3>1. QED
      BY <1>2, <1>3, <1>4, <1>5, <2>2, OpeningPlays
  <2>4. Count(Count(Count(told, e1), e2), e3) = told
    BY UncountedEvents
  <2> HIDE DEF n, held, e1, e2, e3, h2, h3, more
  <2>5. Matches(h3, told, r, enc.state)
    <3>1. DOMAIN enc.state.blocks = DOMAIN r.open
      BY <1>6, <2>1
    <3>2. \A j \in DOMAIN r.open : enc.state.blocks[j].kind = r.open[j]
      BY <1>6, <2>1
    <3>3. Fitted(enc.state.blocks, enc.state.nextOutputIndex, r.seen)
      BY <1>1, <1>7, <1>9, <2>1
    <3>4. QED
      BY <1>1, <2>1, <2>3, <3>1, <3>2, <3>3 DEF Matches
  <2>6. QED
    BY <1>1, <2>1, <2>2, <2>3, <2>4, <2>5 DEF Plays, h2, h3
<1>10. QED
  BY <1>8, <1>9

(* What is said of a block is kept with it.                                *)
TellsOf(enc, s, i, more, events) ==
    /\ enc.events = events
    /\ IsState(enc.state)
    /\ enc.state.nextOutputIndex = s.nextOutputIndex /\ enc.state.output = s.output
    /\ \E b \in Block :
          /\ enc.state.blocks = [s.blocks EXCEPT ![i] = b]
          /\ b.at = s.blocks[i].at /\ b.kind = s.blocks[i].kind
          /\ b.size = s.blocks[i].size + more

LEMMA Tells ==
    ASSUME NEW s, IsState(s), NEW i, s.blocks[i] \in Block, NEW delta
    PROVE  IF delta \in {"signature", "annotation"}
           THEN TellsOf(DeltaEvents(s, i, delta), s, i, 0, <<>>)
           ELSE TellsOf(DeltaEvents(s, i, delta), s, i, 1, <<BlockDelta(s.blocks[i].at, delta)>>)
<1> DEFINE kept == delta \in {"signature", "annotation"}
           more == IF kept THEN 0 ELSE 1
           size == IF kept THEN s.blocks[i].size ELSE s.blocks[i].size + 1
           signed == IF delta = "signature" THEN TRUE ELSE s.blocks[i].signed
           enc == DeltaEvents(s, i, delta)
<1>1. PICK c : c = [s.blocks[i] EXCEPT !.size = size, !.signed = signed]
  OBVIOUS
<1>2. PICK held : held = [s.blocks EXCEPT ![i] = c]
  OBVIOUS
<1>3. PICK after : after = [s EXCEPT !.blocks = held]
  OBVIOUS
<1>4. s.blocks[i].size \in Nat /\ s.blocks[i].signed \in BOOLEAN
  BY DEF Block
<1>5. c \in Block /\ c.at = s.blocks[i].at /\ c.kind = s.blocks[i].kind
      /\ c.size = s.blocks[i].size + more
  <2>1. size = s.blocks[i].size + more /\ more \in Nat
    BY <1>4
  <2>2. signed \in BOOLEAN
    BY <1>4
  <2> HIDE DEF size, signed, more
  <2>3. PICK b \in Block : b = s.blocks[i]
    OBVIOUS
  <2>4. /\ b.at \in Nat /\ b.kind \in Kinds /\ b.size \in Nat
        /\ b = [at |-> b.at, kind |-> b.kind, size |-> b.size, signed |-> b.signed]
    BY DEF Block
  <2>5. c = [at |-> b.at, kind |-> b.kind, size |-> size, signed |-> signed]
    BY ONLY <1>1, <2>3, <2>4
  <2>6. size \in Nat
    BY <2>1, <2>3, <2>4
  <2>7. c \in Block
    BY ONLY <2>2, <2>4, <2>5, <2>6 DEF Block
  <2>8. QED
    BY ONLY <2>1, <2>3, <2>5, <2>7
<1>6. /\ IsState(after) /\ after.blocks = held
      /\ after.nextOutputIndex = s.nextOutputIndex /\ after.output = s.output
  BY <1>3 DEF IsState
<1>7. enc = [state |-> after,
             events |-> IF kept THEN <<>> ELSE <<BlockDelta(c.at, delta)>>]
  BY <1>1, <1>2, <1>3 DEF DeltaEvents
<1> HIDE DEF enc, size, signed
<1>8. CASE kept
  BY <1>2, <1>5, <1>6, <1>7, <1>8 DEF TellsOf, enc
<1>9. CASE ~kept
  BY <1>2, <1>5, <1>6, <1>7, <1>9 DEF TellsOf, enc
<1>10. QED
  BY <1>8, <1>9

(* A reader that was told of no block opened or closed.                    *)
LEMMA SourceStays ==
    ASSUME NEW src, SourceKnows(src), NEW r, IsReader(r), r.open = src.open, r.seen = src.seen,
           src.begun = TRUE => r.begun = TRUE
    PROVE  SourceKnows(r)
BY DEF SourceKnows

(* Something is said of a block.                                           *)
LEMMA DeltasPlay ==
    ASSUME EncodeAssumption, NEW h, NEW told, NEW src, NEW s,
           SourceKnows(src), Matches(h, told, src, s), src.over = "no",
           NEW i \in DOMAIN src.open, NEW delta \in Deltas, Fits(src.open[i], delta),
           NEW r, r = Hear(src, BlockDelta(i, delta)),
           NEW enc, enc = DeltaEvents(s, i, delta)
    PROVE  SourceKnows(r) /\ Plays(h, told, enc.events, r, enc.state)
<1> DEFINE n == s.nextOutputIndex
           at == s.blocks[i].at
           e == BlockDelta(at, delta)
           h1 == Hear(h, e)
           told1 == [told EXCEPT ![at] = @ + 1]
<1>1. /\ IsReader(r) /\ r.begun = src.begun /\ r.open = src.open
      /\ r.seen = src.seen /\ r.over = src.over
  BY HearDelta DEF SourceKnows
<1>2. SourceKnows(r)
  BY <1>1, SourceStays
<1>3. /\ IsReader(h) /\ IsState(s) /\ h.begun = src.begun /\ h.over = "no"
      /\ DOMAIN s.blocks = DOMAIN src.open
      /\ \A j \in DOMAIN src.open : s.blocks[j].kind = src.open[j]
      /\ Shows(h.open, h.seen, s.blocks, n)
      /\ Lists(s.output, told, s.blocks, n)
      /\ Fitted(s.blocks, n, src.seen)
  BY DEF Matches
<1>4. /\ n \in Nat /\ s.blocks \in [DOMAIN s.blocks -> Block] /\ s.blocks[i] \in Block
      /\ \A j \in DOMAIN s.blocks : s.blocks[j].at < n
      /\ \A j, k \in DOMAIN s.blocks : s.blocks[j].at = s.blocks[k].at => j = k
      /\ i \in DOMAIN s.blocks /\ at \in DOMAIN h.open /\ h.open[at] = s.blocks[i].kind
  BY <1>3 DEF Shows
<1>5. ASSUME NEW b \in Block, b.at = at, b.kind = s.blocks[i].kind, NEW more \in Nat,
             b.size = s.blocks[i].size + more, NEW held, held = [s.blocks EXCEPT ![i] = b]
      PROVE  /\ DOMAIN held = DOMAIN r.open
             /\ \A j \in DOMAIN r.open : held[j].kind = r.open[j]
             /\ Shows(h.open, h.seen, held, n)
             /\ Lists(s.output, [told EXCEPT ![at] = @ + more], held, n)
             /\ Fitted(held, n, r.seen)
  <2>1. /\ DOMAIN held = DOMAIN r.open
        /\ \A j \in DOMAIN r.open : held[j].kind = r.open[j]
    BY <1>1, <1>3, <1>4, <1>5
  <2>2. Shows(h.open, h.seen, held, n)
    BY <1>3, <1>4, <1>5, ShowsTold
  <2>3. Lists(s.output, [told EXCEPT ![at] = @ + more], held, n)
    BY <1>3, <1>4, <1>5, ListsTold
  <2>4. Fitted(held, n, r.seen)
    BY <1>1, <1>3, <1>4, <1>5, FitTold
  <2>5. QED
    BY <2>1, <2>2, <2>3, <2>4
<1>6. CASE delta \in {"signature", "annotation"}
  <2>1. TellsOf(enc, s, i, 0, <<>>)
    BY <1>3, <1>4, <1>6, Tells
  <2>2. PICK b \in Block : /\ enc.state.blocks = [s.blocks EXCEPT ![i] = b]
                           /\ b.at = at /\ b.kind = s.blocks[i].kind
                           /\ b.size = s.blocks[i].size + 0
    BY <2>1 DEF TellsOf
  <2>3. enc.events = <<>> /\ IsState(enc.state) /\ enc.state.nextOutputIndex = n
        /\ enc.state.output = s.output
    BY <2>1 DEF TellsOf
  <2>4. [told EXCEPT ![at] = @ + 0] = told
    BY <1>3 DEF Lists
  <2>5. /\ DOMAIN enc.state.blocks = DOMAIN r.open
        /\ \A j \in DOMAIN r.open : enc.state.blocks[j].kind = r.open[j]
        /\ Shows(h.open, h.seen, enc.state.blocks, n)
        /\ Lists(s.output, told, enc.state.blocks, n)
        /\ Fitted(enc.state.blocks, n, r.seen)
    BY <1>5, <2>2, <2>4
  <2> HIDE DEF n, at
  <2>6. Matches(h, told, r, enc.state)
    BY <1>1, <1>3, <2>3, <2>5 DEF Matches
  <2>7. QED
    BY <1>2, <2>3, <2>6 DEF Plays
<1>7. CASE delta \notin {"signature", "annotation"}
  <2>1. TellsOf(enc, s, i, 1, <<e>>)
    BY <1>3, <1>4, <1>7, Tells
  <2>2. PICK b \in Block : /\ enc.state.blocks = [s.blocks EXCEPT ![i] = b]
                           /\ b.at = at /\ b.kind = s.blocks[i].kind
                           /\ b.size = s.blocks[i].size + 1
    BY <2>1 DEF TellsOf
  <2>3. enc.events = <<e>> /\ IsState(enc.state) /\ enc.state.nextOutputIndex = n
        /\ enc.state.output = s.output
    BY <2>1 DEF TellsOf
  <2>4. Due(h, e)
    BY <1>3, <1>4 DEF Due
  <2>5. /\ IsReader(h1) /\ h1.begun = h.begun /\ h1.open = h.open
        /\ h1.seen = h.seen /\ h1.over = h.over
    BY <1>3, HearDelta
  <2>6. Count(told, e) = told1
    BY UncountedEvents
  <2>7. /\ DOMAIN enc.state.blocks = DOMAIN r.open
        /\ \A j \in DOMAIN r.open : enc.state.blocks[j].kind = r.open[j]
        /\ Shows(h.open, h.seen, enc.state.blocks, n)
        /\ Lists(s.output, told1, enc.state.blocks, n)
        /\ Fitted(enc.state.blocks, n, r.seen)
    BY <1>5, <2>2
  <2> HIDE DEF n, at, e, h1, told1
  <2>8. Matches(h1, told1, r, enc.state)
    BY <1>1, <1>3, <2>3, <2>5, <2>7 DEF Matches
  <2>9. QED
    BY <1>2, <2>3, <2>4, <2>6, <2>8 DEF Plays, h1
<1>8. QED
  BY <1>6, <1>7

(* What closing a block does to the encoder, with a signature to carry or  *)
(* without one.                                                            *)
ClosesOf(enc, s, i, next, events, output) ==
    /\ enc.events = events
    /\ IsState(enc.state)
    /\ enc.state.blocks = Restrict(s.blocks, DOMAIN s.blocks \ {i})
    /\ enc.state.nextOutputIndex = next
    /\ enc.state.output = output

Signs(block) == block.kind = "text" /\ block.signed = TRUE /\ Native = TRUE

LEMMA Closes ==
    ASSUME EncodeAssumption, NEW s, IsState(s), s.nextOutputIndex \in Nat, NEW i,
           s.blocks[i] \in Block, NEW n, n = s.nextOutputIndex, NEW b, b = s.blocks[i],
           NEW done, done = Append(s.output, Item(b.at, b.kind, b.size))
    PROVE  IF Signs(b)
           THEN ClosesOf(CloseBlock(s, i), s, i, n + 1,
                         <<BlockClose(b.at), BlockOpen(n, "thinking"), BlockClose(n)>>,
                         Append(done, Item(n, "carrier", 0)))
           ELSE ClosesOf(CloseBlock(s, i), s, i, n, <<BlockClose(b.at)>>, done)
<1> DEFINE enc == CloseBlock(s, i)
           held == Restrict(s.blocks, DOMAIN s.blocks \ {i})
           told == <<BlockClose(b.at)>> \o <<BlockOpen(n, "thinking"), BlockClose(n)>>
<1>1. b.signed \in BOOLEAN /\ Native \in BOOLEAN
  BY DEF Block, EncodeAssumption
<1>2. PICK closed : closed = [s EXCEPT !.blocks = held, !.output = done]
  OBVIOUS
<1>3. /\ IsState(closed) /\ closed.blocks = held
      /\ closed.nextOutputIndex = n /\ closed.output = done
  <2> HIDE DEF held
  <2>1. QED
    BY ONLY <1>2, IsState(s), n = s.nextOutputIndex DEF IsState
<1>4. CASE Signs(b)
  <2>1. PICK after : after = [closed EXCEPT !.nextOutputIndex = n + 1,
                                            !.output = Append(done, Item(n, "carrier", 0))]
    OBVIOUS
  <2>2. /\ IsState(after) /\ after.blocks = held
        /\ after.nextOutputIndex = n + 1 /\ after.output = Append(done, Item(n, "carrier", 0))
    <3> HIDE DEF held
    <3>1. QED
      BY ONLY <1>3, <2>1 DEF IsState
  <2>3. enc = [state |-> after, events |-> told]
    BY <1>1, <1>2, <1>3, <1>4, <2>1 DEF CloseBlock, Carrier, Signs
  <2>4. told = <<BlockClose(b.at), BlockOpen(n, "thinking"), BlockClose(n)>>
    BY Thrice
  <2> HIDE DEF enc, told
  <2>5. QED
    BY <1>4, <2>2, <2>3, <2>4 DEF ClosesOf, enc
<1>5. CASE ~Signs(b)
  <2>1. enc = [state |-> closed, events |-> <<BlockClose(b.at)>>]
    BY <1>1, <1>2, <1>5 DEF CloseBlock, Signs
  <2> HIDE DEF enc
  <2>2. QED
    BY <1>3, <1>5, <2>1 DEF ClosesOf, enc
<1>6. QED
  BY <1>4, <1>5

(* A block closes: its item is done, and its signature carried after it.   *)
LEMMA ClosesPlay ==
    ASSUME EncodeAssumption, NEW h, NEW told, NEW src, NEW s,
           SourceKnows(src), Matches(h, told, src, s), src.over = "no",
           NEW i \in DOMAIN src.open,
           NEW r, r = Hear(src, BlockClose(i)),
           NEW enc, enc = CloseBlock(s, i)
    PROVE  SourceKnows(r) /\ Plays(h, told, enc.events, r, enc.state)
<1> DEFINE n == s.nextOutputIndex
           b == s.blocks[i]
           e == BlockClose(b.at)
           h1 == Hear(h, e)
           held == Restrict(s.blocks, DOMAIN s.blocks \ {i})
           done == Append(s.output, Item(b.at, b.kind, b.size))
<1>1. /\ SourceKnows(r) /\ r.begun = src.begun /\ r.over = src.over
      /\ DOMAIN r.open = DOMAIN src.open \ {i}
      /\ \A j \in DOMAIN r.open : r.open[j] = src.open[j]
      /\ r.seen = src.seen
      /\ Cardinality(DOMAIN r.open) \in Nat
      /\ Cardinality(DOMAIN r.open) < Held
  BY SourceCloses
<1>2. /\ IsFiniteSet(src.seen) /\ Cardinality(src.seen) \in Nat
      /\ Cardinality(Blocks) \in Nat /\ Cardinality(src.seen) <= Cardinality(Blocks)
      /\ IsFiniteSet(DOMAIN src.open) /\ n \in Nat
  BY Matched
<1>3. /\ IsReader(h) /\ IsState(s) /\ h.begun = src.begun /\ h.over = "no"
      /\ DOMAIN s.blocks = DOMAIN src.open
      /\ \A j \in DOMAIN src.open : s.blocks[j].kind = src.open[j]
      /\ Shows(h.open, h.seen, s.blocks, n)
      /\ Lists(s.output, told, s.blocks, n)
      /\ Fitted(s.blocks, n, src.seen)
  BY DEF Matches
<1>4. /\ s.blocks \in [DOMAIN s.blocks -> Block] /\ b \in Block
      /\ \A j \in DOMAIN s.blocks : s.blocks[j].at < n
      /\ \A j, k \in DOMAIN s.blocks : s.blocks[j].at = s.blocks[k].at => j = k
      /\ i \in DOMAIN s.blocks /\ b.at \in DOMAIN h.open
  BY <1>3 DEF Shows
<1>5. h.begun = TRUE
  BY <1>3 DEF SourceKnows
<1>6. Due(h, e)
  BY <1>3, <1>4 DEF Due
<1>7. /\ IsReader(h1) /\ h1.begun = h.begun /\ h1.over = h.over
      /\ h1.open = Restrict(h.open, DOMAIN h.open \ {b.at}) /\ h1.seen = h.seen
  BY <1>3, HearClose
<1>8. /\ Shows(h1.open, h1.seen, held, n)
      /\ Lists(done, told, held, n)
      /\ Fitted(held, n, src.seen)
      /\ b.kind = "text" => Fitted(held, n + 1, src.seen)
  <2>1. Shows(Restrict(h.open, DOMAIN h.open \ {b.at}), h.seen, held, n)
    BY <1>3, <1>4, ShowsClosed
  <2>2. Lists(done, told, held, n)
    BY <1>2, <1>3, <1>4, ListsClosed
  <2>3. /\ Fitted(held, n, src.seen)
        /\ b.kind = "text" => Fitted(held, n + 1, src.seen)
    BY <1>2, <1>3, <1>4, FitClosed
  <2>4. QED
    BY <1>7, <2>1, <2>2, <2>3
<1>9. /\ DOMAIN held = DOMAIN r.open /\ IsFiniteSet(DOMAIN held)
      /\ \A j \in DOMAIN r.open : held[j].kind = r.open[j]
  <2>1. /\ DOMAIN held = DOMAIN r.open
        /\ \A j \in DOMAIN r.open : held[j].kind = r.open[j]
    BY <1>1, <1>3 DEF Restrict
  <2>2. DOMAIN r.open \in SUBSET DOMAIN src.open
    BY <1>1
  <2>3. QED
    BY <1>2, <2>1, <2>2, FS_Subset
<1>10. Count(told, e) = told
  BY UncountedEvents
<1>11. CASE ~Signs(b)
  <2>1. ClosesOf(enc, s, i, n, <<e>>, done)
    BY <1>2, <1>3, <1>4, <1>11, Closes
  <2> HIDE DEF n, b, e, held, done
  <2>2. /\ enc.events = <<e>> /\ IsState(enc.state)
        /\ enc.state.blocks = held /\ enc.state.nextOutputIndex = n
        /\ enc.state.output = done
    BY <2>1 DEF ClosesOf, held
  <2> HIDE DEF h1
  <2>3. Matches(h1, told, r, enc.state)
    BY <1>1, <1>3, <1>7, <1>8, <1>9, <2>2 DEF Matches
  <2>4. QED
    BY <1>1, <1>6, <1>10, <2>2, <2>3 DEF Plays, h1
<1>12. CASE Signs(b)
  <2> DEFINE e2 == BlockOpen(n, "thinking")
             e3 == BlockClose(n)
             h3 == Hear(Hear(h1, e2), e3)
             more == Append(done, Item(n, "carrier", 0))
  <2>1. ClosesOf(enc, s, i, n + 1, <<e, e2, e3>>, more)
    BY <1>2, <1>3, <1>4, <1>12, Closes
  <2>2. Fitted(held, n + 1, src.seen)
    BY <1>8, <1>12 DEF Signs
  <2>3. n \in OutputIndices
    <3>1. Cardinality(Texts(held)) \in Nat
      BY <1>9, TextsCount
    <3>2. QED
      BY <1>2, <2>2, <3>1 DEF Fitted, OutputIndices
  <2>4. Count(Count(Count(told, e), e2), e3) = told
    BY UncountedEvents
  <2>5. /\ Due(h1, e2) /\ Due(Hear(h1, e2), e3)
        /\ IsReader(h3) /\ h3.begun = TRUE /\ h3.over = "no"
        /\ Shows(h3.open, h3.seen, held, n + 1)
        /\ Lists(more, told, held, n + 1)
    <3>1. h1.begun = TRUE /\ h1.over = "no"
      BY <1>3, <1>5, <1>7
    <3> HIDE DEF h1, held, done
    <3>2. /\ EncodeAssumption /\ IsReader(h1) /\ IsFiniteSet(DOMAIN held)
          /\ Shows(h1.open, h1.seen, held, n) /\ Lists(done, told, held, n)
      BY <1>7, <1>8, <1>9
    <3>3. Cardinality(DOMAIN held) < Held
      BY <1>1, <1>9
    <3>4. QED
      BY ONLY <2>3, <3>1, <3>2, <3>3, CarryingPlays
  <2> HIDE DEF n, b, e, held, done, e2, e3, more
  <2>6. /\ enc.events = <<e, e2, e3>> /\ IsState(enc.state)
        /\ enc.state.blocks = held /\ enc.state.nextOutputIndex = n + 1
        /\ enc.state.output = more
    BY <2>1 DEF ClosesOf, held
  <2> HIDE DEF h1, h3
  <2>7. Matches(h3, told, r, enc.state)
    BY <1>1, <1>3, <1>5, <1>9, <2>2, <2>5, <2>6 DEF Matches
  <2>8. QED
    BY <1>1, <1>6, <2>4, <2>5, <2>6, <2>7 DEF Plays, h1, h3
<1>13. QED
  BY <1>11, <1>12

-----------------------------------------------------------------------------
(* A step of the encoder.                                                  *)

(* The message begins.                                                     *)
LEMMA BeginningPlays ==
    ASSUME NEW h, NEW told, NEW src, NEW s,
           SourceKnows(src), Matches(h, told, src, s), src.over = "no", src.begun = FALSE,
           NEW r, r = Hear(src, MessageBegin)
    PROVE  SourceKnows(r) /\ Plays(h, told, <<MessageBegin>>, r, s)
<1> DEFINE h1 == Hear(h, MessageBegin)
<1>1. /\ IsReader(r) /\ r.begun = TRUE /\ r.open = src.open
      /\ r.seen = src.seen /\ r.over = src.over
  BY HearBegin DEF SourceKnows
<1>2. SourceKnows(r)
  BY <1>1, SourceStays
<1>3. IsReader(h) /\ h.begun = FALSE /\ h.over = "no"
  BY DEF Matches
<1>4. /\ IsReader(h1) /\ h1.begun = TRUE /\ h1.open = h.open
      /\ h1.seen = h.seen /\ h1.over = h.over
  BY <1>3, HearBegin
<1>5. Due(h, MessageBegin)
  BY <1>3 DEF Due
<1> HIDE DEF h1
<1>6. Matches(h1, told, r, s)
  BY <1>1, <1>3, <1>4 DEF Matches
<1>7. Count(told, MessageBegin) = told
  BY UncountedEvents
<1>8. QED
  BY <1>2, <1>5, <1>6, <1>7 DEF Plays, h1

(* What the Responses dialect has no item for is not told.                 *)
LEMMA MediaPlay ==
    ASSUME NEW h, NEW told, NEW src, NEW s,
           SourceKnows(src), Matches(h, told, src, s),
           NEW r, r = Hear(src, Media)
    PROVE  SourceKnows(r) /\ Plays(h, told, <<>>, r, s)
<1>1. /\ IsReader(r) /\ r.begun = src.begun /\ r.open = src.open
      /\ r.seen = src.seen /\ r.over = src.over
  BY HearMedia DEF SourceKnows
<1>2. SourceKnows(r)
  BY <1>1, SourceStays
<1>3. Matches(h, told, r, s)
  BY <1>1 DEF Matches
<1>4. QED
  BY <1>2, <1>3 DEF Plays

(* The stream is over, one way or the other, and so is the client's.       *)
LEMMA EndingPlays ==
    ASSUME NEW h, NEW told, NEW src, NEW s,
           SourceKnows(src), Matches(h, told, src, s), src.over = "no",
           NEW r, IsReader(r), r.begun = src.begun, r.open = src.open, r.seen = src.seen,
           r.over # "no",
           NEW e, \/ e = StreamError
                  \/ DOMAIN src.open = {} /\ \E stop \in Client!Stops : e = MessageEnd(stop)
    PROVE  SourceKnows(r) /\ Plays(h, told, <<e>>, r, s)
<1> DEFINE h1 == Hear(h, e)
<1>1. SourceKnows(r)
  BY SourceStays
<1>2. /\ IsReader(h) /\ h.over = "no" /\ Shows(h.open, h.seen, s.blocks, s.nextOutputIndex)
      /\ DOMAIN s.blocks = DOMAIN src.open
  BY DEF Matches
<1>3. /\ IsReader(h1) /\ h1.begun = h.begun /\ h1.open = h.open /\ h1.seen = h.seen
  BY <1>2, HearBreak, HearEnd
<1>4. Due(h, e)
  <2>1. DOMAIN src.open = {} => DOMAIN h.open = {}
    BY <1>2 DEF Shows
  <2>2. QED
    BY <1>2, <2>1 DEF Due
<1>5. Count(told, e) = told
  BY UncountedEvents
<1> HIDE DEF h1
<1>6. Matches(h1, told, r, s)
  BY <1>3 DEF Matches
<1>7. QED
  BY <1>1, <1>4, <1>5, <1>6 DEF Plays, h1

LEMMA EncodedEvents ==
    /\ \A s, signed : EncodeHubEvent(s, MessageBegin, signed) =
                         [state |-> s, events |-> <<MessageBegin>>]
    /\ \A s, i, kind, signed : EncodeHubEvent(s, BlockOpen(i, kind), signed) =
                                  OpenBlock(s, i, kind, signed)
    /\ \A s, i, delta, signed : EncodeHubEvent(s, BlockDelta(i, delta), signed) =
                                   DeltaEvents(s, i, delta)
    /\ \A s, i, signed : EncodeHubEvent(s, BlockClose(i), signed) = CloseBlock(s, i)
    /\ \A s, signed : EncodeHubEvent(s, Media, signed) = [state |-> s, events |-> <<>>]
    /\ \A s, stop, signed : EncodeHubEvent(s, MessageEnd(stop), signed) =
                               [state |-> s, events |-> <<CompletedEvent(s, stop)>>]
    /\ \A s, signed : EncodeHubEvent(s, StreamError, signed) =
                         [state |-> s, events |-> <<StreamError>>]
BY DEF EncodeHubEvent, MessageBegin, BlockOpen, BlockDelta, BlockClose, Media, MessageEnd,
       StreamError

LEMMA CompletedEvents ==
    ASSUME NEW s, NEW stop
    PROVE  \/ CompletedEvent(s, stop) = StreamError
           \/ \E told \in Client!Stops : CompletedEvent(s, stop) = MessageEnd(told)
BY DEF CompletedEvent, Client!Stops

LEMMA BlocksDoNotEnd ==
    /\ \A i, kind : BlockOpen(i, kind).type # "message-end"
    /\ \A i, delta : BlockDelta(i, delta).type # "message-end"
    /\ \A i : BlockClose(i).type # "message-end"
    /\ MessageBegin.type # "message-end"
    /\ StreamError.type # "message-end"
BY DEF BlockOpen, BlockDelta, BlockClose, MessageBegin, StreamError

LEMMA NoEndAmong ==
    ASSUME NEW src, NEW s, NEW a, NEW b, NEW c, a.type # "message-end"
    PROVE  /\ Ending(<<>>, src, s)
           /\ Ending(<<a>>, src, s)
           /\ b.type # "message-end" /\ c.type # "message-end" => Ending(<<a, b, c>>, src, s)
<1>1. Ending(<<>>, src, s)
  BY DEF Ending
<1>2. Ending(<<a>>, src, s)
  BY DEF Ending
<1>3. ASSUME b.type # "message-end", c.type # "message-end"
      PROVE  Ending(<<a, b, c>>, src, s)
  <2> DEFINE t == <<a, b, c>>
  <2>1. Len(t) = 3 /\ t[1] = a /\ t[2] = b /\ t[3] = c
    OBVIOUS
  <2> HIDE DEF t
  <2>2. \A m \in 1..Len(t) : t[m].type # "message-end"
    <3>1. \A m \in 1..Len(t) : m = 1 \/ m = 2 \/ m = 3
      BY <2>1
    <3>2. QED
      BY <1>3, <2>1, <3>1
  <2>3. QED
    BY <2>2 DEF Ending, t
<1>4. QED
  BY <1>1, <1>2, <1>3

(* With nothing left to pull, an event of the decoder's is encoded into    *)
(* events that are due.                                                    *)
LEMMA EncodingPlays ==
    ASSUME EncodeAssumption, NEW h, NEW told, NEW src, NEW s, NEW r,
           SourceKnows(src), Matches(h, told, src, s), src.over = "no",
           NEW signed \in BOOLEAN, NEW e, r = Hear(src, e),
           \/ src.begun = FALSE /\ e = MessageBegin
           \/ /\ src.begun = TRUE /\ Cardinality(DOMAIN src.open) < Held
              /\ \E i \in Blocks \ src.seen, kind \in Kinds : e = BlockOpen(i, kind)
           \/ \E i \in DOMAIN src.open, delta \in Deltas :
                 Fits(src.open[i], delta) /\ e = BlockDelta(i, delta)
           \/ \E i \in DOMAIN src.open : e = BlockClose(i)
           \/ e = Media
           \/ DOMAIN src.open = {} /\ \E stop \in Client!Stops : e = MessageEnd(stop)
           \/ e = StreamError,
           NEW enc, enc = EncodeHubEvent(s, e, signed)
    PROVE  SourceKnows(r) /\ Plays(h, told, enc.events, r, enc.state)
           /\ Ending(enc.events, r, enc.state)
<1>1. /\ IsReader(src) /\ IsState(s) /\ s.nextOutputIndex \in Nat
      /\ s.blocks \in [DOMAIN s.blocks -> Block] /\ DOMAIN s.blocks = DOMAIN src.open
  BY DEF SourceKnows, Matches, Shows
<1>2. CASE src.begun = FALSE /\ e = MessageBegin
  <2>1. enc.state = s /\ enc.events = <<MessageBegin>>
    BY <1>2, EncodedEvents
  <2>2. SourceKnows(r) /\ Plays(h, told, <<MessageBegin>>, r, s)
    BY <1>2, BeginningPlays
  <2>3. Ending(<<MessageBegin>>, r, s)
    BY BlocksDoNotEnd, NoEndAmong
  <2>4. QED
    BY <2>1, <2>2, <2>3
<1>3. ASSUME src.begun = TRUE, Cardinality(DOMAIN src.open) < Held,
             NEW i \in Blocks \ src.seen, NEW kind \in Kinds, e = BlockOpen(i, kind)
      PROVE  SourceKnows(r) /\ Plays(h, told, enc.events, r, enc.state)
             /\ Ending(enc.events, r, enc.state)
  <2>1. enc = OpenBlock(s, i, kind, signed)
    BY <1>3, EncodedEvents
  <2>2. SourceKnows(r) /\ Plays(h, told, enc.events, r, enc.state)
    BY <1>3, <2>1, OpensPlay
  <2>3. Ending(enc.events, r, enc.state)
    <3> DEFINE n == s.nextOutputIndex
    <3>1. CASE kind = "tool" /\ signed
      <4>1. enc.events = <<BlockOpen(n, "thinking"), BlockClose(n), BlockOpen(n + 1, kind)>>
        <5>1. OpensAt(enc, s, i, kind, n + 1,
                      <<BlockOpen(n, "thinking"), BlockClose(n), BlockOpen(n + 1, kind)>>,
                      Append(s.output, Item(n, "carrier", 0)))
          BY ONLY <1>1, <2>1, <3>1, OpensCarried
        <5>2. QED
          BY <5>1 DEF OpensAt
      <4>2. /\ BlockOpen(n, "thinking").type # "message-end"
            /\ BlockClose(n).type # "message-end"
            /\ BlockOpen(n + 1, kind).type # "message-end"
        BY ONLY BlocksDoNotEnd
      <4>3. QED
        BY ONLY <4>1, <4>2, NoEndAmong
    <3>2. CASE ~(kind = "tool" /\ signed)
      <4>1. enc.events = <<BlockOpen(n, kind)>>
        <5>1. OpensAt(enc, s, i, kind, n, <<BlockOpen(n, kind)>>, s.output)
          BY <1>1, <2>1, <3>2, OpensPlain
        <5>2. QED
          BY <5>1 DEF OpensAt
      <4>2. QED
        BY <4>1, BlocksDoNotEnd, NoEndAmong
    <3>3. QED
      BY <3>1, <3>2
  <2>4. QED
    BY <2>2, <2>3
<1>4. ASSUME NEW i \in DOMAIN src.open, NEW delta \in Deltas,
             Fits(src.open[i], delta), e = BlockDelta(i, delta)
      PROVE  SourceKnows(r) /\ Plays(h, told, enc.events, r, enc.state)
             /\ Ending(enc.events, r, enc.state)
  <2>1. enc = DeltaEvents(s, i, delta)
    BY <1>4, EncodedEvents
  <2>2. SourceKnows(r) /\ Plays(h, told, enc.events, r, enc.state)
    BY <1>4, <2>1, DeltasPlay
  <2>3. enc.events = <<>> \/ enc.events = <<BlockDelta(s.blocks[i].at, delta)>>
    <3>1. s.blocks[i] \in Block
      BY <1>1
    <3>2. QED
      BY <1>1, <2>1, <3>1, Tells DEF TellsOf
  <2>4. Ending(enc.events, r, enc.state)
    BY <2>3, BlocksDoNotEnd, NoEndAmong
  <2>5. QED
    BY <2>2, <2>4
<1>5. ASSUME NEW i \in DOMAIN src.open, e = BlockClose(i)
      PROVE  SourceKnows(r) /\ Plays(h, told, enc.events, r, enc.state)
             /\ Ending(enc.events, r, enc.state)
  <2> DEFINE n == s.nextOutputIndex
             first == BlockClose(s.blocks[i].at)
  <2>1. enc = CloseBlock(s, i)
    BY <1>5, EncodedEvents
  <2>2. SourceKnows(r) /\ Plays(h, told, enc.events, r, enc.state)
    BY <1>5, <2>1, ClosesPlay
  <2>3. \/ enc.events = <<first>>
        \/ enc.events = <<first, BlockOpen(n, "thinking"), BlockClose(n)>>
    <3>1. s.blocks[i] \in Block
      BY <1>1
    <3> DEFINE b == s.blocks[i]
               done == Append(s.output, Item(b.at, b.kind, b.size))
    <3>2. IF Signs(b)
          THEN ClosesOf(enc, s, i, n + 1, <<first, BlockOpen(n, "thinking"), BlockClose(n)>>,
                        Append(done, Item(n, "carrier", 0)))
          ELSE ClosesOf(enc, s, i, n, <<first>>, done)
      BY <1>1, <2>1, <3>1, Closes
    <3>3. QED
      BY <3>2 DEF ClosesOf
  <2>4. Ending(enc.events, r, enc.state)
    BY <2>3, BlocksDoNotEnd, NoEndAmong
  <2>5. QED
    BY <2>2, <2>4
<1>6. CASE e = Media
  <2>1. enc.state = s /\ enc.events = <<>>
    BY <1>6, EncodedEvents
  <2>2. SourceKnows(r) /\ Plays(h, told, <<>>, r, s)
    BY <1>6, MediaPlay
  <2>3. Ending(<<>>, r, s)
    BY DEF Ending
  <2>4. QED
    BY <2>1, <2>2, <2>3
<1>7. ASSUME DOMAIN src.open = {}, NEW stop \in Client!Stops, e = MessageEnd(stop)
      PROVE  SourceKnows(r) /\ Plays(h, told, enc.events, r, enc.state)
             /\ Ending(enc.events, r, enc.state)
  <2> DEFINE last == CompletedEvent(s, stop)
  <2>1. enc.state = s /\ enc.events = <<last>>
    BY <1>7, EncodedEvents
  <2>2. /\ IsReader(r) /\ r.begun = src.begun /\ r.open = src.open
        /\ r.seen = src.seen /\ r.over = "ended"
    BY <1>1, <1>7, HearEnd
  <2>3. \/ last = StreamError
        \/ DOMAIN src.open = {} /\ \E shown \in Client!Stops : last = MessageEnd(shown)
    BY <1>7, CompletedEvents
  <2> HIDE DEF last
  <2>4. SourceKnows(r) /\ Plays(h, told, <<last>>, r, s)
    BY <2>2, <2>3, EndingPlays
  <2>5. Ending(<<last>>, r, s)
    BY <1>1, <1>7, <2>2 DEF Ending
  <2>6. QED
    BY <2>1, <2>4, <2>5
<1>8. CASE e = StreamError
  <2>1. enc.state = s /\ enc.events = <<StreamError>>
    BY <1>8, EncodedEvents
  <2>2. /\ IsReader(r) /\ r.begun = src.begun /\ r.open = src.open
        /\ r.seen = src.seen /\ r.over = "broken"
    BY <1>1, <1>8, HearBreak
  <2>3. SourceKnows(r) /\ Plays(h, told, <<StreamError>>, r, s)
    BY <2>2, EndingPlays
  <2>4. Ending(<<StreamError>>, r, s)
    BY BlocksDoNotEnd, NoEndAmong
  <2>5. QED
    BY <2>1, <2>3, <2>4
<1>9. QED
  BY <1>2, <1>3, <1>4, <1>5, <1>6, <1>7, <1>8

(* The decoder and the client hear with the same ears as everyone.         *)
LEMMA SourceWords ==
    /\ \A h, e : Source!Hear(h, e) = Hear(h, e)
    /\ Source!MessageBegin = MessageBegin
    /\ \A i, kind : Source!BlockOpen(i, kind) = BlockOpen(i, kind)
    /\ \A i, delta : Source!BlockDelta(i, delta) = BlockDelta(i, delta)
    /\ \A i : Source!BlockClose(i) = BlockClose(i)
    /\ Source!Media = Media
    /\ \A stop : Source!MessageEnd(stop) = MessageEnd(stop)
    /\ Source!StreamError = StreamError
    /\ \A kind, delta : Source!Fits(kind, delta) = Fits(kind, delta)
    /\ Source!Kinds = Kinds /\ Source!Deltas = Deltas /\ Source!Silence = Silence
    /\ \A S : Source!Cardinality(S) = Cardinality(S)
<1>1. \A h, e : Source!Hear(h, e) = Hear(h, e)
  <2>1. \A t, k, v : Source!Entered(t, k, v) = Entered(t, k, v)
    BY DEF Source!Entered, Entered
  <2>2. \A f, S : Source!Restrict(f, S) = Restrict(f, S)
    BY DEF Source!Restrict, Restrict
  <2>3. QED
    BY <2>1, <2>2 DEF Source!Hear, Hear
<1>2. \A S : Source!Cardinality(S) = Cardinality(S)
  BY DEF Source!Cardinality, Cardinality
<1>3. QED
  BY <1>1, <1>2 DEF Source!MessageBegin, MessageBegin, Source!BlockOpen, BlockOpen, Source!BlockDelta, BlockDelta,
     Source!BlockClose, BlockClose, Source!Media, Media, Source!MessageEnd, MessageEnd,
     Source!StreamError, StreamError, Source!Fits, Fits, Source!Kinds, Kinds, Source!Deltas, Deltas,
     Source!Silence, Silence, Source!Nothing, Nothing, Source!NoBlocks, NoBlocks


LEMMA ClientWords ==
    /\ \A h, e : Client!Hear(h, e) = Hear(h, e)
    /\ Client!MessageBegin = MessageBegin
    /\ \A i, kind : Client!BlockOpen(i, kind) = BlockOpen(i, kind)
    /\ \A i, delta : Client!BlockDelta(i, delta) = BlockDelta(i, delta)
    /\ \A i : Client!BlockClose(i) = BlockClose(i)
    /\ Client!Media = Media
    /\ \A stop : Client!MessageEnd(stop) = MessageEnd(stop)
    /\ Client!StreamError = StreamError
    /\ \A kind, delta : Client!Fits(kind, delta) = Fits(kind, delta)
    /\ Client!Kinds = Kinds /\ Client!Deltas = Deltas /\ Client!Silence = Silence
    /\ \A S : Client!Cardinality(S) = Cardinality(S)
<1>1. \A h, e : Client!Hear(h, e) = Hear(h, e)
  <2>1. \A t, k, v : Client!Entered(t, k, v) = Entered(t, k, v)
    BY DEF Client!Entered, Entered
  <2>2. \A f, S : Client!Restrict(f, S) = Restrict(f, S)
    BY DEF Client!Restrict, Restrict
  <2>3. QED
    BY <2>1, <2>2 DEF Client!Hear, Hear
<1>2. \A S : Client!Cardinality(S) = Cardinality(S)
  BY DEF Client!Cardinality, Cardinality
<1>3. QED
  BY <1>1, <1>2 DEF Client!MessageBegin, MessageBegin, Client!BlockOpen, BlockOpen, Client!BlockDelta, BlockDelta,
     Client!BlockClose, BlockClose, Client!Media, Media, Client!MessageEnd, MessageEnd,
     Client!StreamError, StreamError, Client!Fits, Fits, Client!Kinds, Kinds, Client!Deltas, Deltas,
     Client!Silence, Silence, Client!Nothing, Nothing, Client!NoBlocks, NoBlocks

(* The decoder's step, as the event it tells.                              *)
LEMMA DecoderTells ==
    ASSUME EncodeAssumption, SourceKnows(source), Source!Next
    PROVE  /\ source.over = "no"
           /\ source' = Hear(source, source'.last)
           /\ \/ source.begun = FALSE /\ source'.last = MessageBegin
              \/ /\ source.begun = TRUE /\ Cardinality(DOMAIN source.open) < Held
                 /\ \E i \in Blocks \ source.seen, kind \in Kinds :
                       source'.last = BlockOpen(i, kind)
              \/ \E i \in DOMAIN source.open, delta \in Deltas :
                    Fits(source.open[i], delta) /\ source'.last = BlockDelta(i, delta)
              \/ \E i \in DOMAIN source.open : source'.last = BlockClose(i)
              \/ source'.last = Media
              \/ /\ DOMAIN source.open = {}
                 /\ \E stop \in Client!Stops : source'.last = MessageEnd(stop)
              \/ source'.last = StreamError
<1>1. IsReader(source) /\ source.begun \in BOOLEAN
  BY DEF SourceKnows, IsReader
<1>2. CASE Source!Begins
  BY <1>1, <1>2, HearBegin, SourceWords DEF Source!Begins, Source!Tell
<1>3. CASE Source!Opens
  <2>1. PICK i \in Blocks \ source.seen, kind \in Kinds : Source!Tell(Source!BlockOpen(i, kind))
    BY <1>3, SourceWords DEF Source!Opens
  <2>2. source.begun = TRUE /\ Cardinality(DOMAIN source.open) < Held
    <3>1. source.begun /\ Cardinality(DOMAIN source.open) < Held
      BY ONLY <1>3, SourceWords DEF Source!Opens
    <3>2. QED
      BY ONLY <1>1, <3>1
  <2>3. source.over = "no" /\ source' = Hear(source, BlockOpen(i, kind))
    BY <2>1, SourceWords DEF Source!Tell
  <2>4. source'.last = BlockOpen(i, kind)
    BY <1>1, <2>3, HearOpen
  <2>5. QED
    BY <2>2, <2>3, <2>4
<1>4. CASE Source!Tells
  <2>1. PICK i \in DOMAIN source.open, delta \in Deltas :
           Fits(source.open[i], delta) /\ Source!Tell(Source!BlockDelta(i, delta))
    BY <1>4, SourceWords DEF Source!Tells
  <2>2. source.over = "no" /\ source' = Hear(source, BlockDelta(i, delta))
    BY <2>1, SourceWords DEF Source!Tell
  <2>3. source'.last = BlockDelta(i, delta)
    BY <1>1, <2>2, HearDelta
  <2>4. QED
    BY <2>1, <2>2, <2>3
<1>5. CASE Source!Closes
  <2>1. PICK i \in DOMAIN source.open : Source!Tell(Source!BlockClose(i))
    BY <1>5, SourceWords DEF Source!Closes
  <2>2. source.over = "no" /\ source' = Hear(source, BlockClose(i))
    BY <2>1, SourceWords DEF Source!Tell
  <2>3. source'.last = BlockClose(i)
    BY <1>1, <2>2, HearClose
  <2>4. QED
    BY <2>2, <2>3
<1>6. CASE Source!Shows
  <2>1. source.over = "no" /\ source' = Hear(source, Media)
    BY <1>6, SourceWords DEF Source!Shows, Source!Tell
  <2>2. source'.last = Media
    BY <1>1, <2>1, HearMedia
  <2>3. QED
    BY <2>1, <2>2
<1>7. CASE Source!Ends(Source!Stops)
  <2>1. PICK stop \in Source!Stops : Source!Tell(Source!MessageEnd(stop))
    BY <1>7, SourceWords DEF Source!Ends
  <2>2. DOMAIN source.open = {}
    BY <1>7, SourceWords DEF Source!Ends
  <2>3. source.over = "no" /\ source' = Hear(source, MessageEnd(stop))
    BY <2>1, SourceWords DEF Source!Tell
  <2>4. source'.last = MessageEnd(stop)
    BY <1>1, <2>3, HearEnd
  <2>5. stop \in Client!Stops
    BY DEF Source!Stops, Client!Stops
  <2>6. QED
    BY <2>2, <2>3, <2>4, <2>5
<1>8. CASE Source!Breaks
  <2>1. source.over = "no" /\ source' = Hear(source, StreamError)
    BY <1>8, SourceWords DEF Source!Breaks, Source!Tell
  <2>2. source'.last = StreamError
    BY <1>1, <2>1, HearBreak
  <2>3. QED
    BY <2>1, <2>2
<1>9. QED
  BY <1>2, <1>3, <1>4, <1>5, <1>6, <1>7, <1>8 DEF Source!Next

LEMMA TakeKeeps ==
    ASSUME EncodeAssumption, EncodeInv, Take
    PROVE  EncodeInv'
<1>1. SourceKnows(source) /\ out = <<>> /\ Source!Next
  BY DEF EncodeInv, Take
<1>2. Matches(heard, got, source, state)
  BY <1>1 DEF EncodeInv, Plays
<1>3. source.over = "no" /\ listed = None
  BY <1>1, DecoderTells DEF EncodeInv, EndsAlone
<1>4. PICK signed \in BOOLEAN :
         /\ state' = EncodeHubEvent(state, source'.last, signed).state
         /\ out' = EncodeHubEvent(state, source'.last, signed).events
  BY DEF Take
<1>5. heard' = heard /\ got' = got /\ listed' = listed
  BY DEF Take
<1>6. /\ SourceKnows(source')
      /\ Plays(heard, got, out', source', state')
      /\ Ending(out', source', state')
  <2> DEFINE e == source'.last
             r == source'
             enc == EncodeHubEvent(state, e, signed)
  <2>1. SourceKnows(r) /\ Plays(heard, got, enc.events, r, enc.state)
        /\ Ending(enc.events, r, enc.state)
    BY <1>1, <1>2, DecoderTells, EncodingPlays
  <2>2. QED
    BY <1>4, <2>1
<1>7. EndsAlone'
  BY <1>3, <1>5, <1>6 DEF EndsAlone
<1>8. QED
  BY <1>5, <1>6, <1>7 DEF EncodeInv

(* The next event to pull is due, and the rest stay so.                    *)
LEMMA PullingPlays ==
    ASSUME NEW h, NEW told, NEW events, NEW src, NEW s,
           Plays(h, told, events, src, s), events # <<>>,
           NEW e, e = Head(events)
    PROVE  Due(h, e) /\ Plays(Hear(h, e), Count(told, e), Tail(events), src, s)
<1>1. CASE \E a : /\ events = <<a>>
                  /\ Due(h, a)
                  /\ Matches(Hear(h, a), Count(told, a), src, s)
  <2>1. PICK a : events = <<a>> /\ Due(h, a) /\ Matches(Hear(h, a), Count(told, a), src, s)
    BY <1>1
  <2>2. Head(<<a>>) = a /\ Tail(<<a>>) = <<>>
    OBVIOUS
  <2>3. QED
    BY <2>1, <2>2 DEF Plays
<1>2. CASE \E a, b :
              /\ events = <<a, b>>
              /\ Due(h, a) /\ Due(Hear(h, a), b)
              /\ Matches(Hear(Hear(h, a), b), Count(Count(told, a), b), src, s)
  <2>1. PICK a, b :
              /\ events = <<a, b>>
              /\ Due(h, a) /\ Due(Hear(h, a), b)
              /\ Matches(Hear(Hear(h, a), b), Count(Count(told, a), b), src, s)
    BY <1>2
  <2>2. Head(<<a, b>>) = a /\ Tail(<<a, b>>) = <<b>>
    OBVIOUS
  <2>3. QED
    BY <2>1, <2>2 DEF Plays
<1>3. CASE \E a, b, c :
              /\ events = <<a, b, c>>
              /\ Due(h, a) /\ Due(Hear(h, a), b) /\ Due(Hear(Hear(h, a), b), c)
              /\ Matches(Hear(Hear(Hear(h, a), b), c), Count(Count(Count(told, a), b), c), src, s)
  <2>1. PICK a, b, c :
              /\ events = <<a, b, c>>
              /\ Due(h, a) /\ Due(Hear(h, a), b) /\ Due(Hear(Hear(h, a), b), c)
              /\ Matches(Hear(Hear(Hear(h, a), b), c), Count(Count(Count(told, a), b), c), src, s)
    BY <1>3
  <2>2. Head(<<a, b, c>>) = a /\ Tail(<<a, b, c>>) = <<b, c>>
    OBVIOUS
  <2>3. QED
    BY <2>1, <2>2 DEF Plays
<1>4. QED
  BY <1>1, <1>2, <1>3 DEF Plays

(* What is left of the last event is nothing.                              *)
LEMMA EndingStays ==
    ASSUME NEW events, NEW src, NEW s, NEW h, NEW told, Plays(h, told, events, src, s),
           events # <<>>, Ending(events, src, s)
    PROVE  /\ Ending(Tail(events), src, s)
           /\ Head(events).type = "message-end" =>
                 Tail(events) = <<>> /\ src.over # "no" /\ DOMAIN s.blocks = {}
<1>1. CASE \E a : events = <<a>>
  <2>1. Tail(events) = <<>> /\ 1 \in 1..Len(events) /\ events[1] = Head(events)
    BY <1>1
  <2>2. QED
    BY <2>1 DEF Ending
<1>2. CASE \E a, b : events = <<a, b>>
  <2>1. PICK a, b : events = <<a, b>>
    BY <1>2
  <2>2. Len(events) = 2 /\ Tail(events) = <<b>> /\ Head(events) = a /\ events[1] = a
        /\ events[2] = b
    BY <2>1
  <2>3. a.type # "message-end" /\ b.type # "message-end"
    BY <2>2 DEF Ending
  <2>4. QED
    BY <2>2, <2>3, NoEndAmong
<1>3. CASE \E a, b, c : events = <<a, b, c>>
  <2>1. PICK a, b, c : events = <<a, b, c>>
    BY <1>3
  <2>2. Len(events) = 3 /\ Tail(events) = <<b, c>> /\ Head(events) = a /\ events[1] = a
        /\ events[2] = b /\ events[3] = c
    BY <2>1
  <2>3. a.type # "message-end" /\ b.type # "message-end" /\ c.type # "message-end"
    BY <2>2 DEF Ending
  <2>4. Ending(<<b, c>>, src, s)
    <3> DEFINE t == <<b, c>>
    <3>1. Len(t) = 2 /\ t[1] = b /\ t[2] = c
      OBVIOUS
    <3> HIDE DEF t
    <3>2. \A m \in 1..Len(t) : t[m].type # "message-end"
      <4>1. \A m \in 1..Len(t) : m = 1 \/ m = 2
        BY <3>1
      <4>2. QED
        BY <2>3, <3>1, <4>1
    <3>3. QED
      BY <3>2 DEF Ending, t
  <2>5. QED
    BY <2>2, <2>3, <2>4
<1>4. QED
  BY <1>1, <1>2, <1>3 DEF Plays

LEMMA DueIsRead ==
    ASSUME NEW h, IsReader(h), NEW e, Due(h, e)
    PROVE  IsReader(Hear(h, e))
<1>1. CASE e = MessageBegin
  BY <1>1, HearBegin
<1>2. CASE \E i, kind : e = BlockOpen(i, kind)
  BY <1>2, HearOpen
<1>3. CASE \E i, delta : e = BlockDelta(i, delta)
  BY <1>3, HearDelta
<1>4. CASE \E i : e = BlockClose(i)
  BY <1>4, HearClose
<1>5. CASE \E stop : e = MessageEnd(stop)
  BY <1>5, HearEnd
<1>6. CASE e = StreamError
  BY <1>6, HearBreak
<1>7. QED
  BY <1>1, <1>2, <1>3, <1>4, <1>5, <1>6 DEF Due

LEMMA PullKeeps ==
    ASSUME EncodeAssumption, EncodeInv, Pull
    PROVE  /\ EncodeInv'
           /\ IsReader(heard) /\ Due(heard, Head(out)) /\ heard' = Hear(heard, Head(out))
<1> DEFINE e == Head(out)
<1>1. /\ out # <<>> /\ heard' = Hear(heard, e) /\ out' = Tail(out)
      /\ got' = Count(got, e)
      /\ listed' = IF e.type = "message-end" THEN state.output ELSE listed
      /\ source' = source /\ state' = state
  BY DEF Pull, Count
<1>2. Due(heard, e) /\ Plays(heard', got', out', source, state)
  BY <1>1, PullingPlays DEF EncodeInv
<1>3. /\ Ending(out', source, state)
      /\ e.type = "message-end" => out' = <<>> /\ source.over # "no" /\ DOMAIN state.blocks = {}
  BY <1>1, EndingStays DEF EncodeInv, EndsAlone
<1>4. listed = None
  BY <1>1 DEF EncodeInv, EndsAlone
<1> HIDE DEF e
<1>5. EndsAlone'
  BY <1>1, <1>3, <1>4 DEF EndsAlone
<1>6. IsReader(heard')
  <2>1. IsReader(heard)
    BY DEF EncodeInv
  <2>2. QED
    BY ONLY <1>1, <1>2, <2>1, DueIsRead
<1>7. QED
  BY <1>1, <1>2, <1>5, <1>6 DEF EncodeInv, e

-----------------------------------------------------------------------------
(* What is due is what a hub stream may say next.                          *)
LEMMA DueIsHub ==
    ASSUME EncodeAssumption, IsReader(heard), NEW e, Due(heard, e), heard' = Hear(heard, e)
    PROVE  Client!Next
<1>1. ASSUME NEW f, f = e
      PROVE  Client!Tell(f)
  BY <1>1, ClientWords DEF Client!Tell, Due
<1>2. heard.begun \in BOOLEAN
  BY DEF IsReader
<1>3. CASE e = MessageBegin /\ heard.begun = FALSE
  <2>1. Client!Tell(Client!MessageBegin)
    BY <1>1, <1>3, ClientWords
  <2>2. ~heard.begun
    BY <1>3
  <2>3. QED
    BY <2>1, <2>2 DEF Client!Next, Client!Begins
<1>4. CASE \E kind \in Kinds :
             /\ e = BlockOpen(Cardinality(heard.seen), kind)
             /\ heard.begun = TRUE
             /\ Cardinality(DOMAIN heard.open) < Held
             /\ Cardinality(heard.seen) \in OutputIndices \ heard.seen
  <2> DEFINE i == Cardinality(heard.seen)
  <2>1. PICK kind \in Kinds : e = BlockOpen(i, kind)
    BY <1>4
  <2>2. kind \in Client!Kinds /\ i \in OutputIndices \ heard.seen
        /\ i = Client!Cardinality(heard.seen)
    BY <1>4, ClientWords
  <2>3. Client!Tell(Client!BlockOpen(i, kind))
    BY <1>1, <2>1, ClientWords
  <2>4. Client!Cardinality(DOMAIN heard.open) < Held
    BY <1>4, ClientWords
  <2>5. heard.begun
    BY <1>4
  <2> HIDE DEF i
  <2>6. Client!Opens
    BY ONLY <2>2, <2>3, <2>4, <2>5 DEF Client!Opens
  <2>7. QED
    BY <2>6 DEF Client!Next
<1>5. CASE \E i \in DOMAIN heard.open, delta \in Deltas :
             e = BlockDelta(i, delta) /\ Fits(heard.open[i], delta)
  <2>1. PICK i \in DOMAIN heard.open, delta \in Deltas :
             e = BlockDelta(i, delta) /\ Fits(heard.open[i], delta)
    BY <1>5
  <2>2. delta \in Client!Deltas /\ Client!Fits(heard.open[i], delta)
    BY <2>1, ClientWords
  <2>3. Client!Tell(Client!BlockDelta(i, delta))
    BY <1>1, <2>1, ClientWords
  <2>4. Client!Tells
    BY <2>2, <2>3 DEF Client!Tells
  <2>5. QED
    BY <2>4 DEF Client!Next
<1>6. CASE \E i \in DOMAIN heard.open : e = BlockClose(i)
  <2>1. PICK i \in DOMAIN heard.open : e = BlockClose(i)
    BY <1>6
  <2>2. Client!Tell(Client!BlockClose(i))
    BY <1>1, <2>1, ClientWords
  <2>3. QED
    BY <2>2 DEF Client!Closes, Client!Next
<1>7. CASE \E stop \in Client!Stops : e = MessageEnd(stop) /\ DOMAIN heard.open = {}
  <2>1. PICK stop \in Client!Stops : e = MessageEnd(stop) /\ DOMAIN heard.open = {}
    BY <1>7
  <2>2. Client!Tell(Client!MessageEnd(stop))
    BY <1>1, <2>1, ClientWords
  <2>3. QED
    BY <2>1, <2>2 DEF Client!Ends, Client!Next
<1>8. CASE e = StreamError
  <2>1. Client!Tell(Client!StreamError)
    BY <1>1, <1>8, ClientWords
  <2>2. QED
    BY <2>1 DEF Client!Breaks, Client!Next
<1>9. QED
  BY <1>3, <1>4, <1>5, <1>6, <1>7, <1>8 DEF Due

LEMMA StartsSilent ==
    ASSUME EncodeAssumption, Init
    PROVE  EncodeInv /\ Client!Init
<1>1. source = Silence /\ heard = Silence /\ out = <<>> /\ listed = None
  BY SourceWords DEF Init, Source!Init
<1>2. state = [blocks |-> [i \in {} |-> None], nextOutputIndex |-> 0, output |-> <<>>,
               reasoned |-> FALSE]
  BY DEF Init
<1>3. got = [at \in OutputIndices |-> 0]
  BY DEF Init
<1>4. IsReader(Silence) /\ Silence.begun = FALSE /\ Silence.over = "no"
      /\ DOMAIN Silence.open = {} /\ Silence.seen = {}
  BY DEF Silence, NoBlocks, IsReader
<1>5. IsState(state) /\ DOMAIN state.blocks = {} /\ state.nextOutputIndex = 0
      /\ state.output = <<>> /\ state.blocks \in [{} -> Block]
  BY <1>2 DEF IsState
<1>6. Cardinality({}) = 0
  BY FS_EmptySet
<1>7. SourceKnows(source)
  BY <1>1, <1>4, <1>6 DEF SourceKnows, EncodeAssumption
<1>8. Shows(heard.open, heard.seen, state.blocks, 0)
  BY <1>1, <1>4, <1>5 DEF Shows
<1>9. Lists(state.output, got, state.blocks, 0)
  <2>1. <<>> \in Seq(Listed) /\ Len(<<>>) = 0 /\ 0..(0 - 1) = {} /\ 1..0 = {}
    OBVIOUS
  <2>2. got \in [OutputIndices -> Nat] /\ \A at \in OutputIndices : got[at] = 0
    BY <1>3
  <2>3. QED
    BY <1>5, <2>1, <2>2 DEF Lists
<1>10. Fitted(state.blocks, 0, source.seen)
  <2>1. Texts(state.blocks) = {}
    BY <1>5 DEF Texts
  <2>2. QED
    BY <1>1, <1>4, <1>6, <2>1 DEF Fitted
<1>11. Matches(heard, got, source, state)
  BY <1>1, <1>4, <1>5, <1>8, <1>9, <1>10 DEF Matches
<1>12. EndsAlone
  BY <1>1 DEF EndsAlone, Ending
<1>13. Client!Init
  BY <1>1, ClientWords DEF Client!Init
<1>14. QED
  BY <1>1, <1>4, <1>7, <1>11, <1>12, <1>13 DEF EncodeInv, Plays

(* The encoder keeps track of what the client has yet to pull, and of what *)
(* it will then know.                                                      *)
THEOREM EncoderKeepsTrack ==
    ASSUME EncodeAssumption
    PROVE  Spec => []EncodeInv
<1>1. Init => EncodeInv
  BY StartsSilent
<1>2. EncodeInv /\ [Next]_vars => EncodeInv'
  <2>1. ASSUME EncodeInv, UNCHANGED vars
        PROVE  EncodeInv'
    BY <2>1 DEF vars, EncodeInv, EndsAlone
  <2>2. QED
    BY <2>1, TakeKeeps, PullKeeps DEF Next
<1>3. QED
  BY <1>1, <1>2, PTL DEF Spec

(* ClientSpec: a client of the encoder reads a hub stream, whatever the    *)
(* decoder upstream numbers its blocks and however many it holds open      *)
(* (encodeHubEvent and responseOutputItems, responses-stream-encode.ts).   *)
THEOREM ClientsReadAHubStream ==
    ASSUME EncodeAssumption
    PROVE  Spec => ClientSpec
<1>1. Init => Client!Init
  BY StartsSilent
<1>2. EncodeInv /\ [Next]_vars => [Client!Next]_heard
  <2>1. ASSUME EncodeInv, Pull
        PROVE  Client!Next
    BY <2>1, PullKeeps, DueIsHub
  <2>2. ASSUME Take \/ UNCHANGED vars
        PROVE  heard' = heard
    BY <2>2 DEF Take, vars
  <2>3. QED
    BY <2>1, <2>2 DEF Next
<1>3. QED
  BY <1>1, <1>2, EncoderKeepsTrack, PTL DEF Spec, ClientSpec, Client!Spec

(* TheListingIsWhatWasTold: the last event lists the items the client was  *)
(* told of, each once, with what it was told of it.                        *)
THEOREM ListingsAreWhatWasTold ==
    ASSUME EncodeAssumption
    PROVE  Spec => []TheListingIsWhatWasTold
<1>1. EncodeInv => TheListingIsWhatWasTold
  <2> SUFFICES ASSUME EncodeInv, listed # None
               PROVE  /\ {listed[m].at : m \in DOMAIN listed} = heard.seen
                      /\ Len(listed) = Cardinality(heard.seen)
                      /\ \A m \in DOMAIN listed : listed[m].size = got[listed[m].at]
    BY DEF TheListingIsWhatWasTold
  <2> DEFINE n == state.nextOutputIndex
  <2>1. /\ out = <<>> /\ DOMAIN state.blocks = {} /\ listed = state.output
        /\ Matches(heard, got, source, state)
    BY DEF EncodeInv, EndsAlone, Plays
  <2>2. /\ n \in Nat /\ heard.seen = 0..(n - 1)
        /\ Lists(listed, got, state.blocks, n)
    BY <2>1 DEF Matches, Shows
  <2>3. /\ listed \in Seq(Listed) /\ Len(listed) \in Nat /\ DOMAIN listed = 1..Len(listed)
        /\ \A m \in 1..Len(listed) :
              listed[m].at \in 0..(n - 1) /\ listed[m].size = got[listed[m].at]
        /\ \A m, k \in 1..Len(listed) : listed[m].at = listed[k].at => m = k
        /\ \A at \in 0..(n - 1) : \E m \in 1..Len(listed) : listed[m].at = at
    <3>1. listed \in Seq(Listed)
      BY <2>2 DEF Lists
    <3>2. \A m \in 1..Len(listed) : listed[m].at \in Nat
      BY <3>1, ListedAreTyped
    <3> HIDE DEF n
    <3>3. QED
      BY <2>1, <2>2, <3>1, <3>2 DEF Lists
  <2>4. {listed[m].at : m \in DOMAIN listed} = heard.seen
    <3> HIDE DEF n
    <3>1. \A m \in DOMAIN listed : listed[m].at \in heard.seen
      BY <2>2, <2>3
    <3>2. \A at \in heard.seen : \E m \in DOMAIN listed : listed[m].at = at
      BY <2>2, <2>3
    <3>3. QED
      BY ONLY <3>1, <3>2
  <2>5. Len(listed) = Cardinality(heard.seen)
    <3> DEFINE f == [m \in 1..Len(listed) |-> listed[m].at]
    <3>1. f \in Bijection(1..Len(listed), 0..(n - 1))
      <4> DEFINE S == 1..Len(listed)
                 T == 0..(n - 1)
      <4>1. /\ f \in [S -> T]
            /\ \A m, k \in S : f[m] = f[k] => m = k
            /\ \A at \in T : \E m \in S : f[m] = at
        BY <2>3
      <4> HIDE DEF S, T, f
      <4>2. f \in Bijection(S, T)
        BY ONLY <4>1 DEF Bijection, Injection, Surjection, IsInjective
      <4>3. QED
        BY <4>2 DEF S, T
    <3>2. IsFiniteSet(1..Len(listed)) /\ Cardinality(1..Len(listed)) = Len(listed)
      <4>1. Len(listed) \in Nat /\ 1 \in Int
        BY <2>3
      <4>2. /\ IsFiniteSet(1..Len(listed))
            /\ Cardinality(1..Len(listed)) = IF 1 > Len(listed) THEN 0 ELSE Len(listed) - 1 + 1
        BY ONLY <4>1, Len(listed) \in Int, FS_Interval
      <4>3. QED
        BY ONLY <4>1, <4>2
    <3>3. IsFiniteSet(1..Len(listed))
      BY <3>2
    <3>4. Cardinality(0..(n - 1)) = Cardinality(1..Len(listed))
      <4>1. ExistsBijection(1..Len(listed), 0..(n - 1))
        BY <3>1 DEF ExistsBijection
      <4> HIDE DEF n
      <4>2. QED
        BY <3>3, <4>1, FS_Bijection
    <3>5. QED
      BY <2>2, <3>2, <3>4
  <2>6. QED
    BY <2>3, <2>4, <2>5
<1>2. QED
  BY <1>1, EncoderKeepsTrack, PTL

(* TypeOK: the encoder holds the blocks the decoder does, as the kinds it   *)
(* was told, and never runs out of items.                                  *)
THEOREM EncoderIsTyped ==
    ASSUME EncodeAssumption
    PROVE  Spec => []TypeOK
<1>1. EncodeInv => TypeOK
  <2> SUFFICES ASSUME EncodeInv
               PROVE  TypeOK
    OBVIOUS
  <2> DEFINE n == state.nextOutputIndex
  <2>1. PICK h, told : Matches(h, told, source, state)
    BY DEF EncodeInv, Plays
  <2>2. /\ DOMAIN state.blocks = DOMAIN source.open
        /\ \A i \in DOMAIN source.open : state.blocks[i].kind = source.open[i]
    BY <2>1 DEF Matches
  <2>3. n \in Nat /\ \A i \in DOMAIN state.blocks : state.blocks[i].at < n
    BY <2>1 DEF Matches, Shows
  <2>4. 0..(n - 1) \subseteq OutputIndices
    BY <2>1 DEF Matches, Lists
  <2>5. n - 1 \in OutputIndices \cup {-1}
    <3>1. n = 0 \/ n - 1 \in 0..(n - 1)
      BY <2>3
    <3>2. QED
      BY <2>3, <2>4, <3>1
  <2>6. QED
    BY <2>2, <2>3, <2>5 DEF TypeOK
<1>2. QED
  BY <1>1, EncoderKeepsTrack, PTL
=============================================================================
