------------------------------ MODULE InputEdb ------------------------------
(***************************************************************************)
(* The staging buffer of input facts (src/runtime/                         *)
(* maelys_datalog_input_edb.c).  A batch is appended as a whole or not at  *)
(* all.  Strings are copied once into an arena; a hash index with linear   *)
(* probing finds the copies.  A batch first marks its new strings in the   *)
(* index as pending and keeps the entries it overwrites in a journal; a    *)
(* failure replays the journal backwards, success replaces the marks.      *)
(* `clear' empties the index by moving to a new generation.                *)
(*                                                                         *)
(* A text is a model value with a size; its copy is known by its offset.   *)
(* The arena is the sequence of the texts copied, in order.                *)
(***************************************************************************)
EXTENDS Integers, Sequences, FiniteSets, SequencesExt, FiniteSetsExt

CONSTANTS Texts, Size(_),      \* Size counts the terminator
          Hash(_),
          Number,              \* a term that is no symbol
          Malformed,           \* a NULL or oversized string or an unknown kind
          MaxTerms, MaxGeneration,   \* MaxGeneration is UINT8_MAX in the code
          IndexThreshold,
          Capacities,          \* the pairs of capacities buffers are made with
          Batches

VARIABLES
  capacity, text_capacity,
  facts,               \* facts[i][j]: offset + 1 of the copy, or Number
  text,
  index, generations, generation,
  recent               \* two slots + 1, or zero

vars == <<capacity, text_capacity, facts, text, index, generations, generation, recent>>

StringsPerFact == MaxTerms + 1

DistinctBound(n, bytes) == Min({n * StringsPerFact, (bytes \div 2) + (bytes % 2)})

IndexSlots(n, bytes) ==
  LET bound == DistinctBound(n, bytes)
  IN  IF bound < IndexThreshold THEN 0
      ELSE Min({2 ^ k : k \in {k \in 0 .. bound : 2 ^ k >= 2 * bound}})

slots == IndexSlots(capacity, text_capacity)
Indexed == slots # 0
Slots == 0 .. slots - 1

TextUsed(arena) == FoldLeft(LAMBDA n, t : n + Size(t), 0, arena)
text_used == TextUsed(text)

(* The text whose copy starts at an offset.                                *)
TextAt(arena, offset) ==
  arena[CHOOSE i \in DOMAIN arena : TextUsed(SubSeq(arena, 1, i - 1)) = offset]

-----------------------------------------------------------------------------
(* The index.  An entry is zero, offset + 1 of a copy, or Base + ordinal   *)
(* of the string of the batch that will be copied.                         *)

Base == text_capacity + 2
IsPending(entry) == entry >= Base

(* What a lookup reads: the entries, their generations and the arena.      *)
Current == [idx |-> index, gens |-> generations, arena |-> text]

StringAt(batch, ordinal) == batch[(ordinal \div StringsPerFact) + 1][(ordinal % StringsPerFact) + 1]

EntryText(x, slot, batch) ==
  IF IsPending(x.idx[slot]) THEN StringAt(batch, x.idx[slot] - Base)
                            ELSE TextAt(x.arena, x.idx[slot] - 1)

SlotOccupied(x, slot) ==
  IsPending(x.idx[slot]) \/ (x.gens[slot] = generation /\ x.idx[slot] # 0)

TextSlot(x, t, batch) ==
  LET probe(k) == (Hash(t) + k) % slots
      ends == {k \in Slots : SlotOccupied(x, probe(k)) => EntryText(x, probe(k), batch) = t}
  IN  probe(Min(ends))

(* The two strings looked up last, with their slots.                       *)
NoKey == [key |-> Malformed, slot |-> 0]

SavedCache ==
  [keys |-> [i \in 1 .. 2 |->
      IF recent[i] = 0 THEN NoKey
      ELSE [key |-> EntryText(Current, recent[i] - 1, <<>>), slot |-> recent[i] - 1]],
   next |-> 1]

Cached(cache, t) == {i \in 1 .. 2 : cache.keys[i].key = t}

CachedSlot(cache, x, t, batch) ==
  IF Cached(cache, t) # {} THEN cache.keys[Min(Cached(cache, t))].slot ELSE TextSlot(x, t, batch)

CacheAfter(cache, t, slot) ==
  IF Cached(cache, t) # {} THEN cache
  ELSE [keys |-> [cache.keys EXCEPT ![cache.next] = [key |-> t, slot |-> slot]],
        next |-> 3 - cache.next]

-----------------------------------------------------------------------------
(* add_facts.  The strings of a batch are visited twice, in order.         *)

Ordinals(batch) ==
  FlattenSeq([i \in DOMAIN batch |->
    [j \in 1 .. Min({Len(batch[i]), StringsPerFact}) |-> (i - 1) * StringsPerFact + j - 1]])

(* Faulty: repetitions inside the batch are charged again without an index. *)
IsNew_ArenaOnly(m, batch, ordinal, slot) ==
  IF Indexed THEN ~SlotOccupied(m.x, slot) ELSE StringAt(batch, ordinal) \notin ToSet(text)

(* A string that is neither in the arena nor before this one in the batch. *)
IsNew(m, batch, ordinal, slot) ==
  IF Indexed THEN ~SlotOccupied(m.x, slot)
  ELSE /\ StringAt(batch, ordinal) \notin ToSet(text)
       /\ \A o \in ToSet(Ordinals(batch)) :
            o < ordinal => StringAt(batch, o) # StringAt(batch, ordinal)

MeasureText(m, batch, ordinal) ==
  LET t == StringAt(batch, ordinal)
      slot == IF Indexed THEN CachedSlot(m.cache, m.x, t, batch) ELSE 0
      seen == IF Indexed THEN [m EXCEPT !.cache = CacheAfter(@, t, slot)] ELSE m
  IN  IF ~IsNew(m, batch, ordinal, slot) THEN seen
      ELSE IF Size(t) > m.remaining THEN [seen EXCEPT !.failed = TRUE]
      ELSE IF ~Indexed THEN [seen EXCEPT !.remaining = @ - Size(t)]
      ELSE [seen EXCEPT !.remaining = @ - Size(t),
                        !.journal = Append(@, m.x.idx[slot]),
                        !.x.idx[slot] = Base + ordinal]

TooManyTerms(batch, ordinal) ==
  ordinal % StringsPerFact = 0 /\ Len(batch[(ordinal \div StringsPerFact) + 1]) > StringsPerFact

MeasureAt(m, batch, ordinal) ==
  CASE TooManyTerms(batch, ordinal) \/ StringAt(batch, ordinal) = Malformed ->
         [m EXCEPT !.failed = TRUE]
    [] StringAt(batch, ordinal) = Number -> m
    [] OTHER -> MeasureText(m, batch, ordinal)

(* The first pass.  `end' is the ordinal it stopped at.                    *)
Measure(batch) ==
  FoldLeft(LAMBDA m, o : IF m.failed THEN m ELSE [MeasureAt(m, batch, o) EXCEPT !.end = o],
           [x |-> Current, journal |-> <<>>, remaining |-> text_capacity - text_used,
            cache |-> SavedCache, failed |-> FALSE, end |-> 0],
           Ordinals(batch))

(* Faulty: the journal is replayed in the order it was written. *)
DiscardPending_Forwards(m, batch) ==
  FoldLeft(LAMBDA d, o :
      LET slot == TextSlot(d.x, StringAt(batch, o), batch)
      IN  IF d.journal = <<>> \/ d.x.idx[slot] # Base + o THEN d
          ELSE [x |-> [d.x EXCEPT !.idx[slot] = Head(d.journal)], journal |-> Tail(d.journal)],
    [x |-> m.x, journal |-> m.journal],
    SelectSeq(Ordinals(batch), LAMBDA o : o < m.end /\ StringAt(batch, o) # Number)).x.idx

(* The entries after the rollback: the strings before the failure, last    *)
(* one first; a string is looked up again and its mark undone if the mark  *)
(* is its own.                                                             *)
DiscardPending(m, batch) ==
  FoldLeft(LAMBDA d, o :
      LET slot == TextSlot(d.x, StringAt(batch, o), batch)
      IN  IF d.journal = <<>> \/ d.x.idx[slot] # Base + o THEN d
          ELSE [x |-> [d.x EXCEPT !.idx[slot] = Last(d.journal)], journal |-> Front(d.journal)],
    [x |-> m.x, journal |-> m.journal],
    Reverse(SelectSeq(Ordinals(batch), LAMBDA o : o < m.end /\ StringAt(batch, o) # Number))).x.idx

(* The second pass copies a string on its first use.                       *)
StoredText(c, batch, ordinal) ==
  LET t == StringAt(batch, ordinal)
      used == TextUsed(c.x.arena)
      slot == IF Indexed THEN CachedSlot(c.cache, c.x, t, batch) ELSE 0
      seen == IF Indexed THEN [c EXCEPT !.cache = CacheAfter(@, t, slot)] ELSE c
      copied == [seen EXCEPT !.x.arena = Append(@, t), !.refs = Append(@, used + 1)]
      at == CHOOSE i \in DOMAIN c.x.arena : c.x.arena[i] = t
  IN  IF Indexed
      THEN IF IsPending(c.x.idx[slot])
           THEN [copied EXCEPT !.x.idx[slot] = used + 1, !.x.gens[slot] = generation]
           ELSE [seen EXCEPT !.refs = Append(@, c.x.idx[slot])]
      ELSE IF t \in ToSet(c.x.arena)
           THEN [seen EXCEPT !.refs = Append(@, TextUsed(SubSeq(c.x.arena, 1, at - 1)) + 1)]
           ELSE copied

Store(m, batch) ==
  FoldLeft(LAMBDA c, o : IF StringAt(batch, o) = Number
                         THEN [c EXCEPT !.refs = Append(@, Number)]
                         ELSE StoredText(c, batch, o),
           [x |-> m.x, cache |-> m.cache, refs |-> <<>>], Ordinals(batch))

(* The facts of a batch, cut out of the references of its strings.         *)
Stored(refs, batch) ==
  [i \in DOMAIN batch |->
     LET before == FoldLeft(LAMBDA n, f : n + Len(f), 0, SubSeq(batch, 1, i - 1))
     IN  SubSeq(refs, before + 1, before + Len(batch[i]))]

AddFacts(batch) ==
  /\ Len(batch) <= capacity - Len(facts)
  /\ batch # <<>>
  /\ LET m == Measure(batch)
         c == Store(m, batch)
     IN  IF m.failed
         THEN /\ index' = IF Indexed THEN DiscardPending(m, batch) ELSE index
              /\ UNCHANGED <<facts, text, generations, recent>>
         ELSE /\ facts' = facts \o Stored(c.refs, batch)
              /\ text' = c.x.arena /\ index' = c.x.idx /\ generations' = c.x.gens
              /\ recent' = [i \in 1 .. 2 |->
                   IF c.cache.keys[i] = NoKey THEN 0 ELSE c.cache.keys[i].slot + 1]
  /\ UNCHANGED <<capacity, text_capacity, generation>>

-----------------------------------------------------------------------------

(* Faulty: the generation wraps onto slots that still carry it. *)
Clear_WrapsUnreset ==
  /\ facts' = <<>> /\ text' = <<>> /\ recent' = <<0, 0>>
  /\ generation' = IF Indexed THEN (generation % MaxGeneration) + 1 ELSE generation
  /\ UNCHANGED <<capacity, text_capacity, index, generations>>

Clear ==
  /\ facts' = <<>> /\ text' = <<>> /\ recent' = <<0, 0>>
  /\ IF Indexed /\ generation = MaxGeneration
     THEN generations' = [s \in Slots |-> 0] /\ generation' = 1
     ELSE /\ generation' = IF Indexed THEN generation + 1 ELSE generation
          /\ UNCHANGED generations
  /\ UNCHANGED <<capacity, text_capacity, index>>

Init ==
  \E c \in Capacities :
    /\ capacity = c[1] /\ text_capacity = c[2]
    /\ facts = <<>> /\ text = <<>> /\ recent = <<0, 0>>
    /\ index = [s \in 0 .. IndexSlots(c[1], c[2]) - 1 |-> 0]
    /\ generations = index
    /\ generation = IF IndexSlots(c[1], c[2]) = 0 THEN 0 ELSE 1

(* The buffer is freed and its storage given to init again.                *)
FreeAndInit ==
  \E c \in Capacities :
    /\ capacity' = c[1] /\ text_capacity' = c[2]
    /\ facts' = <<>> /\ text' = <<>> /\ recent' = <<0, 0>>
    /\ index' = [s \in 0 .. IndexSlots(c[1], c[2]) - 1 |-> 0]
    /\ generations' = index'
    /\ generation' = IF IndexSlots(c[1], c[2]) = 0 THEN 0 ELSE 1

Next == Clear \/ FreeAndInit \/ \E batch \in Batches : AddFacts(batch)

Spec == Init /\ [][Next]_vars

-----------------------------------------------------------------------------
(* What the caller reads back: every reference resolved in the arena.      *)
View ==
  [i \in DOMAIN facts |->
     [j \in DOMAIN facts[i] |-> IF facts[i][j] = Number THEN Number ELSE TextAt(text, facts[i][j] - 1)]]

(* A batch is acceptable when its facts are well formed and each of its    *)
(* new texts, counted once, still has room.                                *)
Acceptable(batch) ==
  LET new == {t \in Texts : \E i \in DOMAIN batch : t \in ToSet(batch[i])} \ ToSet(text)
  IN  /\ \A i \in DOMAIN batch : Len(batch[i]) <= StringsPerFact /\ Malformed \notin ToSet(batch[i])
      /\ FoldSet(LAMBDA t, n : n + Size(t), 0, new) <= text_capacity - text_used

(* Apart from clear and free, what changes anything appends one acceptable *)
(* batch, which reads back as it was given, with every earlier fact as     *)
(* before.  A batch that is refused therefore leaves index, arena, facts   *)
(* and saved lookups exactly as they were, stale entries included.         *)
AppendsExactly ==
  [][Clear \/ FreeAndInit \/ \E batch \in Batches : Acceptable(batch) /\ View' = View \o batch]_vars

(* The first pass fails exactly for a batch that is not acceptable, and    *)
(* its journal never has more entries than storage was reserved for.       *)
MeasureIsExact ==
  \A batch \in Batches :
    Len(batch) <= capacity - Len(facts) =>
      LET m == Measure(batch)
      IN  /\ m.failed <=> ~Acceptable(batch)
          /\ Len(m.journal) <= DistinctBound(capacity, text_capacity)

(* Between calls the index and the arena agree, through every reuse of a   *)
(* generation: no mark of a batch is left, an entry in use is the start of *)
(* a copy, each text is copied once, a lookup finds a text exactly if it   *)
(* was copied, and half of the slots are free, so that probing ends; a     *)
(* saved lookup names an entry in use.                                     *)
IndexMatchesArena ==
  Indexed =>
    /\ \A s \in Slots : ~IsPending(index[s])
    /\ \A s \in Slots : SlotOccupied(Current, s) =>
         \E i \in DOMAIN text : index[s] = TextUsed(SubSeq(text, 1, i - 1)) + 1
    /\ IsInjective(text)
    /\ \A t \in Texts :
         LET s == TextSlot(Current, t, <<>>)
         IN  SlotOccupied(Current, s) <=> t \in ToSet(text)
    /\ 2 * Cardinality({s \in Slots : SlotOccupied(Current, s)}) <= slots
    /\ \A i \in 1 .. 2 : recent[i] # 0 => SlotOccupied(Current, recent[i] - 1)

=============================================================================
