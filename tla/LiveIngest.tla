----------------------------- MODULE LiveIngest -----------------------------
(***************************************************************************)
(* The live ingest of sovVault (LiveIngest in src/src/ingest/zenoh.rs)     *)
(* around the reassembly engine: chunks and seals arrive on topics of      *)
(* their own, in any order; what the engine hands on is decoded to records *)
(* and pushed; a seal that finds bytes missing starts a refill, which each *)
(* tick seals again and asks the source for the missing bytes, up to       *)
(* GapMaxRounds times.                                                     *)
(*                                                                         *)
(* One thread runs all handlers, so a handler is one step; the tick walks  *)
(* over the refills and is one step for each.  The source and the network  *)
(* are not part of the repository: the source publishes each segment and   *)
(* its seal, and publishes again the chunks it is asked for.               *)
(***************************************************************************)
EXTENDS Reassembly, SequencesExt

CONSTANTS
  RecLen,        \* bytes in a record of the log
  GapMaxRounds,  \* GAP_MAX_ROUNDS
  Nets           \* what the source and the network may do, one of which a
                 \* behaviour is

ASSUME IngestAssumption ==
  /\ {RecLen, GapMaxRounds} \subseteq Nat \ {0}
  /\ Nets \subseteq
       [prompt: BOOLEAN,   \* an answer arrives before the next tick
        inOrder: BOOLEAN,  \* a segment's seal arrives behind one of its chunks
        failing: BOOLEAN,  \* opening a pipeline and pushing a record may fail
        lost: Nat,         \* bound: chunks the network loses
        twice: Nat]        \* bound: chunks the network delivers twice

VARIABLES
  net,       \* one of Nets, never changes
  refills,   \* the refills in flight: seq, last_expected, rounds
  visiting,  \* the refills the tick at work has yet to look at
  decoders,  \* how many bytes a segment's decoder was fed
  stored,    \* the records pushed for each segment, in order
  wire,      \* the frames on their way
  queries,   \* the GapQueries the source has yet to answer
  known,     \* segments by what became of them, as the ends see it
  faults     \* chunks lost and delivered twice so far

ingestVars == <<refills, visiting, decoders, stored>>
worldVars == <<net, wire, queries, known, faults>>
allVars == <<vars, ingestVars, worldVars>>

Key == Dev \X SegSeq
Refill(key, last, rounds) == [key |-> key, last |-> last, rounds |-> rounds]
InFlight == {r.key : r \in refills}

ChunkFrame(key, off, len) == [kind |-> "Chunk", key |-> key, off |-> off, len |-> len]
SealFrame(key) == [kind |-> "Seal", key |-> key, off |-> SegSize, len |-> 0]

(* The source cuts a segment from an offset on into chunks of MaxLen.      *)
Cut(key, from) ==
  {ChunkFrame(key, off, Min({MaxLen, SegSize - off})) :
     off \in {o \in from .. SegSize - 1 : (o - from) % MaxLen = 0}}

FramesOf(key) == {f \in wire : f.key = key}

IngestInit ==
  /\ Init
  /\ net \in Nets
  /\ refills = {} /\ visiting = {}
  /\ decoders = [key \in Key |-> 0]
  /\ stored = [key \in Key |-> <<>>]
  /\ wire = UNION {Cut(key, 0) \cup {SealFrame(key)} : key \in Key}
  /\ queries = {}
  /\ known = [sealed |-> {}, released |-> {}, givenUp |-> {}, hurt |-> {}]
  /\ faults = [lost |-> 0, twice |-> 0]

-----------------------------------------------------------------------------
(* drain_events.  The bytes an Append hands on go to the segment's decoder *)
(* and out of it as records; Sealed commits and leaves the file, and ends  *)
(* the decoder; SealGap starts a refill, or starts it over.                *)
Appended(key) == {e \in events' : e.kind = "Append" /\ <<e.dev, e.seq>> = key}
Bytes(key) == IF Appended(key) = {} THEN 0
              ELSE LET e == CHOOSE a \in Appended(key) : TRUE IN e.to - e.from
Happened(kind, key) == \E e \in events' : e.kind = kind /\ <<e.dev, e.seq>> = key

(* Mutant: every feed starts a decoder of its own, no residue is kept.     *)
DecodedAfresh(from, to) == [k \in 1 .. (to - from) \div RecLen |-> from \div RecLen + k]

(* The decoder's records by number, from the bytes fed since it was made.  *)
(* The residue stays below a record: the cap on it, which takes a record   *)
(* longer than any segment here to meet, is in WalReaders.                 *)
Decoded(from, to) == [k \in 1 .. to \div RecLen - from \div RecLen |-> from \div RecLen + k]

(* Each is pushed to the device's pipeline.  If that cannot be opened, all *)
(* of them are dropped; if a push fails, that one is: the error is logged, *)
(* the decoder has moved on and nothing comes back to them.                *)
Droppings == IF net.failing THEN SUBSET (1 .. SegSize \div RecLen) ELSE {{}}

Pushed(records, dropped) ==
  IF dropped = {} THEN records ELSE SelectSeq(records, LAMBDA n : n \notin dropped)

(* Mutant: the decoder is not ended with its segment.                      *)
DrainKeepsDecoder ==
  /\ \E dropped \in Droppings : stored' = [key \in Key |->
       stored[key] \o Pushed(Decoded(decoders[key], decoders[key] + Bytes(key)), dropped)]
  /\ decoders' = [key \in Key |-> decoders[key] + Bytes(key)]

Drained ==
  /\ \E dropped \in Droppings : stored' = [key \in Key |->
       stored[key] \o Pushed(Decoded(decoders[key], decoders[key] + Bytes(key)), dropped)]
  /\ decoders' = [key \in Key |->
       IF Happened("Sealed", key) THEN 0 ELSE decoders[key] + Bytes(key)]

(* Mutant: a seal's gap is counted and no refill starts.                   *)
GapsUnheeded == {}

GapsOf ==
  {Refill(<<e.dev, e.seq>>, e.from, 0) : e \in {g \in events' : g.kind = "SealGap"}}

(* The segments whose bytes a budget threw away in this step.              *)
Hurt ==
  {<<e.dev, e.seq>> : e \in {h \in events' : h.kind \in {"Evict", "SegmentError"}}}
    \cup UNION {{e.dev} \X SegSeq : e \in {h \in events' : h.kind = "Quarantine"}}

(* on_batch and on_chunk: a frame is placed and its events are drained.    *)
OnChunk(f) ==
  /\ visiting = {}
  /\ f \in wire /\ f.kind = "Chunk"
  /\ PlaceChunk(f.key[1], f.key[2], f.off, f.len)
  /\ Drained
  /\ \/ wire' = wire \ {f} /\ UNCHANGED faults
     \/ /\ faults.twice < net.twice
        /\ faults' = [faults EXCEPT !.twice = @ + 1]
        /\ UNCHANGED wire
  /\ known' = [known EXCEPT !.hurt = @ \cup Hurt]
  /\ UNCHANGED <<net, refills, visiting, queries>>

(* on_seal                                                                 *)
OnSeal(f) ==
  /\ visiting = {}
  /\ f \in wire /\ f.kind = "Seal"
  /\ net.inOrder => Seg(buf, f.key[1], f.key[2]).state # "Absent"
  /\ Seal(f.key[1], f.key[2], SegSize)
  /\ Drained
  /\ refills' = {r \in refills : r.key \notin {g.key : g \in GapsOf}} \cup GapsOf
  /\ wire' = wire \ {f}
  /\ known' = [known EXCEPT !.sealed = @ \cup {f.key},
                            !.released = IF Happened("Sealed", f.key) THEN @ \cup {f.key} ELSE @]
  /\ UNCHANGED <<net, visiting, queries, faults>>

-----------------------------------------------------------------------------
(* on_tick walks over the refills that are in flight as it starts.         *)
TickStart ==
  /\ visiting = {} /\ refills # {}
  /\ net.prompt => queries = {} /\ \A key \in InFlight : FramesOf(key) = {}
  /\ visiting' = InFlight
  /\ UNCHANGED <<vars, refills, decoders, stored, worldVars>>

(* For each it seals the segment again.  The refill is over when that      *)
(* releases the segment, or when the rounds are used up; else the source   *)
(* is asked for what lies behind the cursor.                               *)
Resealed(r) ==
  LET gaps == {g \in GapsOf : g.key = r.key}
  IN  [r EXCEPT !.last = IF gaps = {} THEN @ ELSE (CHOOSE g \in gaps : TRUE).last,
                !.rounds = @ + 1]

(* Mutant: one round less.                                                 *)
OutOfRoundsEarly(r) == r.rounds >= GapMaxRounds - 1

OutOfRounds(r) == r.rounds >= GapMaxRounds

TickRefill(r) ==
  /\ r \in refills /\ r.key \in visiting
  /\ Seal(r.key[1], r.key[2], SegSize)
  /\ Drained
  /\ visiting' = visiting \ {r.key}
  /\ LET released == Happened("Sealed", r.key)
         asked == Resealed(r)
         over == ~released /\ OutOfRounds(asked)
     IN  /\ refills' = (refills \ {r}) \cup (IF released \/ over THEN {} ELSE {asked})
         /\ queries' = IF released \/ over THEN queries
                       ELSE queries \cup {[key |-> r.key, start |-> asked.last]}
         /\ known' = [known EXCEPT
              !.released = IF released THEN @ \cup {r.key} ELSE @,
              !.givenUp = IF over THEN @ \cup {r.key} ELSE @]
  /\ UNCHANGED <<net, wire, faults>>

-----------------------------------------------------------------------------
(* The source answers a query with the rest of the segment.                *)
Answer(q) ==
  /\ visiting = {}
  /\ q \in queries
  /\ queries' = queries \ {q}
  /\ wire' = wire \cup Cut(q.key, q.start)
  /\ UNCHANGED <<vars, ingestVars, net, known, faults>>

Lose(f) ==
  /\ visiting = {}
  /\ f \in wire /\ f.kind = "Chunk"
  /\ faults.lost < net.lost
  /\ faults' = [faults EXCEPT !.lost = @ + 1]
  /\ wire' = wire \ {f}
  /\ UNCHANGED <<vars, ingestVars, net, queries, known>>

Deliver == \E f \in wire : OnChunk(f) \/ OnSeal(f)
Tick == TickStart \/ \E r \in refills : TickRefill(r)

IngestNext == Deliver \/ Tick \/ (\E q \in queries : Answer(q)) \/ (\E f \in wire : Lose(f))

IngestSpec == IngestInit /\ [][IngestNext]_allVars

(* The timer ticks, the channels deliver, the source answers.              *)
FairSpec ==
  /\ IngestSpec
  /\ WF_allVars(Deliver)
  /\ WF_allVars(Tick)
  /\ WF_allVars(\E q \in queries : Answer(q))

-----------------------------------------------------------------------------
Whole == [k \in 1 .. SegSize \div RecLen |-> k]

(* The decoder of a segment stands where the engine's cursor stands: it is *)
(* made, fed and ended with the segment, whatever is refilled, evicted or  *)
(* failed in between, so records are cut at their right bytes.             *)
DecoderFollowsCursor ==
  \A key \in Key : decoders[key] = Seg(buf, key[1], key[2]).next

(* While no push fails, a segment that was released once has had all its  *)
(* records pushed to the pipeline, each once and in order, and nothing is  *)
(* pushed of it behind them, unless the network doubled a chunk or the     *)
(* source answered late: a chunk that arrives when the segment is gone     *)
(* starts it anew.  Of a segment whose push failed nothing of the kind     *)
(* holds: its seal is released without the record (drain_events).          *)
ReleasedIsStored ==
  ~net.failing =>
    \A key \in known.released :
      /\ IsPrefix(Whole, stored[key])
      /\ net.prompt /\ net.twice = 0 => stored[key] = Whole

(* With a source that answers in time and fewer losses than rounds, every  *)
(* seal that arrives behind one of its chunks is healed unless the budgets *)
(* threw some of its segment away: the rounds are enough, for each asks    *)
(* for all that is missing (on_tick).                                      *)
EverySealHeals ==
  net.prompt /\ net.inOrder =>
    \A key \in Key : key \in known.sealed ~> key \in known.released \cup known.hurt

(* A seal that arrives behind one of its segment's chunks is not           *)
(* forgotten: the segment is released, or its refill was given up after    *)
(* all the rounds.  Seals have a subscription of their own (run), and one  *)
(* that overtakes all the chunks of its segment is forgotten: the engine   *)
(* knows no such segment, reports no gap and no refill starts (on_seal).   *)
EverySealSettles ==
  net.inOrder =>
    \A key \in Key : key \in known.sealed ~> key \in known.released \cup known.givenUp
=============================================================================
