----------------------------- MODULE Attribution -----------------------------
(***************************************************************************)
(* From a commit's diff to what is stored and embedded of it: hunks become *)
(* records, records get the symbols of their file, HEAD's symbols are      *)
(* merged into chunks.  Lines, tokens and spans are small numbers; a text  *)
(* is a sequence of pieces.                                                *)
(***************************************************************************)
EXTENDS Integers, Sequences, SequencesExt

CONSTANTS
  Message,    \* Message[c], a text
  Diff,       \* Diff[c]: its hunks, [path, text, from, count] in the diff's order
  Source,     \* Source[c]: for each path with a text in c's tree, its atoms in
              \* the order they are captured: [name, qualified, from, to, tokens]
  TooLarge    \* the paths whose text is over MAX_ATTRIBUTABLE_SOURCE_BYTES

(* sort_by_key on the start: stable. *)
InSourceOrder(atoms) ==
  LET order == SetToSortSeq(DOMAIN atoms,
                 LAMBDA m, n : \/ atoms[m].from < atoms[n].from
                               \/ atoms[m].from = atoms[n].from /\ m < n)
  IN [n \in DOMAIN atoms |-> atoms[order[n]]]

(* Nothing for a file that is gone, binary or in another language. *)
AtomsOf(c, path) == IF path \in DOMAIN Source[c] THEN InSourceOrder(Source[c][path]) ELSE <<>>

----------------------------------------------------------------------------
(* HunkChunkStage, AttributeStage. *)

HunkRecords(c) ==
  [n \in DOMAIN Diff[c] |->
     [sha |-> c, path |-> Diff[c][n].path, text |-> Diff[c][n].text,
      semantic |-> Message[c] \o Diff[c][n].text]]

(* Every symbol of the file as it is after the commit, the first one's name in
   front of the text; none if it is too large. *)
Attributed(rec) ==
  LET atoms == IF rec.path \in TooLarge THEN <<>> ELSE AtomsOf(rec.sha, rec.path)
  IN  [sha |-> rec.sha, path |-> rec.path, text |-> rec.text,
       semantic |-> IF atoms = <<>> THEN rec.semantic ELSE <<atoms[1].name>> \o rec.semantic,
       symbols |-> [n \in DOMAIN atoms |->
                      [name |-> atoms[n].name, qualified |-> atoms[n].qualified,
                       attribution |-> "exact_span"]]]

Records(c) == [n \in DOMAIN Diff[c] |-> Attributed(HunkRecords(c)[n])]

----------------------------------------------------------------------------
(* attribute_hunk: what the documents say of exact spans.  No stage calls it. *)

(* The lines of the post-image, of which a deletion has none. *)
Touches(h, atom) ==
  /\ h.from > 0 /\ h.count > 0
  /\ atom.from <= h.from + h.count - 1 /\ h.from <= atom.to

ExactSpans(c, n) ==
  {atom.name : atom \in {a \in ToSet(AtomsOf(c, Diff[c][n].path)) : Touches(Diff[c][n], a)}}

----------------------------------------------------------------------------
(* chunk_symbols: an atom joins the chunk before it while they fit together. *)

StartChunk(path, atom) ==
  [path |-> path, name |-> atom.name, siblings |-> <<>>, from |-> atom.from, to |-> atom.to,
   tokens |-> atom.tokens]

Extend(chunk, atom) ==
  [chunk EXCEPT !.siblings = Append(@, atom.name), !.to = atom.to, !.tokens = @ + atom.tokens]

Merge(path, chunks, atom, max) ==
  IF chunks # <<>> /\ Last(chunks).tokens + atom.tokens <= max
  THEN Append(Front(chunks), Extend(Last(chunks), atom))
  ELSE Append(chunks, StartChunk(path, atom))

ChunkSymbols(path, atoms, max) ==
  LET merged[n \in 0..Len(atoms)] ==
        IF n = 0 THEN <<>> ELSE Merge(path, merged[n - 1], atoms[n], max)
  IN  merged[Len(atoms)]

=============================================================================
