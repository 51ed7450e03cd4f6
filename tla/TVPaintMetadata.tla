--------------------------- MODULE TVPaintMetadata ---------------------------
(***************************************************************************)
(* How tvpaint/pipeline.py keeps a list of records in the project strings  *)
(* of a TVPaint project, whose values are short: the main key of a section *)
(* holds the number of chunks, the keys "<section>0", "<section>1", ...    *)
(* hold the chunks of the JSON text.  Older versions put the text itself   *)
(* under the main key.  A text is a sequence of tokens: Width tokens stand *)
(* for the text of one record.                                             *)
(***************************************************************************)
EXTENDS Integers, SequencesExt

CONSTANTS
  Width,        \* tokens of a record's text
  ChunkLength,  \* TVPAINT_CHUNK_LENGTH, in tokens
  MaxChunks,    \* bound: chunk keys of a section
  Blank         \* a record that is never stored, in the brackets' tokens

ASSUME MetadataAssumption ==
  Width \in Nat \ {0} /\ ChunkLength \in Nat \ {0} /\ MaxChunks \in Nat \ {0}

\* json.dumps of a list of records.
Dump(list) ==
  LET last == Width * Len(list) + 2 IN
  [i \in 1..last |-> CASE i = 1 -> <<Blank, 0>>
                       [] i = last -> <<Blank, 1>>
                       [] OTHER -> <<list[1 + (i - 2) \div Width], (i - 2) % Width>>]

\* The list a text is the dump of, if it is one.
Listed(text) == [i \in 1..((Len(text) - 2) \div Width) |-> text[2 + (i - 1) * Width][1]]
Parses(text) == Len(text) >= 2 /\ Dump(Listed(text)) = text

\* split_metadata_string.
Split(text) ==
  [i \in 1..((Len(text) + ChunkLength - 1) \div ChunkLength) |->
     SubSeq(text, (i - 1) * ChunkLength + 1,
            IF i * ChunkLength < Len(text) THEN i * ChunkLength ELSE Len(text))]

\* A section: the number of chunks under the main key (0: the key is unset or
\* old), the text an older version left there, and the chunk keys.
EmptySection == [count |-> 0, old |-> <<>>, chunk |-> [i \in 1..MaxChunks |-> <<>>]]

\* (Mutant: the keys of all chunks ever written are read.)
AllChunksText(section, count) == FlattenSeq(section.chunk)
\* get_workfile_metadata_string_for_keys, of the first chunk keys.
ChunksText(section, count) == FlattenSeq(SubSeq(section.chunk, 1, count))
\* get_workfile_metadata_string, when nothing happens between its two calls.
SectionText(section) ==
  IF section.old # <<>> THEN section.old ELSE ChunksText(section, section.count)

\* get_workfile_metadata: the default is an empty list.
Records(section) ==
  LET text == SectionText(section) IN IF Parses(text) THEN Listed(text) ELSE <<>>
Garbled(section) == SectionText(section) # <<>> /\ ~Parses(SectionText(section))

\* write_workfile_metadata: chunk keys past the new count keep their values.
Store(section, list) ==
  LET chunks == Split(Dump(list)) IN
  [count |-> Len(chunks), old |-> <<>>,
   chunk |-> [i \in 1..MaxChunks |-> IF i <= Len(chunks) THEN chunks[i] ELSE section.chunk[i]]]
=============================================================================
