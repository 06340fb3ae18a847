---------------------------- MODULE PngContainer ----------------------------
(***************************************************************************)
(* What _parse_png and _validate_png_raster (ai/generated_artifacts.py)    *)
(* accept of a provider's file.  A file is the sequence of its chunks; of  *)
(* a chunk only its role is kept, of the image data only the number of     *)
(* equal pieces an IDAT brings of the RasterParts the header asks for.     *)
(***************************************************************************)
EXTENDS Naturals, Sequences

RasterParts == 2

\* "indexed" is an IHDR whose color type needs a palette, "IDAT0" an IDAT without
\* payload, "broken" a chunk that is truncated, or has a bad checksum or header.
Chunk == {"IHDR", "indexed", "PLTE", "IDAT", "IDAT0", "IEND", "ancillary", "critical", "broken"}

Fresh == [state |-> "open", indexed |-> FALSE, plte |-> FALSE, idat |-> FALSE,
          closed |-> FALSE, parts |-> 0]

Fail(s) == [s EXCEPT !.state = "error"]

\* One turn of the loop over the chunks: the header is the first and only the first.
Consume(s, chunk, first, last) ==
  IF s.state # "open" THEN s
  ELSE IF first # (chunk \in {"IHDR", "indexed"}) THEN Fail(s)
  ELSE CASE chunk \in {"IHDR", "indexed"} -> [s EXCEPT !.indexed = chunk = "indexed"]
         [] chunk \in {"broken", "critical"} -> Fail(s)
         [] chunk = "PLTE" -> IF s.plte \/ s.idat THEN Fail(s) ELSE [s EXCEPT !.plte = TRUE]
         [] chunk \in {"IDAT", "IDAT0"} ->
              IF s.closed THEN Fail(s)
              ELSE [s EXCEPT !.idat = TRUE, !.parts = IF chunk = "IDAT" THEN @ + 1 ELSE @]
         [] chunk = "IEND" -> IF s.idat /\ last THEN [s EXCEPT !.state = "end"] ELSE Fail(s)
         [] OTHER -> [s EXCEPT !.closed = s.idat]

\* The data of all IDAT chunks is one stream of exactly the raster's size.
RasterExact(s) == s.parts = RasterParts

Parses(file) ==
  LET after[i \in 0..Len(file)] ==
        IF i = 0 THEN Fresh ELSE Consume(after[i - 1], file[i], i = 1, i = Len(file))
      s == after[Len(file)]
  IN s.state = "end" /\ (s.indexed => s.plte) /\ RasterExact(s)

-----------------------------------------------------------------------------
\* The format the loop is meant to recognize, without a parser state: header
\* first, end last, one palette before the data, the data in one run of chunks.
Places(file, kinds) == {i \in DOMAIN file : file[i] \in kinds}

WellFormed(file) ==
  LET data == Places(file, {"IDAT", "IDAT0"})
      palettes == Places(file, {"PLTE"})
  IN /\ Places(file, {"IHDR", "indexed"}) = {1}
     /\ Places(file, {"IEND"}) = {Len(file)}
     /\ Places(file, {"critical", "broken"}) = {}
     /\ \A i, j \in data : \A k \in i..j : k \in data
     /\ \A i, j \in palettes : i = j
     /\ \A i \in palettes, j \in data : i < j
     /\ file[1] = "indexed" => palettes # {}
     /\ \E i \in data : \E j \in data :
          i < j /\ Places(file, {"IDAT"}) = {i, j}

\* Over all short files, accepted and well formed are the same.
ASSUME ParserIsGrammar ==
  \A n \in 1..5 : \A file \in [1..n -> Chunk] : Parses(file) <=> WellFormed(file)

=============================================================================
