------------------------------ MODULE OcrPage ------------------------------
(***************************************************************************)
(* How a page of a PDF becomes words: the text layer without what is       *)
(* hidden in it (infrastructure/pdfium_tokens.py), and the reading of a    *)
(* scanned page by two engines, straight and in three turns                *)
(* (infrastructure/ocr_rapid.py, infrastructure/ocr_tesseract.py).  Pure   *)
(* operators; Reader is the program that calls them.                       *)
(*                                                                         *)
(* A word has a kind (what the patterns of the passport make of it), a     *)
(* value, whether it has Cyrillic letters, whether it is a whole line, and *)
(* its place: the edge of the page it is at, and a row and a column there. *)
(***************************************************************************)
EXTENDS Picking, Sequences

CONSTANTS
  Value,      \* what words say
  Twin,       \* [Value -> the value with Latin look-alikes made Cyrillic]
  Blank,      \* a word that says nothing to the passport
  NoAnswer,   \* an engine that is not there, or failed
  Tesseract,  \* the binary is on PATH and its binding can be imported
  Rapid,      \* the binding of the second engine can be imported and starts
  Locked,     \* the weight files of the lock: [found, sound]
  Configured  \* a directory of weights is given

ASSUME OcrAssumption ==
  /\ Blank \notin Value /\ Twin \in [Value \cup {Blank} -> Value \cup {Blank}]
  /\ {Tesseract, Rapid, Configured} \subseteq BOOLEAN
  /\ Locked \subseteq [found : BOOLEAN, sound : BOOLEAN]

MaxHiddenToTokenArea == 64

Edge == {"bottom", "left", "top", "right"}
Word ==
  [kind : STRING, value : Value \cup {Blank}, russian : BOOLEAN, line : BOOLEAN,
   edge : Edge, row : Nat, column : Nat]

\* A rectangle of the text layer, what an engine sees, what it makes of a
\* picture, and a page.
Rectangle ==
  [word : Word, rest : Word, chars : SUBSET [id : Nat, under : SUBSET Nat],
   shown : BOOLEAN, inside : BOOLEAN]
Seen == [word : Word, sure : BOOLEAN, inside : BOOLEAN]
Look ==
  [rapid : [words : Seq(Seen), lines : Seq(Seen)] \cup {NoAnswer},
   both : Seq(Seen) \cup {NoAnswer}, english : Seq(Seen) \cup {NoAnswer}]
Page ==
  [layer : Seq(Rectangle), hidden : BOOLEAN, drawable : BOOLEAN, looks : [0..3 -> Look], band : Look]

WordsAt(list, places) == Picked([i \in DOMAIN list |-> list[i].word], places)

-----------------------------------------------------------------------------
(* The text layer.                                                         *)

\* A rectangle of the layer has a word and characters; an invisible object
\* over a character counts by its area in areas of that character.  What stays
\* of a rectangle that loses some of its characters is another word.
HiddenSuppresses(area) == area <= MaxHiddenToTokenArea
Suppressed(char) == \E area \in char.under : HiddenSuppresses(area)

\* Each character goes to the first rectangle it is in.
Claimed(layer, i) == UNION {{char.id : char \in layer[j].chars} : j \in 1..(i - 1)}
Kept(layer, i) ==
  {char \in layer[i].chars : char.id \notin Claimed(layer, i) /\ ~Suppressed(char)}

TextWithoutHidden(layer) ==
  [i \in DOMAIN layer |->
     [layer[i] EXCEPT !.word = IF Kept(layer, i) = layer[i].chars THEN @ ELSE layer[i].rest,
                      !.shown = Kept(layer, i) # {}]]

\* extract_pdf_bytes for one page; what does not map to the page is no word.
VectorWords(page) ==
  LET layer == IF page.hidden THEN TextWithoutHidden(page.layer) ELSE page.layer
  IN WordsAt(layer, {i \in DOMAIN layer : layer[i].shown /\ layer[i].inside})

-----------------------------------------------------------------------------
(* The engines.  What one of them sees is a sequence of records: a word,   *)
(* whether the engine is sure of it, and whether it lies on the page.      *)

WeightsReady == Configured /\ Locked # {} /\ \A w \in Locked : w.found /\ w.sound
RapidAvailable == WeightsReady /\ Rapid
TesseractAvailable == Tesseract

\* A word is folded if it or a neighbour is Russian; engines that return lines
\* instead of words are not folded at all.
Beside(words, i) == {i - 1, i, i + 1} \cap DOMAIN words
FoldLatinLookalikes(words) ==
  [i \in DOMAIN words |->
     IF \E j \in Beside(words, i) : words[j].russian
     THEN [words[i] EXCEPT !.value = Twin[@]] ELSE words[i]]
FoldTokenTexts(words) ==
  IF \E i \in DOMAIN words : words[i].line THEN words ELSE FoldLatinLookalikes(words)

Sound(seen) == {i \in DOMAIN seen : seen[i].sure /\ seen[i].inside}
Grounded(seen) == WordsAt(seen, Sound(seen))

\* Words first; the lines they came from where no word is good enough.
RapidWords(answer) ==
  IF Grounded(answer.words) # <<>> THEN Grounded(answer.words) ELSE Grounded(answer.lines)
RapidPageTokens(answer) ==
  IF ~RapidAvailable \/ answer = NoAnswer THEN <<>> ELSE FoldTokenTexts(RapidWords(answer))

\* image_to_data with both languages, then in English alone.
Answered(texts) == texts \notin {NoAnswer, <<>>}
ImageToData(look) ==
  IF Answered(look.both) THEN look.both
  ELSE IF Answered(look.english) THEN look.english ELSE <<>>
TesseractTokens(look) ==
  IF TesseractAvailable THEN FoldTokenTexts(Grounded(ImageToData(look))) ELSE <<>>

OcrImage(look) ==
  LET rapid == RapidPageTokens(look.rapid) IN
  IF rapid # <<>> THEN rapid ELSE TesseractTokens(look)

\* unrotate_norm: where an edge of a picture turned by so many quarters
\* counter-clockwise was before.
Around == <<"bottom", "left", "top", "right">>
Unrotate(edge, quarter) ==
  LET place == CHOOSE n \in 1..4 : Around[n] = edge IN Around[((place - 1 + quarter) % 4) + 1]
OcrTurned(page, quarter) ==
  LET words == OcrImage(page.looks[quarter]) IN
  [i \in DOMAIN words |-> [words[i] EXCEPT !.edge = Unrotate(@, quarter)]]

\* The turn with the most words, the first of them if several have as many.
BestTurn(page) ==
  LET amount == [q \in 1..3 |-> Len(OcrTurned(page, q))]
      best == {q \in 1..3 : \A r \in 1..3 : amount[q] >= amount[r]}
  IN OcrTurned(page, CHOOSE q \in best : \A r \in best : q <= r)

OcrPdfPage(page) ==
  IF ~page.drawable THEN <<>>
  ELSE IF OcrImage(page.looks[0]) # <<>> THEN OcrImage(page.looks[0]) ELSE BestTurn(page)

-----------------------------------------------------------------------------
(* A page is read by OCR if its text layer has no visible word.            *)

NeedsOcr(words) == words = <<>>
RasterPagesNeedOcr(words) == \E p \in DOMAIN words : NeedsOcr(words[p])

\* stamp_cipher_reads: the bottom band of the last page by both engines, each
\* on its own; without one of them there is no second opinion.
BandReads(page) ==
  IF ~WeightsReady \/ ~TesseractAvailable \/ ~page.drawable THEN {}
  ELSE {RapidPageTokens(page.band.rapid), TesseractTokens(page.band)} \ {<<>>}

=============================================================================
