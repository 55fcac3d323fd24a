----------------------------- MODULE MCPackage -----------------------------
(* Model values for the run of Package: two designs of one cipher, a       *)
(* volume of the same section, two working documents without cipher whose  *)
(* names number their corrections, and one with a cipher in an archive;    *)
(* and three files no request may accept.                                  *)
EXTENDS RevisionDiff, Catalog

CONSTANTS pd1, pd2, pd3, rd1, rd2, rd3, box, huge, sick, odd, K1, K2, K3, v, arch, fire,
  heating, system, heat

Ciphers == [k \in Key |-> CASE k = K1 -> 1 [] k = K2 -> 2 [] k = K3 -> 3]
Tokens == [k \in Key |-> IF k = K3 THEN {arch, fire} ELSE {arch}]

Document(stage, key, approval, volume, marks, number) ==
  [stage |-> stage, key |-> key, nameKey |-> Blank, approval |-> approval, volume |-> volume,
   marks |-> marks, number |-> number, title |-> Unread, titleKind |-> "none"]
PassportDef ==
  [f \in File |->
     CASE f = pd1 -> Document("PD", K1, "APPROVED", Blank, {}, Unread)
       [] f = pd2 -> Document("PD", K1, "UNKNOWN", Blank, {}, Unread)
       [] f = pd3 -> Document("PD", K3, "NOT_APPROVED", Blank, {}, Unread)
       [] f = rd1 -> Document("RD", Blank, "UNKNOWN", v, {"correction"}, 1)
       [] f = rd2 -> Document("RD", Blank, "UNKNOWN", v, {"correction"}, 2)
       [] f = rd3 -> Document("RD", K2, "UNKNOWN", Blank, {}, Unread)
       [] OTHER -> Document("RD", Blank, "UNKNOWN", Blank, {}, Unread)]

ParcelDef ==
  [f \in Content |->
     [content |-> f, safe |-> TRUE, bomb |-> FALSE,
      size |-> CASE f = huge -> 4 [] f \in {rd1, rd2} -> 3 [] OTHER -> 1,
      suffix |-> IF f = box THEN "zip" ELSE "pdf",
      header |-> IF f \in {box, odd} THEN "pk" ELSE "pdf",
      av |-> IF f = sick THEN "infected" ELSE "clean"]]
MembersDef == [f \in File |-> IF f = box THEN {rd3} ELSE {}]

GivenReading(value) ==
  [kind |-> "hit", value |-> value, second |-> value, stamped |-> FALSE,
   crops |-> {}, grounded |-> TRUE, localized |-> TRUE]

\* The tokens of a row: words, units, and numbers with what stands beside them.
Token(row) ==
  [page |-> 1, top |-> 10 * row, bottom |-> 10 * row + 8, word |-> "-", opens |-> 0, closes |-> 0,
   numeral |-> NoNumber, lead |-> "none", trail |-> "none", means |-> "other",
   rowNumber |-> FALSE, cites |-> {}]
Word(row, word) == [Token(row) EXCEPT !.word = word]
UnitWord(row, unit) == [Token(row) EXCEPT !.means = unit]
Whole(whole, size) == [whole |-> whole, size |-> size, sep |-> "none", frac |-> 0, places |-> 0]
Number(row, whole, size) == [Token(row) EXCEPT !.numeral = Whole(whole, size)]
Fraction(row, sep, whole, frac) ==   \* one digit, a separator and three more
  [Token(row) EXCEPT !.numeral = [Whole(whole, 1) EXCEPT !.sep = sep, !.frac = frac, !.places = 3]]
RowNumber(row, n) ==
  [Number(row, n, 1) EXCEPT !.numeral.sep = "dot", !.trail = "other", !.rowNumber = TRUE]
Opening(token) == [token EXCEPT !.opens = 1, !.lead = "other"]
Closing(token) == [token EXCEPT !.closes = 1]
Citing(row, standard, n, size) ==   \* a standard is named by its number
  [Number(row, n, size) EXCEPT !.lead = "other", !.cites = {standard}]

RowsDef ==
  [f \in File |->
     CASE f = pd1 ->   \* a legend, a numbered row, and a height in two units
            <<Word(1, "building"), Word(1, "area"), RowNumber(2, 5), Word(2, "building"),
              Word(2, "area"), Number(2, 1, 1), UnitWord(2, "m"),
              Word(3, "height"), Number(3, 1, 1), Number(3, 0, 3), UnitWord(3, "mm")>>
       [] f = pd2 ->   \* an empty row of a form
            <<Word(1, "area"), Fraction(1, "comma", 1, 34), Word(2, "height"), Number(2, 0, 1),
              Word(3, "height"), Fraction(3, "comma", 1, 34)>>
       [] f = rd1 ->   \* a cell to the left, a note, and another standard
            <<Number(1, 1, 1), Word(1, "area"), Word(1, "of"), Opening(Token(1)), Number(1, 5, 1),
              Closing(UnitWord(1, "cm")),
              Word(2, "height"), Number(2, 2, 1), Citing(2, "fire code", 1, 1),
              Citing(3, "housing code", 54, 2), Word(3, "height"), Number(3, 100, 3),
              UnitWord(3, "cm")>>
       [] f = rd2 ->   \* two numbers in one row; thousands or a fraction
            <<Word(1, "area"), Fraction(1, "comma", 1, 34), Fraction(1, "comma", 1, 30),
              Word(2, "height"), Fraction(2, "dot", 1, 254), Token(2),
              Fraction(2, "comma", 1, 34)>>
       [] f = rd3 ->   \* a share, and a label whose number stands below
            <<Word(1, "area"), Number(1, 5, 1), UnitWord(1, "percent"), Number(1, 7, 1),
              UnitWord(1, "mm"), Word(2, "height"), Number(3, 7, 1)>>
       [] OTHER -> <<>>]
CropsDef ==
  [f \in File |->
     CASE f = pd1 -> {<<Number(1, 1, 1)>>}
       [] f = rd3 -> {<<Number(1, 7, 1)>>}
       [] OTHER -> {}]
Lone == [lone |-> 1, stacked |-> 0]
Sheet(page, rooms, marked) ==
  [page |-> page, labels |-> [r \in rooms |-> Lone],
   features |-> {[near |-> <<{r}>>, oneLabel |-> FALSE] : r \in marked}]
Phrase(page, rooms, goesOn) ==
  [page |-> page, rooms |-> rooms, goesOn |-> goesOn, next |-> {3}, element |-> heating,
   words |-> {system, heat}]
Text(page, alone, within, words) ==
  [page |-> page, alone |-> alone, within |-> within, words |-> words]
Silent(f, class, table, sheets) ==
  [discipline |-> {arch}, reading |-> GivenReading(class), table |-> table,
   sheets |-> sheets, phrases |-> {}, texts |-> {}]
Promises(speech, phrases) == [speech EXCEPT !.phrases = phrases]
Speech(speech, texts) == [speech EXCEPT !.texts = texts]
SaysDef ==
  [f \in File |->
     CASE f = pd1 -> Promises(Silent(f, 1000, [m \in {1, 2} |-> 10 * m],
                                     {Sheet(1, {1, 2}, {1}), Sheet(2, {1, 2}, {})}),
                              {Phrase(1, {1}, FALSE), Phrase(2, {2}, TRUE)})
       [] f = pd2 -> Promises(Silent(f, 1034, [m \in {1, 2} |-> 20 * m],
                                     {Sheet(1, {1, 2, 3}, {2})}),
                              {Phrase(1, {1, 2}, FALSE)})
       [] f = pd3 -> Silent(f, 7, Unparsed, {})
       [] f = rd1 -> Speech(Silent(f, 1000, [m \in {1, 2} |-> 10], {Sheet(1, {1, 2}, {})}),
                            {Text(1, {1}, {2}, {heat}), Text(2, {2}, {3}, {system})})
       [] f = rd2 -> Speech(Silent(f, 1034, [m \in {1, 2} |-> 10 * m],
                                   {Sheet(1, {1, 2}, {1}), Sheet(3, {2, 3}, {3})}),
                            {Text(1, {1, 2}, {}, {system})})
       [] f = rd3 -> Speech(Silent(f, 7, [m \in {1} |-> 10], {Sheet(4, {1, 2, 3}, {1, 2})}),
                            {Text(4, {3}, {1}, {})})
       [] OTHER -> Silent(f, 0, Unparsed, {})]

ByRooms == [jaccardMin |-> 30, maxDiff |-> 3]
Rule(code, kind, operator, section) ==
  [code |-> code, kind |-> kind, operator |-> operator, required |-> <<"PD", "RD">>,
   wanted |-> [s \in DocStage |-> {section}], coverage |-> "full", dual |-> TRUE,
   anchors |-> {}, unit |-> "none", norms |-> {},
   rooms |-> NoRooms, roomPass |-> FALSE, provision |-> FALSE, family |-> "none",
   abs |-> 5, rel |-> NoBound, rounding |-> "half_up", value |-> NoBound,
   min |-> NoBound, max |-> NoBound, allowed |-> {}, ladder |-> <<>>, sense |-> "none"]
MatrixDef ==
  {[Rule("area", "number", "delta", arch) EXCEPT !.rooms = ByRooms, !.roomPass = TRUE,
      !.anchors = {<<"building", "area">>, <<"area">>}, !.unit = "m"],
   [Rule("height", "number", "delta", arch) EXCEPT !.coverage = "source_missing", !.dual = FALSE,
      !.anchors = {<<"height">>}, !.unit = "m", !.norms = {"housing code"}],
   [Rule("doors", "element_table", "delta", arch) EXCEPT !.abs = NoBound, !.sense = "decrease"],
   [Rule("class", "enum", "class_not_lower", fire) EXCEPT !.ladder = <<1000, 1034>>]}
FreeSearchDef ==
  {[Rule("rooms", "room_compare", "delta", arch) EXCEPT !.rooms = ByRooms, !.provision = TRUE]}
=============================================================================
