------------------------------ MODULE MCReader ------------------------------
(* Model values for the run of Reader: a scan of three pages (one of them   *)
(* lying on its side, one with a text layer), a scan of one page that only  *)
(* Tesseract reads, a printed document with hidden text, a text document,   *)
(* an archive, and files that cannot be read.                               *)
EXTENDS Reader

Twins == [v \in Value \cup {Blank} |-> IF v = "AB-1" THEN "CYR-1" ELSE v]

At(kind, value, edge, row, column) ==
  [kind |-> kind, value |-> value, russian |-> kind \in {"label", "approves", "person", "draft"},
   line |-> FALSE, edge |-> edge, row |-> row, column |-> column]
Bottom(kind, value) == At(kind, value, "bottom", 1, 1)
Clear(word) == [word |-> word, sure |-> TRUE, inside |-> TRUE]
Doubtful(word) == [Clear(word) EXCEPT !.sure = FALSE]
Nothing == [words |-> <<>>, lines |-> <<>>]
Unread == [rapid |-> Nothing, both |-> NoAnswer, english |-> NoAnswer]
ByRapid(words) == [Unread EXCEPT !.rapid = [Nothing EXCEPT !.words = words]]
ByTesseract(words) == [Unread EXCEPT !.rapid = NoAnswer, !.english = words]

Char(id) == [id |-> id, under |-> {}]
Rect(word, id) ==
  [word |-> word, rest |-> word, chars |-> {Char(id)}, shown |-> TRUE, inside |-> TRUE]
Printed(layer) ==
  [layer |-> layer, hidden |-> FALSE, drawable |-> TRUE, looks |-> [q \in 0..3 |-> Unread],
   band |-> Unread]
Scanned(look) == [Printed(<<>>) EXCEPT !.looks[0] = look, !.band = look]

\* The stamp of a scan: the cipher is Latin beside a Russian label.
Stamp ==
  <<Clear(At("label", Blank, "bottom", 1, 1)), Clear(At("cipher", "AB-1", "bottom", 1, 2)),
    Doubtful(At("change", "7", "bottom", 1, 3)), Clear(At("change", "1", "bottom", 2, 1))>>
\* A sheet laid on its side: its bottom is at the right of the picture turned back.
Approval3 ==
  <<Clear(At("approves", Blank, "left", 3, 1)), Clear(At("person", "Ivanov", "left", 3, 2))>>
OnItsSide == [Printed(<<>>) EXCEPT !.looks[3] = ByRapid(Approval3)]
Lines == <<Clear([Bottom("designation", "K2") EXCEPT !.line = TRUE])>>

PagesDef ==
  [g \in File |->
     CASE g = "scan" ->
            <<Scanned(ByRapid(Stamp)), OnItsSide,
              [Printed(<<Rect(Bottom("sheet", "3"), 1)>>) EXCEPT !.band = ByRapid(Stamp)]>>
       [] g = "sheet" ->
            <<[Scanned(ByTesseract(<<Clear(Bottom("bare", "K2"))>>)) EXCEPT
                 !.band = ByTesseract(<<Clear(Bottom("bare", "K1"))>>)]>>
       [] g = "print" ->
            <<[Printed(<<[Rect(Bottom("cipher", "K1"), 1) EXCEPT !.chars = {[id |-> 1, under |-> {9}]}],
                         Rect(Bottom("cipher", "K2"), 2), Rect(Bottom("draft", Blank), 3),
                         [Rect(Bottom("stage", "RD"), 2) EXCEPT !.rest = Bottom("plain", Blank)]>>)
                 EXCEPT !.hidden = TRUE,
                        !.band.rapid = [Nothing EXCEPT !.lines = Lines]]>>
       [] OTHER -> <<Printed(<<Rect(Bottom("stageMark", "RD"), 1)>>)>>]
TextDef ==
  [g \in File |-> IF g = "text" THEN <<Bottom("designation", "K1"), Bottom("designation", "K2"),
                                       At("designation", "K2", "top", 1, 1)>> ELSE <<>>]
NameDef ==
  [g \in File |->
     [stem |-> IF g = "member" THEN "AR 12" ELSE "stem",
      ciphers |-> CASE g = "sheet" -> {"K1"} [] g = "member" -> {"K1", "K2"} [] OTHER -> {},
      sections |-> IF g = "member" THEN {"AR"} ELSE {},
      stage |-> IF g = "member" THEN "PD" ELSE Blank]]
EntryDef ==
  [g \in File |->
     [section |-> CASE g = "print" -> "AR" [] g = "member" -> "KR" [] OTHER -> Blank,
      path |-> IF g = "print" THEN {"KR"} ELSE IF g = "text" THEN {"AR"} ELSE {}]]
FormDef ==
  [g \in File |-> CASE g = "text" -> "text" [] g \in {"box", "torn"} -> "zip" [] g = "table" -> "other"
                    [] OTHER -> "pdf"]
MembersDef == [g \in File |-> IF g = "box" THEN <<"member", "table">> ELSE <<>>]
DamageDef == [g \in File |-> CASE g \in {"bad", "torn"} -> "broken" [] g = "odd" -> "odd" [] OTHER -> "none"]
PackagesDef ==
  {<<"scan", "text">>, <<"box", "sheet", "print">>, <<"torn", "bad", "absent">>, <<"odd">>}
LockedDef == {[found |-> TRUE, sound |-> TRUE]}
=============================================================================
