------------------------------- MODULE XmlText -------------------------------
(***************************************************************************)
(* TinyXML: how text is read and written (tinyxmlparser.cpp, tinyxml.cpp). *)
(* A text is a sequence of symbols: marks and white space one by one, and  *)
(* each name, number or run of other characters as one symbol.  Characters *)
(* beyond ASCII are left out, but for the byte order mark.                 *)
(*                                                                         *)
(* A position p stands for a pointer into the text: Len(s) + 1 is its end, *)
(* and 0 the pointer NULL, with which the functions report a failure.      *)
(***************************************************************************)
EXTENDS Naturals, Sequences, FiniteSetsExt

NULL == 0
BOM == "BOM"
White == {" ", "\n"}
Quotes == {"\"", "'"}
NameMarks == {"-", ".", ":", "_"}
Marks == {"<", ">", "/", "=", "&", "#", ";", "!", "?", "[", "]"} \union Quotes

\* Numbers that occur in character references, and the characters they stand for.
Numbers == {"0", "1", "0A", "10", "20", "41", "65"}
Hexadecimal == [n \in {"0A", "20", "41"} |-> CASE n = "0A" -> "\n" [] n = "20" -> " " [] OTHER -> "A"]
Decimal == [n \in {"10", "65"} |-> IF n = "10" THEN "\n" ELSE "A"]

\* The five entities, by name.
Entities == [e \in {"amp", "lt", "gt", "quot", "apos"} |->
                CASE e = "amp" -> "&" [] e = "lt" -> "<" [] e = "gt" -> ">"
                  [] e = "quot" -> "\"" [] OTHER -> "'"]

End(s, p) == p \notin DOMAIN s
Char(s, p) == IF End(s, p) THEN "" ELSE s[p]

\* The first position from p on at which Stop holds, or the end of the text.
Until(s, p, Stop(_)) == Min({q \in p..(Len(s) + 1) : End(s, q) \/ Stop(q)})

StringEqual(s, p, tag) == \A k \in DOMAIN tag : Char(s, p + k - 1) = tag[k]

IsAlpha(c) == c \notin White \union Marks \union NameMarks \union Numbers \union {"", BOM}
IsNameStart(c) == IsAlpha(c) \/ c = "_"
IsNameChar(c) == IsAlpha(c) \/ c \in Numbers \union NameMarks

\* The byte order mark is skipped as white space where the encoding is UTF-8.
SkipWhiteSpace(s, p, encoding) ==
    IF p = NULL \/ End(s, p) THEN NULL
    ELSE Until(s, p, LAMBDA q : s[q] \notin White /\ ~(encoding = "utf8" /\ s[q] = BOM))

\* What was read, and the position behind it.
Read(at, text) == [at |-> at, text |-> text]
Failure == Read(NULL, <<>>)
Between(s, p, q) == Read(q, SubSeq(s, p, q - 1))

ReadName(s, p) ==
    IF IsNameStart(Char(s, p)) THEN Between(s, p, Until(s, p, LAMBDA r : ~IsNameChar(s[r])))
    ELSE Failure

-----------------------------------------------------------------------------
\* A numeric reference is read backwards from the next semicolon of the text to
\* the mark; it fails on what is not a digit.  "&#x;" stands for NUL.
Digits(digits, after, code) ==
    IF digits = <<>> THEN Read(after, <<"NUL">>)
    ELSE IF Len(digits) = 1 /\ digits[1] \in DOMAIN code THEN Read(after, <<code[digits[1]]>>)
    ELSE Failure

ReadBack(s, p, mark, q, code) ==
    IF End(s, q) THEN Failure
    ELSE Digits(SubSeq(s, Max({r \in p..(q - 1) : s[r] = mark}) + 1, q - 1), q + 1, code)

NumericReference(s, p, mark, from, code) ==
    IF End(s, from) THEN Failure
    ELSE ReadBack(s, p, mark, Until(s, from, LAMBDA r : s[r] = ";"), code)

\* An ampersand that begins no entity is left out.
GetEntity(s, p) ==
    IF Char(s, p + 1) = "#" /\ ~End(s, p + 2)
    THEN IF s[p + 2] = "x" THEN NumericReference(s, p, "x", p + 3, Hexadecimal)
         ELSE NumericReference(s, p, "#", p + 2, Decimal)
    ELSE IF Char(s, p + 1) \in DOMAIN Entities /\ Char(s, p + 2) = ";"
    THEN Read(p + 3, <<Entities[s[p + 1]]>>)
    ELSE Read(p + 1, <<>>)

GetChar(s, p) == IF s[p] = "&" THEN GetEntity(s, p) ELSE Read(p + 1, <<s[p]>>)

\* The text up to endTag: as it is, or with its white space condensed to one
\* space between words.
Then(rest, text) == [rest EXCEPT !.text = text \o @]

RECURSIVE Kept(_, _, _)
KeptFrom(s, c, endTag) == Then(Kept(s, c.at, endTag), c.text)
Kept(s, p, endTag) ==
    IF p = NULL \/ End(s, p) \/ StringEqual(s, p, endTag) THEN Read(p, <<>>)
    ELSE KeptFrom(s, GetChar(s, p), endTag)

RECURSIVE Condensed(_, _, _, _)
CondensedFrom(s, c, endTag, whitespace) ==
    Then(Condensed(s, c.at, endTag, FALSE), (IF whitespace THEN <<" ">> ELSE <<>>) \o c.text)
Condensed(s, p, endTag, whitespace) ==
    IF p = NULL \/ End(s, p) \/ StringEqual(s, p, endTag) THEN Read(p, <<>>)
    ELSE IF s[p] \in White THEN Condensed(s, p + 1, endTag, TRUE)
    ELSE CondensedFrom(s, GetChar(s, p), endTag, whitespace)

\* It fails when nothing follows the end tag.
Past(s, read, endTag) ==
    IF read.at = NULL \/ End(s, read.at) \/ End(s, read.at + Len(endTag)) THEN Read(NULL, read.text)
    ELSE Read(read.at + Len(endTag), read.text)

ReadText(s, p, trim, endTag, encoding) ==
    Past(s, IF trim THEN Condensed(s, SkipWhiteSpace(s, p, encoding), endTag, FALSE)
            ELSE Kept(s, p, endTag), endTag)

-----------------------------------------------------------------------------
\* EncodeString.  What looks like a hexadecimal reference is passed through, up
\* to its semicolon or the last character.
IsReference(str, i) ==
    Char(str, i) = "&" /\ Char(str, i + 1) = "#" /\ Char(str, i + 2) = "x"

\* Fault: an ampersand is written as it is.
Encoded_BareAmpersand(c) ==
    IF \E e \in DOMAIN Entities \ {"amp"} : Entities[e] = c
    THEN <<"&", CHOOSE e \in DOMAIN Entities : Entities[e] = c, ";">>
    ELSE IF c = "\n" THEN <<"&", "#", "x", "0A", ";">>
    ELSE <<c>>

Encoded(c) ==
    IF \E e \in DOMAIN Entities : Entities[e] = c
    THEN <<"&", CHOOSE e \in DOMAIN Entities : Entities[e] = c, ";">>
    ELSE IF c = "\n" THEN <<"&", "#", "x", "0A", ";">>
    ELSE <<c>>

RECURSIVE EncodeFrom(_, _)
EncodeFrom(str, i) ==
    IF End(str, i) THEN <<>>
    ELSE IF IsReference(str, i)
    THEN LET j == Min({k \in (i + 1)..Len(str) : str[k] = ";" \/ k = Len(str)})
         IN SubSeq(str, i, j - 1) \o EncodeFrom(str, j)
    ELSE Encoded(str[i]) \o EncodeFrom(str, i + 1)

EncodeString(str) == EncodeFrom(str, 1)
=============================================================================
