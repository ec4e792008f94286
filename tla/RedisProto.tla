----------------------------- MODULE RedisProto -----------------------------
(***************************************************************************)
(* The parser of requests and replies (redisproto.cpp), character by       *)
(* character.  A C string at s of length len is the sequence s here, and   *)
(* positions count from 0 as in the code.  The code also reads s[len], the *)
(* byte behind the text: stale is what happens to be there.                *)
(*                                                                         *)
(* The readers return the position behind what they read, or AGAIN, or     *)
(* ERROR, always as an absolute position in s.                             *)
(***************************************************************************)
EXTENDS Integers, SequencesExt

CR == "\r"
LF == "\n"
Digits == [d \in {"0", "1", "2", "3", "4", "5", "6", "7", "8", "9"} |->
            CASE d = "0" -> 0 [] d = "1" -> 1 [] d = "2" -> 2 [] d = "3" -> 3 [] d = "4" -> 4
              [] d = "5" -> 5 [] d = "6" -> 6 [] d = "7" -> 7 [] d = "8" -> 8 [] d = "9" -> 9]

AGAIN == -2
ERROR == -1

At(s, stale, pos) == IF pos < Len(s) THEN s[pos + 1] ELSE stale

\* Where the scans for a carriage return that begin at from stop.
LineEnd(s, from) ==
    CHOOSE p \in from..Len(s) :
        /\ p = Len(s) \/ s[p + 1] = CR
        /\ \A q \in from..(p - 1) : s[q + 1] # CR

\* Fault: the line feed is not waited for.
AfterLine_NoLF(s, stale, p) ==
    IF p < Len(s) THEN p + 1 ELSE AGAIN

\* The common end of readTextEndByCRLF and readNumberLine, the scan having
\* stopped at p.
AfterLine(s, stale, p) ==
    IF p < Len(s) /\ At(s, stale, p) = CR
    THEN IF At(s, stale, p + 1) = LF THEN p + 2 ELSE ERROR
    ELSE AGAIN

LineUpTo(s, stale, from, p) == IF p = from THEN ERROR ELSE AfterLine(s, stale, p)

readTextEndByCRLF(s, stale, from) == LineUpTo(s, stale, from, LineEnd(s, from))

\* The number in a line: signs may come anywhere, the last one counts.
NumberStep(r, c) ==
    CASE c = "-" -> [r EXCEPT !.sign = -1]
      [] c = "+" -> [r EXCEPT !.sign = 1]
      [] OTHER   -> [r EXCEPT !.num = 10 * @ + Digits[c]]
Signed(r) == r.sign * r.num
Number(line) == Signed(FoldLeft(NumberStep, [sign |-> 1, num |-> 0], line))

NumberUpTo(s, stale, p, line) ==
    IF ToSet(line) \subseteq DOMAIN Digits \union {"-", "+"}
    THEN [ret |-> AfterLine(s, stale, p), num |-> Number(line)]
    ELSE [ret |-> ERROR, num |-> 0]
NumberLine(s, stale, from, p) == NumberUpTo(s, stale, p, SubSeq(s, from + 1, p))

readNumberLine(s, stale, from) == NumberLine(s, stale, from, LineEnd(s, from))

\* Fault: one character more is waited for.
readTextLine_Waits(s, from, stringlen) ==
    LET len == Len(s) - from IN
    IF len <= stringlen + 2 THEN AGAIN
    ELSE IF SubSeq(s, from + stringlen + 1, from + stringlen + 2) = <<CR, LF>>
    THEN from + stringlen + 2
    ELSE ERROR

\* The stringlen characters of a bulk string and the CRLF behind them.  A
\* negative stringlen looks at what comes before from.
readTextLine(s, from, stringlen) ==
    LET len == Len(s) - from IN
    CASE len <= stringlen -> AGAIN
      [] len - stringlen = 1 -> IF s[from + stringlen + 1] = CR THEN AGAIN ELSE ERROR
      [] OTHER -> IF SubSeq(s, from + stringlen + 1, from + stringlen + 2) = <<CR, LF>>
                  THEN from + stringlen + 2
                  ELSE ERROR

\* Token::s and len as they were before: the token is not written.
NoToken == <<"stale">>

\* Fault: what follows the length is not looked at.
readBulk_NoLookAhead(s, stale, from) ==
    LET n == readNumberLine(s, stale, from + 1) IN
    IF s[from + 1] # "$" THEN [ret |-> ERROR, tok |-> NoToken]
    ELSE IF n.ret < 0 THEN [ret |-> n.ret, tok |-> NoToken]
    ELSE [ret |-> n.ret + n.num + 2, tok |-> SubSeq(s, n.ret + 1, n.ret + n.num)]

\* An empty or nil bulk is complete when nothing follows its length yet.
BulkText(s, n, ret) ==
    [ret |-> ret,
     tok |-> IF ret < 0 THEN NoToken ELSE SubSeq(s, n.ret + 1, n.ret + n.num)]
BulkBehind(s, n) ==
    IF n.ret < 0 THEN [ret |-> n.ret, tok |-> NoToken]
    ELSE IF n.ret = Len(s)
    THEN [ret |-> IF n.num <= 0 THEN n.ret ELSE AGAIN, tok |-> NoToken]
    ELSE BulkText(s, n, readTextLine(s, n.ret, n.num))
readBulk(s, stale, from) ==
    IF s[from + 1] # "$" THEN [ret |-> ERROR, tok |-> NoToken]
    ELSE IF from + 1 >= Len(s) THEN [ret |-> AGAIN, tok |-> NoToken]
    ELSE BulkBehind(s, readNumberLine(s, stale, from + 1))

\* The loop over the bulks of a multi-bulk; it stops at the end of s and at the
\* first that is incomplete or wrong.  (With a negative argc the code reads on
\* to the end of s and waits; no message has one.)
WithBulk(r, b) == [ret |-> b.ret, toks |-> Append(r.toks, b.tok)]
Bulks(s, stale, from, argc) ==
    FoldLeft(LAMBDA r, k :
                IF r.ret < 0 \/ r.ret >= Len(s) THEN r
                ELSE WithBulk(r, readBulk(s, stale, r.ret)),
             [ret |-> from, toks |-> <<>>],
             [k \in 1..argc |-> k])

AllBulks(bulks, argc) ==
    IF bulks.ret >= 0 /\ Len(bulks.toks) # argc THEN [ret |-> AGAIN, toks |-> <<>>]
    ELSE bulks
BulksBehind(s, stale, n) ==
    IF n.ret < 0 THEN [ret |-> n.ret, toks |-> <<>>]
    ELSE AllBulks(Bulks(s, stale, n.ret, n.num), n.num)
readMultiBulk(s, stale) ==
    IF Len(s) <= 1 THEN [ret |-> AGAIN, toks |-> <<>>]
    ELSE BulksBehind(s, stale, readNumberLine(s, stale, 1))

\* readStatus, readError: a line behind its first character.
readMarkedLine(s, stale) ==
    IF Len(s) <= 1 THEN AGAIN ELSE readTextEndByCRLF(s, stale, 1)

Text(s, from, ret) == IF ret < 0 THEN <<>> ELSE <<SubSeq(s, from + 1, ret - 2)>>

\* RedisProto::parse: the outcome, the length of the message, its tokens and
\* its number.
Result(ret, type, tokens, integer) ==
    [state |-> CASE ret = AGAIN -> "incomplete" [] ret = ERROR -> "error" [] OTHER -> "ok",
     len |-> ret, type |-> type, tokens |-> tokens, integer |-> integer]
LineResult(s, from, type, ret) == Result(ret, type, Text(s, from, ret), 0)
NumberResult(n) == Result(n.ret, "Integer", <<>>, n.num)
BulkResult(b) == Result(b.ret, "Bulk", IF b.tok = NoToken THEN <<>> ELSE <<b.tok>>, 0)
MultiBulkResult(m) == Result(m.ret, "MultiBulk", m.toks, 0)
parse(s, stale) ==
    CASE s[1] = "+" -> LineResult(s, 1, "Status", readMarkedLine(s, stale))
      [] s[1] = "-" -> LineResult(s, 1, "Error", readMarkedLine(s, stale))
      [] s[1] = ":" -> IF Len(s) <= 1 THEN Result(AGAIN, "Integer", <<>>, 0)
                       ELSE NumberResult(readNumberLine(s, stale, 1))
      [] s[1] = "$" -> BulkResult(readBulk(s, stale, 0))
      [] s[1] = "*" -> MultiBulkResult(readMultiBulk(s, stale))
      [] OTHER -> LineResult(s, 0, "Bulk", readTextEndByCRLF(s, stale, 0))
=============================================================================
