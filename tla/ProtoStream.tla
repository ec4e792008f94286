----------------------------- MODULE ProtoStream -----------------------------
(***************************************************************************)
(* A stream of messages that arrives in reads of any size, the IOBuffer    *)
(* they are read into (util/iobuffer.cpp), and the loop that takes them    *)
(* out of it with RedisProto::parse (continueToParseRecvBuffer and its     *)
(* callers in redisproxy.cpp).                                             *)
(*                                                                         *)
(* What messages look like is defined here by an encoder of its own        *)
(* (Encode), so that the parser is compared with something else.           *)
(***************************************************************************)
EXTENDS RedisProto, FiniteSets

CONSTANTS
    Characters,     \* what a text is made of
    Messages,       \* the messages, see Encode
    MaxMessages,    \* bound: messages in a stream
    ChunkSize,      \* IOBuffer::ChunkSize
    Reserve,        \* beginCopy grows a buffer with less space than this
    Stale           \* the characters that may lie behind the text

ASSUME ReserveAssumption == ChunkSize \in Nat /\ Reserve \in 1..ChunkSize
ASSUME BoundAssumption == MaxMessages \in Nat
ASSUME CharactersAssumption ==
    /\ {CR, LF, "+", "-", ":", "$", "*"} \union DOMAIN Digits \subseteq Characters
    /\ NoToken \notin Seq(Characters)

VARIABLES
    stream,             \* the messages that are sent
    pipelined,          \* whether they are sent without waiting for answers
    arrived,            \* how many characters were read in all
    data,               \* the text in the buffer; m_offset is its length
    m_capacity,
    parsedOffset,       \* recvBufferParsedOffset
    parsed,             \* what parse has returned
    reader,             \* "read", "parse", "closed", or "lost": it parses
                        \* what lies behind the text
    torn                \* history: a read ended where Cuts says

streamVars == <<stream, pipelined, arrived, data, m_capacity, parsedOffset, parsed,
          reader, torn>>

m_offset == Len(data)

-----------------------------------------------------------------------------
(* The protocol.                                                           *)

Numerals == <<"0", "1", "2", "3", "4", "5", "6", "7", "8", "9">>
Powers == <<1, 10, 100, 1000, 10000, 100000, 1000000, 10000000, 100000000, 1000000000>>

\* How many digits an int has that is not negative, and its digits.
Places(n) == Min({l \in 1..10 : l = 10 \/ n < Powers[l + 1]})
Numeral(n) == [k \in 1..Places(n) |-> Numerals[1 + ((n \div Powers[Places(n) + 1 - k]) % 10)]]
Decimal(n) == IF n < 0 THEN <<"-">> \o Numeral(-n) ELSE Numeral(n)

Line(text) == text \o <<CR, LF>>
NumberIn(mark, n) == Line(<<mark>> \o Decimal(n))
Bulk(text) == NumberIn("$", Len(text)) \o Line(text)
BulksOf(tokens, n) == FlattenSeq([k \in 1..n |-> Bulk(tokens[k])])

Encode(m) ==
    CASE m.type = "Status"    -> Line(<<"+">> \o m.tokens[1])
      [] m.type = "Error"     -> Line(<<"-">> \o m.tokens[1])
      [] m.type = "Integer"   -> NumberIn(":", m.integer)
      [] m.type = "Inline"    -> Line(m.tokens[1])
      [] m.type = "Nil"       -> NumberIn("$", -1)
      [] m.type = "Bulk"      -> Bulk(m.tokens[1])
      [] m.type = "MultiBulk" -> NumberIn("*", Len(m.tokens)) \o BulksOf(m.tokens, Len(m.tokens))

\* The lengths of a beginning of m that are not recognised as one: those that
\* end between the CR and the LF of a line, and those that end behind the
\* length of an empty bulk.
BulkCuts(text) ==
    LET behind == Len(NumberIn("$", Len(text)))
    IN {behind - 1} \union (IF text = <<>> THEN {behind} ELSE {})
Cuts(m) ==
    CASE m.type = "Bulk" -> BulkCuts(m.tokens[1])
      [] m.type = "MultiBulk" ->
            LET first == NumberIn("*", Len(m.tokens)) IN
            {Len(first) - 1} \union
              {Len(first) + Len(BulksOf(m.tokens, c[1] - 1)) + c[2] :
                 c \in UNION {{k} \X BulkCuts(m.tokens[k]) : k \in DOMAIN m.tokens}}
      [] OTHER -> {Len(Encode(m)) - 1}

\* What the program is sent: a line does not hold its own end, an inline command
\* does not begin like something else, a number fits into an int, and the tokens
\* into RedisProtoParseResult.
MaxInt == 2147483647
Ints == (-MaxInt)..MaxInt
MaxToken == 1024
IsText(text) == text \in Seq(Characters) /\ Len(text) <= MaxInt
IsLine(text) == IsText(text) /\ text # <<>> /\ CR \notin ToSet(text)
IsMessage(m) ==
    /\ m.tokens \in Seq(Seq(Characters)) /\ \A k \in DOMAIN m.tokens : IsText(m.tokens[k])
    /\ m.integer \in Ints
    /\ m.type # "Integer" => m.integer = 0
    /\ \/ m.type \in {"Status", "Error"} /\ Len(m.tokens) = 1 /\ IsLine(m.tokens[1])
       \/ /\ m.type = "Inline" /\ Len(m.tokens) = 1 /\ IsLine(m.tokens[1])
          /\ m.tokens[1][1] \notin {"+", "-", ":", "$", "*"}
       \/ m.type \in {"Integer", "Nil"} /\ m.tokens = <<>>
       \/ m.type = "Bulk" /\ Len(m.tokens) = 1
       \/ m.type = "MultiBulk" /\ Len(m.tokens) \in 1..MaxToken

\* What parse returns for m.
Meaning(m) ==
    [state |-> "ok",
     len |-> Len(Encode(m)),
     type |-> IF m.type \in {"Inline", "Nil"} THEN "Bulk" ELSE m.type,
     tokens |-> m.tokens,
     integer |-> m.integer]

ASSUME MessagesAssumption == \A m \in Messages : IsMessage(m)

\* The same, evaluated once.
Encoded == [m \in Messages |-> Encode(m)]
CutsOf == [m \in Messages |-> Cuts(m)]
Meanings == [m \in Messages |-> Meaning(m)]

-----------------------------------------------------------------------------
Beginning(n) == FlattenSeq([k \in 1..n |-> Encoded[stream[k]]])
Sent == IF pipelined THEN Beginning(Len(stream)) ELSE Beginning(Min({Len(parsed) + 1, Len(stream)}))

\* Where the n-th message begins in the stream.
Start(n) == Len(Beginning(n - 1))

StreamTypeOK ==
    /\ stream \in BoundedSeq(Messages, MaxMessages)
    /\ arrived \in 0..Len(Beginning(Len(stream)))
    /\ parsedOffset \in 0..(m_offset + 1)
    /\ m_offset <= m_capacity /\ m_capacity % ChunkSize = 0
    /\ Len(parsed) <= Len(stream)
    /\ reader \in {"read", "parse", "closed", "lost"}
    /\ torn \in BOOLEAN

\* Replies are awaited one by one, and only a reply may be nil.
StreamInit ==
    /\ stream \in BoundedSeq(Messages, MaxMessages)
    /\ pipelined \in BOOLEAN
    /\ pipelined => \A k \in DOMAIN stream : stream[k].type # "Nil"
    /\ arrived = 0
    /\ data = <<>>
    /\ m_capacity = ChunkSize
    /\ parsedOffset = 0
    /\ parsed = <<>>
    /\ reader = "read"
    /\ torn = FALSE

-----------------------------------------------------------------------------
(* IOBuffer.                                                               *)

\* beginCopy, appendChunk: the capacity a read finds.
Grown == IF m_capacity - m_offset < Reserve THEN m_capacity + ChunkSize ELSE m_capacity

\* Fault: only the first chunk is copied.
appendChunk_OneChunk(text) == IF Grown > m_capacity THEN SubSeq(text, 1, ChunkSize - 1) ELSE text

\* appendChunk: the text survives the move to a larger block.
appendChunk(text) == text

\* endCopy: n characters were read into the offered space.
endCopy(n) ==
    data' = IF n > 0 /\ n <= Grown - m_offset
            THEN appendChunk(data) \o SubSeq(Sent, arrived + 1, arrived + n)
            ELSE appendChunk(data)

-----------------------------------------------------------------------------
\* A read ends where the message it is in must not be cut.
TornAt(n) == \E k \in DOMAIN stream : n - Start(k) \in CutsOf[stream[k]]

\* onReadClientHandler, onRecvReply: one read.
Receive(n) ==
    /\ reader = "read"
    /\ n <= Grown - m_offset
    /\ m_capacity' = Grown
    /\ endCopy(n)
    /\ arrived' = arrived + n
    /\ torn' = (torn \/ TornAt(arrived + n))
    /\ reader' = "parse"
    /\ UNCHANGED <<stream, pipelined, parsedOffset, parsed>>

\* All that was read is parsed and, by the time of the next read, answered:
\* IOBuffer::clear and the reset of the offset.
NextBatch ==
    /\ data' = <<>>
    /\ m_capacity' = ChunkSize
    /\ parsedOffset' = 0
    /\ reader' = "read"

\* readingRequest, writeReply: the next message in the buffer.
Found(r) ==
    \/ /\ r.state = "ok" /\ parsedOffset + r.len = m_offset
       /\ parsed' = Append(parsed, r)
       /\ NextBatch
    \/ /\ r.state = "ok" /\ parsedOffset + r.len # m_offset
       /\ parsed' = Append(parsed, r)
       /\ parsedOffset' = parsedOffset + r.len
       /\ reader' = IF parsedOffset' > m_offset THEN "lost" ELSE "parse"
       /\ UNCHANGED <<data, m_capacity>>
    \/ /\ r.state # "ok"
       /\ reader' = IF r.state = "incomplete" THEN "read" ELSE "closed"
       /\ UNCHANGED <<parsed, parsedOffset, data, m_capacity>>

Parse(stale) ==
    /\ reader = "parse"
    /\ Found(parse(SubSeq(data, parsedOffset + 1, m_offset), stale))
    /\ UNCHANGED <<stream, pipelined, arrived, torn>>

StreamNext ==
    \/ \E n \in 1..(Len(Sent) - arrived) : Receive(n)
    \/ \E stale \in Stale : Parse(stale)

StreamSpec == StreamInit /\ [][StreamNext]_streamVars

-----------------------------------------------------------------------------
\* Whatever the reads, and whatever lies behind the text, the messages are
\* found one by one with their exact lengths, tokens and numbers: the end of
\* one is never taken for the beginning of the next.
Framing ==
    ~torn => /\ reader \notin {"closed", "lost"}
             /\ \A k \in DOMAIN parsed : parsed[k] = Meanings[stream[k]]

\* The buffer holds what was read and not yet cleared, however often it grew; and
\* a read is never offered an empty space, for which recv() would return 0 as it
\* does when the peer has closed the connection.
NothingLost ==
    /\ StreamTypeOK
    /\ ~torn => data = SubSeq(Sent, arrived - m_offset + 1, arrived)
    /\ reader = "read" => Grown > m_offset

\* Nothing is waited for in vain: when all that was sent has been read and
\* looked at, every message has been found.
AllParsed ==
    ~torn /\ reader = "read" /\ arrived = Len(Sent) => Len(parsed) = Len(stream)
=============================================================================
