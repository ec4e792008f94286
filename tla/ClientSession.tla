---------------------------- MODULE ClientSession ----------------------------
(***************************************************************************)
(* Client sessions: what a session reads, parses, forwards and writes      *)
(* (redisproxy.cpp, util/tcpserver.cpp, the two transfer callbacks of      *)
(* redisservant.cpp), and the bytes on the connections it borrows.         *)
(*                                                                         *)
(* Who gets a connection, waits or is refused is left to ConnectionLease,  *)
(* the promise RedisServant was shown to keep: the actions of the lease    *)
(* are conjuncts of the actions here.                                      *)
(*                                                                         *)
(* Bytes come in pieces: a piece is what one read or write may end with.   *)
(* A request that is forwarded and a server's reply have two pieces, so    *)
(* either can be half-way; any other message has one.                      *)
(***************************************************************************)
EXTENDS ConnectionLease, Integers, FiniteSets, SequencesExt

CONSTANTS
    Workloads,      \* the requests the clients may send, as functions from
                    \* Sessions to sequences of Kinds
    MaxFailures     \* bound: how often a connection breaks

VARIABLES
    script,                 \* the requests of each client, one of Workloads
    done,                   \* pieces of its requests in batches that were answered
    auth,                   \* ClientPacket::auth
    pc,                     \* where the session is
    recvBuff, recvBufferParsedOffset,
    sendBuff, sendBufferParsedOffset,
    sendBytes,              \* how much of sendBuff the client was sent
    sendToRedisBytes,       \* how much of the request the server was sent
    toClient,               \* what the client has been sent in all
    toServer, fromServer,   \* [Connections -> pieces not read yet]
    broken,                 \* connections the server has closed
    failures,
    exposed                 \* history: see Expose and RefusedReply

bufferVars == <<recvBuff, recvBufferParsedOffset, sendBuff,
                sendBufferParsedOffset, sendBytes, sendToRedisBytes>>
sessionVars == <<done, auth, pc, bufferVars, toClient>>
wireVars == <<toServer, fromServer, broken, failures>>
vars == <<leaseVars, script, sessionVars, wireVars, exposed>>

\* get: a command forwarded by its key.  nil: one whose reply the parser does
\* not understand (HMGET of a field that does not exist).  ping: a command the
\* proxy answers itself; to its session a command of several keys looks the
\* same.  bad: what the parser refuses.
Kinds == {"get", "nil", "ping", "auth", "bad"}
Forwarded == {"get", "nil"}

ASSUME WorkloadsAssumption == Workloads \subseteq [Sessions -> Seq(Kinds)]
ASSUME NoConnectionAssumption == NoConnection \notin Connections
ASSUME MaxFailuresAssumption == MaxFailures \in Nat

Stages == {"read", "dispatch", "select", "line", "send", "recv", "finish",
           "write", "closed"}

Piece(s, n, part, last, by) ==
    [src |-> s, n |-> n, part |-> part, last |-> last, by |-> by]

Halves(s, n, by) == <<Piece(s, n, 1, FALSE, by), Piece(s, n, 2, TRUE, by)>>
LocalReply(s, n) == <<Piece(s, n, 1, TRUE, "proxy")>>

\* What the client s writes as its n-th request, the requests being w.
Written(w, s, n) ==
    IF w[s][n] \in Forwarded THEN Halves(s, n, "client")
    ELSE <<Piece(s, n, 1, TRUE, "client")>>
RequestPieces(s, n) == Written(script, s, n)

\* All it writes, one request after another.
Before(p, q) == p.n < q.n \/ (p.n = q.n /\ p.part < q.part)
Streams ==
    [w \in Workloads |-> [s \in Sessions |->
        LET pieces == UNION {ToSet(Written(w, s, n)) : n \in 1..Len(w[s])}
        IN  [i \in 1..Cardinality(pieces) |->
              CHOOSE p \in pieces : Cardinality({q \in pieces : Before(q, p)}) = i - 1]]]
Stream(s) == Streams[script][s]

\* What the session has not read.  How much of it the client has sent when
\* the session reads is the client's choice (ReadRequest).
toProxy(s) == SubSeq(Stream(s), done[s] + Len(recvBuff[s]) + 1, Len(Stream(s)))

TypeOK ==
    /\ LeaseTypeOK
    /\ script \in Workloads
    /\ auth \in [Sessions -> BOOLEAN]
    /\ pc \in [Sessions -> Stages]
    /\ \A s \in Sessions :
        /\ done[s] + Len(recvBuff[s]) <= Len(Stream(s))
        /\ recvBufferParsedOffset[s] \in 0..Len(recvBuff[s])
        /\ sendBufferParsedOffset[s] \in 0..Len(sendBuff[s])
        /\ sendBytes[s] \in 0..Len(sendBuff[s])
        /\ sendToRedisBytes[s] \in 0..1
        /\ pc[s] = "line" <=> phase[s] = "waiting"
        /\ pc[s] \in {"send", "recv"} <=> phase[s] = "granted"
    /\ failures \in 0..MaxFailures
    /\ broken \in [Connections -> BOOLEAN]

Init ==
    /\ LeaseInit
    /\ script \in Workloads
    /\ \E open \in BOOLEAN : auth = [s \in Sessions |-> open]
    /\ done = [s \in Sessions |-> 0]
    /\ pc = [s \in Sessions |-> "read"]
    /\ recvBuff = [s \in Sessions |-> <<>>]
    /\ recvBufferParsedOffset = [s \in Sessions |-> 0]
    /\ sendBuff = [s \in Sessions |-> <<>>]
    /\ sendBufferParsedOffset = [s \in Sessions |-> 0]
    /\ sendBytes = [s \in Sessions |-> 0]
    /\ sendToRedisBytes = [s \in Sessions |-> 0]
    /\ toClient = [s \in Sessions |-> <<>>]
    /\ toServer = [c \in Connections |-> <<>>]
    /\ fromServer = [c \in Connections |-> <<>>]
    /\ broken = [c \in Connections |-> FALSE]
    /\ failures = 0
    /\ exposed = FALSE

-----------------------------------------------------------------------------
(* RedisProto::parse as the session sees it: the outcome and the length.   *)

\* A request at the head of rest.
ParseRequest(rest) ==
    LET p == Head(rest) IN
    CASE script[p.src][p.n] = "bad" -> [state |-> "error", len |-> 0]
      [] p.last -> [state |-> "ok", len |-> 1]
      [] ~p.last /\ Len(rest) = 1 -> [state |-> "incomplete", len |-> 0]
      [] OTHER -> [state |-> "ok", len |-> 2]

Anything(rest) ==
    {[state |-> "ok", len |-> k] : k \in 1..Len(rest)}
        \union {[state |-> "error", len |-> 0], [state |-> "incomplete", len |-> 0]}

\* Fault: the first half of a reply is taken for the whole.
ParseReply_Early(rest) ==
    IF Head(rest).part = 1 THEN {[state |-> "ok", len |-> 1]} ELSE Anything(rest)

\* A reply at the head of rest.  Where rest begins in the middle of a message,
\* or one message is cut off by the next, the outcome depends on the bytes.
ParseReply(rest) ==
    LET p == Head(rest)
        kind == script[p.src][p.n]
    IN CASE p.part = 1 /\ p.last -> {[state |-> "ok", len |-> 1]}
         [] p.part = 1 /\ ~p.last /\ Len(rest) = 1 ->
              {[state |-> "incomplete", len |-> 0]}
                \union (IF kind = "nil" THEN {[state |-> "error", len |-> 0]} ELSE {})
         [] p.part = 1 /\ ~p.last /\ Len(rest) > 1
              /\ rest[2] = Piece(p.src, p.n, 2, TRUE, p.by) ->
              {IF kind = "nil" THEN [state |-> "error", len |-> 0]
               ELSE [state |-> "ok", len |-> 2]}
         [] OTHER -> Anything(rest)

Unparsed(buff, offset) == SubSeq(buff, offset + 1, Len(buff))

\* recvParseResult: the request that ends at recvBufferParsedOffset.
current(s) == recvBuff[s][recvBufferParsedOffset[s]].n
Request(s) == RequestPieces(s, current(s))

-----------------------------------------------------------------------------
(* Reading and dispatching, on the session's thread.                       *)

\* closeConnection: nothing of the session is left, replies included.
Close(s) ==
    /\ pc' = [pc EXCEPT ![s] = "closed"]
    /\ UNCHANGED <<leaseVars, script, done, auth, toClient, wireVars, exposed>>

\* The switch on continueToParseRecvBuffer(), the buffer being buff.
Parse(s, buff) ==
    LET r == ParseRequest(Unparsed(buff, recvBufferParsedOffset[s])) IN
    /\ recvBufferParsedOffset' = [recvBufferParsedOffset EXCEPT ![s] = @ + r.len]
    /\ CASE r.state = "ok" ->
              pc' = [pc EXCEPT ![s] = "dispatch"]
         [] r.state = "incomplete" ->
              pc' = [pc EXCEPT ![s] = "read"]
         [] r.state = "error" ->
              pc' = [pc EXCEPT ![s] = "closed"]
    /\ UNCHANGED <<leaseVars, script, done, auth, sendBuff,
                   sendBufferParsedOffset, sendBytes, sendToRedisBytes,
                   toClient, wireVars, exposed>>

\* onReadClientHandler: some of what the client sent is read and parsed.
ReadRequest(s) ==
    /\ pc[s] = "read"
    /\ \E k \in 1..Len(toProxy(s)) :
        LET buff == recvBuff[s] \o SubSeq(toProxy(s), 1, k) IN
        /\ recvBuff' = [recvBuff EXCEPT ![s] = buff]
        /\ Parse(s, buff)

\* onReadClientHandler: end of file or an error.
ReadFails(s) ==
    /\ pc[s] = "read"
    /\ Close(s)
    /\ UNCHANGED bufferVars

\* The packet gets a reply the proxy made, and setFinishedState is called.
Reply(s) == sendBuff' = [sendBuff EXCEPT ![s] = @ \o LocalReply(s, current(s))]
Finished(s) == pc' = [pc EXCEPT ![s] = "finish"]

\* readRequestFinished: AUTH, a command the proxy answers, or a session that
\* has not authenticated.
DispatchLocal(s) ==
    /\ pc[s] = "dispatch"
    /\ \/ /\ script[s][current(s)] = "auth"
          /\ auth' = [auth EXCEPT ![s] = TRUE]
       \/ /\ \/ script[s][current(s)] \in {"auth", "ping"}
             \/ ~auth[s]
          /\ UNCHANGED auth
    /\ Reply(s)
    /\ Finished(s)
    /\ UNCHANGED <<leaseVars, script, done, recvBuff, recvBufferParsedOffset,
                   sendBufferParsedOffset, sendBytes, sendToRedisBytes,
                   toClient, wireVars, exposed>>

\* readRequestFinished, handleClientPacket: the servant is asked.
DispatchKey(s) ==
    /\ pc[s] = "dispatch"
    /\ script[s][current(s)] \in Forwarded
    /\ auth[s]
    /\ Ask(s)
    /\ pc' = [pc EXCEPT ![s] = "select"]
    /\ UNCHANGED <<script, done, auth, bufferVars, toClient, wireVars, exposed>>

\* A forwarded request starts while sendBuff holds bytes that
\* sendBufferParsedOffset has not passed: the parser will take those for the
\* server's reply.
Expose(s) ==
    exposed' = (exposed \/ sendBufferParsedOffset[s] # Len(sendBuff[s]))

\* handle(): there is a connection.
SelectConnection(s) ==
    /\ pc[s] = "select"
    /\ Grant(s)
    /\ pc' = [pc EXCEPT ![s] = "send"]
    /\ Expose(s)
    /\ UNCHANGED <<script, done, auth, bufferVars, toClient, wireVars>>

\* handle(): there is none, the packet is queued.
SelectNothing(s) ==
    /\ pc[s] = "select"
    /\ Wait(s)
    /\ pc' = [pc EXCEPT ![s] = "line"]
    /\ UNCHANGED <<script, done, auth, bufferVars, toClient, wireVars, exposed>>

\* No group, no usable servant, or an inactive one: an error.
Refused(s) ==
    /\ pc[s] = "select"
    /\ Refuse(s)
    /\ Reply(s)
    /\ Finished(s)
    /\ UNCHANGED <<script, done, auth, recvBuff, recvBufferParsedOffset,
                   sendBufferParsedOffset, sendBytes, sendToRedisBytes,
                   toClient, wireVars, exposed>>

\* RedisServant::stop(): the queued packets get an error, in their order.
TurnedAway(s) ==
    /\ line # <<>> /\ s = Head(line)
    /\ TurnAway
    /\ Reply(s)
    /\ Finished(s)
    /\ UNCHANGED <<script, done, auth, recvBuff, recvBufferParsedOffset,
                   sendBufferParsedOffset, sendBytes, sendToRedisBytes,
                   toClient, wireVars, exposed>>

-----------------------------------------------------------------------------
(* Forwarding: RedisServant::onSendRequest and onRecvReply.                *)

\* onRedisSocketUseCompleted, then setFinishedState.
UseCompleted(s) ==
    \/ /\ line # <<>>
       /\ PassOn(s)
       /\ pc' = [pc EXCEPT ![s] = "finish", ![Head(line)] = "send"]
       /\ Expose(Head(line))
    \/ /\ line = <<>>
       /\ GiveBack(s)
       /\ Finished(s)
       /\ UNCHANGED exposed

\* The connection failed: it is made anew and given on, or deleted.
Repair(s) ==
    LET c == lease[s] IN
    /\ broken' = [broken EXCEPT ![c] = FALSE]
    /\ toServer' = [toServer EXCEPT ![c] = <<>>]
    /\ fromServer' = [fromServer EXCEPT ![c] = <<>>]
    /\ UseCompleted(s) \/ (GiveBack(s) /\ Finished(s) /\ UNCHANGED exposed)
    /\ UNCHANGED failures

\* The network: what is sent on a broken connection is lost.
Carry(c, pieces) ==
    toServer' = [toServer EXCEPT ![c] = IF broken[c] THEN @ ELSE @ \o pieces]

\* Fault: sendToRedisBytes is not reset.
SendRequest_NoReset(s) ==
    /\ pc[s] = "send"
    /\ \E k \in 1..(Len(Request(s)) - sendToRedisBytes[s]) :
        LET n == sendToRedisBytes[s] + k IN
        /\ Carry(lease[s], SubSeq(Request(s), sendToRedisBytes[s] + 1, n))
        /\ sendToRedisBytes' = [sendToRedisBytes EXCEPT ![s] = IF n = 2 THEN 1 ELSE n]
        /\ pc' = [pc EXCEPT ![s] = IF n = Len(Request(s)) THEN "recv" ELSE "send"]
    /\ UNCHANGED <<leaseVars, script, done, auth, recvBuff, recvBufferParsedOffset,
                   sendBuff, sendBufferParsedOffset, sendBytes, toClient,
                   fromServer, broken, failures, exposed>>

\* onSendRequest: some more of the request is accepted by the socket.
SendRequest(s) ==
    /\ pc[s] = "send"
    /\ \E k \in 1..(Len(Request(s)) - sendToRedisBytes[s]) :
        LET n == sendToRedisBytes[s] + k
            all == n = Len(Request(s))
        IN /\ Carry(lease[s], SubSeq(Request(s), sendToRedisBytes[s] + 1, n))
           /\ sendToRedisBytes' = [sendToRedisBytes EXCEPT ![s] = IF all THEN 0 ELSE n]
           /\ pc' = [pc EXCEPT ![s] = IF all THEN "recv" ELSE "send"]
    /\ UNCHANGED <<leaseVars, script, done, auth, recvBuff, recvBufferParsedOffset,
                   sendBuff, sendBufferParsedOffset, sendBytes, toClient,
                   fromServer, broken, failures, exposed>>

\* onSendRequest: IOError.  sendToRedisBytes keeps its value.
SendFails(s) ==
    /\ pc[s] = "send"
    /\ broken[lease[s]]
    /\ Repair(s)
    /\ Reply(s)
    /\ UNCHANGED <<script, done, auth, recvBuff, recvBufferParsedOffset,
                   sendBufferParsedOffset, sendBytes, sendToRedisBytes, toClient>>

\* onRecvReply: some of what the server sent is read and parsed.
RecvReply(s) ==
    /\ pc[s] = "recv"
    /\ \E k \in 1..Len(fromServer[lease[s]]) :
        LET c == lease[s]
            buff == sendBuff[s] \o SubSeq(fromServer[c], 1, k)
        IN /\ fromServer' = [fromServer EXCEPT ![c] = SubSeq(@, k + 1, Len(@))]
           /\ \E r \in ParseReply(Unparsed(buff, sendBufferParsedOffset[s])) :
                \/ /\ r.state = "ok"
                   /\ sendBuff' = [sendBuff EXCEPT ![s] = buff]
                   /\ sendBufferParsedOffset' = [sendBufferParsedOffset EXCEPT ![s] = @ + r.len]
                   /\ UseCompleted(s)
                \/ /\ r.state = "incomplete"
                   /\ sendBuff' = [sendBuff EXCEPT ![s] = buff]
                   /\ UNCHANGED <<leaseVars, pc, sendBufferParsedOffset, exposed>>
    /\ UNCHANGED <<script, done, auth, recvBuff, recvBufferParsedOffset,
                   sendBytes, sendToRedisBytes, toClient,
                   toServer, broken, failures>>

\* onRecvReply: the parser refuses the reply.  The connection goes on to the
\* next user as it is, whatever the server has still to send on it.
RefusedReply(s) ==
    /\ pc[s] = "recv"
    /\ \E k \in 1..Len(fromServer[lease[s]]) :
        LET c == lease[s]
            buff == sendBuff[s] \o SubSeq(fromServer[c], 1, k)
        IN /\ fromServer' = [fromServer EXCEPT ![c] = SubSeq(@, k + 1, Len(@))]
           /\ \E r \in ParseReply(Unparsed(buff, sendBufferParsedOffset[s])) :
                r.state = "error"
           /\ sendBuff' = [sendBuff EXCEPT ![s] = buff \o LocalReply(s, current(s))]
    /\ \/ line # <<>> /\ PassOn(s)
          /\ pc' = [pc EXCEPT ![s] = "finish", ![Head(line)] = "send"]
       \/ line = <<>> /\ GiveBack(s) /\ Finished(s)
    /\ exposed' = TRUE
    /\ UNCHANGED <<script, done, auth, recvBuff, recvBufferParsedOffset,
                   sendBufferParsedOffset, sendBytes, sendToRedisBytes, toClient,
                   toServer, broken, failures>>

\* onRecvReply: the server closed the connection, or an error.  What it sent of
\* the reply stays in sendBuff.
RecvFails(s) ==
    /\ pc[s] = "recv"
    /\ broken[lease[s]] /\ fromServer[lease[s]] = <<>>
    /\ Repair(s)
    /\ Reply(s)
    /\ UNCHANGED <<script, done, auth, recvBuff, recvBufferParsedOffset,
                   sendBufferParsedOffset, sendBytes, sendToRedisBytes, toClient>>

-----------------------------------------------------------------------------
(* Replying: setFinishedState, writeReply, writeReplyFinished.             *)

\* Fault: the session waits for the client instead.
NextRequest_Waits(s) ==
    /\ pc[s] = "finish"
    /\ recvBufferParsedOffset[s] # Len(recvBuff[s])
    /\ pc' = [pc EXCEPT ![s] = "read"]
    /\ UNCHANGED <<leaseVars, script, done, auth, bufferVars, toClient, wireVars, exposed>>

\* writeReply: the buffer holds more, which is parsed and handled first.
NextRequest(s) ==
    /\ pc[s] = "finish"
    /\ recvBufferParsedOffset[s] # Len(recvBuff[s])
    /\ Parse(s, recvBuff[s])
    /\ UNCHANGED recvBuff

\* writeReply: everything is answered, the replies are written.
MayWrite(s) ==
    \/ pc[s] = "finish" /\ recvBufferParsedOffset[s] = Len(recvBuff[s])
    \/ pc[s] = "write"

\* onWriteClientHandler: some of the replies go out.
WriteSome(s) ==
    /\ MayWrite(s)
    /\ pc' = [pc EXCEPT ![s] = "write"]
    /\ \E n \in (sendBytes[s] + 1)..(Len(sendBuff[s]) - 1) :
        /\ toClient' = [toClient EXCEPT ![s] = @ \o SubSeq(sendBuff[s], sendBytes[s] + 1, n)]
        /\ sendBytes' = [sendBytes EXCEPT ![s] = n]
    /\ UNCHANGED <<leaseVars, script, done, auth, recvBuff,
                   recvBufferParsedOffset, sendBuff, sendBufferParsedOffset,
                   sendToRedisBytes, wireVars, exposed>>

\* onWriteClientHandler, writeReplyFinished: the rest goes out and everything
\* is reset for the next batch.
WriteRest(s) ==
    /\ MayWrite(s)
    /\ toClient' = [toClient EXCEPT ![s] = @ \o Unparsed(sendBuff[s], sendBytes[s])]
    /\ done' = [done EXCEPT ![s] = @ + Len(recvBuff[s])]
    /\ recvBuff' = [recvBuff EXCEPT ![s] = <<>>]
    /\ sendBuff' = [sendBuff EXCEPT ![s] = <<>>]
    /\ recvBufferParsedOffset' = [recvBufferParsedOffset EXCEPT ![s] = 0]
    /\ sendBufferParsedOffset' = [sendBufferParsedOffset EXCEPT ![s] = 0]
    /\ sendBytes' = [sendBytes EXCEPT ![s] = 0]
    /\ sendToRedisBytes' = [sendToRedisBytes EXCEPT ![s] = 0]
    /\ pc' = [pc EXCEPT ![s] = "read"]
    /\ IF phase[s] = "answered" THEN Answer(s) ELSE UNCHANGED leaseVars
    /\ UNCHANGED <<script, auth, wireVars, exposed>>

\* onWriteClientHandler: an error.
WriteFails(s) ==
    /\ MayWrite(s)
    /\ Close(s)
    /\ UNCHANGED bufferVars

-----------------------------------------------------------------------------
(* The Redis server (environment).                                         *)

WholeAtHead(pieces) ==
    /\ Len(pieces) >= 2
    /\ LET p == pieces[1] IN
        ~p.last /\ pieces[2] = Piece(p.src, p.n, 2, TRUE, p.by)

ServerReplies(c) ==
    /\ ~broken[c]
    /\ WholeAtHead(toServer[c])
    /\ LET p == Head(toServer[c]) IN
        fromServer' = [fromServer EXCEPT ![c] = @ \o Halves(p.src, p.n, "server")]
    /\ toServer' = [toServer EXCEPT ![c] = SubSeq(@, 3, Len(@))]
    /\ UNCHANGED <<leaseVars, script, sessionVars, broken, failures, exposed>>

\* The rest of a request whose beginning never came: the server closes the connection.
ServerRejects(c) ==
    /\ ~broken[c]
    /\ toServer[c] # <<>>
    /\ Head(toServer[c]).part = 2
    /\ broken' = [broken EXCEPT ![c] = TRUE]
    /\ toServer' = [toServer EXCEPT ![c] = <<>>]
    /\ UNCHANGED <<leaseVars, script, sessionVars, fromServer, failures, exposed>>

\* A connection breaks; what was under way may be lost.
ServerFails(c) ==
    /\ ~broken[c]
    /\ failures < MaxFailures
    /\ failures' = failures + 1
    /\ broken' = [broken EXCEPT ![c] = TRUE]
    /\ toServer' = [toServer EXCEPT ![c] = <<>>]
    /\ \E k \in 0..Len(fromServer[c]) :
        fromServer' = [fromServer EXCEPT ![c] = SubSeq(@, 1, k)]
    /\ UNCHANGED <<leaseVars, script, sessionVars, exposed>>

-----------------------------------------------------------------------------
\* What a session does when its thread runs, its events arrive and its client
\* stays.
Runs(s) ==
    \/ ReadRequest(s)
    \/ DispatchLocal(s) \/ DispatchKey(s)
    \/ SelectConnection(s) \/ SelectNothing(s) \/ Refused(s)
    \/ SendRequest(s) \/ SendFails(s)
    \/ RecvReply(s) \/ RefusedReply(s) \/ RecvFails(s)
    \/ NextRequest(s)
    \/ WriteSome(s) \/ WriteRest(s)

SessionStep(s) == Runs(s) \/ ReadFails(s) \/ WriteFails(s) \/ TurnedAway(s)

Server(c) == ServerReplies(c) \/ ServerRejects(c) \/ ServerFails(c)

Next ==
    \/ \E s \in Sessions : SessionStep(s)
    \/ \E c \in Connections : Server(c)

Spec == Init /\ [][Next]_vars

-----------------------------------------------------------------------------
(* Safety.  exposed marks the runs in which a session began a forwarded    *)
(* request behind bytes its reply parser had not passed, or met a reply it *)
(* refused: what happens then is the subject of NoForeignReply.            *)

\* A connection nobody has been lent carries no bytes in either direction, and
\* one that is lent carries those of its holder's current request only.
OwnBytes ==
    ~exposed =>
        /\ \A c \in Available : toServer[c] = <<>> /\ fromServer[c] = <<>>
        /\ \A s \in Sessions : phase[s] = "granted" =>
            /\ IsPrefix(toServer[lease[s]], Request(s))
            /\ ToSet(fromServer[lease[s]]) \subseteq
                 ToSet(Halves(s, current(s), "server"))

\* The requests a buffer of requests, or of replies, has the end of.
Ends(buff) == {p.n : p \in {q \in ToSet(buff) : q.last}}

\* A client reads the replies to its own requests, in the order it sent them,
\* none left out: the reply to the next begins only after the last one ended.
\* And whenever a request is finished every request parsed so far has exactly one
\* reply in sendBuff, in order, also when servers fail half-way: nothing is
\* written before the whole batch is answered.
RepliesInOrder ==
    /\ TypeOK
    /\ ~exposed => \A s \in Sessions :
        /\ \A i \in DOMAIN toClient[s] :
            LET p == toClient[s][i] IN
            /\ p.src = s
            /\ IF i = 1 THEN p.n = 1
               ELSE LET q == toClient[s][i - 1] IN p.n = IF q.last THEN q.n + 1 ELSE q.n
        /\ pc[s] \in {"finish", "write"} =>
            /\ Ends(sendBuff[s]) = Ends(SubSeq(recvBuff[s], 1, recvBufferParsedOffset[s]))
            /\ \A i, j \in DOMAIN sendBuff[s] : i < j =>
                LET p == sendBuff[s][i]  q == sendBuff[s][j]
                IN  p.n <= q.n /\ (p.last => p.n < q.n)

\* However requests are pipelined and whatever replies the servers send, no
\* client ever reads the reply to another client's request.
NoForeignReply ==
    \A s \in Sessions : \A i \in DOMAIN toClient[s] : toClient[s][i].src = s

-----------------------------------------------------------------------------
(* Liveness.  A client that sent part of a request sends the rest.         *)

Fairness ==
    /\ \A s \in Sessions : WF_vars(Runs(s) /\ (pc[s] = "read" => recvBuff[s] # <<>>))
    /\ \A c \in Connections : WF_vars(ServerReplies(c) \/ ServerRejects(c))

FairSpec == Spec /\ Fairness

\* The session waits in the line and nobody holds a connection: what
\* RedisServant does not exclude.
Stranded(s) == pc[s] = "line" /\ \A t \in Sessions : phase[t] # "granted"

\* Every batch that has begun is answered whole in the end, so that (see
\* RepliesInOrder) every request in it has its reply, unless the session is
\* closed (a later request is malformed, the client is gone) or stranded.
BatchesAnswered ==
    \A s \in Sessions :
        recvBuff[s] # <<>> ~>
            recvBuff[s] = <<>> \/ pc[s] = "closed" \/ Stranded(s) \/ exposed
=============================================================================
