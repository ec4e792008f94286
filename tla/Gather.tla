------------------------------- MODULE Gather -------------------------------
(***************************************************************************)
(* The life of one MGET, MSET or DEL of several keys                       *)
(* (src/src/cmdhandler.cpp).  The command is split into one sub-request    *)
(* per key; the last one that completes answers the client and deletes the *)
(* context the sub-requests share.                                         *)
(*                                                                         *)
(* Sub-requests complete on the thread of the session's event loop, but    *)
(* not only there: the thread that hands a connection over to a waiting    *)
(* sub-request completes it when sending fails, and the listener thread    *)
(* completes the ones RedisServant::stop() finds in the queue.  Nothing in *)
(* the context is protected by a lock, so an increment is a load and a     *)
(* store here.                                                             *)
(***************************************************************************)
EXTENDS Integers, Sequences, FiniteSets

CONSTANTS
    MaxKeys,    \* bound: keys (or key/value pairs) of a command
    MaxTokens,  \* bound: tokens of the request that follows in the buffer
    Own,        \* the thread of the session's event loop
    Others      \* the threads that may complete a sub-request instead

ASSUME MaxKeysAssumption == MaxKeys \in Nat /\ MaxKeys >= 2
ASSUME MaxTokensAssumption == MaxTokens \in Nat
ASSUME ThreadsAssumption == IsFiniteSet(Others) /\ Own \notin Others

VARIABLES
    command,        \* what the client sent, and the schedule it meets
    context,        \* the shared context: "live" or "deleted"
    returnCount,    \* returnCount or succeedCount of the context
    integer,        \* DelCommandContext::integer
    parts,          \* the sub-requests (ClientPacket objects)
    result,         \* the reply of each: 1 a value, a deleted key; 0 none, an error
    dispatching,    \* the loop over the tokens is running
    i,              \* its variable
    tokenCount,     \* packet->recvParseResult.tokenCount, read by its condition
    busy,           \* [Threads -> the sub-request whose completion it runs, or 0]
    stage,          \* where in onXxxPacketFinished each thread is
    reg, acc,       \* the values each thread has loaded
    session,        \* the client's packet: "live", or "deleted" by closeConnection
    answered,       \* how many times the client was answered
    reply,          \* the first answer
    misused         \* an object was used after its deletion

loopVars == <<dispatching, i, tokenCount>>
contextVars == <<context, returnCount, integer>>
threadVars == <<busy, stage, reg, acc>>
answerVars == <<session, answered, reply>>
vars == <<command, contextVars, parts, result, loopVars, threadVars, answerVars, misused>>

Threads == Others \union {Own}
Kinds == {"MGET", "MSET", "DEL"}
MaxParts == MaxTokens + MaxKeys + 1
Stages == {"idle", "load", "store", "loadInteger", "storeInteger", "test"}

\* keyCount: keyCount or keyvalCount of the context.  odd: an MSET whose last
\* key has no value.  pipelining: the client sends the next request before it
\* has the reply.  leaves: it may be gone when the reply is written.  foreign:
\* the other threads that complete sub-requests.  dispatcher: the thread that
\* runs the loop, another than Own only when the command was found in the buffer
\* after a reply that thread wrote.
Commands ==
    {c \in [kind : Kinds, keyCount : 2..MaxKeys, odd : BOOLEAN,
            pipelining : BOOLEAN, leaves : BOOLEAN,
            foreign : SUBSET Others, dispatcher : Threads] :
        /\ c.odd => c.kind = "MSET"
        /\ c.dispatcher # Own => c.pipelining /\ c.dispatcher \in c.foreign}

kind == command.kind
keyCount == command.keyCount
dispatcher == command.dispatcher

\* MSET takes two tokens per sub-request.
Stride == IF kind = "MSET" THEN 2 ELSE 1
Tokens(c) ==
    (IF c.kind = "MSET" THEN 2 * c.keyCount ELSE c.keyCount)
      + 1 + (IF c.odd THEN 1 ELSE 0)

TypeOK ==
    /\ command \in Commands
    /\ context \in {"live", "deleted"}
    /\ returnCount \in Nat /\ integer \in Nat
    /\ parts \in [1..MaxParts -> {"none", "sent", "finished", "deleted"}]
    /\ result \in [1..MaxParts -> {0, 1}]
    /\ dispatching \in BOOLEAN
    /\ i \in Nat \ {0} /\ tokenCount \in Nat
    /\ busy \in [Threads -> 0..MaxParts]
    /\ stage \in [Threads -> Stages]
    /\ reg \in [Threads -> Nat] /\ acc \in [Threads -> Nat]
    /\ session \in {"live", "deleted"}
    /\ answered \in Nat
    /\ misused \in BOOLEAN
    /\ \A t \in Threads : busy[t] = 0 <=> stage[t] = "idle"

Init ==
    /\ command \in Commands
    /\ context = "live"
    /\ returnCount = 0 /\ integer = 0
    /\ parts = [n \in 1..MaxParts |-> "none"]
    /\ result = [n \in 1..MaxParts |-> 0]
    /\ dispatching = TRUE
    /\ i = 1
    /\ tokenCount = Tokens(command)
    /\ busy = [t \in Threads |-> 0]
    /\ stage = [t \in Threads |-> "idle"]
    /\ reg = [t \in Threads |-> 0]
    /\ acc = [t \in Threads |-> 0]
    /\ session = "live"
    /\ answered = 0
    /\ reply = <<>>
    /\ misused = FALSE

-----------------------------------------------------------------------------
(* The loop of onMGetCommand, onMSetCommand and onDelCommand.              *)

\* The sub-request the loop is about to make.
Part == (i - 1) \div Stride + 1

\* Fault: the loop goes one token too far.
MakePart_OneMore ==
    /\ dispatching
    /\ busy[dispatcher] = 0
    /\ i <= tokenCount
    /\ Part <= MaxParts
    /\ i' = i + Stride
    /\ misused' = \/ misused
                  \/ session = "deleted"
                  \/ kind = "MGET" /\ context = "deleted"

\* One turn of the loop makes a sub-request.  Its condition reads the client's
\* packet, and onMGetCommand stores the sub-request in the context.
MakePart ==
    /\ dispatching
    /\ busy[dispatcher] = 0
    /\ i < tokenCount
    /\ Part <= MaxParts
    /\ i' = i + Stride
    /\ misused' = \/ misused
                  \/ session = "deleted"
                  \/ kind = "MGET" /\ context = "deleted"

\* Fault: an error counts as -1.
ResultsOn_NegativeError(t) == IF t = Own THEN {-1, 0, 1} ELSE {-1}

\* A completion that is not the session's own is an error: the servant was
\* stopped or the connection is broken.
ResultsOn(t) == IF t = Own THEN {0, 1} ELSE {0}

\* Thread t calls finished_func of sub-request n.
CallFinished(t, n) ==
    /\ parts' = [parts EXCEPT ![n] = "finished"]
    /\ \E r \in ResultsOn(t) : result' = [result EXCEPT ![n] = r]
    /\ busy' = [busy EXCEPT ![t] = n]
    /\ stage' = [stage EXCEPT ![t] = "load"]
    /\ UNCHANGED <<reg, acc>>

\* handleClientPacket sent the sub-request, or queued it.
DispatchSent ==
    /\ MakePart
    /\ parts' = [parts EXCEPT ![Part] = "sent"]
    /\ UNCHANGED <<command, contextVars, result, dispatching, tokenCount,
                   threadVars, answerVars>>

\* handleClientPacket finished the sub-request at once: no group, no active
\* server, or a connection that is broken.
DispatchFinished ==
    /\ MakePart
    /\ CallFinished(dispatcher, Part)
    /\ UNCHANGED <<command, contextVars, dispatching, tokenCount, answerVars>>

DispatchEnd ==
    /\ dispatching
    /\ busy[dispatcher] = 0
    /\ i >= tokenCount
    /\ dispatching' = FALSE
    /\ misused' = (misused \/ session = "deleted")
    /\ UNCHANGED <<command, contextVars, parts, result, i, tokenCount,
                   threadVars, answerVars>>

-----------------------------------------------------------------------------
(* onGetPacketFinished, onSetPacketFinished, onDelPacketFinished.          *)

\* The reply of sub-request n, or its failure, reaches thread t.
Complete(t, n) ==
    /\ t = Own \/ t \in command.foreign
    /\ busy[t] = 0
    /\ ~(dispatching /\ t = dispatcher)
    /\ parts[n] = "sent"
    /\ CallFinished(t, n)
    /\ UNCHANGED <<command, contextVars, loopVars, answerVars, misused>>

\* Every access to the context, after its deletion too.
UseContext == misused' = (misused \/ context = "deleted")

LoadCount(t) ==
    /\ stage[t] = "load"
    /\ reg' = [reg EXCEPT ![t] = returnCount]
    /\ stage' = [stage EXCEPT ![t] = "store"]
    /\ UseContext
    /\ UNCHANGED <<command, contextVars, parts, result, loopVars, busy, acc, answerVars>>

\* Fault: a sub-request that failed is not counted.
StoreCount_SkipsFailed(t) ==
    /\ stage[t] = "store"
    /\ returnCount' = reg[t] + result[busy[t]]
    /\ stage' = [stage EXCEPT ![t] = IF kind = "DEL" THEN "loadInteger" ELSE "test"]
    /\ UseContext
    /\ UNCHANGED <<command, context, integer, parts, result, loopVars, busy, reg, acc,
                   answerVars>>

\* Fault: a sub-request is counted twice.
StoreCount_Twice(t) ==
    /\ stage[t] = "store"
    /\ returnCount' = reg[t] + 2
    /\ stage' = [stage EXCEPT ![t] = IF kind = "DEL" THEN "loadInteger" ELSE "test"]
    /\ UseContext
    /\ UNCHANGED <<command, context, integer, parts, result, loopVars, busy, reg, acc,
                   answerVars>>

StoreCount(t) ==
    /\ stage[t] = "store"
    /\ returnCount' = reg[t] + 1
    /\ stage' = [stage EXCEPT ![t] = IF kind = "DEL" THEN "loadInteger" ELSE "test"]
    /\ UseContext
    /\ UNCHANGED <<command, context, integer, parts, result, loopVars, busy, reg, acc,
                   answerVars>>

LoadInteger(t) ==
    /\ stage[t] = "loadInteger"
    /\ acc' = [acc EXCEPT ![t] = integer]
    /\ stage' = [stage EXCEPT ![t] = "storeInteger"]
    /\ UseContext
    /\ UNCHANGED <<command, contextVars, parts, result, loopVars, busy, reg, answerVars>>

\* Fault: the integer is assigned, not added.
StoreInteger_Overwrites(t) ==
    /\ stage[t] = "storeInteger"
    /\ integer' = result[busy[t]]
    /\ stage' = [stage EXCEPT ![t] = "test"]
    /\ UseContext
    /\ UNCHANGED <<command, context, returnCount, parts, result, loopVars, busy, reg, acc,
                   answerVars>>

StoreInteger(t) ==
    /\ stage[t] = "storeInteger"
    /\ integer' = acc[t] + result[busy[t]]
    /\ stage' = [stage EXCEPT ![t] = "test"]
    /\ UseContext
    /\ UNCHANGED <<command, context, returnCount, parts, result, loopVars, busy, reg, acc,
                   answerVars>>

\* The count the test compares: the value just stored, or a new load.
Seen(t) == {reg[t] + 1, returnCount}

\* The callbacks of MSET and DEL delete their sub-request.
DeleteOwnPart(t) ==
    IF kind = "MGET" THEN parts ELSE [parts EXCEPT ![busy[t]] = "deleted"]

Return(t) ==
    /\ busy' = [busy EXCEPT ![t] = 0]
    /\ stage' = [stage EXCEPT ![t] = "idle"]
    /\ UNCHANGED <<reg, acc>>

\* This was not the last sub-request.
NotLast(t) ==
    /\ stage[t] = "test"
    /\ \E c \in Seen(t) : c # keyCount
    /\ parts' = DeleteOwnPart(t)
    /\ Return(t)
    /\ UseContext
    /\ UNCHANGED <<command, contextVars, result, loopVars, answerVars>>

\* What the client is answered.
Gathered ==
    CASE kind = "MGET" -> [n \in 1..keyCount |-> result[n]]
      [] kind = "MSET" -> <<"OK">>
      [] kind = "DEL" -> <<integer>>

\* setFinishedState of the client's packet.  The reply waits to be written, or
\* it is written and the packet is reset, or the next request in the buffer is
\* parsed and handled, or the client is gone and closeConnection deletes the
\* packet: its memory may then have been given to another.
AnswerClient ==
    /\ answered' = answered + 1
    /\ reply' = IF answered = 0 THEN Gathered ELSE reply
    /\ \/ tokenCount' \in {0, tokenCount} /\ UNCHANGED session
       \/ command.pipelining /\ tokenCount' \in 1..MaxTokens /\ UNCHANGED session
       \/ command.leaves /\ tokenCount' \in 0..MaxTokens /\ session' = "deleted"

\* What the last completion of an MGET deletes, or that of an MSET or DEL.
DeletedParts(t) ==
    IF kind = "MGET"
    THEN [n \in 1..MaxParts |-> IF n <= keyCount THEN "deleted" ELSE parts[n]]
    ELSE DeleteOwnPart(t)

\* Fault: the context is not deleted.
Answer_KeepsContext(t) ==
    /\ stage[t] = "test"
    /\ keyCount \in Seen(t)
    /\ AnswerClient
    /\ parts' = DeletedParts(t)
    /\ Return(t)
    /\ misused' = (misused \/ context = "deleted" \/ session = "deleted")
    /\ UNCHANGED <<command, contextVars, result, dispatching, i>>

\* This was the last one: the client is answered and the context deleted.
Answer(t) ==
    /\ stage[t] = "test"
    /\ keyCount \in Seen(t)
    /\ AnswerClient
    /\ parts' = DeletedParts(t)
    /\ context' = "deleted"
    /\ Return(t)
    /\ misused' = \/ misused
                  \/ context = "deleted"
                  \/ session = "deleted"
                  \/ kind = "MGET" /\ \E n \in 1..keyCount : parts[n] # "finished"
    /\ UNCHANGED <<command, returnCount, integer, result, dispatching, i>>

-----------------------------------------------------------------------------
Dispatch == DispatchSent \/ DispatchFinished \/ DispatchEnd

Callback(t) ==
    \/ LoadCount(t) \/ StoreCount(t)
    \/ LoadInteger(t) \/ StoreInteger(t)
    \/ NotLast(t) \/ Answer(t)

Next ==
    \/ Dispatch
    \/ \E t \in Threads : Callback(t) \/ \E n \in 1..MaxParts : Complete(t, n)

Spec == Init /\ [][Next]_vars

\* The threads go on, and every sub-request that was sent completes somewhere.
Fairness ==
    /\ WF_vars(Dispatch)
    /\ \A t \in Threads : WF_vars(Callback(t))
    /\ \A n \in 1..MaxParts : WF_vars(\E t \in Threads : Complete(t, n))

FairSpec == Spec /\ Fairness
-----------------------------------------------------------------------------
\* The conditions under which the code is right: one thread runs all the
\* completions, the client waits for its reply, and every key has a value.
Orderly ==
    /\ command.foreign = {}
    /\ ~command.pipelining /\ ~command.leaves /\ ~command.odd

\* Whatever threads interfere, the client is never answered before every
\* sub-request has completed: increments may be lost, but none is invented.
AnswerAfterAllParts ==
    ~command.odd /\ answered > 0
        => \A n \in 1..keyCount : parts[n] \in {"finished", "deleted"}

\* In an orderly run nothing is used after its deletion: neither the context
\* by the loop or by a late completion, nor a sub-request by the answer.
ContextAlive == Orderly => ~misused

\* The answer carries the results in the order of the keys, or their sum,
\* whatever the order of the completions.
ReplyGathers ==
    Orderly /\ answered > 0 =>
        reply = CASE kind = "MGET" -> [n \in 1..keyCount |-> result[n]]
                  [] kind = "MSET" -> <<"OK">>
                  [] kind = "DEL" -> <<Cardinality({n \in 1..keyCount : result[n] = 1})>>

\* Once an orderly run is over no object is left.
NothingLeft ==
    Orderly /\ answered > 0 /\ ~dispatching /\ (\A t \in Threads : busy[t] = 0)
        => context = "deleted" /\ \A n \in 1..MaxParts : parts[n] \in {"none", "deleted"}

\* An orderly command is answered.
OrderlyAnswered == Orderly ~> answered = 1
=============================================================================
