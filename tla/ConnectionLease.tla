--------------------------- MODULE ConnectionLease ---------------------------
(***************************************************************************)
(* What a RedisServant promises the sessions that send it requests, with   *)
(* no word about pools, locks or threads.  A request is granted the lease  *)
(* of a connection nobody else holds, or it waits in line, or it is        *)
(* refused.  A lease is given to the first in the line, or given back.     *)
(* The line is left from its head only, by a grant or by a refusal.        *)
(*                                                                         *)
(* The promise is one of safety: that a waiting request is granted some    *)
(* day is not part of it, because the implementation does not keep that.   *)
(***************************************************************************)
EXTENDS Sequences

CONSTANTS Sessions, Connections, NoConnection

VARIABLES
    phase,      \* [Sessions -> Phases]
    lease,      \* [Sessions -> Connections \union {NoConnection}]
    line        \* the sessions that wait, in the order of their arrival

leaseVars == <<phase, lease, line>>

Phases == {"idle", "asking", "waiting", "granted", "answered"}

LeaseTypeOK ==
    /\ phase \in [Sessions -> Phases]
    /\ lease \in [Sessions -> Connections \union {NoConnection}]
    /\ line \in Seq(Sessions)

LeaseInit ==
    /\ phase = [s \in Sessions |-> "idle"]
    /\ lease = [s \in Sessions |-> NoConnection]
    /\ line = <<>>

Available == {c \in Connections : \A s \in Sessions : lease[s] # c}

Ask(s) ==
    /\ phase[s] \in {"idle", "answered"}
    /\ phase' = [phase EXCEPT ![s] = "asking"]
    /\ UNCHANGED <<lease, line>>

Grant(s) ==
    /\ phase[s] = "asking"
    /\ \E c \in Available : lease' = [lease EXCEPT ![s] = c]
    /\ phase' = [phase EXCEPT ![s] = "granted"]
    /\ UNCHANGED line

Wait(s) ==
    /\ phase[s] = "asking"
    /\ phase' = [phase EXCEPT ![s] = "waiting"]
    /\ line' = Append(line, s)
    /\ UNCHANGED lease

Refuse(s) ==
    /\ phase[s] = "asking"
    /\ phase' = [phase EXCEPT ![s] = "answered"]
    /\ UNCHANGED <<lease, line>>

\* The holder s is done and the first in the line takes its connection over.
PassOn(s) ==
    /\ phase[s] = "granted"
    /\ line # <<>>
    /\ LET t == Head(line) IN
        /\ phase' = [phase EXCEPT ![s] = "answered", ![t] = "granted"]
        /\ lease' = [lease EXCEPT ![s] = NoConnection, ![t] = lease[s]]
    /\ line' = Tail(line)

GiveBack(s) ==
    /\ phase[s] = "granted"
    /\ phase' = [phase EXCEPT ![s] = "answered"]
    /\ lease' = [lease EXCEPT ![s] = NoConnection]
    /\ UNCHANGED line

\* The first in the line is turned away.
TurnAway ==
    /\ line # <<>>
    /\ phase' = [phase EXCEPT ![Head(line)] = "answered"]
    /\ line' = Tail(line)
    /\ UNCHANGED lease

Answer(s) ==
    /\ phase[s] = "answered"
    /\ phase' = [phase EXCEPT ![s] = "idle"]
    /\ UNCHANGED <<lease, line>>

LeaseNext ==
    \/ \E s \in Sessions :
        \/ Ask(s) \/ Grant(s) \/ Wait(s) \/ Refuse(s)
        \/ PassOn(s) \/ GiveBack(s) \/ Answer(s)
    \/ TurnAway

LeaseSpec == LeaseInit /\ [][LeaseNext]_leaseVars
=============================================================================
