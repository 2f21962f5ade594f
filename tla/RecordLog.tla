------------------------------ MODULE RecordLog ------------------------------
(***************************************************************************)
(* What a journal promises, with nothing about buffers, files or           *)
(* reservations: while it is up the log only grows, by fresh identities at *)
(* its end; a hardened prefix only grows; going down takes away nothing    *)
(* but a suffix beyond that prefix, and coming up again takes away nothing *)
(* at all.                                                                 *)
(***************************************************************************)
EXTENDS Integers, Sequences

CONSTANTS
    Content,    \* what a record carries besides its identity
    Identity    \* the identities there are, a set of integers

VARIABLES
    up,      \* the log takes records
    log,     \* the accepted records, oldest first
    hard,    \* records of `log` that no failure can take away
    used     \* identities ever given out

logVars == <<up, log, hard, used>>

LogInit == up = FALSE /\ log = <<>> /\ hard = 0 /\ used = {}

Fresh(s) == \A u \in used : u < s
Entry(s, c) == [seq |-> s, body |-> c]

(* A record is accepted under an identity above every earlier one.         *)
Accept ==
    \E s \in Identity, c \in Content :
       /\ up /\ Fresh(s)
       /\ used' = used \cup {s}
       /\ log' = Append(log, Entry(s, c))
       /\ UNCHANGED <<up, hard>>

(* Accepting fails: the identity is spent and the log goes down.           *)
AcceptFails ==
    \E s \in Identity, c \in Content :
       /\ up /\ Fresh(s)
       /\ used' = used \cup {s}
       /\ \E n \in hard..Len(log) + 1 :
             log' = SubSeq(Append(log, Entry(s, c)), 1, n)
       /\ up' = FALSE
       /\ UNCHANGED hard

Harden ==
    /\ up
    /\ hard' \in hard..Len(log)
    /\ UNCHANGED <<up, log, used>>

(* The log goes down, by failure or by being closed, or fails while down.  *)
GoDown ==
    /\ up' = FALSE
    /\ \E n \in hard..Len(log) :
          /\ log' = SubSeq(log, 1, n)
          /\ hard' \in {hard, n}
    /\ UNCHANGED used

Recover ==
    /\ ~up /\ up' = TRUE
    /\ hard' \in hard..Len(log)
    /\ UNCHANGED <<log, used>>

LogNext == Accept \/ AcceptFails \/ Harden \/ GoDown \/ Recover

LogSpec == LogInit /\ [][LogNext]_logVars

=============================================================================
