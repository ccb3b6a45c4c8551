---------------------------- MODULE MailPromise ----------------------------
(***************************************************************************)
(* What an outbox of the service promises of each of its e-mails, whatever *)
(* workers, leases and retries are behind it.  Between the request to the  *)
(* provider and the knowledge of how it ended a mail is "uncertain".       *)
(***************************************************************************)
EXTENDS Naturals

CONSTANTS Mails, MaxDispatch

VARIABLES
    phase,   \* what the service says of the mail
    tries,   \* how often a dispatch was authorized
    copies   \* how many copies the provider has accepted

vars == <<phase, tries, copies>>

PromiseInit ==
    /\ phase = [a \in Mails |-> "waiting"]
    /\ tries = [a \in Mails |-> 0]
    /\ copies = [a \in Mails |-> 0]

\* A dispatch is authorized, a bounded number of times.
Dispatch(a) ==
    /\ phase[a] \in {"waiting", "uncertain"} /\ tries[a] < MaxDispatch
    /\ phase' = [phase EXCEPT ![a] = "uncertain"]
    /\ tries' = [tries EXCEPT ![a] = @ + 1]
    /\ UNCHANGED copies

\* The provider takes the mail: once, for an authorized dispatch.
Hold(a) ==
    /\ phase[a] = "uncertain" /\ copies[a] = 0
    /\ copies' = [copies EXCEPT ![a] = 1]
    /\ UNCHANGED <<phase, tries>>

\* Evidence of acceptance, which may come after the service gave up.
Accept(a) ==
    /\ phase[a] \in {"uncertain", "given up"} /\ copies[a] = 1
    /\ phase' = [phase EXCEPT ![a] = "accepted"]
    /\ UNCHANGED <<tries, copies>>

\* Failure is only said of a mail that nobody can have received.
Reject(a) ==
    /\ phase[a] = "uncertain" /\ copies[a] = 0
    /\ phase' = [phase EXCEPT ![a] = "failed"]
    /\ UNCHANGED <<tries, copies>>

GiveUp(a) ==
    /\ phase[a] \in {"waiting", "uncertain"}
    /\ phase' = [phase EXCEPT ![a] = "given up"]
    /\ UNCHANGED <<tries, copies>>

\* One transaction may give up several mails whose retries are used up, beside
\* what else it does.
GiveUpSome ==
    \E as \in SUBSET Mails :
        /\ \A a \in as : phase[a] = "uncertain"
        /\ phase' = [a \in Mails |-> IF a \in as THEN "given up" ELSE phase[a]]
        /\ UNCHANGED <<tries, copies>>

PromiseNext ==
    \/ GiveUpSome
    \/ \E a \in Mails : Dispatch(a) \/ Hold(a) \/ Accept(a) \/ Reject(a) \/ GiveUp(a)

Promise == PromiseInit /\ [][PromiseNext]_vars

=============================================================================
