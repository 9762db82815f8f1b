------------------------------ MODULE GitRefLog ------------------------------
(***************************************************************************)
(* What a hosted repository promises to the clients that push to it,       *)
(* whatever the relays do inside: the published ref states form one log    *)
(* that only grows; a push is based on the last entry it saw and is added  *)
(* only directly after that entry; a 2xx answer means that the push is in  *)
(* the log, a refusal that it is not, and after a server error or a lost   *)
(* connection either may be the case.                                      *)
(*                                                                         *)
(* GitPublish implements this specification.                               *)
(***************************************************************************)
EXTENDS Naturals, Sequences

CONSTANTS Pushes,      \* push requests
          RefStates    \* the ref maps a repository can have

VARIABLES log,         \* published ref states, oldest first
          status,      \* where each push stands for its client
          base         \* length of the log a push is based on

vars == <<status, log, base>>

Statuses == {"idle", "open", "committed", "ok", "refused", "conflict", "unknown"}

TypeOK == /\ log \in Seq(RefStates)
          /\ status \in [Pushes -> Statuses]
          /\ base \in [Pushes -> Nat]

Init == /\ log = <<>>
        /\ status = [p \in Pushes |-> "idle"]
        /\ base = [p \in Pushes |-> 0]

\* The owner announces the repository before anything is pushed to it.
Create == /\ log = <<>>
          /\ \E r \in RefStates : log' = <<r>>
          /\ UNCHANGED <<status, base>>

\* The push is closed with the answer s; the model forgets its base.
Close(p, s) == /\ status' = [status EXCEPT ![p] = s]
               /\ base' = [base EXCEPT ![p] = 0]

Open(p) == /\ status[p] = "idle"
           /\ status' = [status EXCEPT ![p] = "open"]
           /\ base' = [base EXCEPT ![p] = Len(log)]
           /\ UNCHANGED log

\* The push is added right after the entry it is based on.
Extend(p) == /\ status[p] = "open"
             /\ base[p] = Len(log)
             /\ \E r \in RefStates : log' = Append(log, r)

Commit(p) == /\ Extend(p)
             /\ status' = [status EXCEPT ![p] = "committed"]
             /\ UNCHANGED base

\* Committed, but the relay never learns it and answers with an error.
CommitUnseen(p) == Extend(p) /\ Close(p, "unknown")

Ack(p) == /\ status[p] = "committed"
          /\ Close(p, "ok")
          /\ UNCHANGED log

\* Refused because another push was added after the base ...
Conflict(p) == /\ status[p] = "open"
               /\ Len(log) > base[p]
               /\ Close(p, "conflict")
               /\ UNCHANGED log

\* ... or for its content: the hook, the limits, the manifest's validation.
Reject(p) == /\ status[p] = "open"
             /\ Close(p, "refused")
             /\ UNCHANGED log

\* A server error or a crash; before the base was read nothing is open.
Abort(p) == /\ status[p] \in {"idle", "open", "committed"}
            /\ Close(p, "unknown")
            /\ UNCHANGED log

PushStep(p) == \/ Open(p)
               \/ Commit(p)
               \/ CommitUnseen(p)
               \/ Ack(p)
               \/ Conflict(p)
               \/ Reject(p)
               \/ Abort(p)

Next == Create \/ \E p \in Pushes : PushStep(p)

Spec == Init /\ [][Next]_vars
=============================================================================
