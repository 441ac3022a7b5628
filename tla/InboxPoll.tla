------------------------------ MODULE InboxPoll ------------------------------
(***************************************************************************)
(* Reading the codes that arrive in one rented mail box.  Every open tab   *)
(* of the customer asks for a reading every few seconds, in any process of *)
(* the server; a lease in the row keeps them from asking the provider at   *)
(* the same time.  A reader takes the lease, asks the provider, notes      *)
(* whether that worked, and gives the lease back whoever holds it by then. *)
(*                                                                         *)
(* pollLeaseUntil is always lastPolledAt + Lease or null, so an age and a  *)
(* flag stand for both columns.  The codes themselves are left out.        *)
(***************************************************************************)
EXTENDS Naturals

CONSTANTS
  Readers,   \* requests that may read the mail box at the same time
  Lease,     \* how long a lease holds: 10 s
  Gap,       \* the least time between two readings: 2.8 s
  MaxRead    \* the longest a reading lasts: 6.5 s for the provider, and the database

ASSUME PollAssumption ==
  Lease \in Nat /\ Gap \in Nat /\ MaxRead \in Nat /\ MaxRead <= Lease /\ Gap <= Lease

VARIABLES
  leased,      \* pollLeaseUntil is not null
  polledAge,   \* time since lastPolledAt; Lease + 1 stands for longer and never
  pollFailed,  \* what the last reading noted
  closed,      \* closedAt is set
  reader,      \* the step each reading is in
  age          \* how long it has been in progress

vars == <<leased, polledAge, pollFailed, closed, reader, age>>

Reading == {i \in Readers : reader[i] # "idle"}

\* Mutant: a lease that was never given back never ends.
LeaseFreeNull == ~leased

LeaseFree == ~leased \/ polledAge > Lease

Take(i) ==
  /\ reader[i] = "idle"
  /\ ~closed /\ LeaseFree /\ polledAge > Gap
  /\ leased' = TRUE
  /\ polledAge' = 0
  /\ reader' = [reader EXCEPT ![i] = "asking"]
  /\ age' = [age EXCEPT ![i] = 0]
  /\ UNCHANGED <<pollFailed, closed>>

\* The provider answers, or does not, or says what cannot be read.
Answer(i) ==
  /\ reader[i] = "asking"
  /\ reader' \in {[reader EXCEPT ![i] = result] : result \in {"good", "bad"}}
  /\ UNCHANGED <<leased, polledAge, pollFailed, closed, age>>

Note(i) ==
  /\ reader[i] \in {"good", "bad"}
  /\ pollFailed' = (reader[i] = "bad")
  /\ reader' = [reader EXCEPT ![i] = "noted"]
  /\ UNCHANGED <<leased, polledAge, closed, age>>

\* The finally block clears the lease without looking whose it is.
GiveBack(i) ==
  /\ reader[i] = "noted"
  /\ leased' = FALSE
  /\ reader' = [reader EXCEPT ![i] = "idle"]
  /\ age' = [age EXCEPT ![i] = 0]
  /\ UNCHANGED <<polledAge, pollFailed, closed>>

\* The process dies and leaves its lease behind.
Die(i) ==
  /\ reader[i] # "idle"
  /\ reader' = [reader EXCEPT ![i] = "idle"]
  /\ age' = [age EXCEPT ![i] = 0]
  /\ UNCHANGED <<leased, polledAge, pollFailed, closed>>

Close ==
  /\ ~closed
  /\ closed' = TRUE
  /\ UNCHANGED <<leased, polledAge, pollFailed, reader, age>>

\* Mutant: the request to the provider has no time limit.
TickUnlimited ==
  /\ polledAge' = IF polledAge > Lease THEN polledAge ELSE polledAge + 1
  /\ UNCHANGED <<leased, pollFailed, closed, reader, age>>

\* No reading outlasts its time limit.
Tick ==
  /\ \A i \in Reading : age[i] < MaxRead
  /\ polledAge' = IF polledAge > Lease THEN polledAge ELSE polledAge + 1
  /\ age' = [i \in Readers |-> IF i \in Reading THEN age[i] + 1 ELSE 0]
  /\ UNCHANGED <<leased, pollFailed, closed, reader>>

Init ==
  /\ leased = FALSE
  /\ polledAge = Lease + 1
  /\ pollFailed = FALSE /\ closed = FALSE
  /\ reader = [i \in Readers |-> "idle"]
  /\ age = [i \in Readers |-> 0]

Next ==
  \/ \E i \in Readers : Take(i) \/ Answer(i) \/ Note(i) \/ GiveBack(i) \/ Die(i)
  \/ Close \/ Tick

\* Time passes, and an open tab asks again and again.
Spec ==
  /\ Init /\ [][Next]_vars
  /\ WF_vars(Tick)
  /\ WF_vars(\E i \in Readers : Take(i))
  /\ \A i \in Readers : WF_vars(Answer(i) \/ Note(i) \/ GiveBack(i))

-----------------------------------------------------------------------------
\* The provider is never asked about a mail box by two tabs at once, although
\* a reader gives back whatever lease it finds (MailInboxService.read).
OneReader == \A i, j \in Reading : i = j

\* A lease whose holder died does not keep an open mail box unread.
ReadAgain == []<>(closed \/ polledAge = 0)
=============================================================================
