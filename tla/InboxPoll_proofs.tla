--------------------------- MODULE InboxPoll_proofs ---------------------------
(***************************************************************************)
(* Proof that two tabs never read a mail box at once, for any number of    *)
(* readers and any times with MaxRead <= Lease, although a reader gives    *)
(* back whatever lease it finds in the row.                                *)
(***************************************************************************)
EXTENDS InboxPoll, TLAPS

TypeOK ==
  /\ leased \in BOOLEAN /\ pollFailed \in BOOLEAN /\ closed \in BOOLEAN
  /\ polledAge \in 0..(Lease + 1)
  /\ reader \in [Readers -> {"idle", "asking", "good", "bad", "noted"}]
  /\ age \in [Readers -> 0..MaxRead]

\* Whoever reads holds the lease that is in the row, took it when the row was
\* last polled, and will be done before it runs out.
ReadersLease == \A i \in Reading : leased /\ polledAge = age[i]

\* The inductive invariant.
PollInv == TypeOK /\ ReadersLease /\ OneReader

LEMMA Times == Lease \in Nat /\ Gap \in Nat /\ MaxRead \in Nat /\ MaxRead <= Lease
BY PollAssumption

\* A lease that can be taken is nobody's: a reading that began with it would
\* have reached its time limit.
LEMMA FreeMeansIdle ==
  ASSUME PollInv, LeaseFree
  PROVE  Reading = {}
<1> SUFFICES ASSUME NEW i \in Reading PROVE FALSE
  OBVIOUS
<1>1. leased /\ polledAge = age[i] /\ age[i] \in 0..MaxRead
  BY DEF PollInv, TypeOK, ReadersLease, Reading
<1>2. polledAge <= Lease
  BY <1>1, Times
<1> QED BY <1>1, <1>2, Times DEF LeaseFree, PollInv, TypeOK

LEMMA TakeKeeps == ASSUME PollInv, NEW i \in Readers, Take(i) PROVE PollInv'
<1>1. Reading = {}
  BY FreeMeansIdle DEF Take
<1>2. \A j \in Readers : j # i => reader'[j] = "idle"
  BY <1>1 DEF Take, Reading, PollInv, TypeOK
<1>3. Reading' \subseteq {i}
  BY <1>2 DEF Reading
<1>4. TypeOK'
  BY Times DEF Take, PollInv, TypeOK
<1>5. leased' /\ polledAge' = 0 /\ age'[i] = 0
  BY DEF Take, PollInv, TypeOK
<1> QED BY <1>3, <1>4, <1>5 DEF PollInv, ReadersLease, OneReader

\* A reading that goes on keeps its lease and its age.
LEMMA GoesOn ==
  ASSUME PollInv, TypeOK', Reading' \subseteq Reading, UNCHANGED <<leased, polledAge>>,
         \A i \in Reading' : age'[i] = age[i]
  PROVE  PollInv'
BY DEF PollInv, ReadersLease, OneReader

LEMMA AnswerKeeps == ASSUME PollInv, NEW i \in Readers, Answer(i) PROVE PollInv'
<1>1. TypeOK'
  BY DEF Answer, PollInv, TypeOK
<1>2. Reading' \subseteq Reading
  BY DEF Answer, PollInv, TypeOK, Reading
<1> QED BY <1>1, <1>2, GoesOn DEF Answer

LEMMA NoteKeeps == ASSUME PollInv, NEW i \in Readers, Note(i) PROVE PollInv'
<1>1. TypeOK'
  BY DEF Note, PollInv, TypeOK
<1>2. Reading' \subseteq Reading
  BY DEF Note, PollInv, TypeOK, Reading
<1> QED BY <1>1, <1>2, GoesOn DEF Note

\* The lease that is given back is the reader's own: nobody else reads.
LEMMA GiveBackKeeps == ASSUME PollInv, NEW i \in Readers, GiveBack(i) PROVE PollInv'
<1>1. TypeOK'
  <2>1. (leased \in BOOLEAN)' /\ (pollFailed \in BOOLEAN)' /\ (closed \in BOOLEAN)'
    BY DEF GiveBack, PollInv, TypeOK
  <2>2. reader' \in [Readers -> {"idle", "asking", "good", "bad", "noted"}]
    BY DEF GiveBack, PollInv, TypeOK
  <2>3. age' \in [Readers -> 0..MaxRead]
    BY Times DEF GiveBack, PollInv, TypeOK
  <2> QED BY <2>1, <2>2, <2>3 DEF GiveBack, PollInv, TypeOK
<1>2. Reading' = {}
  BY DEF GiveBack, PollInv, TypeOK, Reading, OneReader
<1> QED BY <1>1, <1>2 DEF PollInv, ReadersLease, OneReader

LEMMA DieKeeps == ASSUME PollInv, NEW i \in Readers, Die(i) PROVE PollInv'
<1>1. TypeOK'
  BY Times DEF Die, PollInv, TypeOK
<1>2. Reading' = {}
  BY DEF Die, PollInv, TypeOK, Reading, OneReader
<1> QED BY <1>1, <1>2 DEF PollInv, ReadersLease, OneReader

LEMMA TickKeeps == ASSUME PollInv, Tick PROVE PollInv'
<1>1. Reading' = Reading
  BY DEF Tick, Reading
<1>2. ASSUME NEW i \in Reading
      PROVE  /\ leased' /\ polledAge' = age'[i] /\ age'[i] \in 0..MaxRead
  <2>1. i \in Readers /\ age[i] < MaxRead /\ leased /\ polledAge = age[i] /\ age[i] \in 0..MaxRead
    BY DEF Tick, Reading, PollInv, TypeOK, ReadersLease
  <2>2. polledAge <= Lease
    BY <2>1, Times
  <2>3. age'[i] = age[i] + 1 /\ polledAge' = polledAge + 1 /\ leased' = leased
    BY <2>1, <2>2, Times DEF Tick
  <2> QED BY <2>1, <2>3, Times
<1>3. TypeOK'
  <2>1. age' \in [Readers -> 0..MaxRead]
    BY <1>2, Times DEF Tick
  <2>2. polledAge' \in 0..(Lease + 1)
    BY Times DEF Tick, PollInv, TypeOK
  <2> QED BY <2>1, <2>2 DEF Tick, PollInv, TypeOK
<1> QED BY <1>1, <1>2, <1>3 DEF PollInv, ReadersLease, OneReader

LEMMA PollBegins == ASSUME Init PROVE PollInv
<1>1. Reading = {}
  BY DEF Init, Reading
<1>2. TypeOK
  <2>1. leased \in BOOLEAN /\ pollFailed \in BOOLEAN /\ closed \in BOOLEAN
    BY DEF Init
  <2>2. age \in [Readers -> 0..MaxRead] /\ polledAge \in 0..(Lease + 1)
    BY Times DEF Init
  <2> QED BY <2>1, <2>2 DEF Init, TypeOK
<1> QED BY <1>1, <1>2 DEF PollInv, ReadersLease, OneReader

LEMMA PollKeeps == ASSUME PollInv, [Next]_vars PROVE PollInv'
<1>1. CASE Close \/ UNCHANGED vars
  <2>1. Reading' = Reading
    BY <1>1 DEF Close, vars, Reading
  <2>2. TypeOK'
    BY <1>1 DEF Close, vars, PollInv, TypeOK
  <2> QED BY <1>1, <2>1, <2>2, GoesOn DEF Close, vars
<1> QED BY <1>1, TakeKeeps, AnswerKeeps, NoteKeeps, GiveBackKeeps, DieKeeps, TickKeeps DEF Next

\* The provider is never asked about a mail box by two tabs at once, for any
\* number of tabs, processes that die and leases given back by others, as long
\* as a reading ends before its lease does (MailInboxService.read).
THEOREM OneReaderAtATime == Spec => []OneReader
<1>1. Init => PollInv
  BY PollBegins
<1>2. PollInv /\ [Next]_vars => PollInv'
  BY PollKeeps
<1>3. PollInv => OneReader
  BY DEF PollInv
<1> QED BY <1>1, <1>2, <1>3, PTL DEF Spec
=============================================================================
