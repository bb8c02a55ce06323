------------------------ MODULE DataTicketLedgerProofs ------------------------
(***************************************************************************)
(* Proofs about the ledger of data tickets, for any number of workers,      *)
(* sessions, tickets and completions, and for any capacity.                 *)
(*                                                                         *)
(* The commit compares a ticket number and an epoch.  What makes that       *)
(* enough is EpochsAreFresh: an epoch names one registration of one ledger, *)
(* and every completion of this ledger carries an epoch below the next one, *)
(* so none can match a registration that is made later.                     *)
(***************************************************************************)
EXTENDS DataTicketLedger, TLAPS

EpochsAreFresh ==
    /\ \A e \in entries : e.epoch < nextEpoch /\ <<identity, e.epoch>> \notin answered
    /\ \A e, f \in entries : e.epoch = f.epoch => e = f
    /\ \A n \in answered : n[1] <= identity /\ (n[1] = identity => n[2] < nextEpoch)
    /\ \A p \in prepared : p.ledger <= identity
    /\ \A p \in prepared : p.ledger = identity => p.entry.epoch < nextEpoch
    /\ \A p \in prepared, e \in entries :
          p.ledger = identity /\ p.entry.epoch = e.epoch => p.entry = e

IInv == TypeOK /\ EntriesAreBound /\ ObservedIsRecoverable /\ EpochsAreFresh /\ AnsweredOnce

-----------------------------------------------------------------------------
\* An empty ledger satisfies the invariant.
LEMMA InitHolds == Init => IInv
<1>. SUFFICES ASSUME Init PROVE IInv
  OBVIOUS
<1>1. TypeOK
  BY DEF Init, TypeOK
<1>2. EntriesAreBound /\ ObservedIsRecoverable
  BY DEF Init, EntriesAreBound, ObservedIsRecoverable
<1>3. EpochsAreFresh /\ AnsweredOnce
  BY DEF Init, EpochsAreFresh, AnsweredOnce
<1>. QED BY <1>1, <1>2, <1>3 DEF IInv

\* bind_session only turns an unbound session, which has no tickets, into an
\* active one.
LEMMA BindSessionHolds ==
  ASSUME IInv, NEW k \in Keys, NEW s \in Sources, BindSession(k, s)
  PROVE  IInv'
<1>. USE DEF IInv, BindSession, history
<1>1. TypeOK'
  BY DEF TypeOK
<1>2. EntriesAreBound'
  BY DEF TypeOK, EntriesAreBound, Entry
<1>3. ObservedIsRecoverable'
  BY DEF TypeOK, ObservedIsRecoverable, EntriesOf
<1>4. EpochsAreFresh' /\ AnsweredOnce'
  BY DEF EpochsAreFresh, AnsweredOnce
<1>. QED BY <1>1, <1>2, <1>3, <1>4

\* register_need_data gives the new ticket an epoch that no ticket, answer or
\* completion of this ledger has.
LEMMA RegisterNeedDataHolds ==
  ASSUME IInv, NEW k \in Keys, NEW t \in Tickets, NEW w \in Wants, RegisterNeedData(k, t, w)
  PROVE  IInv'
<1>. DEFINE new == [key |-> k, ticket |-> t, source |-> source[k], wants |-> w,
                    epoch |-> nextEpoch]
<1>0. new \in Entry /\ new.epoch = nextEpoch /\ new.key = k /\ new.source = source[k]
  BY DEF IInv, TypeOK, Entry, RegisterNeedData
<1>. USE DEF IInv, RegisterNeedData, history, binding
<1>1. TypeOK'
  BY <1>0 DEF TypeOK
<1>2. EntriesAreBound'
  BY <1>0 DEF TypeOK, EntriesAreBound, Entry
<1>3. ObservedIsRecoverable'
  BY <1>0 DEF TypeOK, ObservedIsRecoverable, EntriesOf
<1>4. EpochsAreFresh'
  <2>. SUFFICES /\ \A n \in answered :
                      n[1] <= identity /\ (n[1] = identity => n[2] < nextEpoch + 1)
                /\ \A e \in entries \cup {new} :
                      e.epoch < nextEpoch + 1 /\ <<identity, e.epoch>> \notin answered
                /\ \A e, f \in entries \cup {new} : e.epoch = f.epoch => e = f
                /\ \A p \in prepared : p.ledger = identity => p.entry.epoch < nextEpoch + 1
                /\ \A p \in prepared, e \in entries \cup {new} :
                      p.ledger = identity /\ p.entry.epoch = e.epoch => p.entry = e
    BY <1>0 DEF EpochsAreFresh
  <2>. HIDE DEF new
  <2>1. nextEpoch \in Nat /\ <<identity, nextEpoch>> \notin answered
    BY DEF TypeOK, EpochsAreFresh
  <2>2. \A e \in entries :
           e.epoch \in Nat /\ e.epoch < nextEpoch /\ <<identity, e.epoch>> \notin answered
    BY DEF TypeOK, EpochsAreFresh, Entry
  <2>3. \A p \in prepared : p.entry.epoch \in Nat
    BY DEF TypeOK, Entry
  <2>4. \A n \in answered :
           n[2] \in Nat /\ n[1] <= identity /\ (n[1] = identity => n[2] < nextEpoch)
    BY DEF TypeOK, EpochsAreFresh
  <2>. QED BY <1>0, <2>1, <2>2, <2>3, <2>4 DEF EpochsAreFresh
<1>. QED BY <1>1, <1>2, <1>3, <1>4 DEF AnsweredOnce

\* A completion is a copy of an entry of this ledger.
LEMMA PendingIsCopy ==
  ASSUME IInv, NEW e \in entries, NEW kind \in Kinds
  PROVE  /\ Pending(e, kind) \in [ledger : Nat, entry : Entry, kind : Kinds]
         /\ Pending(e, kind).ledger = identity /\ Pending(e, kind).entry = e
  BY DEF IInv, TypeOK, Pending

\* Preparing adds such a copy; when the source changed it also blocks the session,
\* which still has the ticket the copy was made of.
LEMMA PrepareHolds ==
  ASSUME IInv, NEW e \in entries, NEW kind \in Kinds,
         prepared' = prepared \cup {Pending(e, kind)},
         UNCHANGED <<identity, source, entries, nextEpoch, history>>,
         state[e.key] \in {"Active", "Observed"},
         state' = state \/ state' = [state EXCEPT ![e.key] = "Observed"]
  PROVE  IInv'
<1>0. e \in Entry /\ e.key \in Keys
  BY DEF IInv, TypeOK, Entry
<1>1. TypeOK'
  BY <1>0, PendingIsCopy DEF IInv, TypeOK, history
<1>2. EntriesAreBound'
  BY <1>0 DEF IInv, TypeOK, EntriesAreBound, Entry
<1>3. ObservedIsRecoverable'
  <2>. SUFFICES ASSUME NEW k \in Keys, state'[k] = "Observed"
                PROVE  \E f \in entries : f.key = k /\ f.source = source[k]
    BY DEF ObservedIsRecoverable, EntriesOf
  <2>1. CASE k = e.key
    BY <2>1 DEF IInv, EntriesAreBound
  <2>2. CASE k # e.key
    BY <2>2, <1>0 DEF IInv, TypeOK, ObservedIsRecoverable, EntriesOf
  <2>. QED BY <2>1, <2>2
<1>4. EpochsAreFresh'
  <2>. DEFINE q == Pending(e, kind)
  <2>1. q.ledger = identity /\ q.entry = e
    BY PendingIsCopy
  <2>2. identity \in Nat
    BY DEF IInv, TypeOK
  <2>. HIDE DEF q
  <2>3. \A p \in prepared \cup {q} : p.ledger <= identity
    BY <2>1, <2>2 DEF IInv, EpochsAreFresh
  <2>4. \A p \in prepared \cup {q} : p.ledger = identity => p.entry.epoch < nextEpoch
    BY <2>1 DEF IInv, EpochsAreFresh
  <2>5. \A p \in prepared \cup {q}, f \in entries :
           p.ledger = identity /\ p.entry.epoch = f.epoch => p.entry = f
    BY <2>1 DEF IInv, EpochsAreFresh
  <2>6. prepared' = prepared \cup {q}
    BY DEF q
  <2>. QED BY <2>3, <2>4, <2>5, <2>6 DEF IInv, EpochsAreFresh, history
<1>. QED BY <1>1, <1>2, <1>3, <1>4 DEF IInv, AnsweredOnce, history

\* A commit that finds a match ends a registration that was never ended before.
LEMMA MatchIsNew ==
  ASSUME IInv, NEW p \in prepared, NEW e \in entries, p.ledger = identity, Matches(p, e),
         Answer(p)
  PROVE  /\ answered' \in SUBSET (Nat \X Nat) /\ twice' = FALSE
         /\ \A n \in answered' : n[1] <= identity /\ (n[1] = identity => n[2] < nextEpoch)
         /\ \A f \in entries : f # e => <<identity, f.epoch>> \notin answered'
<1>1. e.epoch \in Nat /\ identity \in Nat /\ nextEpoch \in Nat
  BY DEF IInv, TypeOK, Entry
<1>2. answered' = answered \cup {<<identity, e.epoch>>}
  BY DEF Matches, Answer
<1>3. <<identity, e.epoch>> \notin answered /\ e.epoch < nextEpoch
  BY DEF IInv, EpochsAreFresh
<1>4. twice' = FALSE
  BY <1>3 DEF IInv, AnsweredOnce, Matches, Answer
<1>5. \A f \in entries : f # e => <<identity, f.epoch>> \notin answered'
  BY <1>2 DEF IInv, EpochsAreFresh
<1>6. \A n \in answered' : n[1] <= identity /\ (n[1] = identity => n[2] < nextEpoch)
  BY <1>1, <1>2, <1>3 DEF IInv, EpochsAreFresh
<1>. QED BY <1>1, <1>2, <1>4, <1>5, <1>6 DEF IInv, TypeOK

\* The match ends one ticket of an active session.
LEMMA CommitHolds ==
  ASSUME IInv, NEW p \in prepared, Commit(p)
  PROVE  IInv'
<1>0. PICK e \in entries : Matches(p, e) /\ entries' = entries \ {e}
  BY DEF Commit
<1>1. /\ answered' \in SUBSET (Nat \X Nat) /\ twice' = FALSE
      /\ \A n \in answered' : n[1] <= identity /\ (n[1] = identity => n[2] < nextEpoch)
      /\ \A f \in entries : f # e => <<identity, f.epoch>> \notin answered'
  BY <1>0, MatchIsNew DEF Commit
<1>2. state[e.key] = "Active" /\ e.key \in Keys
  BY <1>0 DEF Commit, Matches, IInv, TypeOK, Entry
<1>3. UNCHANGED <<identity, state, source, nextEpoch, prepared>>
  BY DEF Commit, binding
<1>4. TypeOK'
  BY <1>0, <1>1, <1>3 DEF IInv, TypeOK
<1>5. EntriesAreBound'
  BY <1>0, <1>3 DEF IInv, EntriesAreBound
<1>6. ObservedIsRecoverable'
  BY <1>0, <1>2, <1>3 DEF IInv, ObservedIsRecoverable, EntriesOf
<1>7. EpochsAreFresh'
  BY <1>0, <1>1, <1>3 DEF IInv, EpochsAreFresh
<1>. QED BY <1>1, <1>4, <1>5, <1>6, <1>7 DEF IInv, AnsweredOnce

\* A committed source change ends every ticket of the session at once.
LEMMA CommitSourceChangedHolds ==
  ASSUME IInv, NEW p \in prepared, CommitSourceChanged(p)
  PROVE  IInv'
<1>0. PICK e \in entries : Matches(p, e)
  BY DEF CommitSourceChanged
<1>1. /\ answered' \in SUBSET (Nat \X Nat) /\ twice' = FALSE
      /\ \A n \in answered' : n[1] <= identity /\ (n[1] = identity => n[2] < nextEpoch)
      /\ \A f \in entries : f # e => <<identity, f.epoch>> \notin answered'
  BY <1>0, MatchIsNew DEF CommitSourceChanged
<1>2. /\ entries' = {f \in entries : f.key # e.key}
      /\ state' = [state EXCEPT ![e.key] = "Changed"] /\ e.key \in Keys
  BY <1>0 DEF CommitSourceChanged, EntriesOf, Matches, IInv, TypeOK, Entry
<1>3. UNCHANGED <<identity, source, nextEpoch, prepared>>
  BY DEF CommitSourceChanged
<1>3a. state[e.key] = "Observed"
  BY <1>0 DEF CommitSourceChanged, Matches
<1>4. TypeOK'
  BY <1>1, <1>2, <1>3, <1>3a DEF IInv, TypeOK
<1>5. EntriesAreBound'
  BY <1>2, <1>3 DEF IInv, EntriesAreBound, TypeOK, Entry
<1>6. ObservedIsRecoverable'
  BY <1>2, <1>3 DEF IInv, ObservedIsRecoverable, EntriesOf, TypeOK
<1>7. EpochsAreFresh'
  BY <1>0, <1>1, <1>2, <1>3 DEF IInv, EpochsAreFresh
<1>. QED BY <1>1, <1>4, <1>5, <1>6, <1>7 DEF IInv, AnsweredOnce

\* invalidate_session and invalidate_worker forget bindings and tickets alike; the
\* epochs go on, so the completions that are left match nothing.
LEMMA InvalidateHolds ==
  ASSUME IInv, NEW ks, Invalidate(ks)
  PROVE  IInv'
<1>. USE DEF IInv, Invalidate, history
<1>1. TypeOK'
  BY DEF TypeOK
<1>2. EntriesAreBound'
  BY DEF EntriesAreBound, TypeOK, Entry
<1>3. ObservedIsRecoverable'
  BY DEF ObservedIsRecoverable, EntriesOf, TypeOK
<1>4. EpochsAreFresh' /\ AnsweredOnce'
  BY DEF EpochsAreFresh, AnsweredOnce
<1>. QED BY <1>1, <1>2, <1>3, <1>4

\* A new ledger is empty, and every completion there is belongs to an older one.
LEMMA ReplaceHolds == ASSUME IInv, Replace PROVE IInv'
<1>. USE DEF IInv, Replace, history
<1>1. TypeOK'
  BY DEF TypeOK
<1>2. EntriesAreBound' /\ ObservedIsRecoverable' /\ AnsweredOnce'
  BY DEF EntriesAreBound, ObservedIsRecoverable, AnsweredOnce
<1>3. EpochsAreFresh'
  <2>1. \A p \in prepared : p.ledger \in Nat /\ p.ledger <= identity
    BY DEF TypeOK, EpochsAreFresh
  <2>2. identity \in Nat
    BY DEF TypeOK
  <2>3. \A n \in answered : n[1] \in Nat /\ n[1] <= identity
    BY DEF TypeOK, EpochsAreFresh
  <2>. QED BY <2>1, <2>2, <2>3 DEF EpochsAreFresh
<1>. QED BY <1>1, <1>2, <1>3

-----------------------------------------------------------------------------
\* Every call of the ledger preserves the invariant.
LEMMA StepHolds == IInv /\ [Next]_vars => IInv'
<1>. SUFFICES ASSUME IInv, [Next]_vars PROVE IInv'
  OBVIOUS
<1>1. ASSUME NEW k \in Keys, NEW s \in Sources, BindSession(k, s) PROVE IInv'
  BY <1>1, BindSessionHolds
<1>2. ASSUME NEW k \in Keys, NEW t \in Tickets, NEW w \in Wants, RegisterNeedData(k, t, w)
      PROVE  IInv'
  BY <1>2, RegisterNeedDataHolds
<1>3. ASSUME NEW k \in Keys, InvalidateSession(k) PROVE IInv'
  BY <1>3, InvalidateHolds DEF InvalidateSession
<1>4. ASSUME NEW e \in entries, PrepareProvideData(e) PROVE IInv'
  BY <1>4, PrepareHolds DEF PrepareProvideData, Kinds, binding
<1>5. ASSUME NEW e \in entries, NEW kind \in {"Failed", "SourceChanged"}, PrepareFailData(e, kind)
      PROVE  IInv'
  BY <1>5, PrepareHolds DEF PrepareFailData, Kinds
<1>6. ASSUME NEW p \in prepared, Commit(p) PROVE IInv'
  BY <1>6, CommitHolds
<1>7. ASSUME NEW p \in prepared, CommitSourceChanged(p) PROVE IInv'
  BY <1>7, CommitSourceChangedHolds
<1>8. ASSUME NEW w \in Workers, InvalidateWorker(w) PROVE IInv'
  BY <1>8, InvalidateHolds DEF InvalidateWorker
<1>9. ASSUME Replace PROVE IInv'
  BY <1>9, ReplaceHolds
<1>10. ASSUME UNCHANGED vars PROVE IInv'
  BY <1>10 DEF vars, binding, history, IInv, TypeOK, EntriesAreBound, ObservedIsRecoverable,
               EpochsAreFresh, AnsweredOnce, EntriesOf
<1>. QED BY <1>1, <1>2, <1>3, <1>4, <1>5, <1>6, <1>7, <1>8, <1>9, <1>10 DEF Next

\* The invariant holds in every reachable state.
THEOREM Invariance == Spec => []IInv
  BY InitHolds, StepHolds, PTL DEF Spec

\* "Exactly-once terminal ledger": no registration is ended by two commits, and its
\* completion ends no other, in this ledger or in a later one.
THEOREM AnsweredOnceCorrect == Spec => []AnsweredOnce
<1>1. IInv => AnsweredOnce
  BY DEF IInv
<1>. QED BY <1>1, Invariance, PTL

\* A commit that matches delivers what that very registration asked for.
THEOREM ExactCorrect == Spec => []PreparedIsExact
<1>1. IInv => PreparedIsExact
  BY DEF IInv, EpochsAreFresh, PreparedIsExact, Matches
<1>. QED BY <1>1, Invariance, PTL

\* A source change that was observed can always be committed.
THEOREM RecoverableCorrect == Spec => []ObservedIsRecoverable
<1>1. IInv => ObservedIsRecoverable
  BY DEF IInv
<1>. QED BY <1>1, Invariance, PTL

\* While a source change is observed or committed, no other answer of the session
\* is accepted and the session is not made usable behind the caller's back.
LEMMA FailClosedHolds == IInv /\ [Next]_vars => [FailClosedStep]_vars
<1>. SUFFICES ASSUME IInv, Next, NEW k \in Keys, state[k] \in {"Observed", "Changed"}
              PROVE  /\ state'[k] # "Active"
                     /\ EntriesOf(k)' = IF state'[k] = "Observed" THEN EntriesOf(k) ELSE {}
  BY DEF FailClosedStep
<1>0. /\ state \in [Keys -> {"Unbound", "Active", "Observed", "Changed"}]
      /\ \A e \in entries : e.key \in Keys /\ state[e.key] \in {"Active", "Observed"}
      /\ \A p \in prepared : p.entry.key \in Keys
  BY DEF IInv, TypeOK, EntriesAreBound, Entry
<1>. USE DEF EntriesOf
<1>1. CASE \E j \in Keys, s \in Sources : BindSession(j, s)
  BY <1>0, <1>1 DEF BindSession
<1>2. CASE \E j \in Keys, t \in Tickets, w \in Wants : RegisterNeedData(j, t, w)
  BY <1>0, <1>2 DEF RegisterNeedData, binding
<1>3. CASE \E j \in Keys : InvalidateSession(j)
  BY <1>0, <1>3 DEF InvalidateSession, Invalidate
<1>4. CASE \E e \in entries : PrepareProvideData(e)
  BY <1>0, <1>4 DEF PrepareProvideData, binding
<1>5. CASE \E e \in entries, kind \in {"Failed", "SourceChanged"} : PrepareFailData(e, kind)
  BY <1>0, <1>5 DEF PrepareFailData
<1>6. CASE \E p \in prepared : Commit(p)
  BY <1>0, <1>6 DEF Commit, Matches, binding
<1>7. CASE \E p \in prepared : CommitSourceChanged(p)
  BY <1>0, <1>7 DEF CommitSourceChanged
<1>8. CASE \E w \in Workers : InvalidateWorker(w)
  BY <1>0, <1>8 DEF InvalidateWorker, Invalidate
<1>9. CASE Replace
  BY <1>0, <1>9 DEF Replace
<1>. QED BY <1>1, <1>2, <1>3, <1>4, <1>5, <1>6, <1>7, <1>8, <1>9 DEF Next

\* An observed source change blocks its session until all its tickets go at once.
THEOREM FailClosedCorrect == Spec => FailClosed
  BY Invariance, FailClosedHolds, PTL DEF Spec, FailClosed
=============================================================================
