------------------------ MODULE OutboxPublisherProofs ------------------------
(***************************************************************************)
(* Proofs about OutboxPublisher for any events, any number of workers and  *)
(* any batch size: an event that is marked has arrived, and a lease that   *)
(* lasts is broken by its owner only.                                      *)
(***************************************************************************)
EXTENDS OutboxPublisher, TLAPS

(* The sequences hold events, a worker leases what is committed, and what it is
   about to confirm has arrived. *)
Sequenced == begun \in Seq(Events) /\ committed \in Seq(Events) /\ arrived \in Seq(Events)
LeasedCommitted == \A p \in Publishers : publisher[p].todo \subseteq Range(committed)
ConfirmsArrived ==
    \A p \in Publishers : publisher[p].step = "confirm" => publisher[p].event \in Range(arrived)

IInv == TypeOK /\ Sequenced /\ LeasedCommitted /\ ConfirmsArrived /\ PublishedArrived

-----------------------------------------------------------------------------
(* Appending to a sequence adds one element to its range. *)
LEMMA AppendRange ==
    ASSUME NEW s \in Seq(Events), NEW e \in Events
    PROVE  /\ Append(s, e) \in Seq(Events)
           /\ Range(Append(s, e)) = Range(s) \cup {e}
<1>1. Append(s, e) \in Seq(Events)
  OBVIOUS
<1>2. /\ DOMAIN Append(s, e) = 1 .. Len(s) + 1
      /\ DOMAIN s = 1 .. Len(s)
      /\ Append(s, e)[Len(s) + 1] = e
      /\ \A i \in 1 .. Len(s) : Append(s, e)[i] = s[i]
      /\ Len(s) \in Nat
  OBVIOUS
<1>3. QED
  BY <1>1, <1>2 DEF Range

(* The queue after an arrival: what was there, and the event. *)
LEMMA ArriveRange ==
    ASSUME NEW e \in Events, arrived \in Seq(Events), Arrive(e)
    PROVE  /\ arrived' \in Seq(Events)
           /\ Range(arrived') = Range(arrived) \cup {e}
  BY AppendRange DEF Arrive

-----------------------------------------------------------------------------
LEMMA InitIInv == Init => IInv
<1> SUFFICES ASSUME Init PROVE IInv
  OBVIOUS
<1>1. Range(<<>>) = {} /\ <<>> \in Seq(Events)
  BY DEF Range
<1>2. QED
  BY <1>1 DEF Init, IInv, TypeOK, Sequenced, LeasedCommitted, ConfirmsArrived, PublishedArrived,
              NewRow, AtLoop, Row, Publisher

(* Neither of the two steps of a use case touches a worker or the queue. *)
LEMMA UseCaseStep ==
    ASSUME IInv, NEW e \in Events, BeginUseCase(e) \/ CommitUseCase(e)
    PROVE  IInv'
<1>1. CASE BeginUseCase(e)
  <2>1. begun' \in Seq(Events) /\ Range(begun') = Range(begun) \cup {e}
    BY <1>1, AppendRange DEF BeginUseCase, IInv, Sequenced
  <2>2. QED
    BY <1>1, <2>1 DEF BeginUseCase, IInv, TypeOK, Sequenced, LeasedCommitted, ConfirmsArrived,
                      PublishedArrived
<1>2. CASE CommitUseCase(e)
  <2>1. committed' \in Seq(Events) /\ Range(committed') = Range(committed) \cup {e}
    BY <1>2, AppendRange DEF CommitUseCase, IInv, Sequenced
  <2>2. QED
    BY <1>2, <2>1 DEF CommitUseCase, IInv, TypeOK, Sequenced, LeasedCommitted, ConfirmsArrived,
                      PublishedArrived
<1>3. QED
  BY <1>1, <1>2

(* A claim leases committed events that are not published. *)
LEMMA ClaimStep ==
    ASSUME IInv, NEW p \in Publishers, Claim(p)
    PROVE  IInv'
<1>1. PICK batch \in SUBSET Range(committed) :
          /\ \A e \in batch : ~ row[e].published
          /\ row' = [e \in Events |->
                        IF e \in batch THEN [row[e] EXCEPT !.owner = p, !.expired = FALSE]
                                       ELSE row[e]]
          /\ publisher' = [publisher EXCEPT ![p].todo = batch]
          /\ UNCHANGED <<begun, committed, arrived>>
  BY DEF Claim
<1>2. Range(committed) \subseteq Events /\ None \notin Publishers
  BY OutboxAssumption DEF IInv, TypeOK
<1>3. row' \in [Events -> Row] /\ publisher' \in [Publishers -> Publisher]
  <2>1. /\ row \in [Events -> Row] /\ publisher \in [Publishers -> Publisher]
        /\ batch \in SUBSET Events
    BY <1>2 DEF IInv, TypeOK
  <2>2. \A r \in Row : [r EXCEPT !.owner = p, !.expired = FALSE] \in Row
    BY DEF Row
  <2>3. \A e \in Events : row[e] \in Row
    BY <2>1
  <2>4. row' \in [Events -> Row]
    BY <1>1, <2>2, <2>3
  <2>5. [publisher[p] EXCEPT !.todo = batch] \in Publisher
    BY <2>1 DEF Publisher
  <2>6. publisher' \in [Publishers -> Publisher]
    BY <1>1, <2>1, <2>5
  <2>7. QED
    BY <2>4, <2>6
<1>4. \A e \in Events : /\ row'[e].published = row[e].published
                        /\ row'[e].owner = None => ~ row'[e].expired
                        /\ row'[e].published => row'[e].owner = None
  BY <1>1, <1>2 DEF IInv, TypeOK, Row
<1>5. \A q \in Publishers : /\ publisher'[q].step = publisher[q].step
                            /\ publisher'[q].event = publisher[q].event
                            /\ publisher'[q].todo \subseteq Range(committed)
  BY <1>1 DEF IInv, TypeOK, Publisher, LeasedCommitted
<1>6. QED
  BY <1>1, <1>3, <1>4, <1>5 DEF IInv, TypeOK, Sequenced, LeasedCommitted, ConfirmsArrived,
                                PublishedArrived

(* A send takes an event of the batch; only one that succeeded is confirmed. *)
LEMMA PublishStep ==
    ASSUME IInv, NEW p \in Publishers, NEW e \in Events,
           PublishSucceeds(p, e) \/ PublishFails(p, e)
    PROVE  IInv'
<1>1. /\ arrived' \in Seq(Events)
      /\ Range(arrived) \subseteq Range(arrived')
      /\ Range(arrived') \subseteq Range(arrived) \cup {e}
      /\ PublishSucceeds(p, e) => e \in Range(arrived')
  BY ArriveRange DEF PublishSucceeds, PublishFails, IInv, Sequenced
<1>2. PICK step \in {"confirm", "release"} :
          /\ publisher' = [publisher EXCEPT ![p] =
                              [todo |-> publisher[p].todo \ {e}, event |-> e, step |-> step]]
          /\ step = "confirm" => e \in Range(arrived')
          /\ e \in publisher[p].todo
          /\ UNCHANGED <<begun, committed, row>>
  BY <1>1 DEF PublishSucceeds, PublishFails, AfterFailure
<1>3. publisher' \in [Publishers -> Publisher]
  BY <1>2 DEF IInv, TypeOK, Publisher
<1>4. \A q \in Publishers : q # p => publisher'[q] = publisher[q]
  BY <1>2 DEF IInv, TypeOK
<1>5. publisher'[p] = [todo |-> publisher[p].todo \ {e}, event |-> e, step |-> step]
  BY <1>2 DEF IInv, TypeOK
<1>6. e \in Range(committed)
  BY <1>2 DEF IInv, LeasedCommitted
<1>7. ConfirmsArrived'
  BY <1>1, <1>2, <1>4, <1>5 DEF IInv, ConfirmsArrived
<1>8. LeasedCommitted'
  BY <1>2, <1>4, <1>5 DEF IInv, LeasedCommitted
<1>9. QED
  BY <1>1, <1>2, <1>3, <1>6, <1>7, <1>8 DEF IInv, TypeOK, Sequenced, PublishedArrived

(* What every step after a send leaves of its worker. *)
LEMMA NextEventKeeps ==
    ASSUME publisher \in [Publishers -> Publisher], NEW p \in Publishers, NextEvent(p)
    PROVE  /\ publisher' \in [Publishers -> Publisher]
           /\ \A q \in Publishers : /\ publisher'[q].todo = publisher[q].todo
                                    /\ q # p => publisher'[q] = publisher[q]
           /\ publisher'[p].step = "loop" /\ publisher'[p].event = None
  BY DEF NextEvent, Publisher

(* A confirmed and a released row: nobody owns it, nor a lease. *)
LEMMA AnsweredRow ==
    ASSUME NEW r \in Row
    PROVE  /\ Marked(r) \in Row /\ Marked(r).owner = None /\ Marked(r).expired = FALSE
           /\ Released(r) \in Row /\ Released(r).owner = None /\ Released(r).expired = FALSE
           /\ Released(r).published = r.published
  BY DEF Marked, Released, Row

(* Confirmation and release write a row the worker still owns, or none. *)
LEMMA AnswerStep ==
    ASSUME IInv, NEW p \in Publishers, NEW e \in Events,
           MarkOutboxPublished(p, e) \/ ReleaseOutbox(p, e)
    PROVE  IInv'
<1>1. /\ NextEvent(p) /\ publisher \in [Publishers -> Publisher]
      /\ begun' = begun /\ committed' = committed /\ arrived' = arrived
  BY DEF MarkOutboxPublished, ReleaseOutbox, IInv, TypeOK
<1>2. row \in [Events -> Row] /\ row[e] \in Row
  BY DEF IInv, TypeOK
<1>3. \E r \in Row :
          /\ row' = [row EXCEPT ![e] = r]
          /\ r = row[e] \/ (r.owner = None /\ r.expired = FALSE)
          /\ r.published => row[e].published \/ e \in Range(arrived)
  <2>1. CASE ~ Owns(p, e)
    BY <1>2, <2>1 DEF MarkOutboxPublished, ReleaseOutbox
  <2>2. CASE Owns(p, e) /\ MarkOutboxPublished(p, e)
    <3>1. row' = [row EXCEPT ![e] = Marked(row[e])] /\ e \in Range(arrived)
      BY <2>2 DEF MarkOutboxPublished, IInv, ConfirmsArrived
    <3>2. Marked(row[e]).owner = None /\ Marked(row[e]).expired = FALSE
      BY <1>2, AnsweredRow
    <3> Marked(row[e]) \in Row
      BY <1>2, AnsweredRow
    <3> WITNESS Marked(row[e]) \in Row
    <3>3. QED
      BY <3>1, <3>2
  <2>3. CASE Owns(p, e) /\ ReleaseOutbox(p, e)
    <3>1. row' = [row EXCEPT ![e] = Released(row[e])]
      BY <2>3 DEF ReleaseOutbox
    <3>2. /\ Released(row[e]).owner = None /\ Released(row[e]).expired = FALSE
          /\ Released(row[e]).published = row[e].published
      BY <1>2, AnsweredRow
    <3> Released(row[e]) \in Row
      BY <1>2, AnsweredRow
    <3> WITNESS Released(row[e]) \in Row
    <3>3. QED
      BY <3>1, <3>2
  <2>4. QED
    BY <2>1, <2>2, <2>3
<1>4. /\ row' \in [Events -> Row]
      /\ \A d \in Events : /\ row'[d].owner = None => ~ row'[d].expired
                           /\ row'[d].published => row'[d].owner = None
                           /\ row'[d].published => row[d].published \/ d \in Range(arrived)
  BY <1>2, <1>3 DEF IInv, TypeOK
<1>5. LeasedCommitted' /\ ConfirmsArrived'
  BY <1>1, NextEventKeeps DEF IInv, LeasedCommitted, ConfirmsArrived
<1>6. publisher' \in [Publishers -> Publisher]
  BY <1>1, NextEventKeeps
<1>7. TypeOK'
  <2>1. /\ Range(begun)' \subseteq Events /\ Range(committed)' \subseteq Range(begun)'
        /\ Range(arrived)' \subseteq Range(committed)'
    BY <1>1 DEF IInv, TypeOK
  <2>2. QED
    BY <1>2, <1>4, <1>6, <2>1 DEF TypeOK, Row
<1>8. Sequenced'
  BY <1>1 DEF IInv, Sequenced
<1>9. PublishedArrived'
  <2> SUFFICES ASSUME NEW d \in Events, row'[d].published PROVE d \in Range(arrived)'
    BY DEF PublishedArrived
  <2>1. row[d].published \/ d \in Range(arrived)
    BY <1>2, <1>4 DEF Row
  <2>2. d \in Range(arrived)
    BY <2>1 DEF IInv, PublishedArrived
  <2>3. QED
    BY <1>1, <2>2
<1>10. QED
  BY <1>5, <1>7, <1>8, <1>9 DEF IInv

(* A failed statement and a crash change the worker alone. *)
LEMMA FailureStep ==
    ASSUME IInv, NEW p \in Publishers, StatementFails(p) \/ Crash(p)
    PROVE  IInv'
<1>1. CASE StatementFails(p)
  <2>1. NextEvent(p) /\ publisher \in [Publishers -> Publisher]
    BY <1>1 DEF StatementFails, IInv, TypeOK
  <2>2. LeasedCommitted' /\ ConfirmsArrived'
    BY <1>1, <2>1, NextEventKeeps DEF StatementFails, IInv, LeasedCommitted, ConfirmsArrived
  <2>3. QED
    BY <1>1, <2>1, <2>2, NextEventKeeps
       DEF StatementFails, IInv, TypeOK, Sequenced, PublishedArrived
<1>2. CASE Crash(p)
  BY <1>2 DEF Crash, AtLoop, IInv, TypeOK, Sequenced, LeasedCommitted, ConfirmsArrived,
              PublishedArrived, Publisher
<1>3. QED
  BY <1>1, <1>2

(* Time changes what a row says of its lease and of its delay. *)
LEMMA TimeStep ==
    ASSUME IInv, NEW e \in Events, LeaseExpires(e) \/ BackoffElapses(e)
    PROVE  IInv'
<1>1. /\ row' \in [Events -> Row]
      /\ UNCHANGED <<begun, committed, publisher, arrived>>
  <2> DEFINE lapsed == [row[e] EXCEPT !.expired = TRUE]
             ready == [row[e] EXCEPT !.due = TRUE]
  <2>1. row \in [Events -> Row] /\ lapsed \in Row /\ ready \in Row
    BY DEF IInv, TypeOK, Row
  <2>2. row' = [row EXCEPT ![e] = lapsed] \/ row' = [row EXCEPT ![e] = ready]
    BY DEF LeaseExpires, BackoffElapses
  <2> HIDE DEF lapsed, ready
  <2>3. row' \in [Events -> Row]
    BY <2>1, <2>2
  <2>4. QED
    BY <2>3 DEF LeaseExpires, BackoffElapses
<1>2. \A d \in Events : /\ row'[d].published = row[d].published
                        /\ row'[d].owner = row[d].owner
                        /\ row'[d].owner = None => ~ row'[d].expired
  BY DEF LeaseExpires, BackoffElapses, IInv, TypeOK, Row
<1>3. QED
  BY <1>1, <1>2 DEF IInv, TypeOK, Sequenced, LeasedCommitted, ConfirmsArrived, PublishedArrived

LEMMA NextIInv == IInv /\ [Next]_vars => IInv'
<1> SUFFICES ASSUME IInv, [Next]_vars PROVE IInv'
  OBVIOUS
<1>1. CASE UNCHANGED vars
  BY <1>1 DEF vars, IInv, TypeOK, Sequenced, LeasedCommitted, ConfirmsArrived, PublishedArrived
<1>2. CASE Next
  BY <1>2, UseCaseStep, ClaimStep, PublishStep, AnswerStep, FailureStep, TimeStep DEF Next
<1>3. QED
  BY <1>1, <1>2

LEMMA Invariance == Spec => []IInv
  BY InitIInv, NextIInv, PTL DEF Spec

-----------------------------------------------------------------------------
(* Columns and worker states stay typed; a published event has no owner and no lease,
   and the queue holds committed events only (ClaimOutbox, MarkOutboxPublished). *)
THEOREM TypeCorrect == Spec => []TypeOK
<1>1. IInv => TypeOK
  BY DEF IInv
<1>2. QED
  BY <1>1, Invariance, PTL

(* An event is marked as published only after the queue has it, whatever fails and
   however many workers hold it (publishOutbox confirms after a send without error). *)
THEOREM MarkedHasArrived == Spec => []PublishedArrived
<1>1. IInv => PublishedArrived
  BY DEF IInv
<1>2. QED
  BY <1>1, Invariance, PTL

(* A lease that lasts leaves the hands of its owner by a step of that owner: the WHERE
   clauses of ClaimOutbox, MarkOutboxPublished and ReleaseOutbox exclude every other. *)
THEOREM LeaseKept == Spec => LeaseExclusive
<1> DEFINE Kept == \A e \in Events, p \in Publishers :
                      row[e].owner = p /\ ~ row[e].expired /\ row'[e].owner # p
                          => publisher'[p] # publisher[p]
<1>1. ASSUME IInv, [Next]_vars PROVE [Kept]_vars
  <2> SUFFICES ASSUME NEW e \in Events, NEW p \in Publishers,
                      row[e].owner = p, ~ row[e].expired, row'[e].owner # p
               PROVE  publisher'[p] # publisher[p]
    OBVIOUS
  <2> None \notin Publishers \cup Events
    BY OutboxAssumption
  <2> row \in [Events -> Row] /\ publisher \in [Publishers -> Publisher]
    BY <1>1 DEF IInv, TypeOK
  <2>1. CASE row' = row
    BY <2>1
  <2>2. ASSUME NEW q \in Publishers, Claim(q) PROVE FALSE
    BY <2>2 DEF Claim, Leasable, Row
  <2>3. ASSUME NEW q \in Publishers, NEW d \in Events,
               MarkOutboxPublished(q, d) \/ ReleaseOutbox(q, d)
        PROVE  publisher'[p] # publisher[p]
    <3>1. publisher[q].event = d /\ NextEvent(q)
      BY <2>3 DEF MarkOutboxPublished, ReleaseOutbox
    <3>2. row'[e].owner # row[e].owner => d = e /\ Owns(q, d)
      BY <2>3 DEF MarkOutboxPublished, ReleaseOutbox, Row
    <3>3. q = p
      BY <3>2 DEF Owns
    <3>4. QED
      BY <3>1, <3>3, NextEventKeeps
  <2>4. ASSUME NEW d \in Events, LeaseExpires(d) \/ BackoffElapses(d) PROVE FALSE
    BY <2>4 DEF LeaseExpires, BackoffElapses, Row
  <2>5. QED
    BY <1>1, <2>1, <2>2, <2>3, <2>4
       DEF Next, vars, BeginUseCase, CommitUseCase, PublishSucceeds, PublishFails,
           StatementFails, Crash
<1>2. QED
  BY <1>1, Invariance, PTL DEF Spec, LeaseExclusive
=============================================================================
