----------------------- MODULE MembershipCard_proofs -----------------------
(***************************************************************************)
(* The invariants of MembershipCard hold for any number of members, cards  *)
(* and requests.  Each is proved from an inductive strengthening that says *)
(* what requests in flight may still do.  The last part is about the       *)
(* readers of CardReaders: every step of SpecReaders is one of             *)
(* MembershipCard or leaves its variables alone.                           *)
(***************************************************************************)
EXTENDS CardReaders, Integers, TLAPS

\* Requests whose card was written and not taken back by themselves.
Written(r) == phase[r] \in Holding \cup {"stuck", "unmailed", "ok", "abandoned"}

\* What the checks of a request established about its body.
Located ==
    \A r \in Requests :
        /\ phase[r] \in InFlight \/ Written(r) => args[r].member \in Members
        /\ phase[r] = "cardFree" \/ Written(r) => args[r].card \in Pool
        /\ r \in mailed => phase[r] = "ok"

\* Two requests in flight are recorded as overlapping.
OverlapsRecorded ==
    \A r, s \in Requests :
        r # s /\ phase[r] \in InFlight /\ phase[s] \in InFlight => <<r, s>> \in overlaps

\* A written request without rival still has its card, and no request in
\* flight is past the check that would have stopped it from taking it.
Safe(r) ==
    /\ holds[args[r].member] = args[r].card
    /\ \A s \in Requests \ {r} : phase[s] \in InFlight =>
          /\ ~SameMember(r, s)
          /\ phase[s] # "memberFound" => args[s].card # args[r].card
Lasting == \A r \in Requests : Written(r) => HadRival(r) \/ Safe(r)

\* While a request without twin works, its member has its card or none.
OwnCardOrNone ==
    \A r \in Requests : phase[r] \in Holding =>
        HadTwin(r) \/ holds[args[r].member] \in {args[r].card, NoCard}

\* The date of a request is found on its own member while the request stands,
\* anywhere else, and in a snapshot, only if the request had a rival.
DatesTraced ==
    /\ \A m \in Members, r \in Requests : since[m] = r =>
          HadRival(r) \/ (Written(r) /\ args[r].member = m)
    /\ \A r, s \in Requests : snapshot[s] = r => HadRival(r)

\* A row, and what a request in flight read of it, bears the date of the
\* beginning or that of some request.
DatesKnown ==
    /\ \A m \in Members : since[m] \in {first[m]} \cup Requests
    /\ \A r \in Requests : phase[r] \in InFlight =>
          snapshot[r] \in {first[args[r].member]} \cup Requests

\* A request in flight without rival has the row to itself: as it was found
\* before the write, as it was written after it.
Undisturbed(r) ==
    LET m == args[r].member IN
    /\ phase[r] \in Checking => holds[m] = NoCard /\ since[m] = snapshot[r]
    /\ phase[r] = "cardFree" => \A x \in Members : holds[x] # args[r].card
    /\ phase[r] \in Holding => holds[m] = args[r].card /\ since[m] = r
Alone == \A r \in Requests : HadRival(r) \/ Undisturbed(r)

-----------------------------------------------------------------------------
(* Types, and what the checks establish.                                   *)

LEMMA InitTyped == Init => TypeOK /\ Located
BY DatesAssumption DEF Init, TypeOK, Located, Written, Dates, Holding, InFlight, Checking

LEMMA StepTyped ==
    ASSUME TypeOK, Located, [Next]_vars
    PROVE  TypeOK' /\ Located'
<1> USE DEF TypeOK, Located, Written, InFlight, Checking, Holding, Ended, Refused, Dates,
            Body, Goto
<1>1. CASE UNCHANGED vars  BY <1>1 DEF vars
<1>2. ASSUME NEW r \in Requests, FindMember(r) PROVE TypeOK' /\ Located'
  <2>a. snapshot' \in [Requests -> Dates]  BY <1>2 DEF FindMember
  <2>b. phase' \in [Requests -> {"idle"} \cup InFlight \cup Ended]
    <3>1. \E p \in {"notFound", "alreadyHasCard", "memberFound"} : Goto(r, p)
      BY <1>2 DEF FindMember
    <3>2. QED  BY <3>1
  <2>c. overlaps' \subseteq Requests \X Requests  BY <1>2 DEF FindMember, Running
  <2>d. UNCHANGED <<holds, since, signed, args, printed, mailed, first>>  BY <1>2 DEF FindMember
  <2>1. TypeOK'  BY <2>a, <2>b, <2>c, <2>d
  <2>2. Located'  BY <1>2 DEF FindMember, Running
  <2>3. QED  BY <2>1, <2>2
<1>3. ASSUME NEW r \in Requests, FindCard(r) PROVE TypeOK' /\ Located'
  BY <1>3 DEF FindCard, CardExists
<1>4. ASSUME NEW r \in Requests, QueryFails(r) PROVE TypeOK' /\ Located'
  BY <1>4 DEF QueryFails
<1>5. ASSUME NEW r \in Requests, Connect(r) PROVE TypeOK' /\ Located'
  BY <1>5 DEF Connect, Transferred
<1>6. ASSUME NEW r \in Requests, ReadPdfData(r) PROVE TypeOK' /\ Located'
  BY <1>6 DEF ReadPdfData
<1>7. ASSUME NEW r \in Requests, RenderPdf(r) PROVE TypeOK' /\ Located'
  BY <1>7 DEF RenderPdf
<1>8. ASSUME NEW r \in Requests, PdfFails(r) PROVE TypeOK' /\ Located'
  BY <1>8 DEF PdfFails
<1>9. ASSUME NEW r \in Requests, Rollback(r) PROVE TypeOK' /\ Located'
  BY <1>9 DEF Rollback, CardRemoved, DateRestored
<1>10. ASSUME NEW r \in Requests, RollbackFails(r) PROVE TypeOK' /\ Located'
  BY <1>10 DEF RollbackFails
<1>11. ASSUME NEW r \in Requests, Answer(r) PROVE TypeOK' /\ Located'
  BY <1>11 DEF Answer
<1>12. ASSUME NEW r \in Requests, TemplateFails(r) PROVE TypeOK' /\ Located'
  BY <1>12 DEF TemplateFails
<1>13. ASSUME NEW m \in Members, AddSignature(m) PROVE TypeOK' /\ Located'
  BY <1>13 DEF AddSignature
<1>14. CASE Crash
  BY <1>14 DEF Crash
<1>15. QED
  BY <1>1, <1>2, <1>3, <1>4, <1>5, <1>6, <1>7, <1>8, <1>9, <1>10, <1>11, <1>12, <1>13, <1>14
  DEF Next, Continue

\* Every variable keeps its type (see TypeOK), whatever requests interleave.
THEOREM TypeCorrect == Spec => []TypeOK
<1>1. Init => TypeOK /\ Located  BY InitTyped
<1>2. (TypeOK /\ Located) /\ [Next]_vars => (TypeOK /\ Located)'  BY StepTyped
<1>3. QED  BY <1>1, <1>2, PTL DEF Spec

-----------------------------------------------------------------------------
(* One holder per card.                                                    *)

LEMMA StepUnshared ==
    ASSUME TypeOK, CardsUnshared, [Next]_vars
    PROVE  CardsUnshared'
<1> USE DEF TypeOK, CardsUnshared, Unshared
<1>1. CASE UNCHANGED vars  BY <1>1 DEF vars
<1>2. ASSUME NEW r \in Requests, FindMember(r) PROVE CardsUnshared'
  BY <1>2 DEF FindMember
<1>3. ASSUME NEW r \in Requests, FindCard(r) PROVE CardsUnshared'
  BY <1>3 DEF FindCard
<1>4. ASSUME NEW r \in Requests, QueryFails(r) PROVE CardsUnshared'
  BY <1>4 DEF QueryFails
<1>5. ASSUME NEW r \in Requests, Connect(r) PROVE CardsUnshared'
  BY <1>5 DEF Connect, Transferred
<1>6. ASSUME NEW r \in Requests, ReadPdfData(r) PROVE CardsUnshared'
  BY <1>6 DEF ReadPdfData
<1>7. ASSUME NEW r \in Requests, RenderPdf(r) PROVE CardsUnshared'
  BY <1>7 DEF RenderPdf
<1>8. ASSUME NEW r \in Requests, PdfFails(r) PROVE CardsUnshared'
  BY <1>8 DEF PdfFails
<1>9. ASSUME NEW r \in Requests, Rollback(r) PROVE CardsUnshared'
  BY <1>9 DEF Rollback, CardRemoved
<1>10. ASSUME NEW r \in Requests, RollbackFails(r) PROVE CardsUnshared'
  BY <1>10 DEF RollbackFails
<1>11. ASSUME NEW r \in Requests, Answer(r) PROVE CardsUnshared'
  BY <1>11 DEF Answer
<1>12. ASSUME NEW r \in Requests, TemplateFails(r) PROVE CardsUnshared'
  BY <1>12 DEF TemplateFails
<1>13. ASSUME NEW m \in Members, AddSignature(m) PROVE CardsUnshared'
  BY <1>13 DEF AddSignature
<1>14. CASE Crash
  BY <1>14 DEF Crash
<1>15. QED
  BY <1>1, <1>2, <1>3, <1>4, <1>5, <1>6, <1>7,
     <1>8, <1>9, <1>10, <1>11, <1>12, <1>13, <1>14
  DEF Next, Continue

\* No card ever has two holders (CardsUnshared).
THEOREM CardsStayUnshared == Spec => []CardsUnshared
<1>1. Init => CardsUnshared  BY DEF Init, CardsUnshared
<1>2. TypeOK /\ CardsUnshared /\ [Next]_vars => CardsUnshared'  BY StepUnshared
<1>3. QED  BY <1>1, <1>2, TypeCorrect, PTL DEF Spec

-----------------------------------------------------------------------------
(* Every card held is justified.                                           *)

LEMMA StepJustified ==
    ASSUME TypeOK, Located, EveryHolderJustified, [Next]_vars
    PROVE  EveryHolderJustified'
<1> USE DEF TypeOK, EveryHolderJustified, Justified, HasCard
<1>1. CASE UNCHANGED vars  BY <1>1 DEF vars
<1>2. ASSUME NEW r \in Requests, FindMember(r) PROVE EveryHolderJustified'
  BY <1>2 DEF FindMember, Goto
<1>3. ASSUME NEW r \in Requests, FindCard(r) PROVE EveryHolderJustified'
  BY <1>3 DEF FindCard, Goto
<1>4. ASSUME NEW r \in Requests, QueryFails(r) PROVE EveryHolderJustified'
  BY <1>4 DEF QueryFails, Goto, Checking
<1>5. ASSUME NEW r \in Requests, Connect(r) PROVE EveryHolderJustified'
  <2> SUFFICES ASSUME NEW m \in Members, HasCard(m)'
               PROVE  (since[m] = OldDate \/ \E s \in Requests : since[m] = s /\ Justified(m, s))'
    BY DEF EveryHolderJustified
  <2>1. CASE m = args[r].member
    <3>1. since'[m] = r /\ phase'[r] = "connected"  BY <1>5, <2>1 DEF Connect, Goto
    <3>2. args' = args /\ args[r] \in Body /\ holds'[m] = args[r].card
      BY <1>5, <2>1 DEF Connect, Transferred
    <3>3. args'[r] = [member |-> m, card |-> holds'[m]]  BY <3>2, <2>1 DEF Body
    <3>4. QED  BY <3>1, <3>3
  <2>2. CASE m # args[r].member
    <3>1. holds'[m] = holds[m] /\ since'[m] = since[m]
      BY <1>5, <2>2 DEF Connect, Transferred
    <3>2. QED  BY <1>5, <3>1 DEF Connect, Goto
  <2>3. QED  BY <2>1, <2>2
<1>6. ASSUME NEW r \in Requests, ReadPdfData(r) PROVE EveryHolderJustified'
  BY <1>6 DEF ReadPdfData, Goto, Printable
<1>7. ASSUME NEW r \in Requests, RenderPdf(r) PROVE EveryHolderJustified'
  BY <1>7 DEF RenderPdf, Goto
<1>8. ASSUME NEW r \in Requests, PdfFails(r) PROVE EveryHolderJustified'
  BY <1>8 DEF PdfFails, Goto
<1>9. ASSUME NEW r \in Requests, Rollback(r) PROVE EveryHolderJustified'
  BY <1>9 DEF Rollback, Goto, CardRemoved, DateRestored
<1>10. ASSUME NEW r \in Requests, RollbackFails(r) PROVE EveryHolderJustified'
  BY <1>10 DEF RollbackFails, Goto
<1>11. ASSUME NEW r \in Requests, Answer(r) PROVE EveryHolderJustified'
  BY <1>11 DEF Answer, Goto
<1>12. ASSUME NEW r \in Requests, TemplateFails(r) PROVE EveryHolderJustified'
  BY <1>12 DEF TemplateFails, Goto
<1>13. ASSUME NEW m \in Members, AddSignature(m) PROVE EveryHolderJustified'
  BY <1>13 DEF AddSignature, Goto
<1>14. CASE Crash
  BY <1>14 DEF Crash, Goto, Checking, Holding
<1>15. QED
  BY <1>1, <1>2, <1>3, <1>4, <1>5, <1>6, <1>7,
     <1>8, <1>9, <1>10, <1>11, <1>12, <1>13, <1>14
  DEF Next, Continue

\* A card is held from the beginning or by a request that stands, made its PDF
\* of complete data or is excused by name (EveryHolderJustified).
THEOREM HoldersStayJustified == Spec => []EveryHolderJustified
<1>1. Init => EveryHolderJustified  BY DEF Init, EveryHolderJustified, HasCard
<1>2. Init => TypeOK /\ Located  BY InitTyped
<1>3. TypeOK /\ Located /\ EveryHolderJustified /\ [Next]_vars
        => (TypeOK /\ Located /\ EveryHolderJustified)'
  BY StepTyped, StepJustified
<1>4. QED  BY <1>1, <1>2, <1>3, PTL DEF Spec

-----------------------------------------------------------------------------
(* What a granted request was given lasts, unless it had a rival.          *)

LEMMA OverlapsGrow == ASSUME [Next]_vars PROVE overlaps \subseteq overlaps'
<1>1. CASE UNCHANGED vars
  BY <1>1 DEF vars
<1>2. ASSUME NEW r \in Requests, FindMember(r) PROVE overlaps \subseteq overlaps'
  BY <1>2 DEF FindMember
<1>3. ASSUME NEW r \in Requests, FindCard(r) PROVE overlaps \subseteq overlaps'
  BY <1>3 DEF FindCard
<1>4. ASSUME NEW r \in Requests, QueryFails(r) PROVE overlaps \subseteq overlaps'
  BY <1>4 DEF QueryFails
<1>5. ASSUME NEW r \in Requests, Connect(r) PROVE overlaps \subseteq overlaps'
  BY <1>5 DEF Connect
<1>6. ASSUME NEW r \in Requests, ReadPdfData(r) PROVE overlaps \subseteq overlaps'
  BY <1>6 DEF ReadPdfData
<1>7. ASSUME NEW r \in Requests, RenderPdf(r) PROVE overlaps \subseteq overlaps'
  BY <1>7 DEF RenderPdf
<1>8. ASSUME NEW r \in Requests, PdfFails(r) PROVE overlaps \subseteq overlaps'
  BY <1>8 DEF PdfFails
<1>9. ASSUME NEW r \in Requests, Rollback(r) PROVE overlaps \subseteq overlaps'
  BY <1>9 DEF Rollback
<1>10. ASSUME NEW r \in Requests, RollbackFails(r) PROVE overlaps \subseteq overlaps'
  BY <1>10 DEF RollbackFails
<1>11. ASSUME NEW r \in Requests, Answer(r) PROVE overlaps \subseteq overlaps'
  BY <1>11 DEF Answer
<1>12. ASSUME NEW r \in Requests, TemplateFails(r) PROVE overlaps \subseteq overlaps'
  BY <1>12 DEF TemplateFails
<1>13. ASSUME NEW m \in Members, AddSignature(m) PROVE overlaps \subseteq overlaps'
  BY <1>13 DEF AddSignature
<1>14. CASE Crash
  BY <1>14 DEF Crash
<1>15. QED
  BY <1>1, <1>2, <1>3, <1>4, <1>5, <1>6, <1>7,
     <1>8, <1>9, <1>10, <1>11, <1>12, <1>13, <1>14
  DEF Next, Continue

\* A rival once had is had for ever: the bodies never change.
LEMMA RivalsGrow ==
    ASSUME [Next]_vars, NEW r \in Requests
    PROVE  /\ HadRival(r) => HadRival(r)'
           /\ HadTwin(r) => HadTwin(r)'
<1>1. args' = args
  BY DEF Next, vars, Continue, FindMember, FindCard, QueryFails, Connect, ReadPdfData, RenderPdf,
         PdfFails, Rollback, RollbackFails, Answer, TemplateFails, AddSignature, Crash
<1>2. overlaps \subseteq overlaps'  BY OverlapsGrow
<1>3. QED  BY <1>1, <1>2 DEF HadRival, HadTwin, Rival, SameMember

LEMMA StepOverlaps ==
    ASSUME TypeOK, OverlapsRecorded, [Next]_vars
    PROVE  OverlapsRecorded'
<1> USE DEF TypeOK, OverlapsRecorded, InFlight, Holding, Checking, Goto
<1>1. CASE UNCHANGED vars
  BY <1>1 DEF vars
<1>2. ASSUME NEW r \in Requests, FindMember(r) PROVE OverlapsRecorded'
  BY <1>2 DEF FindMember, Running
<1>3. ASSUME NEW r \in Requests, FindCard(r) PROVE OverlapsRecorded'
  BY <1>3 DEF FindCard
<1>4. ASSUME NEW r \in Requests, QueryFails(r) PROVE OverlapsRecorded'
  BY <1>4 DEF QueryFails
<1>5. ASSUME NEW r \in Requests, Connect(r) PROVE OverlapsRecorded'
  BY <1>5 DEF Connect
<1>6. ASSUME NEW r \in Requests, ReadPdfData(r) PROVE OverlapsRecorded'
  BY <1>6 DEF ReadPdfData
<1>7. ASSUME NEW r \in Requests, RenderPdf(r) PROVE OverlapsRecorded'
  BY <1>7 DEF RenderPdf
<1>8. ASSUME NEW r \in Requests, PdfFails(r) PROVE OverlapsRecorded'
  BY <1>8 DEF PdfFails
<1>9. ASSUME NEW r \in Requests, Rollback(r) PROVE OverlapsRecorded'
  BY <1>9 DEF Rollback
<1>10. ASSUME NEW r \in Requests, RollbackFails(r) PROVE OverlapsRecorded'
  BY <1>10 DEF RollbackFails
<1>11. ASSUME NEW r \in Requests, Answer(r) PROVE OverlapsRecorded'
  BY <1>11 DEF Answer
<1>12. ASSUME NEW r \in Requests, TemplateFails(r) PROVE OverlapsRecorded'
  BY <1>12 DEF TemplateFails
<1>13. ASSUME NEW m \in Members, AddSignature(m) PROVE OverlapsRecorded'
  BY <1>13 DEF AddSignature
<1>14. CASE Crash
  BY <1>14 DEF Crash
<1>15. QED
  BY <1>1, <1>2, <1>3, <1>4, <1>5, <1>6, <1>7,
     <1>8, <1>9, <1>10, <1>11, <1>12, <1>13, <1>14
  DEF Next, Continue

LEMMA StepLasting ==
    ASSUME TypeOK, Located, OverlapsRecorded, Lasting, [Next]_vars
    PROVE  Lasting'
<1> SUFFICES ASSUME NEW q \in Requests, Written(q)', ~HadRival(q)'
             PROVE  Safe(q)'
  BY DEF Lasting
<1>0. ~HadRival(q) /\ (Written(q) => Safe(q))  BY RivalsGrow DEF Lasting
<1> USE DEF TypeOK, Written, Safe, SameMember, InFlight, Holding, Checking, Goto
<1>1. CASE UNCHANGED vars
  BY <1>0, <1>1 DEF vars
<1>2. ASSUME NEW r \in Requests, FindMember(r) PROVE Safe(q)'
  <2>1. r # q /\ Written(q) /\ Safe(q)  BY <1>0, <1>2 DEF FindMember
  <2>2. args[q].member \in Members /\ args[q].card \in Pool  BY <2>1 DEF Located
  <2>3. HasCard(args[q].member)  BY <2>1, <2>2, PoolAssumption DEF HasCard
  <2>4. phase'[r] = "memberFound" => args[r].member # args[q].member
    BY <1>2, <2>3 DEF FindMember
  <2>5. QED  BY <1>2, <2>1, <2>4 DEF FindMember
<1>3. ASSUME NEW r \in Requests, FindCard(r) PROVE Safe(q)'
  <2>1. r # q /\ Written(q) /\ Safe(q)  BY <1>0, <1>3 DEF FindCard
  <2>2. args[q].member \in Members  BY <2>1 DEF Located
  <2>3. CardTaken(args[q].card)  BY <2>1, <2>2 DEF CardTaken
  <2>4. phase'[r] = "cardFree" => args[r].card # args[q].card
    BY <1>3, <2>3 DEF FindCard
  <2>5. QED  BY <1>3, <2>1, <2>4 DEF FindCard
<1>4. ASSUME NEW r \in Requests, QueryFails(r) PROVE Safe(q)'
  BY <1>0, <1>4 DEF QueryFails
<1>5. ASSUME NEW r \in Requests, Connect(r) PROVE Safe(q)'
  <2>1. CASE q = r
    <3>1. \A s \in Requests \ {q} : phase[s] \in InFlight => ~Rival(q, s)
      <4> SUFFICES ASSUME NEW s \in Requests \ {q}, phase[s] \in InFlight PROVE ~Rival(q, s)
        OBVIOUS
      <4>1. <<q, s>> \in overlaps  BY <1>5, <2>1 DEF OverlapsRecorded, Connect
      <4>2. QED  BY <1>0, <4>1 DEF HadRival
    <3>2. args[q].member \in Members  BY <1>5, <2>1 DEF Located, Connect
    <3>3. holds'[args[q].member] = args[q].card
      BY <1>5, <2>1, <3>2 DEF Connect, Transferred
    <3>4. QED  BY <1>5, <2>1, <3>1, <3>3 DEF Connect, Rival
  <2>2. CASE q # r
    <3>1. Written(q) /\ Safe(q)  BY <1>0, <1>5, <2>2 DEF Connect
    <3>2. args[q].member \in Members  BY <3>1 DEF Located
    <3>3. args[r].member # args[q].member /\ args[r].card # args[q].card
      BY <1>5, <2>2, <3>1 DEF Connect
    <3>4. holds'[args[q].member] = args[q].card
      BY <1>5, <3>1, <3>2, <3>3 DEF Connect, Transferred
    <3>5. QED  BY <1>5, <2>2, <3>1, <3>4 DEF Connect
  <2>3. QED  BY <2>1, <2>2
<1>6. ASSUME NEW r \in Requests, ReadPdfData(r) PROVE Safe(q)'
  BY <1>0, <1>6 DEF ReadPdfData
<1>7. ASSUME NEW r \in Requests, RenderPdf(r) PROVE Safe(q)'
  BY <1>0, <1>7 DEF RenderPdf
<1>8. ASSUME NEW r \in Requests, PdfFails(r) PROVE Safe(q)'
  BY <1>0, <1>8 DEF PdfFails
<1>9. ASSUME NEW r \in Requests, Rollback(r) PROVE Safe(q)'
  <2>1. r # q /\ Written(q) /\ Safe(q)  BY <1>0, <1>9 DEF Rollback
  <2>2. args[q].member \in Members  BY <2>1 DEF Located
  <2>3. args[r].member # args[q].member  BY <1>9, <2>1 DEF Rollback
  <2>4. holds'[args[q].member] = args[q].card
    BY <1>9, <2>1, <2>2, <2>3 DEF Rollback, CardRemoved
  <2>5. QED  BY <1>9, <2>1, <2>4 DEF Rollback
<1>10. ASSUME NEW r \in Requests, RollbackFails(r) PROVE Safe(q)'
  BY <1>0, <1>10 DEF RollbackFails
<1>11. ASSUME NEW r \in Requests, Answer(r) PROVE Safe(q)'
  BY <1>0, <1>11 DEF Answer
<1>12. ASSUME NEW r \in Requests, TemplateFails(r) PROVE Safe(q)'
  BY <1>0, <1>12 DEF TemplateFails
<1>13. ASSUME NEW m \in Members, AddSignature(m) PROVE Safe(q)'
  BY <1>0, <1>13 DEF AddSignature
<1>14. CASE Crash
  BY <1>0, <1>14 DEF Crash
<1>15. QED
  BY <1>1, <1>2, <1>3, <1>4, <1>5, <1>6, <1>7,
     <1>8, <1>9, <1>10, <1>11, <1>12, <1>13, <1>14
  DEF Next, Continue

LEMMA InitIInv == Init => TypeOK /\ Located /\ OverlapsRecorded /\ Lasting
<1> HAVE Init
<1>1. TypeOK /\ Located  BY InitTyped
<1>2. \A r \in Requests : phase[r] = "idle"  BY DEF Init
<1>3. QED
  BY <1>1, <1>2 DEF OverlapsRecorded, Lasting, Written, InFlight, Holding, Checking

\* A request answered 200 or announced by mail leaves the member with its card
\* unless it had a rival in flight (GrantLostOnlyToRival).
THEOREM GrantsLast == Spec => []GrantLostOnlyToRival
<1> DEFINE Inv == TypeOK /\ Located /\ OverlapsRecorded /\ Lasting
<1>1. Init => Inv  BY InitIInv
<1>2. Inv /\ [Next]_vars => Inv'  BY StepTyped, StepOverlaps, StepLasting
<1>3. Inv => GrantLostOnlyToRival
  BY DEF Located, Lasting, Written, Safe, GrantLostOnlyToRival
<1>4. QED  BY <1>1, <1>2, <1>3, PTL DEF Spec

-----------------------------------------------------------------------------
(* The PDF shows the card of its request, unless the request had a twin.   *)

LEMMA StepPdf ==
    ASSUME TypeOK, Located, OverlapsRecorded, OwnCardOrNone, PdfShowsOwnCard, [Next]_vars
    PROVE  OwnCardOrNone' /\ PdfShowsOwnCard'
<1> SUFFICES ASSUME NEW q \in Requests, ~HadTwin(q)'
             PROVE  (/\ phase[q] \in Holding => holds[args[q].member] \in {args[q].card, NoCard}
                     /\ phase[q] \in {"printing", "printed", "ok"} => printed[q] = args[q].card)'
  BY DEF OwnCardOrNone, PdfShowsOwnCard
<1> DEFINE Own == /\ phase[q] \in Holding => holds[args[q].member] \in {args[q].card, NoCard}
                  /\ phase[q] \in {"printing", "printed", "ok"} => printed[q] = args[q].card
<1> HIDE DEF Own
<1>0. Own /\ ~HadTwin(q)  BY RivalsGrow DEF OwnCardOrNone, PdfShowsOwnCard, Own
<1> USE DEF TypeOK, Own, InFlight, Holding, Checking, Goto
<1>1. CASE UNCHANGED vars
  BY <1>0, <1>1 DEF vars
<1>2. ASSUME NEW r \in Requests, FindMember(r) PROVE Own'
  BY <1>0, <1>2 DEF FindMember
<1>3. ASSUME NEW r \in Requests, FindCard(r) PROVE Own'
  BY <1>0, <1>3 DEF FindCard
<1>4. ASSUME NEW r \in Requests, QueryFails(r) PROVE Own'
  BY <1>0, <1>4 DEF QueryFails
<1>5. ASSUME NEW r \in Requests, Connect(r) PROVE Own'
  <2>1. CASE q = r
    <3>1. holds'[args[q].member] = args[q].card
      BY <1>5, <2>1 DEF Connect, Transferred, Located
    <3>2. QED  BY <1>0, <1>5, <2>1, <3>1 DEF Connect
  <2>2. CASE q # r /\ phase[q] \in Holding
    <3>1. <<q, r>> \in overlaps  BY <1>5, <2>2 DEF OverlapsRecorded, Connect
    <3>2. args[r].member # args[q].member  BY <1>0, <2>2, <3>1 DEF HadTwin, SameMember
    <3>3. args[q].member \in Members  BY <2>2 DEF Located
    <3>4. holds'[args[q].member] \in {holds[args[q].member], NoCard}
      BY <1>5, <3>2, <3>3 DEF Connect, Transferred
    <3>5. QED  BY <1>0, <1>5, <2>2, <3>4 DEF Connect
  <2>3. CASE q # r /\ phase[q] \notin Holding
    BY <1>0, <1>5, <2>3 DEF Connect
  <2>4. QED  BY <2>1, <2>2, <2>3
<1>6. ASSUME NEW r \in Requests, ReadPdfData(r) PROVE Own'
  <2>1. CASE q = r
    <3>1. holds[args[q].member] = args[q].card
      BY <1>0, <1>6, <2>1 DEF ReadPdfData, Printable, HasCard
    <3>2. args[q].member \in Members  BY <1>6, <2>1 DEF ReadPdfData, Located
    <3>3. printed'[q] = args[q].card  BY <1>6, <2>1, <3>1 DEF ReadPdfData
    <3>4. QED  BY <1>6, <2>1, <3>1, <3>3 DEF ReadPdfData
  <2>2. CASE q # r
    BY <1>0, <1>6, <2>2 DEF ReadPdfData
  <2>3. QED  BY <2>1, <2>2
<1>7. ASSUME NEW r \in Requests, RenderPdf(r) PROVE Own'
  BY <1>0, <1>7 DEF RenderPdf
<1>8. ASSUME NEW r \in Requests, PdfFails(r) PROVE Own'
  BY <1>0, <1>8 DEF PdfFails
<1>9. ASSUME NEW r \in Requests, Rollback(r) PROVE Own'
  <2>1. CASE q = r
    BY <1>0, <1>9, <2>1 DEF Rollback
  <2>2. CASE q # r
    <3>1. phase[q] \in Holding => args[q].member \in Members  BY DEF Located
    <3>2. phase[q] \in Holding => holds'[args[q].member] \in {holds[args[q].member], NoCard}
      BY <1>9, <3>1 DEF Rollback, CardRemoved
    <3>3. QED  BY <1>0, <1>9, <2>2, <3>2 DEF Rollback
  <2>3. QED  BY <2>1, <2>2
<1>10. ASSUME NEW r \in Requests, RollbackFails(r) PROVE Own'
  BY <1>0, <1>10 DEF RollbackFails
<1>11. ASSUME NEW r \in Requests, Answer(r) PROVE Own'
  BY <1>0, <1>11 DEF Answer
<1>12. ASSUME NEW r \in Requests, TemplateFails(r) PROVE Own'
  BY <1>0, <1>12 DEF TemplateFails
<1>13. ASSUME NEW m \in Members, AddSignature(m) PROVE Own'
  BY <1>0, <1>13 DEF AddSignature
<1>14. CASE Crash
  BY <1>0, <1>14 DEF Crash
<1>15. QED
  BY <1>1, <1>2, <1>3, <1>4, <1>5, <1>6, <1>7,
     <1>8, <1>9, <1>10, <1>11, <1>12, <1>13, <1>14
  DEF Next, Continue

LEMMA StepDates ==
    ASSUME TypeOK, Located, Lasting, DatesTraced, [Next]_vars
    PROVE  DatesTraced'
<1> SUFFICES ASSUME NEW q \in Requests, ~HadRival(q)'
             PROVE  (/\ \A m \in Members : since[m] = q => Written(q) /\ args[q].member = m
                     /\ \A s \in Requests : snapshot[s] # q)'
  BY DEF DatesTraced
<1> DEFINE Traced == /\ \A m \in Members : since[m] = q => Written(q) /\ args[q].member = m
                     /\ \A s \in Requests : snapshot[s] # q
<1> HIDE DEF Traced
<1>0. Traced /\ ~HadRival(q)  BY RivalsGrow DEF DatesTraced, Traced
<1> USE DEF TypeOK, Traced, Written, InFlight, Holding, Checking, Goto
<1>1. CASE UNCHANGED vars
  BY <1>0, <1>1 DEF vars
<1>2. ASSUME NEW r \in Requests, FindMember(r) PROVE Traced'
  <2>1. since[args[r].member] = q /\ args[r].member \in Members => HasCard(args[r].member)
    <3>1. SUFFICES ASSUME since[args[r].member] = q, args[r].member \in Members
                   PROVE  HasCard(args[r].member)
      OBVIOUS
    <3>2. Written(q) /\ args[q].member = args[r].member  BY <1>0, <3>1
    <3>3. Safe(q)  BY <1>0, <3>2 DEF Lasting
    <3>4. args[q].card \in Pool  BY <3>2 DEF Located
    <3>5. QED  BY <3>2, <3>3, <3>4, PoolAssumption DEF Safe, HasCard
  <2>2. \A s \in Requests : snapshot'[s] # q
    BY <1>0, <1>2, <2>1 DEF FindMember
  <2>3. QED  BY <1>0, <1>2, <2>2 DEF FindMember
<1>3. ASSUME NEW r \in Requests, FindCard(r) PROVE Traced'
  BY <1>0, <1>3 DEF FindCard
<1>4. ASSUME NEW r \in Requests, QueryFails(r) PROVE Traced'
  BY <1>0, <1>4 DEF QueryFails
<1>5. ASSUME NEW r \in Requests, Connect(r) PROVE Traced'
  BY <1>0, <1>5 DEF Connect
<1>6. ASSUME NEW r \in Requests, ReadPdfData(r) PROVE Traced'
  BY <1>0, <1>6 DEF ReadPdfData
<1>7. ASSUME NEW r \in Requests, RenderPdf(r) PROVE Traced'
  BY <1>0, <1>7 DEF RenderPdf
<1>8. ASSUME NEW r \in Requests, PdfFails(r) PROVE Traced'
  BY <1>0, <1>8 DEF PdfFails
<1>9. ASSUME NEW r \in Requests, Rollback(r) PROVE Traced'
  BY <1>0, <1>9 DEF Rollback, DateRestored
<1>10. ASSUME NEW r \in Requests, RollbackFails(r) PROVE Traced'
  BY <1>0, <1>10 DEF RollbackFails
<1>11. ASSUME NEW r \in Requests, Answer(r) PROVE Traced'
  BY <1>0, <1>11 DEF Answer
<1>12. ASSUME NEW r \in Requests, TemplateFails(r) PROVE Traced'
  BY <1>0, <1>12 DEF TemplateFails
<1>13. ASSUME NEW m \in Members, AddSignature(m) PROVE Traced'
  BY <1>0, <1>13 DEF AddSignature
<1>14. CASE Crash
  BY <1>0, <1>14 DEF Crash
<1>15. QED
  BY <1>1, <1>2, <1>3, <1>4, <1>5, <1>6, <1>7,
     <1>8, <1>9, <1>10, <1>11, <1>12, <1>13, <1>14
  DEF Next, Continue

\* The PDF of a request shows its card unless it had a twin in flight
\* (PdfShowsOwnCard).
THEOREM PdfsShowOwnCard == Spec => []PdfShowsOwnCard
<1> DEFINE Inv == /\ TypeOK /\ Located /\ OverlapsRecorded
                  /\ OwnCardOrNone /\ PdfShowsOwnCard
<1>1. Init => Inv
  <2> HAVE Init
  <2>1. \A r \in Requests : phase[r] = "idle"  BY DEF Init
  <2>2. QED  BY <2>1, InitIInv DEF OwnCardOrNone, PdfShowsOwnCard, Holding
<1>2. Inv /\ [Next]_vars => Inv'  BY StepTyped, StepOverlaps, StepPdf
<1>3. QED  BY <1>1, <1>2, PTL DEF Spec

LEMMA StepKnown ==
    ASSUME TypeOK, Located, DatesKnown, [Next]_vars
    PROVE  DatesKnown'
<1> USE DEF TypeOK, Located, Written, DatesKnown, InFlight, Holding, Checking, Goto
<1>1. CASE UNCHANGED vars
  BY <1>1 DEF vars
<1>2. ASSUME NEW r \in Requests, FindMember(r) PROVE DatesKnown'
  <2>1. UNCHANGED <<since, first, args>>  BY <1>2 DEF FindMember
  <2>2. \A s \in Requests \ {r} : snapshot'[s] = snapshot[s] /\ phase'[s] = phase[s]
    BY <1>2 DEF FindMember
  <2>3. phase'[r] \in InFlight => args[r].member \in Members /\ snapshot'[r] = since[args[r].member]
    BY <1>2 DEF FindMember
  <2>4. QED  BY <2>1, <2>2, <2>3
<1>3. ASSUME NEW r \in Requests, FindCard(r) PROVE DatesKnown'
  BY <1>3 DEF FindCard
<1>4. ASSUME NEW r \in Requests, QueryFails(r) PROVE DatesKnown'
  BY <1>4 DEF QueryFails
<1>5. ASSUME NEW r \in Requests, Connect(r) PROVE DatesKnown'
  BY <1>5 DEF Connect
<1>6. ASSUME NEW r \in Requests, ReadPdfData(r) PROVE DatesKnown'
  BY <1>6 DEF ReadPdfData
<1>7. ASSUME NEW r \in Requests, RenderPdf(r) PROVE DatesKnown'
  BY <1>7 DEF RenderPdf
<1>8. ASSUME NEW r \in Requests, PdfFails(r) PROVE DatesKnown'
  BY <1>8 DEF PdfFails
<1>9. ASSUME NEW r \in Requests, Rollback(r) PROVE DatesKnown'
  BY <1>9 DEF Rollback, DateRestored
<1>10. ASSUME NEW r \in Requests, RollbackFails(r) PROVE DatesKnown'
  BY <1>10 DEF RollbackFails
<1>11. ASSUME NEW r \in Requests, Answer(r) PROVE DatesKnown'
  BY <1>11 DEF Answer
<1>12. ASSUME NEW r \in Requests, TemplateFails(r) PROVE DatesKnown'
  BY <1>12 DEF TemplateFails
<1>13. ASSUME NEW m \in Members, AddSignature(m) PROVE DatesKnown'
  BY <1>13 DEF AddSignature
<1>14. CASE Crash
  BY <1>14 DEF Crash
<1>15. QED
  BY <1>1, <1>2, <1>3, <1>4, <1>5, <1>6, <1>7,
     <1>8, <1>9, <1>10, <1>11, <1>12, <1>13, <1>14
  DEF Next, Continue

\* A member without a card has its original date, set or not, or that of a
\* request that had a rival in flight (OriginalDateKept).
THEOREM OriginalDatesKept == Spec => []OriginalDateKept
<1> DEFINE Inv == TypeOK /\ Located /\ OverlapsRecorded /\ Lasting /\ DatesTraced /\ DatesKnown
<1>1. Init => Inv
  <2> HAVE Init
  <2>1. \A m \in Members, r \in Requests : since[m] # r  BY DatesAssumption DEF Init
  <2>2. \A r, s \in Requests : snapshot[s] # r  BY DatesAssumption DEF Init
  <2>3. DatesKnown  BY DEF Init, DatesKnown, InFlight, Holding, Checking
  <2>4. QED  BY <2>1, <2>2, <2>3, InitIInv DEF DatesTraced
<1>2. Inv /\ [Next]_vars => Inv'
  BY StepTyped, StepOverlaps, StepLasting, StepDates, StepKnown
<1>3. Inv => OriginalDateKept
  <2> SUFFICES ASSUME Inv, NEW m \in Members, ~HasCard(m), since[m] # first[m]
               PROVE  since[m] \in Requests /\ HadRival(since[m])
    BY DEF OriginalDateKept
  <2>1. PICK r \in Requests : since[m] = r  BY DEF DatesKnown
  <2>2. ASSUME ~HadRival(r) PROVE FALSE
    <3>1. Written(r) /\ args[r].member = m  BY <2>1, <2>2 DEF DatesTraced
    <3>2. holds[m] = args[r].card  BY <2>2, <3>1 DEF Lasting, Safe
    <3>3. QED  BY <3>1, <3>2, PoolAssumption DEF Located, HasCard
  <2>3. QED  BY <2>1, <2>2
<1>4. QED  BY <1>1, <1>2, <1>3, PTL DEF Spec

-----------------------------------------------------------------------------
(* Requests come nearer to their end.                                      *)

\* Calls that still lie ahead of a request.
Ahead(p) ==
    CASE p = "memberFound" -> 5
      [] p = "cardFree" -> 4
      [] p = "connected" -> 3
      [] p = "printing" -> 2
      [] p \in {"printed", "undo"} -> 1
      [] OTHER -> 0

Descends(r) ==
    /\ Continue(r) => Ahead(phase'[r]) < Ahead(phase[r])
    /\ phase[r] \in InFlight => phase'[r] = phase[r] \/ Ahead(phase'[r]) < Ahead(phase[r])
    /\ phase[r] \in Ended => phase'[r] = phase[r]

\* A call that settles, with a result or not, takes its request nearer and no other.
LEMMA CallsSettle ==
    ASSUME TypeOK, NEW r \in Requests, Continue(r)
    PROVE  /\ phase[r] \in InFlight /\ Ahead(phase'[r]) < Ahead(phase[r])
           /\ \A q \in Requests : q # r => phase'[q] = phase[q]
BY DEF TypeOK, Continue, Goto, Ahead, InFlight, Checking, Holding, FindCard, QueryFails, Connect,
       ReadPdfData, RenderPdf, PdfFails, Rollback, RollbackFails, Answer, TemplateFails

LEMMA StepDescends ==
    ASSUME TypeOK, [Next]_vars, NEW r \in Requests
    PROVE  Descends(r)
<1> USE DEF TypeOK, InFlight, Checking, Holding, Ended, Refused
<1>1. CASE Continue(r)  BY <1>1, CallsSettle DEF Descends
<1>2. ASSUME ~Continue(r), NEW q \in Requests, Continue(q) PROVE Descends(r)
  BY <1>2, CallsSettle DEF Descends
<1>3. ASSUME ~Continue(r), NEW q \in Requests, FindMember(q) PROVE Descends(r)
  <2>1. phase[q] = "idle" /\ \A p \in Requests : p # q => phase'[p] = phase[p]
    BY <1>3 DEF FindMember, Goto
  <2>2. QED  BY <1>3, <2>1 DEF Descends
<1>4. ASSUME ~Continue(r), Crash PROVE Descends(r)
  BY <1>4 DEF Crash, Descends, Ahead
<1>5. ASSUME ~Continue(r), UNCHANGED phase PROVE Descends(r)
  BY <1>5 DEF Descends
<1>6. QED  BY <1>1, <1>2, <1>3, <1>4, <1>5 DEF Next, vars, AddSignature

\* Every step of a request brings it nearer to its answer, whatever rejects, nothing
\* takes it back, and an answer is final: after its first query a request awaits at most
\* five more calls, the undoing among them (admin.service.ts:199-307).
THEOREM RequestsDescend == Spec => [][\A r \in Requests : Descends(r)]_vars
<1>1. TypeOK /\ [Next]_vars => [\A r \in Requests : Descends(r)]_vars  BY StepDescends
<1>2. QED  BY <1>1, TypeCorrect, PTL DEF Spec

-----------------------------------------------------------------------------
(* Refinement: a request without rival is a transaction on its row.        *)

\* What another request in flight writes concerns neither the member nor the
\* card of one that had no rival.
LEMMA OthersApart ==
    ASSUME OverlapsRecorded, NEW q \in Requests, NEW r \in Requests, r # q, ~HadRival(q),
           phase[q] \in InFlight, phase[r] \in InFlight
    PROVE  args[r].member # args[q].member /\ args[r].card # args[q].card
BY DEF OverlapsRecorded, HadRival, Rival, SameMember

LEMMA StepAlone ==
    ASSUME TypeOK, Located, OverlapsRecorded, Alone, [Next]_vars
    PROVE  Alone'
<1> SUFFICES ASSUME NEW q \in Requests, ~HadRival(q)'
             PROVE  Undisturbed(q)'
  BY DEF Alone
<1>0. ~HadRival(q) /\ Undisturbed(q)  BY RivalsGrow DEF Alone
<1> USE DEF TypeOK, Undisturbed, InFlight, Holding, Checking, Goto
<1>1. CASE UNCHANGED vars
  BY <1>0, <1>1 DEF vars
<1>2. ASSUME NEW r \in Requests, FindMember(r) PROVE Undisturbed(q)'
  BY <1>0, <1>2 DEF FindMember, HasCard
<1>3. ASSUME NEW r \in Requests, FindCard(r) PROVE Undisturbed(q)'
  BY <1>0, <1>3 DEF FindCard, CardTaken
<1>4. ASSUME NEW r \in Requests, QueryFails(r) PROVE Undisturbed(q)'
  BY <1>0, <1>4 DEF QueryFails
<1>5. ASSUME NEW r \in Requests, Connect(r) PROVE Undisturbed(q)'
  <2>1. UNCHANGED <<args, snapshot>> /\ phase[r] = "cardFree" /\ phase'[r] = "connected"
        /\ \A s \in Requests \ {r} : phase'[s] = phase[s]
    BY <1>5 DEF Connect
  <2>2. args[r].member \in Members  BY <2>1 DEF Located
  <2>3. CASE q = r
    <3>1. holds'[args[q].member] = args[q].card /\ since'[args[q].member] = q
      BY <1>5, <2>2, <2>3 DEF Connect, Transferred
    <3>2. QED  BY <2>1, <2>3, <3>1
  <2>4. CASE q # r /\ phase[q] \in InFlight
    <3>1. args[r].member # args[q].member /\ args[r].card # args[q].card
      BY <1>0, <2>1, <2>4, OthersApart
    <3>2. args[q].member \in Members  BY <2>4 DEF Located
    <3>3. since'[args[q].member] = since[args[q].member]
      BY <1>5, <3>1 DEF Connect
    <3>4. /\ holds[args[q].member] \in {args[q].card, NoCard}
             => holds'[args[q].member] = holds[args[q].member]
          /\ phase[q] = "cardFree" => \A x \in Members : holds'[x] # args[q].card
      <4>1. phase[q] = "cardFree" => args[q].card # NoCard  BY PoolAssumption DEF Located
      <4>2. QED  BY <1>0, <1>5, <3>1, <3>2, <4>1 DEF Connect, Transferred
    <3>5. QED  BY <1>0, <2>1, <2>4, <3>3, <3>4
  <2>5. CASE q # r /\ phase[q] \notin InFlight  BY <2>1, <2>5
  <2>6. QED  BY <2>3, <2>4, <2>5
<1>6. ASSUME NEW r \in Requests, ReadPdfData(r) PROVE Undisturbed(q)'
  BY <1>0, <1>6 DEF ReadPdfData
<1>7. ASSUME NEW r \in Requests, RenderPdf(r) PROVE Undisturbed(q)'
  BY <1>0, <1>7 DEF RenderPdf
<1>8. ASSUME NEW r \in Requests, PdfFails(r) PROVE Undisturbed(q)'
  BY <1>0, <1>8 DEF PdfFails
<1>9. ASSUME NEW r \in Requests, Rollback(r) PROVE Undisturbed(q)'
  <2>1. UNCHANGED <<args, snapshot>> /\ phase[r] = "undo" /\ phase'[r] = "notAssigned"
        /\ \A s \in Requests \ {r} : phase'[s] = phase[s]
    BY <1>9 DEF Rollback
  <2>2. CASE q = r \/ phase[q] \notin InFlight  BY <2>1, <2>2
  <2>3. CASE q # r /\ phase[q] \in InFlight
    <3>1. args[r].member # args[q].member  BY <1>0, <2>1, <2>3, OthersApart
    <3>2. args[q].member \in Members  BY <2>3 DEF Located
    <3>3. /\ holds'[args[q].member] = holds[args[q].member]
          /\ since'[args[q].member] = since[args[q].member]
      BY <1>9, <3>1, <3>2 DEF Rollback, CardRemoved, DateRestored
    <3>4. phase[q] = "cardFree" => \A x \in Members : holds'[x] # args[q].card
      <4>1. phase[q] = "cardFree" => args[q].card # NoCard  BY PoolAssumption DEF Located
      <4>2. QED  BY <1>0, <1>9, <4>1 DEF Rollback, CardRemoved
    <3>5. QED  BY <1>0, <2>1, <2>3, <3>3, <3>4
  <2>4. QED  BY <2>2, <2>3
<1>10. ASSUME NEW r \in Requests, RollbackFails(r) PROVE Undisturbed(q)'
  BY <1>0, <1>10 DEF RollbackFails
<1>11. ASSUME NEW r \in Requests, Answer(r) PROVE Undisturbed(q)'
  BY <1>0, <1>11 DEF Answer
<1>12. ASSUME NEW r \in Requests, TemplateFails(r) PROVE Undisturbed(q)'
  BY <1>0, <1>12 DEF TemplateFails
<1>13. ASSUME NEW m \in Members, AddSignature(m) PROVE Undisturbed(q)'
  BY <1>0, <1>13 DEF AddSignature
<1>14. CASE Crash
  BY <1>0, <1>14 DEF Crash
<1>15. QED
  BY <1>1, <1>2, <1>3, <1>4, <1>5, <1>6, <1>7,
     <1>8, <1>9, <1>10, <1>11, <1>12, <1>13, <1>14
  DEF Next, Continue

-----------------------------------------------------------------------------
(* Each step, seen from the registry.                                      *)

At == [r \in Requests |-> Stage(r)]
Contested == {r \in Requests : HadRival(r)}

\* Where no request overlaps anew, nobody becomes contested.
LEMMA SameContested ==
    ASSUME UNCHANGED <<overlaps, args>> PROVE Contested' = Contested
BY DEF Contested, HadRival, Rival, SameMember

\* The requests open in the registry are those in flight.
LEMMA OpenRunning ==
    ASSUME TypeOK PROVE Registry!Open = Running
<1> SUFFICES ASSUME NEW r \in Requests PROVE Stage(r) \in {"open", "given"} <=> phase[r] \in InFlight
  BY DEF Registry!Open, Running
<1>1. QED  BY DEF Stage, InFlight, Checking, Holding

LEMMA StepBegin ==
    ASSUME TypeOK, NEW r \in Requests, FindMember(r)
    PROVE  Registry!Begin(r)
<1> DEFINE m == args[r].member
<1>1. Stage(r) = "idle"  BY DEF FindMember, Stage, Checking, Holding
<1>2. \A s \in Requests \ {r} : phase'[s] = phase[s]  BY DEF FindMember, Goto, TypeOK
<1>3. \/ m \in Members /\ Stage(r)' = "open" /\ snapshot' = [snapshot EXCEPT ![r] = since[m]]
      \/ Stage(r)' = "closed" /\ UNCHANGED snapshot
  BY DEF FindMember, Goto, TypeOK, Stage, Checking, Holding
<1>4. At' = [s \in Requests |-> IF s \in {r} THEN Stage(r)' ELSE At[s]]
  BY <1>2 DEF At, Stage
<1>5. UNCHANGED <<holds, since, args>>  BY DEF FindMember
<1>6. Registry!Rivals(r) = {s \in Running : Rival(r, s)}
  BY OpenRunning DEF Registry!Rivals, Rival, SameMember
<1>7. Contested' = Contested \cup Registry!Rivals(r) \cup {x \in {r} : Registry!Rivals(r) # {}}
  <2>1. overlaps' = overlaps \cup ({r} \X Running) \cup (Running \X {r})  BY DEF FindMember
  <2>2. r \notin Running /\ Running \subseteq Requests
    BY DEF FindMember, Running, InFlight, Checking, Holding
  <2>3. \A s \in Requests \ {r} : HadRival(s)' <=> HadRival(s) \/ (s \in Running /\ Rival(r, s))
    BY <1>5, <2>1, <2>2 DEF HadRival, Rival, SameMember
  <2>4. HadRival(r)' <=> HadRival(r) \/ \E s \in Running : Rival(r, s)
    BY <1>5, <2>1, <2>2 DEF HadRival, Rival, SameMember
  <2>5. QED  BY <1>6, <2>2, <2>3, <2>4 DEF Contested
<1>8. QED
  BY <1>1, <1>3, <1>4, <1>5, <1>7 DEF Registry!Begin, Registry!Goto, At, Contested

LEMMA StepGive ==
    ASSUME TypeOK, Located, CardsUnshared, CardsUnshared', Alone, NEW r \in Requests, Connect(r)
    PROVE  Registry!Give(r)
<1>1. phase[r] = "cardFree" /\ args[r].member \in Members
  BY DEF Connect, Located, InFlight, Checking
<1>2. Stage(r) = "open" /\ Stage(r)' = "given"
  BY <1>1 DEF Connect, Goto, TypeOK, Stage, Checking, Holding
<1>3. At' = [s \in Requests |-> IF s \in {r} THEN "given" ELSE At[s]]
  BY <1>2 DEF At, Stage, Connect, Goto, TypeOK
<1>4. r \in Contested \/ Registry!AsFound(r)
  BY <1>1 DEF Contested, Alone, Undisturbed, Registry!AsFound, Checking
<1>5. holds'[args[r].member] = args[r].card /\ Registry!Unshared(holds')
  BY <1>1 DEF Connect, Transferred, CardsUnshared, Unshared, Registry!Unshared
<1>6. \A x \in Members \ {args[r].member} : holds[x] # args[r].card => holds'[x] = holds[x]
  BY DEF Connect, Transferred
<1>7. Contested' = Contested  BY SameContested DEF Connect
<1>8. QED
  BY <1>2, <1>3, <1>4, <1>5, <1>6, <1>7
  DEF Connect, Registry!Give, Registry!Goto, At, Contested

LEMMA StepUndo ==
    ASSUME TypeOK, Alone, NEW r \in Requests, Rollback(r)
    PROVE  Registry!Undo(r)
<1>1. Stage(r) = "given" /\ Stage(r)' = "closed"
  BY DEF Rollback, Goto, TypeOK, Stage, Checking, Holding
<1>2. At' = [s \in Requests |-> IF s \in {r} THEN "closed" ELSE At[s]]
  BY <1>1 DEF At, Stage, Rollback, Goto, TypeOK
<1>3. r \in Contested \/ Registry!AsGiven(r)
  BY DEF Rollback, Contested, Alone, Undisturbed, Registry!AsGiven, Holding
<1>4. Contested' = Contested  BY SameContested DEF Rollback
<1>5. QED
  BY <1>1, <1>2, <1>3, <1>4
  DEF Rollback, CardRemoved, DateRestored, Registry!Undo, Registry!Goto, At, Contested

\* A request that is refused, confirmed or stuck closes, one that goes on stays.
LEMMA StepClose ==
    ASSUME TypeOK, NEW r \in Requests, Continue(r), ~Connect(r), ~Rollback(r)
    PROVE  Registry!Close({r}) \/ UNCHANGED Registry!vars
<1>1. UNCHANGED <<holds, since, args, snapshot, overlaps>>
  BY DEF Continue, FindCard, QueryFails, ReadPdfData, RenderPdf, PdfFails, RollbackFails,
         Answer, TemplateFails
<1>2. Contested' = Contested  BY <1>1, SameContested
<1>3. Stage(r)' \in {"closed", Stage(r)} /\ \A s \in Requests \ {r} : phase'[s] = phase[s]
  BY DEF Continue, FindCard, QueryFails, ReadPdfData, RenderPdf, PdfFails, RollbackFails, Answer,
         TemplateFails, Goto, TypeOK, Stage, Checking, Holding
<1>4. At' = [s \in Requests |-> IF s \in {r} THEN Stage(r)' ELSE At[s]]  BY <1>3 DEF At, Stage
<1>5. CASE Stage(r)' = "closed"
  BY <1>1, <1>2, <1>4, <1>5 DEF Registry!Close, Registry!Goto, At, Contested
<1>6. CASE Stage(r)' = Stage(r)
  <2>1. At' = At  BY <1>4, <1>6 DEF At
  <2>2. QED  BY <1>1, <1>2, <2>1 DEF Registry!vars, At, Contested
<1>7. QED  BY <1>3, <1>5, <1>6

LEMMA StepCut ==
    ASSUME TypeOK, Crash
    PROVE  Registry!Close(Running)
<1>1. UNCHANGED <<holds, since, args, snapshot, overlaps>> /\ Running # {}  BY DEF Crash
<1>2. Contested' = Contested  BY <1>1, SameContested
<1>3. At' = [s \in Requests |-> IF s \in Running THEN "closed" ELSE At[s]]
  BY DEF Crash, At, Stage, Running, InFlight, Checking, Holding
<1>4. QED  BY <1>1, <1>2, <1>3 DEF Registry!Close, Registry!Goto, At, Contested

\* Whatever requests interleave, one that had no rival is a transaction: it
\* writes to the row it found, and its undoing puts that row back, card and
\* date; nobody else's card moves (RegistryRefined).
THEOREM ImplementsRegistry == Spec => RegistryRefined
<1> DEFINE Inv == TypeOK /\ Located /\ CardsUnshared /\ OverlapsRecorded /\ Alone
<1>1. Init => Inv /\ Registry!Init
  <2> HAVE Init
  <2>1. \A r \in Requests : phase[r] = "idle"  BY DEF Init
  <2>2. TypeOK /\ Located /\ OverlapsRecorded  BY InitIInv
  <2>3. Alone  BY <2>1 DEF Alone, Undisturbed, Checking, Holding
  <2>4. Contested = {}  BY DEF Init, Contested, HadRival
  <2>5. At = [r \in Requests |-> "idle"]  BY <2>1 DEF At, Stage, Checking, Holding
  <2>6. Registry!Init
    BY <2>4, <2>5 DEF Init, Registry!Init, Unshared, Registry!Unshared, At, Contested
  <2>7. QED  BY <2>2, <2>3, <2>6 DEF Init, CardsUnshared
<1>2. Inv /\ [Next]_vars => Inv'
  BY StepTyped, StepUnshared, StepOverlaps, StepAlone
<1>3. Inv /\ Inv' /\ [Next]_vars => [Registry!Next]_(Registry!vars)
  <2> SUFFICES ASSUME Inv, Inv', [Next]_vars PROVE [Registry!Next]_(Registry!vars)
    OBVIOUS
  <2>1. ASSUME NEW r \in Requests, FindMember(r) \/ Continue(r)
        PROVE  [Registry!Next]_(Registry!vars)
    <3>1. CASE FindMember(r)  BY <3>1, StepBegin DEF Registry!Next
    <3>2. CASE Connect(r)  BY <3>2, StepGive DEF Registry!Next
    <3>3. CASE Rollback(r)  BY <3>3, StepUndo DEF Registry!Next
    <3>4. CASE Continue(r) /\ ~Connect(r) /\ ~Rollback(r)
      <4>1. r \in Registry!Open  BY <3>4, CallsSettle, OpenRunning DEF Running
      <4>2. {r} \in SUBSET Registry!Open  BY <4>1
      <4>3. QED  BY <3>4, <4>2, StepClose DEF Registry!Next
    <3>5. QED  BY <2>1, <3>1, <3>2, <3>3, <3>4
  <2>2. CASE Crash
    <3>1. Running \in SUBSET Registry!Open  BY OpenRunning
    <3>2. QED  BY <2>2, <3>1, StepCut DEF Registry!Next
  <2>3. CASE UNCHANGED <<holds, since, args, phase, snapshot, overlaps>>
    <3>1. Contested' = Contested /\ At' = At  BY <2>3, SameContested DEF At, Stage
    <3>2. QED  BY <2>3, <3>1 DEF Registry!vars, At, Contested
  <2>4. QED  BY <2>1, <2>2, <2>3 DEF Next, vars, AddSignature
<1>4. QED  BY <1>1, <1>2, <1>3, PTL DEF Spec, RegistryRefined, Registry!Spec

-----------------------------------------------------------------------------
(* The spreadsheet and the forms, beside the card requests.                *)

\* Readers and card requests in flight together are recorded.
BesideRecorded == Reading \X Running \subseteq beside

\* Member m holds card c, and no request in flight may change that.
Held(m, c) ==
    /\ holds[m] = c
    /\ \A r \in Running :
          /\ args[r].member # m
          /\ phase[r] # "memberFound" => args[r].card # c

\* What a form shows is held for good, unless a request was beside it.
FormsKept ==
    \A d \in Downloads : stage[d] \in {"drawing", "done"} =>
        /\ subject[d] \in Members /\ shown[d] \in Pool
        /\ Disturbed(d, subject[d], shown[d]) \/ Held(subject[d], shown[d])

\* Between its two queries an export still has what the rows say, and after
\* them its sheets agree, unless a request was beside it.
SheetsKept ==
    \A e \in Exports, m \in Members, c \in Pool : Disturbed(e, m, c) \/
        /\ stage[e] = "membersRead" => (soci[e][m] = c <=> holds[m] = c)
        /\ stage[e] \in {"cardsRead", "done"} => (soci[e][m] = c <=> tessere[e][c] = m)

CardInv == TypeOK /\ Located /\ CardsUnshared
ReadersInv == ReadersTypeOK /\ BesideRecorded /\ FormsKept /\ SheetsKept

-----------------------------------------------------------------------------
(* The card requests among the readers.                                    *)

LEMMA CardPart == [NextReaders]_<<vars, readers>> => [Next]_vars
BY DEF NextReaders, CardStep, Restart, Next

LEMMA InitCards == InitReaders => CardInv
BY InitTyped DEF InitReaders, CardInv, CardsUnshared, Init

LEMMA StepCards == CardInv /\ [NextReaders]_<<vars, readers>> => CardInv'
BY CardPart, StepTyped, StepUnshared DEF CardInv

\* What runs beside the readers is the card assignment: whatever is proved of it above
\* holds among exports and downloads too (admin.service.ts:45-79,
\* membership-pdf.service.ts:29-92).
THEOREM ReadersImplementCards == SpecReaders => Spec
<1>1. InitReaders => Init  BY DEF InitReaders
<1>2. QED  BY <1>1, CardPart, PTL DEF Spec, SpecReaders

\* A card moves only by a request in flight for the card or for the member.
LEMMA StepMoves ==
    ASSUME TypeOK, Located, [Next]_vars, NEW m \in Members, NEW c \in Pool,
           (holds'[m] = c) # (holds[m] = c)
    PROVE  \E r \in Running : args[r].member = m \/ args[r].card = c
<1> USE DEF TypeOK, Running, InFlight, Checking, Holding
<1>1. ASSUME NEW r \in Requests, Connect(r) PROVE r \in Running
  BY <1>1 DEF Connect
<1>2. ASSUME NEW r \in Requests, Connect(r), args[r].member # m, args[r].card # c PROVE FALSE
  BY <1>2, PoolAssumption DEF Connect, Transferred
<1>3. ASSUME NEW r \in Requests, Rollback(r) PROVE r \in Running
  BY <1>3 DEF Rollback
<1>4. ASSUME NEW r \in Requests, Rollback(r), args[r].member # m PROVE FALSE
  BY <1>4 DEF Rollback, CardRemoved
<1>5. \/ holds' = holds
      \/ \E r \in Requests : Connect(r) \/ Rollback(r)
  BY DEF Next, vars, Continue, FindMember, FindCard, QueryFails, ReadPdfData, RenderPdf,
         PdfFails, RollbackFails, Answer, TemplateFails, AddSignature, Crash
<1>6. QED  BY <1>1, <1>2, <1>3, <1>4, <1>5

LEMMA StepArgs == [Next]_vars => args' = args
BY DEF Next, vars, Continue, FindMember, FindCard, QueryFails, Connect, ReadPdfData, RenderPdf,
       PdfFails, Rollback, RollbackFails, Answer, TemplateFails, AddSignature, Crash

\* A request is in flight after a step if it was before, or it just began.
LEMMA StepRunning ==
    ASSUME TypeOK, Located, [Next]_vars, NEW m \in Members, NEW c \in Pool, Held(m, c)
    PROVE  \A r \in Running' : args[r].member # m /\ (phase'[r] # "memberFound" => args[r].card # c)
<1> USE DEF TypeOK, Held, Running, InFlight, Checking, Holding, Goto
<1>1. CASE UNCHANGED vars  BY <1>1 DEF vars
<1>2. ASSUME NEW r \in Requests, FindMember(r)
      PROVE  \A s \in Running' : args[s].member # m /\ (phase'[s] # "memberFound" => args[s].card # c)
  <2>1. HasCard(m)  BY PoolAssumption DEF HasCard
  <2>2. phase'[r] \in InFlight => phase'[r] = "memberFound" /\ args[r].member # m
    BY <1>2, <2>1 DEF FindMember
  <2>3. QED  BY <1>2, <2>2 DEF FindMember
<1>3. ASSUME NEW r \in Requests, FindCard(r)
      PROVE  \A s \in Running' : args[s].member # m /\ (phase'[s] # "memberFound" => args[s].card # c)
  <2>1. CardTaken(c)  BY DEF CardTaken
  <2>2. phase'[r] \in InFlight => args[r].card # c /\ args[r].member # m
    BY <1>3, <2>1 DEF FindCard
  <2>3. QED  BY <1>3, <2>2 DEF FindCard
<1>4. ASSUME NEW r \in Requests, Continue(r), ~FindCard(r)
      PROVE  \A s \in Running' : args[s].member # m /\ (phase'[s] # "memberFound" => args[s].card # c)
  <2>1. r \in Running /\ phase'[r] # "memberFound"
    BY <1>4 DEF Continue, QueryFails, Connect, ReadPdfData, RenderPdf, PdfFails, Rollback,
                RollbackFails, Answer, TemplateFails
  <2>2. phase[r] # "memberFound" \/ phase'[r] \notin InFlight
    BY <1>4 DEF Continue, QueryFails, Connect, ReadPdfData, RenderPdf, PdfFails, Rollback,
                RollbackFails, Answer, TemplateFails
  <2>3. \A s \in Requests \ {r} : phase'[s] = phase[s]
    BY <1>4 DEF Continue, QueryFails, Connect, ReadPdfData, RenderPdf, PdfFails, Rollback,
                RollbackFails, Answer, TemplateFails
  <2>4. QED  BY <2>1, <2>2, <2>3
<1>5. CASE Crash \/ \E x \in Members : AddSignature(x)
  BY <1>5 DEF Crash, AddSignature
<1>6. QED  BY <1>1, <1>2, <1>3, <1>4, <1>5 DEF Next

LEMMA StepHeld ==
    ASSUME TypeOK, Located, [Next]_vars, NEW m \in Members, NEW c \in Pool, Held(m, c)
    PROVE  Held(m, c)'
<1>1. args' = args  BY StepArgs
<1>2. \A r \in Running' : args[r].member # m /\ (phase'[r] # "memberFound" => args[r].card # c)
  BY StepRunning
<1>3. holds'[m] = c
  <2>1. CASE \E r \in Requests : Connect(r)
    <3>1. PICK r \in Requests : Connect(r)  BY <2>1
    <3>2. args[r].member # m /\ args[r].card # c
      BY <3>1 DEF Held, Running, Connect, InFlight, Checking
    <3>3. QED  BY <3>1, <3>2 DEF Connect, Transferred, Held
  <2>2. CASE ~\E r \in Requests : Connect(r)
    <3>1. ASSUME NEW r \in Requests, Rollback(r) PROVE holds'[m] = c
      <4>1. args[r].member # m
        BY <3>1 DEF Held, Running, Rollback, InFlight, Holding
      <4>2. QED  BY <3>1, <4>1 DEF Rollback, CardRemoved, Held, TypeOK
    <3>2. holds' = holds \/ \E r \in Requests : Rollback(r)
      BY <2>2 DEF Next, vars, Continue, FindMember, FindCard, QueryFails, ReadPdfData, RenderPdf,
             PdfFails, RollbackFails, Answer, TemplateFails, AddSignature, Crash
    <3>3. QED  BY <3>1, <3>2 DEF Held
  <2>3. QED  BY <2>1, <2>2
<1>4. QED  BY <1>1, <1>2, <1>3 DEF Held

-----------------------------------------------------------------------------
(* The readers.                                                            *)

LEMMA InitReading == InitReaders => ReadersInv
<1> HAVE InitReaders
<1>1. ReadersTypeOK  BY DEF InitReaders, ReadersTypeOK
<1>2. \A x \in Readers : stage[x] = "idle"  BY DEF InitReaders
<1>3. BesideRecorded  BY <1>2 DEF BesideRecorded, Reading
<1>4. FormsKept /\ SheetsKept  BY <1>2 DEF FormsKept, SheetsKept, Readers
<1>5. QED  BY <1>1, <1>3, <1>4 DEF ReadersInv

LEMMA StepReadersTyped ==
    ASSUME CardInv, ReadersTypeOK, [NextReaders]_<<vars, readers>>
    PROVE  ReadersTypeOK'
<1> USE DEF ReadersTypeOK, Enter, Readers
<1>1. CASE UNCHANGED <<vars, readers>>  BY <1>1 DEF readers
<1>2. ASSUME NextReaders PROVE beside' \subseteq Readers \X Requests
  BY <1>2 DEF NextReaders, Meet, Reading, Running
<1>3. CASE CardStep /\ UNCHANGED <<stage, subject, soci, tessere, shown>> /\ NextReaders
  BY <1>2, <1>3
<1>4. ASSUME NEW e \in Exports, ReadMembers(e), NextReaders PROVE ReadersTypeOK'
  BY <1>2, <1>4 DEF ReadMembers, CardInv, TypeOK
<1>5. ASSUME NEW e \in Exports, ReadCards(e), NextReaders PROVE ReadersTypeOK'
  <2>1. [c \in Pool |-> Holder(c)] \in [Pool -> Members \cup {Nobody}]
    BY DEF Holder, CardTaken
  <2>2. QED  BY <1>2, <1>5, <2>1 DEF ReadCards
<1>6. ASSUME NEW e \in Exports, WriteBuffer(e), NextReaders PROVE ReadersTypeOK'
  BY <1>2, <1>6 DEF WriteBuffer
<1>7. ASSUME NEW d \in Downloads, ReadRow(d), NextReaders PROVE ReadersTypeOK'
  <2>1. stage' \in [Readers -> {"idle", "membersRead", "cardsRead", "drawing",
                                "done", "refused", "failed", "dropped"}]
    BY <1>7 DEF ReadRow
  <2>2. shown' \in [Downloads -> Pool \cup {NoCard}]  BY <1>7 DEF ReadRow, CardInv, TypeOK
  <2>3. UNCHANGED <<subject, soci, tessere>>  BY <1>7 DEF ReadRow
  <2>4. QED  BY <1>2, <1>7, <2>1, <2>2, <2>3
<1>8. ASSUME NEW d \in Downloads, Deliver(d), NextReaders PROVE ReadersTypeOK'
  BY <1>2, <1>8 DEF Deliver
<1>9. ASSUME NEW x \in Readers, ReaderFails(x), NextReaders PROVE ReadersTypeOK'
  BY <1>2, <1>9 DEF ReaderFails
<1>10. CASE Restart /\ NextReaders
  BY <1>2, <1>10 DEF Restart
<1>11. QED
  BY <1>1, <1>3, <1>4, <1>5, <1>6, <1>7, <1>8, <1>9, <1>10 DEF NextReaders, ReaderStep

LEMMA StepBeside ==
    ASSUME BesideRecorded, [NextReaders]_<<vars, readers>>
    PROVE  BesideRecorded' /\ beside \subseteq beside'
<1>1. CASE UNCHANGED <<vars, readers>>
  BY <1>1 DEF BesideRecorded, vars, readers, Reading, Running
<1>2. CASE NextReaders  BY <1>2 DEF NextReaders, Meet, BesideRecorded
<1>3. QED  BY <1>1, <1>2

LEMMA DisturbedGrows ==
    ASSUME BesideRecorded, [NextReaders]_<<vars, readers>>,
           NEW x \in Readers, NEW m \in Members, NEW c \in Pool, Disturbed(x, m, c)
    PROVE  Disturbed(x, m, c)'
BY StepBeside, CardPart, StepArgs DEF Disturbed

\* A member holds the card its reader saw, and who might change that is beside it.
LEMMA SeenIsHeld ==
    ASSUME BesideRecorded, NEW x \in Reading, NEW m \in Members, NEW c \in Pool, holds[m] = c
    PROVE  Disturbed(x, m, c) \/ Held(m, c)
BY DEF BesideRecorded, Disturbed, Held, Running

LEMMA StepForms ==
    ASSUME CardInv, ReadersInv, [NextReaders]_<<vars, readers>>
    PROVE  FormsKept'
<1> SUFFICES ASSUME NEW d \in Downloads, stage'[d] \in {"drawing", "done"}
             PROVE  /\ subject'[d] \in Members /\ shown'[d] \in Pool
                    /\ Disturbed(d, subject[d], shown[d])' \/ Held(subject[d], shown[d])'
  BY DEF FormsKept
<1>1. BesideRecorded'  BY StepBeside DEF ReadersInv
<1>2. CASE ReadRow(d) /\ UNCHANGED vars /\ Meet
  <2>1. stage[d] = "idle" /\ stage'[d] = "drawing" /\ subject' = subject
    BY <1>2 DEF ReadRow, Enter, ReadersInv, ReadersTypeOK, Readers
  <2>2. subject[d] \in Members /\ Printable(subject[d]) /\ shown'[d] = holds[subject[d]]
    BY <1>2, <2>1 DEF ReadRow, Enter, ReadersInv, ReadersTypeOK, Readers
  <2>3. shown'[d] \in Pool  BY <2>2 DEF Printable, HasCard, CardInv, TypeOK
  <2>4. d \in Reading'  BY <2>1 DEF Reading, Readers
  <2>5. holds'[subject'[d]] = shown'[d]  BY <1>2, <2>1, <2>2 DEF vars
  <2>6. \A r \in Running' : <<d, r>> \in beside'  BY <1>1, <2>4 DEF BesideRecorded
  <2>7. Disturbed(d, subject[d], shown[d])' \/ Held(subject[d], shown[d])'
    BY <2>5, <2>6 DEF Disturbed, Held, Running
  <2>8. QED  BY <2>1, <2>2, <2>3, <2>7
<1>3. CASE ~(ReadRow(d) /\ UNCHANGED vars /\ Meet)
  <2>1. stage[d] \in {"drawing", "done"} /\ subject'[d] = subject[d] /\ shown'[d] = shown[d]
    <3> USE DEF ReadersInv, ReadersTypeOK, Readers, Enter
    <3>1. CASE UNCHANGED <<vars, readers>>  BY <3>1 DEF readers
    <3>2. CASE UNCHANGED <<stage, subject, soci, tessere, shown>>  BY <3>2
    <3>3. ASSUME NEW e \in Exports, ReadMembers(e) \/ ReadCards(e) \/ WriteBuffer(e)
          PROVE  stage[d] \in {"drawing", "done"} /\ subject'[d] = subject[d] /\ shown'[d] = shown[d]
      BY <3>3, ReadersAssumption DEF ReadMembers, ReadCards, WriteBuffer
    <3>4. ASSUME NEW b \in Downloads, ReadRow(b), b # d
          PROVE  stage[d] \in {"drawing", "done"} /\ subject'[d] = subject[d] /\ shown'[d] = shown[d]
      BY <3>4 DEF ReadRow
    <3>5. ASSUME NEW b \in Downloads, Deliver(b)
          PROVE  stage[d] \in {"drawing", "done"} /\ subject'[d] = subject[d] /\ shown'[d] = shown[d]
      BY <3>5 DEF Deliver
    <3>6. ASSUME NEW x \in Readers, ReaderFails(x)
          PROVE  stage[d] \in {"drawing", "done"} /\ subject'[d] = subject[d] /\ shown'[d] = shown[d]
      BY <3>6 DEF ReaderFails
    <3>7. CASE Restart  BY <3>7 DEF Restart
    <3>8. QED
      BY <1>3, <3>1, <3>2, <3>3, <3>4, <3>5, <3>6, <3>7 DEF NextReaders, ReaderStep
  <2>2. subject[d] \in Members /\ shown[d] \in Pool
    BY <2>1 DEF ReadersInv, FormsKept
  <2>3. CASE Disturbed(d, subject[d], shown[d])
    <3>1. beside \subseteq beside' /\ args' = args
      BY StepBeside, CardPart, StepArgs DEF ReadersInv
    <3>2. Disturbed(d, subject[d], shown[d])'  BY <2>1, <2>3, <3>1 DEF Disturbed
    <3>3. QED  BY <2>1, <2>2, <3>2
  <2>4. CASE Held(subject[d], shown[d])
    <3>1. \A m \in Members, c \in Pool : Held(m, c) => Held(m, c)'
      BY CardPart, StepHeld DEF CardInv
    <3>2. Held(subject[d], shown[d])'  BY <2>1, <2>2, <2>4, <3>1 DEF Held
    <3>3. QED  BY <2>1, <2>2, <3>2
  <2>5. QED  BY <2>1, <2>3, <2>4 DEF ReadersInv, FormsKept
<1>4. QED  BY <1>2, <1>3

\* Only one member can be found for a card.
LEMMA HolderFound ==
    ASSUME CardInv, NEW m \in Members, NEW c \in Pool
    PROVE  Holder(c) = m <=> holds[m] = c
<1>1. CASE CardTaken(c)
  <2>1. Holder(c) \in Members /\ holds[Holder(c)] = c  BY <1>1 DEF Holder, CardTaken
  <2>2. QED
    BY <2>1, PoolAssumption DEF CardInv, CardsUnshared, Unshared, TypeOK
<1>2. CASE ~CardTaken(c)
  BY <1>2, ReadersAssumption DEF Holder, CardTaken
<1>3. QED  BY <1>1, <1>2

LEMMA StepSheets ==
    ASSUME CardInv, ReadersInv, [NextReaders]_<<vars, readers>>
    PROVE  SheetsKept'
<1> SUFFICES ASSUME NEW e \in Exports, NEW m \in Members, NEW c \in Pool, ~Disturbed(e, m, c)'
             PROVE  /\ stage'[e] = "membersRead" => (soci'[e][m] = c <=> holds'[m] = c)
                    /\ stage'[e] \in {"cardsRead", "done"}
                          => (soci'[e][m] = c <=> tessere'[e][c] = m)
  BY DEF SheetsKept
<1>1. ~Disturbed(e, m, c)  BY DisturbedGrows DEF ReadersInv, Readers
<1>2. /\ stage[e] = "membersRead" => (soci[e][m] = c <=> holds[m] = c)
      /\ stage[e] \in {"cardsRead", "done"} => (soci[e][m] = c <=> tessere[e][c] = m)
  BY <1>1 DEF ReadersInv, SheetsKept
<1> USE DEF ReadersInv, ReadersTypeOK, Readers, Enter
<1>3. stage[e] = "membersRead" => (holds'[m] = c <=> holds[m] = c)
  <2> SUFFICES ASSUME stage[e] = "membersRead", (holds'[m] = c) # (holds[m] = c) PROVE FALSE
    OBVIOUS
  <2>1. \E r \in Running : args[r].member = m \/ args[r].card = c
    BY CardPart, StepMoves DEF CardInv
  <2>2. e \in Reading  BY DEF Reading
  <2>3. QED  BY <1>1, <2>1, <2>2 DEF BesideRecorded, Disturbed, Running
<1>4. CASE UNCHANGED <<vars, readers>>  BY <1>2, <1>4 DEF readers, vars
<1>5. CASE UNCHANGED <<stage, subject, soci, tessere, shown>>  BY <1>2, <1>3, <1>5
<1>6. ASSUME NEW x \in Exports, ReadMembers(x), UNCHANGED vars
      PROVE  /\ stage'[e] = "membersRead" => (soci'[e][m] = c <=> holds'[m] = c)
             /\ stage'[e] \in {"cardsRead", "done"} => (soci'[e][m] = c <=> tessere'[e][c] = m)
  <2>1. CASE x = e  BY <1>6, <2>1 DEF ReadMembers, vars
  <2>2. CASE x # e  BY <1>2, <1>6, <2>2 DEF ReadMembers, vars
  <2>3. QED  BY <2>1, <2>2
<1>7. ASSUME NEW x \in Exports, ReadCards(x), UNCHANGED vars
      PROVE  /\ stage'[e] = "membersRead" => (soci'[e][m] = c <=> holds'[m] = c)
             /\ stage'[e] \in {"cardsRead", "done"} => (soci'[e][m] = c <=> tessere'[e][c] = m)
  <2>1. CASE x = e
    <3>1. tessere'[e][c] = Holder(c) /\ soci' = soci /\ stage'[e] = "cardsRead"
      BY <1>7, <2>1 DEF ReadCards
    <3>2. Holder(c) = m <=> holds[m] = c  BY HolderFound
    <3>3. QED  BY <1>2, <1>7, <2>1, <3>1, <3>2 DEF ReadCards
  <2>2. CASE x # e  BY <1>2, <1>7, <2>2 DEF ReadCards, vars
  <2>3. QED  BY <2>1, <2>2
<1>8. ASSUME NEW x \in Exports, WriteBuffer(x), UNCHANGED vars
      PROVE  /\ stage'[e] = "membersRead" => (soci'[e][m] = c <=> holds'[m] = c)
             /\ stage'[e] \in {"cardsRead", "done"} => (soci'[e][m] = c <=> tessere'[e][c] = m)
  BY <1>2, <1>8 DEF WriteBuffer, vars
<1>9. ASSUME NEW d \in Downloads, ReadRow(d) \/ Deliver(d), UNCHANGED vars
      PROVE  /\ stage'[e] = "membersRead" => (soci'[e][m] = c <=> holds'[m] = c)
             /\ stage'[e] \in {"cardsRead", "done"} => (soci'[e][m] = c <=> tessere'[e][c] = m)
  BY <1>2, <1>9, ReadersAssumption DEF ReadRow, Deliver, vars
<1>10. ASSUME NEW x \in Readers, ReaderFails(x), UNCHANGED vars
      PROVE  /\ stage'[e] = "membersRead" => (soci'[e][m] = c <=> holds'[m] = c)
             /\ stage'[e] \in {"cardsRead", "done"} => (soci'[e][m] = c <=> tessere'[e][c] = m)
  BY <1>2, <1>10 DEF ReaderFails, vars
<1>11. CASE Restart  BY <1>2, <1>11 DEF Restart, Reading
<1>12. QED
  BY <1>4, <1>5, <1>6, <1>7, <1>8, <1>9, <1>10, <1>11 DEF NextReaders, ReaderStep

LEMMA ReadersInductive ==
    ASSUME CardInv, ReadersInv, [NextReaders]_<<vars, readers>>
    PROVE  CardInv' /\ ReadersInv'
<1>1. CardInv'  BY StepCards
<1>2. ReadersTypeOK' /\ BesideRecorded'  BY StepReadersTyped, StepBeside DEF ReadersInv
<1>3. FormsKept' /\ SheetsKept'  BY StepForms, StepSheets
<1>4. QED  BY <1>1, <1>2, <1>3 DEF ReadersInv

\* Type correctness of the readers (ReadersTypeOK).
THEOREM ReadersTyped == SpecReaders => []ReadersTypeOK
<1>1. InitReaders => CardInv /\ ReadersInv  BY InitCards, InitReading
<1>2. (CardInv /\ ReadersInv) /\ [NextReaders]_<<vars, readers>> => (CardInv /\ ReadersInv)'
  BY ReadersInductive
<1>3. ReadersInv => ReadersTypeOK  BY DEF ReadersInv
<1>4. QED  BY <1>1, <1>2, <1>3, PTL DEF SpecReaders

\* The sheets of any spreadsheet differ only where a card request for that
\* member or card ran with the export (SheetsAgree).
THEOREM SheetsAlwaysAgree == SpecReaders => []SheetsAgree
<1>1. InitReaders => CardInv /\ ReadersInv  BY InitCards, InitReading
<1>2. (CardInv /\ ReadersInv) /\ [NextReaders]_<<vars, readers>> => (CardInv /\ ReadersInv)'
  BY ReadersInductive
<1>3. ReadersInv => SheetsAgree  BY DEF ReadersInv, SheetsKept, SheetsAgree
<1>4. QED  BY <1>1, <1>2, <1>3, PTL DEF SpecReaders

\* The card on a form that was handed out is lost only to a card request that
\* ran while the form was made (FormLasts).
THEOREM FormsLast == SpecReaders => []FormLasts
<1>1. InitReaders => CardInv /\ ReadersInv  BY InitCards, InitReading
<1>2. (CardInv /\ ReadersInv) /\ [NextReaders]_<<vars, readers>> => (CardInv /\ ReadersInv)'
  BY ReadersInductive
<1>3. ReadersInv => FormLasts  BY DEF ReadersInv, FormsKept, FormLasts, Held
<1>4. QED  BY <1>1, <1>2, <1>3, PTL DEF SpecReaders
=============================================================================
