---------------------------- MODULE DealsProofs ----------------------------
(* Proofs about Deals, for any requests, amounts and commission lines.     *)
EXTENDS Deals, SequenceTheorems, TLAPS

LEMMA LinesOver == AllReversed \in [Lines -> LineStatus]
BY DEF AllReversed, LineStatus

LEMMA AmountsInt == \A a \in Amounts : a \in Int
<1>1. Amounts \subseteq Nat
  BY DealsAssumption, Zenon
<1>2. QED
  BY <1>1

LEMMA InitTypeOK == Init => TypeOK
BY DealsAssumption
  DEF Init, TypeOK, DealRow, Stages, CommissionStatus, Request, Idle, Snapshot

(* The reversal of a snapshot: what the table is afterwards.               *)
LEMMA Reversal ==
  ASSUME TypeOK, NEW i \in Finals, NEW ended \in DealRow, Reverse(i, ended)
  PROVE  /\ snaps' \in Seq(Snapshot)
         /\ Len(snaps') = Len(snaps) + 1
         /\ \A k \in 1..Len(snaps) : /\ snaps'[k].kind = snaps[k].kind
                                     /\ snaps'[k].reverses = snaps[k].reverses
                                     /\ snaps'[k].amount = snaps[k].amount
         /\ snaps'[Len(snaps) + 1].kind = "reversal"
         /\ snaps'[Len(snaps) + 1].reverses = i
         /\ snaps'[Len(snaps) + 1].amount = -snaps[i].amount
         /\ snaps'[i].lines = AllReversed /\ snaps'[Len(snaps) + 1].lines = AllReversed
         /\ deal' = [ended EXCEPT !.commission = "reversed"]
         /\ deal' \in DealRow
<1> DEFINE over == [snaps[i] EXCEPT !.lines = AllReversed]
           marked == [snaps EXCEPT ![i] = over]
           new == [kind |-> "reversal", amount |-> -snaps[i].amount, reverses |-> i,
                   lines |-> AllReversed]
<1>1. snaps \in Seq(Snapshot) /\ i \in 1..Len(snaps) /\ snaps[i] \in Snapshot /\ i \in Nat
  BY DEF TypeOK, Finals
<1>2. over \in Snapshot /\ new \in Snapshot
  <2>1. over \in Snapshot
    BY <1>1, LinesOver DEF Snapshot
  <2>2. snaps[i].amount \in Int
    BY <1>1 DEF Snapshot
  <2>3. -snaps[i].amount \in Int
    BY <2>2
  <2>4. new \in Snapshot
    BY <1>1, <2>3, LinesOver DEF Snapshot
  <2>5. QED
    BY <2>1, <2>4
<1>3. /\ over.kind = snaps[i].kind /\ over.reverses = snaps[i].reverses
      /\ over.amount = snaps[i].amount /\ over.lines = AllReversed
  BY <1>1 DEF Snapshot
<1>4. /\ marked \in Seq(Snapshot) /\ Len(marked) = Len(snaps)
      /\ \A k \in 1..Len(snaps) : marked[k] = IF k = i THEN over ELSE snaps[k]
  <2> HIDE DEF over
  <2> QED BY <1>1, <1>2, ExceptSeq
<1>5. snaps' = Append(marked, new) /\ deal' = [ended EXCEPT !.commission = "reversed"]
  BY DEF Reverse
<1>6. deal' \in DealRow
  BY <1>5 DEF DealRow, CommissionStatus
<1> HIDE DEF over, marked, new
<1>7. /\ snaps' \in Seq(Snapshot) /\ Len(snaps') = Len(snaps) + 1
      /\ \A k \in 1..Len(snaps) : snaps'[k] = marked[k]
      /\ snaps'[Len(snaps) + 1] = new
  BY <1>2, <1>4, <1>5
<1>8. /\ new.kind = "reversal" /\ new.reverses = i /\ new.lines = AllReversed
      /\ new.amount = -snaps[i].amount
  BY DEF new
<1>9. QED
  BY <1>1, <1>3, <1>4, <1>5, <1>6, <1>7, <1>8

(* Winning: either nothing, for want of an amount, or a final snapshot.    *)
LEMMA Winning ==
  ASSUME TypeOK, Win
  PROVE  /\ deal' \in DealRow /\ snaps' \in Seq(Snapshot)
         /\ \/ deal' = deal /\ snaps' = snaps
            \/ /\ deal.gross # 0 /\ Len(snaps') = Len(snaps) + 1
               /\ \A k \in 1..Len(snaps) : snaps'[k] = snaps[k]
               /\ snaps'[Len(snaps) + 1].kind = "final"
               /\ snaps'[Len(snaps) + 1].reverses = 0
               /\ snaps'[Len(snaps) + 1].amount = deal.gross
               /\ deal'.stage = "won" /\ deal'.status = "won"
               /\ deal'.snapshot = Len(snaps) + 1 /\ deal'.gross = deal.gross
               /\ deal'.commission \in {"calculated", "pending_approval"}
               /\ deal'.commission = "pending_approval" =>
                    \E l \in Lines : snaps'[Len(snaps) + 1].lines[l] = "pending_approval"
               /\ \A l \in Lines : snaps'[Len(snaps) + 1].lines[l] # "reversed"
<1>1. CASE deal.gross = 0
  BY <1>1 DEF Win, TypeOK
<1>2. CASE deal.gross # 0
  <2>1. PICK pending \in SUBSET Lines :
          /\ snaps' = Append(snaps,
               [kind |-> "final", amount |-> deal.gross, reverses |-> 0,
                lines |-> [l \in Lines |-> IF l \in pending THEN "pending_approval"
                                                            ELSE "calculated"]])
          /\ deal' = [deal EXCEPT !.stage = "won", !.status = "won", !.snapshot = Len(snaps) + 1,
                        !.commission = IF pending = {} THEN "calculated" ELSE "pending_approval"]
    BY <1>2 DEF Win
  <2> DEFINE lines == [l \in Lines |-> IF l \in pending THEN "pending_approval" ELSE "calculated"]
             new == [kind |-> "final", amount |-> deal.gross, reverses |-> 0, lines |-> lines]
  <2>2. lines \in [Lines -> LineStatus]
    BY DEF LineStatus
  <2>3. deal.gross \in Int
    BY AmountsInt DEF TypeOK, DealRow
  <2> HIDE DEF lines
  <2>4. new \in Snapshot
    BY <2>2, <2>3 DEF Snapshot
  <2>5. /\ new.kind = "final" /\ new.reverses = 0 /\ new.amount = deal.gross
        /\ snaps' = Append(snaps, new) /\ snaps \in Seq(Snapshot)
        /\ new.lines = lines
    BY <2>1 DEF TypeOK, lines
  <2>6. /\ deal' \in DealRow /\ deal'.stage = "won" /\ deal'.status = "won"
        /\ deal'.snapshot = Len(snaps) + 1 /\ deal'.gross = deal.gross
        /\ deal'.commission = IF pending = {} THEN "calculated" ELSE "pending_approval"
    <3>1. Len(snaps) + 1 \in Nat /\ deal \in DealRow
      BY <2>5 DEF TypeOK
    <3> DEFINE status == IF pending = {} THEN "calculated" ELSE "pending_approval"
    <3>2. status \in CommissionStatus
      BY DEF CommissionStatus
    <3>3. deal' = [deal EXCEPT !.stage = "won", !.status = "won", !.snapshot = Len(snaps) + 1,
                     !.commission = status]
      BY <2>1
    <3> HIDE DEF status, new
    <3>4. deal'.commission = status
      BY <3>1, <3>3 DEF DealRow
    <3>5. QED
      BY <3>1, <3>2, <3>3, <3>4 DEF DealRow, Stages, status
  <2>7. /\ \A l \in Lines : lines[l] # "reversed"
        /\ pending # {} => \E l \in Lines : lines[l] = "pending_approval"
    BY DEF lines
  <2> HIDE DEF new
  <2>8. /\ snaps' \in Seq(Snapshot) /\ Len(snaps') = Len(snaps) + 1
        /\ \A k \in 1..Len(snaps) : snaps'[k] = snaps[k]
        /\ snaps'[Len(snaps) + 1] = new
    BY <2>4, <2>5
  <2>9. QED
    BY <1>2, <2>5, <2>6, <2>7, <2>8
<1>3. QED
  BY <1>1, <1>2

-----------------------------------------------------------------------------
(* Types *)

(* One request goes on, and no snapshot goes away.                         *)
LEMMA RequestGoesOn ==
  ASSUME TypeOK, NEW c \in Requests, NEW r \in Request, req' = [req EXCEPT ![c] = r],
         r.op \in {"decide", "settle", "approve"} => r.snap \in 1..Len(snaps),
         deal' \in DealRow, snaps' \in Seq(Snapshot), Len(snaps') >= Len(snaps),
         slips' \subseteq Kinds
  PROVE  TypeOK'
<1>1. 1..Len(snaps) \subseteq 1..Len(snaps') /\ DOMAIN snaps = 1..Len(snaps) /\ DOMAIN snaps' = 1..Len(snaps')
  BY DEF TypeOK
<1>2. req' \in [Requests -> Request]
  BY DEF TypeOK
<1>3. \A d \in Requests : req'[d] = IF d = c THEN r ELSE req[d]
  BY DEF TypeOK
<1>4. \A d \in Requests : req'[d].op \in {"decide", "settle", "approve"} => req'[d].snap \in 1..Len(snaps)
  BY <1>1, <1>3 DEF TypeOK
<1>5. QED
  BY <1>1, <1>2, <1>4 DEF TypeOK

LEMMA IdleIsRequest == Idle \in Request /\ Idle.op = "idle"
BY DEF Idle, Request

LEMMA Starting ==
  ASSUME TypeOK, NEW c \in Requests, NEW r \in Request, Start(c, r),
         r.op = "decide" => r.snap \in 1..Len(snaps), r.op \notin {"settle", "approve"}
  PROVE  TypeOK'
<1>1. Len(snaps) \in Nat /\ deal' = deal /\ snaps' = snaps /\ slips' = slips /\ req' = [req EXCEPT ![c] = r]
  BY DEF Start, TypeOK
<1>2. QED
  BY <1>1, RequestGoesOn DEF TypeOK

LEMMA Slipping ==
  ASSUME TypeOK, NEW kind \in Kinds, NEW slipped \in BOOLEAN, Slip(kind, slipped)
  PROVE  slips' \subseteq Kinds /\ slips \subseteq slips' /\ (slipped => kind \in slips')
         /\ \A k \in Kinds \ {kind} : k \in slips' <=> k \in slips
BY DEF Slip, TypeOK

(* What a change of stage does to the rows, whatever it was based on.      *)
LEMMA StageRows ==
  ASSUME TypeOK, NEW c \in Requests, WriteStage(c)
  PROVE  /\ deal' \in DealRow /\ snaps' \in Seq(Snapshot)
         /\ \/ /\ snaps' = snaps /\ deal'.commission = deal.commission
               /\ deal'.snapshot = deal.snapshot
            \/ /\ Len(snaps') = Len(snaps) + 1 /\ \A k \in 1..Len(snaps) : snaps'[k] = snaps[k]
               /\ deal'.snapshot = Len(snaps) + 1
               /\ deal'.commission = "pending_approval" =>
                    \E l \in Lines : snaps'[Len(snaps) + 1].lines[l] = "pending_approval"
            \/ /\ Len(snaps') = Len(snaps) + 1
               /\ \A k \in 1..Len(snaps) : snaps'[k] = snaps[k] \/ snaps'[k].lines = AllReversed
               /\ deal'.commission = "reversed"
<1>1. req[c].to \in Stages /\ deal \in DealRow
  BY DEF WriteStage, TypeOK, Request, Idle
<1>2. CASE req[c].to = "won" /\ Win
  BY <1>2, Winning
<1>3. CASE req[c].to \in {"cancelled", "lost"} /\ EndDeal(req[c].to, req[c].snapshot)
  <2> DEFINE ended == [deal EXCEPT !.stage = req[c].to, !.status = req[c].to]
  <2>1. /\ ended \in DealRow /\ ended.commission = deal.commission
        /\ ended.snapshot = deal.snapshot
    BY <1>1, <1>3 DEF DealRow, Stages
  <2>2. \/ \E i \in Finals : Reverse(i, ended)
        \/ deal' = ended /\ snaps' = snaps
    BY <1>3 DEF EndDeal
  <2> HIDE DEF ended
  <2>3. ASSUME NEW i \in Finals, Reverse(i, ended)
        PROVE  \A k \in 1..Len(snaps) : snaps'[k] = snaps[k] \/ snaps'[k].lines = AllReversed
    <3> DEFINE over == [snaps[i] EXCEPT !.lines = AllReversed]
               marked == [snaps EXCEPT ![i] = over]
               new == [kind |-> "reversal", amount |-> -snaps[i].amount, reverses |-> i,
                       lines |-> AllReversed]
    <3>1. snaps' = Append(marked, new) /\ i \in 1..Len(snaps) /\ snaps \in Seq(Snapshot)
      BY <2>3 DEF Reverse, Finals, TypeOK
    <3>2. Len(marked) = Len(snaps) /\ \A k \in 1..Len(snaps) : k # i => marked[k] = snaps[k]
      <4> HIDE DEF over
      <4> QED BY <3>1
    <3>3. marked \in Seq({over} \cup Snapshot)
      <4> HIDE DEF over
      <4> QED BY <3>1, ExceptSeq
    <3> HIDE DEF marked, new
    <3>4. \A k \in 1..Len(snaps) : snaps'[k] = marked[k]
      BY <3>1, <3>2, <3>3
    <3>5. snaps'[i].lines = AllReversed
      BY <2>1, <2>3, Reversal
    <3>6. QED
      BY <3>2, <3>4, <3>5
  <2>4. ASSUME NEW i \in Finals, Reverse(i, ended)
        PROVE  /\ deal' \in DealRow /\ snaps' \in Seq(Snapshot) /\ Len(snaps') = Len(snaps) + 1
               /\ deal'.commission = "reversed"
    <3>1. /\ deal' \in DealRow /\ snaps' \in Seq(Snapshot) /\ Len(snaps') = Len(snaps) + 1
          /\ deal' = [ended EXCEPT !.commission = "reversed"]
      BY <2>1, <2>4, Reversal
    <3>2. QED
      BY <2>1, <3>1 DEF DealRow
  <2>5. QED
    BY <2>1, <2>2, <2>3, <2>4 DEF TypeOK
<1>4. CASE deal' = [deal EXCEPT !.stage = req[c].to] /\ UNCHANGED snaps
  BY <1>1, <1>4 DEF TypeOK, DealRow
<1>5. QED
  BY <1>2, <1>3, <1>4 DEF WriteStage

LEMMA StageType ==
  ASSUME TypeOK, NEW c \in Requests, WriteStage(c)
  PROVE  TypeOK'
<1>1. req' = [req EXCEPT ![c] = Idle] /\ Slip("stage", StageSlips(req[c]))
  BY DEF WriteStage, Finish
<1>2. slips' \subseteq Kinds
  BY <1>1 DEF Slip, Kinds, TypeOK
<1>3. deal' \in DealRow /\ snaps' \in Seq(Snapshot) /\ Len(snaps') >= Len(snaps)
  BY StageRows DEF TypeOK
<1>4. QED
  BY <1>1, <1>2, <1>3, IdleIsRequest, RequestGoesOn

(* What a decision does to the rows.                                       *)
LEMMA DecisionType ==
  ASSUME TypeOK, NEW c \in Requests, WriteDecision(c)
  PROVE  /\ TypeOK'
         /\ Len(snaps') = Len(snaps)
         /\ \A k \in 1..Len(snaps) :
              /\ snaps'[k].kind = snaps[k].kind
              /\ snaps'[k].reverses = snaps[k].reverses
              /\ snaps'[k].amount = snaps[k].amount
              /\ k # req[c].snap => snaps'[k] = snaps[k]
              /\ \A l \in Lines : snaps'[k].lines[l] = snaps[k].lines[l]
                                  \/ snaps'[k].lines[l] \in {"approved", "rejected"}
<1> DEFINE i == req[c].snap
           l == req[c].line
           decided == [snaps[i] EXCEPT !.lines = [snaps[i].lines EXCEPT ![l] = req[c].decision]]
           r == [op |-> "settle", snap |-> i]
<1>1. /\ req[c] \in [op : {"decide"}, snap : Nat, line : Lines, decision : {"approved", "rejected"}]
      /\ req' = [req EXCEPT ![c] = r]
      /\ deal' = deal /\ i \in 1..Len(snaps)
  BY DEF WriteDecision, TypeOK, Request, Idle
<1>2. /\ i \in Nat /\ l \in Lines /\ req[c].decision \in LineStatus
      /\ req[c].decision \in {"approved", "rejected"}
  BY <1>1 DEF LineStatus
<1>3. r \in Request /\ r.snap = i
  BY <1>2 DEF Request
<1>4. snaps' = [snaps EXCEPT ![i] = decided] /\ slips' \subseteq Kinds
  BY DEF WriteDecision, Slip, Kinds, TypeOK
<1>5. snaps[i] \in Snapshot /\ snaps[i].lines \in [Lines -> LineStatus]
  <2> HIDE DEF i, l, decided
  <2>1. snaps[i] \in Snapshot
    BY <1>1, ElementOfSeq DEF TypeOK
  <2>2. QED
    BY <2>1 DEF Snapshot
<1>6. /\ decided \in Snapshot /\ decided.kind = snaps[i].kind
      /\ decided.reverses = snaps[i].reverses /\ decided.amount = snaps[i].amount
      /\ \A k \in Lines : decided.lines[k] = snaps[i].lines[k]
                          \/ decided.lines[k] \in {"approved", "rejected"}
  BY <1>2, <1>5 DEF Snapshot
<1> HIDE DEF decided, r
<1>7. /\ snaps' \in Seq(Snapshot) /\ Len(snaps') = Len(snaps)
      /\ \A k \in 1..Len(snaps) : snaps'[k] = IF k = i THEN decided ELSE snaps[k]
  BY <1>1, <1>4, <1>6, ExceptSeq DEF TypeOK
<1>8. TypeOK'
  <2>1. deal' \in DealRow /\ Len(snaps') >= Len(snaps)
    BY <1>1, <1>7 DEF TypeOK
  <2> HIDE DEF i
  <2>2. QED
    BY <1>1, <1>3, <1>4, <1>7, <2>1, RequestGoesOn
<1>9. QED
  BY <1>6, <1>7, <1>8

LEMMA EditType ==
  ASSUME TypeOK, NEW c \in Requests, WriteEdit(c)
  PROVE  /\ TypeOK' /\ snaps' = snaps /\ deal'.stage = deal.stage /\ deal'.status = deal.status
         /\ deal'.snapshot = deal.snapshot /\ deal'.commission = deal.commission
<1>1. req[c].gross \in Amounts
  BY DEF WriteEdit, TypeOK, Request, Idle
<1>2. deal \in DealRow /\ deal.version + 1 \in Nat
  BY DEF TypeOK, DealRow
<1>3. deal' = deal \/ deal' = [deal EXCEPT !.gross = req[c].gross, !.version = deal.version + 1]
  BY DEF WriteEdit
<1>4. /\ deal' \in DealRow /\ deal'.stage = deal.stage /\ deal'.status = deal.status
      /\ deal'.snapshot = deal.snapshot /\ deal'.commission = deal.commission
  BY <1>1, <1>2, <1>3 DEF DealRow
<1>5. /\ req' = [req EXCEPT ![c] = Idle] /\ snaps' = snaps /\ slips' \subseteq Kinds
      /\ Len(snaps) \in Nat
  BY DEF WriteEdit, Finish, Slip, Kinds, TypeOK
<1>6. TypeOK'
  <2>1. snaps' \in Seq(Snapshot) /\ Len(snaps') >= Len(snaps)
    BY <1>5 DEF TypeOK
  <2>2. QED
    BY <1>4, <1>5, <2>1, IdleIsRequest, RequestGoesOn
<1>7. QED
  BY <1>4, <1>5, <1>6

LEMMA SettleType ==
  ASSUME TypeOK, NEW c \in Requests, SeePending(c) \/ ApproveDeal(c)
  PROVE  /\ TypeOK' /\ snaps' = snaps /\ deal'.stage = deal.stage /\ deal'.status = deal.status
         /\ deal'.snapshot = deal.snapshot /\ deal'.gross = deal.gross
<1>1. /\ snaps' = snaps /\ slips' \subseteq Kinds /\ Len(snaps) \in Nat
      /\ snaps' \in Seq(Snapshot) /\ Len(snaps') >= Len(snaps)
  BY DEF SeePending, ApproveDeal, Slip, Kinds, TypeOK
<1>2. /\ deal' \in DealRow /\ deal'.stage = deal.stage /\ deal'.status = deal.status
      /\ deal'.snapshot = deal.snapshot /\ deal'.gross = deal.gross
  BY DEF SeePending, ApproveDeal, TypeOK, DealRow, CommissionStatus
<1>3. CASE req' = [req EXCEPT ![c] = Idle]
  BY <1>1, <1>2, <1>3, IdleIsRequest, RequestGoesOn
<1>4. CASE SeePending(c) /\ req' = [req EXCEPT ![c] = [op |-> "approve", snap |-> req[c].snap]]
  <2> DEFINE r == [op |-> "approve", snap |-> req[c].snap]
  <2>1. req[c].snap \in 1..Len(snaps)
    BY <1>4 DEF SeePending, TypeOK
  <2>2. r \in Request /\ r.snap = req[c].snap
    BY <2>1 DEF Request, TypeOK
  <2> HIDE DEF r
  <2>3. req' = [req EXCEPT ![c] = r]
    BY <1>4 DEF r
  <2>4. QED
    BY <1>1, <1>2, <2>1, <2>2, <2>3, RequestGoesOn
<1>5. QED
  BY <1>1, <1>2, <1>3, <1>4 DEF SeePending, ApproveDeal, Finish

(* The records a request is when it arrives.                               *)
LEMMA AskedStage ==
  ASSUME TypeOK, NEW c \in Requests, NEW to \in Stages, AskStage(c, to)
  PROVE  \E r \in Request : r.op = "stage" /\ Start(c, r)
<1> DEFINE r == [op |-> "stage", to |-> to, snapshot |-> deal.snapshot]
<1>1. r \in Request /\ r.op = "stage"
  BY DEF TypeOK, DealRow, Request
<1>2. Start(c, r)
  BY DEF AskStage
<1> HIDE DEF r
<1>3. QED
  BY <1>1, <1>2

LEMMA AskedEdit ==
  ASSUME TypeOK, NEW c \in Requests, NEW gross \in Amounts, NEW version \in 0..MaxVersion,
         AskEdit(c, gross, version)
  PROVE  \E r \in Request : r.op = "edit" /\ Start(c, r)
<1> DEFINE r == [op |-> "edit", gross |-> gross, version |-> version]
<1>1. r \in Request /\ r.op = "edit"
  BY DealsAssumption DEF Request
<1>2. Start(c, r)
  BY DEF AskEdit
<1> HIDE DEF r
<1>3. QED
  BY <1>1, <1>2

LEMMA AskedDecision ==
  ASSUME TypeOK, NEW c \in Requests, NEW snap \in DOMAIN snaps, NEW line \in Lines,
         NEW decision \in {"approved", "rejected"}, AskDecision(c, snap, line, decision)
  PROVE  \E r \in Request : r.op = "decide" /\ r.snap \in 1..Len(snaps) /\ Start(c, r)
<1> DEFINE r == [op |-> "decide", snap |-> snap, line |-> line, decision |-> decision]
<1>1. snap \in 1..Len(snaps) /\ snap \in Nat
  BY DEF TypeOK
<1>2. r \in Request /\ r.op = "decide" /\ r.snap = snap
  BY <1>1 DEF Request
<1>3. Start(c, r)
  BY DEF AskDecision
<1> HIDE DEF r
<1>4. QED
  BY <1>1, <1>2, <1>3

(* A request that arrives, of whichever kind.                              *)
LEMMA Asked ==
  ASSUME TypeOK, NEW c \in Requests,
         \/ \E to \in Stages : AskStage(c, to)
         \/ \E gross \in Amounts, version \in 0..MaxVersion : AskEdit(c, gross, version)
         \/ \E snap \in DOMAIN snaps, line \in Lines, decision \in {"approved", "rejected"} :
              AskDecision(c, snap, line, decision)
  PROVE  \E r \in Request : /\ r.op \in {"stage", "edit", "decide"} /\ Start(c, r)
                            /\ r.op = "decide" => r.snap \in 1..Len(snaps)
<1>1. ASSUME NEW to \in Stages, AskStage(c, to)
      PROVE  \E r \in Request : r.op = "stage" /\ Start(c, r)
  BY <1>1, AskedStage
<1>2. ASSUME NEW gross \in Amounts, NEW version \in 0..MaxVersion, AskEdit(c, gross, version)
      PROVE  \E r \in Request : r.op = "edit" /\ Start(c, r)
  BY <1>2, AskedEdit
<1>3. ASSUME NEW snap \in DOMAIN snaps, NEW line \in Lines, NEW decision \in {"approved", "rejected"},
             AskDecision(c, snap, line, decision)
      PROVE  \E r \in Request : r.op = "decide" /\ r.snap \in 1..Len(snaps) /\ Start(c, r)
  BY <1>3, AskedDecision
<1>4. QED
  BY <1>1, <1>2, <1>3

(* So every step is one of these.                                          *)
LEMMA Steps ==
  ASSUME TypeOK, [Next]_vars
  PROVE  \/ UNCHANGED vars
         \/ \E c \in Requests :
              \/ \E r \in Request : /\ r.op \in {"stage", "edit", "decide"} /\ Start(c, r)
                                    /\ r.op = "decide" => r.snap \in 1..Len(snaps)
              \/ WriteStage(c) \/ WriteEdit(c) \/ WriteDecision(c) \/ SeePending(c) \/ ApproveDeal(c)
BY Asked DEF Next

LEMMA NextType ==
  ASSUME TypeOK, [Next]_vars
  PROVE  TypeOK'
<1>1. CASE UNCHANGED vars
  BY <1>1 DEF vars, TypeOK
<1>2. ASSUME NEW c \in Requests, NEW r \in Request, r.op \in {"stage", "edit", "decide"}, Start(c, r),
             r.op = "decide" => r.snap \in 1..Len(snaps)
      PROVE  TypeOK'
  BY <1>2, Starting
<1>3. QED
  BY <1>1, <1>2, Steps, StageType, EditType, DecisionType, SettleType

(* The rows of the deal, its snapshots and the requests keep their types,  *)
(* and no decision outlives its snapshot.                                  *)
THEOREM TypeCorrect == Spec => []TypeOK
BY InitTypeOK, NextType, PTL DEF Spec

-----------------------------------------------------------------------------
(* The money *)

(* The three things a change of stage can do that does not slip.           *)
LEMMA StageOutcome ==
  ASSUME TypeOK, MoneyInv, NEW c \in Requests, WriteStage(c), "stage" \notin slips'
  PROVE  \/ NotWonYet /\ NotWonYet' /\ deal'.commission = deal.commission
         \/ /\ NotWonYet /\ IsWon' /\ deal'.gross # 0 /\ snaps'[1].amount = deal'.gross
            /\ deal'.commission # "approved"
            /\ \A l \in Lines : snaps'[1].lines[l] # "reversed"
         \/ /\ IsWon /\ WasWon' /\ snaps'[1].amount = snaps[1].amount
            /\ snaps'[2].amount = -snaps[1].amount /\ deal'.commission = "reversed"
<1> DEFINE to == req[c].to
           read == req[c].snapshot
<1>1. /\ read = deal.snapshot /\ (deal.snapshot # 0 => to \in StageMoves[deal.stage])
      /\ "stage" \notin slips
  BY DEF WriteStage, Slip, StageSlips
<1>2. /\ deal \in DealRow /\ snaps \in Seq(Snapshot) /\ deal.stage \in Stages /\ deal.snapshot \in Nat
      /\ to \in Stages
  BY DEF TypeOK, DealRow, WriteStage, Request, Idle
<1>3. NotWonYet \/ IsWon \/ WasWon
  BY <1>1 DEF MoneyInv
<1> HIDE DEF to, read
<1>4. ~WasWon /\ (IsWon => to = "cancelled")
  BY <1>1 DEF WasWon, IsWon, StageMoves
<1>5. CASE to = "won" /\ Win
  <2>1. NotWonYet /\ Len(snaps) = 0
    BY <1>3, <1>4, <1>5 DEF NotWonYet
  <2>2. CASE deal' = deal /\ snaps' = snaps
    BY <2>1, <2>2 DEF NotWonYet
  <2>3. CASE ~(deal' = deal /\ snaps' = snaps)
    <3>1. /\ deal.gross # 0 /\ Len(snaps') = 1 /\ snaps'[1].kind = "final" /\ snaps'[1].reverses = 0
          /\ snaps'[1].amount = deal.gross /\ deal'.stage = "won" /\ deal'.status = "won"
          /\ deal'.snapshot = 1 /\ deal'.gross = deal.gross
          /\ deal'.commission \in {"calculated", "pending_approval"}
          /\ \A l \in Lines : snaps'[1].lines[l] # "reversed"
      BY <1>5, <2>1, <2>3, Winning
    <3>2. QED
      BY <2>1, <3>1 DEF IsWon
  <2>4. QED
    BY <2>2, <2>3
<1>6. CASE to \in {"cancelled", "lost"} /\ EndDeal(to, read)
  <2> DEFINE ended == [deal EXCEPT !.stage = to, !.status = to]
  <2>1. /\ ended \in DealRow /\ ended.stage = to /\ ended.status = to
        /\ ended.snapshot = deal.snapshot /\ ended.commission = deal.commission
    BY <1>2, <1>6 DEF DealRow, Stages
  <2>2. IF deal.snapshot # 0 /\ Finals # {}
          THEN \E i \in Finals : Reverse(i, ended)
          ELSE deal' = ended /\ UNCHANGED snaps
    BY <1>1, <1>6 DEF EndDeal
  <2> HIDE DEF ended
  <2>3. CASE NotWonYet
    <3>1. deal' = ended /\ snaps' = snaps
      BY <2>2, <2>3 DEF NotWonYet
    <3>2. QED
      BY <1>6, <2>1, <2>3, <3>1 DEF NotWonYet
  <2>4. CASE IsWon
    <3>1. Len(snaps) = 1 /\ 1 \in Finals /\ deal.snapshot = 1 /\ \A i \in Finals : i = 1
      BY <1>2, <2>4 DEF IsWon, Finals
    <3>2. Reverse(1, ended)
      BY <2>2, <3>1
    <3>3. /\ Len(snaps') = 2 /\ snaps'[2].kind = "reversal" /\ snaps'[2].reverses = 1
          /\ snaps'[1].kind = snaps[1].kind /\ snaps'[1].reverses = snaps[1].reverses
          /\ snaps'[1].amount = snaps[1].amount /\ snaps'[2].amount = -snaps[1].amount
          /\ deal' = [ended EXCEPT !.commission = "reversed"]
      BY <2>1, <3>1, <3>2, Reversal
    <3>4. /\ deal'.stage = to /\ deal'.status = to /\ deal'.snapshot = 1
          /\ deal'.commission = "reversed"
      BY <2>1, <3>1, <3>3 DEF DealRow
    <3>5. WasWon'
      BY <1>4, <2>4, <3>3, <3>4 DEF WasWon, IsWon
    <3>6. QED
      BY <2>4, <3>3, <3>4, <3>5
  <2>5. QED
    BY <1>3, <1>4, <2>3, <2>4
<1>7. CASE /\ to \notin {"won", "cancelled", "lost"}
           /\ deal' = [deal EXCEPT !.stage = to] /\ UNCHANGED snaps
  <2>1. NotWonYet
    BY <1>3, <1>4, <1>7
  <2>2. /\ deal'.stage = to /\ deal'.status = deal.status /\ deal'.snapshot = deal.snapshot
        /\ deal'.commission = deal.commission /\ snaps' = snaps
    BY <1>2, <1>7 DEF DealRow
  <2>3. QED
    BY <1>7, <2>1, <2>2 DEF NotWonYet
<1>8. QED
  BY <1>5, <1>6, <1>7 DEF WriteStage, to, read

(* The three kinds of deal exclude each other.                             *)
LEMMA OneKind ==
  /\ IsWon => ~NotWonYet /\ ~WasWon
  /\ WasWon => ~NotWonYet
BY DEF IsWon, NotWonYet, WasWon

LEMMA StageMoney ==
  ASSUME TypeOK, MoneyInv, NEW c \in Requests, WriteStage(c)
  PROVE  MoneyInv'
<1>1. CASE "stage" \in slips'
  BY <1>1 DEF MoneyInv, Kept
<1>2. CASE "stage" \notin slips'
  <2>1. (NotWonYet' \/ WasWon') => ~IsWon'
    BY DEF IsWon, NotWonYet, WasWon
  <2>2. QED
    BY <1>2, <2>1, StageOutcome DEF MoneyInv
<1>3. QED
  BY <1>1, <1>2

(* No other request changes which of the three a deal is; and an edit does *)
(* not change the amount of a won deal, unless it slips.                   *)
LEMMA MoneyKept ==
  ASSUME TypeOK, snaps' \in Seq(Snapshot), Len(snaps') = Len(snaps),
         \A k \in 1..Len(snaps) : /\ snaps'[k].kind = snaps[k].kind
                                  /\ snaps'[k].reverses = snaps[k].reverses
                                  /\ snaps'[k].amount = snaps[k].amount,
         deal'.stage = deal.stage, deal'.status = deal.status, deal'.snapshot = deal.snapshot
  PROVE  (NotWonYet' <=> NotWonYet) /\ (IsWon' <=> IsWon) /\ (WasWon' <=> WasWon)
<1>1. snaps = <<>> <=> snaps' = <<>>
  BY EmptySeq DEF TypeOK
<1>2. QED
  BY <1>1 DEF NotWonYet, IsWon, WasWon

LEMMA EditMoney ==
  ASSUME TypeOK, NEW c \in Requests, WriteEdit(c), Kept'
  PROVE  Kept /\ (IsWon => deal' = deal)
<1>1. slips \subseteq slips' /\ ~(Accepted(req[c]) /\ ~Editable)
  BY DEF WriteEdit, Slip, Kept
<1>2. Kept
  BY <1>1 DEF Kept
<1>3. IsWon => ~Editable
  BY DEF IsWon, Editable
<1>4. QED
  BY <1>1, <1>2, <1>3 DEF WriteEdit

LEMMA NextMoney ==
  ASSUME TypeOK, MoneyInv, [Next]_vars
  PROVE  MoneyInv'
<1>1. CASE UNCHANGED <<deal, snaps, slips>>
  BY <1>1 DEF MoneyInv, NotWonYet, IsWon, WasWon, Kept
<1>2. ASSUME NEW c \in Requests, WriteEdit(c) PROVE MoneyInv'
  <2>1. (NotWonYet' <=> NotWonYet) /\ (IsWon' <=> IsWon) /\ (WasWon' <=> WasWon)
    BY <1>2, EditType, MoneyKept DEF TypeOK
  <2>2. "stage" \notin slips' => "stage" \notin slips
    BY <1>2 DEF WriteEdit, Slip
  <2>3. snaps' = snaps
    BY <1>2, EditType
  <2>4. Kept' => Kept /\ (IsWon => deal' = deal)
    BY <1>2, EditMoney
  <2>5. QED
    BY <2>1, <2>2, <2>3, <2>4 DEF MoneyInv
<1>3. ASSUME NEW c \in Requests, WriteDecision(c) PROVE MoneyInv'
  <2>1. /\ deal' = deal /\ snaps' \in Seq(Snapshot) /\ Len(snaps') = Len(snaps)
        /\ \A k \in 1..Len(snaps) : /\ snaps'[k].kind = snaps[k].kind
                                    /\ snaps'[k].reverses = snaps[k].reverses
                                    /\ snaps'[k].amount = snaps[k].amount
    BY <1>3, DecisionType DEF TypeOK, WriteDecision
  <2>2. (NotWonYet' <=> NotWonYet) /\ (IsWon' <=> IsWon) /\ (WasWon' <=> WasWon)
    BY <2>1, MoneyKept
  <2>3. ("stage" \notin slips' => "stage" \notin slips) /\ (Kept' => Kept)
    BY <1>3 DEF WriteDecision, Slip, Kept
  <2>4. IsWon => snaps'[1].amount = snaps[1].amount
    BY <2>1 DEF IsWon
  <2>5. QED
    BY <2>1, <2>2, <2>3, <2>4 DEF MoneyInv
<1>4. ASSUME NEW c \in Requests, ApproveDeal(c) PROVE MoneyInv'
  <2>1. /\ snaps' = snaps /\ deal'.stage = deal.stage /\ deal'.status = deal.status
        /\ deal'.snapshot = deal.snapshot /\ deal'.gross = deal.gross
    BY <1>4, SettleType
  <2>2. (NotWonYet' <=> NotWonYet) /\ (IsWon' <=> IsWon) /\ (WasWon' <=> WasWon)
    BY <2>1, MoneyKept DEF TypeOK
  <2>3. ("stage" \notin slips' => "stage" \notin slips) /\ (Kept' => Kept)
    BY <1>4 DEF ApproveDeal, Slip, Kept
  <2>4. QED
    BY <2>1, <2>2, <2>3 DEF MoneyInv
<1>5. QED
  BY <1>1, <1>2, <1>3, <1>4, Steps, StageMoney DEF vars, Start, SeePending

(* However requests overlap: until a change of stage slips the deal is won *)
(* at most once and reversed at most once (changeStage, reverseCommission),*)
(* and until an edit does a won deal has the amount that was split.        *)
THEOREM MoneyInOrder == Spec => []MoneyInv
<1>1. Init => MoneyInv
  BY DEF Init, MoneyInv, NotWonYet, IsWon
<1>2. TypeOK /\ MoneyInv /\ [Next]_vars => MoneyInv'
  BY NextMoney
<1>3. QED
  BY <1>1, <1>2, TypeCorrect, PTL DEF Spec

(* Then no money is left standing that a deal no longer earns: until a     *)
(* change of stage slips, every final snapshot of a deal that is not won is*)
(* reversed, exactly once (changeStage with finalizeCommission and         *)
(* reverseCommission).                                                     *)
THEOREM NoMoneyStale == Spec => []NoStaleMoney
<1>1. MoneyInv => NoStaleMoney
  BY DEF MoneyInv, NotWonYet, IsWon, WasWon, NoStaleMoney, Outstanding, Finals, ReversedOnce
<1>2. QED
  BY <1>1, MoneyInOrder, PTL

(* And the snapshot of a won deal is the one it points to, with the amount *)
(* the deal shows unless an edit slipped (updateDeal, changeStage).        *)
THEOREM SnapshotIsTheDeals == Spec => []SnapshotMatchesDeal
<1>1. MoneyInv => SnapshotMatchesDeal
  <2> SUFFICES ASSUME MoneyInv, deal.stage = "won", "stage" \notin slips
               PROVE  /\ Outstanding = {deal.snapshot}
                      /\ slips \cap {"stage", "edit"} = {} => snaps[deal.snapshot].amount = deal.gross
    BY DEF SnapshotMatchesDeal
  <2>1. IsWon
    BY DEF MoneyInv, NotWonYet, WasWon
  <2>2. Outstanding = {deal.snapshot}
    BY <2>1 DEF IsWon, Outstanding, Finals
  <2>3. QED
    BY <2>1, <2>2 DEF MoneyInv, Kept, IsWon
<1>2. QED
  BY <1>1, MoneyInOrder, PTL

-----------------------------------------------------------------------------
(* Decisions on the lines *)

(* A line that was decided or reversed never waits again.                  *)
LEMMA NonePendingStays ==
  ASSUME TypeOK, [Next]_vars
  PROVE  \A i \in 1..Len(snaps) : NonePending(i) => NonePending(i)'
<1>1. CASE snaps' = snaps
  BY <1>1 DEF NonePending
<1>2. ASSUME NEW c \in Requests, WriteStage(c), NEW i \in 1..Len(snaps), NonePending(i)
      PROVE  NonePending(i)'
  <2>1. snaps'[i] = snaps[i] \/ snaps'[i].lines = AllReversed
    BY <1>2, StageRows
  <2>2. QED
    BY <1>2, <2>1 DEF NonePending, AllReversed
<1>3. ASSUME NEW c \in Requests, WriteDecision(c), NEW i \in 1..Len(snaps), NonePending(i)
      PROVE  NonePending(i)'
  BY <1>3, DecisionType DEF NonePending
<1>4. QED
  BY <1>1, <1>2, <1>3, Steps DEF vars, Start, WriteEdit, SeePending, ApproveDeal

LEMMA NextNoneToApprove ==
  ASSUME TypeOK, NoneToApprove, [Next]_vars
  PROVE  NoneToApprove'
<1>1. \A d \in Requests : req[d].op = "approve" => req[d].snap \in 1..Len(snaps)
  BY DEF TypeOK
<1>2. ASSUME NEW d \in Requests, req'[d].op = "approve"
      PROVE  \/ req[d].op = "approve" /\ req'[d] = req[d]
             \/ /\ req[d].op = "settle" /\ NonePending(req[d].snap) /\ req'[d].snap = req[d].snap
                /\ snaps' = snaps
  <2>1. CASE UNCHANGED vars
    BY <1>2, <2>1 DEF vars
  <2>2. ASSUME NEW c \in Requests, NEW r \in Request, r.op \in {"stage", "edit", "decide"}, Start(c, r)
        PROVE  req'[d] = req[d]
    BY <1>2, <2>2 DEF Start, TypeOK
  <2>3. ASSUME NEW c \in Requests, WriteStage(c) \/ WriteEdit(c) \/ ApproveDeal(c)
        PROVE  req'[d] = req[d]
    BY <1>2, <2>3 DEF WriteStage, WriteEdit, ApproveDeal, Finish, Idle, TypeOK
  <2>4. ASSUME NEW c \in Requests, WriteDecision(c) PROVE req'[d] = req[d]
    BY <1>2, <2>4 DEF WriteDecision, TypeOK
  <2>5. ASSUME NEW c \in Requests, SeePending(c), d = c
        PROVE  /\ req[d].op = "settle" /\ NonePending(req[d].snap) /\ req'[d].snap = req[d].snap
               /\ snaps' = snaps
    BY <1>2, <2>5 DEF SeePending, Finish, Idle, TypeOK
  <2>6. ASSUME NEW c \in Requests, SeePending(c), d # c PROVE req'[d] = req[d]
    BY <2>6 DEF SeePending, Finish, TypeOK
  <2>7. QED
    BY <1>2, <2>1, <2>2, <2>3, <2>4, <2>5, <2>6, Steps
<1>3. ASSUME NEW d \in Requests, req'[d].op = "approve" PROVE NonePending(req[d].snap)'
                                                              /\ req'[d].snap = req[d].snap
  <2>1. CASE req[d].op = "approve" /\ req'[d] = req[d]
    <3>1. NonePending(req[d].snap) /\ req[d].snap \in 1..Len(snaps)
      BY <1>1, <2>1 DEF NoneToApprove
    <3> DEFINE i == req[d].snap
    <3>2. \E k \in 1..Len(snaps) : k = i /\ NonePending(k)
      BY <3>1
    <3>3. \A l \in Lines : snaps'[req[d].snap].lines[l] # "pending_approval"
      <4> HIDE DEF i
      <4>1. PICK k \in 1..Len(snaps) : k = i /\ NonePending(k)
        BY <3>2
      <4>2. NonePending(k)'
        BY <4>1, NonePendingStays
      <4>3. QED
        BY <4>1, <4>2 DEF NonePending, i
    <3>4. QED
      BY <2>1, <3>3 DEF NonePending
  <2>2. CASE NonePending(req[d].snap) /\ req'[d].snap = req[d].snap /\ snaps' = snaps
    BY <2>2 DEF NonePending
  <2>3. QED
    BY <1>2, <1>3, <2>1, <2>2
<1>4. QED
  BY <1>3 DEF NoneToApprove, NonePending

(* A request that changes neither what the deal waits for nor who is about *)
(* to settle it.                                                           *)
LEMMA WaitingKept ==
  ASSUME TypeOK, WaitsForSomething, NEW c \in Requests, req[c].op \notin {"settle", "approve"},
         \A d \in Requests : d # c => req'[d] = req[d],
         deal'.commission = deal.commission, deal'.snapshot = deal.snapshot, snaps' = snaps
  PROVE  WaitsForSomething'
<1>1. ASSUME NEW d \in Requests, req[d].op = "approve" \/ (req[d].op = "settle" /\ req[d].snap = deal.snapshot)
      PROVE  req'[d].op = "approve" \/ (req'[d].op = "settle" /\ req'[d].snap = deal'.snapshot)
  BY <1>1
<1>2. QED
  BY <1>1 DEF WaitsForSomething, NonePending

LEMMA NextWaits ==
  ASSUME TypeOK, WaitsForSomething, [Next]_vars
  PROVE  WaitsForSomething'
<1>1. CASE UNCHANGED vars
  BY <1>1 DEF vars, WaitsForSomething, NonePending
<1>2. ASSUME NEW c \in Requests, NEW r \in Request, Start(c, r) PROVE WaitsForSomething'
  BY <1>2, WaitingKept DEF Start, Idle, TypeOK
<1>3. ASSUME NEW c \in Requests, WriteStage(c) PROVE WaitsForSomething'
  <2>1. req[c].op = "stage" /\ \A d \in Requests : d # c => req'[d] = req[d]
    BY <1>3 DEF WriteStage, Finish, TypeOK
  <2>2. CASE snaps' = snaps /\ deal'.commission = deal.commission /\ deal'.snapshot = deal.snapshot
    BY <2>1, <2>2, WaitingKept
  <2>3. CASE /\ Len(snaps') = Len(snaps) + 1 /\ deal'.snapshot = Len(snaps) + 1
             /\ deal'.commission = "pending_approval" =>
                  \E l \in Lines : snaps'[Len(snaps) + 1].lines[l] = "pending_approval"
    <3>1. Len(snaps) \in Nat /\ DOMAIN snaps' = 1..Len(snaps')
      BY <1>3, StageRows DEF TypeOK
    <3>2. QED
      BY <2>3, <3>1 DEF WaitsForSomething, NonePending
  <2>4. CASE deal'.commission = "reversed"
    BY <2>4 DEF WaitsForSomething
  <2>5. QED
    BY <1>3, <2>2, <2>3, <2>4, StageRows
<1>4. ASSUME NEW c \in Requests, WriteEdit(c) PROVE WaitsForSomething'
  <2>1. req[c].op = "edit" /\ \A d \in Requests : d # c => req'[d] = req[d]
    BY <1>4 DEF WriteEdit, Finish, TypeOK
  <2>2. QED
    BY <1>4, <2>1, EditType, WaitingKept
<1>5. ASSUME NEW c \in Requests, WriteDecision(c) PROVE WaitsForSomething'
  <2>1. /\ deal' = deal /\ req[c].op = "decide" /\ req'[c].op = "settle" /\ req'[c].snap = req[c].snap
        /\ \A d \in Requests : d # c => req'[d] = req[d]
    BY <1>5 DEF WriteDecision, TypeOK
  <2>2. DOMAIN snaps' = DOMAIN snaps /\ DOMAIN snaps = 1..Len(snaps)
    BY <1>5, DecisionType DEF TypeOK
  <2>3. CASE deal.snapshot = req[c].snap
    BY <2>1, <2>2, <2>3 DEF WaitsForSomething
  <2>4. CASE deal.snapshot # req[c].snap /\ deal.commission = "pending_approval"
    <3>1. deal.snapshot \in 1..Len(snaps)
      BY <2>2, <2>4 DEF WaitsForSomething
    <3>2. snaps'[deal.snapshot] = snaps[deal.snapshot]
      BY <1>5, <2>4, <3>1, DecisionType
    <3>3. ASSUME NEW d \in Requests,
                 req[d].op = "approve" \/ (req[d].op = "settle" /\ req[d].snap = deal.snapshot)
          PROVE  req'[d] = req[d]
      BY <2>1, <3>3
    <3>4. QED
      BY <2>1, <2>2, <3>2, <3>3 DEF WaitsForSomething, NonePending
  <2>5. QED
    BY <2>1, <2>3, <2>4 DEF WaitsForSomething
<1>6. ASSUME NEW c \in Requests, SeePending(c) PROVE WaitsForSomething'
  <2>1. /\ deal' = deal /\ snaps' = snaps /\ req[c].op = "settle"
        /\ NonePending(req[c].snap) => req'[c].op = "approve"
        /\ \A d \in Requests : d # c => req'[d] = req[d]
    BY <1>6 DEF SeePending, Finish, TypeOK
  <2>2. ASSUME NEW d \in Requests, NonePending(deal.snapshot),
               req[d].op = "approve" \/ (req[d].op = "settle" /\ req[d].snap = deal.snapshot)
        PROVE  req'[d].op = "approve" \/ (req'[d].op = "settle" /\ req'[d].snap = deal.snapshot)
    BY <2>1, <2>2
  <2>3. QED
    BY <2>1, <2>2 DEF WaitsForSomething, NonePending
<1>7. ASSUME NEW c \in Requests, ApproveDeal(c) PROVE WaitsForSomething'
  <2>1. deal'.commission = "approved"
    BY <1>7 DEF ApproveDeal, TypeOK, DealRow
  <2>2. QED
    BY <2>1 DEF WaitsForSomething
<1>8. QED
  BY <1>1, <1>2, <1>3, <1>4, <1>5, <1>6, <1>7, Steps

LEMMA NextLinesStand ==
  ASSUME TypeOK, MoneyInv, NoneToApprove, LinesStand, [Next]_vars
  PROVE  LinesStand'
<1> SUFFICES ASSUME slips' \cap {"stage", "decide"} = {}
             PROVE  /\ IsWon' => \A l \in Lines : snaps'[1].lines[l] # "reversed"
                    /\ deal'.commission = "approved" => IsWon' /\ NonePending(1)'
  BY DEF LinesStand
<1>1. slips \subseteq slips'
  BY DEF Next, vars, AskStage, AskEdit, AskDecision, Start, WriteStage, WriteEdit, WriteDecision,
         SeePending, ApproveDeal, Slip
<1>2. /\ "stage" \notin slips /\ "stage" \notin slips' /\ "decide" \notin slips'
      /\ IsWon => \A l \in Lines : snaps[1].lines[l] # "reversed"
      /\ deal.commission = "approved" => IsWon /\ NonePending(1)
  BY <1>1 DEF LinesStand
<1>3. CASE /\ snaps' = snaps /\ deal'.commission = deal.commission /\ deal'.stage = deal.stage
           /\ deal'.status = deal.status /\ deal'.snapshot = deal.snapshot
  <2>1. IsWon' <=> IsWon
    BY <1>3 DEF IsWon
  <2>2. NonePending(1)' <=> NonePending(1)
    BY <1>3 DEF NonePending
  <2>3. QED
    BY <1>2, <1>3, <2>1, <2>2
<1>4. ASSUME NEW c \in Requests, WriteStage(c)
      PROVE  /\ IsWon' => \A l \in Lines : snaps'[1].lines[l] # "reversed"
             /\ deal'.commission # "approved"
  <2>1. (NotWonYet' \/ WasWon') => ~IsWon'
    BY DEF IsWon, NotWonYet, WasWon
  <2>2. QED
    BY <1>2, <1>4, <2>1, StageOutcome, OneKind
<1>5. ASSUME NEW c \in Requests, WriteDecision(c)
      PROVE  /\ IsWon' => \A l \in Lines : snaps'[1].lines[l] # "reversed"
             /\ deal'.commission = "approved" => IsWon' /\ NonePending(1)'
  <2>1. /\ deal' = deal /\ snaps' \in Seq(Snapshot) /\ Len(snaps') = Len(snaps)
        /\ \A k \in 1..Len(snaps) : /\ snaps'[k].kind = snaps[k].kind
                                    /\ snaps'[k].reverses = snaps[k].reverses
                                    /\ snaps'[k].amount = snaps[k].amount
                                    /\ \A l \in Lines : snaps'[k].lines[l] = snaps[k].lines[l]
                                         \/ snaps'[k].lines[l] \in {"approved", "rejected"}
    BY <1>5, DecisionType DEF TypeOK, WriteDecision
  <2>2. IsWon' <=> IsWon
    BY <2>1, MoneyKept
  <2>3. IsWon => 1 \in 1..Len(snaps)
    BY DEF IsWon
  <2>4. IsWon => \A l \in Lines : snaps'[1].lines[l] # "reversed"
    BY <1>2, <2>1, <2>3
  <2>5. IsWon /\ NonePending(1) => NonePending(1)'
    BY <2>1, <2>3 DEF NonePending
  <2>6. QED
    BY <1>2, <2>1, <2>2, <2>4, <2>5
<1>6. ASSUME NEW c \in Requests, ApproveDeal(c)
      PROVE  IsWon' /\ NonePending(1)' /\ \A l \in Lines : snaps'[1].lines[l] # "reversed"
  <2>1. Stands(req[c].snap) /\ req[c].op = "approve"
    BY <1>2, <1>6 DEF ApproveDeal, Slip
  <2>2. IsWon /\ req[c].snap = 1
    BY <1>2, <2>1 DEF MoneyInv, NotWonYet, IsWon, WasWon, Stands
  <2>3. NonePending(1)
    BY <2>1, <2>2 DEF NoneToApprove
  <2>4. /\ snaps' = snaps /\ deal'.stage = deal.stage /\ deal'.status = deal.status
        /\ deal'.snapshot = deal.snapshot
    BY <1>6, SettleType
  <2>5. IsWon' /\ NonePending(1)'
    BY <2>2, <2>3, <2>4 DEF IsWon, NonePending
  <2>6. QED
    BY <1>2, <2>2, <2>4, <2>5
<1>7. QED
  BY <1>3, <1>4, <1>5, <1>6, Steps, EditType DEF vars, Start, SeePending

LEMMA DecisionsInOrder == Spec => []DecisionInv
<1>1. Init => DecisionInv
  BY DEF Init, DecisionInv, WaitsForSomething, NoneToApprove, LinesStand, IsWon, Idle
<1>2. TypeOK /\ MoneyInv /\ DecisionInv /\ [Next]_vars => DecisionInv'
  BY NextNoneToApprove, NextWaits, NextLinesStand DEF DecisionInv
<1>3. QED
  BY <1>1, <1>2, TypeCorrect, MoneyInOrder, PTL DEF Spec

(* Whatever is going on, whatever order decisions are made, written and    *)
(* settled in, and however many overlap: a deal does not wait when none of *)
(* its lines does (approveCommissionLine).                                 *)
THEOREM NothingWaits == Spec => []NothingLeftPending
<1>1. DecisionInv => NothingLeftPending
  BY DEF DecisionInv, WaitsForSomething, NothingLeftPending
<1>2. QED
  BY <1>1, DecisionsInOrder, PTL

(* And an approved commission is of a won deal and of a snapshot whose     *)
(* lines are all decided and stand, unless a decision slipped, or a change *)
(* of stage (approveCommissionLine, reverseCommission).                    *)
THEOREM ApprovalStands == Spec => []ApprovedStands
<1>1. TypeOK /\ DecisionInv => ApprovedStands
  <2> SUFFICES ASSUME TypeOK, DecisionInv, deal.commission = "approved",
                      slips \cap {"stage", "decide"} = {}
               PROVE  /\ deal.stage = "won"
                      /\ \A l \in Lines :
                           snaps[deal.snapshot].lines[l] \in {"calculated", "approved", "rejected"}
    BY DEF ApprovedStands
  <2>1. IsWon /\ NonePending(1) /\ \A l \in Lines : snaps[1].lines[l] # "reversed"
    BY DEF DecisionInv, LinesStand
  <2>2. deal.snapshot = 1 /\ snaps \in Seq(Snapshot) /\ Len(snaps) = 1 /\ 1 \in 1..Len(snaps)
    BY <2>1 DEF IsWon, TypeOK
  <2>3. snaps[1] \in Snapshot
    BY <2>2, ElementOfSeq
  <2>4. \A l \in Lines : snaps[1].lines[l] \in LineStatus
    BY <2>3 DEF Snapshot
  <2>5. QED
    BY <2>1, <2>2, <2>4 DEF IsWon, NonePending, LineStatus
<1>2. QED
  BY <1>1, TypeCorrect, DecisionsInOrder, PTL

-----------------------------------------------------------------------------
(* A deal implements Ledger, until a change of stage or an edit slips *)

LEMMA BookOfSnapshots ==
  ASSUME TypeOK
  PROVE  Book \in Seq(Int) /\ Len(Book) = Len(snaps) /\ \A i \in 1..Len(snaps) : Book[i] = snaps[i].amount
<1>1. Len(snaps) \in Nat /\ DOMAIN snaps = 1..Len(snaps)
  BY LenProperties DEF TypeOK
<1>2. \A i \in 1..Len(snaps) : snaps[i].amount \in Int
  <2>1. \A i \in 1..Len(snaps) : snaps[i] \in Snapshot
    BY ElementOfSeq DEF TypeOK
  <2>2. QED
    BY <2>1 DEF Snapshot
<1>3. Book \in [1..Len(snaps) -> Int]
  BY <1>1, <1>2 DEF Book
<1>4. Book \in Seq(Int)
  BY <1>1, <1>3, SeqDef
<1>5. Len(Book) \in Nat /\ DOMAIN Book = 1..Len(Book)
  BY <1>4, LenProperties
<1>6. Len(Book) = Len(snaps)
  BY <1>1, <1>3, <1>5
<1>7. QED
  BY <1>1, <1>4, <1>6 DEF Book

LEMMA BookAfter ==
  ASSUME TypeOK'
  PROVE  Book' \in Seq(Int) /\ Len(Book') = Len(snaps') /\ \A i \in 1..Len(snaps') : Book'[i] = snaps'[i].amount
<1>1. (TypeOK => Book \in Seq(Int) /\ Len(Book) = Len(snaps) /\ \A i \in 1..Len(snaps) : Book[i] = snaps[i].amount)'
  BY BookOfSnapshots, PTL
<1>2. QED
  BY <1>1

(* The entries stay when the snapshots keep their amounts.                 *)
LEMMA BookKept ==
  ASSUME TypeOK, TypeOK', Len(snaps') = Len(snaps),
         \A i \in 1..Len(snaps) : snaps'[i].amount = snaps[i].amount
  PROVE  Book' = Book
<1>1. Book \in Seq(Int) /\ Len(Book) = Len(snaps) /\ \A i \in 1..Len(snaps) : Book[i] = snaps[i].amount
  BY BookOfSnapshots
<1>2. Book' \in Seq(Int) /\ Len(Book') = Len(snaps') /\ \A i \in 1..Len(snaps') : Book'[i] = snaps'[i].amount
  BY BookAfter
<1>3. QED
  BY <1>1, <1>2, SeqEqual

LEMMA WinningEarns ==
  ASSUME TypeOK, TypeOK', NotWonYet, IsWon', snaps'[1].amount = deal'.gross, deal'.gross # 0
  PROVE  Money!Next
<1>1. Book = <<>>
  BY BookOfSnapshots, EmptySeq DEF NotWonYet
<1>2. Book' \in Seq(Int) /\ Len(Book') = 1 /\ Book'[1] = deal'.gross
  BY BookAfter DEF IsWon
<1>3. Book' = <<deal'.gross>>
  BY <1>2, SeqEqual
<1>4. deal'.gross \in Amounts \ {0} /\ Earned' = deal'.gross
  BY DEF TypeOK, DealRow, IsWon, Earned
<1>5. Money!Earn(deal'.gross)
  BY <1>1, <1>3, <1>4 DEF Money!Earn
<1>6. QED
  BY <1>4, <1>5 DEF Money!Next

LEMMA AppendedKeeps ==
  ASSUME NEW s \in Seq(Int), NEW e \in Int
  PROVE  \A i \in 1..Len(s) : Append(s, e)[i] = s[i]
BY AppendProperties

LEMMA AppendSecond ==
  ASSUME NEW s \in Seq(Int), NEW t \in Seq(Int), NEW e \in Int,
         Len(s) = 1, Len(t) = 2, t[1] = s[1], t[2] = e
  PROVE  t = Append(s, e)
<1> DEFINE longer == Append(s, e)
<1>1. longer \in Seq(Int) /\ Len(longer) = Len(s) + 1
  BY AppendProperties
<1>2. \A i \in 1..Len(s) : longer[i] = s[i]
  BY AppendedKeeps
<1>3. longer[Len(s) + 1] = e
  BY AppendProperties
<1> HIDE DEF longer
<1>4. \A i \in 1..2 : t[i] = longer[i]
  BY <1>1, <1>2, <1>3
<1>5. t = longer
  BY <1>1, <1>4, SeqEqual
<1>6. QED
  BY <1>5 DEF longer

LEMMA CancellingLoses ==
  ASSUME TypeOK, TypeOK', MoneyInv, Kept, IsWon, WasWon',
         snaps'[1].amount = snaps[1].amount, snaps'[2].amount = -snaps[1].amount
  PROVE  Money!Next
<1>1. /\ Earned = deal.gross /\ Earned # 0 /\ Earned \in Int /\ Earned' = 0
      /\ snaps[1].amount = deal.gross
  BY AmountsInt DEF TypeOK, DealRow, IsWon, WasWon, MoneyInv, Earned
<1>2. Book \in Seq(Int) /\ Len(Book) = 1 /\ Book[1] = Earned
  BY <1>1, BookOfSnapshots DEF IsWon
<1>3. Book' \in Seq(Int) /\ Len(Book') = 2 /\ Book'[1] = Earned /\ Book'[2] = -Earned
  BY <1>1, BookAfter DEF IsWon, WasWon
<1>4. Book' = Append(Book, -Earned)
  <2>1. -Earned \in Int /\ Book'[1] = Book[1]
    BY <1>1, <1>2, <1>3
  <2>2. QED
    BY <1>2, <1>3, <2>1, AppendSecond
<1>5. Money!Lose
  BY <1>1, <1>4 DEF Money!Lose
<1>6. QED
  BY <1>5 DEF Money!Next

LEMMA StageLedger ==
  ASSUME TypeOK, TypeOK', MoneyInv, NEW c \in Requests, WriteStage(c), Kept'
  PROVE  [Money!Next]_(<<Earned, Book>>)
<1>1. Kept /\ "stage" \notin slips'
  BY DEF WriteStage, Slip, Kept
<1>2. CASE NotWonYet /\ NotWonYet'
  <2>1. snaps = <<>> /\ snaps' = <<>> /\ Earned = 0 /\ Earned' = 0
    BY <1>2 DEF NotWonYet, Earned
  <2>2. Book' = Book
    BY <2>1 DEF Book
  <2>3. QED
    BY <2>1, <2>2
<1>3. CASE NotWonYet /\ IsWon' /\ deal'.gross # 0 /\ snaps'[1].amount = deal'.gross
  BY <1>3, WinningEarns
<1>4. CASE /\ IsWon /\ WasWon' /\ snaps'[1].amount = snaps[1].amount
           /\ snaps'[2].amount = -snaps[1].amount
  BY <1>1, <1>4, CancellingLoses
<1>5. QED
  BY <1>1, <1>2, <1>3, <1>4, StageOutcome

(* Only an edit changes the amount, and no edit is of a won deal.          *)
LEMMA OtherLedger ==
  ASSUME TypeOK, TypeOK', Len(snaps') = Len(snaps),
         \A i \in 1..Len(snaps) : snaps'[i].amount = snaps[i].amount,
         deal'.stage = deal.stage, deal.stage = "won" => deal'.gross = deal.gross
  PROVE  UNCHANGED <<Earned, Book>>
BY BookKept DEF Earned

LEMMA LedgerStep ==
  ASSUME TypeOK, TypeOK', MoneyInv, [Next]_vars, Kept'
  PROVE  [Money!Next]_(<<Earned, Book>>)
<1>1. CASE UNCHANGED <<deal, snaps>>
  BY <1>1, OtherLedger
<1>2. ASSUME NEW c \in Requests, WriteEdit(c) PROVE UNCHANGED <<Earned, Book>>
  <2>1. Kept /\ (IsWon => deal' = deal) /\ snaps' = snaps /\ deal'.stage = deal.stage
    BY <1>2, EditMoney, EditType
  <2>2. deal.stage = "won" => IsWon
    BY <2>1 DEF Kept, MoneyInv, NotWonYet, WasWon
  <2>3. QED
    BY <2>1, <2>2, OtherLedger
<1>3. ASSUME NEW c \in Requests, WriteDecision(c) PROVE UNCHANGED <<Earned, Book>>
  <2>1. deal' = deal /\ Len(snaps') = Len(snaps)
        /\ \A i \in 1..Len(snaps) : snaps'[i].amount = snaps[i].amount
    BY <1>3, DecisionType DEF WriteDecision
  <2>2. QED
    BY <2>1, OtherLedger
<1>4. ASSUME NEW c \in Requests, ApproveDeal(c) PROVE UNCHANGED <<Earned, Book>>
  <2>1. snaps' = snaps /\ deal'.stage = deal.stage /\ deal'.gross = deal.gross
    BY <1>4, SettleType
  <2>2. QED
    BY <2>1, OtherLedger
<1>5. QED
  BY <1>1, <1>2, <1>3, <1>4, Steps, StageLedger DEF vars, Start, SeePending

(* However requests overlap, until a change of stage or an edit slips the  *)
(* amount is entered in the step in which the deal is won and its negative *)
(* in the step in which it is cancelled (changeStage), and nothing else a  *)
(* request does, an edit of the amount included, changes what the deal     *)
(* earns or what was entered.                                              *)
THEOREM DealsImplementLedger == Spec => ImplementsLedger
<1>1. Init => Money!Init
  BY DEF Init, Money!Init, Earned, Book
<1>2. TypeOK /\ TypeOK' /\ MoneyInv /\ [Next]_vars => [Kept' => Money!Next]_(<<Earned, Book>>)
  BY LedgerStep
<1>3. QED
  BY <1>1, <1>2, TypeCorrect, MoneyInOrder, PTL DEF Spec, ImplementsLedger

=============================================================================
