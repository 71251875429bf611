------------------------------- MODULE Deals -------------------------------
(***************************************************************************)
(* One deal and the commission taken from it (modules/deals): its stage,   *)
(* the edits of its amount, the final snapshot written when it is won, the *)
(* reversal written when it is cancelled, and the approval of lines.       *)
(*                                                                         *)
(* A request first reads and checks, outside any transaction, and writes   *)
(* later; other requests come in between.  The write of a stage or of an   *)
(* edit is one transaction that begins by locking the row of the deal, so  *)
(* it is one step.  The decision on a line is three statements of its own. *)
(***************************************************************************)
EXTENDS Integers, Sequences

CONSTANTS
  Requests,    \* HTTP requests that may be under way together (bound)
  Amounts,     \* gross commissions a deal may be given, 0 for none
  Lines,       \* lines of the commission plan
  MaxSnaps,    \* snapshots of the deal (bound)
  MaxVersion   \* edits of the deal (bound)

ASSUME DealsAssumption ==
  /\ Amounts \subseteq Nat
  /\ MaxSnaps \in Nat /\ MaxVersion \in Nat

Stages == {"draft", "documentation", "approval", "signed", "won", "lost", "cancelled"}

(* dealStateMachine *)
StageMoves ==
  [draft         |-> {"documentation", "approval", "lost", "cancelled"},
   documentation |-> {"approval", "signed", "lost", "cancelled"},
   approval      |-> {"signed", "documentation", "lost", "cancelled"},
   signed        |-> {"won", "cancelled", "lost"},
   won           |-> {"cancelled"},
   lost          |-> {"draft"},
   cancelled     |-> {}]

CanMove(from, to) == from = to \/ to \in StageMoves[from]

VARIABLES
  deal,   \* the deals row
  snaps,  \* commission_snapshots with their commission_lines, oldest first
  req,    \* the requests under way, with what they have read
  slips   \* for the properties: the kinds of requests that were written
          \* though the deal was no longer one they are meant for

vars == <<deal, snaps, req, slips>>
Kinds == {"stage", "edit", "decide"}

CommissionStatus == {"pending", "pending_approval", "calculated", "approved", "reversed"}
LineStatus == {"pending_approval", "calculated", "approved", "rejected", "reversed"}
DealRow == [stage : Stages, status : {"open", "won", "lost", "cancelled"}, gross : Amounts,
            version : Nat, snapshot : Nat, commission : CommissionStatus]
Snapshot == [kind : {"final", "reversal"}, amount : Int, reverses : Nat,
             lines : [Lines -> LineStatus]]

NoVersion == 0
Idle == [op |-> "idle"]
Request ==
  {Idle}
    \cup [op : {"stage"}, to : Stages, snapshot : Nat]
    \cup [op : {"edit"}, gross : Amounts, version : Nat]
    \cup [op : {"decide"}, snap : Nat, line : Lines, decision : {"approved", "rejected"}]
    \cup [op : {"settle", "approve"}, snap : Nat]

Init ==
  /\ \E gross \in Amounts :
       deal = [stage |-> "draft", status |-> "open", gross |-> gross, version |-> 1,
               snapshot |-> 0, commission |-> "pending"]
  /\ snaps = <<>>
  /\ req = [c \in Requests |-> Idle]
  /\ slips = {}

-----------------------------------------------------------------------------
(* A request arrives; any others may be under way.                         *)

Start(c, r) ==
  /\ req[c] = Idle
  /\ req' = [req EXCEPT ![c] = r]
  /\ UNCHANGED <<deal, snaps, slips>>
Finish(c) == req' = [req EXCEPT ![c] = Idle]

(* changeStage reads the deal and checks the move.                         *)
AskStage(c, to) ==
  /\ CanMove(deal.stage, to)
  /\ to = "won" => deal.gross # 0
  /\ Start(c, [op |-> "stage", to |-> to, snapshot |-> deal.snapshot])

EditAnything == TRUE  \* mutant
(* A won deal with a snapshot is not edited.                               *)
Editable == ~(deal.status = "won" /\ deal.snapshot # 0)

(* updateDeal; the client may send the version it once saw, or none.       *)
AskEdit(c, gross, version) ==
  /\ Editable
  /\ version \in {NoVersion} \cup 1..deal.version
  /\ Start(c, [op |-> "edit", gross |-> gross, version |-> version])

AskDecision(c, snap, line, decision) ==
  /\ snaps[snap].lines[line] = "pending_approval"
  /\ Start(c, [op |-> "decide", snap |-> snap, line |-> line, decision |-> decision])

-----------------------------------------------------------------------------
(* The transaction of a stage change *)

(* finalizeCommission splits the amount the deal has now; which lines need *)
(* approval is for the plan to say.  Without an amount it throws and the   *)
(* transaction is rolled back.                                             *)
Win ==
  IF deal.gross = 0
    THEN UNCHANGED <<deal, snaps>>
    ELSE \E pending \in SUBSET Lines :
      /\ snaps' = Append(snaps,
           [kind |-> "final", amount |-> deal.gross, reverses |-> 0,
            lines |-> [l \in Lines |-> IF l \in pending THEN "pending_approval" ELSE "calculated"]])
      /\ deal' = [deal EXCEPT !.stage = "won", !.status = "won", !.snapshot = Len(snaps) + 1,
                    !.commission = IF pending = {} THEN "calculated" ELSE "pending_approval"]

Finals == {i \in DOMAIN snaps : snaps[i].kind = "final"}
IsLatest(i) == \A k \in Finals : k <= i
AllCancelled == [l \in Lines |-> "cancelled"]  \* mutant
AllReversed == [l \in Lines |-> "reversed"]

ReverseLinesOnly(i, ended) ==  \* mutant
  /\ snaps' = Append([snaps EXCEPT ![i].lines = AllReversed],
       [kind |-> "reversal", amount |-> -snaps[i].amount, reverses |-> i, lines |-> AllReversed])
  /\ deal' = ended
NoReversal(i, ended) ==  \* mutant
  /\ deal' = [ended EXCEPT !.commission = "reversed"]
  /\ UNCHANGED snaps
(* reverseCommission: the negative of snapshot i, whose lines are over.    *)
Reverse(i, ended) ==
  /\ snaps' = Append([snaps EXCEPT ![i].lines = AllReversed],
       [kind |-> "reversal", amount |-> -snaps[i].amount, reverses |-> i, lines |-> AllReversed])
  /\ deal' = [ended EXCEPT !.commission = "reversed"]

(* Whether there is anything to reverse is asked of the deal as it was     *)
(* read; what is reversed is the latest final snapshot, reversed before or *)
(* not.                                                                    *)
EndDeal(to, snapshotRead) ==
  LET ended == [deal EXCEPT !.stage = to, !.status = to] IN
  IF snapshotRead # 0 /\ Finals # {}
    THEN \E i \in Finals : IsLatest(i) /\ Reverse(i, ended)
    ELSE deal' = ended /\ UNCHANGED snaps

(* A change of stage slips when the deal was won after it was read, and    *)
(* when the deal was won before and does not move to that stage from the   *)
(* one it has by now: a stage repeated, or another change gone ahead.      *)
StageSlips(r) ==
  \/ r.snapshot # deal.snapshot
  \/ deal.snapshot # 0 /\ r.to \notin StageMoves[deal.stage]
Slip(kind, slipped) == slips' = IF slipped THEN slips \cup {kind} ELSE slips

WriteStage(c) ==
  /\ req[c].op = "stage"
  /\ Len(snaps) < MaxSnaps
  /\ \/ req[c].to = "won" /\ Win
     \/ req[c].to \in {"cancelled", "lost"} /\ EndDeal(req[c].to, req[c].snapshot)
     \/ /\ req[c].to \notin {"won", "cancelled", "lost"}
        /\ deal' = [deal EXCEPT !.stage = req[c].to]
        /\ UNCHANGED snaps
  /\ Slip("stage", StageSlips(req[c]))
  /\ Finish(c)

-----------------------------------------------------------------------------
(* The other writes *)

(* The edit is refused when it names a version that is no longer current;  *)
(* it slips when the deal is not one to edit any more.                     *)
Accepted(r) == r.version \in {NoVersion, deal.version}
WriteEdit(c) ==
  /\ req[c].op = "edit"
  /\ Accepted(req[c]) => deal.version < MaxVersion
  /\ deal' = IF Accepted(req[c]) THEN [deal EXCEPT !.gross = req[c].gross, !.version = @ + 1]
                                 ELSE deal
  /\ Slip("edit", Accepted(req[c]) /\ ~Editable)
  /\ UNCHANGED snaps
  /\ Finish(c)

(* A decision slips when its snapshot is no more that of a won deal.       *)
Stands(snap) == deal.stage = "won" /\ deal.snapshot = snap
WriteDecision(c) ==
  /\ req[c].op = "decide"
  /\ snaps' = [snaps EXCEPT ![req[c].snap].lines[req[c].line] = req[c].decision]
  /\ req' = [req EXCEPT ![c] = [op |-> "settle", snap |-> req[c].snap]]
  /\ Slip("decide", ~Stands(req[c].snap))
  /\ UNCHANGED deal

NonePending(i) == \A l \in Lines : snaps[i].lines[l] # "pending_approval"

SeeApproved(c) ==  \* mutant
  /\ req[c].op = "settle"
  /\ IF \A l \in Lines : snaps[req[c].snap].lines[l] \in {"calculated", "approved"}
       THEN req' = [req EXCEPT ![c] = [op |-> "approve", snap |-> req[c].snap]]
       ELSE Finish(c)
  /\ UNCHANGED <<deal, snaps, slips>>
(* approveCommissionLine: when no line of the snapshot waits any more the  *)
(* commission of the deal is approved.                                     *)
SeePending(c) ==
  /\ req[c].op = "settle"
  /\ IF NonePending(req[c].snap)
       THEN req' = [req EXCEPT ![c] = [op |-> "approve", snap |-> req[c].snap]]
       ELSE Finish(c)
  /\ UNCHANGED <<deal, snaps, slips>>

ApproveDeal(c) ==
  /\ req[c].op = "approve"
  /\ deal' = [deal EXCEPT !.commission = "approved"]
  /\ Slip("decide", ~Stands(req[c].snap))
  /\ UNCHANGED snaps
  /\ Finish(c)

-----------------------------------------------------------------------------

Next ==
  \E c \in Requests :
    \/ \E to \in Stages : AskStage(c, to)
    \/ \E gross \in Amounts, version \in 0..MaxVersion : AskEdit(c, gross, version)
    \/ \E snap \in DOMAIN snaps, line \in Lines, decision \in {"approved", "rejected"} :
         AskDecision(c, snap, line, decision)
    \/ WriteStage(c) \/ WriteEdit(c) \/ WriteDecision(c)
    \/ SeePending(c) \/ ApproveDeal(c)

Spec == Init /\ [][Next]_vars

-----------------------------------------------------------------------------
(* Properties *)

(* Types of the rows and of the requests; a decision is on a snapshot that *)
(* is there.                                                               *)
TypeOK ==
  /\ deal \in DealRow
  /\ snaps \in Seq(Snapshot)
  /\ req \in [Requests -> Request]
  /\ slips \subseteq Kinds
  /\ \A c \in Requests : req[c].op \in {"decide", "settle", "approve"} => req[c].snap \in DOMAIN snaps

Outstanding == {i \in Finals : \A j \in DOMAIN snaps : snaps[j].reverses # i}

ReversedOnce ==
  \A i, j \in DOMAIN snaps :
    snaps[i].kind = "reversal" /\ snaps[j].kind = "reversal" /\ snaps[i].reverses = snaps[j].reverses
      => i = j

(* commission.js:187: the reversal is there so that "a cancelled or        *)
(* amended deal never leaves stale money".  However requests overlap, all  *)
(* final snapshots of a deal are reversed unless it is won, and none more  *)
(* than once, as long as no change of stage was written to a deal that had *)
(* been won since it was read, or that was won and does not move that way. *)
NoStaleMoney ==
  "stage" \notin slips => (deal.stage # "won" => Outstanding = {}) /\ ReversedOnce

(* deals/service.js:150: a won deal with a snapshot "must be amended       *)
(* through a cancellation or approval".  Unless an edit came after the win *)
(* that was checked before it, the one snapshot of a won deal that stands  *)
(* is the one the deal points to, and it has the amount the deal shows.    *)
SnapshotMatchesDeal ==
  deal.stage = "won" =>
    /\ "stage" \notin slips => Outstanding = {deal.snapshot}
    /\ slips \cap {"stage", "edit"} = {} => snaps[deal.snapshot].amount = deal.gross

(* commission.js:267: whatever else is going on, and whichever order the   *)
(* decisions on lines are made and written in, the deal does not go on     *)
(* waiting when none of its lines is and no decision is to be settled.     *)
NothingLeftPending ==
  (\A c \in Requests : req[c].op \notin {"settle", "approve"}) =>
    (deal.commission = "pending_approval" => ~NonePending(deal.snapshot))

(* The converse: approved means that the deal is won, and every line of the*)
(* snapshot it shows was decided and still stands; but for a decision that *)
(* is written, or settled, after the deal was cancelled.                   *)
ApprovedStands ==
  deal.commission = "approved" /\ slips \cap {"stage", "decide"} = {} =>
    /\ deal.stage = "won"
    /\ \A l \in Lines : snaps[deal.snapshot].lines[l] \in {"calculated", "approved", "rejected"}

(* All of these and more: a deal implements Ledger until a change of stage *)
(* or an edit slips.  What it earns is entered and taken back in the very  *)
(* step in which it is won or cancelled, and neither an edit nor a decision*)
(* changes what was entered.                                               *)
Earned == IF deal.stage = "won" THEN deal.gross ELSE 0
Book == [i \in DOMAIN snaps |-> snaps[i].amount]
Money == INSTANCE Ledger WITH earned <- Earned, book <- Book
Kept == slips \cap {"stage", "edit"} = {}
ImplementsLedger == Money!Init /\ [][Kept' => Money!Next]_<<Earned, Book>>

-----------------------------------------------------------------------------
(* The inductive invariant behind them: the deal has not been won, or is   *)
(* won, or was won and is cancelled.                                       *)
NotWonYet == snaps = <<>> /\ deal.snapshot = 0 /\ deal.stage # "won" /\ deal.status # "won"
IsWon ==
  /\ Len(snaps) = 1 /\ deal.snapshot = 1 /\ deal.stage = "won" /\ deal.status = "won"
  /\ snaps[1].kind = "final" /\ snaps[1].reverses = 0
WasWon ==
  /\ Len(snaps) = 2 /\ deal.snapshot = 1 /\ deal.stage = "cancelled" /\ deal.status = "cancelled"
  /\ snaps[1].kind = "final" /\ snaps[1].reverses = 0
  /\ snaps[2].kind = "reversal" /\ snaps[2].reverses = 1

MoneyInv ==
  /\ "stage" \notin slips => NotWonYet \/ IsWon \/ WasWon
  /\ Kept => (IsWon => snaps[1].amount = deal.gross /\ deal.gross # 0)

(* And of the decisions: a deal that waits has a line that does, or a      *)
(* request about to see that it has none, and a request about to approve   *)
(* has seen that none waits, which stays so.                               *)
WaitsForSomething ==
  deal.commission = "pending_approval" =>
    /\ deal.snapshot \in DOMAIN snaps
    /\ NonePending(deal.snapshot) =>
         \E c \in Requests :
           req[c].op = "approve" \/ (req[c].op = "settle" /\ req[c].snap = deal.snapshot)
NoneToApprove == \A c \in Requests : req[c].op = "approve" => NonePending(req[c].snap)
LinesStand ==
  slips \cap {"stage", "decide"} = {} =>
    /\ IsWon => \A l \in Lines : snaps[1].lines[l] # "reversed"
    /\ deal.commission = "approved" => IsWon /\ NonePending(1)

DecisionInv == WaitsForSomething /\ NoneToApprove /\ LinesStand

=============================================================================
