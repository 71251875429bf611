-------------------------------- MODULE Portals --------------------------------
(***************************************************************************)
(* One listing and its publications on portals (modules/portals/service.js,*)
(* modules/listings/service.js, the sweep of modules/cron/routes.js and    *)
(* the jobs of both kinds).                                                *)
(*                                                                         *)
(* A request of a user reads the listing and writes later; a job reads the *)
(* publication, calls the portal and writes the answer, in no transaction. *)
(* Approval rows, histories, logs and the health of accounts are left out. *)
(***************************************************************************)
EXTENDS Integers, FiniteSets, TLC

CONSTANTS
  Portals,      \* the portal accounts; a listing has one publication on each
  Workers,      \* jobs that may run together
  None,         \* no portal, no job
  MaxTries,     \* attempts of a job before it is dead
  MaxRequests,  \* requests of users (bound)
  MaxRetries,   \* requests of users to retry a publication (bound)
  MaxCrashes    \* how often a job or a request dies, or a job that is over is
                \* claimed again (bound)

ASSUME PortalsAssumption ==
  /\ None \notin Portals
  /\ MaxTries \in Nat \ {0} /\ MaxRequests \in Nat /\ MaxRetries \in Nat /\ MaxCrashes \in Nat

VARIABLES
  listing,  \* its row: status and version
  pub,      \* portal_publications: "none" while there is no row
  advert,   \* whether each portal shows the listing
  job,      \* jobs by dedupe key
  work,     \* what each running job has read, and its next step
  request,  \* what the request under way has read
  asked,    \* requests so far
  crashes,
  (* What overlapped so far, for the properties *)
  apart,    \* users asked only when what they asked for was settled, and no
            \* job started while a request was under way or after it was over
  crossed   \* the portals where a job to remove the advert and one to publish
            \* it were under way together, or the former found it published

history == <<apart, crossed>>
vars == <<listing, pub, advert, job, work, request, asked, crashes, history>>

(* listingStateMachine; a status may also be kept.  The statuses that let  *)
(* nothing be published (draft, internal_review, rejected, expired,        *)
(* withdrawn and archived) are one here, "off", with the moves of them all.*)
Moves ==
  [off |-> {"off", "approved"},
   approved |-> {"publishing", "published", "unpublished", "off"},
   publishing |-> {"published", "partially_published", "approved", "off"},
   published |-> {"partially_published", "unpublished", "off"},
   partially_published |-> {"published", "unpublished", "off"},
   unpublished |-> {"approved", "publishing", "off"}]
Publishable == {"approved", "published", "partially_published", "unpublished"}

(* publicationStateMachine.assert(status, "publishing"), the only use of it*)
AnyStatus(status) == status # "none"  \* mutant
MayPublish(status) == status \in {"queued", "published", "publishing"}

PubStatus == {"none", "queued", "publishing", "published", "failed", "rejected",
              "unpublishing", "unpublished"}
Publication == [status : PubStatus, attempts : Nat]
Kind == {"publish", "sweep", "retry", "unpublish"}
Key == [kind : Kind, portal : Portals, n : Nat]
Job == [status : {"queued", "running", "over"}, tries : Nat]  \* over: completed or dead
Step == {"idle", "begin", "call", "remove", "write", "count", "aggregate"}
Work == [step : Step, key : Key \cup {None}, attempts : Nat, to : PubStatus \cup DOMAIN Moves]
Idle == [step |-> "idle", key |-> None, attempts |-> 0, to |-> "none"]
Request == [op : {"idle", "publish", "edit", "change", "unpublish", "retry"}, status : DOMAIN Moves,
            version : Nat, portals : SUBSET Portals, at : Portals \cup {None}]
NoRequest == [op |-> "idle", status |-> "off", version |-> 0, portals |-> {}, at |-> None]

Init ==
  /\ listing = [status |-> "approved", version |-> 1]
  /\ pub = [p \in Portals |-> [status |-> "none", attempts |-> 0]]
  /\ advert = [p \in Portals |-> FALSE]
  /\ job = <<>>
  /\ work = [w \in Workers |-> Idle]
  /\ request = NoRequest
  /\ asked = 0
  /\ crashes = 0
  /\ apart = TRUE /\ crossed = {}

(* enqueueJob: a key that was ever used is not used again, whatever became *)
(* of its job                                                              *)
Enqueued(keys) ==
  [k \in DOMAIN job \cup keys |-> IF k \in DOMAIN job THEN job[k] ELSE [status |-> "queued", tries |-> 0]]
JobKey(kind, p, n) == [kind |-> kind, portal |-> p, n |-> n]
UnpublishKey(p) == JobKey("unpublish", p, 0)

Rows == {p \in Portals : pub[p].status # "none"}
SetStatus(portals, status) ==
  [p \in Portals |-> IF p \in portals THEN [pub[p] EXCEPT !.status = status] ELSE pub[p]]

Settled ==
  /\ \A w \in Workers : work[w].step = "idle"
  /\ \A p \in Portals :
       /\ pub[p].status \notin {"queued", "publishing"}
       /\ UnpublishKey(p) \in DOMAIN job => job[UnpublishKey(p)].status # "queued"

-----------------------------------------------------------------------------
(* Requests of users; the status is kept where the request uses it later   *)

Ask(op, portals, status) ==
  /\ request.op = "idle" /\ asked < MaxRequests
  /\ request' = [op |-> op, status |-> status, version |-> listing.version, portals |-> portals, at |-> None]
  /\ asked' = asked + 1
  /\ apart' = (apart /\ Settled)
  /\ UNCHANGED <<listing, pub, advert, job, work, crashes, crossed>>
Answered == request' = NoRequest

(* publishListing; validateForPortals runs between the read and the trx    *)
AskPublish(portals) == listing.status \in Publishable /\ Ask("publish", portals, NoRequest.status)
Publish(valid) ==
  /\ request.op = "publish"
  /\ pub' = [p \in Portals |-> IF p \in request.portals
                                 THEN [pub[p] EXCEPT !.status = IF p \in valid THEN "queued" ELSE "failed"]
                                 ELSE pub[p]]
  /\ job' = Enqueued({JobKey("publish", p, request.version) : p \in valid})
  /\ listing' = [listing EXCEPT !.status = "publishing"]
  /\ Answered
  /\ UNCHANGED <<advert, work, asked, crashes, history>>

(* updateListing: what is published is queued, without a job of its own    *)
AskUpdate == Ask("edit", {}, listing.status)
UpdateListing ==
  /\ request.op = "edit"
  /\ listing' = [listing EXCEPT !.version = @ + 1]
  /\ pub' = IF request.status \in {"published", "partially_published"}
              THEN SetStatus({p \in Portals : pub[p].status = "published"}, "queued")
              ELSE pub
  /\ Answered
  /\ UNCHANGED <<advert, job, work, asked, crashes, history>>

(* changeStatus, which asserts the move on the row it read                 *)
AskStatus(to) == to \in Moves[listing.status] /\ Ask("change", {}, to)
ChangeStatus ==
  /\ request.op = "change"
  /\ listing' = [listing EXCEPT !.status = request.status]
  /\ Answered
  /\ UNCHANGED <<pub, advert, job, work, asked, crashes, history>>

(* unpublishListing, and the retry of one publication: of every one, first *)
(* the status is written and then the job is enqueued.                     *)
AskUnpublish(portals) == Ask("unpublish", portals \cap Rows, NoRequest.status)
AskRetry(p) ==
  /\ p \in Rows /\ Cardinality({k \in DOMAIN job : k.kind = "retry"}) < MaxRetries
  /\ Ask("retry", {p}, NoRequest.status)
Mark(p) ==
  /\ request.op \in {"unpublish", "retry"} /\ request.at = None /\ p \in request.portals
  /\ pub' = SetStatus({p}, IF request.op = "retry" THEN "queued" ELSE "unpublishing")
  /\ request' = [request EXCEPT !.at = p, !.portals = @ \ {p}]
  /\ UNCHANGED <<listing, advert, job, work, asked, crashes, history>>
Queue ==
  /\ request.op \in {"unpublish", "retry"} /\ request.at # None
  /\ job' = Enqueued({IF request.op = "retry" THEN JobKey("retry", request.at, asked)
                                              ELSE UnpublishKey(request.at)})
  /\ request' = [request EXCEPT !.at = None]
  /\ UNCHANGED <<listing, pub, advert, work, asked, crashes, history>>
AllMarked ==
  /\ request.op \in {"unpublish", "retry"} /\ request.at = None /\ request.portals = {}
  /\ Answered
  /\ UNCHANGED <<listing, pub, advert, job, work, asked, crashes, history>>

RequestDies ==
  /\ request.op # "idle" /\ crashes < MaxCrashes
  /\ crashes' = crashes + 1
  /\ Answered
  /\ UNCHANGED <<listing, pub, advert, job, work, asked, history>>

-----------------------------------------------------------------------------
(* The hourly sweep over publications that are queued *)

OneKey(p) == JobKey("sweep", p, 0)  \* mutant
SweepKey(p) == JobKey("sweep", p, pub[p].attempts)
Sweep(p) ==
  /\ pub[p].status = "queued" /\ SweepKey(p) \notin DOMAIN job
  /\ job' = Enqueued({SweepKey(p)})
  /\ UNCHANGED <<listing, pub, advert, work, request, asked, crashes, history>>

-----------------------------------------------------------------------------
(* Jobs *)

At(w) == work[w].key.portal
GoOn(w, step, to) ==
  work' = [work EXCEPT ![w] = [step |-> step, key |-> work[w].key, attempts |-> 0, to |-> to]]

StillQueued(k) == job  \* mutant
Claimed(k) == [job EXCEPT ![k].status = "running"]
Over(k) == [job EXCEPT ![k].status = "over"]
(* failJob: a retry waits, and is taken like a job that is new             *)
Failed(k) ==
  LET tries == job[k].tries + 1
  IN  [job EXCEPT ![k] = [status |-> IF tries >= MaxTries THEN "over" ELSE "queued", tries |-> tries]]

AtPortal == {"begin", "call", "remove", "write"}
Crosses(k) ==
  \/ k.kind = "unpublish" /\ pub[k.portal].status = "published"
  \/ \E w \in Workers :
       /\ work[w].step \in AtPortal /\ At(w) = k.portal
       /\ "unpublish" \in {k.kind, work[w].key.kind} /\ k.kind # work[w].key.kind

(* executePublication and executeUnpublish up to their first write; the    *)
(* assertion of the former throws.  claimJobs looks at the lease alone once *)
(* it has read a job, so one that is over by then is claimed again.        *)
Take(w, k) ==
  LET row == pub[k.portal]  reclaimed == job[k].status = "over" IN
  /\ work[w].step = "idle" /\ job[k].status # "running"
  /\ reclaimed => crashes < MaxCrashes
  /\ crashes' = IF reclaimed THEN crashes + 1 ELSE crashes
  /\ IF k.kind = "unpublish" \/ MayPublish(row.status)
       THEN /\ job' = Claimed(k)
            /\ work' = [work EXCEPT ![w] = [step |-> IF k.kind = "unpublish" THEN "remove" ELSE "begin",
                                            key |-> k, attempts |-> row.attempts, to |-> "none"]]
       ELSE job' = Failed(k) /\ UNCHANGED work
  /\ apart' = (apart /\ request.op = "idle" /\ ~reclaimed)
  /\ crossed' = IF Crosses(k) THEN crossed \cup {k.portal} ELSE crossed
  /\ UNCHANGED <<listing, pub, advert, request, asked>>

Begin(w) ==
  /\ work[w].step = "begin"
  /\ pub' = [pub EXCEPT ![At(w)] = [status |-> "publishing", attempts |-> work[w].attempts + 1]]
  /\ GoOn(w, "call", "none")
  /\ UNCHANGED <<listing, advert, job, request, asked, crashes, history>>

(* The portal answers, or the call throws, which is an answer "failed": it *)
(* may have taken the advert all the same.                                 *)
Call(w, answer) ==
  /\ work[w].step = "call"
  /\ \/ answer # "rejected" /\ advert' = [advert EXCEPT ![At(w)] = TRUE]
     \/ answer # "published" /\ UNCHANGED advert
  /\ GoOn(w, "write", answer)
  /\ UNCHANGED <<listing, pub, job, request, asked, crashes, history>>

(* The answer to a removal; a portal that has none, or a call that throws, *)
(* fails the job.                                                          *)
Remove(w, answer) ==
  /\ work[w].step = "remove"
  /\ \/ advert' = [advert EXCEPT ![At(w)] = FALSE]
     \/ answer = "failed" /\ UNCHANGED advert
  /\ GoOn(w, "write", answer)
  /\ UNCHANGED <<listing, pub, job, request, asked, crashes, history>>
RemoveThrows(w) ==
  /\ work[w].step = "remove"
  /\ \/ advert' = [advert EXCEPT ![At(w)] = FALSE]
     \/ UNCHANGED advert
  /\ job' = Failed(work[w].key)
  /\ work' = [work EXCEPT ![w] = Idle]
  /\ UNCHANGED <<listing, pub, request, asked, crashes, history>>

(* The answer is written over whatever the status is by now.               *)
Write(w) ==
  /\ work[w].step = "write"
  /\ pub' = SetStatus({At(w)}, work[w].to)
  /\ GoOn(w, "count", "none")
  /\ UNCHANGED <<listing, advert, job, request, asked, crashes, history>>

(* refreshListingAggregateStatus: reads, and then writes what is new       *)
Aggregate ==
  LET shown == {p \in Rows : pub[p].status = "published"} IN
  IF shown = {} THEN IF \E p \in Rows : pub[p].status \in {"failed", "rejected"} THEN "approved" ELSE listing.status
  ELSE IF shown = Rows THEN "published" ELSE "partially_published"
Count(w) ==
  /\ work[w].step = "count"
  /\ GoOn(w, "aggregate", IF Aggregate = listing.status THEN "none" ELSE Aggregate)
  /\ UNCHANGED <<listing, pub, advert, job, request, asked, crashes, history>>
Finish(w) ==
  /\ work[w].step = "aggregate"
  /\ listing' = IF work[w].to = "none" THEN listing ELSE [listing EXCEPT !.status = work[w].to]
  /\ job' = Over(work[w].key)
  /\ work' = [work EXCEPT ![w] = Idle]
  /\ UNCHANGED <<pub, advert, request, asked, crashes, history>>

(* The function dies: the job is left running, and no batch takes it again.*)
Crash(w) ==
  /\ work[w].step # "idle" /\ crashes < MaxCrashes
  /\ crashes' = crashes + 1
  /\ work' = [work EXCEPT ![w] = Idle]
  /\ UNCHANGED <<listing, pub, advert, job, request, asked, history>>

Serve ==
  \/ \E valid \in SUBSET request.portals : Publish(valid)
  \/ UpdateListing \/ ChangeStatus \/ Queue \/ AllMarked
  \/ \E p \in Portals : Mark(p)
Advance(w) ==
  \/ Begin(w) \/ Write(w) \/ Count(w) \/ Finish(w) \/ RemoveThrows(w)
  \/ \E answer \in {"published", "failed", "rejected"} : Call(w, answer)
  \/ \E answer \in {"unpublished", "failed"} : Remove(w, answer)
TakeAny == \E w \in Workers, k \in DOMAIN job : Take(w, k)

Next ==
  \/ \E portals \in SUBSET Portals \ {{}} : AskPublish(portals) \/ AskUnpublish(portals)
  \/ AskUpdate
  \/ \E to \in DOMAIN Moves : AskStatus(to)
  \/ \E p \in Portals : AskRetry(p) \/ Sweep(p)
  \/ Serve \/ RequestDies
  \/ TakeAny
  \/ \E w \in Workers : Advance(w) \/ Crash(w)

Spec == Init /\ [][Next]_vars

-----------------------------------------------------------------------------
(* Properties *)

(* Types; a job runs for one worker, which holds its key, and works on a   *)
(* publication there is.                                                   *)
RowsOK ==
  /\ listing \in [status : DOMAIN Moves, version : Nat]
  /\ pub \in [Portals -> Publication]
  /\ advert \in [Portals -> BOOLEAN]
  /\ DOMAIN job \subseteq Key
  /\ \A k \in DOMAIN job : job[k] \in Job /\ k.portal \in Rows
  /\ work \in [Workers -> Work]
  /\ request \in Request
  /\ asked \in Nat /\ crashes \in Nat
  /\ \A w \in Workers : work[w].step # "idle" =>
       /\ work[w].key \in DOMAIN job /\ job[work[w].key].status = "running"
       /\ \A v \in Workers \ {w} : work[v].step # "idle" => work[v].key # work[w].key
TypeOK == RowsOK /\ apart \in BOOLEAN /\ crossed \subseteq Portals

(* docs/data-model.md:69, a publication has "its own status": what it says *)
(* of a portal is so, whatever users ask meanwhile and whichever leftover  *)
(* jobs of the same publication run late, fail or run together, unless jobs*)
(* to publish and to remove it met; and they meet only when a user asks    *)
(* while something is under way, or a job that is over is claimed again.   *)
SaysSo(p) ==
  /\ pub[p].status = "published" => advert[p]
  /\ pub[p].status \in {"none", "unpublished"} => ~advert[p]
ShownIsKnown == \A p \in Portals : apart \/ p \notin crossed => SaysSo(p)

(* docs/deployment.md:121, "retry stalled publishes": unless something died,*)
(* a job that was over was claimed again, or users asked while something   *)
(* was under way, a publication that is queued has a job that will take it,*)
(* or is at one, or the key the sweep will use is a new one: the keys of   *)
(* jobs that are through never stand in its way.                           *)
Taking(p) ==
  \/ \E k \in DOMAIN job : k.portal = p /\ k.kind # "unpublish" /\ job[k].status = "queued"
  \/ \E w \in Workers : work[w].step \in {"begin", "call", "write"} /\ At(w) = p
QueuedHasTaker ==
  apart /\ crashes = 0 =>
    \A p \in Portals : pub[p].status = "queued" => Taking(p) \/ SweepKey(p) \notin DOMAIN job

=============================================================================
