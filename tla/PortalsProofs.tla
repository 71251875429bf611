------------------------------ MODULE PortalsProofs ------------------------------
(* Proofs about Portals, for any portals, workers and bounds.              *)
EXTENDS Portals, TLAPS

-----------------------------------------------------------------------------
(* Types *)

Answers == {"published", "failed", "rejected", "unpublished"}
Requested ==
  request.op \in {"unpublish", "retry"} =>
    request.portals \subseteq Rows /\ request.at \in Rows \cup {None}
Writes ==
  \A w \in Workers :
    /\ work[w].step = "write" => work[w].to \in Answers
    /\ work[w].step = "aggregate" => work[w].to \in DOMAIN Moves \cup {"none"}
Typed == RowsOK /\ Requested /\ Writes

LEMMA MovesDomain ==
  DOMAIN Moves = {"off", "approved", "publishing", "published", "partially_published", "unpublished"}
BY DEF Moves

LEMMA IdleWork == Idle \in Work /\ Idle.step = "idle"
BY DEF Idle, Work, Step, PubStatus

LEMMA NoRequestIs == NoRequest \in Request /\ NoRequest.op = "idle"
BY MovesDomain DEF NoRequest, Request

LEMMA InitTyped == ASSUME Init PROVE Typed
<1>1. listing \in [status : DOMAIN Moves, version : Nat]
  BY MovesDomain DEF Init
<1>2. pub \in [Portals -> Publication]
  BY DEF Init, Publication, PubStatus
<1>3. work \in [Workers -> Work] /\ \A w \in Workers : work[w].step = "idle"
  BY IdleWork DEF Init
<1>4. request \in Request /\ request.op = "idle"
  BY NoRequestIs DEF Init
<1>5. QED
  BY <1>1, <1>2, <1>3, <1>4 DEF Init, Typed, RowsOK, Requested, Writes

(* Steps that move no worker and only add jobs *)
LEMMA RequestTyped ==
  ASSUME Typed, UNCHANGED work, Rows \subseteq Rows', Requested',
         listing' \in [status : DOMAIN Moves, version : Nat], pub' \in [Portals -> Publication],
         advert' \in [Portals -> BOOLEAN], request' \in Request, asked' \in Nat, crashes' \in Nat,
         DOMAIN job \subseteq DOMAIN job', \A k \in DOMAIN job : job'[k] = job[k],
         \A k \in DOMAIN job' \ DOMAIN job : k \in Key /\ job'[k] \in Job /\ k.portal \in Rows'
  PROVE  Typed'
<1>1. DOMAIN job' \subseteq Key
  BY DEF Typed, RowsOK
<1>2. \A k \in DOMAIN job' : job'[k] \in Job /\ k.portal \in Rows'
  BY DEF Typed, RowsOK
<1>3. \A w \in Workers : work[w].step # "idle" =>
        /\ work[w].key \in DOMAIN job' /\ job'[work[w].key].status = "running"
        /\ \A v \in Workers \ {w} : work[v].step # "idle" => work[v].key # work[w].key
  BY DEF Typed, RowsOK
<1>4. RowsOK'
  BY <1>1, <1>2, <1>3 DEF Typed, RowsOK
<1>5. Writes'
  BY DEF Typed, Writes
<1>6. QED
  BY <1>4, <1>5 DEF Typed

(* The table but for one row *)
Kept(table, k) ==
  /\ DOMAIN table = DOMAIN job
  /\ \A x \in DOMAIN job : table[x] \in Job
  /\ \A x \in DOMAIN job \ {k} : table[x] = job[x]

LEMMA OverKeeps ==
  ASSUME RowsOK, NEW k \in DOMAIN job
  PROVE  Kept(Over(k), k) /\ Over(k)[k].status = "over"
BY DEF Over, Kept, RowsOK, Job

LEMMA FailedKeeps ==
  ASSUME RowsOK, NEW k \in DOMAIN job
  PROVE  Kept(Failed(k), k)
<1> DEFINE n == job[k].tries + 1
           row == [status |-> IF n >= MaxTries THEN "over" ELSE "queued", tries |-> n]
<1>1. job[k] \in Job
  BY DEF RowsOK
<1>2. row \in Job
  BY <1>1 DEF Job
<1>3. Failed(k) = [job EXCEPT ![k] = row]
  BY DEF Failed
<1>4. QED
  BY <1>2, <1>3 DEF Kept, RowsOK

LEMMA ClaimedKeeps ==
  ASSUME RowsOK, NEW k \in DOMAIN job
  PROVE  Kept(Claimed(k), k) /\ Claimed(k)[k].status = "running"
BY DEF Claimed, Kept, RowsOK, Job

LEMMA WorkerHolds ==
  ASSUME RowsOK, NEW w \in Workers, work[w].step # "idle"
  PROVE  /\ work[w] \in Work /\ work[w].key \in DOMAIN job /\ work[w].key \in Key
         /\ At(w) \in Rows /\ At(w) \in Portals /\ job[work[w].key].status = "running"
BY DEF RowsOK, At, Key, Rows

(* Steps of a worker: it goes on with its job, or leaves it                *)
LEMMA WorkerTyped ==
  ASSUME Typed, NEW w \in Workers, work[w].step # "idle",
         NEW x \in Work, work' = [work EXCEPT ![w] = x],
         \/ x.step = "idle" /\ Kept(job', work[w].key)
         \/ x.key = work[w].key /\ UNCHANGED job,
         x.step = "write" => x.to \in Answers,
         x.step = "aggregate" => x.to \in DOMAIN Moves \cup {"none"},
         Rows \subseteq Rows', UNCHANGED request,
         listing' \in [status : DOMAIN Moves, version : Nat], pub' \in [Portals -> Publication],
         advert' \in [Portals -> BOOLEAN], asked' \in Nat, crashes' \in Nat
  PROVE  Typed'
<1>1. work' \in [Workers -> Work] /\ \A v \in Workers : work'[v] = IF v = w THEN x ELSE work[v]
  BY DEF Typed, RowsOK
<1>2. DOMAIN job' \subseteq Key
  BY DEF Typed, RowsOK, Kept
<1>3. \A k \in DOMAIN job' : job'[k] \in Job /\ k.portal \in Rows'
  BY DEF Typed, RowsOK, Kept
<1>4. \A v \in Workers \ {w} : work[v].step # "idle" =>
        /\ work[v].key # work[w].key /\ work[v].key \in DOMAIN job
        /\ job[work[v].key].status = "running"
  BY DEF Typed, RowsOK
<1>5. \A v \in Workers \ {w} : work[v].step # "idle" =>
        work[v].key \in DOMAIN job' /\ job'[work[v].key].status = "running"
  BY <1>4 DEF Kept
<1>6. x.step # "idle" => /\ x.key = work[w].key /\ x.key \in DOMAIN job'
                         /\ job'[x.key].status = "running"
  BY DEF Typed, RowsOK
<1>7. ASSUME NEW v \in Workers, work'[v].step # "idle"
      PROVE  /\ work'[v].key \in DOMAIN job' /\ job'[work'[v].key].status = "running"
             /\ \A u \in Workers \ {v} : work'[u].step # "idle" => work'[u].key # work'[v].key
  <2>1. CASE v = w
    BY <1>1, <1>4, <1>6, <1>7, <2>1
  <2>2. CASE v # w
    <3>1. work'[v] = work[v] /\ work[v].step # "idle"
      BY <1>1, <1>7, <2>2
    <3>2. \A u \in Workers \ {v} : work'[u].step # "idle" => work'[u].key # work'[v].key
      BY <1>1, <1>4, <1>6, <2>2, <3>1 DEF Typed, RowsOK
    <3>3. QED
      BY <1>5, <2>2, <3>1, <3>2
  <2>3. QED
    BY <2>1, <2>2
<1>8. RowsOK'
  BY <1>1, <1>2, <1>3, <1>7 DEF Typed, RowsOK
<1>9. Writes'
  BY <1>1 DEF Typed, Writes
<1>10. Requested'
  BY DEF Typed, Requested
<1>11. QED
  BY <1>8, <1>9, <1>10 DEF Typed

-----------------------------------------------------------------------------
(* Requests and the sweep *)

LEMMA StatusSet ==
  ASSUME RowsOK, NEW S, NEW status \in PubStatus \ {"none"}, pub' = SetStatus(S, status)
  PROVE  /\ pub' \in [Portals -> Publication]
         /\ \A p \in Portals : pub'[p].status = IF p \in S THEN status ELSE pub[p].status
         /\ Rows \subseteq Rows' /\ S \cap Portals \subseteq Rows'
<1>1. pub \in [Portals -> Publication]
  BY DEF RowsOK
<1>2. \A p \in Portals : /\ [pub[p] EXCEPT !.status = status] \in Publication
                         /\ [pub[p] EXCEPT !.status = status].status = status
  BY <1>1 DEF Publication
<1>3. \A p \in Portals : pub'[p] = IF p \in S THEN [pub[p] EXCEPT !.status = status] ELSE pub[p]
  BY DEF SetStatus
<1>4. pub' \in [Portals -> Publication]
  BY <1>1, <1>2, <1>3 DEF SetStatus
<1>5. \A p \in Portals : pub'[p].status = IF p \in S THEN status ELSE pub[p].status
  BY <1>2, <1>3
<1>6. QED
  BY <1>4, <1>5 DEF Rows

LEMMA KeyOf ==
  ASSUME NEW kind \in Kind, NEW p \in Portals, NEW n \in Nat
  PROVE  JobKey(kind, p, n) \in Key /\ JobKey(kind, p, n).portal = p /\ JobKey(kind, p, n).kind = kind
BY DEF JobKey, Key

(* What is enqueued is a job of a publication there is.                    *)
LEMMA EnqueuedIs ==
  ASSUME NEW keys, job' = Enqueued(keys)
  PROVE  /\ DOMAIN job \subseteq DOMAIN job' /\ \A k \in DOMAIN job : job'[k] = job[k]
         /\ \A k \in DOMAIN job' \ DOMAIN job :
              k \in keys /\ job'[k] = [status |-> "queued", tries |-> 0] /\ job'[k] \in Job
BY DEF Enqueued, Job

LEMMA AskTyped ==
  ASSUME Typed, NEW op \in {"publish", "edit", "change", "unpublish", "retry"},
         NEW portals \in SUBSET Portals, NEW status \in DOMAIN Moves, Ask(op, portals, status),
         op \in {"unpublish", "retry"} => portals \subseteq Rows
  PROVE  Typed'
<1>1. request' = [op |-> op, status |-> status, version |-> listing.version, portals |-> portals,
                  at |-> None]
      /\ asked' = asked + 1 /\ UNCHANGED <<listing, pub, advert, job, work, crashes>>
  BY DEF Ask
<1>2. request' \in Request
  BY <1>1 DEF Typed, RowsOK, Request
<1>3. Rows' = Rows /\ Requested'
  BY <1>1 DEF Rows, Requested
<1>4. asked' \in Nat
  BY <1>1 DEF Typed, RowsOK
<1>5. QED
  BY <1>1, <1>2, <1>3, <1>4, RequestTyped DEF Typed, RowsOK

LEMMA AsksTyped ==
  ASSUME Typed,
         \/ \E portals \in SUBSET Portals \ {{}} : AskPublish(portals) \/ AskUnpublish(portals)
         \/ AskUpdate
         \/ \E to \in DOMAIN Moves : AskStatus(to)
         \/ \E p \in Portals : AskRetry(p)
  PROVE  Typed'
<1>1. /\ listing.status \in DOMAIN Moves /\ NoRequest.status \in DOMAIN Moves
      /\ Rows \subseteq Portals
  BY MovesDomain DEF Typed, RowsOK, Rows, NoRequest
<1>2. QED
  BY <1>1, AskTyped DEF AskPublish, AskUnpublish, AskUpdate, AskStatus, AskRetry

LEMMA AnsweredIs ==
  ASSUME Answered
  PROVE  request' \in Request /\ request'.op = "idle" /\ Requested'
BY NoRequestIs DEF Answered, Requested

LEMMA ServeTyped == ASSUME Typed, Serve PROVE Typed'
<1>1. RowsOK /\ Requested
  BY DEF Typed
<1>2. ASSUME NEW valid \in SUBSET request.portals, Publish(valid) PROVE Typed'
  <2> DEFINE to(p) == IF p \in valid THEN "queued" ELSE "failed"
  <2>1. request.portals \in SUBSET Portals /\ request.version \in Nat
    BY <1>1 DEF RowsOK, Request
  <2>2. \A p \in Portals : /\ [pub[p] EXCEPT !.status = to(p)] \in Publication
                           /\ [pub[p] EXCEPT !.status = to(p)].status = to(p)
    BY <1>1 DEF RowsOK, Publication, PubStatus
  <2>3. \A p \in Portals : pub'[p] = IF p \in request.portals THEN [pub[p] EXCEPT !.status = to(p)]
                                                              ELSE pub[p]
    BY <1>2 DEF Publish
  <2> HIDE DEF to
  <2>4. pub' \in [Portals -> Publication]
    <3>1. pub' = [p \in Portals |-> pub'[p]]
      BY <1>2 DEF Publish
    <3>2. \A p \in Portals : pub'[p] \in Publication
      BY <1>1, <2>2, <2>3 DEF RowsOK
    <3>3. QED
      BY <3>1, <3>2
  <2>5. \A p \in Portals : to(p) # "none"
    BY DEF to
  <2>6. Rows \subseteq Rows' /\ valid \subseteq Rows'
    <3>1. \A p \in request.portals : p \in Portals /\ pub'[p].status # "none"
      BY <2>1, <2>2, <2>3, <2>5
    <3>2. \A p \in Portals \ request.portals : pub'[p] = pub[p]
      BY <2>3
    <3>3. QED
      BY <3>1, <3>2 DEF Rows
  <2> DEFINE keys == {JobKey("publish", p, request.version) : p \in valid}
  <2>7. job' = Enqueued(keys)
    BY <1>2 DEF Publish
  <2>8. \A k \in keys : k \in Key /\ k.portal \in Rows'
    BY <2>1, <2>6, KeyOf DEF Kind
  <2> HIDE DEF keys
  <2>9. /\ DOMAIN job \subseteq DOMAIN job' /\ \A k \in DOMAIN job : job'[k] = job[k]
        /\ \A k \in DOMAIN job' \ DOMAIN job : k \in Key /\ job'[k] \in Job /\ k.portal \in Rows'
    BY <2>7, <2>8, EnqueuedIs
  <2>10. listing' \in [status : DOMAIN Moves, version : Nat]
    BY <1>1, <1>2, MovesDomain DEF Publish, RowsOK
  <2>11. Answered /\ UNCHANGED <<advert, work, asked, crashes>>
    BY <1>2 DEF Publish
  <2>12. QED
    BY <1>1, <2>4, <2>6, <2>9, <2>10, <2>11, AnsweredIs, RequestTyped DEF RowsOK
<1>3. CASE UpdateListing
  <2>1. listing' \in [status : DOMAIN Moves, version : Nat]
    BY <1>1, <1>3 DEF UpdateListing, RowsOK
  <2>2. pub' \in [Portals -> Publication] /\ Rows \subseteq Rows'
    <3>1. CASE pub' = pub
      BY <1>1, <3>1 DEF RowsOK, Rows
    <3>2. CASE pub' = SetStatus({p \in Portals : pub[p].status = "published"}, "queued")
      BY <1>1, <3>2, StatusSet DEF PubStatus
    <3>3. QED
      BY <1>3, <3>1, <3>2 DEF UpdateListing
  <2>3. QED
    BY <1>1, <1>3, <2>1, <2>2, AnsweredIs, RequestTyped DEF UpdateListing, RowsOK
<1>4. CASE ChangeStatus
  <2>1. listing' \in [status : DOMAIN Moves, version : Nat]
    BY <1>1, <1>4 DEF ChangeStatus, RowsOK, Request
  <2>2. Rows' = Rows
    BY <1>4 DEF ChangeStatus, Rows
  <2>3. QED
    BY <1>1, <1>4, <2>1, <2>2, AnsweredIs, RequestTyped DEF ChangeStatus, RowsOK
<1>5. ASSUME NEW p \in Portals, Mark(p) PROVE Typed'
  <2>1. /\ request.op \in {"unpublish", "retry"} /\ p \in request.portals
        /\ request' = [request EXCEPT !.at = p, !.portals = @ \ {p}]
        /\ UNCHANGED <<listing, advert, job, work, asked, crashes>>
    BY <1>5 DEF Mark
  <2>2. pub' \in [Portals -> Publication] /\ Rows \subseteq Rows' /\ p \in Rows'
    <3>1. CASE request.op = "retry"
      BY <1>1, <1>5, <3>1, StatusSet DEF Mark, PubStatus
    <3>2. CASE request.op # "retry"
      BY <1>1, <1>5, <3>2, StatusSet DEF Mark, PubStatus
    <3>3. QED
      BY <3>1, <3>2
  <2>3. request' \in Request
    BY <1>1, <2>1 DEF RowsOK, Request
  <2>4. request'.portals \subseteq request.portals /\ request'.at = p
    BY <1>1, <2>1 DEF RowsOK, Request
  <2>5. Requested'
    BY <1>1, <2>1, <2>2, <2>4 DEF Requested
  <2>6. QED
    BY <1>1, <2>1, <2>2, <2>3, <2>5, RequestTyped DEF RowsOK
<1>6. CASE Queue
  <2> DEFINE key == IF request.op = "retry" THEN JobKey("retry", request.at, asked)
                                            ELSE UnpublishKey(request.at)
  <2>1. /\ request.op \in {"unpublish", "retry"} /\ request.at # None
        /\ job' = Enqueued({key}) /\ request' = [request EXCEPT !.at = None]
        /\ UNCHANGED <<listing, pub, advert, work, asked, crashes>>
    BY <1>6 DEF Queue
  <2>2. request.at \in Rows /\ request.at \in Portals
    BY <1>1, <2>1 DEF Requested, Rows
  <2>3. key \in Key /\ key.portal = request.at
    BY <1>1, <2>2, KeyOf DEF UnpublishKey, Kind, RowsOK
  <2> HIDE DEF key
  <2>4. Rows' = Rows
    BY <2>1 DEF Rows
  <2>5. request' \in Request
    BY <1>1, <2>1 DEF RowsOK, Request
  <2>6. request'.portals = request.portals /\ request'.at = None
    BY <1>1, <2>1 DEF RowsOK, Request
  <2>7. Requested'
    BY <1>1, <2>1, <2>4, <2>6 DEF Requested
  <2>8. /\ DOMAIN job \subseteq DOMAIN job' /\ \A k \in DOMAIN job : job'[k] = job[k]
        /\ \A k \in DOMAIN job' \ DOMAIN job : k \in Key /\ job'[k] \in Job /\ k.portal \in Rows'
    <3>1. job' = Enqueued({key})
      BY <2>1
    <3>2. key \in Key /\ key.portal \in Rows'
      BY <2>2, <2>3, <2>4
    <3>3. \A k \in DOMAIN job' \ DOMAIN job : k = key /\ job'[k] \in Job
      BY <3>1, EnqueuedIs
    <3>4. QED
      BY <3>1, <3>2, <3>3, EnqueuedIs
  <2>9. QED
    BY <1>1, <2>1, <2>4, <2>5, <2>7, <2>8, RequestTyped DEF RowsOK
<1>7. CASE AllMarked
  <2>1. Rows' = Rows
    BY <1>7 DEF AllMarked, Rows
  <2>2. QED
    BY <1>1, <1>7, <2>1, AnsweredIs, RequestTyped DEF AllMarked, RowsOK
<1>8. QED
  BY <1>2, <1>3, <1>4, <1>5, <1>6, <1>7 DEF Serve

LEMMA RequestDiesTyped == ASSUME Typed, RequestDies PROVE Typed'
<1>1. Rows' = Rows /\ crashes' \in Nat
  BY DEF RequestDies, Rows, Typed, RowsOK
<1>2. QED
  BY <1>1, AnsweredIs, RequestTyped DEF RequestDies, Typed, RowsOK

LEMMA SweepTyped == ASSUME Typed, NEW p \in Portals, Sweep(p) PROVE Typed'
<1>1. job' = Enqueued({SweepKey(p)}) /\ UNCHANGED <<listing, pub, advert, work, request, asked, crashes>>
  BY DEF Sweep
<1>2. SweepKey(p) \in Key /\ SweepKey(p).portal = p /\ p \in Rows
  BY KeyOf DEF SweepKey, Kind, Typed, RowsOK, Publication, Sweep, Rows
<1>3. Rows' = Rows /\ Requested'
  BY <1>1 DEF Rows, Typed, Requested
<1>4. /\ DOMAIN job \subseteq DOMAIN job' /\ \A k \in DOMAIN job : job'[k] = job[k]
      /\ \A k \in DOMAIN job' \ DOMAIN job : k \in Key /\ job'[k] \in Job /\ k.portal \in Rows'
  BY <1>1, <1>2, <1>3, EnqueuedIs
<1>5. QED
  BY <1>1, <1>3, <1>4, RequestTyped DEF Typed, RowsOK

-----------------------------------------------------------------------------
(* Jobs *)

(* Under apart a job is claimed only when it is queued                     *)
LEMMA TakeApart ==
  ASSUME Typed, apart', NEW w \in Workers, NEW k \in DOMAIN job, Take(w, k)
  PROVE  /\ request.op = "idle" /\ job[k].status = "queued" /\ work[w].step = "idle"
         /\ UNCHANGED <<pub, advert, request, crashes>>
<1>1. job[k].status \in {"queued", "running", "over"}
  BY DEF Typed, RowsOK, Job
<1>2. job[k].status \notin {"running", "over"}
  BY DEF Take
<1>3. QED
  BY <1>1, <1>2 DEF Take

LEMMA TakeTyped == ASSUME Typed, NEW w \in Workers, NEW k \in DOMAIN job, Take(w, k) PROVE Typed'
<1> DEFINE row == pub[k.portal]
           x == [step |-> IF k.kind = "unpublish" THEN "remove" ELSE "begin",
                 key |-> k, attempts |-> row.attempts, to |-> "none"]
<1>1. k \in Key /\ job[k].status # "running" /\ work[w].step = "idle"
      /\ UNCHANGED <<listing, pub, advert, request, asked>> /\ crashes' \in Nat
  BY DEF Typed, RowsOK, Take
<1>2. \A v \in Workers : work[v].step # "idle" =>
        /\ work[v].key # k /\ work[v].key \in DOMAIN job /\ job[work[v].key].status = "running"
        /\ \A u \in Workers \ {v} : work[u].step # "idle" => work[u].key # work[v].key
  BY <1>1 DEF Typed, RowsOK
<1>3. Rows' = Rows
  BY <1>1 DEF Rows
<1>4. Kept(job', k)
  BY FailedKeeps, ClaimedKeeps DEF Typed, Take
<1>5. DOMAIN job' \subseteq Key /\ \A y \in DOMAIN job' : job'[y] \in Job /\ y.portal \in Rows'
  BY <1>3, <1>4 DEF Kept, Typed, RowsOK
<1>6. \A v \in Workers : work[v].step # "idle" =>
        work[v].key \in DOMAIN job' /\ job'[work[v].key].status = "running"
  BY <1>2, <1>4 DEF Kept
<1>7. CASE UNCHANGED work
  <2>1. RowsOK'
    BY <1>1, <1>2, <1>5, <1>6, <1>7 DEF Typed, RowsOK
  <2>2. QED
    BY <2>1, <1>1, <1>3, <1>7 DEF Typed, Requested, Writes
<1>8. CASE job' = Claimed(k) /\ work' = [work EXCEPT ![w] = x]
  <2>1. x \in Work
    <3>1. k.portal \in Portals
      BY <1>1 DEF Key
    <3>2. row.attempts \in Nat
      BY <3>1 DEF Typed, RowsOK, Publication
    <3>3. QED
      BY <1>1, <3>2 DEF Work, Step, PubStatus
  <2>2. x.key = k /\ x.step \in {"remove", "begin"}
    OBVIOUS
  <2> HIDE DEF x
  <2>3. work' \in [Workers -> Work] /\ \A v \in Workers : work'[v] = IF v = w THEN x ELSE work[v]
    BY <1>8, <2>1 DEF Typed, RowsOK
  <2>4. job'[k].status = "running" /\ k \in DOMAIN job'
    BY <1>8, ClaimedKeeps DEF Typed, Kept
  <2>5. ASSUME NEW v \in Workers, work'[v].step # "idle"
        PROVE  /\ work'[v].key \in DOMAIN job' /\ job'[work'[v].key].status = "running"
               /\ \A u \in Workers \ {v} : work'[u].step # "idle" => work'[u].key # work'[v].key
    <3>1. CASE v = w
      BY <3>1, <1>2, <2>2, <2>3, <2>4
    <3>2. CASE v # w
      <4>1. work'[v] = work[v] /\ work[v].step # "idle"
        BY <2>3, <2>5, <3>2
      <4>2. \A u \in Workers \ {v} : work'[u].step # "idle" => work'[u].key # work'[v].key
        BY <1>2, <2>2, <2>3, <4>1
      <4>3. QED
        BY <1>6, <4>1, <4>2
    <3>3. QED
      BY <3>1, <3>2
  <2>6. RowsOK'
    BY <1>1, <1>5, <2>3, <2>5 DEF Typed, RowsOK
  <2>7. Writes'
    BY <2>2, <2>3 DEF Typed, Writes
  <2>8. QED
    BY <2>6, <2>7, <1>1, <1>3 DEF Typed, Requested
<1>9. QED
  BY <1>7, <1>8 DEF Take

LEMMA GoOnIs ==
  ASSUME Typed, NEW w \in Workers, work[w].step # "idle", NEW step \in Step,
         NEW to \in PubStatus \cup DOMAIN Moves, GoOn(w, step, to)
  PROVE  LET x == [step |-> step, key |-> work[w].key, attempts |-> 0, to |-> to]
         IN  x \in Work /\ work' = [work EXCEPT ![w] = x]
<1>1. work[w] \in Work
  BY DEF Typed, RowsOK
<1>2. QED
  BY <1>1 DEF GoOn, Work

LEMMA GoesOnTyped ==
  ASSUME Typed, NEW w \in Workers, work[w].step # "idle", NEW step \in Step,
         NEW to \in PubStatus \cup DOMAIN Moves, GoOn(w, step, to),
         step = "write" => to \in Answers,
         step = "aggregate" => to \in DOMAIN Moves \cup {"none"},
         Rows \subseteq Rows', UNCHANGED <<listing, job, request, asked, crashes>>,
         pub' \in [Portals -> Publication], advert' \in [Portals -> BOOLEAN]
  PROVE  Typed'
<1> DEFINE x == [step |-> step, key |-> work[w].key, attempts |-> 0, to |-> to]
<1>1. x \in Work /\ work' = [work EXCEPT ![w] = x]
  BY GoOnIs
<1>2. x.step = step /\ x.key = work[w].key /\ x.to = to
  OBVIOUS
<1> HIDE DEF x
<1>3. listing' \in [status : DOMAIN Moves, version : Nat] /\ asked' \in Nat /\ crashes' \in Nat
  BY DEF Typed, RowsOK
<1>4. QED
  BY <1>1, <1>2, <1>3, WorkerTyped

LEMMA AggregateIs == ASSUME RowsOK PROVE Aggregate \in DOMAIN Moves
BY MovesDomain DEF Aggregate, RowsOK

LEMMA AdvanceTyped == ASSUME Typed, NEW w \in Workers, Advance(w) \/ Crash(w) PROVE Typed'
<1>1. RowsOK /\ Writes
  BY DEF Typed
<1>2. work[w].step # "idle"
  BY DEF Advance, Crash, Begin, Write, Count, Finish, RemoveThrows, Call, Remove
<1>3. work[w] \in Work /\ work[w].key \in DOMAIN job /\ At(w) \in Portals /\ At(w) \in Rows
  BY <1>1, <1>2, WorkerHolds
<1>4. /\ listing \in [status : DOMAIN Moves, version : Nat] /\ pub \in [Portals -> Publication]
      /\ advert \in [Portals -> BOOLEAN] /\ asked \in Nat /\ crashes \in Nat
  BY <1>1 DEF RowsOK
<1>5. UNCHANGED pub => Rows' = Rows
  BY DEF Rows
<1>6. CASE Begin(w)
  <2>1. pub' \in [Portals -> Publication]
    BY <1>3, <1>4, <1>6 DEF Begin, Publication, PubStatus, Work
  <2>2. Rows \subseteq Rows'
    BY <1>3, <1>4, <1>6 DEF Begin, Rows
  <2>3. GoOn(w, "call", "none") /\ UNCHANGED <<listing, advert, job, request, asked, crashes>>
    BY <1>6 DEF Begin
  <2>4. QED
    BY <2>1, <2>2, <2>3, <1>2, <1>4, GoesOnTyped DEF Step, PubStatus
<1>7. ASSUME NEW answer \in {"published", "failed", "rejected"}, Call(w, answer) PROVE Typed'
  <2>1. GoOn(w, "write", answer) /\ UNCHANGED <<listing, pub, job, request, asked, crashes>>
        /\ advert' \in [Portals -> BOOLEAN]
    BY <1>4, <1>7 DEF Call
  <2>2. QED
    BY <2>1, <1>2, <1>4, <1>5, GoesOnTyped DEF Step, PubStatus, Answers
<1>8. ASSUME NEW answer \in {"unpublished", "failed"}, Remove(w, answer) PROVE Typed'
  <2>1. GoOn(w, "write", answer) /\ UNCHANGED <<listing, pub, job, request, asked, crashes>>
        /\ advert' \in [Portals -> BOOLEAN]
    BY <1>4, <1>8 DEF Remove
  <2>2. QED
    BY <2>1, <1>2, <1>4, <1>5, GoesOnTyped DEF Step, PubStatus, Answers
<1>9. CASE RemoveThrows(w)
  <2>1. UNCHANGED <<listing, pub, request, asked, crashes>> /\ advert' \in [Portals -> BOOLEAN]
        /\ job' = Failed(work[w].key) /\ work' = [work EXCEPT ![w] = Idle]
    BY <1>4, <1>9 DEF RemoveThrows
  <2>2. Kept(job', work[w].key)
    BY <2>1, <1>1, <1>3, FailedKeeps
  <2>3. QED
    BY <2>1, <2>2, <1>2, <1>4, <1>5, IdleWork, WorkerTyped
<1>10. CASE Write(w)
  <2>1. work[w].to \in Answers /\ pub' = SetStatus({At(w)}, work[w].to)
        /\ GoOn(w, "count", "none") /\ UNCHANGED <<listing, advert, job, request, asked, crashes>>
    BY <1>1, <1>10 DEF Write, Writes
  <2>2. work[w].to \in PubStatus \ {"none"}
    BY <2>1 DEF Answers, PubStatus
  <2>3. pub' \in [Portals -> Publication] /\ Rows \subseteq Rows'
    BY <2>1, <2>2, <1>1, StatusSet
  <2>4. QED
    BY <2>1, <2>3, <1>2, <1>4, GoesOnTyped DEF Step, PubStatus
<1>11. CASE Count(w)
  <2> DEFINE to == IF Aggregate = listing.status THEN "none" ELSE Aggregate
  <2>1. to \in DOMAIN Moves \cup {"none"} /\ to \in PubStatus \cup DOMAIN Moves
    BY <1>1, AggregateIs DEF PubStatus
  <2>2. GoOn(w, "aggregate", to) /\ UNCHANGED <<listing, pub, advert, job, request, asked, crashes>>
    BY <1>11 DEF Count
  <2> HIDE DEF to
  <2>3. QED
    BY <2>1, <2>2, <1>2, <1>4, <1>5, GoesOnTyped DEF Step
<1>12. CASE Finish(w)
  <2>1. UNCHANGED <<pub, advert, request, asked, crashes>>
        /\ job' = Over(work[w].key) /\ work' = [work EXCEPT ![w] = Idle]
    BY <1>12 DEF Finish
  <2>2. listing' \in [status : DOMAIN Moves, version : Nat]
    BY <1>1, <1>4, <1>12 DEF Finish, Writes
  <2>3. Kept(job', work[w].key)
    BY <2>1, <1>1, <1>3, OverKeeps
  <2>4. QED
    BY <2>1, <2>2, <2>3, <1>2, <1>4, <1>5, IdleWork, WorkerTyped
<1>13. CASE Crash(w)
  <2>1. UNCHANGED <<listing, pub, advert, job, request, asked>>
        /\ crashes' = crashes + 1 /\ work' = [work EXCEPT ![w] = Idle]
    BY <1>13 DEF Crash
  <2>2. Kept(job', work[w].key) /\ crashes' \in Nat
    BY <2>1, <1>1, <1>4 DEF Kept, RowsOK
  <2>3. QED
    BY <2>1, <2>2, <1>2, <1>4, <1>5, IdleWork, WorkerTyped
<1>14. QED
  BY <1>6, <1>7, <1>8, <1>9, <1>10, <1>11, <1>12, <1>13 DEF Advance

LEMMA TypedKept == ASSUME Typed, [Next]_vars PROVE Typed'
<1>1. CASE UNCHANGED vars
  BY <1>1 DEF vars, Typed, RowsOK, Requested, Writes, Rows
<1>2. CASE Next
  BY <1>2, AsksTyped, ServeTyped, RequestDiesTyped, SweepTyped, TakeTyped, AdvanceTyped
     DEF Next, TakeAny
<1>3. QED
  BY <1>1, <1>2

(* What the history says of the overlaps changes only when users ask and   *)
(* when a worker takes a job.                                              *)
History == apart \in BOOLEAN /\ crossed \subseteq Portals

LEMMA HistoryMoves ==
  ASSUME Typed, [Next]_vars
  PROVE  \/ UNCHANGED <<apart, crossed>>
         \/ apart' = (apart /\ Settled) /\ crossed' = crossed
         \/ /\ apart' \in BOOLEAN /\ (apart' => apart)
            /\ \E k \in DOMAIN job : crossed' = crossed \/ crossed' = crossed \cup {k.portal}
<1>1. CASE UNCHANGED vars
  BY <1>1 DEF vars, history
<1>2. ASSUME NEW op, NEW portals, NEW status, Ask(op, portals, status)
      PROVE  apart' = (apart /\ Settled) /\ crossed' = crossed
  BY <1>2 DEF Ask
<1>3. ASSUME \/ \E portals \in SUBSET Portals \ {{}} : AskPublish(portals) \/ AskUnpublish(portals)
             \/ AskUpdate
             \/ \E to \in DOMAIN Moves : AskStatus(to)
             \/ \E p \in Portals : AskRetry(p)
      PROVE  apart' = (apart /\ Settled) /\ crossed' = crossed
  BY ONLY <1>2, <1>3 DEF AskPublish, AskUnpublish, AskUpdate, AskStatus, AskRetry
<1>4. ASSUME NEW p \in Portals, Sweep(p) PROVE UNCHANGED <<apart, crossed>>
  BY <1>4 DEF Sweep, history
<1>5. ASSUME Serve \/ RequestDies PROVE UNCHANGED <<apart, crossed>>
  BY <1>5 DEF Serve, RequestDies, Publish, UpdateListing, ChangeStatus, Queue, AllMarked, Mark, history
<1>6. ASSUME NEW w \in Workers, NEW k \in DOMAIN job, Take(w, k)
      PROVE  /\ apart' \in BOOLEAN /\ (apart' => apart)
             /\ crossed' = crossed \/ crossed' = crossed \cup {k.portal}
  BY <1>6 DEF Take
<1>7. ASSUME NEW w \in Workers, Advance(w) \/ Crash(w) PROVE UNCHANGED <<apart, crossed>>
  BY <1>7 DEF Advance, Crash, Begin, Write, Count, Finish, RemoveThrows, Call, Remove, history
<1>8. CASE Next
  BY <1>3, <1>4, <1>5, <1>6, <1>7, <1>8 DEF Next, TakeAny
<1>9. QED
  BY <1>1, <1>8

LEMMA HistoryKept == ASSUME Typed, History, [Next]_vars PROVE History' /\ (apart' => apart)
<1>1. \A k \in DOMAIN job : k.portal \in Portals
  BY DEF Typed, RowsOK, Key
<1>2. CASE UNCHANGED <<apart, crossed>>
  BY <1>2 DEF History
<1>3. CASE apart' = (apart /\ Settled) /\ crossed' = crossed
  BY <1>3 DEF History
<1>4. CASE /\ apart' \in BOOLEAN /\ (apart' => apart)
           /\ \E k \in DOMAIN job : crossed' = crossed \/ crossed' = crossed \cup {k.portal}
  <2>1. crossed' \subseteq Portals
    BY <1>1, <1>4 DEF History
  <2>2. apart' \in BOOLEAN /\ (apart' => apart)
    BY <1>4
  <2>3. QED
    BY <2>1, <2>2 DEF History
<1>5. QED
  BY <1>2, <1>3, <1>4, HistoryMoves

(* The rows keep their types, no job runs for two workers, and no job is   *)
(* of a publication that is not there.                                     *)
THEOREM TypeCorrect == Spec => []TypeOK
<1>1. Init => Typed /\ History
  BY InitTyped DEF Init, History
<1>2. Typed /\ History /\ [Next]_vars => Typed' /\ History'
  BY TypedKept, HistoryKept
<1>3. Typed /\ History => TypeOK
  BY DEF Typed, History, TypeOK
<1>4. QED
  BY <1>1, <1>2, <1>3, PTL DEF Spec

-----------------------------------------------------------------------------
(* What a publication says, when users ask apart: while an unpublish is    *)
(* queued or removes the advert the publication is "unpublishing", so that *)
(* no leftover job publishes it meanwhile.                                 *)

Alone == request.op # "idle" => \A w \in Workers : work[w].step = "idle"
Leaving ==
  \A k \in DOMAIN job : k.kind = "unpublish" =>
    /\ k = UnpublishKey(k.portal)
    /\ job[k].status = "queued" =>
         pub[k.portal].status = "unpublishing" /\ request.op \notin {"publish", "retry"}
Marking ==
  request.op = "unpublish" /\ request.at # None => pub[request.at].status = "unpublishing"

Leaves(w) == work[w].key.kind = "unpublish"
Gone == {"none", "unpublishing", "unpublished"}
WorkerAt(w) ==
  /\ work[w].step = "remove" => Leaves(w)
  /\ work[w].step \in {"begin", "call"} => ~Leaves(w)
  /\ work[w].step \in AtPortal =>
       IF Leaves(w) THEN pub[At(w)].status = "unpublishing" ELSE pub[At(w)].status \notin Gone
  /\ work[w].step = "write" =>
       /\ work[w].to = "published" => advert[At(w)] /\ ~Leaves(w)
       /\ work[w].to = "unpublished" => ~advert[At(w)] /\ Leaves(w)

AllTrue == \A p \in Portals : SaysSo(p)
Safe ==
  Typed /\ Alone /\ Leaving /\ Marking /\ AllTrue /\ \A w \in Workers : WorkerAt(w)

LEMMA InitSafe == ASSUME Init PROVE Safe
BY InitTyped, IdleWork
   DEF Init, Safe, Alone, Leaving, Marking, WorkerAt, AtPortal, AllTrue, SaysSo, NoRequest

(* No one asks before all is settled.                                      *)
LEMMA AskSafe ==
  ASSUME Safe, Typed', apart', NEW op \in {"publish", "edit", "change", "unpublish", "retry"},
         NEW portals, NEW status, Ask(op, portals, status)
  PROVE  Safe'
<1>1. Settled /\ UNCHANGED <<listing, pub, advert, job, work>> /\ request'.op = op /\ request'.at = None
  BY DEF Ask
<1>2. \A k \in DOMAIN job : k.portal \in Portals
  BY DEF Safe, Typed, RowsOK, Key
<1>3. \A k \in DOMAIN job : k.kind = "unpublish" => job[k].status # "queued"
  BY <1>1, <1>2 DEF Safe, Leaving, Settled
<1>4. Alone' /\ Marking'
  BY <1>1 DEF Settled, Alone, Marking
<1>5. Leaving'
  BY <1>1, <1>3 DEF Safe, Leaving, UnpublishKey, JobKey
<1>6. AllTrue' /\ \A w \in Workers : WorkerAt(w)'
  BY <1>1 DEF Safe, AllTrue, SaysSo, WorkerAt, At, Leaves
<1>7. QED
  BY <1>4, <1>5, <1>6 DEF Safe

(* While a request is served no job is at a portal.                        *)
LEMMA ServingIs ==
  ASSUME Safe, Typed', request.op # "idle", UNCHANGED <<advert, work>>,
         Leaving', Marking', AllTrue'
  PROVE  Safe'
<1>1. \A w \in Workers : work'[w].step = "idle"
  BY DEF Safe, Alone
<1>2. Alone' /\ \A w \in Workers : WorkerAt(w)'
  BY <1>1 DEF Alone, WorkerAt, AtPortal
<1>3. QED
  BY <1>2 DEF Safe

LEMMA ServeSafe == ASSUME Safe, Typed', Serve \/ RequestDies PROVE Safe'
<1>1. RowsOK /\ Requested /\ Leaving /\ Marking /\ AllTrue
  BY DEF Safe, Typed
<1>2. \A k \in DOMAIN job : k \in Key /\ k.portal \in Portals
  BY <1>1 DEF RowsOK, Key
<1>3. ASSUME Answered PROVE request'.op = "idle" /\ Marking'
  BY <1>3, NoRequestIs DEF Answered, Marking
<1>4. ASSUME NEW valid \in SUBSET request.portals, Publish(valid) PROVE Safe'
  <2> DEFINE keys == {JobKey("publish", p, request.version) : p \in valid}
  <2>1. /\ request.op = "publish" /\ job' = Enqueued(keys) /\ Answered
        /\ UNCHANGED <<advert, work>>
    BY <1>4 DEF Publish
  <2>2. \A k \in keys : k.kind # "unpublish"
    BY DEF JobKey
  <2> HIDE DEF keys
  <2>3. \A k \in DOMAIN job' : k.kind = "unpublish" => k \in DOMAIN job /\ job'[k] = job[k]
    BY <2>1, <2>2, EnqueuedIs
  <2>4. Leaving'
    BY <2>1, <2>3, <1>1 DEF Leaving, UnpublishKey, JobKey
  <2>5. AllTrue'
    <3>1. \A p \in Portals : pub'[p].status \in {"queued", "failed"} \/ pub'[p] = pub[p]
      BY <1>1, <1>4 DEF Publish, RowsOK, Publication
    <3>2. QED
      BY <3>1, <2>1, <1>1 DEF AllTrue, SaysSo
  <2>6. QED
    BY <2>1, <2>4, <2>5, <1>3, ServingIs
<1>5. CASE UpdateListing
  <2>1. request.op = "edit" /\ UNCHANGED <<advert, job, work>> /\ Answered
    BY <1>5 DEF UpdateListing
  <2>2. \A p \in Portals : \/ pub'[p].status = pub[p].status
                           \/ pub[p].status = "published" /\ pub'[p].status = "queued"
    BY <1>1, <1>5, StatusSet DEF UpdateListing, PubStatus
  <2>3. Leaving'
    BY <2>1, <2>2, <1>1, <1>2, <1>3 DEF Leaving, UnpublishKey, JobKey
  <2>4. AllTrue'
    BY <2>1, <2>2, <1>1 DEF AllTrue, SaysSo
  <2>5. QED
    BY <2>1, <2>3, <2>4, <1>3, ServingIs
<1>6. CASE ChangeStatus \/ AllMarked \/ RequestDies
  <2>1. request.op # "idle" /\ UNCHANGED <<pub, advert, job, work>> /\ Answered
    BY <1>6 DEF ChangeStatus, AllMarked, RequestDies
  <2>2. Leaving' /\ AllTrue'
    BY <2>1, <1>1, <1>3 DEF Leaving, AllTrue, SaysSo, UnpublishKey, JobKey
  <2>3. QED
    BY <2>1, <2>2, <1>3, ServingIs
<1>7. ASSUME NEW p \in Portals, Mark(p) PROVE Safe'
  <2>1. /\ request.op \in {"unpublish", "retry"} /\ UNCHANGED <<advert, job, work>>
        /\ request' = [request EXCEPT !.at = p, !.portals = @ \ {p}]
    BY <1>7 DEF Mark
  <2>2. request'.op = request.op /\ request'.at = p
    BY <2>1, <1>1 DEF RowsOK, Request
  <2>3. CASE request.op = "retry"
    <3>1. \A q \in Portals : pub'[q].status = IF q = p THEN "queued" ELSE pub[q].status
      <4>1. pub' = SetStatus({p}, "queued") /\ "queued" \in PubStatus \ {"none"}
        BY <1>7, <2>3 DEF Mark, PubStatus
      <4>2. \A q \in Portals : pub'[q].status = IF q \in {p} THEN "queued" ELSE pub[q].status
        BY ONLY <4>1, <1>1, StatusSet
      <4>3. QED
        BY <4>2
    <3>2. Leaving' /\ Marking'
      BY <2>1, <2>2, <2>3, <1>1 DEF Leaving, Marking, UnpublishKey, JobKey
    <3>3. AllTrue'
      BY <2>1, <3>1, <1>1 DEF AllTrue, SaysSo
    <3>4. QED
      BY <2>1, <3>2, <3>3, ServingIs
  <2>4. CASE request.op = "unpublish"
    <3>1. \A q \in Portals : pub'[q].status = IF q = p THEN "unpublishing" ELSE pub[q].status
      <4>1. pub' = SetStatus({p}, "unpublishing") /\ "unpublishing" \in PubStatus \ {"none"}
        BY <1>7, <2>4 DEF Mark, PubStatus
      <4>2. \A q \in Portals : pub'[q].status = IF q \in {p} THEN "unpublishing" ELSE pub[q].status
        BY ONLY <4>1, <1>1, StatusSet
      <4>3. QED
        BY <4>2
    <3>2. Leaving' /\ Marking'
      BY <2>1, <2>2, <2>4, <3>1, <1>1, <1>2 DEF Leaving, Marking, UnpublishKey, JobKey
    <3>3. AllTrue'
      BY <2>1, <3>1, <1>1 DEF AllTrue, SaysSo
    <3>4. QED
      BY <2>1, <3>2, <3>3, ServingIs
  <2>5. QED
    BY <2>1, <2>3, <2>4
<1>8. CASE Queue
  <2> DEFINE key == IF request.op = "retry" THEN JobKey("retry", request.at, asked)
                                            ELSE UnpublishKey(request.at)
  <2>1. /\ request.op \in {"unpublish", "retry"} /\ request.at # None
        /\ job' = Enqueued({key}) /\ request' = [request EXCEPT !.at = None]
        /\ UNCHANGED <<pub, advert, work>>
    BY <1>8 DEF Queue
  <2>2. request'.op = request.op /\ request'.at = None
    BY <2>1, <1>1 DEF RowsOK, Request
  <2>3. key.kind = "unpublish" =>
          /\ request.op = "unpublish" /\ key = UnpublishKey(key.portal)
          /\ pub[key.portal].status = "unpublishing"
    BY <2>1, <1>1 DEF UnpublishKey, JobKey, Marking
  <2> HIDE DEF key
  <2>4. \A k \in DOMAIN job' : (k \in DOMAIN job /\ job'[k] = job[k]) \/ k = key
    BY <2>1, EnqueuedIs
  <2>5. Leaving'
    BY <2>1, <2>2, <2>3, <2>4, <1>1 DEF Leaving, UnpublishKey, JobKey
  <2>6. Marking' /\ AllTrue'
    BY <2>1, <2>2, <1>1 DEF Marking, AllTrue, SaysSo
  <2>7. QED
    BY <2>1, <2>5, <2>6, ServingIs
<1>9. QED
  BY <1>4, <1>5, <1>6, <1>7, <1>8 DEF Serve

LEMMA SweepSafe == ASSUME Safe, Typed', NEW p \in Portals, Sweep(p) PROVE Safe'
<1>1. job' = Enqueued({SweepKey(p)}) /\ UNCHANGED <<pub, advert, work, request>>
  BY DEF Sweep
<1>2. SweepKey(p).kind = "sweep"
  BY DEF SweepKey, JobKey
<1>3. \A k \in DOMAIN job' : k.kind = "unpublish" => k \in DOMAIN job /\ job'[k] = job[k]
  BY <1>1, <1>2, EnqueuedIs
<1>4. Leaving'
  BY <1>1, <1>3 DEF Safe, Leaving, UnpublishKey, JobKey
<1>5. QED
  BY <1>1, <1>4 DEF Safe, Alone, Marking, AllTrue, SaysSo, WorkerAt, At, Leaves

LEMMA TakeSafe ==
  ASSUME Safe, Typed', apart', NEW w \in Workers, NEW k \in DOMAIN job, Take(w, k)
  PROVE  Safe'
<1>1. request.op = "idle" /\ UNCHANGED <<pub, advert, request>> /\ k \in Key /\ k.portal \in Portals
      /\ job[k].status = "queued" /\ work[w].step = "idle"
  BY TakeApart DEF Safe, Typed, RowsOK, Key
<1>2. RowsOK
  BY DEF Safe, Typed
<1>3. Alone' /\ Marking' /\ AllTrue'
  BY <1>1 DEF Safe, Alone, Marking, AllTrue, SaysSo
<1>4. CASE k.kind # "unpublish" /\ job' = Failed(k) /\ UNCHANGED work
  <2>1. Kept(job', k)
    BY <1>2, <1>4, FailedKeeps
  <2>2. Leaving'
    BY <1>1, <1>4, <2>1 DEF Safe, Leaving, Kept, UnpublishKey, JobKey
  <2>3. QED
    BY <1>1, <1>3, <1>4, <2>2 DEF Safe, WorkerAt, At, Leaves
<1>5. CASE /\ k.kind = "unpublish" \/ MayPublish(pub[k.portal].status)
           /\ job' = Claimed(k)
           /\ work' = [work EXCEPT ![w] = [step |-> IF k.kind = "unpublish" THEN "remove" ELSE "begin",
                                           key |-> k, attempts |-> pub[k.portal].attempts, to |-> "none"]]
  <2>1. Kept(job', k) /\ job'[k].status = "running"
    BY <1>2, <1>5, ClaimedKeeps
  <2>2. Leaving'
    BY <1>1, <2>1 DEF Safe, Leaving, Kept, UnpublishKey, JobKey
  <2>3. \A v \in Workers \ {w} : work'[v] = work[v]
    BY <1>2, <1>5 DEF RowsOK
  <2>4. work'[w].step = (IF k.kind = "unpublish" THEN "remove" ELSE "begin") /\ work'[w].key = k
    BY <1>2, <1>5 DEF RowsOK
  <2>5. k.kind = "unpublish" => pub[k.portal].status = "unpublishing"
    BY <1>1 DEF Safe, Leaving
  <2>6. k.kind # "unpublish" => pub[k.portal].status \notin Gone
    BY <1>5 DEF MayPublish, Gone
  <2>7. WorkerAt(w)'
    BY <1>1, <2>4, <2>5, <2>6 DEF WorkerAt, At, Leaves, AtPortal
  <2>8. \A v \in Workers \ {w} : WorkerAt(v)'
    BY <1>1, <2>3 DEF Safe, WorkerAt, At, Leaves
  <2>9. QED
    BY <1>3, <2>2, <2>7, <2>8 DEF Safe
<1>6. QED
  BY <1>4, <1>5 DEF Take

(* What a worker knows of the others at its portal: when it publishes they *)
(* all do, and when it removes the advert it is the only one.              *)
LEMMA OthersAt ==
  ASSUME Safe, NEW w \in Workers, work[w].step \in AtPortal,
         NEW v \in Workers \ {w}, work[v].step \in AtPortal, At(v) = At(w)
  PROVE  ~Leaves(w) /\ ~Leaves(v)
<1>1. work[w].step # "idle" /\ work[v].step # "idle"
  BY DEF AtPortal
<1>2. work[v].key # work[w].key /\ work[v].key \in DOMAIN job /\ work[w].key \in DOMAIN job
  BY <1>1 DEF Safe, Typed, RowsOK
<1>3. ASSUME Leaves(w), Leaves(v) PROVE FALSE
  BY <1>2, <1>3 DEF Safe, Leaving, Leaves, At
<1>4. Leaves(w) <=> Leaves(v)
  <2>1. (Leaves(w) => pub[At(w)].status = "unpublishing") /\ (~Leaves(w) => pub[At(w)].status \notin Gone)
    BY DEF Safe, WorkerAt
  <2>2. (Leaves(v) => pub[At(v)].status = "unpublishing") /\ (~Leaves(v) => pub[At(v)].status \notin Gone)
    BY DEF Safe, WorkerAt
  <2>3. QED
    BY <2>1, <2>2 DEF Gone
<1>5. QED
  BY <1>3, <1>4

(* A step of a worker on the publication p it is at: the others that are   *)
(* at p publish, and find the publication not gone.                        *)
LEMMA PortalStep ==
  ASSUME Safe, Typed', NEW w \in Workers, work[w].step # "idle", NEW p, p = At(w),
         \A v \in Workers \ {w} : work'[v] = work[v],
         \A q \in Portals \ {p} : pub'[q] = pub[q] /\ advert'[q] = advert[q],
         UNCHANGED request,
         work[w].step \in AtPortal \/ UNCHANGED <<pub, advert>>,
         ~Leaves(w) => pub'[p].status \notin Gone \/ UNCHANGED <<pub, advert>>,
         ~Leaves(w) => (advert[p] => advert'[p]),
         DOMAIN job' = DOMAIN job, \A k \in DOMAIN job \ {work[w].key} : job'[k] = job[k],
         job'[work[w].key].status = "queued" =>
           ~Leaves(w) \/ (pub'[p].status = "unpublishing"),
         pub'[p].status = "published" => advert'[p],
         pub'[p].status \in {"none", "unpublished"} => ~advert'[p],
         WorkerAt(w)'
  PROVE  Safe'
<1>1. request.op = "idle" /\ request'.op = "idle"
  BY DEF Safe, Alone
<1>2. Alone' /\ Marking'
  BY <1>1 DEF Alone, Marking
<1>3. AllTrue'
  BY DEF Safe, AllTrue, SaysSo
<1>4. ASSUME NEW v \in Workers \ {w} PROVE WorkerAt(v)'
  <2>1. At(v)' = At(v) /\ (Leaves(v)' <=> Leaves(v)) /\ work'[v] = work[v] /\ WorkerAt(v)
    BY DEF At, Leaves, Safe
  <2>2. work[v].step \in AtPortal => At(v) \in Portals
    BY WorkerHolds DEF Safe, Typed, AtPortal
  <2>3. CASE work[v].step \notin AtPortal
    BY <2>1, <2>3 DEF WorkerAt, AtPortal
  <2>4. CASE work[v].step \in AtPortal /\ At(v) # p
    BY <2>1, <2>2, <2>4 DEF WorkerAt
  <2>5. CASE work[v].step \in AtPortal /\ UNCHANGED <<pub, advert>>
    BY <2>1, <2>5 DEF WorkerAt
  <2>6. CASE work[v].step \in AtPortal /\ At(v) = p /\ ~UNCHANGED <<pub, advert>>
    <3>1. ~Leaves(w) /\ ~Leaves(v)
      BY <2>6, OthersAt
    <3>2. pub'[p].status \notin Gone
      BY <2>6, <3>1
    <3>3. QED
      BY <2>1, <2>6, <3>1, <3>2 DEF WorkerAt, AtPortal
  <2>7. QED
    BY <2>3, <2>4, <2>5, <2>6
<1>5. Leaving'
  <2> SUFFICES ASSUME NEW k \in DOMAIN job, k.kind = "unpublish"
               PROVE  /\ k = UnpublishKey(k.portal)
                      /\ job'[k].status = "queued" =>
                           pub'[k.portal].status = "unpublishing" /\ request'.op \notin {"publish", "retry"}
    BY DEF Leaving, UnpublishKey, JobKey
  <2>1. k = UnpublishKey(k.portal) /\ k.portal \in Portals
    BY DEF Safe, Leaving, Typed, RowsOK, Key
  <2>2. CASE k = work[w].key
    BY <2>1, <2>2, <1>1 DEF Leaves, At
  <2>3. CASE k # work[w].key /\ k.portal # p
    BY <2>1, <2>3, <1>1 DEF Safe, Leaving
  <2>4. CASE k # work[w].key /\ UNCHANGED <<pub, advert>>
    BY <2>1, <2>4, <1>1 DEF Safe, Leaving
  <2>5. CASE k # work[w].key /\ k.portal = p /\ ~UNCHANGED <<pub, advert>>
    <3>1. work[w].step \in AtPortal /\ work[w].key \in DOMAIN job
      BY <2>5, WorkerHolds DEF Safe, Typed
    <3>2. ~Leaves(w)
      <4>1. Leaves(w) => work[w].key = UnpublishKey(p)
        BY <3>1 DEF Safe, Leaving, Leaves, At
      <4>2. QED
        BY <4>1, <2>1, <2>5
    <3>3. pub[p].status # "unpublishing"
      BY <3>1, <3>2 DEF Safe, WorkerAt, Gone
    <3>4. job'[k] = job[k] /\ job[k].status # "queued"
      BY <2>5, <3>3 DEF Safe, Leaving
    <3>5. QED
      BY <2>1, <3>4
  <2>6. QED
    BY <2>2, <2>3, <2>4, <2>5
<1>6. QED
  BY <1>2, <1>3, <1>4, <1>5 DEF Safe

LEMMA AdvanceSafe == ASSUME Safe, Typed', NEW w \in Workers, Advance(w) \/ Crash(w) PROVE Safe'
<1> DEFINE p == At(w)
<1>1. RowsOK /\ AllTrue /\ WorkerAt(w)
  BY DEF Safe, Typed
<1>2. work[w].step # "idle"
  BY DEF Advance, Crash, Begin, Write, Count, Finish, RemoveThrows, Call, Remove
<1>3. work[w] \in Work /\ work[w].key \in DOMAIN job /\ p \in Portals /\ job[work[w].key].status = "running"
  BY <1>1, <1>2, WorkerHolds
<1>4. pub \in [Portals -> Publication] /\ advert \in [Portals -> BOOLEAN] /\ work \in [Workers -> Work]
  BY <1>1 DEF RowsOK
<1>5. /\ pub[p].status = "published" => advert[p]
      /\ pub[p].status \in {"none", "unpublished"} => ~advert[p]
  BY <1>1, <1>3 DEF AllTrue, SaysSo
<1>6. ASSUME NEW step, NEW to, GoOn(w, step, to)
      PROVE  /\ work'[w].step = step /\ work'[w].key = work[w].key /\ work'[w].to = to
             /\ At(w)' = p /\ (Leaves(w)' <=> Leaves(w))
             /\ \A v \in Workers \ {w} : work'[v] = work[v]
  BY <1>4, <1>6 DEF GoOn, At, Leaves
<1>7. ASSUME work' = [work EXCEPT ![w] = Idle]
      PROVE  WorkerAt(w)' /\ \A v \in Workers \ {w} : work'[v] = work[v]
  <2>1. work'[w] = Idle /\ \A v \in Workers \ {w} : work'[v] = work[v]
    BY <1>4, <1>7
  <2>2. QED
    BY <2>1, IdleWork DEF WorkerAt, AtPortal
<1>8. CASE Begin(w)
  <2>1. work[w].step = "begin" /\ GoOn(w, "call", "none") /\ UNCHANGED <<advert, job, request>>
        /\ pub' = [pub EXCEPT ![p] = [status |-> "publishing", attempts |-> work[w].attempts + 1]]
    BY <1>8 DEF Begin
  <2>2. pub'[p].status = "publishing" /\ \A q \in Portals \ {p} : pub'[q] = pub[q]
    BY <2>1, <1>3, <1>4
  <2>3. ~Leaves(w)
    BY <2>1, <1>1 DEF WorkerAt
  <2>4. WorkerAt(w)'
    BY <2>1, <2>2, <2>3, <1>6 DEF WorkerAt, AtPortal, Gone
  <2>5. work[w].step \in AtPortal /\ pub'[p].status \notin Gone
    BY <2>1, <2>2 DEF AtPortal, Gone
  <2>6. QED
    BY <2>1, <2>2, <2>3, <2>4, <2>5, <1>2, <1>3, <1>6, PortalStep
<1>9. ASSUME NEW answer \in {"published", "failed", "rejected"}, Call(w, answer) PROVE Safe'
  <2>1. work[w].step = "call" /\ GoOn(w, "write", answer) /\ UNCHANGED <<pub, job, request>>
    BY <1>9 DEF Call
  <2>2. /\ \A q \in Portals \ {p} : advert'[q] = advert[q]
        /\ advert[p] => advert'[p]
        /\ answer = "published" => advert'[p]
    BY <1>3, <1>4, <1>9 DEF Call
  <2>3. ~Leaves(w) /\ pub[p].status \notin Gone /\ work[w].step \in AtPortal
    BY <2>1, <1>1 DEF WorkerAt, AtPortal
  <2>4. WorkerAt(w)'
    BY <2>1, <2>2, <2>3, <1>6 DEF WorkerAt, AtPortal
  <2>5. /\ pub'[p].status = "published" => advert'[p]
        /\ pub'[p].status \in {"none", "unpublished"} => ~advert'[p]
        /\ pub'[p].status \notin Gone
    BY <2>1, <2>2, <2>3, <1>5 DEF Gone
  <2>6. QED
    BY <2>1, <2>2, <2>3, <2>4, <2>5, <1>2, <1>3, <1>6, PortalStep
<1>10. ASSUME NEW answer \in {"unpublished", "failed"}, Remove(w, answer) PROVE Safe'
  <2>1. work[w].step = "remove" /\ GoOn(w, "write", answer) /\ UNCHANGED <<pub, job, request>>
    BY <1>10 DEF Remove
  <2>2. /\ \A q \in Portals \ {p} : advert'[q] = advert[q]
        /\ answer = "unpublished" => ~advert'[p]
    BY <1>3, <1>4, <1>10 DEF Remove
  <2>3. Leaves(w) /\ pub[p].status = "unpublishing" /\ work[w].step \in AtPortal
    BY <2>1, <1>1 DEF WorkerAt, AtPortal
  <2>4. WorkerAt(w)'
    BY <2>1, <2>2, <2>3, <1>6 DEF WorkerAt, AtPortal
  <2>5. QED
    BY <2>1, <2>2, <2>3, <2>4, <1>2, <1>3, <1>6, PortalStep
<1>11. CASE RemoveThrows(w)
  <2>1. work[w].step = "remove" /\ UNCHANGED <<pub, request>>
        /\ job' = Failed(work[w].key) /\ work' = [work EXCEPT ![w] = Idle]
    BY <1>11 DEF RemoveThrows
  <2>2. \A q \in Portals \ {p} : advert'[q] = advert[q]
    BY <1>3, <1>4, <1>11 DEF RemoveThrows
  <2>3. Leaves(w) /\ pub[p].status = "unpublishing" /\ work[w].step \in AtPortal
    BY <2>1, <1>1 DEF WorkerAt, AtPortal
  <2>4. Kept(job', work[w].key)
    BY <2>1, <1>1, <1>3, FailedKeeps
  <2>5. QED
    BY <2>1, <2>2, <2>3, <2>4, <1>2, <1>3, <1>7, PortalStep DEF Kept
<1>12. CASE Write(w)
  <2>1. work[w].step = "write" /\ pub' = SetStatus({p}, work[w].to) /\ GoOn(w, "count", "none")
        /\ UNCHANGED <<advert, job, request>> /\ work[w].step \in AtPortal
    BY <1>12 DEF Write, AtPortal
  <2>2. work[w].to \in Answers /\ work[w].to \in PubStatus \ {"none"}
    BY <2>1 DEF Safe, Typed, Writes, Answers, PubStatus
  <2>3. pub'[p].status = work[w].to
    BY <2>1, <2>2, <1>1, <1>3, StatusSet
  <2>4. \A q \in Portals \ {p} : pub'[q] = pub[q]
    BY <2>1 DEF SetStatus
  <2>5. /\ work[w].to = "published" => advert[p] /\ ~Leaves(w)
        /\ work[w].to = "unpublished" => ~advert[p] /\ Leaves(w)
    BY <2>1, <1>1 DEF WorkerAt
  <2>6. WorkerAt(w)'
    BY <2>1, <1>6 DEF WorkerAt, AtPortal
  <2>7. ~Leaves(w) => pub'[p].status \notin Gone
    BY <2>2, <2>3, <2>5 DEF Answers, Gone
  <2>8. QED
    BY <2>1, <2>2, <2>3, <2>4, <2>5, <2>6, <2>7, <1>2, <1>3, <1>6, PortalStep DEF Answers
<1>13. CASE Count(w)
  <2>1. GoOn(w, "aggregate", IF Aggregate = listing.status THEN "none" ELSE Aggregate)
        /\ UNCHANGED <<pub, advert, job, request>>
    BY <1>13 DEF Count
  <2>2. WorkerAt(w)'
    BY <2>1, <1>6 DEF WorkerAt, AtPortal
  <2>3. \A v \in Workers \ {w} : work'[v] = work[v]
    BY <2>1, <1>6
  <2>4. QED
    BY <2>1, <2>2, <2>3, <1>2, <1>3, <1>5, PortalStep
<1>14. CASE Finish(w)
  <2>1. UNCHANGED <<pub, advert, request>> /\ job' = Over(work[w].key)
        /\ work' = [work EXCEPT ![w] = Idle]
    BY <1>14 DEF Finish
  <2>2. job'[work[w].key].status = "over" /\ Kept(job', work[w].key)
    BY <2>1, <1>1, <1>3, OverKeeps
  <2>3. QED
    BY <2>1, <2>2, <1>2, <1>3, <1>5, <1>7, PortalStep DEF Kept
<1>15. CASE Crash(w)
  <2>1. UNCHANGED <<pub, advert, job, request>> /\ work' = [work EXCEPT ![w] = Idle]
    BY <1>15 DEF Crash
  <2>2. QED
    BY <2>1, <1>2, <1>3, <1>5, <1>7, PortalStep
<1>16. QED
  BY <1>8, <1>9, <1>10, <1>11, <1>12, <1>13, <1>14, <1>15 DEF Advance

LEMMA ApartSafe == ASSUME apart', Safe, [Next]_vars PROVE Safe'
<1>1. Typed'
  BY TypedKept DEF Safe
<1>2. listing.status \in DOMAIN Moves
  BY DEF Safe, Typed, RowsOK
<1>3. ASSUME \/ \E portals \in SUBSET Portals \ {{}} : AskPublish(portals) \/ AskUnpublish(portals)
             \/ AskUpdate
             \/ \E to \in DOMAIN Moves : AskStatus(to)
             \/ \E p \in Portals : AskRetry(p)
      PROVE  Safe'
  BY <1>1, <1>2, <1>3, AskSafe DEF AskPublish, AskUnpublish, AskUpdate, AskStatus, AskRetry
<1>4. CASE UNCHANGED vars
  BY <1>1, <1>4 DEF vars, Safe, Alone, Leaving, Marking, AllTrue, SaysSo, WorkerAt, At, Leaves, UnpublishKey, JobKey
<1>5. CASE Next
  BY <1>1, <1>3, <1>5, ServeSafe, SweepSafe, TakeSafe, AdvanceSafe DEF Next, TakeAny
<1>6. QED
  BY <1>4, <1>5

-----------------------------------------------------------------------------
(* What a publication says, whenever users ask: at a portal where jobs to  *)
(* publish and to remove it never met, those under way are all of one kind,*)
(* and to remove it means that it does not say published.                  *)

AtThe(p) == {w \in Workers : work[w].step \in AtPortal /\ At(w) = p}
OneKind(w) ==
  /\ work[w].step = "remove" => Leaves(w)
  /\ work[w].step \in {"begin", "call"} => ~Leaves(w)
Knows(w) ==
  /\ OneKind(w)
  /\ Leaves(w) => pub[At(w)].status # "published"
  /\ work[w].step = "call" => pub[At(w)].status \notin {"none", "unpublished"}
  /\ work[w].step = "write" =>
       /\ work[w].to = "published" => advert[At(w)] /\ ~Leaves(w)
       /\ work[w].to = "unpublished" => ~advert[At(w)] /\ Leaves(w)
Calm(p) ==
  /\ SaysSo(p)
  /\ \A w \in AtThe(p) : Knows(w)
  /\ \A v, w \in AtThe(p) : Leaves(v) <=> Leaves(w)
AllCalm == \A p \in Portals \ crossed : Calm(p)

LEMMA InitCalm == ASSUME Init PROVE AllCalm
BY IdleWork DEF Init, AllCalm, Calm, SaysSo, AtThe, AtPortal

(* A request, the sweep and what moves nothing at a portal: a status may   *)
(* become one that claims nothing.                                         *)
LEMMA UserCalm ==
  ASSUME NEW p \in Portals, Calm(p), UNCHANGED <<advert, work>>,
         pub'[p].status \in {pub[p].status, "queued", "failed", "unpublishing"}
  PROVE  Calm(p)'
<1>1. AtThe(p)' = AtThe(p) /\ \A w \in Workers : (Leaves(w)' <=> Leaves(w)) /\ At(w)' = At(w)
  BY DEF AtThe, At, Leaves
<1>2. SaysSo(p)'
  BY DEF Calm, SaysSo
<1>3. ASSUME NEW w \in AtThe(p) PROVE Knows(w)'
  <2>1. Knows(w) /\ At(w) = p /\ w \in Workers
    BY DEF Calm, AtThe
  <2>2. QED
    BY <1>1, <2>1 DEF Knows, OneKind
<1>4. QED
  BY <1>1, <1>2, <1>3 DEF Calm, AtThe

(* A step of one worker: it takes the advert away only when it removes, it *)
(* places it only when it publishes, and the others at its portal do what  *)
(* it does.                                                                *)
LEMMA WorkerCalm ==
  ASSUME NEW p \in Portals, Calm(p), NEW w \in Workers,
         \A v \in Workers \ {w} : work'[v] = work[v],
         work'[w].step \in AtPortal => work[w].step \in AtPortal /\ work'[w].key = work[w].key,
         w \notin AtThe(p) => pub'[p].status = pub[p].status /\ advert'[p] = advert[p],
         w \in AtThe(p) =>
           /\ IF Leaves(w) THEN /\ advert'[p] => advert[p]
                                /\ pub'[p].status = "published" => pub[p].status = "published"
                           ELSE /\ advert[p] => advert'[p]
                                /\ pub'[p].status \notin {"none", "unpublished"} \/ pub'[p].status = pub[p].status
           /\ SaysSo(p)'
           /\ work'[w].step \in AtPortal => Knows(w)'
  PROVE  Calm(p)'
<1>1. SaysSo(p)'
  BY DEF Calm, SaysSo
<1>2. /\ AtThe(p)' \subseteq AtThe(p)
      /\ \A v \in Workers \ {w} : (Leaves(v)' <=> Leaves(v)) /\ At(v)' = At(v)
      /\ w \in AtThe(p)' => (Leaves(w)' <=> Leaves(w)) /\ At(w)' = At(w)
  BY DEF AtThe, At, Leaves
<1>3. ASSUME NEW v \in AtThe(p)' PROVE Knows(v)'
  <2>1. CASE v = w
    BY <1>2, <1>3, <2>1 DEF AtThe
  <2>2. CASE v # w
    <3>1. v \in Workers /\ v \in AtThe(p) /\ At(v) = p /\ At(v)' = p /\ (Leaves(v)' <=> Leaves(v))
          /\ Knows(v) /\ work'[v] = work[v]
      BY <1>2, <1>3, <2>2 DEF AtThe, Calm
    <3>2. w \in AtThe(p) => (Leaves(v) <=> Leaves(w))
      BY <3>1 DEF Calm
    <3>3. OneKind(v)'
      BY <3>1 DEF Knows, OneKind
    <3>4. CASE w \notin AtThe(p)
      BY <3>1, <3>3, <3>4 DEF Knows
    <3>5. CASE w \in AtThe(p) /\ Leaves(w)
      <4>1. Leaves(v) /\ work[v].step # "call"
        BY <3>1, <3>2, <3>5 DEF Knows, OneKind
      <4>2. QED
        BY <3>1, <3>3, <3>5, <4>1 DEF Knows
    <3>6. CASE w \in AtThe(p) /\ ~Leaves(w)
      BY <3>1, <3>2, <3>3, <3>6 DEF Knows
    <3>7. QED
      BY <3>4, <3>5, <3>6
  <2>3. QED
    BY <2>1, <2>2
<1>4. \A u, v \in AtThe(p)' : Leaves(u)' <=> Leaves(v)'
  <2>1. \A v \in AtThe(p)' : v \in AtThe(p) /\ (Leaves(v)' <=> Leaves(v))
    BY <1>2 DEF AtThe
  <2>2. QED
    BY <2>1 DEF Calm
<1>5. QED
  BY <1>1, <1>3, <1>4 DEF Calm

(* A worker that starts where nothing of the other kind is under way       *)
LEMMA TakeCalm ==
  ASSUME Typed, NEW p \in Portals, Calm(p), NEW w \in Workers, NEW k \in DOMAIN job, Take(w, k),
         p \notin crossed'
  PROVE  Calm(p)'
<1>1. UNCHANGED <<pub, advert>> /\ work[w].step = "idle" /\ work \in [Workers -> Work]
  BY DEF Take, Typed, RowsOK
<1>2. CASE UNCHANGED work
  BY <1>1, <1>2, UserCalm
<1>3. CASE /\ k.kind = "unpublish" \/ MayPublish(pub[k.portal].status)
           /\ work' = [work EXCEPT ![w] = [step |-> IF k.kind = "unpublish" THEN "remove" ELSE "begin",
                                           key |-> k, attempts |-> pub[k.portal].attempts, to |-> "none"]]
  <2>1. /\ work'[w].step = (IF k.kind = "unpublish" THEN "remove" ELSE "begin") /\ work'[w].key = k
        /\ \A v \in Workers \ {w} : work'[v] = work[v]
    BY <1>1, <1>3
  <2>2. At(w)' = k.portal /\ (Leaves(w)' <=> k.kind = "unpublish") /\ w \notin AtThe(p)
    BY <1>1, <2>1 DEF At, Leaves, AtThe, AtPortal
  <2>3. \A v \in Workers \ {w} : /\ At(v)' = At(v) /\ (Leaves(v)' <=> Leaves(v))
                                 /\ v \in AtThe(p)' <=> v \in AtThe(p)
    BY <2>1 DEF At, Leaves, AtThe
  <2>4. \A v \in AtThe(p) : v # w /\ v \in Workers /\ Knows(v) /\ At(v) = p
    BY <2>2 DEF Calm, AtThe
  <2>5. \A v \in AtThe(p) : Knows(v)'
    BY <1>1, <2>1, <2>3, <2>4 DEF Knows, OneKind
  <2>6. SaysSo(p)'
    BY <1>1 DEF Calm, SaysSo
  <2>7. CASE k.portal # p
    <3>1. AtThe(p)' = AtThe(p)
      BY <2>2, <2>3, <2>7 DEF AtThe
    <3>2. \A u, v \in AtThe(p) : Leaves(u)' <=> Leaves(v)'
      BY <2>3, <2>4 DEF Calm
    <3>3. QED
      BY <2>5, <2>6, <3>1, <3>2 DEF Calm
  <2>8. CASE k.portal = p
    <3>1. ~Crosses(k)
      BY <2>8 DEF Take
    <3>2. k.kind = "unpublish" => pub[p].status # "published"
      BY <3>1, <2>8 DEF Crosses
    <3>3. \A v \in AtThe(p) : Leaves(v) <=> k.kind = "unpublish"
      BY <3>1, <2>8 DEF Crosses, AtThe, Leaves
    <3>4. Knows(w)'
      BY <1>1, <2>1, <2>2, <2>8, <3>2 DEF Knows, OneKind
    <3>5. \A v \in AtThe(p)' : (v \in AtThe(p) \/ v = w) /\ (Leaves(v)' <=> k.kind = "unpublish")
      <4>1. \A v \in AtThe(p)' : v \in Workers
        BY DEF AtThe
      <4>2. QED
        BY <2>2, <2>3, <2>4, <3>3, <4>1
    <3>6. QED
      BY <2>5, <2>6, <3>4, <3>5 DEF Calm
  <2>9. QED
    BY <2>7, <2>8
<1>4. QED
  BY <1>2, <1>3 DEF Take

LEMMA AdvanceCalm ==
  ASSUME Typed, NEW p \in Portals, Calm(p), NEW w \in Workers, Advance(w) \/ Crash(w)
  PROVE  Calm(p)'
<1>1. RowsOK /\ pub \in [Portals -> Publication] /\ advert \in [Portals -> BOOLEAN]
      /\ work \in [Workers -> Work] /\ SaysSo(p)
  BY DEF Typed, RowsOK, Calm
<1>2. work[w].step # "idle" => At(w) \in Portals
  BY <1>1, WorkerHolds
<1>3. w \in AtThe(p) <=> work[w].step \in AtPortal /\ At(w) = p
  BY DEF AtThe
<1>4. w \in AtThe(p) => Knows(w)
  BY DEF Calm
<1>5. ASSUME NEW step, NEW to, GoOn(w, step, to)
      PROVE  /\ work'[w].step = step /\ work'[w].key = work[w].key /\ work'[w].to = to
             /\ At(w)' = At(w) /\ (Leaves(w)' <=> Leaves(w))
             /\ \A v \in Workers \ {w} : work'[v] = work[v]
  BY <1>1, <1>5 DEF GoOn, At, Leaves
<1>6. ASSUME work' = [work EXCEPT ![w] = Idle]
      PROVE  work'[w].step \notin AtPortal /\ \A v \in Workers \ {w} : work'[v] = work[v]
  BY <1>1, <1>6, IdleWork DEF AtPortal
<1>7. CASE Begin(w)
  <2>1. work[w].step = "begin" /\ GoOn(w, "call", "none") /\ UNCHANGED advert
        /\ pub' = [pub EXCEPT ![At(w)] = [status |-> "publishing", attempts |-> work[w].attempts + 1]]
    BY <1>7 DEF Begin
  <2>2. IF At(w) = p THEN pub'[p].status = "publishing" ELSE pub'[p] = pub[p]
    BY <2>1, <1>1, <1>2
  <2>3. work[w].step \in AtPortal
    BY <2>1 DEF AtPortal
  <2>4. w \in AtThe(p) => ~Leaves(w) /\ SaysSo(p)' /\ Knows(w)'
    BY <2>1, <2>2, <1>3, <1>4, <1>5 DEF Knows, OneKind, SaysSo
  <2>5. QED
    BY <2>1, <2>2, <2>3, <2>4, <1>3, <1>5, WorkerCalm
<1>8. ASSUME NEW answer \in {"published", "failed", "rejected"}, Call(w, answer) PROVE Calm(p)'
  <2>1. work[w].step = "call" /\ GoOn(w, "write", answer) /\ UNCHANGED pub
    BY <1>8 DEF Call
  <2>2. /\ At(w) # p => advert'[p] = advert[p]
        /\ advert[p] => advert'[p]
        /\ At(w) = p /\ answer = "published" => advert'[p]
    BY <2>1, <1>1, <1>2, <1>8 DEF Call
  <2>3. work[w].step \in AtPortal
    BY <2>1 DEF AtPortal
  <2>4. w \in AtThe(p) => ~Leaves(w) /\ SaysSo(p)' /\ Knows(w)'
    BY <2>1, <2>2, <1>1, <1>3, <1>4, <1>5, <1>8 DEF Knows, OneKind, SaysSo
  <2>5. QED
    BY <2>1, <2>2, <2>3, <2>4, <1>3, <1>5, WorkerCalm
<1>9. ASSUME NEW answer \in {"unpublished", "failed"}, Remove(w, answer) PROVE Calm(p)'
  <2>1. work[w].step = "remove" /\ GoOn(w, "write", answer) /\ UNCHANGED pub
    BY <1>9 DEF Remove
  <2>2. /\ At(w) # p => advert'[p] = advert[p]
        /\ advert'[p] => advert[p]
        /\ At(w) = p /\ answer = "unpublished" => ~advert'[p]
    BY <2>1, <1>1, <1>2, <1>9 DEF Remove
  <2>3. work[w].step \in AtPortal
    BY <2>1 DEF AtPortal
  <2>4. w \in AtThe(p) => Leaves(w) /\ SaysSo(p)' /\ Knows(w)'
    BY <2>1, <2>2, <1>1, <1>3, <1>4, <1>5, <1>9 DEF Knows, OneKind, SaysSo
  <2>5. QED
    BY <2>1, <2>2, <2>3, <2>4, <1>3, <1>5, WorkerCalm
<1>10. CASE RemoveThrows(w)
  <2>1. work[w].step = "remove" /\ UNCHANGED pub /\ work' = [work EXCEPT ![w] = Idle]
    BY <1>10 DEF RemoveThrows
  <2>2. /\ At(w) # p => advert'[p] = advert[p]
        /\ advert'[p] => advert[p]
    BY <2>1, <1>1, <1>2, <1>10 DEF RemoveThrows
  <2>3. w \in AtThe(p) => Leaves(w) /\ SaysSo(p)'
    BY <2>1, <2>2, <1>1, <1>3, <1>4 DEF Knows, OneKind, SaysSo
  <2>4. work[w].step \in AtPortal
    BY <2>1 DEF AtPortal
  <2>5. QED
    BY <2>1, <2>2, <2>3, <2>4, <1>3, <1>6, WorkerCalm
<1>11. CASE Write(w)
  <2>1. work[w].step = "write" /\ pub' = SetStatus({At(w)}, work[w].to) /\ GoOn(w, "count", "none")
        /\ UNCHANGED advert
    BY <1>11 DEF Write
  <2>2. work[w].to \in Answers /\ work[w].to \in PubStatus \ {"none"}
    BY <2>1 DEF Typed, Writes, Answers, PubStatus
  <2>3. pub'[p].status = IF p = At(w) THEN work[w].to ELSE pub[p].status
    <3>1. pub' = SetStatus({At(w)}, work[w].to)
      BY <2>1
    <3>2. [pub[p] EXCEPT !.status = work[w].to].status = work[w].to
      BY <1>1 DEF Publication
    <3>3. pub'[p] = IF p \in {At(w)} THEN [pub[p] EXCEPT !.status = work[w].to] ELSE pub[p]
      BY <3>1 DEF SetStatus
    <3>4. QED
      BY <3>2, <3>3
  <2>4. w \in AtThe(p) => /\ Leaves(w) => work[w].to # "published"
                          /\ ~Leaves(w) => work[w].to \notin {"none", "unpublished"}
                          /\ SaysSo(p)'
    BY <2>1, <2>2, <2>3, <1>3, <1>4 DEF Knows, SaysSo, Answers
  <2>5. work[w].step \in AtPortal /\ work'[w].step \notin AtPortal /\ \A v \in Workers \ {w} : work'[v] = work[v]
    BY <2>1, <1>5 DEF AtPortal
  <2>6. QED
    BY <2>1, <2>3, <2>4, <2>5, <1>3, WorkerCalm
<1>12. CASE Count(w) \/ Finish(w) \/ Crash(w)
  <2>1. UNCHANGED <<pub, advert>>
    BY <1>12 DEF Count, Finish, Crash
  <2>2. work'[w].step \notin AtPortal /\ \A v \in Workers \ {w} : work'[v] = work[v]
    <3>1. CASE Count(w)
      BY <3>1, <1>5 DEF Count, AtPortal
    <3>2. CASE Finish(w) \/ Crash(w)
      BY <3>2, <1>6 DEF Finish, Crash
    <3>3. QED
      BY <3>1, <3>2, <1>12
  <2>3. SaysSo(p)'
    BY <2>1, <1>1 DEF SaysSo
  <2>4. QED
    BY <2>1, <2>2, <2>3, WorkerCalm
<1>13. QED
  BY <1>7, <1>8, <1>9, <1>10, <1>11, <1>12 DEF Advance

(* What users and the sweep write                                          *)
LEMMA UsersWrite ==
  ASSUME Typed, \/ Serve \/ RequestDies
                \/ \E p \in Portals : Sweep(p),
         NEW p \in Portals
  PROVE  /\ UNCHANGED <<advert, work>>
         /\ pub'[p].status \in {pub[p].status, "queued", "failed", "unpublishing"}
<1>1. RowsOK /\ pub \in [Portals -> Publication]
  BY DEF Typed, RowsOK
<1>2. ASSUME NEW S, NEW status \in {"queued", "unpublishing"}, pub' = SetStatus(S, status)
      PROVE  pub'[p].status \in {pub[p].status, "queued", "failed", "unpublishing"}
  BY <1>1, <1>2 DEF SetStatus, Publication
<1>3. ASSUME NEW valid \in SUBSET request.portals, Publish(valid)
      PROVE  UNCHANGED <<advert, work>> /\ pub'[p].status \in {pub[p].status, "queued", "failed", "unpublishing"}
  BY <1>1, <1>3 DEF Publish, Publication
<1>4. CASE UpdateListing
  BY <1>2, <1>4 DEF UpdateListing
<1>5. CASE ChangeStatus \/ AllMarked \/ RequestDies \/ Queue
  BY <1>5 DEF ChangeStatus, AllMarked, RequestDies, Queue
<1>6. ASSUME NEW q \in Portals, Mark(q)
      PROVE  UNCHANGED <<advert, work>> /\ pub'[p].status \in {pub[p].status, "queued", "failed", "unpublishing"}
  <2>1. UNCHANGED <<advert, work>> /\ \E status \in {"queued", "unpublishing"} : pub' = SetStatus({q}, status)
    BY <1>6 DEF Mark
  <2>2. QED
    BY ONLY <2>1, <1>2
<1>7. CASE \E q \in Portals : Sweep(q)
  BY <1>7 DEF Sweep
<1>8. QED
  BY <1>3, <1>4, <1>5, <1>6, <1>7 DEF Serve

LEMMA AllCalmKept == ASSUME Typed, History, AllCalm, [Next]_vars PROVE AllCalm'
<1> SUFFICES ASSUME NEW p \in Portals, p \notin crossed' PROVE Calm(p)'
  BY DEF AllCalm
<1>1. p \notin crossed
  <2>1. \/ crossed' = crossed
        \/ \E k \in DOMAIN job : crossed' = crossed \cup {k.portal}
    BY HistoryMoves
  <2>2. QED
    BY <2>1
<1>2. Calm(p)
  BY <1>1 DEF AllCalm
<1>3. CASE UNCHANGED vars
  BY <1>2, <1>3, UserCalm DEF vars
<1>4. ASSUME \/ \E portals \in SUBSET Portals \ {{}} : AskPublish(portals) \/ AskUnpublish(portals)
             \/ AskUpdate
             \/ \E to \in DOMAIN Moves : AskStatus(to)
             \/ \E q \in Portals : AskRetry(q)
      PROVE  Calm(p)'
  <2>1. UNCHANGED <<pub, advert, work>>
    BY <1>4 DEF AskPublish, AskUnpublish, AskUpdate, AskStatus, AskRetry, Ask
  <2>2. QED
    BY <1>2, <2>1, UserCalm
<1>5. ASSUME \/ Serve \/ RequestDies
             \/ \E q \in Portals : Sweep(q)
      PROVE  Calm(p)'
  BY <1>2, <1>5, UsersWrite, UserCalm
<1>6. CASE TakeAny
  BY <1>2, <1>6, TakeCalm DEF TakeAny
<1>7. ASSUME NEW w \in Workers, Advance(w) \/ Crash(w) PROVE Calm(p)'
  BY <1>2, <1>7, AdvanceCalm
<1>8. CASE Next
  BY <1>4, <1>5, <1>6, <1>7, <1>8 DEF Next
<1>9. QED
  BY <1>3, <1>8

(* executePublication and executeUnpublish: whatever users ask meanwhile   *)
(* and whatever leftover jobs, sweeps, deaths and throws there are, a      *)
(* publication that says published has its advert, and one that says       *)
(* unpublished has none, unless jobs to publish and to remove it met; and  *)
(* that needs a user who asked while something was under way.              *)
THEOREM StatusIsTrue == Spec => []ShownIsKnown
<1> DEFINE Inv == Typed /\ History /\ AllCalm /\ (apart => Safe)
<1>1. Init => Inv
  BY InitTyped, InitCalm, InitSafe DEF Init, History
<1>2. Inv /\ [Next]_vars => Inv'
  BY TypedKept, HistoryKept, AllCalmKept, ApartSafe
<1>3. Inv => ShownIsKnown
  BY DEF ShownIsKnown, Safe, AllTrue, AllCalm, Calm
<1>4. QED
  BY <1>1, <1>2, <1>3, PTL DEF Spec

-----------------------------------------------------------------------------
(* What a queued publication waits for, when users ask apart.  No job that *)
(* is past its first write finds a publication queued, and what a sweep    *)
(* enqueued for the present attempt is still to be done: the attempts grow *)
(* before the publication is anything but queued.                          *)

Waves ==
  \A w \in Workers :
    /\ work[w].step \in {"call", "write"} => pub[At(w)].status # "queued"
    /\ work[w].step = "begin" /\ pub[At(w)].status = "queued" => work[w].attempts = pub[At(w)].attempts
Pending(k) ==
  /\ pub[k.portal].status = "queued"
  /\ crashes = 0 => job[k].status = "queued" \/ \E w \in Workers : work[w].step = "begin" /\ work[w].key = k
SweptAt(k) ==
  /\ k.n <= pub[k.portal].attempts
  /\ \A w \in Workers : work[w].step = "begin" /\ At(w) = k.portal => k.n <= work[w].attempts
  /\ k.n = pub[k.portal].attempts => Pending(k)
Swept == \A k \in DOMAIN job : k.kind = "sweep" => SweptAt(k)
Asked ==
  request.op # "idle" =>
    \A p \in Portals : pub[p].status = "queued" => request.op = "retry" /\ p \notin request.portals
Fresh == Safe /\ Waves /\ Swept /\ Asked

LEMMA InitFresh == ASSUME Init PROVE Fresh
BY InitSafe, IdleWork DEF Init, Fresh, Waves, Swept, Asked, NoRequest

(* A sweep of the present attempt still to be done keeps its publication   *)
(* from being asked about.                                                 *)
LEMMA AskFresh ==
  ASSUME Fresh, Safe', apart', NEW op, NEW portals, NEW status, Ask(op, portals, status)
  PROVE  Fresh'
<1>1. Settled /\ UNCHANGED <<pub, job, work, crashes>>
  BY DEF Ask
<1>2. Asked'
  BY <1>1 DEF Asked, Settled
<1>3. Waves'
  BY <1>1 DEF Fresh, Waves, At
<1>4. Swept'
  BY <1>1 DEF Fresh, Swept, SweptAt, Pending, At
<1>5. QED
  BY <1>2, <1>3, <1>4 DEF Fresh

(* While a request is served no job is at a portal, and the attempts stay. *)
LEMMA ServingFresh ==
  ASSUME Fresh, Safe', Asked', request.op # "idle", UNCHANGED work,
         \A p \in Portals : pub'[p].attempts = pub[p].attempts,
         \A k \in DOMAIN job' : k.kind = "sweep" => k \in DOMAIN job /\ job'[k] = job[k],
         request.op = "retry" => \A p \in Portals \ request.portals : pub'[p].status = pub[p].status,
         crashes' = crashes \/ crashes' > 0
  PROVE  Fresh'
<1>1. \A w \in Workers : work'[w].step = "idle"
  BY DEF Fresh, Safe, Alone
<1>2. Waves'
  BY <1>1 DEF Waves
<1>3. Swept'
  <2> SUFFICES ASSUME NEW k \in DOMAIN job, k.kind = "sweep", job'[k] = job[k]
               PROVE  SweptAt(k)'
    BY DEF Swept
  <2>1. k.portal \in Portals /\ SweptAt(k)
    BY DEF Fresh, Safe, Typed, RowsOK, Key, Swept
  <2>2. ASSUME k.n = pub[k.portal].attempts PROVE Pending(k)'
    <3>1. Pending(k)
      BY <2>1, <2>2 DEF SweptAt
    <3>2. request.op = "retry" /\ k.portal \notin request.portals
      BY <2>1, <3>1 DEF Fresh, Asked, Pending
    <3>3. pub'[k.portal].status = "queued"
      BY <2>1, <3>1, <3>2 DEF Pending
    <3>4. QED
      BY <1>1, <3>1, <3>3 DEF Pending
  <2>3. QED
    BY <1>1, <2>1, <2>2 DEF SweptAt
<1>4. QED
  BY <1>2, <1>3 DEF Fresh

LEMMA ServeFresh == ASSUME Fresh, Safe', Serve \/ RequestDies PROVE Fresh'
<1>1. RowsOK /\ Asked /\ pub \in [Portals -> Publication] /\ request \in Request /\ crashes \in Nat
  BY DEF Fresh, Safe, Typed, RowsOK
<1>2. ASSUME Answered PROVE Asked'
  BY <1>2, NoRequestIs DEF Answered, Asked
<1>3. ASSUME NEW S, NEW status, pub' = SetStatus(S, status)
      PROVE  \A p \in Portals : /\ pub'[p].attempts = pub[p].attempts
                                /\ p \notin S => pub'[p].status = pub[p].status
                                /\ p \in S => pub'[p].status = status
  BY <1>1, <1>3 DEF SetStatus, Publication
<1>4. ASSUME NEW valid \in SUBSET request.portals, Publish(valid) PROVE Fresh'
  <2> DEFINE keys == {JobKey("publish", p, request.version) : p \in valid}
  <2>1. request.op = "publish" /\ job' = Enqueued(keys) /\ Answered /\ UNCHANGED <<work, crashes>>
    BY <1>4 DEF Publish
  <2>2. \A k \in keys : k.kind # "sweep"
    BY DEF JobKey
  <2> HIDE DEF keys
  <2>3. \A k \in DOMAIN job' : k.kind = "sweep" => k \in DOMAIN job /\ job'[k] = job[k]
    BY <2>1, <2>2, EnqueuedIs
  <2>4. \A p \in Portals : pub'[p].attempts = pub[p].attempts
    BY <1>1, <1>4 DEF Publish, Publication
  <2>5. QED
    BY <2>1, <2>3, <2>4, <1>2, ServingFresh
<1>5. CASE UpdateListing
  <2>1. request.op = "edit" /\ UNCHANGED <<job, work, crashes>> /\ Answered
    BY <1>5 DEF UpdateListing
  <2>2. \A p \in Portals : pub'[p].attempts = pub[p].attempts
    BY <1>3, <1>5 DEF UpdateListing
  <2>3. QED
    BY <2>1, <2>2, <1>2, ServingFresh
<1>6. CASE ChangeStatus \/ AllMarked \/ RequestDies
  <2>1. request.op # "idle" /\ UNCHANGED <<pub, job, work>> /\ Answered
    BY <1>6 DEF ChangeStatus, AllMarked, RequestDies
  <2>2. crashes' = crashes \/ crashes' > 0
    BY <1>1, <1>6 DEF ChangeStatus, AllMarked, RequestDies
  <2>3. QED
    BY <2>1, <2>2, <1>2, ServingFresh
<1>7. ASSUME NEW p \in Portals, Mark(p) PROVE Fresh'
  <2>1. /\ request.op \in {"unpublish", "retry"} /\ p \in request.portals
        /\ UNCHANGED <<job, work, crashes>>
        /\ request' = [request EXCEPT !.at = p, !.portals = @ \ {p}]
    BY <1>7 DEF Mark
  <2>2. request'.op = request.op /\ request'.portals = request.portals \ {p}
    BY <2>1, <1>1 DEF Request
  <2>3. \A q \in Portals : /\ pub'[q].attempts = pub[q].attempts
                           /\ q # p => pub'[q].status = pub[q].status
                           /\ request.op = "unpublish" => pub'[p].status = "unpublishing"
    <3>1. PICK status : /\ pub' = SetStatus({p}, status)
                        /\ request.op = "unpublish" => status = "unpublishing"
      BY <1>7 DEF Mark
    <3>2. \A q \in Portals : /\ pub'[q].attempts = pub[q].attempts
                             /\ q \notin {p} => pub'[q].status = pub[q].status
                             /\ q \in {p} => pub'[q].status = status
      BY ONLY <3>1, <1>3
    <3>3. QED
      BY <3>1, <3>2
  <2>4. Asked'
    BY <2>1, <2>2, <2>3, <1>1 DEF Asked
  <2>5. QED
    BY <2>1, <2>3, <2>4, ServingFresh
<1>8. CASE Queue
  <2> DEFINE key == IF request.op = "retry" THEN JobKey("retry", request.at, asked)
                                            ELSE UnpublishKey(request.at)
  <2>1. /\ request.op \in {"unpublish", "retry"} /\ job' = Enqueued({key})
        /\ request' = [request EXCEPT !.at = None] /\ UNCHANGED <<pub, work, crashes>>
    BY <1>8 DEF Queue
  <2>2. key.kind # "sweep"
    BY DEF UnpublishKey, JobKey
  <2> HIDE DEF key
  <2>3. \A k \in DOMAIN job' : k.kind = "sweep" => k \in DOMAIN job /\ job'[k] = job[k]
    BY <2>1, <2>2, EnqueuedIs
  <2>4. request'.op = request.op /\ request'.portals = request.portals
    BY <2>1, <1>1 DEF Request
  <2>5. Asked'
    BY <2>1, <2>4, <1>1 DEF Asked
  <2>6. QED
    BY <2>1, <2>3, <2>5, ServingFresh
<1>9. QED
  BY <1>4, <1>5, <1>6, <1>7, <1>8 DEF Serve

LEMMA SweepFresh == ASSUME Fresh, Safe', NEW p \in Portals, Sweep(p) PROVE Fresh'
<1>1. /\ pub[p].status = "queued" /\ SweepKey(p) \notin DOMAIN job /\ job' = Enqueued({SweepKey(p)})
      /\ UNCHANGED <<pub, work, request, crashes>>
  BY DEF Sweep
<1>2. Waves' /\ Asked'
  BY <1>1 DEF Fresh, Waves, Asked, At
<1>3. ASSUME NEW k \in DOMAIN job', k.kind = "sweep" PROVE SweptAt(k)'
  <2>1. CASE k \in DOMAIN job
    <3>1. SweptAt(k) /\ job'[k] = job[k]
      BY <1>1, <1>3, <2>1, EnqueuedIs DEF Fresh, Swept
    <3>2. QED
      BY <1>1, <3>1 DEF SweptAt, Pending, At
  <2>2. CASE k \notin DOMAIN job
    <3>1. k = SweepKey(p) /\ job'[k].status = "queued"
      BY <1>1, <2>2, EnqueuedIs
    <3>2. k.portal = p /\ k.n = pub[p].attempts /\ k.n \in Nat
      BY <3>1 DEF SweepKey, JobKey, Fresh, Safe, Typed, RowsOK, Publication
    <3>3. \A w \in Workers : work[w].step = "begin" /\ At(w) = p => work[w].attempts = k.n
      BY <1>1, <3>2 DEF Fresh, Waves
    <3>4. QED
      BY <1>1, <3>1, <3>2, <3>3 DEF SweptAt, Pending, At
  <2>3. QED
    BY <2>1, <2>2
<1>4. QED
  BY <1>2, <1>3 DEF Fresh, Swept

LEMMA TakeFresh ==
  ASSUME Fresh, Safe', apart', NEW w \in Workers, NEW k \in DOMAIN job, Take(w, k)
  PROVE  Fresh'
<1>1. request.op = "idle" /\ UNCHANGED <<pub, request, crashes>> /\ k \in Key
      /\ k.portal \in Portals /\ job[k].status = "queued" /\ work[w].step = "idle"
  BY TakeApart DEF Fresh, Safe, Typed, RowsOK, Key
<1>2. RowsOK /\ work \in [Workers -> Work] /\ pub[k.portal].attempts \in Nat
  BY <1>1 DEF Fresh, Safe, Typed, RowsOK, Publication
<1>3. Asked'
  BY <1>1 DEF Asked
<1>4. CASE k.kind # "unpublish" /\ ~MayPublish(pub[k.portal].status) /\ job' = Failed(k) /\ UNCHANGED work
  <2>1. Kept(job', k)
    BY <1>2, <1>4, FailedKeeps
  <2>2. pub[k.portal].status # "queued"
    BY <1>4 DEF MayPublish
  <2>3. ASSUME NEW j \in DOMAIN job', j.kind = "sweep" PROVE SweptAt(j)'
    <3>1. j \in DOMAIN job /\ SweptAt(j) /\ (j # k => job'[j] = job[j])
      BY <2>1, <2>3 DEF Kept, Fresh, Swept
    <3>2. Pending(j) => j # k
      BY <2>2 DEF Pending
    <3>3. QED
      BY <1>1, <1>4, <3>1, <3>2 DEF SweptAt, Pending, At
  <2>4. Waves'
    BY <1>1, <1>4 DEF Fresh, Waves, At
  <2>5. QED
    BY <1>3, <2>3, <2>4 DEF Fresh, Swept
<1>5. CASE /\ job' = Claimed(k)
           /\ work' = [work EXCEPT ![w] = [step |-> IF k.kind = "unpublish" THEN "remove" ELSE "begin",
                                           key |-> k, attempts |-> pub[k.portal].attempts, to |-> "none"]]
  <2>1. Kept(job', k)
    BY <1>2, <1>5, ClaimedKeeps
  <2>2. \A v \in Workers \ {w} : work'[v] = work[v]
    BY <1>2, <1>5
  <2>3. /\ work'[w].step = (IF k.kind = "unpublish" THEN "remove" ELSE "begin")
        /\ work'[w].key = k /\ work'[w].attempts = pub[k.portal].attempts
    BY <1>2, <1>5
  <2>4. Waves'
    BY <1>1, <2>2, <2>3 DEF Fresh, Waves, At
  <2>5. ASSUME NEW j \in DOMAIN job', j.kind = "sweep" PROVE SweptAt(j)'
    <3>1. j \in DOMAIN job /\ SweptAt(j) /\ (j # k => job'[j] = job[j])
      BY <2>1, <2>5 DEF Kept, Fresh, Swept
    <3>2. \A v \in Workers : work'[v].step = "begin" /\ At(v)' = j.portal => j.n <= work'[v].attempts
      BY <2>2, <2>3, <3>1 DEF SweptAt, At
    <3>3. Pending(j) => Pending(j)'
      <4>1. CASE j = k
        BY <1>1, <2>3, <2>5, <4>1 DEF Pending
      <4>2. CASE j # k
        BY <1>1, <2>2, <3>1, <4>2 DEF Pending
      <4>3. QED
        BY <4>1, <4>2
    <3>4. QED
      BY <1>1, <3>1, <3>2, <3>3 DEF SweptAt
  <2>6. QED
    BY <1>3, <2>4, <2>5 DEF Fresh, Swept
<1>6. QED
  BY <1>4, <1>5 DEF Take

(* A step of a worker at p that is not at its first write: what is pending *)
(* at other publications is not its job, and at p nothing is.              *)
LEMMA PastBegin ==
  ASSUME Fresh, Safe', NEW w \in Workers, work[w].step \notin {"idle", "begin"}, NEW p, p = At(w),
         \A v \in Workers \ {w} : work'[v] = work[v],
         work'[w].step # "begin", UNCHANGED <<request, crashes>>,
         \A q \in Portals : pub'[q].attempts = pub[q].attempts,
         \A q \in Portals \ {p} : pub'[q].status = pub[q].status,
         pub'[p].status = pub[p].status \/ (pub[p].status # "queued" /\ pub'[p].status # "queued"),
         work'[w].step \in {"call", "write"} => pub'[p].status # "queued" /\ At(w)' = p,
         DOMAIN job' = DOMAIN job, \A k \in DOMAIN job \ {work[w].key} : job'[k] = job[k]
  PROVE  Fresh'
<1>1. Asked'
  BY DEF Fresh, Safe, Alone, Asked
<1>2. RowsOK /\ p \in Portals /\ work[w].key \in DOMAIN job /\ job[work[w].key].status = "running"
  BY WorkerHolds DEF Fresh, Safe, Typed
<1>3. \A v \in Workers : work[v].step # "idle" => At(v) \in Portals
  BY <1>2, WorkerHolds
<1>4. Waves'
  <2> SUFFICES ASSUME NEW v \in Workers
               PROVE  /\ work'[v].step \in {"call", "write"} => pub'[At(v)'].status # "queued"
                      /\ work'[v].step = "begin" /\ pub'[At(v)'].status = "queued" =>
                           work'[v].attempts = pub'[At(v)'].attempts
    BY DEF Waves
  <2>1. CASE v = w
    BY <2>1
  <2>2. CASE v # w
    <3>1. work'[v] = work[v] /\ At(v)' = At(v)
      BY <2>2 DEF At
    <3>2. QED
      BY <1>3, <3>1 DEF Fresh, Waves
  <2>3. QED
    BY <2>1, <2>2
<1>5. ASSUME NEW k \in DOMAIN job', k.kind = "sweep" PROVE SweptAt(k)'
  <2>1. k \in DOMAIN job /\ SweptAt(k) /\ k.portal \in Portals
    BY <1>2, <1>5 DEF Fresh, Swept, RowsOK, Key
  <2>2. \A v \in Workers : work'[v].step = "begin" /\ At(v)' = k.portal => k.n <= work'[v].attempts
    BY <2>1 DEF SweptAt, At
  <2>3. Pending(k) => Pending(k)'
    <3>1. SUFFICES ASSUME Pending(k) PROVE Pending(k)'
      OBVIOUS
    <3>2. pub'[k.portal].status = "queued"
      BY <2>1, <3>1 DEF Pending
    <3>3. ASSUME crashes = 0
          PROVE  job'[k].status = "queued" \/ \E v \in Workers : work'[v].step = "begin" /\ work'[v].key = k
      <4>1. CASE job[k].status = "queued"
        BY <1>2, <2>1, <4>1
      <4>2. CASE \E v \in Workers : work[v].step = "begin" /\ work[v].key = k
        BY <4>2
      <4>3. QED
        BY <3>1, <3>3, <4>1, <4>2 DEF Pending
    <3>4. QED
      BY <3>2, <3>3 DEF Pending
  <2>4. QED
    BY <2>1, <2>2, <2>3 DEF SweptAt
<1>6. QED
  BY <1>1, <1>4, <1>5 DEF Fresh, Swept

LEMMA BeginFresh == ASSUME Fresh, Safe', NEW w \in Workers, Begin(w) PROVE Fresh'
<1> DEFINE p == At(w)
<1>1. work[w].step = "begin" /\ GoOn(w, "call", "none") /\ UNCHANGED <<job, request, crashes>>
      /\ pub' = [pub EXCEPT ![p] = [status |-> "publishing", attempts |-> work[w].attempts + 1]]
  BY DEF Begin
<1>2. RowsOK /\ p \in Portals /\ work[w] \in Work /\ work[w].attempts \in Nat
  BY <1>1, WorkerHolds DEF Fresh, Safe, Typed, Work
<1>3. /\ pub'[p].status = "publishing" /\ pub'[p].attempts = work[w].attempts + 1
      /\ \A q \in Portals \ {p} : pub'[q] = pub[q]
  BY <1>1, <1>2 DEF RowsOK
<1>4. /\ \A v \in Workers \ {w} : work'[v] = work[v]
      /\ work'[w].step = "call" /\ work'[w].key = work[w].key
  BY <1>1, <1>2 DEF GoOn, RowsOK
<1>5. \A v \in Workers : At(v)' = At(v) /\ (work[v].step # "idle" => At(v) \in Portals)
  BY <1>2, <1>4, WorkerHolds DEF At
<1>6. Asked'
  BY <1>1 DEF Fresh, Safe, Alone, Asked
<1>7. Waves'
  <2> SUFFICES ASSUME NEW v \in Workers, At(v) # p
               PROVE  /\ work'[v].step \in {"call", "write"} => pub'[At(v)].status # "queued"
                      /\ work'[v].step = "begin" /\ pub'[At(v)].status = "queued" =>
                           work'[v].attempts = pub'[At(v)].attempts
    BY <1>3, <1>5 DEF Waves
  <2>1. v # w /\ work'[v] = work[v]
    BY <1>4
  <2>2. work[v].step # "idle" => pub'[At(v)] = pub[At(v)]
    BY <1>3, <1>5
  <2>3. QED
    BY <2>1, <2>2 DEF Fresh, Waves
<1>8. ASSUME NEW k \in DOMAIN job', k.kind = "sweep" PROVE SweptAt(k)'
  <2>1. k \in DOMAIN job /\ SweptAt(k) /\ k.portal \in Portals /\ k.n \in Nat
    BY <1>1, <1>2, <1>8 DEF Fresh, Swept, RowsOK, Key
  <2>2. \A v \in Workers : work'[v].step = "begin" /\ At(v)' = k.portal => k.n <= work'[v].attempts
    BY <1>4, <1>5, <2>1 DEF SweptAt
  <2>3. CASE k.portal = p
    <3>1. k.n <= work[w].attempts
      BY <1>1, <2>1, <2>3 DEF SweptAt
    <3>2. k.n <= pub'[p].attempts /\ k.n # pub'[p].attempts
      BY <1>2, <1>3, <2>1, <3>1
    <3>3. QED
      BY <2>2, <2>3, <3>2 DEF SweptAt
  <2>4. CASE k.portal # p
    <3>1. pub'[k.portal] = pub[k.portal]
      BY <1>3, <2>1, <2>4
    <3>2. Pending(k) => Pending(k)'
      <4>1. \A v \in Workers : work[v].step = "begin" /\ work[v].key = k => v # w
        BY <2>4 DEF At
      <4>2. QED
        BY <1>1, <1>4, <3>1, <4>1 DEF Pending
    <3>3. QED
      BY <2>1, <2>2, <3>1, <3>2 DEF SweptAt
  <2>5. QED
    BY <2>3, <2>4
<1>9. QED
  BY <1>6, <1>7, <1>8 DEF Fresh, Swept

LEMMA CrashFresh == ASSUME Fresh, Safe', NEW w \in Workers, Crash(w) PROVE Fresh'
<1>1. crashes' = crashes + 1 /\ work' = [work EXCEPT ![w] = Idle] /\ UNCHANGED <<pub, job, request>>
  BY DEF Crash
<1>2. crashes' # 0 /\ \A v \in Workers : work'[v] = IF v = w THEN Idle ELSE work[v]
  BY <1>1 DEF Fresh, Safe, Typed, RowsOK
<1>3. Asked'
  BY <1>1 DEF Fresh, Asked
<1>4. Waves'
  BY <1>1, <1>2, IdleWork DEF Fresh, Waves, At
<1>5. Swept'
  BY <1>1, <1>2, IdleWork DEF Fresh, Swept, SweptAt, Pending, At
<1>6. QED
  BY <1>3, <1>4, <1>5 DEF Fresh

LEMMA AdvanceFresh == ASSUME Fresh, Safe', NEW w \in Workers, Advance(w) PROVE Fresh'
<1> DEFINE p == At(w)
<1>1. RowsOK /\ pub \in [Portals -> Publication] /\ work \in [Workers -> Work] /\ WorkerAt(w)
  BY DEF Fresh, Safe, Typed, RowsOK
<1>2. CASE Begin(w)
  BY <1>2, BeginFresh
<1>3. ASSUME NEW step, NEW to, GoOn(w, step, to)
      PROVE  work'[w].step = step /\ At(w)' = p /\ \A v \in Workers \ {w} : work'[v] = work[v]
  BY <1>1, <1>3 DEF GoOn, At
<1>4. ASSUME work' = [work EXCEPT ![w] = Idle]
      PROVE  work'[w].step = "idle" /\ \A v \in Workers \ {w} : work'[v] = work[v]
  BY <1>1, <1>4, IdleWork
<1>5. ASSUME work[w].step # "idle" PROVE work[w].key \in DOMAIN job /\ p \in Portals
  BY <1>1, <1>5, WorkerHolds
<1>6. ASSUME NEW answer, Call(w, answer) PROVE Fresh'
  <2>1. work[w].step = "call" /\ GoOn(w, "write", answer) /\ UNCHANGED <<pub, job, request, crashes>>
    BY <1>6 DEF Call
  <2>2. pub[p].status # "queued"
    BY <2>1 DEF Fresh, Waves
  <2>3. QED
    BY <2>1, <2>2, <1>3, PastBegin
<1>7. ASSUME NEW answer, Remove(w, answer) PROVE Fresh'
  <2>1. work[w].step = "remove" /\ GoOn(w, "write", answer) /\ UNCHANGED <<pub, job, request, crashes>>
    BY <1>7 DEF Remove
  <2>2. pub[p].status # "queued"
    BY <2>1, <1>1 DEF WorkerAt, AtPortal
  <2>3. QED
    BY <2>1, <2>2, <1>3, PastBegin
<1>8. CASE RemoveThrows(w)
  <2>1. /\ work[w].step = "remove" /\ UNCHANGED <<pub, request, crashes>>
        /\ job' = Failed(work[w].key) /\ work' = [work EXCEPT ![w] = Idle]
    BY <1>8 DEF RemoveThrows
  <2>2. Kept(job', work[w].key)
    BY <2>1, <1>1, <1>5, FailedKeeps
  <2>3. work'[w].step = "idle" /\ \A v \in Workers \ {w} : work'[v] = work[v]
    BY <2>1, <1>4
  <2>4. DOMAIN job' = DOMAIN job /\ \A k \in DOMAIN job \ {work[w].key} : job'[k] = job[k]
    BY <2>2 DEF Kept
  <2>5. /\ \A q \in Portals : pub'[q].attempts = pub[q].attempts
        /\ \A q \in Portals \ {p} : pub'[q].status = pub[q].status
    BY <2>1
  <2>6. /\ work[w].step \notin {"idle", "begin"} /\ work'[w].step # "begin"
        /\ work'[w].step \in {"call", "write"} => pub'[p].status # "queued" /\ At(w)' = p
    BY <2>1, <2>3
  <2>7. UNCHANGED <<request, crashes>>
    BY <2>1
  <2>8. pub'[p].status = pub[p].status
    BY <2>1
  <2>9. pub'[p].status = pub[p].status \/ (pub[p].status # "queued" /\ pub'[p].status # "queued")
    BY <2>8
  <2>10. QED
    BY <2>3, <2>4, <2>5, <2>6, <2>7, <2>9, PastBegin
<1>9. CASE Write(w)
  <2>1. work[w].step = "write" /\ pub' = SetStatus({p}, work[w].to) /\ GoOn(w, "count", "none")
        /\ UNCHANGED <<job, request, crashes>>
    BY <1>9 DEF Write
  <2>2. work[w].to \in Answers /\ pub[p].status # "queued" /\ p \in Portals
    BY <2>1, <1>5 DEF Fresh, Safe, Typed, Writes, Waves
  <2>3. /\ \A q \in Portals : pub'[q].attempts = pub[q].attempts
        /\ \A q \in Portals \ {p} : pub'[q].status = pub[q].status
        /\ pub'[p].status = work[w].to
    BY <2>1, <2>2, <1>1 DEF SetStatus, Publication
  <2>4. pub'[p].status # "queued"
    BY <2>2, <2>3 DEF Answers
  <2>5. work'[w].step = "count" /\ \A v \in Workers \ {w} : work'[v] = work[v]
    BY <2>1, <1>3
  <2>6. QED
    BY <2>1, <2>2, <2>3, <2>4, <2>5, PastBegin
<1>10. CASE Count(w)
  <2>1. work[w].step = "count" /\ UNCHANGED <<pub, job, request, crashes>>
        /\ GoOn(w, "aggregate", IF Aggregate = listing.status THEN "none" ELSE Aggregate)
    BY <1>10 DEF Count
  <2>2. work'[w].step = "aggregate" /\ \A v \in Workers \ {w} : work'[v] = work[v]
    BY <2>1, <1>3
  <2>3. /\ \A q \in Portals : pub'[q].attempts = pub[q].attempts
        /\ \A q \in Portals \ {p} : pub'[q].status = pub[q].status
    BY <2>1
  <2>4. DOMAIN job' = DOMAIN job /\ \A k \in DOMAIN job \ {work[w].key} : job'[k] = job[k]
    BY <2>1
  <2>5. /\ work[w].step \notin {"idle", "begin"} /\ work'[w].step # "begin"
        /\ work'[w].step \in {"call", "write"} => pub'[p].status # "queued" /\ At(w)' = p
    BY <2>1, <2>2
  <2>6. UNCHANGED <<request, crashes>>
    BY <2>1
  <2>7. pub'[p].status = pub[p].status
    BY <2>1
  <2>8. pub'[p].status = pub[p].status \/ (pub[p].status # "queued" /\ pub'[p].status # "queued")
    BY <2>7
  <2>9. QED
    BY <2>2, <2>3, <2>4, <2>5, <2>6, <2>8, PastBegin
<1>11. CASE Finish(w)
  <2>1. work[w].step = "aggregate" /\ UNCHANGED <<pub, request, crashes>>
        /\ job' = Over(work[w].key) /\ work' = [work EXCEPT ![w] = Idle]
    BY <1>11 DEF Finish
  <2>2. Kept(job', work[w].key)
    BY <2>1, <1>1, <1>5, OverKeeps
  <2>3. work'[w].step = "idle" /\ \A v \in Workers \ {w} : work'[v] = work[v]
    BY <2>1, <1>4
  <2>4. DOMAIN job' = DOMAIN job /\ \A k \in DOMAIN job \ {work[w].key} : job'[k] = job[k]
    BY <2>2 DEF Kept
  <2>5. /\ \A q \in Portals : pub'[q].attempts = pub[q].attempts
        /\ \A q \in Portals \ {p} : pub'[q].status = pub[q].status
    BY <2>1
  <2>6. /\ work[w].step \notin {"idle", "begin"} /\ work'[w].step # "begin"
        /\ work'[w].step \in {"call", "write"} => pub'[p].status # "queued" /\ At(w)' = p
    BY <2>1, <2>3
  <2>7. UNCHANGED <<request, crashes>>
    BY <2>1
  <2>8. pub'[p].status = pub[p].status
    BY <2>1
  <2>9. pub'[p].status = pub[p].status \/ (pub[p].status # "queued" /\ pub'[p].status # "queued")
    BY <2>8
  <2>10. QED
    BY <2>3, <2>4, <2>5, <2>6, <2>7, <2>9, PastBegin
<1>12. QED
  BY <1>2, <1>6, <1>7, <1>8, <1>9, <1>10, <1>11 DEF Advance

LEMMA ApartFresh == ASSUME apart', Fresh, [Next]_vars PROVE Fresh'
<1>1. Safe'
  BY ApartSafe DEF Fresh
<1>2. ASSUME \/ \E portals \in SUBSET Portals \ {{}} : AskPublish(portals) \/ AskUnpublish(portals)
             \/ AskUpdate
             \/ \E to \in DOMAIN Moves : AskStatus(to)
             \/ \E p \in Portals : AskRetry(p)
      PROVE  Fresh'
  BY <1>1, <1>2, AskFresh DEF AskPublish, AskUnpublish, AskUpdate, AskStatus, AskRetry
<1>3. CASE UNCHANGED vars
  BY <1>1, <1>3 DEF vars, Fresh, Waves, Swept, SweptAt, Pending, Asked, At
<1>4. CASE Next
  BY <1>1, <1>2, <1>4, ServeFresh, SweepFresh, TakeFresh, AdvanceFresh, CrashFresh DEF Next, TakeAny
<1>5. QED
  BY <1>3, <1>4

(* The hourly sweep, when users ask only for what is settled and nothing   *)
(* died: a publication that is queued has a job that will take it, or the  *)
(* key the sweep will use was never used.                                  *)
THEOREM QueuedIsTaken == Spec => []QueuedHasTaker
<1> DEFINE Inv == Typed /\ History /\ (apart => Fresh)
<1>1. Init => Inv
  BY InitTyped, InitFresh DEF Init, History
<1>2. Inv /\ [Next]_vars => Inv'
  BY TypedKept, HistoryKept, ApartFresh
<1>3. Inv => QueuedHasTaker
  <2> SUFFICES ASSUME apart, Fresh, NEW p \in Portals, pub[p].status = "queued", crashes = 0,
                      SweepKey(p) \in DOMAIN job
               PROVE  Taking(p)
    BY DEF QueuedHasTaker
  <2> DEFINE k == SweepKey(p)
  <2>1. k.kind = "sweep" /\ k.portal = p /\ k.n = pub[p].attempts
    BY DEF SweepKey, JobKey
  <2>2. Pending(k)
    BY <2>1 DEF Fresh, Swept, SweptAt
  <2>3. QED
    BY <2>1, <2>2 DEF Pending, Taking, At
<1>4. QED
  BY <1>1, <1>2, <1>3, PTL DEF Spec
=============================================================================
