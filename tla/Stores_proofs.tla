---------------------------- MODULE Stores_proofs ----------------------------
(* Proofs about the proposals of workshop apps and the daily paper radar, each
   of its own component. *)
EXTENDS WorkshopProposals, PaperRadar, WellFoundedInduction, TLAPS

------------------------------------------------------------------------------
(* The proposals and their reviews.                                         *)

Deciding == {"mark", "inspect", "extract", "register", "grant", "settle", "discard", "ditch", "fail"}

(* Where a proposal waits to be generated, or is.                             *)
InQueue(p)    == \E i \in 1..Len(queue) : queue[i] = p
Submitting(p) == \E r \in Request : At(r, "submit") /\ req[r].p = p
Waits(p)      == p \in todo \/ InQueue(p) \/ Submitting(p) \/ cur = p

(* A proposal waits in one place at most, and once.                           *)
OnePlace ==
  /\ \A i, j \in 1..Len(queue) : queue[i] = queue[j] => i = j
  /\ \A r, s \in Request : At(r, "submit") /\ At(s, "submit") /\ req[r].p = req[s].p => r = s
  /\ \A p \in Proposal :
       /\ p \in todo => ~InQueue(p) /\ ~Submitting(p) /\ cur # p
       /\ InQueue(p) => ~Submitting(p) /\ cur # p
       /\ Submitting(p) => cur # p

(* What a request knows at each of its labels.                                *)
RequestsKnow ==
  \A r \in Request :
    /\ At(r, "idle") => req[r] = Idle
    /\ ~At(r, "idle") => req[r].p \in Proposal /\ status[req[r].p] # "absent"
    /\ req[r].at \in {"extract", "register", "grant"} => req[r].app \in reviewed
    /\ req[r].at \in {"mark", "inspect"} =>
         req[r].seen \in reviewed /\ draft[req[r].p] \in {req[r].seen, NoApp}

(* Nothing runs while the service is down, and nothing is served before all   *)
(* that waited is queued.                                                     *)
NobodyIsServed ==
  /\ ~up => todo = {} /\ queue = <<>> /\ cur = NoProposal
  /\ ~up \/ todo # {} => \A r \in Request : At(r, "idle")

(* A proposal that is offered, or decided on, is generated no more.           *)
DecidedWaitNowhere ==
  /\ \A p \in Proposal : status[p] \in {"absent", "awaiting_approval"} => ~Waits(p)
  /\ \A r \in Request : req[r].at \in Deciding => ~Waits(req[r].p)

OffersAreDrafts ==
  /\ \A p \in Proposal : status[p] = "awaiting_approval" =>
       shown[p] \in App /\ draft[p] \in {shown[p], NoApp}
  /\ pc \in {"inspect", "offer"} => cand \in App /\ draft[cur] \in {cand, NoApp}

ReviewInv ==
  /\ ProposalsTypeOK /\ OnePlace /\ RequestsKnow /\ NobodyIsServed
  /\ DecidedWaitNowhere /\ OffersAreDrafts /\ EnabledWereReviewed

(* As long as there has been no restart.                                      *)
FirstLife ==
  /\ ~up => \A p \in Proposal : status[p] = "absent"
  /\ \A p \in Proposal : status[p] = "absent" => shown[p] = NoApp
  /\ \A p \in Proposal : shown[p] # NoApp => ~Waits(p)
  /\ \A r \in Request : \A p \in Proposal : At(r, "remove") /\ req[r].p = p => ~Waits(p)
  /\ pc \in {"inspect", "offer"} => draft[cur] = cand
  /\ \A p \in Proposal : status[p] = "awaiting_approval" =>
       draft[p] = shown[p] \/ \E r \in Request : req[r].p = p /\ req[r].at \in {"reject", "fail"}

DecidedAreNotOffered ==
  \A r \in Request : req[r].at \in Deciding \ {"mark"} => status[req[r].p] # "awaiting_approval"

OfferInv == ReviewInv /\ DecidedAreNotOffered /\ (crashes = 0 => FirstLife)
Requests == [at : Labels \cup {"idle"}, p : Proposal \cup {NoProposal},
             seen : App \cup {NoApp}, app : App \cup {NoApp}]

LEMMA ProposalFacts ==
  /\ Idle \in Requests /\ Idle.at = "idle" /\ Idle.p = NoProposal
  /\ Proposal \subseteq Int /\ NoProposal \notin Proposal /\ NoApp \notin App
BY ProposalsAssumption DEF Idle, Requests, Proposal

LEMMA InitOfferInv == Init => OfferInv
<1> SUFFICES ASSUME Init PROVE OfferInv
  OBVIOUS
<1> USE ProposalFacts DEF Init
<1>1. ProposalsTypeOK
  <2>1. up \in BOOLEAN
    OBVIOUS
  <2>2. queue \in Seq(Proposal) /\ Len(queue) <= QueueMax /\ crashes \in 0..MaxCrashes
    BY ProposalsAssumption
  <2>. QED BY <2>1, <2>2 DEF ProposalsTypeOK, Status, Requests
<1>2. OnePlace /\ \A p \in Proposal : ~Waits(p)
  BY DEF OnePlace, Waits, InQueue, Submitting, At
<1>3. RequestsKnow /\ NobodyIsServed /\ OffersAreDrafts /\ EnabledWereReviewed
  BY DEF RequestsKnow, NobodyIsServed, OffersAreDrafts, EnabledWereReviewed, At
<1>4. DecidedWaitNowhere /\ DecidedAreNotOffered /\ FirstLife
  BY <1>2 DEF DecidedWaitNowhere, DecidedAreNotOffered, FirstLife, Deciding, At
<1>. QED BY <1>1, <1>2, <1>3, <1>4 DEF OfferInv, ReviewInv

------------------------------------------------------------------------------
(* A step that puts no proposal anywhere.                                     *)
LEMMA NobodyMoves ==
  ASSUME ReviewInv, UNCHANGED <<todo, queue>>, cur' \in {cur, NoProposal},
         \A r \in Request : At(r, "submit")' => At(r, "submit") /\ req'[r].p = req[r].p
  PROVE  OnePlace' /\ \A p \in Proposal : Waits(p)' => Waits(p)
<1> USE ProposalFacts
<1>1. \A p \in Proposal : InQueue(p)' <=> InQueue(p)
  BY DEF InQueue
<1>2. \A p \in Proposal : /\ Submitting(p)' => Submitting(p)
                          /\ cur' = p => cur = p
                          /\ p \in todo' => p \in todo
  BY DEF Submitting, At
<1>3. \A p \in Proposal : Waits(p)' => Waits(p)
  BY <1>1, <1>2 DEF Waits
<1>4. OnePlace'
  <2>1. \A i, j \in 1..Len(queue') : queue'[i] = queue'[j] => i = j
    BY DEF ReviewInv, OnePlace
  <2>2. \A r, s \in Request : At(r, "submit")' /\ At(s, "submit")' /\ req'[r].p = req'[s].p => r = s
    BY DEF ReviewInv, OnePlace, At
  <2>3. \A p \in Proposal :
          /\ p \in todo' => ~InQueue(p)' /\ ~Submitting(p)' /\ cur' # p
          /\ InQueue(p)' => ~Submitting(p)' /\ cur' # p
          /\ Submitting(p)' => cur' # p
    BY <1>1, <1>2 DEF ReviewInv, OnePlace
  <2>. QED BY <2>1, <2>2, <2>3 DEF OnePlace
<1>. QED BY <1>3, <1>4

(* The generator goes on with its proposal.                                   *)
LEMMA Generating ==
  ASSUME ReviewInv, MarkGenerating \/ Build \/ BuildRaises \/ InspectCandidate
  PROVE  ReviewInv' /\ \A p \in Proposal : Waits(p)' => Waits(p)
<1> USE ProposalFacts DEF MarkGenerating, Build, BuildRaises, InspectCandidate, Goto, store, disk, service
<1>1. cur \in Proposal /\ Waits(cur)
  BY DEF ReviewInv, ProposalsTypeOK, Waits
<1>2. /\ UNCHANGED <<shown, registry, up, todo, queue, cur, req, reviewed, crashes>>
      /\ \/ UNCHANGED status
         \/ \A p \in Proposal : status'[p] = IF p = cur THEN "generating" ELSE status[p]
      /\ \A p \in Proposal \ {cur} : draft'[p] = draft[p]
  BY DEF ReviewInv, ProposalsTypeOK
<1>3. ProposalsTypeOK'
  <2>1. CASE Build
    BY <2>1, <1>1 DEF ReviewInv, ProposalsTypeOK
  <2>2. CASE MarkGenerating
    BY <2>2, <1>1 DEF ReviewInv, ProposalsTypeOK, Status
  <2>3. CASE BuildRaises \/ InspectCandidate
    BY <2>3, <1>1 DEF ReviewInv, ProposalsTypeOK
  <2>. QED BY <2>1, <2>2, <2>3
<1>4. OnePlace' /\ \A p \in Proposal : Waits(p)' => Waits(p)
  BY <1>2, NobodyMoves DEF At
<1>5. \A p \in Proposal : /\ status'[p] = status[p] \/ (p = cur /\ status'[p] = "generating")
                          /\ status[p] \in {"absent", "awaiting_approval"} => p # cur
  <2>1. \A p \in Proposal : status[p] \in {"absent", "awaiting_approval"} => p # cur
    BY <1>1 DEF ReviewInv, DecidedWaitNowhere
  <2>. QED BY <1>1, <1>2, <2>1
<1>6. \A r \in Request : req[r].at \in Deciding => req[r].p # cur
  BY <1>1 DEF ReviewInv, DecidedWaitNowhere
<1>7. RequestsKnow' /\ NobodyIsServed'
  <2>1. \A r \in Request : req[r].at \in {"mark", "inspect"} => draft'[req[r].p] = draft[req[r].p]
    BY <1>2, <1>6 DEF ReviewInv, RequestsKnow, Deciding, At
  <2>2. \A r \in Request : ~At(r, "idle") => status'[req[r].p] # "absent"
    BY <1>5 DEF ReviewInv, RequestsKnow
  <2>. QED BY <1>2, <2>1, <2>2 DEF ReviewInv, RequestsKnow, NobodyIsServed, At
<1>8. DecidedWaitNowhere'
  <2>1. \A r \in Request : req'[r].at \in Deciding => req[r].p \in Proposal
    BY <1>2 DEF ReviewInv, RequestsKnow, Deciding, At
  <2>. QED BY <1>2, <1>4, <1>5, <2>1 DEF ReviewInv, DecidedWaitNowhere
<1>9. OffersAreDrafts'
  <2>1. \A p \in Proposal : status'[p] = "awaiting_approval" =>
          shown'[p] \in App /\ draft'[p] \in {shown'[p], NoApp}
    BY <1>2, <1>5 DEF ReviewInv, OffersAreDrafts
  <2>2. pc' \in {"inspect", "offer"} => cand' \in App /\ draft'[cur'] \in {cand', NoApp}
    BY <1>1 DEF ReviewInv, OffersAreDrafts, ProposalsTypeOK
  <2>. QED BY <2>1, <2>2 DEF OffersAreDrafts
<1>10. EnabledWereReviewed'
  BY <1>2 DEF ReviewInv, EnabledWereReviewed
<1>. QED BY <1>3, <1>4, <1>7, <1>8, <1>9, <1>10 DEF ReviewInv

(* ... and is done with it.                                                   *)
LEMMA Releasing ==
  ASSUME ReviewInv, Offer \/ FailGeneration
  PROVE  ReviewInv' /\ \A p \in Proposal : Waits(p)' => Waits(p)
<1> USE ProposalFacts DEF Offer, FailGeneration, Release, disk, service
<1>1. cur \in Proposal /\ pc' = "idle" /\ cur' = NoProposal /\ cand' = NoApp
  BY DEF ReviewInv, ProposalsTypeOK
<1>2. /\ UNCHANGED <<draft, registry, up, todo, queue, req, reviewed, crashes>>
      /\ \A p \in Proposal : IF p = cur
           THEN \/ status'[p] = "failed"
                \/ /\ status'[p] = "awaiting_approval" /\ shown'[p] = cand
                   /\ cand \in App /\ draft[p] \in {cand, NoApp}
           ELSE status'[p] = status[p] /\ shown'[p] = shown[p]
  BY DEF ReviewInv, ProposalsTypeOK, OffersAreDrafts
<1>3. ProposalsTypeOK'
  <2>1. CASE Offer
    <3>1. cand \in App /\ pc = "offer"
      BY <2>1 DEF ReviewInv, OffersAreDrafts
    <3>. QED BY <1>1, <2>1, <3>1 DEF ReviewInv, ProposalsTypeOK, Status
  <2>2. CASE FailGeneration
    BY <1>1, <2>2 DEF ReviewInv, ProposalsTypeOK, Status
  <2>. QED BY <2>1, <2>2
<1>4. OnePlace' /\ \A p \in Proposal : Waits(p)' => Waits(p)
  BY <1>1, <1>2, NobodyMoves DEF At
<1>5. \A p \in Proposal : p = cur => ~Waits(p)'
  <2>1. cur \notin todo /\ ~InQueue(cur) /\ ~Submitting(cur)
    BY <1>1 DEF ReviewInv, OnePlace
  <2>. QED BY <1>1, <1>2, <2>1 DEF Waits, InQueue, Submitting, At
<1>6. RequestsKnow' /\ NobodyIsServed'
  <2>1. \A r \in Request : ~At(r, "idle") => status'[req[r].p] # "absent"
    BY <1>2 DEF ReviewInv, RequestsKnow
  <2>. QED BY <1>1, <1>2, <2>1 DEF ReviewInv, RequestsKnow, NobodyIsServed, At
<1>7. DecidedWaitNowhere'
  <2>1. \A r \in Request : req'[r].at \in Deciding => req[r].p \in Proposal
    BY <1>2 DEF ReviewInv, RequestsKnow, Deciding, At
  <2>. QED BY <1>2, <1>4, <1>5, <2>1 DEF ReviewInv, DecidedWaitNowhere
<1>8. OffersAreDrafts' /\ EnabledWereReviewed'
  BY <1>1, <1>2 DEF ReviewInv, OffersAreDrafts, EnabledWereReviewed
<1>. QED BY <1>3, <1>4, <1>6, <1>7, <1>8 DEF ReviewInv

(* The generator takes the oldest proposal of its queue, or drops it.         *)
LEMMA Taking ==
  ASSUME ReviewInv, Take
  PROVE  ReviewInv' /\ \A p \in Proposal : Waits(p)' => Waits(p)
<1> USE ProposalFacts DEF Take, store, disk, worker
<1>1. /\ queue \in Seq(Proposal) /\ queue # <<>> /\ queue' = Tail(queue) /\ cur = NoProposal
      /\ UNCHANGED <<status, shown, draft, dir, registry, origin, up, todo, req, reviewed, crashes, cand>>
      /\ \/ UNCHANGED <<pc, cur>>
         \/ pc' = "mark" /\ cur' = Head(queue)
  BY DEF ReviewInv, ProposalsTypeOK
<1>2. /\ Head(queue) \in Proposal /\ Head(queue) = queue[1] /\ queue' \in Seq(Proposal)
      /\ Len(queue') = Len(queue) - 1 /\ Len(queue) \in Nat /\ Len(queue) > 0
      /\ \A i \in 1..Len(queue') : queue'[i] = queue[i + 1]
  BY <1>1
<1>3. ProposalsTypeOK'
  BY <1>1, <1>2, ProposalsAssumption DEF ReviewInv, ProposalsTypeOK
<1>4. \A p \in Proposal : /\ InQueue(p)' => InQueue(p) /\ p # Head(queue)
                          /\ Submitting(p)' => Submitting(p)
                          /\ cur' = p => InQueue(p) /\ p = Head(queue)
  <2>1. \A i, j \in 1..Len(queue) : queue[i] = queue[j] => i = j
    BY DEF ReviewInv, OnePlace
  <2>2. \A i \in 1..Len(queue') : i + 1 \in 1..Len(queue) /\ i + 1 # 1 /\ 1 \in 1..Len(queue)
    BY <1>2
  <2>. QED BY <1>1, <1>2, <2>1, <2>2 DEF InQueue, Submitting, At
<1>5. OnePlace'
  <2>1. \A i, j \in 1..Len(queue') : queue'[i] = queue'[j] => i = j
    BY <1>2 DEF ReviewInv, OnePlace
  <2>2. \A r, s \in Request : At(r, "submit")' /\ At(s, "submit")' /\ req'[r].p = req'[s].p => r = s
    BY <1>1 DEF ReviewInv, OnePlace, At
  <2>3. \A p \in Proposal :
          /\ p \in todo' => ~InQueue(p)' /\ ~Submitting(p)' /\ cur' # p
          /\ InQueue(p)' => ~Submitting(p)' /\ cur' # p
          /\ Submitting(p)' => cur' # p
    BY <1>1, <1>4 DEF ReviewInv, OnePlace
  <2>. QED BY <2>1, <2>2, <2>3 DEF OnePlace
<1>6. \A p \in Proposal : Waits(p)' => Waits(p)
  BY <1>1, <1>4 DEF Waits
<1>7. RequestsKnow' /\ NobodyIsServed'
  BY <1>1 DEF ReviewInv, RequestsKnow, NobodyIsServed, At
<1>8. DecidedWaitNowhere'
  <2>1. \A r \in Request : req'[r].at \in Deciding => req[r].p \in Proposal
    BY <1>1 DEF ReviewInv, RequestsKnow, Deciding, At
  <2>. QED BY <1>1, <1>6, <2>1 DEF ReviewInv, DecidedWaitNowhere
<1>9. OffersAreDrafts' /\ EnabledWereReviewed'
  BY <1>1 DEF ReviewInv, OffersAreDrafts, EnabledWereReviewed, ProposalsTypeOK
<1>. QED BY <1>3, <1>5, <1>7, <1>8, <1>9, <1>6 DEF ReviewInv

(* The start of the service finds nothing running.                            *)
LEMMA Starting ==
  ASSUME ReviewInv, StartService
  PROVE  ReviewInv'
<1> USE ProposalFacts DEF StartService, disk, worker
<1>1. /\ todo = {} /\ queue = <<>> /\ cur = NoProposal /\ pc = "idle" /\ up' = TRUE
      /\ \A r \in Request : At(r, "idle")
      /\ UNCHANGED <<shown, draft, dir, registry, origin, queue, pc, cur, cand, req, reviewed, crashes>>
  BY DEF ReviewInv, ProposalsTypeOK, NobodyIsServed
<1>2. \A p \in Proposal : /\ status'[p] \in Status
                          /\ status'[p] \in {"absent", "awaiting_approval"} => status[p] = status'[p]
                          /\ status[p] # "absent" => status'[p] # "absent"
  BY DEF ReviewInv, ProposalsTypeOK, Recovered, Status
<1>3. todo' \subseteq Proposal /\ \A p \in todo' : status'[p] \in {"queued", "generating"}
  BY DEF Waiting
<1>4. ProposalsTypeOK'
  <2>1. status' \in [Proposal -> Status]
    BY <1>2
  <2>2. up' \in BOOLEAN
    BY <1>1
  <2>. QED BY <1>1, <1>3, <2>1, <2>2 DEF ReviewInv, ProposalsTypeOK
<1>5. \A p \in Proposal : ~InQueue(p)' /\ ~Submitting(p)' /\ cur' # p
  BY <1>1 DEF InQueue, Submitting, At
<1>6. OnePlace'
  BY <1>1, <1>5 DEF ReviewInv, OnePlace, At
<1>7. RequestsKnow' /\ NobodyIsServed'
  BY <1>1 DEF ReviewInv, RequestsKnow, NobodyIsServed, At
<1>8. DecidedWaitNowhere'
  BY <1>1, <1>3, <1>5 DEF DecidedWaitNowhere, Waits, Deciding, At
<1>9. OffersAreDrafts' /\ EnabledWereReviewed'
  BY <1>1, <1>2 DEF ReviewInv, OffersAreDrafts, EnabledWereReviewed
<1>. QED BY <1>4, <1>6, <1>7, <1>8, <1>9 DEF ReviewInv

(* What waits is queued before anybody is served.                             *)
LEMMA Queueing ==
  ASSUME ReviewInv, QueueWaiting
  PROVE  ReviewInv' /\ \A p \in Proposal : Waits(p)' => Waits(p)
<1> USE ProposalFacts DEF QueueWaiting, store, disk, worker
<1>1. /\ \A r \in Request : At(r, "idle")
      /\ UNCHANGED <<status, shown, draft, dir, registry, origin, up, pc, cur, cand, req, reviewed, crashes>>
      /\ queue \in Seq(Proposal) /\ Len(queue) \in Nat /\ Len(queue) <= QueueMax
  <2>1. \A r \in Request : At(r, "idle")
    BY DEF ReviewInv, NobodyIsServed
  <2>2. queue \in Seq(Proposal) /\ Len(queue) \in Nat /\ Len(queue) <= QueueMax
    BY DEF ReviewInv, ProposalsTypeOK
  <2>. QED BY <2>1, <2>2
<1>10. up
  BY DEF ReviewInv, NobodyIsServed
<1>2. \/ todo' = {} /\ UNCHANGED queue
      \/ \E p \in todo : queue' = Append(queue, p) /\ todo' = todo \ {p} /\ Len(queue) < QueueMax
  OBVIOUS
<1>3. \A p \in Proposal : /\ p \in todo' => p \in todo /\ ~InQueue(p)'
                          /\ InQueue(p)' => InQueue(p) \/ p \in todo
                          /\ ~Submitting(p)'
  <2>1. CASE todo' = {} /\ UNCHANGED queue
    BY <1>1, <2>1 DEF InQueue, Submitting, At
  <2>2. ASSUME NEW q \in todo, queue' = Append(queue, q), todo' = todo \ {q} PROVE <1>3!:
    <3>1. \A p \in Proposal : InQueue(p)' <=> InQueue(p) \/ p = q
      BY <1>1, <2>2 DEF InQueue
    <3>2. \A p \in Proposal : p \in todo => ~InQueue(p)
      BY DEF ReviewInv, OnePlace
    <3>. QED BY <1>1, <2>2, <3>1, <3>2 DEF Submitting, At
  <2>. QED BY <1>2, <2>1, <2>2
<1>4. ProposalsTypeOK'
  <2>1. queue' \in Seq(Proposal) /\ Len(queue') <= QueueMax /\ todo' \subseteq Proposal
    <3>1. CASE todo' = {} /\ UNCHANGED queue
      BY <1>1, <3>1
    <3>2. ASSUME NEW q \in todo, queue' = Append(queue, q), todo' = todo \ {q}, Len(queue) < QueueMax
          PROVE <2>1!:
      <4>1. q \in Proposal /\ todo \subseteq Proposal
        BY DEF ReviewInv, ProposalsTypeOK
      <4>. QED BY <1>1, <3>2, <4>1, ProposalsAssumption
    <3>. QED BY <1>2, <3>1, <3>2
  <2>. QED BY <1>1, <2>1 DEF ReviewInv, ProposalsTypeOK
<1>5. OnePlace'
  <2>1. \A i, j \in 1..Len(queue') : queue'[i] = queue'[j] => i = j
    <3>1. CASE UNCHANGED queue
      BY <3>1 DEF ReviewInv, OnePlace
    <3>2. ASSUME NEW q \in todo, queue' = Append(queue, q) PROVE <2>1!:
      <4>1. \A i \in 1..Len(queue) : queue[i] # q
        BY DEF ReviewInv, ProposalsTypeOK, OnePlace, InQueue
      <4>. QED BY <1>1, <3>2, <4>1 DEF ReviewInv, OnePlace
    <3>. QED BY <1>2, <3>1, <3>2
  <2>2. \A p \in Proposal : p \in todo' \/ InQueue(p)' => cur' # p
    BY <1>1, <1>3 DEF ReviewInv, OnePlace
  <2>. QED BY <1>1, <1>3, <2>1, <2>2 DEF OnePlace, At
<1>6. \A p \in Proposal : Waits(p)' => Waits(p)
  BY <1>1, <1>3 DEF Waits
<1>7. RequestsKnow' /\ NobodyIsServed'
  BY <1>1, <1>10 DEF ReviewInv, RequestsKnow, NobodyIsServed, At
<1>8. DecidedWaitNowhere'
  BY <1>1, <1>6 DEF ReviewInv, DecidedWaitNowhere, Deciding, At
<1>9. OffersAreDrafts' /\ EnabledWereReviewed'
  BY <1>1 DEF ReviewInv, OffersAreDrafts, EnabledWereReviewed
<1>. QED BY <1>4, <1>5, <1>7, <1>8, <1>9, <1>6 DEF ReviewInv

LEMMA Dying ==
  ASSUME ReviewInv, ServiceDies
  PROVE  ReviewInv'
<1> USE ProposalFacts DEF ServiceDies, Release, store, disk
<1>1. /\ up' = FALSE /\ todo' = {} /\ queue' = <<>> /\ pc' = "idle" /\ cur' = NoProposal /\ cand' = NoApp
      /\ \A r \in Request : req'[r] = Idle
      /\ UNCHANGED <<status, shown, draft, dir, registry, origin, reviewed>>
  OBVIOUS
<1>2. ProposalsTypeOK'
  <2>1. up' \in BOOLEAN /\ req' \in [Request -> Requests]
    BY <1>1
  <2>2. queue' \in Seq(Proposal) /\ Len(queue') <= QueueMax /\ crashes' \in 0..MaxCrashes
    BY ProposalsAssumption DEF ReviewInv, ProposalsTypeOK
  <2>. QED BY <1>1, <2>1, <2>2 DEF ReviewInv, ProposalsTypeOK, Requests
<1>3. OnePlace' /\ \A p \in Proposal : ~Waits(p)'
  BY <1>1 DEF OnePlace, Waits, InQueue, Submitting, At
<1>4. RequestsKnow' /\ NobodyIsServed' /\ DecidedWaitNowhere'
  BY <1>1, <1>3 DEF RequestsKnow, NobodyIsServed, DecidedWaitNowhere, Deciding, At
<1>5. OffersAreDrafts' /\ EnabledWereReviewed'
  BY <1>1 DEF ReviewInv, OffersAreDrafts, EnabledWereReviewed
<1>. QED BY <1>2, <1>3, <1>4, <1>5 DEF ReviewInv

------------------------------------------------------------------------------
(* A new proposal, which nothing knows of, is on its way to the queue.        *)
LEMMA Creating ==
  ASSUME ReviewInv, NEW r \in Request, Create(r)
  PROVE  ReviewInv' /\ \A q \in Proposal : status[q] # "absent" => (Waits(q)' => Waits(q))
<1> USE ProposalFacts
<1>1. PICK p \in Proposal : /\ status[p] = "absent" /\ status' = [status EXCEPT ![p] = "queued"]
                           /\ Open(r, "submit", p, NoApp)
  BY DEF Create
<1> DEFINE new == [at |-> "submit", p |-> p, seen |-> NoApp, app |-> NoApp]
<1>2. new \in Requests /\ new.at = "submit" /\ new.p = p
  BY DEF Requests, Labels
<1> HIDE DEF new
<1>3. /\ req \in [Request -> Requests] /\ status \in [Proposal -> Status]
      /\ req[r] = Idle /\ req' = [req EXCEPT ![r] = new]
      /\ UNCHANGED <<shown, draft, dir, registry, origin, up, todo, queue, pc, cur, cand, reviewed, crashes>>
  BY <1>1 DEF Create, Open, ReviewInv, ProposalsTypeOK, Requests, disk, service, worker, new
<1>4. todo = {}
  BY DEF Create, Serving
<1>15. up
  BY DEF Create, Serving
<1>5. \A q \in Proposal : status'[q] = IF q = p THEN "queued" ELSE status[q]
  BY <1>1, <1>3
<1>6. \A s \in Request : req'[s] = IF s = r THEN new ELSE req[s]
  BY <1>3
<1>7. ProposalsTypeOK'
  <2>1. status' \in [Proposal -> Status] /\ req' \in [Request -> Requests]
    BY <1>1, <1>2, <1>3 DEF Status
  <2>. QED BY <1>3, <2>1 DEF ReviewInv, ProposalsTypeOK, Requests
<1>8. ~InQueue(p) /\ ~Submitting(p) /\ cur # p
  BY <1>1 DEF ReviewInv, DecidedWaitNowhere, Waits
<1>9. \A q \in Proposal : /\ InQueue(q)' <=> InQueue(q)
                          /\ Submitting(q)' => Submitting(q) \/ q = p
  BY <1>2, <1>3, <1>6 DEF InQueue, Submitting, At
<1>10. OnePlace'
  <2>1. \A s \in Request : At(s, "submit") => req[s].p # p
    BY <1>8 DEF Submitting
  <2>2. \A s, t \in Request : At(s, "submit")' /\ At(t, "submit")' /\ req'[s].p = req'[t].p => s = t
    BY <1>2, <1>6, <2>1 DEF ReviewInv, OnePlace, At
  <2>. QED BY <1>3, <1>4, <1>8, <1>9, <2>2 DEF ReviewInv, OnePlace
<1>11. \A q \in Proposal \ {p} : Waits(q)' => Waits(q)
  BY <1>3, <1>9 DEF Waits
<1>12. RequestsKnow' /\ NobodyIsServed'
  <2>1. \A q \in Proposal : status[q] # "absent" => status'[q] # "absent"
    BY <1>5
  <2>2. RequestsKnow'
    BY <1>1, <1>2, <1>3, <1>5, <1>6, <2>1 DEF ReviewInv, RequestsKnow, At
  <2>3. NobodyIsServed'
    BY <1>3, <1>4, <1>15 DEF NobodyIsServed
  <2>. QED BY <2>2, <2>3
<1>13. DecidedWaitNowhere'
  <2>1. \A s \in Request : req'[s].at \in Deciding => s # r /\ req[s].p \in Proposal \ {p}
    BY <1>1, <1>2, <1>6 DEF ReviewInv, RequestsKnow, Deciding, At
  <2>. QED BY <1>5, <1>6, <1>11, <2>1 DEF ReviewInv, DecidedWaitNowhere
<1>14. OffersAreDrafts' /\ EnabledWereReviewed'
  BY <1>3, <1>5 DEF ReviewInv, OffersAreDrafts, EnabledWereReviewed
<1>. QED BY <1>1, <1>7, <1>10, <1>12, <1>13, <1>14, <1>11 DEF ReviewInv

(* It is queued, or fails on a full queue.                                    *)
LEMMA Submits ==
  ASSUME ReviewInv, NEW r \in Request, Submit(r)
  PROVE  ReviewInv' /\ \A q \in Proposal : Waits(q)' => Waits(q)
<1> USE ProposalFacts
<1> DEFINE p == req[r].p
<1>1. /\ At(r, "submit") /\ p \in Proposal /\ req' = [req EXCEPT ![r] = Idle]
      /\ \/ queue' = Append(queue, p) /\ Len(queue) < QueueMax /\ UNCHANGED status
         \/ status' = [status EXCEPT ![p] = "failed"] /\ UNCHANGED queue
      /\ UNCHANGED <<shown, draft, dir, registry, origin, up, todo, pc, cur, cand, reviewed, crashes>>
  BY DEF Submit, Leave, ReviewInv, RequestsKnow, At, disk, worker
<1>2. /\ req \in [Request -> Requests] /\ status \in [Proposal -> Status]
      /\ queue \in Seq(Proposal) /\ Len(queue) \in Nat /\ Len(queue) <= QueueMax
  BY DEF ReviewInv, ProposalsTypeOK, Requests
<1>3. p \notin todo /\ ~InQueue(p) /\ cur # p
  BY <1>1 DEF ReviewInv, OnePlace, Submitting
<1> HIDE DEF p
<1>4. \A s \in Request : req'[s] = IF s = r THEN Idle ELSE req[s]
  BY <1>1, <1>2
<1>5. \A q \in Proposal : status'[q] = status[q] \/ (q = p /\ status'[q] = "failed")
  BY <1>1, <1>2
<1>6. ProposalsTypeOK'
  <2>1. status' \in [Proposal -> Status] /\ req' \in [Request -> Requests]
    BY <1>1, <1>2 DEF Status
  <2>2. queue' \in Seq(Proposal) /\ Len(queue') <= QueueMax
    <3>1. CASE queue' = Append(queue, p) /\ Len(queue) < QueueMax
      BY <1>1, <1>2, <3>1, ProposalsAssumption
    <3>. QED BY <1>1, <1>2, <3>1
  <2>. QED BY <1>1, <2>1, <2>2 DEF ReviewInv, ProposalsTypeOK, Requests
<1>7. \A s \in Request : At(s, "submit") /\ s # r => req[s].p # p
  BY <1>1 DEF ReviewInv, OnePlace, p
<1>8. \A q \in Proposal : /\ InQueue(q)' => InQueue(q) \/ q = p
                          /\ Submitting(q)' => Submitting(q) /\ q # p
  <2>1. \A q \in Proposal : InQueue(q)' => InQueue(q) \/ q = p
    BY <1>1, <1>2 DEF InQueue
  <2>. QED BY <1>4, <1>7, <2>1 DEF Submitting, At
<1>9. OnePlace'
  <2>1. \A i, j \in 1..Len(queue') : queue'[i] = queue'[j] => i = j
    <3>1. \A i \in 1..Len(queue) : queue[i] # p
      BY <1>3 DEF InQueue
    <3>2. \A i, j \in 1..Len(queue) : queue[i] = queue[j] => i = j
      BY DEF ReviewInv, OnePlace
    <3>3. CASE queue' = Append(queue, p)
      BY <1>2, <3>1, <3>2, <3>3
    <3>. QED BY <1>1, <3>2, <3>3
  <2>2. \A s, t \in Request : At(s, "submit")' /\ At(t, "submit")' /\ req'[s].p = req'[t].p => s = t
    BY <1>4 DEF ReviewInv, OnePlace, At
  <2>. QED BY <1>1, <1>3, <1>8, <2>1, <2>2 DEF ReviewInv, OnePlace
<1>10. \A q \in Proposal : Waits(q)' => Waits(q)
  <2>1. Waits(p)
    BY <1>1 DEF Waits, Submitting, p
  <2>. QED BY <1>1, <1>8, <2>1 DEF Waits
<1>11. RequestsKnow' /\ NobodyIsServed'
  <2>1. ~(~up \/ todo # {})
    BY <1>1 DEF ReviewInv, NobodyIsServed, At
  <2>2. \A s \in Request : ~At(s, "idle") => status'[req[s].p] # "absent"
    BY <1>5 DEF ReviewInv, RequestsKnow
  <2>3. RequestsKnow'
    BY <1>1, <1>4, <2>2 DEF ReviewInv, RequestsKnow, At
  <2>4. NobodyIsServed'
    BY <1>1, <2>1 DEF NobodyIsServed
  <2>. QED BY <2>3, <2>4
<1>12. DecidedWaitNowhere'
  <2>1. \A s \in Request : req'[s].at \in Deciding => s # r /\ req[s].p \in Proposal
    BY <1>4 DEF ReviewInv, RequestsKnow, Deciding, At
  <2>. QED BY <1>4, <1>5, <1>10, <2>1 DEF ReviewInv, DecidedWaitNowhere
<1>13. OffersAreDrafts' /\ EnabledWereReviewed'
  BY <1>1, <1>5 DEF ReviewInv, OffersAreDrafts, EnabledWereReviewed
<1>. QED BY <1>6, <1>9, <1>11, <1>12, <1>13, <1>10 DEF ReviewInv

(* A decision on a proposal: an approval of what it shows, or a rejection.    *)
LEMMA Opening ==
  ASSUME ReviewInv, NEW r \in Request, NEW p \in Proposal, Approve(r, p) \/ Reject(r, p)
  PROVE  ReviewInv' /\ \A q \in Proposal : Waits(q)' => Waits(q)
<1> USE ProposalFacts
<1>1. PICK label \in {"mark", "reject", "remove"} :
        /\ Open(r, label, p, shown[p]) /\ status[p] # "absent"
        /\ label = "mark" => /\ status[p] = "awaiting_approval" /\ shown[p] # NoApp
                             /\ reviewed' = reviewed \cup {shown[p]}
        /\ label # "mark" => UNCHANGED reviewed
  BY DEF Approve, Reject, MayApprove
<1> DEFINE new == [at |-> label, p |-> p, seen |-> shown[p], app |-> NoApp]
<1>2. new \in Requests /\ new.at = label /\ new.p = p /\ new.seen = shown[p]
  BY DEF Requests, Labels, ReviewInv, ProposalsTypeOK
<1> HIDE DEF new
<1>3. /\ req \in [Request -> Requests] /\ shown[p] \in App \cup {NoApp} /\ reviewed \subseteq App
      /\ req[r] = Idle /\ req' = [req EXCEPT ![r] = new]
      /\ UNCHANGED <<status, shown, draft, dir, registry, origin, up, todo, queue, pc, cur, cand, crashes>>
  BY <1>1 DEF Approve, Reject, Open, ReviewInv, ProposalsTypeOK, Requests, store, disk, service, worker, new
<1>4. todo = {}
  BY DEF Approve, Reject, Serving
<1>5. up
  BY DEF Approve, Reject, Serving
<1>6. \A s \in Request : req'[s] = IF s = r THEN new ELSE req[s]
  BY <1>3
<1>7. reviewed \subseteq reviewed' /\ reviewed' \subseteq App
  BY <1>1, <1>3
<1>8. ProposalsTypeOK'
  <2>1. req' \in [Request -> Requests]
    BY <1>2, <1>3
  <2>. QED BY <1>3, <1>7, <2>1 DEF ReviewInv, ProposalsTypeOK, Requests
<1>9. OnePlace' /\ \A q \in Proposal : Waits(q)' => Waits(q)
  BY <1>2, <1>3, <1>6, NobodyMoves DEF At
<1>10. RequestsKnow'
  <2>1. label = "mark" => shown[p] \in reviewed' /\ draft[p] \in {shown[p], NoApp}
    BY <1>1 DEF ReviewInv, OffersAreDrafts
  <2>. QED BY <1>1, <1>2, <1>3, <1>6, <1>7, <2>1 DEF ReviewInv, RequestsKnow, At
<1>11. NobodyIsServed'
  BY <1>3, <1>4, <1>5 DEF NobodyIsServed
<1>12. DecidedWaitNowhere'
  <2>1. \A s \in Request : req'[s].at \in Deciding => req'[s].p \in Proposal /\ ~Waits(req'[s].p)
    <3>1. label \in Deciding => ~Waits(p)
      BY <1>1 DEF ReviewInv, DecidedWaitNowhere, Deciding
    <3>. QED BY <1>2, <1>6, <3>1 DEF ReviewInv, RequestsKnow, DecidedWaitNowhere, Deciding, At
  <2>. QED BY <1>3, <1>9, <2>1 DEF ReviewInv, DecidedWaitNowhere
<1>13. OffersAreDrafts' /\ EnabledWereReviewed'
  BY <1>3, <1>7 DEF ReviewInv, OffersAreDrafts, EnabledWereReviewed
<1>. QED BY <1>8, <1>9, <1>10, <1>11, <1>12, <1>13 DEF ReviewInv

------------------------------------------------------------------------------
(* What a step of a decision may do: to the request, which moves on to `next' *)
(* or is over, and to its proposal.                                           *)
Moves(r, next) ==
  /\ req[r].at \notin {"idle", "submit"} /\ req[r].p \in Proposal
  /\ next \in Requests /\ req' = [req EXCEPT ![r] = next]
  /\ \/ next = Idle
     \/ /\ next.p = req[r].p /\ next.seen = req[r].seen
        /\ next.at \notin {"idle", "submit", "mark", "remove"}
        /\ next.at \in Deciding <=> req[r].at \in Deciding
        /\ next.at = "inspect" => req[r].at = "mark"
        /\ next.at \in {"extract", "register", "grant"} => next.app \in reviewed

Decides(r) ==
  /\ UNCHANGED <<origin, up, todo, queue, pc, cur, cand, reviewed, crashes>>
  /\ \A p \in Proposal :
       /\ status'[p] = status[p] \/ (p = req[r].p /\ status'[p] \in {"installing", "installed", "rejected", "failed"})
       /\ draft'[p] = draft[p] \/ (p = req[r].p /\ draft'[p] = NoApp /\ req[r].at \in {"discard", "ditch", "remove"})
       /\ shown'[p] = shown[p] \/ (p = req[r].p /\ shown'[p] = NoApp /\ status'[p] = "rejected")
  /\ \A a \in App : registry'[a] = "enabled" => registry[a] = "enabled" \/ a \in reviewed
  /\ status' \in [Proposal -> Status]
  /\ shown' \in [Proposal -> App \cup {NoApp}] /\ draft' \in [Proposal -> App \cup {NoApp}]
  /\ dir' \in [App -> App \cup {NoApp}]
  /\ registry' \in [App -> {"none", "installed_disabled", "enabled"}]

(* What a decision leaves of an offer.                                        *)
LeavesNoOffer(r, next) ==
  /\ next.at \in Deciding \ {"mark"} => status'[req[r].p] # "awaiting_approval" \/ req[r].at \in Deciding \ {"mark"}
  /\ req[r].at \in {"fail", "reject"} => next = Idle /\ status'[req[r].p] # "awaiting_approval"
  /\ \/ draft'[req[r].p] = draft[req[r].p]
     \/ req[r].at = "discard" /\ next = Idle
     \/ next.at \in {"fail", "reject"}

LEMMA OneStepOn ==
  ASSUME ReviewInv, NEW r \in Request, NEW label \in Labels, Then(r, label)
  PROVE  LET next == [req[r] EXCEPT !.at = label]
         IN /\ req' = [req EXCEPT ![r] = next] /\ next \in Requests /\ next.at = label
            /\ next.p = req[r].p /\ next.seen = req[r].seen /\ next.app = req[r].app
BY DEF ReviewInv, ProposalsTypeOK, Then, Requests

LEMMA DecisionSteps ==
  ASSUME ReviewInv, NEW r \in Request, RequestStep(r), ~Submit(r)
  PROVE  Decides(r) /\ \E next : Moves(r, next) /\ LeavesNoOffer(r, next)
<1> USE ProposalFacts DEF store, disk, service, worker
<1>1. /\ req \in [Request -> Requests] /\ status \in [Proposal -> Status]
      /\ shown \in [Proposal -> App \cup {NoApp}] /\ draft \in [Proposal -> App \cup {NoApp}]
      /\ dir \in [App -> App \cup {NoApp}] /\ reviewed \subseteq App
      /\ registry \in [App -> {"none", "installed_disabled", "enabled"}]
  BY DEF ReviewInv, ProposalsTypeOK, Requests
<1>2. ~At(r, "idle") => req[r].p \in Proposal
  BY DEF ReviewInv, RequestsKnow
<1>3. CASE MarkInstalling(r)
  <2>1. Decides(r)
    BY <1>1, <1>2, <1>3 DEF MarkInstalling, Decides, Status, At
  <2> DEFINE next == [req[r] EXCEPT !.at = "inspect"]
  <2>2. /\ next \in Requests /\ next.at = "inspect" /\ req' = [req EXCEPT ![r] = next]
        /\ next.p = req[r].p /\ next.seen = req[r].seen /\ next.app = req[r].app
    BY <1>3, OneStepOn DEF MarkInstalling, Labels
  <2>3. req[r].at = "mark" /\ UNCHANGED draft /\ status'[req[r].p] = "installing"
    BY <1>1, <1>2, <1>3 DEF MarkInstalling, At
  <2> HIDE DEF next
  <2>4. Moves(r, next)
    BY <1>2, <2>2, <2>3 DEF Moves, Deciding, At
  <2>5. LeavesNoOffer(r, next)
    BY <2>2, <2>3 DEF LeavesNoOffer
  <2>. QED BY <2>1, <2>4, <2>5
<1>4. CASE Inspect(r)
  <2>1. Decides(r)
    BY <1>1, <1>2, <1>4 DEF Inspect, Decides, At
  <2>2. CASE FileOf(r) = NoApp
    <3>1. Moves(r, [req[r] EXCEPT !.at = "ditch"]) /\ LeavesNoOffer(r, [req[r] EXCEPT !.at = "ditch"])
      BY <1>1, <1>2, <1>4, <2>2, OneStepOn DEF Inspect, Moves, LeavesNoOffer, Labels, Deciding, At
    <3>. QED BY <2>1, <3>1
  <2>3. CASE FileOf(r) # NoApp
    <3>1. At(r, "inspect") /\ FileOf(r) \in reviewed /\ FileOf(r) \in App
      BY <1>1, <1>2, <1>4, <2>3 DEF Inspect, FileOf, At, ReviewInv, RequestsKnow
    <3> DEFINE next == [[req[r] EXCEPT !.at = "extract"] EXCEPT !.app = FileOf(r)]
    <3>2. /\ next \in Requests /\ next.at = "extract" /\ next.app = FileOf(r)
          /\ next.p = req[r].p /\ next.seen = req[r].seen
      BY <1>1, <3>1 DEF Requests, Labels
    <3>3. req' = [req EXCEPT ![r] = next] /\ UNCHANGED draft
      BY <1>1, <1>4, <2>3 DEF Inspect
    <3> HIDE DEF next
    <3>4. Moves(r, next) /\ LeavesNoOffer(r, next)
      BY <1>1, <1>2, <3>1, <3>2, <3>3 DEF Moves, LeavesNoOffer, Deciding, At
    <3>. QED BY <2>1, <3>4
  <2>. QED BY <2>2, <2>3
<1>5. At(r, "extract") \/ At(r, "register") \/ At(r, "grant") => req[r].app \in reviewed /\ req[r].app \in App
  BY <1>1 DEF ReviewInv, RequestsKnow, At
<1>6. CASE Extract(r)
  <2>1. FileOf(r) \in App \cup {NoApp}
    BY <1>1, <1>2, <1>6 DEF Extract, FileOf, At
  <2>2. dir' \in [App -> App \cup {NoApp}] /\ UNCHANGED draft
    BY <1>1, <1>6, <2>1 DEF Extract
  <2>3. Decides(r)
    BY <1>1, <1>2, <1>6, <2>2 DEF Extract, Decides, At
  <2>4. PICK label \in {"ditch", "register"} : Then(r, label)
    BY <1>6 DEF Extract
  <2> DEFINE next == [req[r] EXCEPT !.at = label]
  <2>5. /\ req' = [req EXCEPT ![r] = next] /\ next \in Requests /\ next.at = label
        /\ next.p = req[r].p /\ next.seen = req[r].seen /\ next.app = req[r].app
    <3>1. label \in Labels
      BY DEF Labels
    <3>. QED BY <2>4, <3>1, OneStepOn
  <2> HIDE DEF next
  <2>6. Moves(r, next) /\ LeavesNoOffer(r, next)
    BY <1>2, <1>5, <1>6, <2>2, <2>5 DEF Extract, Moves, LeavesNoOffer, Deciding, At
  <2>. QED BY <2>3, <2>6
<1>7. CASE Register(r)
  <2>1. Decides(r)
    BY <1>1, <1>2, <1>5, <1>7 DEF Register, Decides, At
  <2> DEFINE next == [req[r] EXCEPT !.at = "grant"]
  <2>2. /\ next \in Requests /\ next.at = "grant" /\ req' = [req EXCEPT ![r] = next]
        /\ next.p = req[r].p /\ next.seen = req[r].seen /\ next.app = req[r].app
    BY <1>7, OneStepOn DEF Register, Labels
  <2>3. req[r].at = "register" /\ UNCHANGED draft
    BY <1>7 DEF Register, At
  <2> HIDE DEF next
  <2>4. Moves(r, next) /\ LeavesNoOffer(r, next)
    BY <1>2, <1>5, <2>2, <2>3 DEF Moves, LeavesNoOffer, Deciding, At
  <2>. QED BY <2>1, <2>4
<1>8. CASE RegisterRaises(r)
  <2>1. Decides(r)
    BY <1>1, <1>2, <1>8 DEF RegisterRaises, Decides, At
  <2> DEFINE next == [req[r] EXCEPT !.at = "ditch"]
  <2>2. /\ next \in Requests /\ next.at = "ditch" /\ req' = [req EXCEPT ![r] = next]
        /\ next.p = req[r].p /\ next.seen = req[r].seen /\ next.app = req[r].app
    BY <1>8, OneStepOn DEF RegisterRaises, Labels
  <2>3. req[r].at = "register" /\ UNCHANGED draft
    BY <1>8 DEF RegisterRaises, At
  <2> HIDE DEF next
  <2>4. Moves(r, next) /\ LeavesNoOffer(r, next)
    BY <1>2, <2>2, <2>3 DEF Moves, LeavesNoOffer, Deciding, At
  <2>. QED BY <2>1, <2>4
<1>9. CASE Grant(r)
  <2>1. Decides(r)
    BY <1>1, <1>2, <1>5, <1>9 DEF Grant, Decides, At
  <2>2. PICK label \in {"settle", "ditch"} : Then(r, label)
    BY <1>9 DEF Grant
  <2> DEFINE next == [req[r] EXCEPT !.at = label]
  <2>3. /\ req' = [req EXCEPT ![r] = next] /\ next \in Requests /\ next.at = label
        /\ next.p = req[r].p /\ next.seen = req[r].seen
    <3>1. label \in Labels
      BY DEF Labels
    <3>. QED BY <2>2, <3>1, OneStepOn
  <2> HIDE DEF next
  <2>4. Moves(r, next) /\ LeavesNoOffer(r, next)
    BY <1>2, <1>9, <2>2, <2>3 DEF Grant, Moves, LeavesNoOffer, Deciding, At
  <2>. QED BY <2>1, <2>4
<1>10. CASE Settle(r)
  <2>1. Decides(r)
    BY <1>1, <1>2, <1>10 DEF Settle, Decides, Status, At
  <2> DEFINE next == [req[r] EXCEPT !.at = "discard"]
  <2>2. /\ next \in Requests /\ next.at = "discard" /\ req' = [req EXCEPT ![r] = next]
        /\ next.p = req[r].p /\ next.seen = req[r].seen /\ next.app = req[r].app
    BY <1>10, OneStepOn DEF Settle, Labels
  <2>3. req[r].at = "settle" /\ UNCHANGED draft /\ status'[req[r].p] = "installed"
    BY <1>1, <1>2, <1>10 DEF Settle, At
  <2> HIDE DEF next
  <2>4. Moves(r, next) /\ LeavesNoOffer(r, next)
    BY <1>2, <2>2, <2>3 DEF Moves, LeavesNoOffer, Deciding, At
  <2>. QED BY <2>1, <2>4
<1>11. CASE Discard(r)
  <2>1. Decides(r)
    BY <1>1, <1>2, <1>11 DEF Discard, Decides, At
  <2>2. CASE At(r, "discard") /\ Leave(r)
    <3>1. Moves(r, Idle) /\ LeavesNoOffer(r, Idle)
      BY <1>1, <1>2, <1>11, <2>2 DEF Leave, Moves, LeavesNoOffer, Deciding, At
    <3>. QED BY <2>1, <3>1
  <2>3. ASSUME NEW label \in {"fail", "reject"}, Then(r, label), At(r, IF label = "fail" THEN "ditch" ELSE "remove")
        PROVE  \E next : Moves(r, next) /\ LeavesNoOffer(r, next)
    <3> DEFINE next == [req[r] EXCEPT !.at = label]
    <3>1. /\ req' = [req EXCEPT ![r] = next] /\ next \in Requests /\ next.at = label
          /\ next.p = req[r].p /\ next.seen = req[r].seen
      <4>1. label \in Labels
        BY DEF Labels
      <4>. QED BY <2>3, <4>1, OneStepOn
    <3> HIDE DEF next
    <3>2. Moves(r, next) /\ LeavesNoOffer(r, next)
      BY <1>2, <2>3, <3>1 DEF Moves, LeavesNoOffer, Deciding, At
    <3>. QED BY <3>2
  <2>. QED BY <1>11, <2>1, <2>2, <2>3 DEF Discard
<1>12. CASE FailInstall(r)
  <2>1. Decides(r)
    BY <1>1, <1>2, <1>12 DEF FailInstall, Decides, Status, At
  <2>2. Moves(r, Idle) /\ LeavesNoOffer(r, Idle)
    BY <1>1, <1>2, <1>12 DEF FailInstall, Leave, Moves, LeavesNoOffer, Deciding, At
  <2>. QED BY <2>1, <2>2
<1>13. CASE MarkRejected(r)
  <2>1. Decides(r)
    BY <1>1, <1>2, <1>13 DEF MarkRejected, Decides, Status, At
  <2>2. Moves(r, Idle) /\ LeavesNoOffer(r, Idle)
    BY <1>1, <1>2, <1>13 DEF MarkRejected, Leave, Moves, LeavesNoOffer, Deciding, At
  <2>. QED BY <2>1, <2>2
<1>. QED BY <1>3, <1>4, <1>6, <1>7, <1>8, <1>9, <1>10, <1>11, <1>12, <1>13 DEF RequestStep

LEMMA DecisionStep ==
  ASSUME ReviewInv, NEW r \in Request, Decides(r), NEW next, Moves(r, next)
  PROVE  ReviewInv' /\ \A p \in Proposal : Waits(p)' => Waits(p)
<1> USE ProposalFacts
<1>1. /\ req \in [Request -> Requests] /\ req[r].at \notin {"idle", "submit"} /\ req[r].p \in Proposal
      /\ \A s \in Request : req'[s] = IF s = r THEN next ELSE req[s]
      /\ UNCHANGED <<up, todo, queue, pc, cur, cand, reviewed, crashes>>
      /\ next.at # "submit"
  BY DEF ReviewInv, ProposalsTypeOK, Requests, Moves, Decides
<1>2. ProposalsTypeOK'
  <2>1. req' \in [Request -> Requests]
    BY <1>1 DEF Moves
  <2>. QED BY <2>1 DEF ReviewInv, ProposalsTypeOK, Requests, Decides
<1>3. OnePlace' /\ \A p \in Proposal : Waits(p)' => Waits(p)
  BY <1>1, NobodyMoves DEF At
<1>4. \A p \in Proposal : /\ status[p] # "absent" => status'[p] # "absent"
                          /\ status'[p] \in {"absent", "awaiting_approval"} => status[p] = status'[p]
  BY DEF Decides
<1>5. RequestsKnow'
  <2>1. ASSUME NEW s \in Request, s # r
        PROVE  /\ At(s, "idle")' => req'[s] = Idle
               /\ ~At(s, "idle")' => req'[s].p \in Proposal /\ status'[req'[s].p] # "absent"
               /\ req'[s].at \in {"extract", "register", "grant"} => req'[s].app \in reviewed'
               /\ req'[s].at \in {"mark", "inspect"} =>
                    req'[s].seen \in reviewed' /\ draft'[req'[s].p] \in {req'[s].seen, NoApp}
    <3>1. req'[s] = req[s] /\ (At(s, "idle")' <=> At(s, "idle"))
      BY <1>1, <2>1 DEF At
    <3>2. At(s, "idle") => req[s] = Idle
      BY DEF ReviewInv, RequestsKnow
    <3>3. ~At(s, "idle") => req[s].p \in Proposal /\ status[req[s].p] # "absent"
      BY DEF ReviewInv, RequestsKnow
    <3>4. req[s].at \in {"extract", "register", "grant"} => req[s].app \in reviewed
      BY DEF ReviewInv, RequestsKnow
    <3>5. req[s].at \in {"mark", "inspect"} =>
            req[s].p \in Proposal /\ req[s].seen \in reviewed /\ draft[req[s].p] \in {req[s].seen, NoApp}
      BY <3>3 DEF ReviewInv, RequestsKnow, At
    <3>6. \A p \in Proposal : draft'[p] \in {draft[p], NoApp}
      BY DEF Decides
    <3>. QED BY <1>1, <1>4, <3>1, <3>2, <3>3, <3>4, <3>5, <3>6
  <2>2. /\ At(r, "idle")' => req'[r] = Idle
        /\ ~At(r, "idle")' => req'[r].p \in Proposal /\ status'[req'[r].p] # "absent"
        /\ req'[r].at \in {"extract", "register", "grant"} => req'[r].app \in reviewed'
        /\ req'[r].at \in {"mark", "inspect"} =>
             req'[r].seen \in reviewed' /\ draft'[req'[r].p] \in {req'[r].seen, NoApp}
    <3>1. CASE next = Idle
      BY <1>1, <3>1 DEF At
    <3>2. CASE next # Idle
      <4>1. /\ req'[r].p = req[r].p /\ req'[r].seen = req[r].seen /\ ~At(r, "idle")'
            /\ req'[r].at \in {"extract", "register", "grant"} => req'[r].app \in reviewed
            /\ req'[r].at \in {"mark", "inspect"} => At(r, "mark")
        BY <1>1, <3>2 DEF Moves, At
      <4>2. status'[req[r].p] # "absent" /\ draft'[req[r].p] \in {draft[req[r].p], NoApp}
        BY <1>1, <1>4 DEF ReviewInv, RequestsKnow, Decides, At
      <4>3. At(r, "mark") => req[r].seen \in reviewed /\ draft[req[r].p] \in {req[r].seen, NoApp}
        BY DEF ReviewInv, RequestsKnow, At
      <4>. QED BY <1>1, <4>1, <4>2, <4>3
    <3>. QED BY <3>1, <3>2
  <2>. QED BY <2>1, <2>2 DEF RequestsKnow
<1>6. NobodyIsServed'
  <2>1. ~(~up \/ todo # {})
    BY <1>1 DEF ReviewInv, NobodyIsServed, At
  <2>. QED BY <1>1, <2>1 DEF NobodyIsServed
<1>7. DecidedWaitNowhere'
  <2>1. \A s \in Request : req'[s].at \in Deciding =>
          req[s].at \in Deciding /\ req'[s].p = req[s].p /\ req[s].p \in Proposal
    BY <1>1 DEF ReviewInv, RequestsKnow, Moves, Deciding, At
  <2>. QED BY <1>3, <1>4, <2>1 DEF ReviewInv, DecidedWaitNowhere
<1>8. OffersAreDrafts'
  <2>1. \A p \in Proposal : status'[p] = "awaiting_approval" =>
          shown'[p] \in App /\ draft'[p] \in {shown'[p], NoApp}
    BY DEF ReviewInv, OffersAreDrafts, Decides
  <2>2. pc' \in {"inspect", "offer"} => cand' \in App /\ draft'[cur'] \in {cand', NoApp}
    BY <1>1 DEF ReviewInv, OffersAreDrafts, ProposalsTypeOK, Decides
  <2>. QED BY <2>1, <2>2 DEF OffersAreDrafts
<1>9. EnabledWereReviewed'
  BY <1>1 DEF ReviewInv, EnabledWereReviewed, Decides
<1>. QED BY <1>2, <1>3, <1>5, <1>6, <1>7, <1>8, <1>9 DEF ReviewInv

LEMMA NextReviewInv == ReviewInv /\ [Next]_vars => ReviewInv'
<1> SUFFICES ASSUME ReviewInv, [Next]_vars PROVE ReviewInv'
  OBVIOUS
<1>1. CASE StartService \/ QueueWaiting \/ ServiceDies
  BY <1>1, Starting, Queueing, Dying
<1>2. CASE WorkerStep
  BY <1>2, Taking, Generating, Releasing DEF WorkerStep
<1>3. ASSUME NEW r \in Request, NewRequest(r) PROVE ReviewInv'
  BY <1>3, Creating, Opening DEF NewRequest
<1>4. ASSUME NEW r \in Request, RequestStep(r) PROVE ReviewInv'
  BY <1>4, Submits, DecisionSteps, DecisionStep
<1>5. CASE UNCHANGED vars
  <2>1. ProposalsTypeOK' /\ NobodyIsServed'
    BY <1>5 DEF vars, ReviewInv, ProposalsTypeOK, NobodyIsServed, At
  <2>2. OnePlace' /\ DecidedWaitNowhere'
    BY <1>5 DEF vars, ReviewInv, OnePlace, DecidedWaitNowhere, Waits, InQueue, Submitting, At
  <2>3. RequestsKnow' /\ OffersAreDrafts' /\ EnabledWereReviewed'
    BY <1>5 DEF vars, ReviewInv, RequestsKnow, OffersAreDrafts, EnabledWereReviewed, At
  <2>. QED BY <2>1, <2>2, <2>3 DEF ReviewInv
<1>. QED BY <1>1, <1>2, <1>3, <1>4, <1>5 DEF Next

THEOREM ReviewInvariant == Spec => []ReviewInv
BY InitOfferInv, NextReviewInv, PTL DEF Spec, OfferInv

(* Whatever is generated, approved, rejected, installed and restarted         *)
(* meanwhile, an application is enabled only if an accepted approval was      *)
(* shown this very candidate (_approve_worker, install_app, approve).         *)
THEOREM EnabledAreReviewed == Spec => []EnabledWereReviewed
BY ReviewInvariant, PTL DEF ReviewInv

------------------------------------------------------------------------------
(* Only the generator offers, and nothing that is decided on.                 *)
LEMMA NextNotOffered ==
  ASSUME ReviewInv, DecidedAreNotOffered, [Next]_vars
  PROVE  DecidedAreNotOffered'
<1> USE ProposalFacts
<1>1. /\ req \in [Request -> Requests] /\ status \in [Proposal -> Status]
      /\ \A r \in Request : req[r].at \in Deciding => req[r].p \in Proposal
  BY DEF ReviewInv, ProposalsTypeOK, Requests, RequestsKnow, Deciding, At
<1>2. ASSUME UNCHANGED req,
             \A r \in Request : req[r].at \in Deciding =>
               (status'[req[r].p] = "awaiting_approval" => status[req[r].p] = "awaiting_approval")
      PROVE  DecidedAreNotOffered'
  BY <1>2 DEF DecidedAreNotOffered
<1>3. CASE StartService
  BY <1>1, <1>2, <1>3 DEF StartService, Recovered
<1>4. CASE QueueWaiting \/ Take \/ Build \/ BuildRaises \/ InspectCandidate
  BY <1>2, <1>4 DEF QueueWaiting, Take, Build, BuildRaises, InspectCandidate, store
<1>5. CASE MarkGenerating \/ FailGeneration
  BY <1>1, <1>2, <1>5 DEF MarkGenerating, FailGeneration
<1>6. CASE Offer
  <2>1. cur \in Proposal /\ \A r \in Request : req[r].at \in Deciding => req[r].p # cur
    BY <1>6 DEF Offer, ReviewInv, ProposalsTypeOK, DecidedWaitNowhere, Waits
  <2>. QED BY <1>1, <1>2, <1>6, <2>1 DEF Offer
<1>7. ASSUME NEW r \in Request, Create(r) PROVE DecidedAreNotOffered'
  BY <1>1, <1>7 DEF Create, Open, DecidedAreNotOffered, Deciding
<1>8. ASSUME NEW r \in Request, NEW p \in Proposal, Approve(r, p) \/ Reject(r, p) PROVE DecidedAreNotOffered'
  BY <1>1, <1>8 DEF Approve, Reject, Open, store, DecidedAreNotOffered, Deciding
<1>9. ASSUME NEW r \in Request, Submit(r) PROVE DecidedAreNotOffered'
  BY <1>1, <1>9 DEF Submit, Leave, DecidedAreNotOffered, Deciding
<1>10. ASSUME NEW r \in Request, RequestStep(r), ~Submit(r) PROVE DecidedAreNotOffered'
  <2>1. PICK next : Moves(r, next) /\ LeavesNoOffer(r, next)
    BY <1>10, DecisionSteps
  <2>2. /\ \A s \in Request : req'[s] = IF s = r THEN next ELSE req[s]
        /\ \A p \in Proposal : status'[p] = "awaiting_approval" => status[p] = "awaiting_approval"
    BY <1>1, <1>10, <2>1, DecisionSteps DEF Moves, Decides
  <2>3. next.at \in Deciding \ {"mark"} => next.p = req[r].p /\ status'[req[r].p] # "awaiting_approval"
    BY <2>1, <2>2 DEF Moves, LeavesNoOffer, DecidedAreNotOffered, Deciding
  <2>. QED BY <1>1, <2>2, <2>3 DEF DecidedAreNotOffered
<1>11. CASE ServiceDies
  BY <1>11 DEF ServiceDies, DecidedAreNotOffered, Deciding
<1>12. CASE UNCHANGED vars
  BY <1>2, <1>12 DEF vars
<1>. QED BY <1>3, <1>4, <1>5, <1>6, <1>7, <1>8, <1>9, <1>10, <1>11, <1>12 DEF Next, WorkerStep, NewRequest, RequestStep

(* As long as nothing restarts: a step that writes no record.                 *)
LEMMA FirstLifeGoesOn ==
  ASSUME ReviewInv, FirstLife, UNCHANGED <<up, shown, req>>,
         \A p \in Proposal : /\ status'[p] = status[p] \/ (cur = p /\ status'[p] \notin {"absent", "awaiting_approval"})
                             /\ draft'[p] = draft[p] \/ cur = p
                             /\ Waits(p)' => Waits(p),
         pc' \in {"inspect", "offer"} => draft'[cur'] = cand'
  PROVE  FirstLife'
<1>2. ~up' => \A p \in Proposal : status'[p] = "absent"
  BY ProposalFacts DEF ReviewInv, NobodyIsServed, FirstLife
<1>3. \A p \in Proposal : status'[p] = "absent" => shown'[p] = NoApp
  BY DEF FirstLife
<1>4. \A p \in Proposal : shown'[p] # NoApp => ~Waits(p)'
  BY DEF FirstLife
<1>5. \A r \in Request : \A p \in Proposal : At(r, "remove")' /\ req'[r].p = p => ~Waits(p)'
  BY DEF FirstLife, At
<1>6. \A p \in Proposal : status'[p] = "awaiting_approval" =>
        draft'[p] = shown'[p] \/ \E r \in Request : req'[r].p = p /\ req'[r].at \in {"reject", "fail"}
  BY DEF FirstLife, ReviewInv, DecidedWaitNowhere, Waits
<1>. QED BY <1>2, <1>3, <1>4, <1>5, <1>6 DEF FirstLife

LEMMA FirstGenerations ==
  ASSUME ReviewInv, FirstLife, QueueWaiting \/ WorkerStep
  PROVE  FirstLife'
<1> USE ProposalFacts DEF store, disk, service, worker
<1>1. \A p \in Proposal : Waits(p)' => Waits(p)
  BY Taking, Generating, Releasing, Queueing DEF WorkerStep
<1>2. /\ pc = "idle" <=> cur = NoProposal
      /\ status \in [Proposal -> Status] /\ shown \in [Proposal -> App \cup {NoApp}]
      /\ cur \in Proposal \cup {NoProposal} /\ draft \in [Proposal -> App \cup {NoApp}]
      /\ pc \in {"inspect", "offer"} => draft[cur] = cand
  BY DEF ReviewInv, ProposalsTypeOK, FirstLife
<1>3. CASE QueueWaiting \/ Take
  BY <1>1, <1>2, <1>3, FirstLifeGoesOn DEF QueueWaiting, Take
<1>4. CASE MarkGenerating
  BY <1>1, <1>2, <1>4, FirstLifeGoesOn DEF MarkGenerating, Goto
<1>5. CASE Build
  BY <1>1, <1>2, <1>5, FirstLifeGoesOn DEF Build
<1>6. CASE BuildRaises \/ InspectCandidate
  BY <1>1, <1>2, <1>6, FirstLifeGoesOn DEF BuildRaises, InspectCandidate, Goto
<1>7. CASE FailGeneration
  BY <1>1, <1>2, <1>7, FirstLifeGoesOn DEF FailGeneration, Release
<1>8. CASE Offer
  <2>1. /\ cur \in Proposal /\ draft[cur] = cand /\ Waits(cur)
        /\ status' = [status EXCEPT ![cur] = "awaiting_approval"] /\ shown' = [shown EXCEPT ![cur] = cand]
        /\ pc' = "idle" /\ UNCHANGED <<draft, up, req>>
    BY <1>2, <1>8 DEF Offer, Release, Waits
  <2>2. \A p \in Proposal : status'[p] \in {"absent", "awaiting_approval"} => ~Waits(p)'
    BY <1>8, Releasing DEF ReviewInv, DecidedWaitNowhere
  <2>3. up
    BY <2>1 DEF ReviewInv, NobodyIsServed
  <2>4. \A p \in Proposal : shown'[p] # NoApp => ~Waits(p)'
    BY <1>1, <1>2, <2>1, <2>2 DEF FirstLife
  <2>5. \A r \in Request : \A p \in Proposal : At(r, "remove")' /\ req'[r].p = p => ~Waits(p)'
    BY <1>1, <2>1 DEF FirstLife, At
  <2>6. \A p \in Proposal : /\ status'[p] = "absent" => shown'[p] = NoApp
                            /\ status'[p] = "awaiting_approval" => draft'[p] = shown'[p]
                                 \/ \E r \in Request : req'[r].p = p /\ req'[r].at \in {"reject", "fail"}
    BY <1>2, <2>1 DEF FirstLife
  <2>7. up' /\ pc' \notin {"inspect", "offer"}
    BY <2>1, <2>3
  <2>. QED BY <2>4, <2>5, <2>6, <2>7 DEF FirstLife
<1>. QED BY <1>3, <1>4, <1>5, <1>6, <1>7, <1>8 DEF WorkerStep

LEMMA FirstStart ==
  ASSUME ReviewInv, FirstLife, StartService
  PROVE  FirstLife'
<1> USE ProposalFacts DEF StartService, disk, worker
<1>1. /\ ~up /\ queue = <<>> /\ cur = NoProposal /\ pc = "idle"
      /\ \A r \in Request : At(r, "idle")
      /\ UNCHANGED <<shown, draft, queue, cur, pc, req>>
  BY DEF ReviewInv, ProposalsTypeOK, NobodyIsServed
<1>2. \A p \in Proposal : status'[p] = "absent" /\ shown[p] = NoApp
  BY <1>1 DEF FirstLife, Recovered
<1>3. up'
  OBVIOUS
<1>. QED BY <1>1, <1>2, <1>3 DEF FirstLife, At

LEMMA FirstRequests ==
  ASSUME ReviewInv, DecidedAreNotOffered, FirstLife, NEW r \in Request, NewRequest(r) \/ RequestStep(r)
  PROVE  FirstLife'
<1> USE ProposalFacts
<1>1. /\ req \in [Request -> Requests] /\ status \in [Proposal -> Status]
      /\ \A s \in Request : ~At(s, "idle") => req[s].p \in Proposal /\ status[req[s].p] # "absent"
  BY DEF ReviewInv, ProposalsTypeOK, Requests, RequestsKnow
<1>2. CASE Create(r)
  <2>1. PICK p \in Proposal : /\ status[p] = "absent" /\ status' = [status EXCEPT ![p] = "queued"]
                             /\ req[r] = Idle
                             /\ req' = [req EXCEPT ![r] = [at |-> "submit", p |-> p, seen |-> NoApp, app |-> NoApp]]
                             /\ UNCHANGED <<shown, draft, up, pc, cur, cand>>
    BY <1>2 DEF Create, Open, disk, service, worker
  <2>2. \A q \in Proposal : status[q] # "absent" => (Waits(q)' => Waits(q))
    BY <1>2, Creating
  <2>3. up
    BY <1>2 DEF Create, Serving
  <2>4. \A q \in Proposal : shown'[q] # NoApp => ~Waits(q)'
    BY <2>1, <2>2 DEF FirstLife
  <2>5. \A s \in Request : \A q \in Proposal : At(s, "remove")' /\ req'[s].p = q => ~Waits(q)'
    BY <1>1, <2>1, <2>2 DEF FirstLife, At
  <2>6. \A q \in Proposal : status'[q] = "awaiting_approval" => draft'[q] = shown'[q]
           \/ \E s \in Request : req'[s].p = q /\ req'[s].at \in {"reject", "fail"}
    <3> SUFFICES ASSUME NEW q \in Proposal, status'[q] = "awaiting_approval", draft[q] # shown[q]
                 PROVE  \E s \in Request : req'[s].p = q /\ req'[s].at \in {"reject", "fail"}
      BY <2>1
    <3>1. status[q] = "awaiting_approval"
      BY <1>1, <2>1
    <3>2. PICK s \in Request : req[s].p = q /\ req[s].at \in {"reject", "fail"}
      BY <3>1 DEF FirstLife
    <3>3. s # r
      BY <2>1, <3>2 DEF Idle
    <3>4. req'[s] = req[s]
      BY <1>1, <2>1, <3>3
    <3>. QED BY <3>2, <3>4
  <2>7. \A q \in Proposal : status'[q] = "absent" => shown'[q] = NoApp
    BY <1>1, <2>1 DEF FirstLife
  <2>. QED BY <2>1, <2>3, <2>4, <2>5, <2>6, <2>7 DEF FirstLife
<1>3. ASSUME NEW p \in Proposal, Approve(r, p) \/ Reject(r, p) PROVE FirstLife'
  <2>1. PICK label \in {"mark", "reject", "remove"} :
          /\ req[r] = Idle /\ req' = [req EXCEPT ![r] = [at |-> label, p |-> p, seen |-> shown[p], app |-> NoApp]]
          /\ label = "remove" => shown[p] # NoApp
          /\ UNCHANGED <<status, shown, draft, up, pc, cur, cand>>
    BY <1>3 DEF Approve, Reject, Open, store, service, worker
  <2>2. \A q \in Proposal : Waits(q)' => Waits(q)
    BY <1>3, Opening
  <2>4. \A q \in Proposal : shown'[q] # NoApp => ~Waits(q)'
    BY <2>1, <2>2 DEF FirstLife
  <2>5. \A s \in Request : \A q \in Proposal : At(s, "remove")' /\ req'[s].p = q => ~Waits(q)'
    BY <1>1, <2>1, <2>2 DEF FirstLife, At
  <2>6. \A q \in Proposal : status'[q] = "awaiting_approval" => draft'[q] = shown'[q]
           \/ \E s \in Request : req'[s].p = q /\ req'[s].at \in {"reject", "fail"}
    BY <1>1, <2>1 DEF FirstLife
  <2>. QED BY <2>1, <2>4, <2>5, <2>6 DEF FirstLife
<1>4. CASE Submit(r)
  <2>1. /\ At(r, "submit") /\ req' = [req EXCEPT ![r] = Idle]
        /\ status' = status \/ status' = [status EXCEPT ![req[r].p] = "failed"]
        /\ UNCHANGED <<shown, draft, up, pc, cur, cand>>
    BY <1>4 DEF Submit, Leave, disk, worker
  <2>2. \A q \in Proposal : Waits(q)' => Waits(q)
    BY <1>4, Submits
  <2>3. \A q \in Proposal : status'[q] = status[q] \/ status'[q] = "failed"
    BY <1>1, <2>1
  <2>4. up
    BY <2>1 DEF ReviewInv, NobodyIsServed, At
  <2>5. \A s \in Request : \A q \in Proposal : At(s, "remove")' /\ req'[s].p = q => ~Waits(q)'
    BY <1>1, <2>1, <2>2 DEF FirstLife, At
  <2>6. \A q \in Proposal : status'[q] = "awaiting_approval" => draft'[q] = shown'[q]
           \/ \E s \in Request : req'[s].p = q /\ req'[s].at \in {"reject", "fail"}
    BY <1>1, <2>1, <2>3 DEF FirstLife, At
  <2>7. \A q \in Proposal : /\ status'[q] = "absent" => shown'[q] = NoApp
                            /\ shown'[q] # NoApp => ~Waits(q)'
    BY <2>1, <2>2, <2>3 DEF FirstLife
  <2>. QED BY <2>1, <2>4, <2>5, <2>6, <2>7 DEF FirstLife
<1>5. CASE RequestStep(r) /\ ~Submit(r)
  <2>1. PICK next : Moves(r, next) /\ LeavesNoOffer(r, next)
    BY <1>5, DecisionSteps
  <2>2. Decides(r) /\ \A q \in Proposal : Waits(q)' => Waits(q)
    BY <1>5, <2>1, DecisionSteps, DecisionStep
  <2> DEFINE p == req[r].p
  <2>3. /\ p \in Proposal /\ req[r].at \notin {"idle", "submit"}
        /\ \A s \in Request : req'[s] = IF s = r THEN next ELSE req[s]
        /\ next = Idle \/ (next.p = p /\ next.at # "remove")
    BY <1>1, <2>1 DEF Moves
  <2>4. \A q \in Proposal :
          /\ status'[q] = status[q] \/ (q = p /\ status'[q] \in {"installing", "installed", "rejected", "failed"})
          /\ draft'[q] = draft[q] \/ (q = p /\ req[r].at \in {"discard", "ditch", "remove"})
          /\ shown'[q] = shown[q] \/ (q = p /\ shown'[q] = NoApp /\ status'[q] = "rejected")
    BY <2>2 DEF Decides
  <2>5. UNCHANGED <<up, pc, cur, cand>>
    BY <2>2 DEF Decides
  <2>6. req[r].at \in {"discard", "ditch", "remove"} => ~Waits(p)
    BY <2>3 DEF ReviewInv, DecidedWaitNowhere, FirstLife, Deciding, At
  <2>7. up
    BY <2>3 DEF ReviewInv, NobodyIsServed, At
  <2>8. \A s \in Request : \A q \in Proposal : At(s, "remove")' /\ req'[s].p = q => ~Waits(q)'
    BY <2>2, <2>3 DEF FirstLife, At
  <2>9. \A q \in Proposal : /\ status'[q] = "absent" => shown'[q] = NoApp
                            /\ shown'[q] # NoApp => ~Waits(q)'
    BY <2>2, <2>4 DEF FirstLife
  <2>10. pc' \in {"inspect", "offer"} => draft'[cur'] = cand'
    <3>1. pc \in {"inspect", "offer"} => cur \in Proposal /\ draft[cur] = cand /\ Waits(cur)
      BY ProposalFacts DEF ReviewInv, ProposalsTypeOK, FirstLife, Waits
    <3>. QED BY <2>4, <2>5, <2>6, <3>1
  <2>11. ASSUME NEW q \in Proposal, status'[q] = "awaiting_approval"
         PROVE  draft'[q] = shown'[q] \/ \E s \in Request : req'[s].p = q /\ req'[s].at \in {"reject", "fail"}
    <3>1. status[q] = "awaiting_approval" /\ shown'[q] = shown[q]
      BY <2>4, <2>11
    <3>2. CASE draft'[q] = draft[q]
      <4>1. req[r].at \in {"reject", "fail"} => p # q
        BY <2>1, <2>11 DEF LeavesNoOffer
      <4>. QED BY <2>3, <3>1, <3>2, <4>1 DEF FirstLife
    <3>3. CASE draft'[q] # draft[q]
      <4>1. q = p /\ req[r].at \in {"discard", "ditch", "remove"}
        BY <2>4, <3>3
      <4>2. req[r].at # "discard"
        BY <3>1, <4>1 DEF DecidedAreNotOffered, Deciding
      <4>3. next.at \in {"fail", "reject"}
        BY <2>1, <3>3, <4>1, <4>2 DEF LeavesNoOffer
      <4>. QED BY <2>3, <4>1, <4>3
    <3>. QED BY <3>2, <3>3
  <2>. QED BY <2>5, <2>7, <2>8, <2>9, <2>10, <2>11 DEF FirstLife
<1>. QED BY <1>2, <1>3, <1>4, <1>5 DEF NewRequest

LEMMA NextOfferInv == OfferInv /\ [Next]_vars => OfferInv'
<1> SUFFICES ASSUME OfferInv, [Next]_vars PROVE OfferInv'
  OBVIOUS
<1>1. ReviewInv' /\ DecidedAreNotOffered'
  BY NextReviewInv, NextNotOffered DEF OfferInv
<1>2. ASSUME crashes' = 0 PROVE FirstLife'
  <2>1. CASE ServiceDies
    BY <1>2, <2>1 DEF ServiceDies, OfferInv, ReviewInv, ProposalsTypeOK
  <2>2. CASE StartService \/ QueueWaiting \/ WorkerStep
    <3>1. UNCHANGED crashes
      BY <2>2 DEF StartService, QueueWaiting, WorkerStep, Take, MarkGenerating, Build, BuildRaises,
         InspectCandidate, Offer, FailGeneration
    <3>. QED BY <1>2, <2>2, <3>1, FirstStart, FirstGenerations DEF OfferInv
  <2>3. ASSUME NEW r \in Request, NewRequest(r) \/ RequestStep(r) PROVE FirstLife'
    <3>1. UNCHANGED crashes
      BY <2>3 DEF NewRequest, Create, Approve, Reject, RequestStep, Submit, MarkInstalling, Inspect, Extract,
         Register, RegisterRaises, Grant, Settle, Discard, FailInstall, MarkRejected
    <3>. QED BY <1>2, <2>3, <3>1, FirstRequests DEF OfferInv
  <2>4. CASE UNCHANGED vars
    BY <1>2, <2>4 DEF vars, OfferInv, FirstLife, Waits, InQueue, Submitting, At
  <2>. QED BY <2>1, <2>2, <2>3, <2>4 DEF Next
<1>. QED BY <1>1, <1>2 DEF OfferInv

THEOREM OfferInvariant == Spec => []OfferInv
BY InitOfferInv, NextOfferInv, PTL DEF Spec

(* Until a restart, an offer nobody is deciding on has the package it was     *)
(* made from, however creations, generations, rejections and installations    *)
(* of this and other proposals overlap (ProposalManager, ProposalWorker).     *)
THEOREM OffersHavePackages == Spec => []OffersHaveTheirPackage
<1>1. OfferInv => OffersHaveTheirPackage
  BY ProposalFacts DEF OfferInv, ReviewInv, FirstLife, OffersAreDrafts, OffersHaveTheirPackage
<1>. QED BY <1>1, OfferInvariant, PTL

------------------------------------------------------------------------------
(* The daily paper radar.                                                   *)

(* A run writes its report before it renders it, and has shown what it marks. *)
RunPublishes ==
  /\ run.at # "none" => run.day \in Day
  /\ run.at \in {"render", "mark"} => report.day \in Day
  /\ run.at = "mark" /\ run.focus # NoFocus => run.focus \in pages[report.day]

(* Every copy of a request under way is of its last wording, or the request   *)
(* is known to have been edited since.                                        *)
Current(c) == c # NoFocus => c[2] = requests[c[1]].wording \/ requests[c[1]].late

CopiesAreCurrent ==
  Current(run.focus) /\ Current(manifest.focus) /\ Current(report.focus)

RadarInv ==
  /\ RadarTypeOK /\ RunPublishes /\ CopiesAreCurrent
  /\ \A f \in Focus : requests[f].status = "consumed" => requests[f].for \in Day
  /\ FocusIsPublished

Runs == [at : {"none", "begin", "fetch", "record", "manifest", "read", "render", "mark", "finish"},
         day : {0} \cup Day, attempts : 0..MaxAttempts,
         state : Outcomes \cup {"none"}, focus : Copies]

(* What every action of the radar but the one named leaves of a request that  *)
(* a copy is compared with.                                                   *)
SameWordings ==
  \A f \in Focus :
    requests'[f].wording = requests[f].wording /\ requests'[f].late = requests[f].late

LEMMA CurrentStays ==
  ASSUME SameWordings, NEW c \in Copies, Current(c)
  PROVE  Current(c)'
<1>1. CASE c = NoFocus
  BY <1>1 DEF Current
<1>2. CASE c # NoFocus
  BY <1>2 DEF Current, SameWordings, Copies, Copy
<1> QED BY <1>1, <1>2

(* Of the requests that are due there is one whose day came first.            *)
LEMMA SelectedFocus ==
  ASSUME RadarTypeOK, NEW d
  PROVE  Selected(d) \in Copies /\ Current(Selected(d))
<1>1. CASE Due(d) = {}
  BY <1>1 DEF Selected, Copies, Current
<1>2. CASE Due(d) # {}
  <2> DEFINE targets == {requests[f].target : f \in Due(d)}
  <2>1. targets \subseteq Nat /\ targets # {} /\ \A f \in Due(d) : requests[f].target \in targets
    <3>1. \A f \in Focus : requests[f].target \in Nat
      <4>1. \A f \in Focus : requests[f] \in Entry
        BY DEF RadarTypeOK
      <4>. QED BY <4>1, RadarAssumption DEF Entry
    <3>2. Due(d) \subseteq Focus
      BY DEF Due, Pending
    <3>3. targets \subseteq Nat
      BY <3>1, <3>2
    <3>4. targets # {}
      BY <1>2
    <3>. QED BY <3>3, <3>4
  <2> DEFINE Less == {ss \in Nat \X Nat : ss[1] < ss[2]}
  <2>2. IsWellFoundedOn(Less, Nat)
    BY NatLessThanWellFounded, Zenon DEF OpToRel
  <2>3. \E t \in targets : \A u \in targets : ~(<<u, t>> \in Less)
    <3> HIDE DEF Less, targets
    <3>. QED BY <2>1, <2>2, WFMin
  <2>5. PICK t \in targets : \A u \in targets : t <= u
    <3> HIDE DEF targets
    <3>1. PICK t \in targets : \A u \in targets : ~(<<u, t>> \in Less)
      BY <2>3
    <3>2. ASSUME NEW u \in targets PROVE t <= u
      <4>1. t \in Nat /\ u \in Nat /\ <<u, t>> \in Nat \X Nat
        BY <2>1
      <4>2. ~(u < t)
        BY <3>1, <4>1
      <4>. QED BY <4>1, <4>2
    <3>. QED BY <3>2
  <2>4. \E f \in Due(d) : \A g \in Due(d) : requests[f].target <= requests[g].target
    BY <2>5
  <2> DEFINE f == CHOOSE f \in Due(d) : \A g \in Due(d) : requests[f].target <= requests[g].target
  <2>6. f \in Due(d)
    BY <2>4
  <2>7. f \in Focus /\ Selected(d) = <<f, requests[f].wording>>
    BY <1>2, <2>6 DEF Selected, Due, Pending
  <2> HIDE DEF f
  <2>8. requests[f].wording \in Wording
    BY <2>7 DEF RadarTypeOK, Entry
  <2>. QED BY <2>7, <2>8 DEF Copies, Copy, Current
<1>. QED BY <1>1, <1>2

LEMMA InitRadarInv == RadarInit => RadarInv
<1> SUFFICES ASSUME RadarInit PROVE RadarInv
  OBVIOUS
<1> USE RadarAssumption DEF RadarInit
<1>1. day \in Day /\ due \in BOOLEAN /\ windows \in 0..Windows
  BY DEF Day
<1>2. source \in [day : {0} \cup Day, attempts : 0..MaxAttempts, state : Outcomes \cup {"none", "collecting"}]
  OBVIOUS
<1>3. manifest \in [day : {0} \cup Day, attempts : 0..MaxAttempts,
                    state : Outcomes \cup {"none"}, focus : Copies]
  BY DEF Copies
<1>4. report \in [day : {0} \cup Day, focus : Copies]
  BY DEF Copies
<1>5. requests \in [Focus -> Entry]
  BY DEF Entry, Wording
<1>6. run \in Runs
  BY DEF NoRun, Runs, Copies
<1>7. pages \in [Day -> SUBSET Copy]
  OBVIOUS
<1>8. cooling \in BOOLEAN
  OBVIOUS
<1>9. queued \in BOOLEAN
  OBVIOUS
<1>10. RadarTypeOK
  BY <1>1, <1>2, <1>3, <1>4, <1>5, <1>6, <1>7, <1>8, <1>9 DEF RadarTypeOK, Runs
<1>. QED BY <1>10 DEF RadarInv, RunPublishes, FocusIsPublished, NoRun, CopiesAreCurrent, Current

(* A run hands on the copies it finds, and edits no request.                  *)
LEMMA RunHandsOn ==
  ASSUME RadarInv, RunStep
  PROVE  SameWordings /\ CopiesAreCurrent'
<1>1. /\ requests \in [Focus -> Entry]
      /\ run.focus \in Copies /\ manifest.focus \in Copies /\ report.focus \in Copies
      /\ run \in Runs
  BY DEF RadarInv, RadarTypeOK, Runs
<1>2. Current(run.focus) /\ Current(manifest.focus) /\ Current(report.focus) /\ Current(NoFocus)
  BY DEF RadarInv, CopiesAreCurrent, Current
<1>3. SameWordings
  <2>1. CASE Marks
    <3>1. UNCHANGED requests
          \/ \E f : requests' = [requests EXCEPT ![f].status = "consumed", ![f].for = report.day]
      BY <2>1 DEF Marks
    <3>2. ASSUME NEW f, requests' = [requests EXCEPT ![f].status = "consumed", ![f].for = report.day],
                 NEW g \in Focus
          PROVE  requests'[g].wording = requests[g].wording /\ requests'[g].late = requests[g].late
      <4>1. requests'[g] \in {requests[g], [requests[g] EXCEPT !.status = "consumed", !.for = report.day]}
        BY <1>1, <3>2
      <4> QED BY <1>1, <4>1 DEF Entry
    <3> QED BY <3>1, <3>2 DEF SameWordings
  <2>2. CASE ~Marks
    BY <2>2 DEF RunStep, Begins, Fetches, RecordsSource, WritesManifest, AgentReports, Renders,
       Finishes, RunDies, SameWordings
  <2> QED BY <2>1, <2>2
<1>4. Carried \in {NoFocus, manifest.focus, report.focus}
  BY DEF Carried
<1>5. run'.focus \in {NoFocus, run.focus, manifest.focus, report.focus, Selected(run.day)}
  <2>1. CASE Begins
    <3>1. \/ run' = NoRun
          \/ run' = [run EXCEPT !.at = "fetch", !.attempts = Counted + 1, !.focus = Selected(run.day)]
      BY <2>1 DEF Begins
    <3>2. CASE run' = NoRun
      BY <3>2 DEF NoRun
    <3>3. CASE run' = [run EXCEPT !.at = "fetch", !.attempts = Counted + 1, !.focus = Selected(run.day)]
      <4> DEFINE n == Counted + 1
                 f == Selected(run.day)
      <4>1. run' = [run EXCEPT !.at = "fetch", !.attempts = n, !.focus = f]
        BY <3>3
      <4> HIDE DEF n, f
      <4>2. run'.focus = f
        BY <1>1, <4>1 DEF Runs
      <4> QED BY <4>2 DEF f
    <3> QED BY <3>1, <3>2, <3>3
  <2>2. CASE Renders
    BY <1>1, <1>4, <2>2 DEF Renders, Runs
  <2>3. CASE Fetches
    BY <1>1, <2>3 DEF Fetches, Runs
  <2>4. CASE RecordsSource \/ WritesManifest \/ AgentReports
    BY <1>1, <2>4 DEF RecordsSource, WritesManifest, AgentReports, Runs
  <2>5. CASE Marks \/ Finishes \/ RunDies
    BY <1>1, <2>5 DEF Marks, Finishes, RunDies, NoRun, Runs
  <2> QED BY <2>1, <2>2, <2>3, <2>4, <2>5 DEF RunStep
<1>6. manifest'.focus \in {NoFocus, run.focus, manifest.focus}
  <2>1. CASE WritesManifest
    BY <2>1 DEF WritesManifest
  <2>2. CASE ~WritesManifest
    BY <2>2 DEF RunStep, Begins, Fetches, RecordsSource, AgentReports, Renders, Marks, Finishes,
       RunDies
  <2> QED BY <2>1, <2>2
<1>7. report'.focus \in {NoFocus, manifest.focus, report.focus}
  <2>1. CASE Renders
    <3>1. report'.focus = Carried
      BY <2>1 DEF Renders, RadarInv, RadarTypeOK
    <3> QED BY <1>4, <3>1
  <2>2. CASE AgentReports
    BY <2>2 DEF AgentReports
  <2>3. CASE ~Renders /\ ~AgentReports
    BY <2>3 DEF RunStep, Begins, Fetches, RecordsSource, WritesManifest, Marks, Finishes, RunDies
  <2> QED BY <2>1, <2>2, <2>3
<1>8. Selected(run.day) \in Copies /\ Current(Selected(run.day))
  BY SelectedFocus DEF RadarInv
<1>9. \A c \in {NoFocus, run.focus, manifest.focus, report.focus, Selected(run.day)} :
        c \in Copies /\ Current(c)
  BY <1>1, <1>2, <1>8 DEF Copies
<1>10. ASSUME NEW c \in {NoFocus, run.focus, manifest.focus, report.focus, Selected(run.day)}
       PROVE  c # NoFocus => c[2] = requests'[c[1]].wording \/ requests'[c[1]].late
  BY <1>3, <1>9, CurrentStays DEF Current
<1> QED BY <1>3, <1>5, <1>6, <1>7, <1>10 DEF CopiesAreCurrent, Current

(* The steps of a run.                                                        *)
LEMMA RunSteps ==
  ASSUME RadarInv, RunStep
  PROVE  RadarInv'
<1> USE RadarAssumption
<1>0. CopiesAreCurrent'
  BY RunHandsOn
<1> USE <1>0
<1>1. /\ run \in Runs /\ report \in [day : {0} \cup Day, focus : Copies]
      /\ requests \in [Focus -> Entry]
      /\ pages \in [Day -> SUBSET Copy]
      /\ source \in [day : {0} \cup Day, attempts : 0..MaxAttempts, state : Outcomes \cup {"none", "collecting"}]
      /\ manifest \in [day : {0} \cup Day, attempts : 0..MaxAttempts,
                       state : Outcomes \cup {"none"}, focus : Copies]
      /\ Day \subseteq Nat \ {0}
  BY DEF RadarInv, RadarTypeOK, Runs, Day
<1>2. CASE Begins
  <2>1. CASE run' = NoRun /\ UNCHANGED source
    BY <1>1, <1>2, <2>1 DEF Begins, calendar, RadarInv, RadarTypeOK, RunPublishes, FocusIsPublished,
       NoRun, Copies
  <2>2. CASE run' # NoRun \/ ~UNCHANGED source
    <3>1. /\ run.at = "begin" /\ run.day \in Day /\ Counted + 1 \in 0..MaxAttempts
          /\ run' = [run EXCEPT !.at = "fetch", !.attempts = Counted + 1, !.focus = Selected(run.day)]
          /\ source' = [day |-> run.day, attempts |-> Counted + 1, state |-> "collecting"]
          /\ UNCHANGED <<day, due, windows, manifest, report, cooling, requests, catchup, queued, pages>>
      BY <1>1, <1>2, <2>2 DEF Begins, calendar, Counted, RadarInv, RunPublishes
    <3>2. Selected(run.day) \in Copies
      BY SelectedFocus DEF RadarInv
    <3>3. run' \in Runs /\ run'.at = "fetch" /\ run'.day = run.day
      BY <1>1, <3>1, <3>2 DEF Runs
    <3>4. source' \in [day : {0} \cup Day, attempts : 0..MaxAttempts, state : Outcomes \cup {"none", "collecting"}]
      BY <3>1
    <3>6. RadarTypeOK'
      BY <3>1, <3>3, <3>4 DEF RadarInv, RadarTypeOK, Runs
    <3>. QED BY <3>1, <3>3, <3>6 DEF RadarInv, RunPublishes, FocusIsPublished
  <2>. QED BY <2>1, <2>2
<1>3. CASE Fetches
  <2>1. PICK outcome \in Outcomes : run' = [run EXCEPT !.at = "record", !.state = outcome] /\ cooling' = (outcome = "cooldown")
    BY <1>3 DEF Fetches
  <2>2. run' \in Runs /\ run'.at = "record" /\ run'.day = run.day /\ run.at # "none"
    BY <1>1, <1>3, <2>1 DEF Fetches, Runs
  <2>3. cooling' \in BOOLEAN
    BY <2>1
  <2>4. UNCHANGED <<day, due, windows, source, manifest, report, requests, catchup, queued, pages>>
    BY <1>3 DEF Fetches, calendar
  <2>5. RadarTypeOK'
    BY <2>2, <2>3, <2>4 DEF RadarInv, RadarTypeOK, Runs
  <2>. QED BY <2>2, <2>4, <2>5 DEF RadarInv, RunPublishes, FocusIsPublished
<1>4. CASE RecordsSource
  <2>1. source' \in [day : {0} \cup Day, attempts : 0..MaxAttempts, state : Outcomes \cup {"none", "collecting"}]
    BY <1>1, <1>4 DEF RecordsSource, Runs
  <2>2. run' \in Runs /\ run'.at = "manifest" /\ run'.day = run.day /\ run.at # "none"
    BY <1>1, <1>4 DEF RecordsSource, Runs
  <2>3. UNCHANGED <<day, due, windows, manifest, report, cooling, requests, catchup, queued, pages>>
    BY <1>4 DEF RecordsSource, calendar
  <2>4. RadarTypeOK'
    BY <2>1, <2>2, <2>3 DEF RadarInv, RadarTypeOK, Runs
  <2>. QED BY <2>2, <2>3, <2>4 DEF RadarInv, RunPublishes, FocusIsPublished
<1>5. CASE WritesManifest
  <2>1. manifest' \in [day : {0} \cup Day, attempts : 0..MaxAttempts,
                       state : Outcomes \cup {"none"}, focus : Copies]
    BY <1>1, <1>5 DEF WritesManifest, Runs, Copies
  <2>2. run' \in Runs /\ run'.at = "read" /\ run'.day = run.day /\ run.at # "none"
    BY <1>1, <1>5 DEF WritesManifest, Runs
  <2>3. UNCHANGED <<day, due, windows, source, report, cooling, requests, catchup, queued, pages>>
    BY <1>5 DEF WritesManifest, calendar
  <2>4. RadarTypeOK'
    BY <2>1, <2>2, <2>3 DEF RadarInv, RadarTypeOK, Runs
  <2>. QED BY <2>2, <2>3, <2>4 DEF RadarInv, RunPublishes, FocusIsPublished
<1>6. CASE AgentReports
  <2>1. run.day \in Day /\ run.at # "none"
    BY <1>6 DEF AgentReports, RadarInv, RunPublishes
  <2>2. report' \in [day : {0} \cup Day, focus : Copies] /\ report'.day \in Day
    BY <1>1, <1>6, <2>1 DEF AgentReports, Copies
  <2>3. run' \in Runs /\ run'.at = "render" /\ run'.day = run.day
    BY <1>1, <1>6 DEF AgentReports, Runs
  <2>4. UNCHANGED <<day, due, windows, source, manifest, cooling, requests, catchup, queued, pages>>
    BY <1>6 DEF AgentReports, calendar
  <2>5. RadarTypeOK'
    BY <2>2, <2>3, <2>4 DEF RadarInv, RadarTypeOK, Runs
  <2>. QED BY <2>1, <2>2, <2>3, <2>4, <2>5 DEF RadarInv, RunPublishes, FocusIsPublished
<1>7. CASE Renders
  <2>1. Carried \in Copies
    BY <1>1 DEF Carried, Copies
  <2>2. run.day \in Day /\ report.day \in Day
    BY <1>7 DEF Renders, RadarInv, RunPublishes
  <2>3. /\ report' \in [day : {0} \cup Day, focus : Copies] /\ report'.day = report.day
        /\ run' \in Runs /\ run'.at = "mark" /\ run'.day = run.day /\ run'.focus = Carried
    BY <1>1, <1>7, <2>1 DEF Renders, Runs
  <2>4. /\ pages' \in [Day -> SUBSET Copy]
        /\ \A d \in Day : pages[d] \subseteq pages'[d]
        /\ Carried # NoFocus => Carried \in pages'[report.day]
    BY <1>1, <1>7, <2>1, <2>2 DEF Renders, Copies
  <2>5. UNCHANGED <<day, due, windows, source, manifest, cooling, requests, catchup, queued>>
    BY <1>7 DEF Renders, calendar
  <2>6. RadarTypeOK'
    BY <2>3, <2>4, <2>5 DEF RadarInv, RadarTypeOK, Runs
  <2>. QED BY <2>2, <2>3, <2>4, <2>5, <2>6 DEF RadarInv, RunPublishes, FocusIsPublished
<1>8. CASE Marks
  <2>1. /\ run.at = "mark" /\ run.day \in Day /\ report.day \in Day
        /\ run.focus # NoFocus => run.focus \in pages[report.day]
        /\ UNCHANGED <<day, due, windows, source, manifest, report, cooling, catchup, queued, pages>>
    BY <1>8 DEF Marks, calendar, RadarInv, RunPublishes
  <2>2. run' \in Runs /\ run'.day \in {0, run.day} /\ run'.at \in {"finish", "none"}
        /\ (run'.at = "none" \/ run'.day = run.day)
    <3>1. run' = NoRun \/ run' = [run EXCEPT !.at = "finish"]
      BY <1>8 DEF Marks
    <3>. QED BY <1>1, <3>1 DEF NoRun, Runs, Copies
  <2>3. CASE UNCHANGED requests
    <3>1. RadarTypeOK'
      BY <1>1, <2>1, <2>2, <2>3 DEF RadarInv, RadarTypeOK, Runs
    <3>. QED BY <2>1, <2>2, <2>3, <3>1 DEF RadarInv, RunPublishes, FocusIsPublished
  <2>4. CASE ~UNCHANGED requests
    <3> DEFINE h == run.focus[1]
    <3>1. /\ Found = "pending"
          /\ requests' = [requests EXCEPT ![h].status = "consumed", ![h].for = report.day]
      BY <1>8, <2>4 DEF Marks
    <3>2. run.focus # NoFocus
      BY <3>1 DEF Found
    <3>3. run.focus \in Copy /\ h \in Focus
      BY <1>1, <3>2 DEF Runs, Copies, Copy
    <3>4. run.focus \in pages[report.day]
          /\ (run.focus[2] = requests[h].wording \/ requests[h].late)
      BY <2>1, <3>2 DEF RadarInv, CopiesAreCurrent, Current
    <3> HIDE DEF h
    <3>5. /\ requests[h] \in Entry
          /\ requests'[h] = [requests[h] EXCEPT !.status = "consumed", !.for = report.day]
          /\ \A f \in Focus : f # h => requests'[f] = requests[f]
          /\ requests' = [f \in Focus |-> requests'[f]]
      BY <1>1, <3>1, <3>3
    <3>6. /\ requests'[h] \in Entry /\ requests'[h].for = report.day
          /\ requests'[h].wording = requests[h].wording /\ requests'[h].late = requests[h].late
      BY <2>1, <3>5 DEF Entry
    <3>7. requests' \in [Focus -> Entry]
      <4>1. ASSUME NEW f \in Focus PROVE requests'[f] \in Entry
        BY <1>1, <3>5, <3>6
      <4>. QED BY <3>5, <4>1
    <3>8. RadarTypeOK'
      BY <1>1, <2>1, <2>2, <3>7 DEF RadarInv, RadarTypeOK, Runs
    <3>9. ASSUME NEW f \in Focus, requests'[f].status = "consumed"
          PROVE  /\ requests'[f].for \in Day
                 /\ \E entry \in pages'[requests'[f].for] :
                      entry[1] = f /\ (entry[2] = requests'[f].wording \/ requests'[f].late)
      <4>1. CASE f = h
        BY <2>1, <3>4, <3>6, <4>1 DEF h
      <4>2. CASE f # h
        BY <2>1, <3>5, <3>9, <4>2 DEF RadarInv, FocusIsPublished
      <4>. QED BY <4>1, <4>2
    <3>10. FocusIsPublished'
      BY <3>9 DEF FocusIsPublished
    <3>11. RunPublishes'
      BY <2>1, <2>2 DEF RunPublishes
    <3>. QED BY <3>8, <3>9, <3>10, <3>11 DEF RadarInv
  <2>. QED BY <2>3, <2>4
<1>9. CASE Finishes
  <2>1. source' \in [day : {0} \cup Day, attempts : 0..MaxAttempts, state : Outcomes \cup {"none", "collecting"}]
    BY <1>1, <1>9 DEF Finishes
  <2>2. run' \in Runs /\ run'.at = "none"
    BY <1>9 DEF Finishes, NoRun, Runs, Copies
  <2>3. UNCHANGED <<day, due, windows, manifest, report, cooling, requests, catchup, queued, pages>>
    BY <1>9 DEF Finishes, calendar
  <2>4. RadarTypeOK'
    BY <2>1, <2>2, <2>3 DEF RadarInv, RadarTypeOK, Runs
  <2>. QED BY <2>2, <2>3, <2>4 DEF RadarInv, RunPublishes, FocusIsPublished
<1>10. CASE RunDies
  BY <1>10 DEF RunDies, calendar, NoRun, Copies, RadarInv, RadarTypeOK, RunPublishes, FocusIsPublished
<1>. QED BY <1>2, <1>3, <1>4, <1>5, <1>6, <1>7, <1>8, <1>9, <1>10 DEF RunStep

(* What starts runs, and the calendar.                                        *)
LEMMA Occasions ==
  ASSUME RadarInv,
         \/ ScheduledRun \/ CatchupChecks \/ CatchupRuns \/ CatchupEnds \/ RecoveryQueues \/ QueuedRuns
         \/ CooldownEnds \/ Midnight
  PROVE  RadarInv'
<1>1. UNCHANGED <<source, manifest, report, requests, pages>>
  BY DEF ScheduledRun, CatchupChecks, CatchupRuns, CatchupEnds, RecoveryQueues, QueuedRuns, CooldownEnds, Midnight
<1>2. day' \in Day /\ windows' \in 0..Windows
  <2>1. CASE Midnight
    BY <2>1, RadarAssumption DEF Midnight, Day, RadarInv, RadarTypeOK
  <2>2. \/ UNCHANGED <<day, windows>>
        \/ UNCHANGED day /\ windows > 0 /\ windows' = windows - 1
        \/ Midnight
    BY DEF ScheduledRun, CatchupChecks, CatchupRuns, CatchupEnds, RecoveryQueues, QueuedRuns, CooldownEnds, calendar
  <2>. QED BY <2>1, <2>2, RadarAssumption DEF RadarInv, RadarTypeOK
<1>3. catchup' \in {"idle", "checked", "waits"}
  BY DEF ScheduledRun, CatchupChecks, CatchupRuns, CatchupEnds, RecoveryQueues, QueuedRuns,
     CooldownEnds, Midnight, RadarInv, RadarTypeOK
<1>4. UNCHANGED run \/ run' = [NoRun EXCEPT !.at = "begin", !.day = day]
  BY DEF ScheduledRun, CatchupChecks, CatchupRuns, CatchupEnds, RecoveryQueues, QueuedRuns,
     CooldownEnds, Midnight, Starts
<1>5. run' \in Runs /\ (UNCHANGED run \/ (run'.at = "begin" /\ run'.day \in Day))
  <2>1. CASE UNCHANGED run
    BY <2>1 DEF RadarInv, RadarTypeOK, Runs
  <2>2. CASE run' = [NoRun EXCEPT !.at = "begin", !.day = day]
    <3>1. run' = [at |-> "begin", day |-> day, attempts |-> 0, state |-> "none", focus |-> NoFocus]
      BY <2>2 DEF NoRun
    <3>2. day \in Day /\ 0 \in 0..MaxAttempts
      BY RadarAssumption DEF RadarInv, RadarTypeOK
    <3>. QED BY <3>1, <3>2 DEF Runs, Copies
  <2>. QED BY <1>4, <2>1, <2>2
<1>6. due' \in BOOLEAN
  BY DEF ScheduledRun, CatchupChecks, CatchupRuns, CatchupEnds, RecoveryQueues, QueuedRuns,
     CooldownEnds, Midnight, calendar, RadarInv, RadarTypeOK
<1>7. cooling' \in BOOLEAN
  BY DEF ScheduledRun, CatchupChecks, CatchupRuns, CatchupEnds, RecoveryQueues, QueuedRuns,
     CooldownEnds, Midnight, RadarInv, RadarTypeOK
<1>8. queued' \in BOOLEAN
  BY DEF ScheduledRun, CatchupChecks, CatchupRuns, CatchupEnds, RecoveryQueues, QueuedRuns,
     CooldownEnds, Midnight, RadarInv, RadarTypeOK
<1>9. RadarTypeOK'
  BY <1>1, <1>5, <1>6, <1>7, <1>8, <1>2, <1>3 DEF RadarInv, RadarTypeOK, Runs
<1>10. run'.focus \in {run.focus, NoFocus}
  BY <1>4 DEF NoRun
<1>11. CopiesAreCurrent'
  BY <1>1, <1>10 DEF RadarInv, CopiesAreCurrent, Current
<1>. QED BY <1>1, <1>5, <1>9, <1>11 DEF RadarInv, RunPublishes, FocusIsPublished

(* What users do with the queue of requests: none of it touches one that a    *)
(* report has consumed, and an edit is known to come after a copy.            *)
LEMMA Users ==
  ASSUME RadarInv,
         ClearUnconsumed \/ \E f \in Focus : SubmitFocus(f) \/ CancelFocus(f) \/ UpdateRequest(f)
  PROVE  RadarInv'
<1>1. requests \in [Focus -> Entry] /\ day \in Nat /\ day + 1 \in 0..MaxDay + 1
  BY RadarAssumption DEF RadarInv, RadarTypeOK, Day
<1>2. UNCHANGED <<day, due, windows, source, manifest, report, cooling, run, catchup, queued, pages>>
  BY DEF ClearUnconsumed, SubmitFocus, CancelFocus, UpdateRequest, Remove, calendar
<1> DEFINE
  Kept(g) == /\ requests'[g] \in Entry
             /\ requests'[g].status = "consumed" => requests'[g] = requests[g]
             /\ \/ /\ requests'[g].wording = requests[g].wording
                   /\ requests'[g].late = requests[g].late
                \/ g \in UnderWay => requests'[g].late
<1>3. (\E h : requests' = [g \in Focus |-> h[g]]) /\ \A g \in Focus : Kept(g)
  <2>1. ASSUME NEW gone, Remove(gone) PROVE <1>3!:
    <3> DEFINE h == [f \in Focus |->
                       IF f \in gone THEN [requests[f] EXCEPT !.status = "removed"] ELSE requests[f]]
    <3>1. requests' = h
      BY <2>1 DEF Remove
    <3>2. ASSUME NEW g \in Focus PROVE Kept(g)
      <4>1. requests'[g] \in {requests[g], [requests[g] EXCEPT !.status = "removed"]}
        BY <3>1
      <4>. QED BY <1>1, <4>1 DEF Entry
    <3>3. requests' = [g \in Focus |-> h[g]]
      BY <3>1
    <3> HIDE DEF h
    <3>. QED BY <3>2, <3>3
  <2>2. ASSUME NEW f \in Focus, SubmitFocus(f) PROVE <1>3!:
    <3> DEFINE h == [g \in Focus |->
          IF g = f THEN [requests[g] EXCEPT !.status = "pending", !.target = day + 1]
          ELSE IF requests[g].status = "pending" /\ requests[g].target = day + 1
               THEN [requests[g] EXCEPT !.status = "superseded"] ELSE requests[g]]
    <3>1. requests' = h
      BY <2>2 DEF SubmitFocus
    <3>2. ASSUME NEW g \in Focus PROVE Kept(g)
      <4>1. requests'[g] \in {requests[g], [requests[g] EXCEPT !.status = "superseded"],
                             [requests[g] EXCEPT !.status = "pending", !.target = day + 1]}
        BY <3>1
      <4>. QED BY <1>1, <4>1 DEF Entry
    <3>3. requests' = [g \in Focus |-> h[g]]
      BY <3>1
    <3> HIDE DEF h
    <3>. QED BY <3>2, <3>3
  <2>3. ASSUME NEW f \in Focus, UpdateRequest(f) PROVE <1>3!:
    <3>1. /\ requests[f].status = "pending" /\ requests[f].wording < MaxEdits
          /\ requests' = [requests EXCEPT ![f].wording = @ + 1, ![f].late = @ \/ f \in UnderWay]
      BY <2>3 DEF UpdateRequest, Pending
    <3> DEFINE w == requests[f].wording + 1
               l == (requests[f].late \/ f \in UnderWay)
    <3>2. requests'[f] = [requests[f] EXCEPT !.wording = w, !.late = l]
      BY <1>1, <3>1
    <3>3. w \in Wording
      <4>1. requests[f].wording \in Wording
        BY <1>1 DEF Entry
      <4>. QED BY <3>1, <4>1, RadarAssumption DEF Wording
    <3>4. l \in BOOLEAN /\ (f \in UnderWay => l)
      OBVIOUS
    <3> HIDE DEF w, l
    <3>5. requests[f] \in Entry
      BY <1>1
    <3>6. /\ requests'[f] \in Entry /\ requests'[f].late = l
          /\ requests'[f].status = requests[f].status
      BY <3>2, <3>3, <3>4, <3>5 DEF Entry
    <3>7. \A g \in Focus : g # f => requests'[g] = requests[g]
      BY <1>1, <3>1
    <3>8. ASSUME NEW g \in Focus PROVE Kept(g)
      <4>1. CASE g = f
        BY <3>1, <3>4, <3>6, <4>1
      <4>2. CASE g # f
        BY <1>1, <3>7, <4>2
      <4>. QED BY <4>1, <4>2
    <3>9. requests' = [g \in Focus |-> requests'[g]]
      BY <1>1, <3>1
    <3>. QED BY <3>8, <3>9
  <2>. QED BY <2>1, <2>2, <2>3 DEF ClearUnconsumed, CancelFocus
<1>4. requests' \in [Focus -> Entry]
  BY <1>3
<1>5. RadarTypeOK'
  BY <1>2, <1>4 DEF RadarInv, RadarTypeOK
<1>6. ASSUME NEW c \in {run.focus, manifest.focus, report.focus}, c # NoFocus
      PROVE  c[2] = requests'[c[1]].wording \/ requests'[c[1]].late
  <2>1. c \in Copies
    BY DEF RadarInv, RadarTypeOK
  <2>2. c[1] \in Focus /\ c[1] \in UnderWay
    BY <1>6, <2>1 DEF Copies, Copy, UnderWay
  <2>3. c[2] = requests[c[1]].wording \/ requests[c[1]].late
    BY <1>6 DEF RadarInv, CopiesAreCurrent, Current
  <2>. QED BY <1>3, <2>2, <2>3
<1>7. CopiesAreCurrent'
  BY <1>2, <1>6 DEF CopiesAreCurrent, Current
<1>8. \A f \in Focus : requests'[f].status = "consumed" => requests'[f] = requests[f]
  BY <1>3
<1>9. FocusIsPublished'
  BY <1>2, <1>8 DEF RadarInv, FocusIsPublished
<1>. QED BY <1>2, <1>5, <1>7, <1>8, <1>9 DEF RadarInv, RunPublishes

LEMMA NextRadarInv == RadarInv /\ [RadarNext]_radarVars => RadarInv'
<1> SUFFICES ASSUME RadarInv, [RadarNext]_radarVars PROVE RadarInv'
  OBVIOUS
<1>1. CASE RadarNext
  BY <1>1, RunSteps, Occasions, Users DEF RadarNext
<1>2. CASE UNCHANGED radarVars
  BY <1>2 DEF radarVars, calendar, RadarInv, RadarTypeOK, RunPublishes, FocusIsPublished,
     CopiesAreCurrent, Current
<1>. QED BY <1>1, <1>2

THEOREM RadarInvariant == RadarSpec => []RadarInv
BY InitRadarInv, NextRadarInv, PTL DEF RadarSpec

(* A request for a special focus is consumed for a day only after the page of *)
(* that day has shown it, in its last wording unless it was edited while a    *)
(* copy was under way, however scheduled, catch-up and recovery runs, edits,  *)
(* cancellations and deaths of runs fall (finalize_run, mark_consumed).       *)
THEOREM ConsumedIsPublished == RadarSpec => []FocusIsPublished
BY RadarInvariant, PTL DEF RadarInv
==============================================================================
