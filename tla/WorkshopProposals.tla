-------------------------- MODULE WorkshopProposals --------------------------
(* The proposals of the workshop and the registry they end in: create,       *)
(* approve and reject on the threads of the control socket, the generator    *)
(* thread with its bounded queue, the installation of the packages it signs, *)
(* and restarts of the service.                                              *)
(* proposals.json and registry.json are rewritten whole under a file lock,   *)
(* so one read or one update of them is one step.                            *)
EXTENDS Integers, Sequences, FiniteSets

CONSTANTS
  MaxProposals,   \* proposals are numbered in the order of their creation
  App,            \* application ids
  Caps,           \* the capability set an application declares
  Request,        \* slots for requests in progress
  QueueMax,       \* 64 in the code
  MaxCrashes,     \* bound: deaths of the service
  NoApp, NoProposal

Proposal == 1..MaxProposals

ASSUME ProposalsAssumption ==
  /\ MaxProposals \in Nat /\ QueueMax \in Nat \ {0} /\ MaxCrashes \in Nat
  /\ IsFiniteSet(App)
  /\ NoApp \notin App /\ NoProposal \notin Proposal

VARIABLES
  status, shown,           \* proposals.json: status; manifest and packagePath
  draft,                   \* drafts/<proposal>.rbapp
  dir, registry,           \* packages/<app>: whose contents; registry.json
  origin,                  \* the proposal an application was generated for
  up, todo, queue,         \* the service: running, ids start() has yet to queue, work
  pc, cur, cand,           \* the generator thread, its proposal and candidate
  req,                     \* requests in progress
  reviewed, crashes        \* history: candidates an accepted approval was shown

store   == <<status, shown>>
disk    == <<dir, registry>>
service == <<up, todo, queue>>
worker  == <<pc, cur, cand>>
vars    == <<status, shown, draft, dir, registry, origin, up, todo, queue,
             pc, cur, cand, req, reviewed, crashes>>

Status == {"absent", "queued", "generating", "awaiting_approval", "installing",
           "installed", "rejected", "failed"}
Idle   == [at |-> "idle", p |-> NoProposal, seen |-> NoApp, app |-> NoApp]
Labels == {"submit", "mark", "inspect", "extract", "register", "grant",
           "settle", "discard", "ditch", "fail", "remove", "reject"}

ProposalsTypeOK ==
  /\ status \in [Proposal -> Status]
  /\ shown \in [Proposal -> App \cup {NoApp}]
  /\ draft \in [Proposal -> App \cup {NoApp}]
  /\ dir \in [App -> App \cup {NoApp}]
  /\ registry \in [App -> {"none", "installed_disabled", "enabled"}]
  /\ origin \in [App -> Proposal \cup {NoProposal}]
  /\ up \in BOOLEAN
  /\ todo \subseteq Proposal
  /\ queue \in Seq(Proposal) /\ Len(queue) <= QueueMax
  /\ pc \in {"idle", "mark", "generate", "inspect", "offer", "fail"}
  /\ cur \in Proposal \cup {NoProposal}
  /\ cand \in App \cup {NoApp}
  /\ req \in [Request -> [at : Labels \cup {"idle"}, p : Proposal \cup {NoProposal},
                          seen : App \cup {NoApp}, app : App \cup {NoApp}]]
  /\ reviewed \subseteq App
  /\ crashes \in 0..MaxCrashes
  \* the thread holds a proposal exactly while it works
  /\ pc = "idle" <=> cur = NoProposal

Init ==
  /\ status = [p \in Proposal |-> "absent"]
  /\ shown = [p \in Proposal |-> NoApp] /\ draft = [p \in Proposal |-> NoApp]
  /\ dir = [a \in App |-> NoApp] /\ registry = [a \in App |-> "none"]
  /\ origin = [a \in App |-> NoProposal]
  /\ up = FALSE /\ todo = {} /\ queue = <<>>
  /\ pc = "idle" /\ cur = NoProposal /\ cand = NoApp
  /\ req = [r \in Request |-> Idle]
  /\ reviewed = {} /\ crashes = 0

------------------------------------------------------------------------------
(* Start of the service: recover, then queue what waits, while the generator *)
(* already works. The control socket is served only afterwards.              *)

Recovered(s) == IF s \in {"generating", "installing"} THEN "queued" ELSE s

(* queued_ids *)
Waiting == {p \in Proposal : status'[p] \in {"queued", "generating"}}

StartService ==
  /\ ~up
  /\ up' = TRUE
  /\ status' = [p \in Proposal |-> Recovered(status[p])]
  /\ todo' = Waiting
  /\ UNCHANGED <<shown, draft, disk, origin, queue, worker, req, reviewed, crashes>>

(* Oldest first; a full queue ends the loop and leaves the rest.             *)
QueueWaiting ==
  /\ todo # {}
  /\ IF Len(queue) < QueueMax
     THEN \E p \in todo :
            /\ \A other \in todo : p <= other
            /\ queue' = Append(queue, p) /\ todo' = todo \ {p}
     ELSE todo' = {} /\ UNCHANGED queue
  /\ UNCHANGED <<store, draft, disk, origin, up, worker, req, reviewed, crashes>>

------------------------------------------------------------------------------
(* The generator thread.                                                     *)

Goto(label) == pc' = label /\ UNCHANGED <<cur, cand>>
Release     == pc' = "idle" /\ cur' = NoProposal /\ cand' = NoApp

Wanted(p) == status[p] \in {"queued", "generating"}

Take ==
  /\ up /\ pc = "idle" /\ queue # <<>>
  /\ queue' = Tail(queue)
  /\ IF Wanted(Head(queue))
     THEN pc' = "mark" /\ cur' = Head(queue) /\ UNCHANGED cand
     ELSE UNCHANGED worker
  /\ UNCHANGED <<store, draft, disk, origin, up, todo, req, reviewed, crashes>>

MarkGenerating ==
  /\ pc = "mark"
  /\ status' = [status EXCEPT ![cur] = "generating"]
  /\ Goto("generate")
  /\ UNCHANGED <<shown, draft, disk, origin, service, req, reviewed, crashes>>

(* A plan within the agent's timeout, a candidate under a new id, its        *)
(* signed package.                                                           *)
Build ==
  /\ pc = "generate"
  /\ \E a \in App :
       /\ origin[a] = NoProposal
       /\ origin' = [origin EXCEPT ![a] = cur]
       /\ draft' = [draft EXCEPT ![cur] = a]
       /\ cand' = a
  /\ pc' = "inspect" /\ cur' = cur
  /\ UNCHANGED <<store, disk, service, req, reviewed, crashes>>

(* No agent, no plan that passes the contract, no key.                       *)
BuildRaises ==
  /\ pc = "generate"
  /\ Goto("fail")
  /\ UNCHANGED <<store, draft, disk, origin, service, req, reviewed, crashes>>

InspectCandidate ==
  /\ pc = "inspect"
  /\ Goto(IF draft[cur] = cand THEN "offer" ELSE "fail")
  /\ UNCHANGED <<store, draft, disk, origin, service, req, reviewed, crashes>>

(* By id only: whatever became of the proposal meanwhile.                    *)
Offer ==
  /\ pc = "offer"
  /\ status' = [status EXCEPT ![cur] = "awaiting_approval"]
  /\ shown' = [shown EXCEPT ![cur] = cand]
  /\ Release
  /\ UNCHANGED <<draft, disk, origin, service, req, reviewed, crashes>>

(* Mutant: the exception ends the thread.                                    *)
FailGenerationDying ==
  /\ pc = "fail"
  /\ status' = [status EXCEPT ![cur] = "failed"]
  /\ pc' = "dead" /\ cur' = NoProposal /\ cand' = NoApp
  /\ UNCHANGED <<shown, draft, disk, origin, service, req, reviewed, crashes>>

FailGeneration ==
  /\ pc = "fail"
  /\ status' = [status EXCEPT ![cur] = "failed"]
  /\ Release
  /\ UNCHANGED <<shown, draft, disk, origin, service, req, reviewed, crashes>>

WorkerStep ==
  Take \/ MarkGenerating \/ Build \/ BuildRaises \/ InspectCandidate \/ Offer \/ FailGeneration

------------------------------------------------------------------------------
(* Requests. A request at a label other than idle is a thread between two    *)
(* steps of its handler; its copy of the proposal is what it read first.     *)

Serving == up /\ todo = {}
At(r, label)   == req[r].at = label
Then(r, label) == req' = [req EXCEPT ![r].at = label]
Leave(r)      == req' = [req EXCEPT ![r] = Idle]
Open(r, label, p, a) ==
  /\ req[r] = Idle
  /\ req' = [req EXCEPT ![r] = [at |-> label, p |-> p, seen |-> a, app |-> NoApp]]

Create(r) ==
  /\ Serving
  /\ \E p \in Proposal :
       /\ status[p] = "absent" /\ \A q \in 1..(p - 1) : status[q] # "absent"
       /\ status' = [status EXCEPT ![p] = "queued"]
       /\ Open(r, "submit", p, NoApp)
  /\ UNCHANGED <<shown, draft, disk, origin, service, worker, reviewed, crashes>>

(* put_nowait; the queue may be full.                                        *)
Submit(r) ==
  /\ At(r, "submit")
  /\ IF Len(queue) < QueueMax
     THEN queue' = Append(queue, req[r].p) /\ UNCHANGED status
     ELSE status' = [status EXCEPT ![req[r].p] = "failed"] /\ UNCHANGED queue
  /\ Leave(r)
  /\ UNCHANGED <<shown, draft, disk, origin, up, todo, worker, reviewed, crashes>>

(* Mutant: a proposal that is still being generated can be approved.         *)
MayApproveEarly(p) == status[p] \in {"generating", "awaiting_approval"}

MayApprove(p) == status[p] = "awaiting_approval"

(* The capabilities sent are those of the manifest in the record.            *)
Approve(r, p) ==
  /\ Serving /\ MayApprove(p) /\ shown[p] # NoApp
  /\ Open(r, "mark", p, shown[p])
  /\ reviewed' = reviewed \cup {shown[p]}
  /\ UNCHANGED <<store, draft, disk, origin, service, worker, crashes>>

MarkInstalling(r) ==
  /\ At(r, "mark")
  /\ status' = [status EXCEPT ![req[r].p] = "installing"]
  /\ Then(r, "inspect")
  /\ UNCHANGED <<shown, draft, disk, origin, service, worker, reviewed, crashes>>

(* The package is the draft of the proposal, whatever is in it by now.       *)
FileOf(r) == draft[req[r].p]

Inspect(r) ==
  /\ At(r, "inspect")
  /\ IF FileOf(r) = NoApp
     THEN Then(r, "ditch")
     ELSE req' = [req EXCEPT ![r].at = "extract", ![r].app = FileOf(r)]
  /\ UNCHANGED <<store, draft, disk, origin, service, worker, reviewed, crashes>>

(* registry_lock                                                             *)
Unlocked == \A r \in Request : ~At(r, "register")

Extract(r) ==
  /\ At(r, "extract") /\ Unlocked
  /\ IF dir[req[r].app] # NoApp \/ FileOf(r) = NoApp
     THEN Then(r, "ditch") /\ UNCHANGED dir
     ELSE /\ dir' = [dir EXCEPT ![req[r].app] = FileOf(r)]
          /\ Then(r, "register")
  /\ UNCHANGED <<store, draft, registry, origin, service, worker, reviewed, crashes>>

Register(r) ==
  /\ At(r, "register")
  /\ registry' = [registry EXCEPT ![req[r].app] = "installed_disabled"]
  /\ Then(r, "grant")
  /\ UNCHANGED <<store, draft, dir, origin, service, worker, reviewed, crashes>>

(* The registry could not be written; the directory stays.                   *)
RegisterRaises(r) ==
  /\ At(r, "register")
  /\ Then(r, "ditch")
  /\ UNCHANGED <<store, draft, disk, origin, service, worker, reviewed, crashes>>

(* WorkshopManager.approve: its own look at state and capability set.        *)
Grant(r) ==
  /\ At(r, "grant") /\ Unlocked
  /\ IF registry[req[r].app] = "installed_disabled" /\ Caps[req[r].seen] = Caps[req[r].app]
     THEN registry' = [registry EXCEPT ![req[r].app] = "enabled"] /\ Then(r, "settle")
     ELSE Then(r, "ditch") /\ UNCHANGED registry
  /\ UNCHANGED <<store, draft, dir, origin, service, worker, reviewed, crashes>>

Settle(r) ==
  /\ At(r, "settle")
  /\ status' = [status EXCEPT ![req[r].p] = "installed"]
  /\ Then(r, "discard")
  /\ UNCHANGED <<shown, draft, disk, origin, service, worker, reviewed, crashes>>

(* _discard_draft, on each of its three paths.                               *)
Discard(r) ==
  /\ \/ At(r, "discard") /\ Leave(r)
     \/ At(r, "ditch")   /\ Then(r, "fail")
     \/ At(r, "remove")  /\ Then(r, "reject")
  /\ draft' = [draft EXCEPT ![req[r].p] = NoApp]
  /\ UNCHANGED <<store, disk, origin, service, worker, reviewed, crashes>>

(* Mutant: a failed installation goes back to review.                        *)
FailInstallReopening(r) ==
  /\ At(r, "fail")
  /\ status' = [status EXCEPT ![req[r].p] = "awaiting_approval"]
  /\ Leave(r)
  /\ UNCHANGED <<shown, draft, disk, origin, service, worker, reviewed, crashes>>

FailInstall(r) ==
  /\ At(r, "fail")
  /\ status' = [status EXCEPT ![req[r].p] = "failed"]
  /\ Leave(r)
  /\ UNCHANGED <<shown, draft, disk, origin, service, worker, reviewed, crashes>>

(* Only a record that has a packagePath has a draft to discard.              *)
Reject(r, p) ==
  /\ Serving
  /\ status[p] \in {"queued", "generating", "awaiting_approval"}
  /\ Open(r, IF shown[p] = NoApp THEN "reject" ELSE "remove", p, shown[p])
  /\ UNCHANGED <<store, draft, disk, origin, service, worker, reviewed, crashes>>

MarkRejected(r) ==
  /\ At(r, "reject")
  /\ status' = [status EXCEPT ![req[r].p] = "rejected"]
  /\ shown' = [shown EXCEPT ![req[r].p] = NoApp]
  /\ Leave(r)
  /\ UNCHANGED <<draft, disk, origin, service, worker, reviewed, crashes>>

RequestStep(r) ==
  \/ Submit(r)
  \/ MarkInstalling(r) \/ Inspect(r) \/ Extract(r) \/ Register(r) \/ RegisterRaises(r)
  \/ Grant(r) \/ Settle(r) \/ Discard(r) \/ FailInstall(r) \/ MarkRejected(r)

NewRequest(r) ==
  \/ Create(r)
  \/ \E p \in Proposal : Approve(r, p) \/ Reject(r, p)

------------------------------------------------------------------------------
(* The service dies, or is stopped: threads of requests are daemons and the  *)
(* generator is waited for no longer than five seconds.                      *)

ServiceDies ==
  /\ up /\ crashes < MaxCrashes
  /\ crashes' = crashes + 1
  /\ up' = FALSE /\ todo' = {} /\ queue' = <<>>
  /\ Release
  /\ req' = [r \in Request |-> Idle]
  /\ UNCHANGED <<store, draft, disk, origin, reviewed>>

Next ==
  \/ StartService \/ QueueWaiting \/ WorkerStep
  \/ \E r \in Request : NewRequest(r) \/ RequestStep(r)
  \/ ServiceDies

(* The threads of a live service run; clients promise nothing. A generation  *)
(* ends under the agent's timeout (at most two runs of 300 s).               *)
Fairness ==
  /\ WF_vars(StartService) /\ WF_vars(QueueWaiting) /\ WF_vars(WorkerStep)
  /\ \A r \in Request : WF_vars(RequestStep(r))

Spec == Init /\ [][Next]_vars /\ Fairness

------------------------------------------------------------------------------
(* Properties.                                                               *)

(* Only a candidate that was shown when its approval was accepted is ever    *)
(* enabled, and never another candidate of the same proposal, whatever is    *)
(* generated, installed and restarted meanwhile.                             *)
EnabledWereReviewed ==
  \A a \in App : registry[a] = "enabled" => a \in reviewed

(* While no restart has happened, an offer nobody is deciding on has the     *)
(* package it was made from.                                                 *)
OffersHaveTheirPackage ==
  crashes = 0 =>
    \A p \in Proposal :
      status[p] = "awaiting_approval" /\ (\A r \in Request : req[r].p # p)
        => draft[p] = shown[p] /\ shown[p] # NoApp

(* A proposal that waits is generated, as long as the service lives.         *)
QueuedIsServed ==
  \A p \in Proposal : status[p] = "queued" ~> status[p] # "queued" \/ crashes > 0
==============================================================================
