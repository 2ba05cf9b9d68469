--------------------------- MODULE GatewayPipeline ---------------------------
(***************************************************************************)
(* The gateway at work on one agent: requests that run through             *)
(* GovernanceOrchestrator.process_runtime_request side by side (every      *)
(* await, the Gemini call first, lets the others run), and administrators  *)
(* that update or delete the agent at the same time.  Each is one database *)
(* transaction at the READ COMMITTED level: it works on its own copy of the*)
(* agent's row, writes the columns it changed when it flushes, holding the *)
(* row lock from then on, and commits or rolls back at the end; the events *)
(* it publishes meanwhile are out at once.                                 *)
(***************************************************************************)
EXTENDS AgentTrust, FiniteSetsExt

CONSTANTS Requests, Admins,
          NoOne       \* the holder of a free row lock

Actors == Requests \cup Admins

ASSUME PipelineAssumption ==
  /\ NoOne \notin Actors /\ Requests \cap Admins = {}
  /\ IsFiniteSet(Requests)

VARIABLES
  agent,      \* the committed row of the agent
  lock,       \* the transaction that holds the row lock
  pc,         \* how far each request and administrator is
  row,        \* each transaction's copy of the agent's row
  dirty,      \* the columns it changed
  judged,     \* what each request asked and the verdict on it
  answer,     \* what its client was told
  streamed,   \* the events each transaction has published
  earlier,    \* (history) who had announced the same column before it did
  older,      \* (history) who had committed before it did
  since       \* (history) requests received since the status last changed

vars == <<agent, lock, pc, row, dirty, judged, answer, streamed, earlier, older, since>>

Row == [status : AgentStatus, trust : 0 .. 100, deleted : BOOLEAN]

Column == {"status", "trust", "deleted"}

Event == {"received", "decision", "trust", "status"}

\* Who is flushed has written and has an event to publish; who is published has
\* only the commit to come.
RequestAt ==
  {"new", "received", "decided", "assessed", "flushed", "published", "committed", "failed"}

InFlight(x) ==
  pc[x] \in {"received", "decided", "assessed", "read", "flushed", "published"}

Committed == {x \in Actors : pc[x] = "committed"}

TypeOK ==
  /\ agent \in Row
  /\ lock \in Actors \cup {NoOne}
  /\ pc \in [Actors -> RequestAt \cup {"read"}]
  /\ row \in [Actors -> Row]
  /\ dirty \in [Actors -> SUBSET Column]
  /\ judged \in [Requests -> SUBSET [input : Inputs, verdict : Verdict]]
  /\ answer \in [Requests -> {"none", "decision", "error", "timeout"}]
  /\ streamed \in [Actors -> SUBSET Event]
  /\ earlier \in [Actors -> SUBSET Actors]
  /\ older \in [Actors -> SUBSET Actors]
  /\ since \subseteq Requests

Init ==
  /\ agent \in [status : {"OPERATIONAL"}, trust : Scores, deleted : {FALSE}]
  /\ lock = NoOne
  /\ pc = [x \in Actors |-> "new"]
  /\ row = [x \in Actors |-> agent]
  /\ dirty = [x \in Actors |-> {}]
  /\ judged = [r \in Requests |-> {}]
  /\ answer = [r \in Requests |-> "none"]
  /\ streamed = [x \in Actors |-> {}]
  /\ earlier = [x \in Actors |-> {}]
  /\ older = [x \in Actors |-> {}]
  /\ since = {}

-----------------------------------------------------------------------------
(* What every transaction does.                                            *)

Goto(x, at) == pc' = [pc EXCEPT ![x] = at]

Stream(x, events) == streamed' = [streamed EXCEPT ![x] = @ \cup events]

Announced(event) == {x \in Actors : event \in streamed[x]}

\* Mutant: changes are written at the commit, without the row lock.
LockLate(x, columns) ==
  /\ dirty' = [dirty EXCEPT ![x] = columns]
  /\ lock' = lock

\* The flush of changed columns is an UPDATE, which takes the row lock and
\* waits for it.
Lock(x, columns) ==
  /\ dirty' = [dirty EXCEPT ![x] = columns]
  /\ columns # {} => lock \in {NoOne, x}
  /\ lock' = IF columns # {} THEN x ELSE lock

Unlock(x) == lock' = IF lock = x THEN NoOne ELSE lock

\* The committed row after an UPDATE of the changed columns.
Merge(mine, columns) ==
  [status  |-> IF "status" \in columns THEN mine.status ELSE agent.status,
   trust   |-> IF "trust" \in columns THEN mine.trust ELSE agent.trust,
   deleted |-> IF "deleted" \in columns THEN mine.deleted ELSE agent.deleted]

Commit(x) ==
  /\ pc[x] = "published"
  /\ Goto(x, "committed")
  /\ agent' = Merge(row[x], dirty[x])
  /\ Unlock(x)
  /\ older' = [older EXCEPT ![x] = Committed]
  /\ since' = IF agent'.status # agent.status THEN {} ELSE since
  /\ UNCHANGED <<row, dirty, judged, answer, streamed, earlier>>

\* Mutant: a transaction that fails is never rolled back.
FailHoldingLock(x) ==
  /\ InFlight(x)
  /\ Goto(x, "failed")
  /\ answer' = [r \in Requests |-> IF r = x /\ answer[r] = "none" THEN "error" ELSE answer[r]]
  /\ UNCHANGED <<agent, lock, row, dirty, judged, streamed, earlier, older, since>>

\* An exception anywhere, or a crash of the worker: nothing is written, and what
\* was published stays published.
Fail(x) ==
  /\ InFlight(x)
  /\ Goto(x, "failed")
  /\ Unlock(x)
  /\ answer' = [r \in Requests |-> IF r = x /\ answer[r] = "none" THEN "error" ELSE answer[r]]
  /\ UNCHANGED <<agent, row, dirty, judged, streamed, earlier, older, since>>

-----------------------------------------------------------------------------
(* A gateway request.                                                      *)

\* The prompt or model is invalid, or the agent is not there.
Reject(r) ==
  /\ pc[r] = "new"
  /\ Goto(r, "failed")
  /\ answer' = [answer EXCEPT ![r] = "error"]
  /\ UNCHANGED <<agent, lock, row, dirty, judged, streamed, earlier, older, since>>

\* Mutant: the agent is loaded once and kept.
ReceiveKept(r) ==
  /\ pc[r] = "new"
  /\ ~row[r].deleted
  /\ Goto(r, "received")
  /\ Stream(r, {"received"})
  /\ since' = since \cup {r}
  /\ UNCHANGED <<agent, lock, row, dirty, judged, answer, earlier, older>>

\* The request is admitted and finds the agent.  Its row is the one loaded with
\* the actor's organization, whose agents come along: the SELECT that follows
\* does not overwrite it.  An agent that is deleted in between is not found
\* (Reject).
Receive(r) ==
  /\ pc[r] = "new"
  /\ ~agent.deleted
  /\ Goto(r, "received")
  /\ row' = [row EXCEPT ![r] = agent]
  /\ Stream(r, {"received"})
  /\ since' = since \cup {r}
  /\ UNCHANGED <<agent, lock, dirty, judged, answer, earlier, older>>

\* Gemini has answered or not; the engine judges the request by the status and
\* trust score loaded with it, and the rows and events of the decision follow.
Evaluate(r) ==
  /\ pc[r] = "received"
  /\ Goto(r, "decided")
  /\ \E i \in Inputs :
       judged' = [judged EXCEPT ![r] =
                    {[input |-> i, verdict |-> Execute(i, row[r].status, row[r].trust)]}]
  /\ Stream(r, {"decision"})
  /\ UNCHANGED <<agent, lock, row, dirty, answer, earlier, older, since>>

\* The decisions r reads as the agent's recent activity, its own among them.
Visible(r) == {q \in Requests : pc[q] = "committed"} \cup {r}

Risks(activity) ==
  MapThenSumSet(LAMBDA q : MapThenSumSet(LAMBDA j : j.verdict.risk, judged[q]), activity)

\* The profile of the activity, of which the requests in recent are less than an
\* hour old.
ProfileOf(i, activity, recent) ==
  [requests |-> Cardinality(recent),
   blocked |-> Cardinality({q \in recent : \E j \in judged[q] :
                              j.verdict.decision \in {"BLOCK", "QUARANTINE"}}),
   external |-> Cardinality({q \in recent : \E j \in judged[q] : j.input.external})
                + (IF i.external THEN 1 ELSE 0),
   risky |-> activity # {} /\ Risks(activity) >= 60 * Cardinality(activity)]

\* The intelligence orchestrator derives the new trust score.  How much of the
\* activity is recent is open, and an administrator of another organization sees
\* none of it.
Assess(r) ==
  /\ pc[r] = "decided"
  /\ Goto(r, "assessed")
  /\ \E j \in judged[r], activity \in {Visible(r), {}} : \E recent \in SUBSET activity :
       row' = [row EXCEPT ![r].trust =
                 UpdateTrust(@, ProfileOf(j.input, activity, recent), j.input, j.verdict)]
  /\ dirty' = [dirty EXCEPT ![r] = IF row'[r].trust # row[r].trust THEN {"trust"} ELSE {}]
  /\ UNCHANGED <<agent, lock, judged, answer, streamed, earlier, older, since>>

FlushTrust(r) ==
  /\ pc[r] = "assessed"
  /\ Lock(r, dirty[r])
  /\ Goto(r, "flushed")
  /\ UNCHANGED <<agent, row, judged, answer, streamed, earlier, older, since>>

\* The histories in the cache are written, then the score is published, whether
\* or not it was: a score that has not changed is published without the lock.
AnnounceTrust(r) ==
  /\ pc[r] = "flushed"
  /\ Goto(r, "published")
  /\ Stream(r, {"trust"})
  /\ earlier' = [earlier EXCEPT ![r] = Announced("trust")]
  /\ UNCHANGED <<agent, lock, row, dirty, judged, answer, older, since>>

Answer(r) ==
  /\ pc[r] = "committed"
  /\ answer[r] = "none"
  /\ answer' = [answer EXCEPT ![r] = "decision"]
  /\ UNCHANGED <<agent, lock, pc, row, dirty, judged, streamed, earlier, older, since>>

\* The middleware answers 504, and the handler goes on.
Timeout(r) ==
  /\ InFlight(r) \/ pc[r] = "committed"
  /\ answer[r] = "none"
  /\ answer' = [answer EXCEPT ![r] = "timeout"]
  /\ UNCHANGED <<agent, lock, pc, row, dirty, judged, streamed, earlier, older, since>>

-----------------------------------------------------------------------------
(* An administrator's change.                                              *)

Read(a) ==
  /\ pc[a] = "new"
  /\ ~agent.deleted
  /\ Goto(a, "read")
  /\ row' = [row EXCEPT ![a] = agent]
  /\ UNCHANGED <<agent, lock, dirty, judged, answer, streamed, earlier, older, since>>

\* update_agent: the columns given that differ from the row read are written and
\* the copy is refreshed.  A status that now differs from the one read is to be
\* announced, even if another administrator's.
Update(a) ==
  /\ pc[a] = "read"
  /\ \E given \in SUBSET {"status", "trust"}, s \in AgentStatus, t \in Scores :
       LET new == [row[a] EXCEPT !.status = s, !.trust = t]
           columns == {c \in given : new[c] # row[a][c]}
       IN  /\ Lock(a, columns)
           /\ row' = [row EXCEPT ![a] = Merge(new, columns)]
           /\ Goto(a, IF "status" \in given /\ row'[a].status # row[a].status
                       THEN "flushed" ELSE "published")
  /\ UNCHANGED <<agent, judged, answer, streamed, earlier, older, since>>

\* delete_agent: the agent is blocked and marked deleted.
Delete(a) ==
  /\ pc[a] = "read"
  /\ Goto(a, "flushed")
  /\ Lock(a, IF row[a].status = "BLOCKED" THEN {"deleted"} ELSE {"status", "deleted"})
  /\ row' = [row EXCEPT ![a].status = "BLOCKED", ![a].deleted = TRUE]
  /\ UNCHANGED <<agent, judged, answer, streamed, earlier, older, since>>

\* The audit event is inserted first; the lock is held only by who has written.
AnnounceStatus(a) ==
  /\ pc[a] = "flushed"
  /\ Goto(a, "published")
  /\ Stream(a, {"status"})
  /\ earlier' = [earlier EXCEPT ![a] = Announced("status")]
  /\ UNCHANGED <<agent, lock, row, dirty, judged, answer, older, since>>

-----------------------------------------------------------------------------
RequestStep(r) ==
  \/ Evaluate(r) \/ Assess(r) \/ FlushTrust(r) \/ AnnounceTrust(r) \/ Commit(r)

AdminStep(a) == Update(a) \/ Delete(a) \/ AnnounceStatus(a) \/ Commit(a)

Next ==
  \/ \E r \in Requests :
       Receive(r) \/ Reject(r) \/ RequestStep(r) \/ Fail(r) \/ Answer(r) \/ Timeout(r)
  \/ \E a \in Admins : Read(a) \/ AdminStep(a) \/ Fail(a)

Spec == Init /\ [][Next]_vars

\* What has begun goes on: Gemini, Redis and the database answer or time out.
FairSpec ==
  /\ Spec
  /\ \A r \in Requests : WF_vars(RequestStep(r))
  /\ \A a \in Admins : WF_vars(AdminStep(a))

-----------------------------------------------------------------------------
(* Properties.                                                             *)

\* A request never changes the agent's status or deletion, however stale the row
\* it loaded: only the commit of an administrator does.
StatusOnlyByAdmin ==
  [][(agent'.status # agent.status \/ agent'.deleted # agent.deleted)
       => \E a \in Admins : pc[a] = "published" /\ pc'[a] = "committed"]_vars

\* Once an administrator's BLOCKED or QUARANTINED is committed, only requests
\* received before can still be let through; each one after it is refused,
\* whatever the requests in between wrote.
BlockTakesHold ==
  \A r \in since : \A j \in judged[r] :
    agent.status \in {"BLOCKED", "QUARANTINED"}
      => j.verdict.decision \in {"BLOCK", "QUARANTINE"}

\* Who has written a change of the column, published it and committed.
Told(column) == {x \in Committed : column \in dirty[x] /\ column \in streamed[x]}

\* Of the changes that were written, published and committed, the one published
\* last is the one the database keeps, although they are published before the
\* commit, unless a change that is never published was committed after it: an
\* administrator's of the trust score.  Nothing is said of what is published and
\* not written (a score that stays as it is, the status of another
\* administrator, a second deletion) or rolled back: a dashboard may be left
\* with that.
LastToldIsKept ==
  \A column \in {"trust", "status"} : \A x \in Told(column) :
    (/\ \A y \in Told(column) : x \notin earlier[y]
     /\ \A y \in Committed : (x \in older[y] /\ column \in dirty[y]) => y \in Told(column))
      => agent[column] = row[x][column]

\* A client that was told a decision finds it persisted, and one that was told
\* of an error never does; after a timeout it cannot know.
AnswersAreTrue ==
  \A r \in Requests : /\ answer[r] = "decision" => pc[r] = "committed"
                      /\ answer[r] = "error" => pc[r] = "failed"

\* The transactions that hold the row lock always let go of it: every request
\* received is decided and persisted, or fails.
EveryRequestEnds ==
  \A r \in Requests : InFlight(r) ~> pc[r] \in {"committed", "failed"}

\* docs/ARCHITECTURE_OVERVIEW.md:32 "Audit and governance events are persisted
\* and streamed": an event that was streamed is of a decision that is persisted,
\* or still may be.
StreamedIsPersisted ==
  \A r \in Requests : "decision" \in streamed[r] => pc[r] # "failed"
=============================================================================
