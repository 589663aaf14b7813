--------------------------- MODULE RequestHandler ---------------------------
(***************************************************************************)
(* The life of requests in the gateway (src/server.ts): handle(), the      *)
(* callback it gives to Pool.run, waitForDrain(), proxyToCapacityPeer()    *)
(* and shutdown().  A request meets its client, the provider or a peer     *)
(* Tyr, four timers, the deadline of a borrowed slot, other requests that  *)
(* want its slot, and the end of the process.                              *)
(*                                                                         *)
(* An action is what runs between two awaits.  An aborted fetch rejects at *)
(* once, and so the step that aborts it also unwinds the callback.         *)
(*                                                                         *)
(* The bulkhead behind Pool.run is external: MaxConcurrent slots, a FIFO   *)
(* of waiters.  Pools run in `enforce' mode.  Headers, bodies, usage and   *)
(* status codes are left out.                                              *)
(***************************************************************************)
EXTENDS Integers, Sequences, FiniteSets, SequencesExt

CONSTANTS
  Request,
  MaxConcurrent, MaxQueue,  \* of the pool
  Borrower,      \* requests admitted on a borrowed slot that has a deadline
  Hooks,         \* is resolvePriority or resolveAdmissionClass asynchronous
  Peers,         \* may the capacity router choose a peer
  MaxChunks      \* bound on the chunks of a stream

ASSUME RequestAssumption ==
  /\ MaxConcurrent \in Nat \ {0} /\ MaxQueue \in Nat /\ MaxChunks \in Nat
  /\ Borrower \subseteq Request
  /\ Hooks \in BOOLEAN /\ Peers \in BOOLEAN

VARIABLES
  req,      \* each request: its handler, its callback, its client, its upstream
  queue,    \* waiters of the pool
  phase,    \* of the server: open, draining, closing, closed
  drained   \* what the drain reported

vars == <<req, queue, phase, drained>>

Failures == {"borrowed_admission_deadline", "response_timeout", "idle_timeout",
             "client_disconnect", "client_stall"}
Settlements == Failures \cup {"completed", "rejected", "upstream_error"}

Requests ==
  [handler:   {"idle", "body", "hook", "queued", "running", "forwarding", "done"},
   work:      {"none", "fetch", "read", "stall", "text", "done"},
                                 \* what the callback awaits
   slot:      BOOLEAN,           \* does it hold local concurrency
   failure:   Failures \cup {"none"},  \* failureKind
   aborted:   BOOLEAN,           \* the signal given to fetch
   listening: BOOLEAN,           \* handle() listens to the close of `res'
   gone:      BOOLEAN,           \* res.destroyed
   left:      BOOLEAN,           \* ... because the client hung up
   response:  {"none", "stream", "whole", "error"},
   twice:     BOOLEAN,           \* writeHead() called with headers sent
   flushed:   BOOLEAN,           \* a response that ended has left the process
   upstream:  {"none", "asked", "streaming", "complete", "lost"},
   ready:     BOOLEAN,           \* it has sent a chunk that nobody has read
   chunks:    0 .. MaxChunks,
   settled:   Seq(Settlements)]  \* as audited

Fresh ==
  [handler |-> "idle", work |-> "none", slot |-> FALSE, failure |-> "none",
   aborted |-> FALSE, listening |-> FALSE, gone |-> FALSE, left |-> FALSE,
   response |-> "none", twice |-> FALSE, flushed |-> FALSE,
   upstream |-> "none", ready |-> FALSE, chunks |-> 0, settled |-> <<>>]

TypeOK ==
  /\ req \in [Request -> Requests]
  /\ queue \in Seq(Request) /\ IsInjective(queue)
  /\ \A r \in Request : req[r].handler = "queued" <=> Contains(queue, r)
  /\ phase \in {"open", "draining", "closing", "closed"}
  /\ drained \in BOOLEAN

Init ==
  /\ req = [r \in Request |-> Fresh]
  /\ queue = <<>>
  /\ phase = "open" /\ drained = FALSE

-----------------------------------------------------------------------------
Active(q) == q.work \notin {"none", "done"}
Ended(q) == q.response \in {"whole", "error"}
Connected(q) == q.handler # "idle" /\ ~q.gone /\ ~q.flushed

(* writeHead() throws once headers are sent.  The short body of an error   *)
(* leaves at once, whether the client reads or not.                        *)
Send(q, response) ==
  IF q.response = "none"
  THEN [q EXCEPT !.response = response, !.flushed = (response = "error")]
  ELSE [q EXCEPT !.twice = TRUE]

(* Mutants of CloseEvent: the pool is not given the signal, so that a      *)
(* waiter does not hear; failureKind is assigned with `=' for `??='.       *)
DeafWaiter(q) ==
  LET heard == q.listening /\ ~Ended(q) /\ q.handler # "queued"
  IN  [q EXCEPT !.gone = TRUE,
                !.aborted = @ \/ heard,
                !.failure = IF heard /\ @ = "none" /\ q.handler # "forwarding"
                            THEN "client_disconnect" ELSE @]

BlameTheClient(q) ==
  LET heard == q.listening /\ ~Ended(q)
  IN  [q EXCEPT !.gone = TRUE,
                !.aborted = @ \/ heard,
                !.failure = IF heard /\ q.handler # "forwarding"
                            THEN "client_disconnect" ELSE @]

(* `res' closes.  The listener of handle() keeps an earlier failureKind;   *)
(* that of proxyToCapacityPeer() only aborts.                              *)
CloseEvent(q) ==
  LET heard == q.listening /\ ~Ended(q)
  IN  [q EXCEPT !.gone = TRUE,
                !.aborted = @ \/ heard,
                !.failure = IF heard /\ @ = "none" /\ q.handler # "forwarding"
                            THEN "client_disconnect" ELSE @]

Destroy(q) == IF q.gone THEN q ELSE CloseEvent(q)

(* Mutants of Settle: an abandoned run settles again when its callback     *)
(* ends; a stream that has started is not destroyed.                       *)
SettleAgain(q, kind) ==
  LET s == [q EXCEPT !.handler = "done", !.settled = Append(@, kind)]
  IN  IF q.response # "none" \/ kind \in {"client_disconnect", "client_stall"}
      THEN Destroy(s) ELSE Send(s, "error")

SettleOpen(q, kind) ==
  LET s == [q EXCEPT !.handler = "done", !.settled = Append(@, kind)]
  IN  IF q.handler # "running" THEN q
      ELSE IF q.response # "none" THEN s
      ELSE IF kind \in {"client_disconnect", "client_stall"}
           THEN Destroy(s) ELSE Send(s, "error")

(* How handle() ends when Pool.run rejects.  A run that was abandoned has  *)
(* settled already.                                                        *)
Settle(q, kind) ==
  LET s == [q EXCEPT !.handler = "done", !.settled = Append(@, kind)]
  IN  IF q.handler # "running" THEN q
      ELSE IF q.response # "none" \/ kind \in {"client_disconnect", "client_stall"}
           THEN Destroy(s) ELSE Send(s, "error")

(* The callback throws: its slot goes back and run() rejects.  When it was *)
(* the proxy, nothing is settled.                                          *)
Unwind(q) ==
  LET s == [q EXCEPT !.work = "done", !.slot = FALSE, !.upstream = "lost",
                     !.ready = FALSE]
  IN  IF q.handler = "forwarding"
      THEN LET f == [s EXCEPT !.handler = "done", !.listening = FALSE]
           IN  IF q.gone \/ q.response # "none" THEN Destroy(f) ELSE Send(f, "error")
      ELSE Settle(s, IF q.failure = "none" THEN "upstream_error" ELSE q.failure)

(* Mutant of Abort: the signal is not handed to fetch. *)
KeepFetching(q) == [q EXCEPT !.aborted = TRUE]

(* abort(): fetch, text() and the next chunk reject.  waitForDrain() does  *)
(* not look at the signal.                                                 *)
Abort(q) ==
  LET a == [q EXCEPT !.aborted = TRUE]
  IN  IF q.work \in {"fetch", "read", "text"} THEN Unwind(a) ELSE a

(* The close of `res' also ends waitForDrain(), and the read that follows  *)
(* meets the signal.                                                       *)
Close(q) ==
  LET c == CloseEvent(q)
  IN  IF Active(c) /\ c.aborted THEN Unwind(c) ELSE c

(* The callback returns.  Its run may have been abandoned. *)
Complete(q) ==
  LET s == [q EXCEPT !.work = "done", !.slot = FALSE, !.upstream = "complete"]
  IN  IF q.handler = "forwarding"
      THEN [s EXCEPT !.handler = "done", !.listening = FALSE]
      ELSE IF q.handler = "running"
      THEN [s EXCEPT !.handler = "done", !.settled = Append(@, "completed")]
      ELSE s

(* The catch of handle() for a rejected admission. *)
Rejected(q) ==
  Send([q EXCEPT !.handler = "done", !.settled = Append(@, "rejected")], "error")

(* The run callback starts with a slot in hand, and calls fetch. *)
Begin(q) ==
  [q EXCEPT !.handler = "running", !.work = "fetch", !.slot = TRUE,
            !.upstream = "asked"]

InUse(rs) == Cardinality({r \in Request : rs[r].slot})

(* The bulkhead forgets a waiter. *)
LeavesQueue(r) ==
  \E i \in DOMAIN queue : queue[i] = r /\ queue' = RemoveAt(queue, i)

(* Request r becomes q.  If that frees a slot, the bulkhead gives it to    *)
(* the first waiter.                                                       *)
Update(r, q) ==
  LET rs == [req EXCEPT ![r] = q]
  IN  IF queue # <<>> /\ InUse(rs) < MaxConcurrent
      THEN /\ req' = [rs EXCEPT ![Head(queue)] = Begin(@)]
           /\ queue' = Tail(queue)
      ELSE req' = rs /\ UNCHANGED queue

-----------------------------------------------------------------------------
(* handle() up to Pool.run *)

Arrive(r) ==
  /\ req[r].handler = "idle" /\ phase = "open"
  /\ req' = [req EXCEPT ![r].handler = "body"]
  /\ UNCHANGED <<queue, phase, drained>>

(* Authentication, readBody() or validation ends the request.  So does a   *)
(* hook that throws.                                                       *)
TurnedAway(r) ==
  /\ req[r].handler \in {"body", "hook"}
  /\ req' = [req EXCEPT ![r] = Send([@ EXCEPT !.handler = "done"], "error")]
  /\ UNCHANGED <<queue, phase, drained>>

(* The body is read, and no hook is awaited or all have answered. *)
Dispatchable(r) ==
  \/ req[r].handler = "body" /\ ~req[r].gone /\ ~Hooks
  \/ req[r].handler = "hook"

AwaitHook(r) ==
  /\ Hooks
  /\ req[r].handler = "body" /\ ~req[r].gone
  /\ req' = [req EXCEPT ![r].handler = "hook"]
  /\ UNCHANGED <<queue, phase, drained>>

(* Mutant of Admit: shutdown() forgets pools.close(). *)
AdmitLate(r) ==
  LET q == [req[r] EXCEPT !.listening = TRUE]
  IN  /\ Dispatchable(r)
      /\ InUse(req) < MaxConcurrent
      /\ req' = [req EXCEPT ![r] = Begin(q)]
      /\ UNCHANGED <<queue, phase, drained>>

(* handle() starts to listen to `res', and asks the pool. *)
Admit(r) ==
  LET q == [req[r] EXCEPT !.listening = TRUE]
  IN  /\ Dispatchable(r)
      /\ \/ /\ phase = "open" /\ InUse(req) < MaxConcurrent
            /\ req' = [req EXCEPT ![r] = Begin(q)]
            /\ UNCHANGED queue
         \/ /\ phase = "open" /\ InUse(req) >= MaxConcurrent
            /\ Len(queue) < MaxQueue
            /\ req' = [req EXCEPT ![r] = [q EXCEPT !.handler = "queued"]]
            /\ queue' = Append(queue, r)
         \/ \* by a limit, a budget or the shutdown
            /\ req' = [req EXCEPT ![r] = Rejected(q)]
            /\ UNCHANGED queue
      /\ UNCHANGED <<phase, drained>>

QueueTimeout(r) ==
  /\ req[r].handler = "queued"
  /\ req' = [req EXCEPT ![r] = Rejected(@)]
  /\ LeavesQueue(r)
  /\ UNCHANGED <<phase, drained>>

(* proxyToCapacityPeer(): no slot, a timer and a listener of its own. *)
Forward(r) ==
  /\ Peers /\ Dispatchable(r)
  /\ req' = [req EXCEPT ![r] = [@ EXCEPT !.listening = TRUE,
               !.handler = "forwarding", !.work = "fetch", !.upstream = "asked"]]
  /\ UNCHANGED <<queue, phase, drained>>

-----------------------------------------------------------------------------
(* The provider, or the peer, and the loop that copies its stream *)

(* The proxy sends the head of any answer, handle() that of a stream. *)
StreamStarts(r) ==
  /\ req[r].work = "fetch"
  /\ Update(r, [Send(req[r], "stream") EXCEPT !.work = "read", !.upstream = "streaming"])
  /\ UNCHANGED <<phase, drained>>

(* text() buffers an answer that was not asked for as a stream. *)
TextStarts(r) ==
  /\ req[r].work = "fetch" /\ req[r].handler # "forwarding"
  /\ Update(r, [req[r] EXCEPT !.work = "text", !.upstream = "streaming"])
  /\ UNCHANGED <<phase, drained>>

TextEnds(r) ==
  /\ req[r].work = "text"
  /\ Update(r, Complete(Send(req[r], "whole")))
  /\ UNCHANGED <<phase, drained>>

UpstreamFails(r) ==
  /\ req[r].work \in {"fetch", "read", "text"}
  /\ Update(r, Unwind(req[r]))
  /\ UNCHANGED <<phase, drained>>

ChunkSent(r) ==
  LET q == req[r]
  IN  /\ Active(q) /\ q.upstream = "streaming" /\ ~q.ready
      /\ q.work # "text" /\ q.chunks < MaxChunks
      /\ req' = [req EXCEPT ![r] = [q EXCEPT !.ready = TRUE, !.chunks = @ + 1]]
      /\ UNCHANGED <<queue, phase, drained>>

(* A write that fills the buffer is followed by waitForDrain(), which      *)
(* returns at once when `res' is destroyed.                                *)
ChunkRead(r) ==
  /\ req[r].work = "read" /\ req[r].ready
  /\ \E full \in BOOLEAN :
       Update(r, [req[r] EXCEPT !.ready = FALSE,
                    !.work = IF full /\ ~req[r].gone THEN "stall" ELSE "read"])
  /\ UNCHANGED <<phase, drained>>

(* 'drain' ends waitForDrain(), and an aborted stream throws when read. *)
ClientDrains(r) ==
  LET q == [req[r] EXCEPT !.work = "read"]
  IN  /\ req[r].work = "stall"
      /\ Update(r, IF q.aborted THEN Unwind(q) ELSE q)
      /\ UNCHANGED <<phase, drained>>

StreamEnds(r) ==
  /\ req[r].work = "read" /\ ~req[r].ready
  /\ Update(r, Complete([req[r] EXCEPT !.response = "whole"]))
  /\ UNCHANGED <<phase, drained>>

-----------------------------------------------------------------------------
(* Timers.  failureKind is overwritten. *)

ResponseTimeout(r) ==
  /\ req[r].work = "fetch" /\ req[r].handler # "forwarding"
  /\ Update(r, Abort([req[r] EXCEPT !.failure = "response_timeout"]))
  /\ UNCHANGED <<phase, drained>>

ForwardTimeout(r) ==
  /\ req[r].work = "fetch" /\ req[r].handler = "forwarding"
  /\ Update(r, Abort(req[r]))
  /\ UNCHANGED <<phase, drained>>

(* Armed at the headers and at each chunk, also across waitForDrain().  It *)
(* is far longer than the loop takes to read a chunk that has come.        *)
IdleTimeout(r) ==
  /\ req[r].handler # "forwarding" /\ ~req[r].aborted
  /\ \/ req[r].work = "read" /\ ~req[r].ready
     \/ req[r].work = "stall"
  /\ Update(r, Abort([req[r] EXCEPT !.failure = "idle_timeout"]))
  /\ UNCHANGED <<phase, drained>>

(* Mutant of StallTimeout: it notes the stall, and does not destroy `res'. *)
NoteStall(r) ==
  /\ req[r].work = "stall"
  /\ Update(r, [req[r] EXCEPT !.failure = "client_stall"])
  /\ UNCHANGED <<phase, drained>>

(* waitForDrain() gives up on the client.  The proxy notes nothing. *)
StallTimeout(r) ==
  LET q == IF req[r].handler = "forwarding" THEN req[r]
           ELSE [req[r] EXCEPT !.failure = "client_stall"]
  IN  /\ req[r].work = "stall"
      /\ Update(r, Close(q))
      /\ UNCHANGED <<phase, drained>>

(* The bulkhead takes the borrowed slot back, aborts the signal and rejects *)
(* run() before the callback has unwound.                                  *)
BorrowDeadline(r) ==
  LET q == [req[r] EXCEPT !.slot = FALSE, !.failure = "borrowed_admission_deadline"]
      s == Settle(q, "borrowed_admission_deadline")
  IN  /\ r \in Borrower /\ req[r].slot
      /\ Update(r, IF s.work = "stall" THEN Unwind([s EXCEPT !.aborted = TRUE])
                                       ELSE Abort(s))
      /\ UNCHANGED <<phase, drained>>

-----------------------------------------------------------------------------
(* The client *)

(* A waiter's abort makes its admission fail. *)
ClientLeaves(r) ==
  LET q == [req[r] EXCEPT !.left = TRUE]
      c == CloseEvent(q)
  IN  /\ Connected(req[r])
      /\ IF req[r].handler = "queued" /\ c.aborted
         THEN /\ req' = [req EXCEPT ![r] = Rejected(c)]
              /\ LeavesQueue(r)
         ELSE Update(r, Close(q))
      /\ UNCHANGED <<phase, drained>>

ClientFinishes(r) ==
  /\ Connected(req[r]) /\ Ended(req[r])
  /\ req' = [req EXCEPT ![r].flushed = TRUE]
  /\ UNCHANGED <<queue, phase, drained>>

-----------------------------------------------------------------------------
(* shutdown() *)

(* Mutant of Shutdown: the waiters are dropped, not rejected. *)
DropWaiters ==
  /\ phase = "open"
  /\ phase' = "draining"
  /\ queue' = <<>>
  /\ UNCHANGED <<req, drained>>

(* pools.close() rejects every waiter, and server.close() accepts nobody. *)
Shutdown ==
  /\ phase = "open"
  /\ phase' = "draining"
  /\ req' = [r \in Request |-> IF req[r].handler = "queued" THEN Rejected(req[r])
                               ELSE req[r]]
  /\ queue' = <<>>
  /\ UNCHANGED drained

(* pools.drain() waits for slots and for the settlement of abandoned work. *)
DrainEnds ==
  /\ phase = "draining"
  /\ \A r \in Request : Active(req[r]) => req[r].handler = "forwarding"
  /\ phase' = "closing" /\ drained' = TRUE
  /\ UNCHANGED <<req, queue>>

(* shutdownDrainTimeoutMs: closeAllConnections(). *)
DrainTimeout ==
  /\ phase = "draining"
  /\ phase' = "closing"
  /\ req' = [r \in Request |-> IF Connected(req[r]) THEN Close(req[r]) ELSE req[r]]
  /\ UNCHANGED <<queue, drained>>

(* The callback of server.close(). *)
ServerCloses ==
  /\ phase = "closing"
  /\ \A r \in Request : ~Connected(req[r])
  /\ phase' = "closed"
  /\ UNCHANGED <<req, queue, drained>>

-----------------------------------------------------------------------------
Handling(r) == Arrive(r) \/ TurnedAway(r) \/ AwaitHook(r) \/ Admit(r)
               \/ QueueTimeout(r) \/ Forward(r)
Upstream(r) == StreamStarts(r) \/ TextStarts(r) \/ TextEnds(r) \/ UpstreamFails(r)
               \/ ChunkSent(r) \/ ChunkRead(r) \/ StreamEnds(r)
Timers(r) == ResponseTimeout(r) \/ ForwardTimeout(r) \/ IdleTimeout(r)
             \/ StallTimeout(r) \/ BorrowDeadline(r)
Client(r) == ClientDrains(r) \/ ClientLeaves(r) \/ ClientFinishes(r)
Server == Shutdown \/ DrainEnds \/ DrainTimeout \/ ServerCloses

Next == Server \/ \E r \in Request : Handling(r) \/ Upstream(r) \/ Timers(r) \/ Client(r)

Spec == Init /\ [][Next]_vars

(* The timers fire, the event loop runs a callback that is ready, and      *)
(* whatever comes before admission comes to an end.  Of upstreams only     *)
(* that a body no timer watches ends (undici bounds it): text(), and the   *)
(* stream of a peer.  Clients owe nothing.                                 *)
Fairness ==
  /\ \A r \in Request :
       /\ WF_vars(ResponseTimeout(r) \/ ForwardTimeout(r))
       /\ WF_vars(IdleTimeout(r) \/ StallTimeout(r))
       /\ WF_vars(StallTimeout(r))
       /\ WF_vars(ChunkRead(r))
       /\ WF_vars(req[r].work = "text" /\ (TextEnds(r) \/ UpstreamFails(r)))
       /\ WF_vars(req[r].handler = "forwarding" /\ (StreamEnds(r) \/ UpstreamFails(r)))
       /\ WF_vars(TurnedAway(r) \/ AwaitHook(r) \/ Admit(r) \/ Forward(r))
  /\ WF_vars(DrainEnds \/ DrainTimeout) /\ WF_vars(ServerCloses)

FairSpec == Spec /\ Fairness

-----------------------------------------------------------------------------
(* Once the connection of a client is gone, because it hung up or was cut  *)
(* off, nothing waits or works for it: the listener on `res' aborts the    *)
(* upstream call or the wait for a slot, whatever the handler is awaiting. *)
DisconnectHonoured ==
  \A r \in Request : req[r].gone => ~Active(req[r]) /\ req[r].handler # "queued"

(* An admitted or rejected request is audited exactly once, though its     *)
(* callback and the deadline of its slot both end it; a forwarded one is   *)
(* audited by the peer only.                                               *)
SettledOnce ==
  \A r \in Request :
    /\ Len(req[r].settled) <= 1
    /\ req[r].handler = "done" /\ req[r].listening => Len(req[r].settled) = 1

(* The handler and an abandoned callback never both answer the client. *)
OneHead == \A r \in Request : ~req[r].twice

(* When the handler is done the client knows: it has a response that ended *)
(* or a connection that is cut.  A response that ended well is all that    *)
(* the upstream sent.                                                      *)
ClientsKnow ==
  \A r \in Request :
    /\ req[r].handler = "done" => Ended(req[r]) \/ req[r].gone
    /\ req[r].response = "whole" => req[r].upstream = "complete"

(* After the drain, whether complete or cut short, no admitted work goes   *)
(* on: nothing is admitted any more and closed connections end the rest.   *)
QuietAfterDrain ==
  phase \in {"closing", "closed"} =>
    \A r \in Request : Active(req[r]) => req[r].handler = "forwarding"

Settles(r, kind) ==
  Len(req'[r].settled) > Len(req[r].settled) /\ Last(req'[r].settled) = kind

(* The audit blames the right party, whatever else was overwriting         *)
(* failureKind: a slow client for client_stall, a client that hung up (or  *)
(* a forced shutdown) for client_disconnect, the provider for the rest.    *)
BlameFits ==
  [][\A r \in Request :
       /\ Settles(r, "completed") => req'[r].response = "whole" /\ ~req[r].aborted
       /\ Settles(r, "response_timeout") => req[r].work = "fetch"
       /\ Settles(r, "client_stall") => req[r].work = "stall" /\ ~req'[r].left
       /\ Settles(r, "client_disconnect") => req'[r].left \/ phase' # "open"
       /\ Settles(r, "upstream_error") => ~req[r].aborted /\ ~req'[r].left
       /\ Settles(r, "borrowed_admission_deadline") => req[r].slot /\ r \in Borrower
    ]_vars

(* Every slot comes back: with all timeouts configured, no silence of an   *)
(* upstream and no stall of a client holds it for ever.                    *)
HoldsReturn == \A r \in Request : req[r].slot ~> ~req[r].slot

(* Every waiter is admitted or answered. *)
WaitersServed ==
  \A r \in Request : req[r].handler = "queued" ~> req[r].handler # "queued"

(* Slots circulate: they come back and go to those who wait, whatever      *)
(* upstreams and clients do.                                               *)
SlotsCirculate == HoldsReturn /\ WaitersServed

(* "process termination is bounded instead of waiting forever on a dead    *)
(* stream" (server.ts:1446-1447): with a drain timeout, shutdown() ends.   *)
ShutdownEnds == phase = "draining" ~> phase = "closed"
=============================================================================
