------------------------ MODULE RequestHandlerProofs ------------------------
(***************************************************************************)
(* Theorems about RequestHandler for any number of requests, slots and     *)
(* places in the queue, any borrowers and any length of streams.           *)
(***************************************************************************)
EXTENDS RequestHandler, SequenceTheorems, TLAPS

(* What is true of a request at each point of its life.                    *)
Early(q) == q.handler \in {"idle", "body", "hook"}
Serving(q) == q.handler \in {"running", "forwarding"}

(* Nobody has answered the client, or begun to work for it. *)
Untouched(q) ==
  /\ q.work = "none" /\ q.response = "none"
  /\ q.settled = <<>> /\ ~q.flushed /\ ~q.twice /\ ~q.slot

(* The callback of a request that is served has a signal that hears the    *)
(* client, and has sent no more than the head of a stream.                 *)
InService(q) ==
  /\ Active(q) /\ q.listening
  /\ q.response = IF q.work \in {"read", "stall"} THEN "stream" ELSE "none"
  /\ q.settled = <<>> /\ ~q.flushed /\ ~q.twice

(* The handler is done: the client knows, and what was admitted or         *)
(* rejected here is settled.                                               *)
Over(q) ==
  /\ ~Active(q) /\ ~q.twice
  /\ Ended(q) \/ q.gone
  /\ q.response = "whole" => q.upstream = "complete"
  /\ Len(q.settled) <= 1
  /\ q.listening => Len(q.settled) = 1

(* Without an asynchronous hook nobody waits or works for a client that    *)
(* is gone.                                                                *)
Present(q) == ~Hooks => ~q.gone

Good(q) ==
  /\ Early(q) => Untouched(q) /\ ~q.listening
  /\ q.handler = "hook" => Hooks
  /\ q.handler = "queued" => Untouched(q) /\ q.listening /\ Present(q)
  /\ Serving(q) => InService(q) /\ Present(q)
  /\ q.handler = "done" => Over(q)

-----------------------------------------------------------------------------
(* What the helpers do to a request.                                       *)

(* The close of `res' raises the signal exactly if somebody listens to a   *)
(* response that has not ended.                                            *)
LEMMA CloseEventShape ==
  ASSUME NEW q \in Requests
  PROVE  LET c == CloseEvent(q)
         IN  /\ c \in Requests /\ c.gone
             /\ c.aborted <=> (q.aborted \/ (q.listening /\ ~Ended(q)))
             /\ c.handler = q.handler /\ c.work = q.work
             /\ c.listening = q.listening /\ c.response = q.response
             /\ c.twice = q.twice /\ c.flushed = q.flushed
             /\ c.upstream = q.upstream /\ c.settled = q.settled
             /\ (c.slot <=> q.slot)
<1> DEFINE heard == q.listening /\ ~Ended(q)
           b == q.aborted \/ heard
           f == IF heard /\ q.failure = "none" /\ q.handler # "forwarding"
                THEN "client_disconnect" ELSE q.failure
           c == [q EXCEPT !.gone = TRUE, !.aborted = b, !.failure = f]
<1>1. CloseEvent(q) = c
  BY DEF CloseEvent
<1>2. b \in BOOLEAN /\ f \in Failures \cup {"none"}
  BY DEF Requests, Failures
<1> HIDE DEF b, f
<1>3. c \in Requests
  BY <1>2 DEF Requests
<1>4. /\ c.gone /\ c.aborted = b
      /\ c.handler = q.handler /\ c.work = q.work /\ c.listening = q.listening
      /\ c.response = q.response /\ c.twice = q.twice /\ c.flushed = q.flushed
      /\ c.upstream = q.upstream /\ c.settled = q.settled /\ (c.slot <=> q.slot)
  BY DEF Requests
<1> HIDE DEF c
<1>5. c.aborted <=> (q.aborted \/ (q.listening /\ ~Ended(q)))
  BY <1>4 DEF b
<1> QED BY <1>1, <1>3, <1>4, <1>5

LEMMA DestroyShape ==
  ASSUME NEW q \in Requests
  PROVE  LET c == Destroy(q)
         IN  /\ c \in Requests /\ c.gone
             /\ c.handler = q.handler /\ c.work = q.work
             /\ c.listening = q.listening /\ c.response = q.response
             /\ c.twice = q.twice /\ c.settled = q.settled
             /\ c.upstream = q.upstream
  BY CloseEventShape DEF Destroy, Requests

(* Starting the handler touches neither the response nor what the audit    *)
(* says of the request.                                                    *)
LEMMA BeginShape ==
  ASSUME NEW q \in Requests
  PROVE  /\ Begin(q) \in Requests /\ Begin(q).settled = q.settled
         /\ (Begin(q).left <=> q.left) /\ (Begin(q).gone <=> q.gone)
         /\ (Begin(q).aborted <=> q.aborted) /\ Begin(q).failure = q.failure
<1>1. Begin(q) \in Requests
  BY ZenonT(30) DEF Begin, Requests
<1>2. Begin(q).settled = q.settled /\ Begin(q).failure = q.failure
  BY ZenonT(30) DEF Begin, Requests
<1>3. /\ (Begin(q).left <=> q.left) /\ (Begin(q).gone <=> q.gone)
      /\ (Begin(q).aborted <=> q.aborted)
  BY ZenonT(30) DEF Begin, Requests
<1> QED BY <1>1, <1>2, <1>3

(* The first head is sent. *)
LEMMA SendShape ==
  ASSUME NEW q \in Requests, q.response = "none",
         NEW response \in {"stream", "whole", "error"}
  PROVE  LET s == Send(q, response)
         IN  /\ s \in Requests /\ s.response = response
             /\ s.handler = q.handler /\ s.work = q.work /\ s.gone = q.gone
             /\ (s.flushed <=> response = "error")
             /\ s.listening = q.listening /\ s.upstream = q.upstream
             /\ s.twice = q.twice /\ s.settled = q.settled
<1> DEFINE b == response = "error"
           s == [q EXCEPT !.response = response, !.flushed = b]
<1>1. Send(q, response) = s
  BY DEF Send
<1>2. b \in BOOLEAN
  OBVIOUS
<1> HIDE DEF b
<1>3. s \in Requests
  BY <1>2 DEF Requests
<1>4. /\ s.response = response /\ s.flushed = b /\ s.handler = q.handler
      /\ s.work = q.work /\ s.gone = q.gone /\ s.listening = q.listening
      /\ s.upstream = q.upstream /\ s.twice = q.twice /\ s.settled = q.settled
  BY DEF Requests
<1> HIDE DEF s
<1>5. s.flushed <=> response = "error"
  BY <1>4 DEF b
<1> QED BY <1>1, <1>3, <1>4, <1>5

(* The client has an answer, though not a whole one, or is cut off, and    *)
(* the audit has one record.                                               *)
Answered(q) ==
  /\ Ended(q) \/ q.gone
  /\ q.response # "whole" /\ Len(q.settled) = 1 /\ ~q.twice

(* A run that has been admitted is settled once, whatever ended it. *)
LEMMA SettleKeeps ==
  ASSUME NEW q \in Requests, NEW kind \in Settlements,
         q.handler = "running", q.settled = <<>>, ~q.twice,
         q.response \in {"none", "stream"}
  PROVE  /\ Settle(q, kind) \in Requests
         /\ Settle(q, kind).handler = "done" /\ Answered(Settle(q, kind))
         /\ Settle(q, kind).work = q.work
<1> DEFINE s == [q EXCEPT !.handler = "done", !.settled = Append(@, kind)]
           d == Destroy(s)
           e == Send(s, "error")
<1>1. Append(q.settled, kind) \in Seq(Settlements) /\ Len(Append(q.settled, kind)) = 1
  BY DEF Requests
<1>2. /\ s \in Requests /\ s.handler = "done" /\ s.work = q.work
      /\ Len(s.settled) = 1 /\ ~s.twice /\ s.response = q.response
  BY <1>1 DEF Requests
<1>3. Settle(q, kind) \in {d, e} /\ (q.response # "none" => Settle(q, kind) = d)
  BY DEF Settle
<1> HIDE DEF s
<1>4. /\ d \in Requests /\ d.gone /\ d.handler = s.handler /\ d.work = s.work
      /\ d.response = s.response /\ (d.twice <=> s.twice) /\ d.settled = s.settled
  BY <1>2, DestroyShape
<1> HIDE DEF d
<1>5. d.handler = "done" /\ d.work = q.work /\ Answered(d)
  <2>1. d.handler = "done" /\ d.work = q.work /\ Len(d.settled) = 1
    BY <1>2, <1>4
  <2>2. d.response # "whole" /\ ~d.twice /\ d.gone
    BY <1>2, <1>4
  <2> QED BY <2>1, <2>2 DEF Answered
<1>6. CASE q.response # "none"
  BY <1>3, <1>4, <1>5, <1>6
<1>7. CASE q.response = "none"
  <2>1. /\ e \in Requests /\ e.response = "error" /\ e.handler = s.handler
        /\ e.work = s.work /\ ~e.twice /\ e.settled = s.settled
    BY <1>2, <1>7, SendShape
  <2> HIDE DEF e
  <2>2. e.handler = "done" /\ e.work = q.work /\ Len(e.settled) = 1
    BY <1>2, <2>1
  <2>3. e.response = "error" /\ ~e.twice
    BY <2>1
  <2>4. Answered(e)
    BY <2>2, <2>3 DEF Answered, Ended
  <2> QED BY <1>3, <1>4, <1>5, <2>1, <2>2, <2>4
<1> QED BY <1>6, <1>7

(* However the callback throws, the request is over. *)
LEMMA UnwindKeeps ==
  ASSUME NEW q \in Requests, Serving(q), InService(q)
  PROVE  Unwind(q) \in Requests /\ Unwind(q).handler = "done" /\ Over(Unwind(q))
<1> DEFINE s == [q EXCEPT !.work = "done", !.slot = FALSE, !.upstream = "lost",
                          !.ready = FALSE]
           f == [s EXCEPT !.handler = "done", !.listening = FALSE]
<1>1. CASE q.handler = "forwarding"
  <2>1. f \in Requests
    BY DEF Requests
  <2>fields. /\ f.handler = "done" /\ f.work = "done" /\ ~f.listening
        /\ f.settled = <<>> /\ ~f.twice /\ f.response = q.response
    BY DEF InService, Requests
  <2>2. Unwind(q) = IF q.gone \/ q.response # "none" THEN Destroy(f) ELSE Send(f, "error")
    BY <1>1 DEF Unwind
  <2>3. q.response \in {"none", "stream"}
    BY DEF InService
  <2> HIDE DEF f
  <2> QED BY <2>1, <2>fields, <2>2, <2>3, DestroyShape, SendShape DEF Over, Active, Ended
<1>2. CASE q.handler = "running"
  <2>1. /\ s \in Requests /\ s.handler = "running" /\ s.work = "done"
        /\ s.settled = <<>> /\ ~s.twice /\ s.response \in {"none", "stream"}
    BY <1>2 DEF InService, Requests
  <2>2. Unwind(q) = Settle(s, IF q.failure = "none" THEN "upstream_error" ELSE q.failure)
    BY <1>2 DEF Unwind
  <2>3. q.failure \in Failures \cup {"none"}
    BY DEF Requests
  <2> HIDE DEF s
  <2> DEFINE u == Settle(s, IF q.failure = "none" THEN "upstream_error" ELSE q.failure)
  <2>4. u \in Requests /\ u.handler = "done" /\ Answered(u) /\ u.work = "done"
    BY <2>1, <2>3, SettleKeeps DEF Settlements
  <2> HIDE DEF u
  <2>5. Over(u)
    BY <2>4 DEF Answered, Over, Active
  <2> QED BY <2>2, <2>4, <2>5 DEF u
<1> QED BY <1>1, <1>2 DEF Serving

(* An abort ends the callback, or leaves it waiting for a slow client. *)
LEMMA AbortKeeps ==
  ASSUME NEW q \in Requests, Serving(q), InService(q), Present(q)
  PROVE  /\ Abort(q) \in Requests /\ Good(Abort(q)) /\ Abort(q).handler # "queued"
         /\ Abort(q).handler \in {q.handler, "done"}
<1> DEFINE a == [q EXCEPT !.aborted = TRUE]
<1>0. a \in Requests
  BY DEF Requests
<1>1. Serving(a) /\ InService(a) /\ Present(a) /\ a.handler = q.handler
  <2>1. /\ a.handler = q.handler /\ a.work = q.work /\ a.response = q.response
        /\ a.settled = q.settled /\ (a.listening <=> q.listening)
        /\ (a.flushed <=> q.flushed) /\ (a.twice <=> q.twice) /\ (a.gone <=> q.gone)
    BY DEF Requests
  <2> HIDE DEF a
  <2> QED BY <2>1 DEF Serving, InService, Present, Active
<1>2. Abort(q) = IF q.work \in {"fetch", "read", "text"} THEN Unwind(a) ELSE a
  BY DEF Abort
<1> HIDE DEF a
<1>3. CASE q.work \in {"fetch", "read", "text"}
  BY <1>0, <1>1, <1>2, <1>3, UnwindKeeps DEF Good, Early, Serving
<1>4. CASE q.work \notin {"fetch", "read", "text"}
  BY <1>0, <1>1, <1>2, <1>4 DEF Good, Early, Serving
<1> QED BY <1>3, <1>4

(* Whoever is served is over when the response closes, and whoever has not *)
(* been admitted goes on. *)
LEMMA CloseKeeps ==
  ASSUME NEW q \in Requests, Good(q), q.handler # "queued"
  PROVE  /\ Close(q) \in Requests /\ Good(Close(q))
         /\ Close(q).gone \/ Close(q).handler = "done"
         /\ ~Serving(Close(q)) /\ Close(q).handler # "queued"
<1> DEFINE c == CloseEvent(q)
<1>1. /\ c \in Requests /\ c.gone
      /\ c.aborted <=> (q.aborted \/ (q.listening /\ ~Ended(q)))
      /\ c.handler = q.handler /\ c.work = q.work
      /\ c.listening = q.listening /\ c.response = q.response
      /\ c.twice = q.twice /\ c.flushed = q.flushed
      /\ c.upstream = q.upstream /\ c.settled = q.settled
      /\ (c.slot <=> q.slot)
  BY CloseEventShape
<1>2. Close(q) = IF Active(c) /\ c.aborted THEN Unwind(c) ELSE c
  BY DEF Close
<1> HIDE DEF c
<1>3. CASE Serving(q)
  <2>1. Serving(c) /\ InService(c) /\ c.aborted
    BY <1>1, <1>3 DEF Good, Serving, InService, Active, Ended
  <2> QED BY <1>1, <1>2, <2>1, UnwindKeeps DEF InService, Good, Early, Serving
<1>4. CASE Early(q)
  BY <1>1, <1>2, <1>4 DEF Good, Early, Untouched, Serving, Active
<1>5. CASE q.handler = "done"
  BY <1>1, <1>2, <1>5 DEF Good, Early, Over, Serving, Active, Ended
<1> QED BY <1>3, <1>4, <1>5 DEF Early, Serving, Requests

(* The callback returns when the response has ended. *)
LEMMA CompleteKeeps ==
  ASSUME NEW q \in Requests, Serving(q), q.settled = <<>>, ~q.twice,
         q.response = "whole"
  PROVE  /\ Complete(q) \in Requests /\ Complete(q).handler = "done"
         /\ Over(Complete(q))
<1> DEFINE s == [q EXCEPT !.work = "done", !.slot = FALSE, !.upstream = "complete"]
<1>1. /\ s \in Requests /\ s.handler = q.handler /\ s.work = "done"
      /\ s.upstream = "complete" /\ s.response = "whole" /\ ~s.twice
      /\ s.settled = <<>>
  BY DEF Requests
<1>2. CASE q.handler = "running"
  <2> DEFINE d == [s EXCEPT !.handler = "done", !.settled = Append(@, "completed")]
  <2>1. Complete(q) = d
    BY <1>2 DEF Complete
  <2> HIDE DEF s
  <2>2. /\ Append(s.settled, "completed") \in Seq(Settlements)
        /\ Len(Append(s.settled, "completed")) = 1
    BY <1>1 DEF Settlements
  <2>3. d \in Requests /\ d.handler = "done" /\ Len(d.settled) = 1
    BY <1>1, <2>2 DEF Requests
  <2>4. d.work = "done" /\ d.upstream = "complete" /\ d.response = "whole" /\ ~d.twice
    BY <1>1 DEF Requests
  <2> HIDE DEF d
  <2> QED BY <2>1, <2>3, <2>4 DEF Over, Active, Ended
<1>3. CASE q.handler = "forwarding"
  <2> DEFINE d == [s EXCEPT !.handler = "done", !.listening = FALSE]
  <2>1. Complete(q) = d
    BY <1>3 DEF Complete
  <2> HIDE DEF s
  <2>2. d \in Requests /\ d.handler = "done" /\ d.settled = <<>> /\ ~d.listening
    BY <1>1 DEF Requests
  <2>3. d.work = "done" /\ d.upstream = "complete" /\ d.response = "whole" /\ ~d.twice
    BY <1>1 DEF Requests
  <2>4. Len(d.settled) = 0
    BY <2>2
  <2> HIDE DEF d
  <2> QED BY <2>1, <2>2, <2>3, <2>4 DEF Over, Active, Ended
<1> QED BY <1>2, <1>3 DEF Serving

LEMMA RejectedKeeps ==
  ASSUME NEW q \in Requests, Untouched(q)
  PROVE  /\ Rejected(q) \in Requests /\ Rejected(q).handler = "done"
         /\ Over(Rejected(q))
<1> DEFINE s == [q EXCEPT !.handler = "done", !.settled = Append(@, "rejected")]
<1>0. Append(q.settled, "rejected") \in Seq(Settlements)
      /\ Len(Append(q.settled, "rejected")) = 1
  BY DEF Requests, Settlements, Untouched
<1>1. /\ s \in Requests /\ s.handler = "done" /\ s.work = "none" /\ s.response = "none"
      /\ Len(s.settled) = 1 /\ ~s.twice
  BY <1>0 DEF Requests, Untouched
<1> DEFINE e == Send(s, "error")
<1>2. Rejected(q) = e
  BY DEF Rejected
<1> HIDE DEF s
<1>3. /\ e \in Requests /\ e.response = "error" /\ e.handler = s.handler
      /\ e.work = s.work /\ ~e.twice /\ e.settled = s.settled
  BY <1>1, SendShape
<1> HIDE DEF e
<1>4. e.response = "error" /\ ~e.twice
  BY <1>3
<1>5. ~Active(e) /\ Len(e.settled) = 1
  BY <1>1, <1>3 DEF Active
<1>6. Over(e)
  BY <1>4, <1>5 DEF Over, Ended
<1> QED BY <1>1, <1>2, <1>3, <1>6

LEMMA BeginKeeps ==
  ASSUME NEW q \in Requests, Untouched(q), q.listening, Present(q)
  PROVE  /\ Begin(q) \in Requests /\ Good(Begin(q))
         /\ Begin(q).handler = "running"
  BY DEF Begin, Requests, Untouched, Present, Good, Early, Serving, InService, Active

-----------------------------------------------------------------------------
(* The queue.                                                              *)

Waiters(s) == s \in Seq(Request) /\ IsInjective(s)

LEMMA HeadLeaves ==
  ASSUME NEW s, Waiters(s), s # <<>>
  PROVE  /\ Head(s) \in Request /\ Contains(s, Head(s)) /\ Waiters(Tail(s))
         /\ \A r \in Request :
              Contains(Tail(s), r) <=> Contains(s, r) /\ r # Head(s)
<1>1. /\ Len(s) \in Nat \ {0} /\ Head(s) = s[1] /\ DOMAIN s = 1 .. Len(s)
      /\ Tail(s) \in Seq(Request) /\ Len(Tail(s)) = Len(s) - 1
      /\ \A i \in 1 .. Len(s) - 1 : Tail(s)[i] = s[i + 1]
  BY DEF Waiters
<1>2. \A i, j \in 1 .. Len(s) : s[i] = s[j] => i = j
  BY <1>1 DEF Waiters, IsInjective
<1>3. IsInjective(Tail(s))
  <2>1. DOMAIN Tail(s) = 1 .. Len(s) - 1
    BY <1>1
  <2> SUFFICES ASSUME NEW i \in 1 .. Len(s) - 1, NEW j \in 1 .. Len(s) - 1,
                      Tail(s)[i] = Tail(s)[j]
               PROVE  i = j
    BY <2>1 DEF IsInjective
  <2>2. s[i + 1] = s[j + 1] /\ i + 1 \in 1 .. Len(s) /\ j + 1 \in 1 .. Len(s)
    BY <1>1
  <2>3. i + 1 = j + 1
    BY <1>2, <2>2
  <2> QED BY <2>3
<1>4. ASSUME NEW r \in Request
      PROVE  Contains(Tail(s), r) <=> Contains(s, r) /\ r # Head(s)
  <2>1. ASSUME NEW i \in 1 .. Len(s) - 1, Tail(s)[i] = r
        PROVE  Contains(s, r) /\ r # Head(s)
    <3>1. i + 1 \in 1 .. Len(s) /\ 1 \in 1 .. Len(s) /\ i + 1 # 1 /\ s[i + 1] = r
      BY <1>1, <2>1
    <3> QED BY <1>1, <1>2, <3>1 DEF Contains
  <2>2. ASSUME NEW i \in 1 .. Len(s), s[i] = r, r # Head(s)
        PROVE  Contains(Tail(s), r)
    <3>1. i - 1 \in 1 .. Len(s) - 1 /\ (i - 1) + 1 = i
      BY <1>1, <2>2
    <3>2. Tail(s)[i - 1] = r
      BY <1>1, <2>2, <3>1
    <3> QED BY <1>1, <3>1, <3>2 DEF Contains
  <2>3. Len(Tail(s)) = Len(s) - 1
    BY <1>1
  <2> QED BY <2>1, <2>2, <2>3 DEF Contains
<1> QED BY <1>1, <1>3, <1>4 DEF Waiters, Contains

LEMMA WaiterJoins ==
  ASSUME NEW s, Waiters(s), NEW q \in Request, ~Contains(s, q)
  PROVE  /\ Waiters(Append(s, q))
         /\ \A r \in Request : Contains(Append(s, q), r) <=> Contains(s, r) \/ r = q
<1> DEFINE t == Append(s, q)
<1>1. /\ t \in Seq(Request) /\ Len(t) = Len(s) + 1 /\ Len(s) \in Nat
      /\ t[Len(s) + 1] = q /\ DOMAIN t = 1 .. Len(s) + 1 /\ DOMAIN s = 1 .. Len(s)
      /\ \A i \in 1 .. Len(s) : t[i] = s[i] /\ s[i] # q
  BY DEF Waiters, Contains
<1>2. \A i, j \in 1 .. Len(s) : s[i] = s[j] => i = j
  BY <1>1 DEF Waiters, IsInjective
<1> HIDE DEF t
<1>3. \A i \in 1 .. Len(s) + 1 : i \in 1 .. Len(s) \/ i = Len(s) + 1
  BY <1>1
<1>4. IsInjective(t)
  BY <1>1, <1>2, <1>3 DEF IsInjective
<1>5. \A r \in Request : Contains(t, r) <=> Contains(s, r) \/ r = q
  BY <1>1, <1>3 DEF Contains
<1> QED BY <1>1, <1>4, <1>5 DEF Waiters, t

LEMMA WaiterLeaves ==
  ASSUME NEW s, Waiters(s), NEW i \in DOMAIN s
  PROVE  /\ Waiters(RemoveAt(s, i))
         /\ \A r \in Request :
              Contains(RemoveAt(s, i), r) <=> Contains(s, r) /\ r # s[i]
<1> DEFINE t == RemoveAt(s, i)
           from(j) == IF j < i THEN j ELSE j + 1
<1>1. /\ Len(s) \in Nat \ {0} /\ i \in 1 .. Len(s) /\ s \in Seq(Request)
      /\ DOMAIN s = 1 .. Len(s)
  BY DEF Waiters
<1>2. \A j, k \in 1 .. Len(s) : s[j] = s[k] => j = k
  BY <1>1 DEF Waiters, IsInjective
<1>3. /\ t \in Seq(Request) /\ Len(t) = Len(s) - 1
      /\ \A j \in 1 .. Len(s) - 1 : t[j] = s[from(j)]
  <2> DEFINE a == SubSeq(s, 1, i - 1)
             b == SubSeq(s, i + 1, Len(s))
  <2>1. /\ a \in Seq(Request) /\ Len(a) = i - 1
        /\ \A j \in 1 .. i - 1 : a[j] = s[j]
    BY <1>1
  <2>2. /\ b \in Seq(Request) /\ Len(b) = Len(s) - i
        /\ \A j \in 1 .. Len(s) - i : b[j] = s[i + j]
    BY <1>1
  <2>3. t = a \o b
    BY DEF RemoveAt
  <2> HIDE DEF a, b, t
  <2>4. /\ t \in Seq(Request) /\ Len(t) = Len(s) - 1
        /\ \A j \in 1 .. Len(s) - 1 :
             t[j] = IF j <= i - 1 THEN a[j] ELSE b[j - (i - 1)]
    <3>1. /\ t \in Seq(Request) /\ Len(t) = Len(a) + Len(b)
          /\ \A j \in 1 .. Len(a) + Len(b) :
               t[j] = IF j <= Len(a) THEN a[j] ELSE b[j - Len(a)]
      BY <2>1, <2>2, <2>3, ConcatProperties
    <3>2. Len(s) - 1 = (i - 1) + (Len(s) - i)
      BY <1>1
    <3> QED BY <2>1, <2>2, <3>1, <3>2
  <2>5. ASSUME NEW j \in 1 .. Len(s) - 1
        PROVE  t[j] = s[from(j)]
    <3>1. CASE j < i
      BY <1>1, <2>1, <2>4, <3>1
    <3>2. CASE j >= i
      <4>1. t[j] = b[j - (i - 1)]
        BY <1>1, <2>4, <3>2
      <4>2. j - (i - 1) \in 1 .. Len(s) - i /\ i + (j - (i - 1)) = j + 1
        BY <1>1, <3>2
      <4>3. b[j - (i - 1)] = s[j + 1]
        BY <2>2, <4>2
      <4>4. from(j) = j + 1
        BY <1>1, <3>2
      <4> QED BY <4>1, <4>3, <4>4
    <3> QED BY <1>1, <3>1, <3>2
  <2> QED BY <2>4, <2>5
<1> HIDE DEF t
<1>4. /\ \A j \in 1 .. Len(s) - 1 : from(j) \in 1 .. Len(s) /\ from(j) # i
      /\ \A j, k \in 1 .. Len(s) - 1 : from(j) = from(k) => j = k
      /\ \A k \in 1 .. Len(s) : k # i => \E j \in 1 .. Len(s) - 1 : from(j) = k
  <2>1. ASSUME NEW k \in 1 .. Len(s), k # i
        PROVE  \E j \in 1 .. Len(s) - 1 : from(j) = k
    <3>1. CASE k < i
      <4>1. k \in 1 .. Len(s) - 1 /\ from(k) = k
        BY <1>1, <3>1
      <4> QED BY <4>1
    <3>2. CASE k > i
      <4>1. k - 1 \in 1 .. Len(s) - 1 /\ from(k - 1) = k
        BY <1>1, <3>2
      <4> QED BY <4>1
    <3> QED BY <1>1, <2>1, <3>1, <3>2
  <2> QED BY <1>1, <2>1
<1> HIDE DEF from
<1>5. DOMAIN t = 1 .. Len(s) - 1
  BY <1>3
<1>6. IsInjective(t)
  <2> SUFFICES ASSUME NEW j \in 1 .. Len(s) - 1, NEW k \in 1 .. Len(s) - 1,
                      t[j] = t[k]
               PROVE  j = k
    BY <1>5 DEF IsInjective
  <2>1. s[from(j)] = s[from(k)]
    BY <1>3
  <2>2. from(j) = from(k)
    BY <1>2, <1>4, <2>1
  <2> QED BY <1>4, <2>2
<1>7. ASSUME NEW r \in Request
      PROVE  Contains(t, r) <=> Contains(s, r) /\ r # s[i]
  <2>1. Contains(t, r) <=> \E j \in 1 .. Len(s) - 1 : s[from(j)] = r
    BY <1>3 DEF Contains
  <2>2. Contains(s, r) <=> \E k \in 1 .. Len(s) : s[k] = r
    BY DEF Contains
  <2> QED BY <1>1, <1>2, <1>4, <2>1, <2>2
<1> QED BY <1>3, <1>6, <1>7 DEF Waiters, t

-----------------------------------------------------------------------------
(* The invariant.                                                          *)

(* The safety properties of the module follow from what is true of each    *)
(* request by itself, the agreement of the queue with the handlers, and:   *)
(* a server that shuts down has no waiters, and after the drain no run.    *)
IInv ==
  /\ TypeOK
  /\ \A r \in Request : Good(req[r])
  /\ phase # "open" => queue = <<>>
  /\ ~Hooks /\ phase \in {"closing", "closed"} =>
       \A r \in Request : req[r].handler # "running"

(* Request r changes to q, and neither waits for a slot. *)
LEMMA SetKeeps ==
  ASSUME IInv, NEW r \in Request, NEW q \in Requests, Good(q),
         q.handler # "queued", req[r].handler # "queued",
         q.handler = "running" => req[r].handler = "running" \/ phase = "open",
         req' = [req EXCEPT ![r] = q], UNCHANGED <<queue, phase, drained>>
  PROVE  IInv'
<1>1. /\ req' \in [Request -> Requests] /\ req'[r] = q
      /\ \A x \in Request \ {r} : req'[x] = req[x]
  BY DEF IInv, TypeOK
<1>2. TypeOK'
  BY <1>1 DEF IInv, TypeOK
<1>3. \A x \in Request : Good(req'[x])
  BY <1>1 DEF IInv
<1>4. phase' # "open" => queue' = <<>>
  BY DEF IInv
<1>5. ~Hooks /\ phase' \in {"closing", "closed"} =>
        \A x \in Request : req'[x].handler # "running"
  BY <1>1 DEF IInv
<1> QED BY <1>2, <1>3, <1>4, <1>5 DEF IInv

(* The same when a slot may come free for the first waiter. *)
LEMMA UpdateKeeps ==
  ASSUME IInv, NEW r \in Request, NEW q \in Requests, Good(q),
         q.handler # "queued", req[r].handler # "queued",
         q.handler = "running" => req[r].handler = "running",
         Update(r, q), UNCHANGED <<phase, drained>>
  PROVE  IInv'
<1> DEFINE rs == [req EXCEPT ![r] = q]
           h == Head(queue)
<1>1. CASE req' = rs /\ UNCHANGED queue
  BY <1>1, SetKeeps
<1>2. CASE /\ queue # <<>>
           /\ req' = [rs EXCEPT ![h] = Begin(@)] /\ queue' = Tail(queue)
  <2>1. /\ queue \in Seq(Request) /\ Waiters(queue) /\ phase = "open"
        /\ \A x \in Request : req[x].handler = "queued" <=> Contains(queue, x)
        /\ req \in [Request -> Requests]
    BY <1>2 DEF IInv, TypeOK, Waiters
  <2>2. /\ h \in Request /\ Contains(queue, h) /\ Waiters(Tail(queue))
        /\ \A x \in Request : Contains(Tail(queue), x) <=> Contains(queue, x) /\ x # h
    BY <1>2, <2>1, HeadLeaves
  <2>3. h # r /\ req[h].handler = "queued" /\ req[h] \in Requests /\ Good(req[h])
    BY <2>1, <2>2 DEF IInv
  <2>4. Begin(req[h]) \in Requests /\ Good(Begin(req[h])) /\ Begin(req[h]).handler = "running"
    BY <2>3, BeginKeeps DEF Good
  <2>5. /\ req' \in [Request -> Requests] /\ req'[r] = q /\ req'[h] = Begin(req[h])
        /\ \A x \in Request \ {r, h} : req'[x] = req[x]
    BY <1>2, <2>1, <2>2, <2>3, <2>4
  <2>6. TypeOK'
    <3>1. \A x \in Request : req'[x].handler = "queued" <=> Contains(queue', x)
      BY <1>2, <2>1, <2>2, <2>3, <2>4, <2>5
    <3>2. queue' \in Seq(Request) /\ IsInjective(queue')
      BY <1>2, <2>2 DEF Waiters
    <3> QED BY <2>5, <3>1, <3>2 DEF IInv, TypeOK
  <2>7. \A x \in Request : Good(req'[x])
    BY <2>4, <2>5 DEF IInv
  <2> QED BY <2>1, <2>6, <2>7 DEF IInv
<1> QED BY <1>1, <1>2 DEF Update

(* Request r waits no longer, and is answered. *)
LEMMA LeaveKeeps ==
  ASSUME IInv, NEW r \in Request, NEW q \in Requests, Good(q),
         q.handler = "done", req' = [req EXCEPT ![r] = q], LeavesQueue(r),
         UNCHANGED <<phase, drained>>
  PROVE  IInv'
<1>1. PICK i \in DOMAIN queue : queue[i] = r /\ queue' = RemoveAt(queue, i)
  BY DEF LeavesQueue
<1>2. /\ Waiters(queue) /\ phase = "open"
      /\ \A x \in Request : req[x].handler = "queued" <=> Contains(queue, x)
  BY <1>1 DEF IInv, TypeOK, Waiters
<1>3. /\ Waiters(queue')
      /\ \A x \in Request : Contains(queue', x) <=> Contains(queue, x) /\ x # r
  BY <1>1, <1>2, WaiterLeaves
<1>4. /\ req' \in [Request -> Requests] /\ req'[r] = q
      /\ \A x \in Request \ {r} : req'[x] = req[x]
  BY DEF IInv, TypeOK
<1>5. TypeOK'
  BY <1>2, <1>3, <1>4 DEF IInv, TypeOK, Waiters
<1>6. \A x \in Request : Good(req'[x])
  BY <1>4 DEF IInv
<1> QED BY <1>2, <1>5, <1>6 DEF IInv

-----------------------------------------------------------------------------
(* Each action.                                                            *)

LEMMA HandlingKeeps ==
  ASSUME IInv, NEW r \in Request, Handling(r)
  PROVE  IInv'
<1>1. req[r] \in Requests /\ Good(req[r]) /\ req \in [Request -> Requests]
  BY DEF IInv, TypeOK
<1>2. CASE Arrive(r)
  <2> DEFINE q == [req[r] EXCEPT !.handler = "body"]
  <2>1. q \in Requests /\ Good(q) /\ q.handler = "body"
    BY <1>1, <1>2 DEF Arrive, Requests, Good, Early, Serving, Untouched
  <2>2. req' = [req EXCEPT ![r] = q]
    BY <1>2 DEF Arrive
  <2> HIDE DEF q
  <2> QED BY <1>2, <2>1, <2>2, SetKeeps DEF Arrive
<1>3. CASE TurnedAway(r)
  <2> DEFINE s == [req[r] EXCEPT !.handler = "done"]
             e == Send(s, "error")
  <2>1. /\ s \in Requests /\ s.handler = "done" /\ s.response = "none"
        /\ ~s.listening /\ ~s.twice /\ s.settled = <<>> /\ s.work = "none"
    BY <1>1, <1>3 DEF TurnedAway, Requests, Good, Early, Untouched
  <2>2. req' = [req EXCEPT ![r] = e]
    BY <1>3 DEF TurnedAway
  <2> HIDE DEF s
  <2>3. /\ e \in Requests /\ e.handler = s.handler /\ e.response = "error"
        /\ e.work = s.work /\ e.settled = s.settled
        /\ (e.listening <=> s.listening) /\ (e.twice <=> s.twice)
    BY <2>1, SendShape
  <2> HIDE DEF e
  <2>4. e.settled = <<>> /\ ~e.listening /\ ~e.twice /\ e.work = "none" /\ e.handler = "done"
    BY <2>1, <2>3
  <2>5. e.response = "error"
    BY <2>3
  <2>6. Good(e)
    BY <2>4, <2>5 DEF Good, Over, Early, Serving, Active, Ended
  <2> QED BY <1>3, <2>2, <2>3, <2>4, <2>6, SetKeeps DEF TurnedAway
<1>4. CASE AwaitHook(r)
  <2> DEFINE q == [req[r] EXCEPT !.handler = "hook"]
  <2>1. q \in Requests /\ Good(q) /\ q.handler = "hook"
    BY <1>1, <1>4 DEF AwaitHook, Requests, Good, Early, Serving, Untouched
  <2>2. req' = [req EXCEPT ![r] = q]
    BY <1>4 DEF AwaitHook
  <2> HIDE DEF q
  <2> QED BY <1>4, <2>1, <2>2, SetKeeps DEF AwaitHook
<1>5. CASE Admit(r)
  <2> DEFINE q == [req[r] EXCEPT !.listening = TRUE]
  <2>1. /\ Early(req[r]) /\ Untouched(req[r]) /\ Present(req[r])
        /\ req[r].handler # "queued"
    BY <1>1, <1>5 DEF Admit, Dispatchable, Good, Early, Untouched, Present, IInv
  <2>2. /\ q \in Requests /\ Untouched(q) /\ q.listening /\ Present(q)
    BY <1>1, <2>1 DEF Requests, Untouched, Present
  <2>3. CASE /\ phase = "open"
             /\ req' = [req EXCEPT ![r] = Begin(q)] /\ UNCHANGED queue
    <3> HIDE DEF q
    <3>1. Begin(q) \in Requests /\ Good(Begin(q)) /\ Begin(q).handler = "running"
      BY <2>2, BeginKeeps
    <3> QED BY <1>5, <2>1, <2>3, <3>1, SetKeeps DEF Admit
  <2>4. CASE /\ phase = "open"
             /\ req' = [req EXCEPT ![r] = [q EXCEPT !.handler = "queued"]]
             /\ queue' = Append(queue, r)
    <3> DEFINE w == [q EXCEPT !.handler = "queued"]
    <3>2. req' = [req EXCEPT ![r] = w]
      BY <2>4
    <3> HIDE DEF q
    <3>typed. w \in Requests
      BY <2>2 DEF Requests
    <3>fields. /\ w.handler = "queued" /\ w.work = q.work /\ w.response = q.response
          /\ w.settled = q.settled /\ (w.flushed <=> q.flushed)
          /\ (w.twice <=> q.twice) /\ (w.slot <=> q.slot)
          /\ (w.listening <=> q.listening) /\ (w.gone <=> q.gone)
      BY <2>2 DEF Requests
    <3> HIDE DEF w
    <3>1. w \in Requests /\ Good(w) /\ w.handler = "queued"
      BY <2>2, <3>typed, <3>fields DEF Untouched, Present, Good, Early, Serving
    <3>3. /\ Waiters(queue) /\ ~Contains(queue, r)
          /\ \A x \in Request : req[x].handler = "queued" <=> Contains(queue, x)
      BY <2>1 DEF IInv, TypeOK, Waiters
    <3>4. /\ Waiters(queue')
          /\ \A x \in Request : Contains(queue', x) <=> Contains(queue, x) \/ x = r
      BY <2>4, <3>3, WaiterJoins
    <3>5. /\ req' \in [Request -> Requests] /\ req'[r] = w
          /\ \A x \in Request \ {r} : req'[x] = req[x]
      BY <1>1, <3>1, <3>2
    <3>6. UNCHANGED <<phase, drained>>
      BY <1>5 DEF Admit
    <3>7. TypeOK'
      BY <3>1, <3>3, <3>4, <3>5, <3>6 DEF IInv, TypeOK, Waiters
    <3>8. \A x \in Request : Good(req'[x])
      BY <3>1, <3>5 DEF IInv
    <3> QED BY <2>4, <3>6, <3>7, <3>8 DEF IInv
  <2>5. CASE req' = [req EXCEPT ![r] = Rejected(q)] /\ UNCHANGED queue
    <3> HIDE DEF q
    <3>1. Rejected(q) \in Requests /\ Rejected(q).handler = "done" /\ Over(Rejected(q))
      BY <2>2, RejectedKeeps
    <3>2. Good(Rejected(q))
      BY <3>1 DEF Good, Early, Serving
    <3> QED BY <1>5, <2>1, <2>5, <3>1, <3>2, SetKeeps DEF Admit
  <2> QED BY <1>5, <2>3, <2>4, <2>5 DEF Admit
<1>6. CASE QueueTimeout(r)
  <2>1. Untouched(req[r])
    BY <1>1, <1>6 DEF QueueTimeout, Good
  <2>2. /\ Rejected(req[r]) \in Requests /\ Rejected(req[r]).handler = "done"
        /\ Over(Rejected(req[r]))
    BY <1>1, <2>1, RejectedKeeps
  <2>3. Good(Rejected(req[r]))
    BY <2>2 DEF Good, Early, Serving
  <2> QED BY <1>1, <1>6, <2>2, <2>3, LeaveKeeps DEF QueueTimeout
<1>7. CASE Forward(r)
  <2> DEFINE q == [req[r] EXCEPT !.listening = TRUE, !.handler = "forwarding",
                                 !.work = "fetch", !.upstream = "asked"]
  <2>1. Early(req[r]) /\ Present(req[r])
    BY <1>1, <1>7 DEF Forward, Dispatchable, Early, Present, Good
  <2>2. q \in Requests /\ Good(q) /\ q.handler = "forwarding"
    BY <1>1, <2>1 DEF Requests, Good, Early, Serving, InService, Present, Active, Untouched
  <2>3. req' = [req EXCEPT ![r] = q]
    BY <1>7 DEF Forward
  <2> HIDE DEF q
  <2> QED BY <1>7, <2>1, <2>2, <2>3, SetKeeps DEF Forward, Early
<1> QED BY <1>2, <1>3, <1>4, <1>5, <1>6, <1>7 DEF Handling

LEMMA UpstreamKeeps ==
  ASSUME IInv, NEW r \in Request, Upstream(r)
  PROVE  IInv'
<1>1. req[r] \in Requests /\ Good(req[r]) /\ req \in [Request -> Requests]
  BY DEF IInv, TypeOK
<1>2. Active(req[r]) => Serving(req[r]) /\ InService(req[r]) /\ Present(req[r])
  BY <1>1 DEF Good, Early, Serving, Untouched, Over, Active, Requests
<1>3. CASE StreamStarts(r)
  <2> DEFINE s == Send(req[r], "stream")
             q == [s EXCEPT !.work = "read", !.upstream = "streaming"]
  <2>1. /\ Serving(req[r]) /\ InService(req[r]) /\ Present(req[r])
        /\ req[r].response = "none"
    BY <1>2, <1>3 DEF StreamStarts, Active, InService
  <2>2. /\ s \in Requests /\ s.response = "stream" /\ s.handler = req[r].handler
        /\ s.gone = req[r].gone /\ s.listening = req[r].listening
        /\ s.twice = req[r].twice /\ s.settled = req[r].settled
        /\ ~s.flushed
    BY <1>1, <2>1, SendShape
  <2>3. Update(r, q) /\ UNCHANGED <<phase, drained>>
    BY <1>3 DEF StreamStarts
  <2> HIDE DEF s
  <2>typed. q \in Requests
    BY <2>2 DEF Requests
  <2>fields. /\ q.handler = s.handler /\ q.work = "read" /\ q.response = "stream"
        /\ q.settled = s.settled /\ (q.listening <=> s.listening)
        /\ ~q.flushed /\ (q.twice <=> s.twice) /\ (q.gone <=> s.gone)
    BY <2>2 DEF Requests
  <2> HIDE DEF q
  <2>4. q \in Requests /\ Good(q) /\ q.handler = req[r].handler
    BY <2>1, <2>2, <2>typed, <2>fields DEF Good, Early, Serving, InService, Present, Active
  <2> HIDE DEF q
  <2> QED BY <2>1, <2>3, <2>4, UpdateKeeps DEF Serving
<1>4. CASE TextStarts(r)
  <2> DEFINE q == [req[r] EXCEPT !.work = "text", !.upstream = "streaming"]
  <2>1. Serving(req[r]) /\ InService(req[r]) /\ Present(req[r])
    BY <1>2, <1>4 DEF TextStarts, Active
  <2>2. q \in Requests /\ Good(q) /\ q.handler = req[r].handler
    BY <1>1, <1>4, <2>1
       DEF TextStarts, Requests, Good, Early, Serving, InService, Present, Active
  <2>3. Update(r, q) /\ UNCHANGED <<phase, drained>>
    BY <1>4 DEF TextStarts
  <2> HIDE DEF q
  <2> QED BY <2>1, <2>2, <2>3, UpdateKeeps DEF Serving
<1>5. CASE TextEnds(r)
  <2> DEFINE s == Send(req[r], "whole")
  <2>1. Serving(req[r]) /\ InService(req[r]) /\ req[r].response = "none"
    BY <1>2, <1>5 DEF TextEnds, Active, InService
  <2>2. /\ s \in Requests /\ s.response = "whole" /\ s.handler = req[r].handler
        /\ (s.twice <=> req[r].twice) /\ s.settled = req[r].settled
    BY <1>1, <2>1, SendShape
  <2>3. Update(r, Complete(s)) /\ UNCHANGED <<phase, drained>>
    BY <1>5 DEF TextEnds
  <2> HIDE DEF s
  <2>4. Serving(s) /\ s.settled = <<>> /\ ~s.twice
    BY <2>1, <2>2 DEF Serving, InService
  <2>5. Complete(s) \in Requests /\ Complete(s).handler = "done" /\ Over(Complete(s))
    BY <2>2, <2>4, CompleteKeeps
  <2>6. Good(Complete(s))
    BY <2>5 DEF Good, Early, Serving
  <2> QED BY <2>1, <2>3, <2>5, <2>6, UpdateKeeps DEF Serving
<1>6. CASE UpstreamFails(r)
  <2>1. Serving(req[r]) /\ InService(req[r])
    BY <1>2, <1>6 DEF UpstreamFails, Active
  <2>2. /\ Unwind(req[r]) \in Requests /\ Unwind(req[r]).handler = "done"
        /\ Good(Unwind(req[r]))
    BY <1>1, <2>1, UnwindKeeps DEF Good, Early, Serving
  <2> QED BY <1>6, <2>1, <2>2, UpdateKeeps DEF UpstreamFails, Serving
<1>7. CASE ChunkSent(r)
  <2> DEFINE q == [req[r] EXCEPT !.ready = TRUE, !.chunks = @ + 1]
  <2>1. Serving(req[r]) /\ InService(req[r]) /\ Present(req[r])
    BY <1>2, <1>7 DEF ChunkSent
  <2>2. req[r].chunks + 1 \in 0 .. MaxChunks
    BY <1>1, <1>7, RequestAssumption DEF ChunkSent, Requests
  <2>3. q \in Requests /\ Good(q) /\ q.handler = req[r].handler
    BY <1>1, <2>1, <2>2 DEF Requests, Good, Early, Serving, InService, Present, Active
  <2>4. req' = [req EXCEPT ![r] = q] /\ UNCHANGED <<queue, phase, drained>>
    BY <1>7 DEF ChunkSent
  <2> HIDE DEF q
  <2> QED BY <2>1, <2>3, <2>4, SetKeeps DEF Serving
<1>8. CASE ChunkRead(r)
  <2>1. Serving(req[r]) /\ InService(req[r]) /\ Present(req[r]) /\ req[r].work = "read"
    BY <1>2, <1>8 DEF ChunkRead, Active
  <2>2. PICK work \in {"read", "stall"} :
          Update(r, [req[r] EXCEPT !.ready = FALSE, !.work = work])
    BY <1>8 DEF ChunkRead
  <2> DEFINE q == [req[r] EXCEPT !.ready = FALSE, !.work = work]
  <2>3. q \in Requests /\ Good(q) /\ q.handler = req[r].handler
    BY <1>1, <2>1 DEF Requests, Good, Early, Serving, InService, Present, Active
  <2>4. Update(r, q) /\ UNCHANGED <<phase, drained>>
    BY <1>8, <2>2 DEF ChunkRead
  <2> HIDE DEF q
  <2> QED BY <2>1, <2>3, <2>4, UpdateKeeps DEF Serving
<1>9. CASE StreamEnds(r)
  <2> DEFINE s == [req[r] EXCEPT !.response = "whole"]
  <2>1. Serving(req[r]) /\ InService(req[r])
    BY <1>2, <1>9 DEF StreamEnds, Active
  <2>2. /\ s \in Requests /\ Serving(s) /\ s.settled = <<>> /\ ~s.twice
        /\ s.response = "whole" /\ s.handler = req[r].handler
    BY <1>1, <2>1 DEF Requests, Serving, InService
  <2>3. Update(r, Complete(s)) /\ UNCHANGED <<phase, drained>>
    BY <1>9 DEF StreamEnds
  <2> HIDE DEF s
  <2>4. Complete(s) \in Requests /\ Complete(s).handler = "done" /\ Over(Complete(s))
    BY <2>2, CompleteKeeps
  <2>5. Good(Complete(s))
    BY <2>4 DEF Good, Early, Serving
  <2> QED BY <2>1, <2>3, <2>4, <2>5, UpdateKeeps DEF Serving
<1> QED BY <1>3, <1>4, <1>5, <1>6, <1>7, <1>8, <1>9 DEF Upstream

LEMMA TimersKeep ==
  ASSUME IInv, NEW r \in Request, Timers(r)
  PROVE  IInv'
<1>1. req[r] \in Requests /\ Good(req[r])
  BY DEF IInv, TypeOK
<1>2. Active(req[r]) => Serving(req[r]) /\ InService(req[r]) /\ Present(req[r])
  BY <1>1 DEF Good, Early, Serving, Untouched, Over, Active, Requests
<1>3. ASSUME NEW f \in Failures, Active(req[r])
      PROVE  LET q == [req[r] EXCEPT !.failure = f]
             IN  /\ q \in Requests /\ Serving(q) /\ InService(q) /\ Present(q)
                 /\ q.handler = req[r].handler
  BY <1>1, <1>2, <1>3 DEF Requests, Serving, InService, Present, Active
<1>4. ASSUME NEW q \in Requests, Serving(q), InService(q), Present(q),
             q.handler = req[r].handler,
             Update(r, Abort(q)), UNCHANGED <<phase, drained>>
      PROVE  IInv'
  <2>1. /\ Abort(q) \in Requests /\ Good(Abort(q)) /\ Abort(q).handler # "queued"
        /\ Abort(q).handler \in {q.handler, "done"}
    BY <1>4, AbortKeeps
  <2> QED BY <1>4, <2>1, UpdateKeeps DEF Serving
<1>5. CASE ResponseTimeout(r)
  <2>1. Active(req[r]) /\ "response_timeout" \in Failures
    BY <1>5 DEF ResponseTimeout, Active, Failures
  <2> QED BY <1>3, <1>4, <1>5, <2>1 DEF ResponseTimeout
<1>6. CASE ForwardTimeout(r)
  <2>1. Active(req[r])
    BY <1>6 DEF ForwardTimeout, Active
  <2> QED BY <1>1, <1>2, <1>4, <1>6, <2>1 DEF ForwardTimeout
<1>7. CASE IdleTimeout(r)
  <2>1. Active(req[r]) /\ "idle_timeout" \in Failures
    BY <1>7 DEF IdleTimeout, Active, Failures
  <2> QED BY <1>3, <1>4, <1>7, <2>1 DEF IdleTimeout
<1>8. CASE StallTimeout(r)
  <2> DEFINE q == IF req[r].handler = "forwarding" THEN req[r]
                  ELSE [req[r] EXCEPT !.failure = "client_stall"]
  <2>1. Active(req[r]) /\ "client_stall" \in Failures
    BY <1>8 DEF StallTimeout, Active, Failures
  <2>2. /\ q \in Requests /\ Serving(q) /\ InService(q) /\ Present(q)
        /\ q.handler = req[r].handler
    BY <1>1, <1>2, <1>3, <2>1
  <2>3. Update(r, Close(q)) /\ UNCHANGED <<phase, drained>>
    BY <1>8 DEF StallTimeout
  <2> HIDE DEF q
  <2>4. Good(q) /\ q.handler # "queued"
    BY <2>2 DEF Good, Early, Serving
  <2>5. /\ Close(q) \in Requests /\ Good(Close(q))
        /\ ~Serving(Close(q)) /\ Close(q).handler # "queued"
    BY <2>2, <2>4, CloseKeeps
  <2> QED BY <2>2, <2>3, <2>5, UpdateKeeps DEF Serving
<1>9. CASE BorrowDeadline(r)
  <2> DEFINE kind == "borrowed_admission_deadline"
             q == [req[r] EXCEPT !.slot = FALSE, !.failure = kind]
             s == Settle(q, kind)
             a == [s EXCEPT !.aborted = TRUE]
             x == IF s.work = "stall" THEN Unwind(a) ELSE Abort(s)
  <2>1. Update(r, x) /\ UNCHANGED <<phase, drained>>
    BY <1>9 DEF BorrowDeadline
  <2>2. /\ req[r].handler \in {"running", "forwarding", "done"}
        /\ kind \in Failures \cap Settlements
    BY <1>1, <1>9 DEF BorrowDeadline, Good, Early, Untouched, Requests, Failures, Settlements
  <2>3. /\ q \in Requests /\ q.handler = req[r].handler
        /\ q.work = req[r].work /\ q.response = req[r].response
        /\ q.settled = req[r].settled /\ (q.twice <=> req[r].twice)
    BY <1>1, <2>2 DEF Requests
  <2>4. CASE req[r].handler = "running"
    <3>1. InService(req[r])
      BY <1>1, <2>4 DEF Good, Serving
    <3>2. s \in Requests /\ s.handler = "done" /\ Answered(s) /\ s.work = q.work
      <4> HIDE DEF q
      <4> QED BY <2>2, <2>3, <2>4, <3>1, SettleKeeps DEF InService
    <3>3. x = Unwind(a)
      <4> HIDE DEF q, s
      <4> QED BY <2>3, <3>1, <3>2 DEF Abort, InService, Active, Requests
    <3> HIDE DEF q, s, x
    <3> DEFINE u == [a EXCEPT !.work = "done", !.slot = FALSE,
                              !.upstream = "lost", !.ready = FALSE]
    <3>unwound. Unwind(a) = u
      BY <3>2 DEF Unwind, Settle, Requests
    <3>typed. u \in Requests
      BY <3>2 DEF Requests
    <3>4. /\ u.handler = "done" /\ u.work = "done" /\ u.response = s.response
          /\ u.settled = s.settled /\ (u.gone <=> s.gone) /\ (u.twice <=> s.twice)
      BY <3>2 DEF Requests
    <3> HIDE DEF u
    <3>5. Answered(u)
      BY <3>2, <3>4 DEF Answered, Ended
    <3>6. Over(u)
      BY <3>4, <3>5 DEF Answered, Over, Active
    <3>7. Good(u)
      BY <3>4, <3>6 DEF Good, Early, Serving
    <3> QED BY <2>1, <2>4, <3>3, <3>4, <3>unwound, <3>typed, <3>7, UpdateKeeps
  <2>5. CASE req[r].handler = "forwarding"
    <3>1. InService(req[r]) /\ Present(req[r])
      BY <1>1, <2>5 DEF Good, Serving
    <3>2. s = q
      BY <2>3, <2>5 DEF Settle
    <3>3. /\ a \in Requests /\ Serving(a) /\ InService(a) /\ Present(a)
          /\ Serving(q) /\ InService(q) /\ Present(q)
      <4>1. Serving(q) /\ InService(q) /\ Present(q)
        BY <1>1, <2>2, <2>5, <3>1 DEF Requests, Serving, InService, Present, Active
      <4>2. a = [q EXCEPT !.aborted = TRUE]
        BY <3>2
      <4> HIDE DEF q, s, a
      <4> QED BY <2>3, <4>1, <4>2 DEF Requests, Serving, InService, Present, Active
    <3>4. Unwind(a) \in Requests /\ Good(Unwind(a)) /\ Unwind(a).handler = "done"
      <4> HIDE DEF a
      <4> QED BY <3>3, UnwindKeeps DEF Good, Early, Serving
    <3>5. /\ Abort(q) \in Requests /\ Good(Abort(q))
          /\ Abort(q).handler \in {q.handler, "done"}
      <4> HIDE DEF q
      <4> QED BY <2>3, <3>3, AbortKeeps
    <3>6. x \in Requests /\ Good(x) /\ x.handler \in {"forwarding", "done"}
      <4> HIDE DEF a, q, s
      <4> QED BY <2>3, <2>5, <3>2, <3>4, <3>5
    <3> HIDE DEF x
    <3> QED BY <2>1, <2>5, <3>6, UpdateKeeps
  <2>6. CASE req[r].handler = "done"
    <3>1. s = q
      BY <2>3, <2>6 DEF Settle
    <3>2. Over(req[r])
      BY <1>1, <2>6 DEF Good
    <3>3. x = [q EXCEPT !.aborted = TRUE]
      BY <2>3, <3>1, <3>2 DEF Abort, Over, Active
    <3>4. Over(q)
      BY <1>1, <3>2 DEF Over, Active, Ended, Requests
    <3> HIDE DEF q, s, x
    <3>5. x \in Requests /\ x.handler = "done" /\ Over(x)
      BY <2>3, <2>6, <3>3, <3>4 DEF Over, Active, Ended, Requests
    <3>6. Good(x)
      BY <3>5 DEF Good, Early, Serving
    <3> QED BY <2>1, <2>6, <3>5, <3>6, UpdateKeeps
  <2> QED BY <2>2, <2>4, <2>5, <2>6
<1> QED BY <1>5, <1>6, <1>7, <1>8, <1>9 DEF Timers

LEMMA ClientKeeps ==
  ASSUME IInv, NEW r \in Request, Client(r)
  PROVE  IInv'
<1>1. req[r] \in Requests /\ Good(req[r])
  BY DEF IInv, TypeOK
<1>2. CASE ClientDrains(r)
  <2> DEFINE q == [req[r] EXCEPT !.work = "read"]
             x == IF q.aborted THEN Unwind(q) ELSE q
  <2>1. Serving(req[r]) /\ InService(req[r]) /\ Present(req[r]) /\ req[r].work = "stall"
    BY <1>1, <1>2
       DEF ClientDrains, Good, Early, Serving, Untouched, Over, Active, Requests
  <2>2. /\ q \in Requests /\ Serving(q) /\ InService(q) /\ Present(q)
        /\ q.handler = req[r].handler
    BY <1>1, <2>1 DEF Requests, Serving, InService, Present, Active
  <2>3. Update(r, x) /\ UNCHANGED <<phase, drained>>
    BY <1>2 DEF ClientDrains
  <2> HIDE DEF q
  <2>4. x \in Requests /\ Good(x) /\ x.handler \in {req[r].handler, "done"}
    BY <2>2, UnwindKeeps DEF Good, Early, Serving
  <2> HIDE DEF x
  <2> QED BY <2>1, <2>3, <2>4, UpdateKeeps DEF Serving
<1>3. CASE ClientLeaves(r)
  <2> DEFINE q == [req[r] EXCEPT !.left = TRUE]
             c == CloseEvent(q)
  <2>typed. q \in Requests
    BY <1>1 DEF Requests
  <2>fields. /\ q.handler = req[r].handler /\ q.work = req[r].work
        /\ q.response = req[r].response /\ q.settled = req[r].settled
        /\ q.upstream = req[r].upstream /\ (q.listening <=> req[r].listening)
        /\ (q.flushed <=> req[r].flushed) /\ (q.twice <=> req[r].twice)
        /\ (q.gone <=> req[r].gone) /\ (q.slot <=> req[r].slot)
    BY <1>1 DEF Requests
  <2>2. IF req[r].handler = "queued" /\ c.aborted
        THEN req' = [req EXCEPT ![r] = Rejected(c)] /\ LeavesQueue(r)
        ELSE Update(r, Close(q))
    BY <1>3 DEF ClientLeaves
  <2>3. UNCHANGED <<phase, drained>>
    BY <1>3 DEF ClientLeaves
  <2> HIDE DEF q
  <2>1. q \in Requests /\ Good(q) /\ q.handler = req[r].handler
    BY <1>1, <2>typed, <2>fields
       DEF Good, Early, Serving, Untouched, InService, Present, Over, Active, Ended
  <2>4. CASE req[r].handler = "queued"
    <3>1. Untouched(q) /\ q.listening
      BY <2>1, <2>4 DEF Good
    <3>2. c \in Requests /\ Untouched(c) /\ c.aborted
      BY <2>1, <3>1, CloseEventShape DEF Untouched, Ended
    <3> HIDE DEF c
    <3>3. /\ Rejected(c) \in Requests /\ Rejected(c).handler = "done"
          /\ Over(Rejected(c))
      BY <3>2, RejectedKeeps
    <3>4. Good(Rejected(c))
      BY <3>3 DEF Good, Early, Serving
    <3> QED BY <2>2, <2>3, <2>4, <3>2, <3>3, <3>4, LeaveKeeps
  <2>5. CASE req[r].handler # "queued"
    <3>1. /\ Close(q) \in Requests /\ Good(Close(q))
          /\ ~Serving(Close(q)) /\ Close(q).handler # "queued"
      BY <2>1, <2>5, CloseKeeps
    <3> QED BY <2>2, <2>3, <2>5, <3>1, UpdateKeeps DEF Serving
  <2> QED BY <2>4, <2>5
<1>4. CASE ClientFinishes(r)
  <2> DEFINE q == [req[r] EXCEPT !.flushed = TRUE]
  <2>1. req[r].handler = "done"
    BY <1>1, <1>4
       DEF ClientFinishes, Good, Early, Serving, Untouched, InService, Ended, Requests
  <2>typed. q \in Requests
    BY <1>1 DEF Requests
  <2>fields. /\ q.handler = "done" /\ q.work = req[r].work
        /\ q.response = req[r].response /\ q.settled = req[r].settled
        /\ q.upstream = req[r].upstream /\ (q.listening <=> req[r].listening)
        /\ (q.twice <=> req[r].twice) /\ (q.gone <=> req[r].gone)
    BY <1>1, <2>1 DEF Requests
  <2>3. req' = [req EXCEPT ![r] = q] /\ UNCHANGED <<queue, phase, drained>>
    BY <1>4 DEF ClientFinishes
  <2> HIDE DEF q
  <2>2. /\ q \in Requests /\ Good(q) /\ q.handler = "done"
    BY <1>1, <2>1, <2>typed, <2>fields DEF Good, Early, Serving, Over, Active, Ended
  <2> QED BY <2>1, <2>2, <2>3, SetKeeps
<1> QED BY <1>2, <1>3, <1>4 DEF Client

LEMMA ServerKeeps ==
  ASSUME IInv, Server
  PROVE  IInv'
<1>1. /\ \A r \in Request : req[r] \in Requests /\ Good(req[r])
      /\ queue \in Seq(Request)
      /\ \A r \in Request : req[r].handler = "queued" <=> Contains(queue, r)
  BY DEF IInv, TypeOK
<1>2. /\ <<>> \in Seq(Request) /\ IsInjective(<<>>)
      /\ \A r \in Request : ~Contains(<<>>, r)
  BY DEF IsInjective, Contains
<1>3. CASE Shutdown
  <2>1. ASSUME NEW r \in Request
        PROVE  /\ req'[r] \in Requests /\ Good(req'[r])
               /\ req'[r].handler # "queued"
    <3>1. CASE req[r].handler = "queued"
      <4>1. Untouched(req[r]) /\ req'[r] = Rejected(req[r])
        BY <1>1, <1>3, <3>1 DEF Shutdown, Good
      <4>2. /\ Rejected(req[r]) \in Requests /\ Rejected(req[r]).handler = "done"
            /\ Over(Rejected(req[r]))
        BY <1>1, <4>1, RejectedKeeps
      <4> QED BY <4>1, <4>2 DEF Good, Early, Serving
    <3>2. CASE req[r].handler # "queued"
      BY <1>1, <1>3, <3>2 DEF Shutdown
    <3> QED BY <3>1, <3>2
  <2>2. req' \in [Request -> Requests]
    BY <1>3, <2>1 DEF Shutdown
  <2>3. queue' = <<>> /\ phase' = "draining" /\ UNCHANGED drained
    BY <1>3 DEF Shutdown
  <2>4. TypeOK'
    BY <1>2, <2>1, <2>2, <2>3 DEF IInv, TypeOK
  <2> QED BY <2>1, <2>3, <2>4 DEF IInv
<1>4. CASE DrainEnds
  <2>1. \A r \in Request : req[r].handler # "running"
    BY <1>1, <1>4 DEF DrainEnds, Good, Serving, InService
  <2> QED BY <1>4, <2>1 DEF DrainEnds, IInv, TypeOK
<1>5. CASE DrainTimeout
  <2>1. queue = <<>> /\ \A r \in Request : req[r].handler # "queued"
    BY <1>1, <1>2, <1>5 DEF DrainTimeout, IInv
  <2>2. ASSUME NEW r \in Request
        PROVE  /\ req'[r] \in Requests /\ Good(req'[r])
               /\ req'[r].handler # "queued"
               /\ ~Hooks => req'[r].handler # "running"
    <3>1. CASE Connected(req[r])
      <4>1. req'[r] = Close(req[r])
        BY <1>5, <3>1 DEF DrainTimeout
      <4>2. /\ Close(req[r]) \in Requests /\ Good(Close(req[r]))
            /\ ~Serving(Close(req[r])) /\ Close(req[r]).handler # "queued"
        BY <1>1, <2>1, CloseKeeps
      <4> QED BY <4>1, <4>2 DEF Serving
    <3>2. CASE ~Connected(req[r])
      <4>1. req'[r] = req[r]
        BY <1>5, <3>2 DEF DrainTimeout
      <4>2. ~Hooks => ~Serving(req[r])
        BY <1>1, <3>2 DEF Connected, Good, Serving, InService, Present
      <4> QED BY <1>1, <2>1, <4>1, <4>2 DEF Serving
    <3> QED BY <3>1, <3>2
  <2>3. req' \in [Request -> Requests]
    BY <1>5, <2>2 DEF DrainTimeout
  <2>4. UNCHANGED <<queue, drained>> /\ phase' = "closing"
    BY <1>5 DEF DrainTimeout
  <2>5. TypeOK'
    BY <1>2, <2>1, <2>2, <2>3, <2>4 DEF IInv, TypeOK
  <2> QED BY <2>1, <2>2, <2>4, <2>5 DEF IInv
<1>6. CASE ServerCloses
  BY <1>6 DEF ServerCloses, IInv, TypeOK
<1> QED BY <1>3, <1>4, <1>5, <1>6 DEF Server

-----------------------------------------------------------------------------
LEMMA InitHolds == Init => IInv
<1> SUFFICES ASSUME Init PROVE IInv
  OBVIOUS
<1>1. Fresh \in Requests /\ Good(Fresh) /\ Fresh.handler = "idle"
  BY RequestAssumption
     DEF Fresh, Requests, Good, Early, Serving, Untouched
<1>2. /\ <<>> \in Seq(Request) /\ IsInjective(<<>>)
      /\ \A r \in Request : ~Contains(<<>>, r)
  BY DEF IsInjective, Contains
<1> QED BY <1>1, <1>2 DEF Init, IInv, TypeOK

LEMMA NextKeeps == IInv /\ [Next]_vars => IInv'
<1> SUFFICES ASSUME IInv, [Next]_vars PROVE IInv'
  OBVIOUS
<1>1. CASE UNCHANGED vars
  BY <1>1 DEF vars, IInv, TypeOK
<1>2. CASE Next
  BY <1>2, HandlingKeeps, UpstreamKeeps, TimersKeep, ClientKeeps, ServerKeeps DEF Next
<1> QED BY <1>1, <1>2

(* In every reachable state IInv holds. *)
THEOREM LivesAreOrderly == Spec => []IInv
  BY InitHolds, NextKeeps, PTL DEF Spec

(* Each variable, and each field of each request, stays in its type, and   *)
(* the pool's waiters are exactly the handlers that await a slot.          *)
THEOREM TypeCorrectness == Spec => []TypeOK
<1>1. IInv => TypeOK
  BY DEF IInv
<1> QED BY <1>1, LivesAreOrderly, PTL

(* handle() audits an admitted or rejected request exactly once, whatever  *)
(* the deadline of its slot, its timers, its client and its upstream do.   *)
THEOREM AuditedOnce == Spec => []SettledOnce
<1>1. IInv => SettledOnce
  <2> SUFFICES ASSUME IInv, NEW r \in Request
               PROVE  /\ Len(req[r].settled) <= 1
                      /\ req[r].handler = "done" /\ req[r].listening
                           => Len(req[r].settled) = 1
    BY DEF SettledOnce
  <2>1. req[r] \in Requests /\ Good(req[r])
    BY DEF IInv, TypeOK
  <2>2. CASE req[r].handler = "done"
    BY <2>1, <2>2 DEF Good, Over
  <2>3. CASE req[r].handler # "done"
    <3>1. req[r].settled = <<>>
      BY <2>1, <2>3 DEF Good, Early, Serving, Untouched, InService, Requests
    <3> QED BY <2>3, <3>1
  <2> QED BY <2>2, <2>3
<1> QED BY <1>1, LivesAreOrderly, PTL

(* No response is given a second head by handler and callback. *)
THEOREM HeadsAreSingle == Spec => []OneHead
<1>1. IInv => OneHead
  BY DEF IInv, TypeOK, OneHead, Good, Early, Serving, Untouched, InService, Over, Requests
<1> QED BY <1>1, LivesAreOrderly, PTL

(* A client whose handler is done has its answer, or is cut off.           *)
THEOREM ClientsAreTold == Spec => []ClientsKnow
<1>1. IInv => ClientsKnow
  <2> SUFFICES ASSUME IInv, NEW r \in Request
               PROVE  /\ req[r].handler = "done" => Ended(req[r]) \/ req[r].gone
                      /\ req[r].response = "whole" => req[r].upstream = "complete"
    BY DEF ClientsKnow
  <2>1. req[r] \in Requests /\ Good(req[r])
    BY DEF IInv, TypeOK
  <2> QED BY <2>1 DEF Good, Early, Serving, Untouched, InService, Over, Requests
<1> QED BY <1>1, LivesAreOrderly, PTL

(* If no hook is awaited, a client that hangs up leaves nothing behind.    *)
THEOREM DisconnectsAreHonoured ==
  ASSUME ~Hooks PROVE Spec => []DisconnectHonoured
<1>1. IInv => DisconnectHonoured
  <2> SUFFICES ASSUME IInv, NEW r \in Request, req[r].gone
               PROVE  ~Active(req[r]) /\ req[r].handler # "queued"
    BY DEF DisconnectHonoured
  <2>1. req[r] \in Requests /\ Good(req[r])
    BY DEF IInv, TypeOK
  <2> QED BY <2>1 DEF Good, Early, Serving, Untouched, Over, Present, Active, Requests
<1> QED BY <1>1, LivesAreOrderly, PTL

(* If no hook is awaited, nothing admitted goes on after the drain.        *)
THEOREM DrainsAreQuiet ==
  ASSUME ~Hooks PROVE Spec => []QuietAfterDrain
<1>1. IInv => QuietAfterDrain
  <2> SUFFICES ASSUME IInv, phase \in {"closing", "closed"},
                      NEW r \in Request, Active(req[r])
               PROVE  req[r].handler = "forwarding"
    BY DEF QuietAfterDrain
  <2>1. req[r] \in Requests /\ Good(req[r]) /\ req[r].handler # "running"
    BY DEF IInv, TypeOK
  <2> QED BY <2>1 DEF Good, Early, Serving, Untouched, Over, Active, Requests
<1> QED BY <1>1, LivesAreOrderly, PTL

-----------------------------------------------------------------------------
(* Who is to blame.                                                        *)

(* A failure is on record while handle() still serves the request only if  *)
(* its stream is aborted, and waits for the client: it was idle for long.  *)
(* Every other failure settles the request in the step that records it.    *)
FailureTold(q) ==
  /\ q.left => q.gone
  /\ q.handler \notin {"forwarding", "done"} =>
       IF q.aborted THEN q.work = "stall" /\ q.failure = "idle_timeout"
       ELSE q.failure = "none"

BlameInv == IInv /\ \A r \in Request : FailureTold(req[r])

(* One request of a step: what is recorded is true, and so is the audit.   *)
BlameOf(r) ==
  /\ Settles(r, "completed") => req'[r].response = "whole" /\ ~req[r].aborted
  /\ Settles(r, "response_timeout") => req[r].work = "fetch"
  /\ Settles(r, "client_stall") => req[r].work = "stall" /\ ~req'[r].left
  /\ Settles(r, "client_disconnect") => req'[r].left \/ phase' # "open"
  /\ Settles(r, "upstream_error") => ~req[r].aborted /\ ~req'[r].left
  /\ Settles(r, "borrowed_admission_deadline") => req[r].slot /\ r \in Borrower

Blamed(r) == FailureTold(req'[r]) /\ BlameOf(r)

LEMMA NothingSettled ==
  ASSUME NEW r \in Request, req[r] \in Requests, req'[r].settled = req[r].settled
  PROVE  BlameOf(r)
<1>1. \A kind : ~ Settles(r, kind)
  BY DEF Settles, Requests
<1> QED BY <1>1 DEF BlameOf

LEMMA OneSettled ==
  ASSUME NEW r \in Request, req[r] \in Requests, NEW k \in Settlements,
         req'[r].settled = Append(req[r].settled, k)
  PROVE  \A kind : Settles(r, kind) => kind = k
<1>1. req[r].settled \in Seq(Settlements)
  BY DEF Requests
<1>2. Last(req'[r].settled) = k
  BY <1>1 DEF Last
<1> QED BY <1>2 DEF Settles

(* A slow client is not told that it was aborted, and remembers why.       *)
LEMMA CloseEventBlames ==
  ASSUME NEW q \in Requests
  PROVE  LET c == CloseEvent(q)
         IN  /\ c.left = q.left
             /\ c.failure = IF /\ q.listening /\ ~Ended(q)
                               /\ q.failure = "none" /\ q.handler # "forwarding"
                            THEN "client_disconnect" ELSE q.failure
<1> DEFINE heard == q.listening /\ ~Ended(q)
           b == q.aborted \/ heard
           f == IF heard /\ q.failure = "none" /\ q.handler # "forwarding"
                THEN "client_disconnect" ELSE q.failure
           c == [q EXCEPT !.gone = TRUE, !.aborted = b, !.failure = f]
<1>1. CloseEvent(q) = c
  BY DEF CloseEvent
<1> HIDE DEF b, f
<1>2. c.left = q.left /\ c.failure = f
  BY DEF Requests
<1> HIDE DEF c
<1> QED BY <1>1, <1>2 DEF f

LEMMA DestroyBlames ==
  ASSUME NEW q \in Requests
  PROVE  Destroy(q).left = q.left /\ Destroy(q).gone
  BY CloseEventBlames, CloseEventShape DEF Destroy

LEMMA SendBlames ==
  ASSUME NEW q \in Requests, q.response = "none",
         NEW response \in {"stream", "whole", "error"}
  PROVE  LET s == Send(q, response)
         IN  /\ (s.left <=> q.left) /\ (s.aborted <=> q.aborted)
             /\ s.failure = q.failure
<1> DEFINE b == response = "error"
           s == [q EXCEPT !.response = response, !.flushed = b]
<1>1. Send(q, response) = s
  BY DEF Send
<1> HIDE DEF b
<1>2. /\ (s.left <=> q.left) /\ (s.aborted <=> q.aborted)
      /\ s.failure = q.failure
  BY DEF Requests
<1> HIDE DEF s
<1> QED BY <1>1, <1>2

LEMMA SettleBlames ==
  ASSUME NEW q \in Requests, NEW kind \in Settlements, q.handler = "running"
  PROVE  LET s == Settle(q, kind)
         IN  /\ s.settled = Append(q.settled, kind)
             /\ (s.left <=> q.left) /\ (q.gone => s.gone)
<1> DEFINE s == [q EXCEPT !.handler = "done", !.settled = Append(@, kind)]
           d == Destroy(s)
           e == Send(s, "error")
<1>1. /\ s \in Requests /\ s.settled = Append(q.settled, kind)
      /\ (s.left <=> q.left) /\ (s.gone <=> q.gone) /\ s.response = q.response
  <2>1. Append(q.settled, kind) \in Seq(Settlements)
    BY DEF Requests
  <2> QED BY <2>1 DEF Requests
<1>2. Settle(q, kind) \in {d, e} /\ (q.response # "none" => Settle(q, kind) = d)
  BY DEF Settle
<1> HIDE DEF s
<1>3. d.settled = s.settled /\ (d.left <=> s.left) /\ d.gone
  BY <1>1, DestroyShape, DestroyBlames
<1>4. q.response = "none" =>
        e.settled = s.settled /\ (e.left <=> s.left) /\ (e.gone <=> s.gone)
  BY <1>1, SendShape, SendBlames
<1> HIDE DEF d, e
<1> QED BY <1>1, <1>2, <1>3, <1>4

(* What a callback that throws is audited as; not at all, if it forwarded. *)
FailureOf(q) == IF q.failure = "none" THEN "upstream_error" ELSE q.failure

LEMMA UnwindBlames ==
  ASSUME NEW q \in Requests, Serving(q), InService(q)
  PROVE  LET u == Unwind(q)
         IN  /\ u.handler = "done" /\ (u.left <=> q.left) /\ (q.gone => u.gone)
             /\ u.settled = IF q.handler = "forwarding" THEN q.settled
                            ELSE Append(q.settled, FailureOf(q))
<1> DEFINE s == [q EXCEPT !.work = "done", !.slot = FALSE, !.upstream = "lost",
                          !.ready = FALSE]
           f == [s EXCEPT !.handler = "done", !.listening = FALSE]
           u == Unwind(q)
<1>1. u.handler = "done"
  BY UnwindKeeps
<1>2. CASE q.handler = "forwarding"
  <2>1. u = IF q.gone \/ q.response # "none" THEN Destroy(f) ELSE Send(f, "error")
    BY <1>2 DEF Unwind
  <2>2. /\ f \in Requests /\ (f.left <=> q.left) /\ (f.gone <=> q.gone)
        /\ f.settled = q.settled /\ f.response = q.response
    BY ZenonT(30) DEF Requests
  <2> HIDE DEF f, s
  <2>3. /\ Destroy(f).settled = f.settled /\ (Destroy(f).left <=> f.left)
        /\ Destroy(f).gone
    BY <2>2, DestroyShape, DestroyBlames
  <2>4. q.response = "none" =>
          /\ Send(f, "error").settled = f.settled
          /\ Send(f, "error").left <=> f.left
          /\ Send(f, "error").gone <=> f.gone
    BY <2>2, SendShape, SendBlames
  <2> HIDE DEF u
  <2> QED BY <1>1, <1>2, <2>1, <2>2, <2>3, <2>4 DEF u
<1>3. CASE q.handler = "running"
  <2>1. u = Settle(s, FailureOf(q))
    BY <1>3 DEF Unwind, FailureOf
  <2>2. /\ s \in Requests /\ (s.left <=> q.left) /\ (s.gone <=> q.gone)
        /\ s.settled = q.settled /\ s.handler = "running"
    BY <1>3, ZenonT(30) DEF Requests
  <2>3. FailureOf(q) \in Settlements
    BY DEF FailureOf, Settlements, Requests
  <2> HIDE DEF s
  <2>4. /\ Settle(s, FailureOf(q)).settled = Append(s.settled, FailureOf(q))
        /\ Settle(s, FailureOf(q)).left <=> s.left
        /\ s.gone => Settle(s, FailureOf(q)).gone
    BY <2>2, <2>3, SettleBlames
  <2> HIDE DEF u
  <2> QED BY <1>1, <1>3, <2>1, <2>2, <2>4 DEF u
<1> QED BY <1>2, <1>3 DEF Serving

(* A step about request r: the rest is not settled, though one may begin.  *)
LEMMA OthersBlamed ==
  ASSUME BlameInv, NEW r \in Request, NEW q \in Requests,
         \/ Update(r, q) /\ req[r].handler # "queued"
         \/ req' = [req EXCEPT ![r] = q]
  PROVE  req'[r] = q /\ \A x \in Request \ {r} : Blamed(x)
<1> DEFINE rs == [req EXCEPT ![r] = q]
           h == Head(queue)
<1>1. \A x \in Request : req[x] \in Requests /\ FailureTold(req[x])
  BY DEF BlameInv, IInv, TypeOK
<1>2. rs[r] = q /\ \A x \in Request \ {r} : rs[x] = req[x]
  BY DEF BlameInv, IInv, TypeOK
<1>3. ASSUME NEW x \in Request, req'[x] = req[x]
      PROVE  Blamed(x)
  BY <1>1, <1>3, NothingSettled DEF Blamed
<1>4. CASE req' = rs
  BY <1>2, <1>3, <1>4
<1>5. CASE /\ queue # <<>> /\ req' = [rs EXCEPT ![h] = Begin(@)]
           /\ req[r].handler # "queued"
  <2>1. /\ Waiters(queue)
        /\ \A x \in Request : req[x].handler = "queued" <=> Contains(queue, x)
    BY DEF BlameInv, IInv, TypeOK, Waiters
  <2>2. h \in Request /\ h # r /\ req[h].handler = "queued"
    BY <1>5, <2>1, HeadLeaves
  <2>3. /\ req'[h] = Begin(req[h]) /\ req'[r] = q
        /\ \A x \in Request \ {r, h} : req'[x] = req[x]
    BY <1>2, <1>5, <2>2 DEF BlameInv, IInv, TypeOK
  <2>4. Untouched(req[h])
    BY <2>2 DEF BlameInv, IInv, Good
  <2>5. /\ Begin(req[h]).settled = req[h].settled /\ Begin(req[h]).handler = "running"
        /\ (Begin(req[h]).left <=> req[h].left) /\ (Begin(req[h]).gone <=> req[h].gone)
        /\ (Begin(req[h]).aborted <=> req[h].aborted)
        /\ Begin(req[h]).failure = req[h].failure
    BY <1>1, <2>2 DEF Begin, Requests
  <2>6. FailureTold(Begin(req[h]))
    BY <1>1, <2>2, <2>4, <2>5 DEF FailureTold, Untouched
  <2>7. Blamed(h)
    BY <1>1, <2>2, <2>3, <2>5, <2>6, NothingSettled DEF Blamed
  <2> QED BY <1>3, <2>2, <2>3, <2>7
<1> QED BY <1>4, <1>5 DEF Update

(* A callback that throws, with a failure it has noted or without.         *)
LEMMA UnwindBlamed ==
  ASSUME NEW r \in Request, req[r] \in Requests,
         NEW q \in Requests, Serving(q), InService(q), q.left => q.gone,
         q.settled = req[r].settled, req'[r] = Unwind(q),
         q.handler = "running" =>
           /\ q.failure = "none" => ~req[r].aborted /\ ~q.left
           /\ q.failure = "response_timeout" => req[r].work = "fetch"
           /\ q.failure = "client_stall" => req[r].work = "stall" /\ ~q.left
           /\ q.failure = "client_disconnect" => q.left \/ phase' # "open"
           /\ q.failure # "borrowed_admission_deadline"
  PROVE  Blamed(r)
<1> DEFINE u == Unwind(q)
<1>1. /\ u.handler = "done" /\ (u.left <=> q.left) /\ (q.gone => u.gone)
      /\ u.settled = IF q.handler = "forwarding" THEN q.settled
                     ELSE Append(q.settled, FailureOf(q))
  BY UnwindBlames
<1> HIDE DEF u
<1>2. FailureTold(u)
  BY <1>1 DEF FailureTold
<1>3. CASE q.handler = "forwarding"
  <2>1. BlameOf(r)
    BY <1>1, <1>3, NothingSettled DEF u
  <2> QED BY <1>2, <2>1 DEF Blamed, u
<1>4. CASE q.handler = "running"
  <2>1. FailureOf(q) \in Settlements /\ FailureOf(q) # "completed"
    BY DEF FailureOf, Settlements, Failures, Requests
  <2>2. \A kind : Settles(r, kind) => kind = FailureOf(q)
    BY <1>1, <1>4, <2>1, OneSettled DEF u
  <2>3. req'[r].left <=> q.left
    BY <1>1 DEF u
  <2>4. /\ FailureOf(q) = "upstream_error" => ~req[r].aborted /\ ~q.left
        /\ FailureOf(q) = "response_timeout" => req[r].work = "fetch"
        /\ FailureOf(q) = "client_stall" => req[r].work = "stall" /\ ~q.left
        /\ FailureOf(q) = "client_disconnect" => q.left \/ phase' # "open"
        /\ FailureOf(q) # "borrowed_admission_deadline"
    BY <1>4 DEF FailureOf, Requests, Failures
  <2>5. BlameOf(r)
    BY <2>1, <2>2, <2>3, <2>4 DEF BlameOf
  <2> QED BY <1>2, <2>5 DEF Blamed, u
<1> QED BY <1>3, <1>4 DEF Serving

(* A request that goes on as it was, but for its failure.                  *)
LEMMA GoesOnBlamed ==
  ASSUME NEW r \in Request, req[r] \in Requests, NEW q, req'[r] = q,
         q.settled = req[r].settled, FailureTold(q)
  PROVE  Blamed(r)
  BY NothingSettled DEF Blamed

LEMMA RejectedBlamed ==
  ASSUME NEW r \in Request, req[r] \in Requests,
         NEW q \in Requests, q.response = "none", q.left => q.gone,
         q.settled = req[r].settled, req'[r] = Rejected(q)
  PROVE  Blamed(r)
<1> DEFINE s == [q EXCEPT !.handler = "done", !.settled = Append(@, "rejected")]
           e == Send(s, "error")
<1>1. Append(q.settled, "rejected") \in Seq(Settlements)
  BY DEF Requests, Settlements
<1>2. /\ s \in Requests /\ s.handler = "done" /\ s.response = "none"
      /\ (s.left <=> q.left) /\ (s.gone <=> q.gone)
      /\ s.settled = Append(q.settled, "rejected")
  BY <1>1 DEF Requests
<1> HIDE DEF s
<1>3. /\ e.handler = s.handler /\ (e.left <=> s.left) /\ (e.gone <=> s.gone)
      /\ e.settled = s.settled
  BY <1>2, SendShape, SendBlames
<1>4. Rejected(q) = e
  BY DEF Rejected, s
<1> HIDE DEF e
<1>5. FailureTold(e)
  BY <1>2, <1>3 DEF FailureTold
<1>6. \A kind : Settles(r, kind) => kind = "rejected"
  BY <1>2, <1>3, <1>4, OneSettled DEF Settlements
<1>7. BlameOf(r)
  BY <1>6 DEF BlameOf
<1> QED BY <1>4, <1>5, <1>7 DEF Blamed

(* The response of r closes: a listener hears of it, unless r is over.     *)
LEMMA CloseBlamed ==
  ASSUME NEW r \in Request, req[r] \in Requests,
         NEW q \in Requests, Good(q), q.handler # "queued",
         q.settled = req[r].settled, req'[r] = Close(q),
         q.handler = "running" =>
           /\ q.failure = "none" => q.left \/ phase' # "open"
           /\ q.failure \in {"none", "idle_timeout", "client_stall"}
           /\ q.failure = "client_stall" => req[r].work = "stall" /\ ~q.left,
         Early(q) => q.failure = "none" /\ ~q.aborted
  PROVE  Blamed(r)
<1> DEFINE c == CloseEvent(q)
<1>1. /\ c \in Requests /\ c.gone
      /\ c.aborted <=> (q.aborted \/ (q.listening /\ ~Ended(q)))
      /\ c.handler = q.handler /\ c.work = q.work
      /\ c.listening = q.listening /\ c.response = q.response
      /\ c.twice = q.twice /\ c.flushed = q.flushed
      /\ c.settled = q.settled
      /\ c.left = q.left
      /\ c.failure = IF /\ q.listening /\ ~Ended(q)
                        /\ q.failure = "none" /\ q.handler # "forwarding"
                     THEN "client_disconnect" ELSE q.failure
  BY CloseEventShape, CloseEventBlames
<1>2. Close(q) = IF Active(c) /\ c.aborted THEN Unwind(c) ELSE c
  BY DEF Close
<1> HIDE DEF c
<1>3. CASE Serving(q)
  <2>1. InService(q) /\ ~Ended(q) /\ q.listening
    BY <1>3 DEF Good, Serving, InService, Ended
  <2>2. Serving(c) /\ InService(c) /\ c.aborted
    BY <1>1, <1>3, <2>1 DEF Serving, InService, Active
  <2>3. Close(q) = Unwind(c)
    BY <1>2, <2>2 DEF InService
  <2> QED BY <1>1, <1>3, <2>1, <2>2, <2>3, UnwindBlamed
<1>4. CASE ~Serving(q)
  <2>1. ~Active(q)
    BY <1>4 DEF Good, Early, Serving, Untouched, Over, Active, Requests
  <2>2. Close(q) = c
    BY <1>1, <1>2, <2>1 DEF Active
  <2>3. FailureTold(c)
    BY <1>1, <1>4 DEF FailureTold, Good, Early, Serving, Requests
  <2> QED BY <1>1, <2>2, <2>3, GoesOnBlamed
<1> QED BY <1>3, <1>4

LEMMA HandlingBlames ==
  ASSUME BlameInv, NEW r \in Request, Handling(r)
  PROVE  \A x \in Request : Blamed(x)
<1> DEFINE p == req[r]
<1>1. p \in Requests /\ Good(p) /\ FailureTold(p)
  BY DEF BlameInv, IInv, TypeOK
<1>2. ASSUME NEW q \in Requests, req' = [req EXCEPT ![r] = q], q.settled = p.settled,
             FailureTold(q)
      PROVE  \A x \in Request : Blamed(x)
  BY <1>1, <1>2, OthersBlamed, GoesOnBlamed
<1>3. ASSUME NEW q \in Requests, req' = [req EXCEPT ![r] = Rejected(q)],
             Untouched(q), q.left => q.gone, q.settled = p.settled
      PROVE  \A x \in Request : Blamed(x)
  BY <1>1, <1>3, OthersBlamed, RejectedBlamed, RejectedKeeps, ZenonT(30) DEF Untouched
<1> HIDE DEF p
<1>4. CASE Arrive(r)
  <2> DEFINE q == [p EXCEPT !.handler = "body"]
  <2>1. q \in Requests /\ q.settled = p.settled /\ FailureTold(q)
    BY <1>1, <1>4 DEF Arrive, Requests, FailureTold, p
  <2>2. req' = [req EXCEPT ![r] = q]
    BY <1>4 DEF Arrive, p
  <2> HIDE DEF q
  <2> QED BY <1>2, <2>1, <2>2
<1>5. CASE TurnedAway(r)
  <2> DEFINE s == [p EXCEPT !.handler = "done"]
             e == Send(s, "error")
  <2>1. /\ s \in Requests /\ s.handler = "done" /\ s.response = "none"
        /\ s.settled = p.settled /\ (s.left <=> p.left) /\ (s.gone <=> p.gone)
    BY <1>1, <1>5 DEF TurnedAway, Requests, Good, Early, Untouched, p
  <2>2. req' = [req EXCEPT ![r] = e]
    BY <1>5 DEF TurnedAway, p
  <2> HIDE DEF s
  <2>3. /\ e \in Requests /\ e.handler = s.handler /\ e.settled = s.settled
        /\ (e.left <=> s.left) /\ (e.gone <=> s.gone)
    BY <2>1, SendShape, SendBlames
  <2> HIDE DEF e
  <2> QED BY <1>1, <1>2, <2>1, <2>2, <2>3 DEF FailureTold
<1>6. CASE AwaitHook(r)
  <2> DEFINE q == [p EXCEPT !.handler = "hook"]
  <2>1. q \in Requests /\ q.settled = p.settled /\ FailureTold(q)
    BY <1>1, <1>6 DEF AwaitHook, Requests, FailureTold, p
  <2>2. req' = [req EXCEPT ![r] = q]
    BY <1>6 DEF AwaitHook, p
  <2> HIDE DEF q
  <2> QED BY <1>2, <2>1, <2>2
<1>7. CASE Admit(r)
  <2> DEFINE q == [p EXCEPT !.listening = TRUE]
             w == [q EXCEPT !.handler = "queued"]
  <2>1. Early(p) /\ Untouched(p)
    BY <1>1, <1>7 DEF Admit, Dispatchable, Good, Early, p
  <2>2. /\ q \in Requests /\ Untouched(q) /\ q.settled = p.settled
        /\ (q.left <=> p.left) /\ (q.gone <=> p.gone)
        /\ (q.aborted <=> p.aborted) /\ q.failure = p.failure
    BY <1>1, <2>1 DEF Requests, Untouched
  <2>3. p.failure = "none" /\ ~p.aborted /\ (p.left => p.gone)
    BY <1>1, <2>1 DEF FailureTold, Early, Untouched
  <2>4. CASE req' = [req EXCEPT ![r] = Begin(q)]
    <3> HIDE DEF q
    <3>1. /\ Begin(q) \in Requests /\ Begin(q).settled = q.settled
          /\ (Begin(q).left <=> q.left) /\ (Begin(q).gone <=> q.gone)
          /\ (Begin(q).aborted <=> q.aborted) /\ Begin(q).failure = q.failure
      BY <2>2, BeginShape
    <3> QED BY <1>2, <2>2, <2>3, <2>4, <3>1 DEF FailureTold
  <2>5. CASE req' = [req EXCEPT ![r] = w]
    <3> HIDE DEF q
    <3>1. /\ w \in Requests /\ w.settled = q.settled
          /\ (w.left <=> q.left) /\ (w.gone <=> q.gone)
          /\ (w.aborted <=> q.aborted) /\ w.failure = q.failure
      BY <2>2 DEF Requests
    <3> HIDE DEF w
    <3> QED BY <1>2, <2>2, <2>3, <2>5, <3>1 DEF FailureTold
  <2>6. CASE req' = [req EXCEPT ![r] = Rejected(q)]
    <3> HIDE DEF q
    <3> QED BY <1>3, <2>2, <2>3, <2>6
  <2> QED BY <1>7, <2>4, <2>5, <2>6 DEF Admit, p
<1>8. CASE QueueTimeout(r)
  <2>1. Untouched(p) /\ (p.left => p.gone)
    BY <1>1, <1>8 DEF QueueTimeout, Good, FailureTold, p
  <2> QED BY <1>1, <1>3, <1>8, <2>1 DEF QueueTimeout, p
<1>9. CASE Forward(r)
  <2> DEFINE q == [p EXCEPT !.listening = TRUE, !.handler = "forwarding",
                            !.work = "fetch", !.upstream = "asked"]
  <2>1. q \in Requests /\ q.settled = p.settled /\ FailureTold(q)
    BY <1>1, ZenonT(30) DEF Requests, FailureTold
  <2>2. req' = [req EXCEPT ![r] = q]
    BY <1>9 DEF Forward, p
  <2> HIDE DEF q
  <2> QED BY <1>2, <2>1, <2>2
<1> QED BY <1>4, <1>5, <1>6, <1>7, <1>8, <1>9 DEF Handling

(* Only a stream that waits for its client is aborted while it is served.  *)
LEMMA ServedBlame ==
  ASSUME BlameInv, ~Hooks, NEW r \in Request, Active(req[r])
  PROVE  /\ req[r] \in Requests /\ Serving(req[r]) /\ InService(req[r])
         /\ ~req[r].gone /\ ~req[r].left
         /\ req[r].handler = "running" => FailureTold(req[r])
         /\ req[r].handler # "queued"
<1>1. req[r] \in Requests /\ Good(req[r]) /\ FailureTold(req[r])
  BY DEF BlameInv, IInv, TypeOK
<1>2. Serving(req[r]) /\ InService(req[r]) /\ Present(req[r])
  BY <1>1 DEF Good, Early, Serving, Untouched, Over, Active, Requests
<1> QED BY <1>1, <1>2 DEF Present, FailureTold, Serving

LEMMA UpstreamBlames ==
  ASSUME BlameInv, ~Hooks, NEW r \in Request, Upstream(r)
  PROVE  \A x \in Request : Blamed(x)
<1> DEFINE p == req[r]
<1>1. Active(p)
  BY DEF Upstream, StreamStarts, TextStarts, TextEnds, UpstreamFails, ChunkSent,
         ChunkRead, StreamEnds, Active
<1>2. /\ p \in Requests /\ Serving(p) /\ InService(p) /\ ~p.gone /\ ~p.left
      /\ p.handler = "running" => FailureTold(p)
      /\ p.handler # "queued"
  BY <1>1, ServedBlame
<1>3. ASSUME NEW q \in Requests,
             Update(r, q) \/ req' = [req EXCEPT ![r] = q],
             q.settled = p.settled, FailureTold(q)
      PROVE  \A x \in Request : Blamed(x)
  BY <1>2, <1>3, OthersBlamed, GoesOnBlamed
<1>4. ASSUME NEW s \in Requests, s.handler = p.handler, s.response = "whole",
             s.settled = p.settled, (s.left <=> p.left), ~s.twice,
             Update(r, Complete(s)), p.handler = "running" => ~p.aborted
      PROVE  \A x \in Request : Blamed(x)
  <2> DEFINE d == Complete(s)
  <2>0. s.settled = <<>> /\ Serving(s)
    BY <1>2, <1>4 DEF InService, Serving
  <2>1. d \in Requests /\ d.handler = "done"
    BY <1>4, <2>0, CompleteKeeps
  <2>2. /\ (d.left <=> s.left) /\ d.response = "whole"
        /\ d.settled = IF s.handler = "forwarding" THEN s.settled
                       ELSE Append(s.settled, "completed")
    BY <1>4, <2>0 DEF Complete, Serving, Requests
  <2> HIDE DEF d
  <2>3. req'[r] = d /\ \A x \in Request \ {r} : Blamed(x)
    BY <1>2, <1>4, <2>1, OthersBlamed DEF d
  <2>4. FailureTold(d)
    BY <1>2, <1>4, <2>1, <2>2 DEF FailureTold
  <2>5. CASE p.handler = "forwarding"
    BY <1>2, <1>4, <2>2, <2>3, <2>4, <2>5, GoesOnBlamed
  <2>6. CASE p.handler = "running"
    <3>1. \A kind : Settles(r, kind) => kind = "completed"
      BY <1>2, <1>4, <2>2, <2>3, <2>6, OneSettled DEF Settlements
    <3>2. BlameOf(r)
      BY <1>4, <2>2, <2>3, <2>6, <3>1 DEF BlameOf
    <3> QED BY <2>3, <2>4, <3>2 DEF Blamed
  <2> QED BY <1>2, <2>5, <2>6 DEF Serving
<1>5. CASE StreamStarts(r)
  <2> DEFINE s == Send(p, "stream")
             q == [s EXCEPT !.work = "read", !.upstream = "streaming"]
  <2>1. p.response = "none" /\ p.work = "fetch"
    BY <1>2, <1>5 DEF StreamStarts, InService
  <2>2. /\ s \in Requests /\ s.handler = p.handler /\ s.settled = p.settled
        /\ (s.left <=> p.left) /\ (s.aborted <=> p.aborted) /\ s.failure = p.failure
    BY <1>2, <2>1, SendShape, SendBlames
  <2>3. Update(r, q)
    BY <1>5 DEF StreamStarts
  <2> HIDE DEF s, p
  <2>4. /\ q \in Requests /\ q.handler = s.handler /\ q.settled = s.settled
        /\ (q.left <=> s.left) /\ (q.aborted <=> s.aborted) /\ q.failure = s.failure
    BY <2>2, ZenonT(30) DEF Requests
  <2> HIDE DEF q
  <2>5. FailureTold(q)
    BY <1>2, <2>1, <2>2, <2>4 DEF FailureTold, Serving
  <2> QED BY <1>3, <2>2, <2>3, <2>4, <2>5
<1>6. CASE TextStarts(r)
  <2> DEFINE q == [p EXCEPT !.work = "text", !.upstream = "streaming"]
  <2>1. Update(r, q) /\ p.work = "fetch"
    BY <1>6 DEF TextStarts
  <2> HIDE DEF p
  <2>2. q \in Requests /\ q.settled = p.settled /\ FailureTold(q)
    BY <1>2, <2>1 DEF Requests, FailureTold, Serving
  <2> HIDE DEF q
  <2> QED BY <1>3, <2>1, <2>2
<1>7. CASE TextEnds(r)
  <2> DEFINE s == Send(p, "whole")
  <2>1. p.response = "none" /\ p.work = "text"
    BY <1>2, <1>7 DEF TextEnds, InService
  <2>2. /\ s \in Requests /\ s.handler = p.handler /\ s.settled = p.settled
        /\ s.response = "whole" /\ (s.left <=> p.left) /\ (s.twice <=> p.twice)
    BY <1>2, <2>1, SendShape, SendBlames
  <2>3. Update(r, Complete(s))
    BY <1>7 DEF TextEnds
  <2>4. p.handler = "running" => ~p.aborted
    BY <1>2, <2>1 DEF FailureTold
  <2> HIDE DEF s
  <2> QED BY <1>2, <1>4, <2>2, <2>3, <2>4 DEF InService
<1>8. CASE UpstreamFails(r)
  <2>1. Update(r, Unwind(p)) /\ p.work \in {"fetch", "read", "text"}
    BY <1>8 DEF UpstreamFails
  <2>2. Unwind(p) \in Requests
    BY <1>2, UnwindKeeps
  <2>3. req'[r] = Unwind(p) /\ \A x \in Request \ {r} : Blamed(x)
    BY <1>2, <2>1, <2>2, OthersBlamed
  <2>4. p.handler = "running" => p.failure = "none" /\ ~p.aborted
    BY <1>2, <2>1 DEF FailureTold
  <2>5. Blamed(r)
    BY <1>2, <2>3, <2>4, UnwindBlamed
  <2> QED BY <2>3, <2>5
<1>9. CASE ChunkSent(r)
  <2> DEFINE q == [p EXCEPT !.ready = TRUE, !.chunks = @ + 1]
  <2>1. p.chunks + 1 \in 0 .. MaxChunks
    BY <1>2, <1>9, RequestAssumption DEF ChunkSent, Requests
  <2>2. req' = [req EXCEPT ![r] = q]
    BY <1>9 DEF ChunkSent
  <2> HIDE DEF p
  <2>3. q \in Requests /\ q.settled = p.settled /\ FailureTold(q)
    BY <1>2, <2>1 DEF Requests, FailureTold, Serving
  <2> HIDE DEF q
  <2> QED BY <1>3, <2>2, <2>3
<1>10. CASE ChunkRead(r)
  <2>1. PICK work \in {"read", "stall"} :
          Update(r, [p EXCEPT !.ready = FALSE, !.work = work])
    BY <1>10 DEF ChunkRead
  <2>2. p.work = "read"
    BY <1>10 DEF ChunkRead
  <2> DEFINE q == [p EXCEPT !.ready = FALSE, !.work = work]
  <2> HIDE DEF p
  <2>3. q \in Requests /\ q.settled = p.settled /\ FailureTold(q)
    BY <1>2, <2>2 DEF Requests, FailureTold, Serving
  <2>4. Update(r, q)
    BY <2>1
  <2> HIDE DEF q
  <2> QED BY <1>3, <2>3, <2>4
<1>11. CASE StreamEnds(r)
  <2> DEFINE s == [p EXCEPT !.response = "whole"]
  <2>1. Update(r, Complete(s)) /\ p.work = "read"
    BY <1>11 DEF StreamEnds
  <2>2. p.handler = "running" => ~p.aborted
    BY <1>2, <2>1 DEF FailureTold
  <2> HIDE DEF p
  <2>3. /\ s \in Requests /\ s.handler = p.handler /\ s.response = "whole"
        /\ s.settled = p.settled /\ (s.left <=> p.left) /\ (s.twice <=> p.twice)
    BY <1>2 DEF Requests
  <2> HIDE DEF s
  <2> QED BY <1>2, <1>4, <2>1, <2>2, <2>3 DEF InService
<1> QED BY <1>5, <1>6, <1>7, <1>8, <1>9, <1>10, <1>11 DEF Upstream

(* What the signal of an abort does to a request that is served.           *)
LEMMA AbortedShape ==
  ASSUME NEW q \in Requests, Serving(q), InService(q)
  PROVE  LET a == [q EXCEPT !.aborted = TRUE]
         IN  /\ a \in Requests /\ Serving(a) /\ InService(a)
             /\ a.aborted /\ a.handler = q.handler /\ a.work = q.work
             /\ a.settled = q.settled /\ a.failure = q.failure
             /\ (a.left <=> q.left) /\ (a.gone <=> q.gone)
             /\ Unwind(a) \in Requests /\ Unwind(a).handler = "done"
<1> DEFINE a == [q EXCEPT !.aborted = TRUE]
<1>1. /\ a \in Requests /\ a.aborted /\ a.handler = q.handler /\ a.work = q.work
      /\ a.settled = q.settled /\ a.failure = q.failure
      /\ (a.left <=> q.left) /\ (a.gone <=> q.gone) /\ a.response = q.response
      /\ (a.listening <=> q.listening) /\ (a.flushed <=> q.flushed)
      /\ (a.twice <=> q.twice)
  BY DEF Requests
<1> HIDE DEF a
<1>2. Serving(a) /\ InService(a)
  BY <1>1 DEF Serving, InService, Active
<1>3. Unwind(a) \in Requests /\ Unwind(a).handler = "done"
  BY <1>1, <1>2, UnwindKeeps
<1> QED BY <1>1, <1>2, <1>3 DEF a

LEMMA TimersBlame ==
  ASSUME BlameInv, ~Hooks, NEW r \in Request, Timers(r)
  PROVE  \A x \in Request : Blamed(x)
<1> DEFINE p == req[r]
<1>1. p \in Requests /\ Good(p) /\ FailureTold(p)
  BY DEF BlameInv, IInv, TypeOK
<1>2. Active(p) =>
        /\ Serving(p) /\ InService(p) /\ ~p.gone /\ ~p.left /\ p.handler # "queued"
  BY ServedBlame
<1>3. ASSUME NEW f \in Failures, Active(p)
      PROVE  LET q == [p EXCEPT !.failure = f]
             IN  /\ q \in Requests /\ Serving(q) /\ InService(q)
                 /\ q.handler = p.handler /\ q.work = p.work
                 /\ q.settled = p.settled /\ q.failure = f
                 /\ ~q.gone /\ ~q.left /\ (q.aborted <=> p.aborted)
  BY <1>1, <1>2, <1>3 DEF Requests, Serving, InService, Active
<1>4. ASSUME NEW q \in Requests, Serving(q), InService(q), ~q.left,
             q.settled = p.settled, Active(p),
             Update(r, Unwind([q EXCEPT !.aborted = TRUE])),
             q.handler = "running" =>
               \/ q.failure = "idle_timeout"
               \/ q.failure = "response_timeout" /\ p.work = "fetch"
      PROVE  \A x \in Request : Blamed(x)
  <2> DEFINE a == [q EXCEPT !.aborted = TRUE]
  <2>1. /\ a \in Requests /\ Serving(a) /\ InService(a)
        /\ a.handler = q.handler /\ a.settled = q.settled /\ a.failure = q.failure
        /\ ~a.left /\ Unwind(a) \in Requests
    BY <1>4, AbortedShape
  <2>2. Update(r, Unwind(a))
    BY <1>4
  <2> HIDE DEF a
  <2>3. req'[r] = Unwind(a) /\ \A x \in Request \ {r} : Blamed(x)
    BY <1>2, <1>4, <2>1, <2>2, OthersBlamed
  <2>4. Blamed(r)
    BY <1>1, <1>4, <2>1, <2>3, UnwindBlamed
  <2> QED BY <2>3, <2>4
<1>5. CASE ResponseTimeout(r)
  <2> DEFINE q == [p EXCEPT !.failure = "response_timeout"]
  <2>1. Active(p) /\ p.work = "fetch" /\ Update(r, Abort(q))
    BY <1>5 DEF ResponseTimeout, Active
  <2>2. "response_timeout" \in Failures
    BY DEF Failures
  <2>3. /\ q \in Requests /\ Serving(q) /\ InService(q) /\ q.work = p.work
        /\ q.settled = p.settled /\ q.failure = "response_timeout" /\ ~q.left
    BY <1>3, <2>1, <2>2
  <2> HIDE DEF q
  <2>4. Abort(q) = Unwind([q EXCEPT !.aborted = TRUE])
    BY <2>1, <2>3, AbortedShape DEF Abort
  <2> QED BY <1>4, <2>1, <2>3, <2>4
<1>6. CASE ForwardTimeout(r)
  <2>1. Active(p) /\ p.work = "fetch" /\ p.handler = "forwarding" /\ Update(r, Abort(p))
    BY <1>6 DEF ForwardTimeout, Active
  <2>2. Abort(p) = Unwind([p EXCEPT !.aborted = TRUE])
    BY <1>1, <1>2, <2>1, AbortedShape DEF Abort
  <2> QED BY <1>1, <1>2, <1>4, <2>1, <2>2
<1>7. CASE IdleTimeout(r)
  <2> DEFINE q == [p EXCEPT !.failure = "idle_timeout"]
             a == [q EXCEPT !.aborted = TRUE]
  <2>1. Active(p) /\ p.work \in {"read", "stall"} /\ Update(r, Abort(q))
    BY <1>7 DEF IdleTimeout, Active
  <2>2. "idle_timeout" \in Failures
    BY DEF Failures
  <2>3. /\ q \in Requests /\ Serving(q) /\ InService(q) /\ q.work = p.work
        /\ q.settled = p.settled /\ q.failure = "idle_timeout" /\ ~q.left
    BY <1>3, <2>1, <2>2
  <2> HIDE DEF q
  <2>4. /\ a \in Requests /\ a.aborted /\ a.work = q.work /\ a.settled = q.settled
        /\ a.failure = q.failure /\ ~a.left
    BY <2>3, AbortedShape
  <2>5. Abort(q) = IF q.work = "stall" THEN a ELSE Unwind(a)
    BY <2>1, <2>3, <2>4 DEF Abort
  <2>6. CASE q.work = "stall"
    <3> HIDE DEF a
    <3>1. req'[r] = a /\ \A x \in Request \ {r} : Blamed(x)
      BY <1>2, <2>1, <2>4, <2>5, <2>6, OthersBlamed
    <3>2. FailureTold(a)
      BY <2>3, <2>4, <2>6 DEF FailureTold
    <3> QED BY <1>1, <2>3, <2>4, <3>1, <3>2, GoesOnBlamed
  <2>7. CASE q.work # "stall"
    BY <1>4, <2>1, <2>3, <2>5, <2>7
  <2> QED BY <2>6, <2>7
<1>8. CASE StallTimeout(r)
  <2> DEFINE q == IF p.handler = "forwarding" THEN p
                  ELSE [p EXCEPT !.failure = "client_stall"]
  <2>1. Active(p) /\ p.work = "stall" /\ Update(r, Close(q))
    BY <1>8 DEF StallTimeout, Active
  <2>2. "client_stall" \in Failures
    BY DEF Failures
  <2>3. /\ q \in Requests /\ Serving(q) /\ InService(q) /\ q.settled = p.settled
        /\ ~q.gone /\ ~q.left /\ q.handler = p.handler
        /\ q.handler = "running" => q.failure = "client_stall"
    BY <1>1, <1>2, <1>3, <2>1, <2>2
  <2> HIDE DEF q
  <2>4. Good(q) /\ q.handler # "queued" /\ ~Early(q)
    BY <2>3 DEF Good, Early, Serving, Present
  <2>5. Close(q) \in Requests
    BY <2>3, <2>4, CloseKeeps
  <2>6. req'[r] = Close(q) /\ \A x \in Request \ {r} : Blamed(x)
    BY <1>2, <2>1, <2>5, OthersBlamed
  <2>7. Blamed(r)
    BY <1>1, <2>1, <2>3, <2>4, <2>6, CloseBlamed
  <2> QED BY <2>6, <2>7
<1>9. CASE BorrowDeadline(r)
  <2> DEFINE kind == "borrowed_admission_deadline"
             q == [p EXCEPT !.slot = FALSE, !.failure = kind]
             s == Settle(q, kind)
             a == [s EXCEPT !.aborted = TRUE]
             x == IF s.work = "stall" THEN Unwind(a) ELSE Abort(s)
  <2>1. Update(r, x) /\ r \in Borrower /\ p.slot
    BY <1>9 DEF BorrowDeadline
  <2>2. /\ p.handler \in {"running", "forwarding", "done"}
        /\ kind \in Failures \cap Settlements
    BY <1>1, <2>1 DEF Good, Early, Untouched, Requests, Failures, Settlements
  <2>3. /\ q \in Requests /\ q.handler = p.handler /\ q.work = p.work
        /\ q.response = p.response /\ q.settled = p.settled
        /\ (q.twice <=> p.twice) /\ (q.left <=> p.left) /\ (q.gone <=> p.gone)
        /\ (q.listening <=> p.listening) /\ (q.flushed <=> p.flushed)
    BY <1>1, <2>2, ZenonT(30) DEF Requests
  <2>4. CASE p.handler = "running"
    <3>1. InService(p)
      BY <1>1, <2>4 DEF Good, Serving
    <3>2. /\ s \in Requests /\ s.handler = "done" /\ s.work = q.work
          /\ s.settled = Append(q.settled, kind)
          /\ (s.left <=> q.left) /\ (q.gone => s.gone)
      <4> HIDE DEF q
      <4> QED BY <2>2, <2>3, <2>4, <3>1, SettleKeeps, SettleBlames DEF InService
    <3>3. x = Unwind(a)
      <4> HIDE DEF q, s
      <4> QED BY <2>3, <3>1, <3>2 DEF Abort, InService, Active, Requests
    <3> HIDE DEF q, s, x
    <3> DEFINE u == [a EXCEPT !.work = "done", !.slot = FALSE,
                              !.upstream = "lost", !.ready = FALSE]
    <3>4. Unwind(a) = u
      BY <3>2 DEF Unwind, Settle, Requests
    <3>5. /\ u \in Requests /\ u.handler = "done" /\ u.settled = s.settled
          /\ (u.gone <=> s.gone) /\ (u.left <=> s.left)
      BY <3>2 DEF Requests
    <3> HIDE DEF u, p
    <3>6. req'[r] = u /\ \A y \in Request \ {r} : Blamed(y)
      BY <2>1, <2>4, <3>3, <3>4, <3>5, OthersBlamed DEF p
    <3>7. FailureTold(u)
      BY <1>1, <2>3, <3>2, <3>5 DEF FailureTold
    <3>8. \A k : Settles(r, k) => k = kind
      BY <1>1, <2>2, <2>3, <3>2, <3>5, <3>6, OneSettled DEF p
    <3>9. BlameOf(r)
      BY <2>1, <3>8 DEF BlameOf, p
    <3> QED BY <3>6, <3>7, <3>9 DEF Blamed
  <2>5. CASE p.handler = "forwarding"
    <3>1. InService(p) /\ Active(p)
      BY <1>1, <2>5 DEF Good, Serving, InService
    <3>2. s = q
      BY <2>3, <2>5 DEF Settle
    <3>3. Serving(q) /\ InService(q)
      <4> HIDE DEF q
      <4> QED BY <2>3, <2>5, <3>1 DEF Serving, InService, Active
    <3>4. x = Unwind([q EXCEPT !.aborted = TRUE])
      <4> HIDE DEF q, s
      <4> QED BY <2>3, <3>2, <3>3 DEF Abort, InService, Active, Requests
    <3> HIDE DEF q, x
    <3> QED BY <1>2, <1>4, <2>1, <2>3, <2>5, <3>1, <3>3, <3>4
  <2>6. CASE p.handler = "done"
    <3>1. s = q
      BY <2>3, <2>6 DEF Settle
    <3>2. ~Active(p)
      BY <1>1, <2>6 DEF Good, Over
    <3>3. x = [q EXCEPT !.aborted = TRUE]
      BY <2>3, <3>1, <3>2 DEF Abort, Active
    <3> HIDE DEF q, s, x
    <3>4. /\ x \in Requests /\ x.settled = q.settled /\ x.handler = q.handler
          /\ (x.left <=> q.left) /\ (x.gone <=> q.gone)
      BY <2>3, <3>3 DEF Requests
    <3>5. req'[r] = x /\ \A y \in Request \ {r} : Blamed(y)
      BY <2>1, <2>6, <3>4, OthersBlamed
    <3>6. FailureTold(x)
      BY <1>1, <2>3, <2>6, <3>4 DEF FailureTold
    <3> QED BY <1>1, <2>3, <3>4, <3>5, <3>6, GoesOnBlamed
  <2> QED BY <2>2, <2>4, <2>5, <2>6
<1> QED BY <1>5, <1>6, <1>7, <1>8, <1>9 DEF Timers

LEMMA ClientBlames ==
  ASSUME BlameInv, ~Hooks, NEW r \in Request, Client(r)
  PROVE  \A x \in Request : Blamed(x)
<1> DEFINE p == req[r]
<1>1. p \in Requests /\ Good(p) /\ FailureTold(p)
  BY DEF BlameInv, IInv, TypeOK
<1>2. CASE ClientDrains(r)
  <2> DEFINE q == [p EXCEPT !.work = "read"]
             x == IF q.aborted THEN Unwind(q) ELSE q
  <2>1. Update(r, x) /\ p.work = "stall" /\ Active(p)
    BY <1>2 DEF ClientDrains, Active
  <2>2. /\ Serving(p) /\ InService(p) /\ ~p.gone /\ ~p.left /\ p.handler # "queued"
    BY <2>1, ServedBlame
  <2>3. /\ q \in Requests /\ q.handler = p.handler /\ q.settled = p.settled
        /\ q.failure = p.failure /\ q.work = "read" /\ q.response = p.response
        /\ (q.aborted <=> p.aborted) /\ (q.left <=> p.left) /\ (q.gone <=> p.gone)
        /\ (q.listening <=> p.listening) /\ (q.flushed <=> p.flushed)
        /\ (q.twice <=> p.twice)
    BY <1>1 DEF Requests
  <2> HIDE DEF q, p
  <2>4. Serving(q) /\ InService(q)
    BY <2>1, <2>2, <2>3 DEF Serving, InService, Active
  <2>5. CASE q.aborted
    <3>1. Unwind(q) \in Requests
      BY <2>3, <2>4, UnwindKeeps
    <3>2. req'[r] = Unwind(q) /\ \A y \in Request \ {r} : Blamed(y)
      BY <2>1, <2>2, <2>5, <3>1, OthersBlamed DEF p
    <3>3. q.handler = "running" => q.failure = "idle_timeout"
      BY <1>1, <2>3, <2>5 DEF FailureTold
    <3>4. Blamed(r)
      BY <1>1, <2>2, <2>3, <2>4, <3>2, <3>3, UnwindBlamed DEF p
    <3> QED BY <3>2, <3>4
  <2>6. CASE ~q.aborted
    <3>1. req'[r] = q /\ \A y \in Request \ {r} : Blamed(y)
      BY <2>1, <2>2, <2>3, <2>6, OthersBlamed DEF p
    <3>2. FailureTold(q)
      BY <1>1, <2>2, <2>3, <2>6 DEF FailureTold
    <3> QED BY <1>1, <2>3, <3>1, <3>2, GoesOnBlamed DEF p
  <2> QED BY <2>5, <2>6
<1>3. CASE ClientLeaves(r)
  <2> DEFINE q == [p EXCEPT !.left = TRUE]
             c == CloseEvent(q)
  <2>1. /\ q \in Requests /\ q.handler = p.handler /\ q.work = p.work
        /\ q.response = p.response /\ q.settled = p.settled
        /\ q.upstream = p.upstream /\ (q.listening <=> p.listening)
        /\ (q.flushed <=> p.flushed) /\ (q.twice <=> p.twice)
        /\ (q.gone <=> p.gone) /\ (q.slot <=> p.slot)
        /\ q.left /\ (q.aborted <=> p.aborted) /\ q.failure = p.failure
    BY <1>1, ZenonT(30) DEF Requests
  <2>2. IF p.handler = "queued" /\ c.aborted
        THEN req' = [req EXCEPT ![r] = Rejected(c)]
        ELSE Update(r, Close(q))
    BY <1>3 DEF ClientLeaves
  <2> HIDE DEF q, p
  <2>3. Good(q)
    BY <1>1, <2>1
       DEF Good, Early, Serving, Untouched, InService, Present, Over, Active, Ended
  <2>4. CASE p.handler = "queued"
    <3>1. Untouched(q) /\ q.listening
      BY <2>1, <2>3, <2>4 DEF Good
    <3>2. /\ c \in Requests /\ Untouched(c) /\ c.aborted /\ c.gone
          /\ c.settled = q.settled
      BY <2>1, <3>1, CloseEventShape DEF Untouched, Ended
    <3> HIDE DEF c
    <3>3. Rejected(c) \in Requests
      BY <3>2, RejectedKeeps
    <3>4. req'[r] = Rejected(c) /\ \A y \in Request \ {r} : Blamed(y)
      BY <2>2, <2>4, <3>2, <3>3, OthersBlamed
    <3>5. Blamed(r)
      BY <1>1, <2>1, <3>2, <3>4, RejectedBlamed DEF Untouched, p
    <3> QED BY <3>4, <3>5
  <2>5. CASE p.handler # "queued"
    <3>1. Close(q) \in Requests
      BY <2>1, <2>3, <2>5, CloseKeeps
    <3>2. req'[r] = Close(q) /\ \A y \in Request \ {r} : Blamed(y)
      BY <2>2, <2>5, <3>1, OthersBlamed DEF p
    <3>3. q.handler = "running" => q.failure \in {"none", "idle_timeout"}
      BY <1>1, <2>1 DEF FailureTold
    <3>4. Early(q) => q.failure = "none" /\ ~q.aborted
      BY <1>1, <2>1, <2>3 DEF FailureTold, Good, Early, Untouched
    <3>5. Blamed(r)
      BY <1>1, <2>1, <2>3, <2>5, <3>2, <3>3, <3>4, CloseBlamed DEF p
    <3> QED BY <3>2, <3>5
  <2> QED BY <2>4, <2>5
<1>4. CASE ClientFinishes(r)
  <2> DEFINE q == [p EXCEPT !.flushed = TRUE]
  <2>1. /\ q \in Requests /\ q.settled = p.settled /\ FailureTold(q)
    BY <1>1 DEF Requests, FailureTold
  <2>2. req' = [req EXCEPT ![r] = q]
    BY <1>4 DEF ClientFinishes
  <2> HIDE DEF q
  <2> QED BY <1>1, <2>1, <2>2, OthersBlamed, GoesOnBlamed
<1> QED BY <1>2, <1>3, <1>4 DEF Client

LEMMA ServerBlames ==
  ASSUME BlameInv, Server
  PROVE  \A r \in Request : Blamed(r)
<1> SUFFICES ASSUME NEW r \in Request PROVE Blamed(r)
  OBVIOUS
<1> DEFINE p == req[r]
<1>1. p \in Requests /\ Good(p) /\ FailureTold(p)
  BY DEF BlameInv, IInv, TypeOK
<1>2. req'[r] = p => Blamed(r)
  BY <1>1, GoesOnBlamed
<1>3. CASE Shutdown
  <2>1. req'[r] = IF p.handler = "queued" THEN Rejected(p) ELSE p
    BY <1>3 DEF Shutdown
  <2>2. p.handler = "queued" => p.response = "none"
    BY <1>1 DEF Good, Untouched
  <2>3. p.left => p.gone
    BY <1>1 DEF FailureTold
  <2> QED BY <1>1, <1>2, <2>1, <2>2, <2>3, RejectedBlamed
<1>4. CASE DrainEnds
  BY <1>2, <1>4 DEF DrainEnds
<1>5. CASE DrainTimeout
  <2>1. req'[r] = (IF Connected(p) THEN Close(p) ELSE p) /\ phase' = "closing"
    BY <1>5 DEF DrainTimeout
  <2>2. p.handler # "queued"
    <3>1. queue = <<>>
      BY <1>5 DEF DrainTimeout, BlameInv, IInv
    <3>2. ~Contains(queue, r)
      BY <3>1 DEF Contains
    <3> QED BY <3>2 DEF BlameInv, IInv, TypeOK
  <2>3. p.handler = "running" => p.failure \in {"none", "idle_timeout"}
    BY <1>1 DEF FailureTold
  <2>4. Early(p) => p.failure = "none" /\ ~p.aborted
    BY <1>1 DEF FailureTold, Good, Early, Untouched
  <2>5. Connected(p) => Blamed(r)
    BY <1>1, <2>1, <2>2, <2>3, <2>4, CloseBlamed
  <2> QED BY <1>2, <2>1, <2>5
<1>6. CASE ServerCloses
  BY <1>2, <1>6 DEF ServerCloses
<1> QED BY <1>3, <1>4, <1>5, <1>6 DEF Server

(* A failed request is blamed on the party that failed it: whichever of    *)
(* its timers, its client, its upstream and the deadline of its slot comes *)
(* first, and whatever they then overwrite, the audit names the one that   *)
(* ended it.  (When no hook is awaited: a client that hung up unnoticed is *)
(* not blamed.)                                                            *)
THEOREM BlameIsFair ==
  ASSUME ~Hooks PROVE Spec => BlameFits
<1>1. Init => BlameInv
  <2>1. Init => \A r \in Request : FailureTold(req[r])
    BY DEF Init, Fresh, FailureTold
  <2> QED BY <2>1, InitHolds DEF BlameInv
<1>2. BlameInv /\ [Next]_vars => \A r \in Request : Blamed(r)
  <2> SUFFICES ASSUME BlameInv, [Next]_vars
               PROVE  \A r \in Request : Blamed(r)
    OBVIOUS
  <2>1. CASE UNCHANGED vars
    <3> SUFFICES ASSUME NEW r \in Request PROVE Blamed(r)
      OBVIOUS
    <3>1. req'[r] = req[r] /\ req[r] \in Requests /\ FailureTold(req[r])
      BY <2>1 DEF vars, BlameInv, IInv, TypeOK
    <3> QED BY <3>1, GoesOnBlamed
  <2>2. CASE Next
    BY <2>2, HandlingBlames, UpstreamBlames, TimersBlame, ClientBlames, ServerBlames
       DEF Next
  <2> QED BY <2>1, <2>2
<1>3. BlameInv /\ [Next]_vars => BlameInv'
  BY <1>2, NextKeeps DEF BlameInv, Blamed
<1>4. (\A r \in Request : Blamed(r)) =>
        [\A r \in Request :
           /\ Settles(r, "completed") => req'[r].response = "whole" /\ ~req[r].aborted
           /\ Settles(r, "response_timeout") => req[r].work = "fetch"
           /\ Settles(r, "client_stall") => req[r].work = "stall" /\ ~req'[r].left
           /\ Settles(r, "client_disconnect") => req'[r].left \/ phase' # "open"
           /\ Settles(r, "upstream_error") => ~req[r].aborted /\ ~req'[r].left
           /\ Settles(r, "borrowed_admission_deadline") =>
                req[r].slot /\ r \in Borrower]_vars
  BY DEF Blamed, BlameOf
<1> QED BY <1>1, <1>2, <1>3, <1>4, PTL DEF Spec, BlameFits

=============================================================================
