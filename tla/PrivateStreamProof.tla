------------------------- MODULE PrivateStreamProof -------------------------
(***************************************************************************)
(* Proofs about the sessions and the private stream over them, for every   *)
(* set of sessions and requests and every ping interval.  WsSession: every *)
(* field keeps its type, and no session outlives a pong age of three missed*)
(* pings plus one interval; no request is lost on an open connection.      *)
(* WsSessionBlind: whoever sees a session healthy knows that it has not    *)
(* been deaf for longer than the staleness threshold.                      *)
(* PrivateStream, with one caller: every variable keeps its type, and only *)
(* the current session can still open.  With two callers neither holds:    *)
(* both may find no session, and both may close the same one.              *)
(***************************************************************************)
EXTENDS PrivateStream, WsSessionBlind, SequenceTheorems, WellFoundedInduction, TLAPS

----------------------------------------------------------------------------
(* One session *)

ZombieAge == StaleAfter + PingInterval

\* What one session always satisfies.  The age of a session that is waiting for
\* its timer cannot pass ZombieAge before the timer expires; a session without a
\* timer wait is not connected yet or has a closed stream, so a handler is due
\* and no time passes.  While a stream is open, a close waits for the write under way.
SessionInv(x) ==
    /\ x.ws = "init" => x.age = 0 /\ x.timer = "off"
    /\ x.chain \in Establishing \cup {"none"} => x.ws = "init" /\ x.closes = 0
    /\ x.chain \in Establishing => x.pending # << >>
    /\ x.chain = "write" => x.frame \in Frames
    /\ x.chain \notin {"write", "ended"} => x.frame = "none"
    /\ x.chain \in {"write", "read"} => x.ws # "init"
    /\ x.ws = "open" => x.chain = "write" \/ (x.chain = "read" /\ x.closes = 0)
    /\ x.chain \in {"write", "read"} /\ x.timer \in {"off", "cancelled"}
          => x.ws = "closed"
    /\ x.left <= PingInterval
    /\ x.timer = "armed" => x.age + x.left <= ZombieAge
    /\ Live(x) => x.age <= ZombieAge
    /\ Destroyed(x) => x.ws = "init"

IndInv == TypeOK /\ \A s \in Sessions : SessionInv(sess[s])

USE PingAssumption, TimeoutAssumption, RequestsAssumption

\* The age bounds are natural numbers.
LEMMA Bounds == /\ StaleAfter \in Nat /\ ZombieAge \in Nat /\ AgeCap \in Nat
                /\ StaleAfter + PingInterval = ZombieAge
                /\ ZombieAge < AgeCap
  BY DEF StaleAfter, ZombieAge, AgeCap

\* A step that changes one session, to a value that satisfies the invariant.
LEMMA BecomesInv ==
    ASSUME IndInv, NEW s \in Sessions, NEW y \in Session, SessionInv(y),
           Becomes(s, y)
    PROVE  IndInv'
  BY DEF IndInv, TypeOK, Becomes, SessionInv, Live, Destroyed

\* A fresh session.
LEMMA UnbornInv == Unborn \in Session /\ SessionInv(Unborn)
  BY Bounds DEF Unborn, Session, SessionInv, Live, Destroyed, Chains,
     Establishing, Frames

\* The destructor runs on a session nothing refers to any more.
LEMMA ReleasedInv ==
    ASSUME NEW x \in Session,
           x.ws = "init" => x.age = 0 /\ x.timer = "off",
           ~Destroyed(x) => SessionInv(x)
    PROVE  Released(x) \in Session /\ SessionInv(Released(x))
<1>1. CASE ~Destroyed(x)
  BY <1>1 DEF Released
<1>2. CASE Destroyed(x)
  <2> DEFINE y == [Unborn EXCEPT !.chain = "ended", !.closes = x.closes,
                                 !.dropped = x.dropped]
  <2>1. Released(x) = y
    BY <1>2 DEF Released
  <2>2. x.closes \in Nat /\ x.dropped \in BOOLEAN
    BY AppendProperties DEF Session
  <2>3. y \in Session
    BY <2>2, UnbornInv DEF Session, Chains
  <2>4. SessionInv(y)
    BY UnbornInv, Bounds DEF Unborn, Session, SessionInv, Live, Destroyed, Establishing
  <2> QED BY <2>1, <2>3, <2>4
<1> QED BY <1>1, <1>2

\* Queueing a request keeps a session in order, and leaves it something to write.
LEMMA WriteRequestInv ==
    ASSUME NEW x \in Session, SessionInv(x), NEW r \in Requests
    PROVE  /\ WriteSubscriptionRequest(x, r) \in Session
           /\ SessionInv(WriteSubscriptionRequest(x, r))
<1> DEFINE y == [x EXCEPT !.pending = Append(@, r)]
<1>1. CASE r \in ToSet(x.subs) \cup ToSet(x.pending)
  BY <1>1 DEF WriteSubscriptionRequest
<1>2. CASE r \notin ToSet(x.subs) \cup ToSet(x.pending)
  <2>1. WriteSubscriptionRequest(x, r) = y
    BY <1>2 DEF WriteSubscriptionRequest
  <2>2. Append(x.pending, r) \in Seq(Requests) /\ Append(x.pending, r) # << >>
    BY AppendProperties DEF Session
  <2>3. y \in Session
    BY <2>2 DEF Session
  <2>4. SessionInv(y)
    BY <2>2 DEF Session, SessionInv, Live, Destroyed
  <2> QED BY <2>1, <2>3, <2>4
<1> QED BY <1>1, <1>2

\* Writing the oldest pending request leaves a session in order.
LEMMA WriteNextInv ==
    ASSUME NEW x \in Session, SessionInv(x), x.pending # << >>,
           x.chain \notin {"none", "ended"}, x.ws # "init"
    PROVE  WriteNext(x) \in Session /\ SessionInv(WriteNext(x))
<1>1. Head(x.pending) \in Requests /\ Tail(x.pending) \in Seq(Requests)
  BY HeadTailProperties DEF Session
<1>2. WriteNext(x) \in Session
  BY <1>1 DEF WriteNext, Session, Chains, Frames
<1>3. SessionInv(WriteNext(x))
  BY <1>1 DEF WriteNext, Session, Chains, Frames, SessionInv, Live, Destroyed, Establishing
<1> QED BY <1>2, <1>3

\* What starting a close leaves as it was, and what it does to the stream.
LEMMA StartCloseKeeps ==
    ASSUME NEW x \in Session
    PROVE  LET y == StartClose(x)
           IN  /\ y \in Session
               /\ y.private = x.private /\ y.chain = x.chain /\ y.timer = x.timer
               /\ y.closes \in {x.closes, x.closes + 1}
               /\ x.closes < CloseSlots(x) =>
                     y.closes = x.closes + 1 /\ y.dropped = x.dropped
               /\ y.left = x.left /\ y.age = x.age
               /\ y.pending = x.pending /\ y.frame = x.frame
               /\ y.owed = x.owed /\ y.subs = x.subs
               /\ y.ws = x.ws \/ (x.ws = "open" /\ y.ws = "closing")
               /\ x.ws = "open" /\ x.chain = "read" /\ x.closes = 0 => y.ws = "closing"
<1> DEFINE more == [x EXCEPT !.closes = @ + 1]
           first == [more EXCEPT !.ws = "closing", !.expiry = IoTimeout]
           none == [x EXCEPT !.dropped = TRUE]
<1>1. x.closes \in Nat /\ x.closes + 1 \in Nat /\ CloseSlots(x) \in Nat
  BY DEF Session, CloseSlots
<1>2. more \in Session /\ none \in Session
  BY <1>1 DEF Session
<1>3. first \in Session
  BY <1>2 DEF Session
<1>4. CASE x.closes >= CloseSlots(x)
  <2>1. StartClose(x) = none
    BY <1>4 DEF StartClose
  <2>2. ~(x.closes < CloseSlots(x)) /\ ~(x.chain = "read" /\ x.closes = 0)
    BY <1>1, <1>4 DEF CloseSlots
  <2>3. /\ none.private = x.private /\ none.chain = x.chain /\ none.timer = x.timer
        /\ none.left = x.left /\ none.age = x.age /\ none.closes = x.closes
        /\ none.pending = x.pending /\ none.frame = x.frame
        /\ none.owed = x.owed /\ none.subs = x.subs /\ none.ws = x.ws
    BY DEF Session
  <2> HIDE DEF none
  <2> QED BY <1>2, <2>1, <2>2, <2>3
<1>5. CASE ~(x.closes >= CloseSlots(x)) /\ x.ws = "open" /\ x.chain # "write"
  <2>1. StartClose(x) = first
    BY <1>5 DEF StartClose, Closing
  <2> QED BY <1>1, <1>3, <1>5, <2>1 DEF Session
<1>6. CASE ~(x.closes >= CloseSlots(x)) /\ ~(x.ws = "open" /\ x.chain # "write")
  <2>1. StartClose(x) = more
    BY <1>6 DEF StartClose
  <2> QED BY <1>1, <1>2, <1>6, <2>1 DEF Session
<1> QED BY <1>4, <1>5, <1>6

\* Starting a close of a connected session.
LEMMA StartCloseInv ==
    ASSUME NEW x \in Session, SessionInv(x), x.ws # "init"
    PROVE  StartClose(x) \in Session /\ SessionInv(StartClose(x))
<1> DEFINE y == StartClose(x)
<1>1. /\ y \in Session /\ y.chain = x.chain /\ y.timer = x.timer
      /\ y.left = x.left /\ y.age = x.age
      /\ y.pending = x.pending /\ y.frame = x.frame
      /\ y.ws = x.ws \/ (x.ws = "open" /\ y.ws = "closing")
      /\ x.ws = "open" /\ x.chain = "read" /\ x.closes = 0 => y.ws = "closing"
  BY StartCloseKeeps
<1> HIDE DEF y
<1>2. SessionInv(y)
  BY <1>1 DEF SessionInv, Live, Destroyed, Establishing
<1> QED BY <1>1, <1>2 DEF y

\* The tail of onRead.
LEMMA AfterReadInv ==
    ASSUME NEW x \in Session, SessionInv(x), x.chain = "read"
    PROVE  AfterRead(x) \in Session /\ SessionInv(AfterRead(x))
<1>1. x.ws # "init"
  BY DEF SessionInv
<1> QED
  BY <1>1, WriteNextInv, StartCloseInv DEF AfterRead

\* std::find and erase: the first that is found goes.
LEMMA RemoveFirstAt ==
    ASSUME NEW S, NEW seq \in Seq(S), NEW e, \E i \in 1..Len(seq) : seq[i] = e
    PROVE  \E k \in 1..Len(seq) : seq[k] = e /\ RemoveFirst(seq, e) = RemoveAt(seq, k)
<1> DEFINE I == {i \in 1..Len(seq) : seq[i] = e}
<1>1. \E i \in I : \A j \in I : i <= j
  <2>1. I \subseteq Nat
    BY LenProperties
  <2>2. PICK i \in I : \A j \in I : <<j, i>> \notin OpToRel(<, Nat)
    BY <2>1, NatLessThanWellFounded, WFMin
  <2>3. \A j \in I : ~(j < i)
    BY <2>1, <2>2 DEF OpToRel
  <2> QED BY <2>1, <2>3
<1> QED BY <1>1 DEF RemoveFirst, SelectInSeq, Min

\* What is left is a sequence of the same type.
LEMMA RemoveFirstType ==
    ASSUME NEW S, NEW seq \in Seq(S), NEW e
    PROVE  RemoveFirst(seq, e) \in Seq(S)
<1>1. CASE \A i \in 1..Len(seq) : seq[i] # e
  BY <1>1 DEF RemoveFirst
<1>2. CASE \E i \in 1..Len(seq) : seq[i] = e
  <2>1. PICK k \in 1..Len(seq) : RemoveFirst(seq, e) = RemoveAt(seq, k)
    BY <1>2, RemoveFirstAt
  <2>2. SubSeq(seq, 1, k-1) \in Seq(S) /\ SubSeq(seq, k+1, Len(seq)) \in Seq(S)
    BY SubSeqProperties, ElementOfSeq, LenProperties
  <2>3. RemoveAt(seq, k) \in Seq(S)
    BY <2>2, ConcatProperties DEF RemoveAt
  <2> QED BY <2>1, <2>3
<1> QED BY <1>1, <1>2

----------------------------------------------------------------------------
(* One lemma per operation of a session *)

\* Ending the i/o chain, with whatever that does to the stream and the timer.
LEMMA EndedInv ==
    ASSUME NEW x \in Session, SessionInv(x), x.chain # "none", ~Destroyed(x),
           NEW w \in {"init", "closing", "closed"},
           w = "init" => x.ws = "init",
           NEW t \in {"off", "armed", "fired", "cancelled"},
           t = x.timer \/ (x.timer = "armed" /\ t = "cancelled")
    PROVE  LET y == [x EXCEPT !.chain = "ended", !.ws = w, !.timer = t]
           IN  Released(y) \in Session /\ SessionInv(Released(y))
<1> DEFINE y == [x EXCEPT !.chain = "ended", !.ws = w, !.timer = t]
<1>1. y \in Session
  BY AppendProperties DEF Session, Chains
<1>2. y.ws = "init" => y.age = 0 /\ y.timer = "off"
  BY DEF Session, SessionInv
<1>3. ASSUME ~Destroyed(y) PROVE SessionInv(y)
  BY <1>3 DEF Session, SessionInv, Live, Destroyed, Establishing
<1> QED BY <1>1, <1>2, <1>3, ReleasedInv

\* A new session starts with one request to write.
LEMMA RunStep ==
    ASSUME IndInv, NEW s \in Sessions, NEW r \in Requests,
           NEW private \in BOOLEAN, Run(s, r, private)
    PROVE  IndInv'
<1> DEFINE u == Started(private)
           y == [u EXCEPT !.pending = Append(@, r)]
<1>1. y = WriteSubscriptionRequest(u, r)
  <2>1. ToSet(u.subs) \cup ToSet(u.pending) = {}
    BY DEF Started, Unborn, ToSet
  <2> QED BY <2>1 DEF WriteSubscriptionRequest
<1>2. Append(u.pending, r) \in Seq(Requests) /\ Append(u.pending, r) # << >>
  BY AppendProperties DEF Started, Unborn
<1>3. u \in Session
  BY UnbornInv DEF Started, Session, Chains, Establishing
<1>4. y \in Session
  BY <1>2, <1>3 DEF Session
<1>5. SessionInv(y)
  BY <1>2, Bounds DEF Started, Unborn, SessionInv, Live, Destroyed, Establishing
<1> QED BY <1>1, <1>4, <1>5, BecomesInv DEF Run

\* A request handed to a running session is queued.
LEMMA SubscribeStep ==
    ASSUME IndInv, NEW s \in Sessions, NEW r \in Requests, Subscribe(s, r)
    PROVE  IndInv'
  BY WriteRequestInv, BecomesInv DEF Subscribe, IndInv, TypeOK

\* The owner closes a stale session, which is a connected one.
LEMMA CloseStep ==
    ASSUME IndInv, NEW s \in Sessions, Close(s)
    PROVE  IndInv'
<1>1. sess[s] \in Session /\ SessionInv(sess[s])
  BY DEF IndInv, TypeOK
<1>2. sess[s].ws # "init"
  BY <1>1, Bounds DEF Close, SessionInv, IsStale
<1> QED BY <1>1, <1>2, StartCloseInv, BecomesInv DEF Close

\* Resolve, connect and TLS handshake lead to the next stage.
LEMMA OnEstablishStep ==
    ASSUME IndInv, NEW s \in Sessions, OnEstablish(s)
    PROVE  IndInv'
<1> DEFINE x == sess[s]
           y == [x EXCEPT !.chain = NextStage(@), !.expiry = IoTimeout]
<1>1. x \in Session /\ SessionInv(x)
  BY DEF IndInv, TypeOK
<1>2. NextStage(x.chain) \in Establishing
  BY DEF OnEstablish, NextStage, Establishing
<1>3. y \in Session
  BY <1>1, <1>2, AppendProperties DEF Session, Chains
<1>4. SessionInv(y)
  BY <1>1, <1>2 DEF OnEstablish, Session, SessionInv, Live, Destroyed, Establishing
<1> QED BY <1>3, <1>4, BecomesInv DEF OnEstablish

\* The handshake starts the pong clock and a wait no longer than one interval.
LEMMA OnHandshakeStep ==
    ASSUME IndInv, NEW s \in Sessions, OnHandshake(s)
    PROVE  IndInv'
<1> DEFINE x == sess[s]
           up == [x EXCEPT !.ws = "open", !.age = 0, !.expiry = 0, !.timer = "armed"]
           login == [up EXCEPT !.chain = "write", !.frame = "login"]
           first == [up EXCEPT !.chain = "write", !.frame = Head(x.pending),
                               !.pending = Tail(x.pending)]
<1>1. x \in Session /\ SessionInv(x) /\ x.chain = "handshake"
  BY DEF IndInv, TypeOK, OnHandshake
<1>2. x.pending # << >> /\ x.left <= PingInterval /\ x.left \in Nat
  BY <1>1 DEF SessionInv, Establishing, Session
<1>3. Head(x.pending) \in Requests /\ Tail(x.pending) \in Seq(Requests)
  BY <1>1, <1>2, HeadTailProperties DEF Session
<1>4. up \in Session /\ up.age = 0 /\ up.left = x.left
  <2>1. 0 \in 0..AgeCap
    BY Bounds
  <2> QED BY <1>1, <2>1, AppendProperties DEF Session
<1>5. up.age + up.left <= ZombieAge
  BY <1>2, <1>4, Bounds DEF ZombieAge
<1>6. login \in Session /\ first \in Session
  BY <1>3, <1>4, ZenonT(40) DEF Session, Chains, Frames
<1>7. first = WriteNext(up)
  BY <1>1 DEF WriteNext, Session
<1>8. SessionInv(login)
  BY <1>1, <1>2, <1>4, <1>5, Bounds
     DEF Session, SessionInv, Live, Destroyed, Establishing, Frames
<1>9. SessionInv(first)
  BY <1>1, <1>2, <1>3, <1>4, <1>5, Bounds
     DEF Session, SessionInv, Live, Destroyed, Establishing, Frames
<1> QED BY <1>6, <1>7, <1>8, <1>9, BecomesInv DEF OnHandshake

\* A written frame is owed an answer.
LEMMA OnWriteStep ==
    ASSUME IndInv, NEW s \in Sessions, OnWrite(s)
    PROVE  IndInv'
<1> DEFINE x == sess[s]
           y == [x EXCEPT !.chain = "read", !.owed = Append(@, x.frame), !.frame = "none"]
           z == [y EXCEPT !.ws = "closing", !.expiry = IoTimeout]
<1>1. x \in Session /\ SessionInv(x) /\ x.chain = "write" /\ x.frame \in Frames
      /\ x.ws = "open"
  BY DEF IndInv, TypeOK, OnWrite, SessionInv
<1>2. Append(x.owed, x.frame) \in Seq(Frames)
  BY <1>1, AppendProperties DEF Session
<1>3. y \in Session
  BY <1>1, <1>2 DEF Session, Chains
<1>4. z \in Session
  BY <1>3 DEF Session
<1>5. x.closes \in Nat
  BY <1>1 DEF Session
<1>6. ASSUME ~(x.closes > 0) PROVE SessionInv(y)
  BY <1>1, <1>5, <1>6 DEF Session, SessionInv, Live, Destroyed, Establishing
<1>7. SessionInv(z)
  BY <1>1 DEF Session, SessionInv, Live, Destroyed, Establishing
<1>8. Written(x) = y /\ Closing(y) = z /\ y.closes = x.closes
  BY <1>1 DEF Written, Closing, Session
<1> HIDE DEF y, z
<1>9. Becomes(s, IF x.closes > 0 THEN z ELSE y)
  BY <1>8 DEF OnWrite
<1>10. CASE x.closes > 0
  BY <1>4, <1>7, <1>9, <1>10, BecomesInv
<1>11. CASE ~(x.closes > 0)
  BY <1>3, <1>6, <1>9, <1>11, BecomesInv
<1> QED BY <1>10, <1>11

\* What a read leaves in order before its tail runs.
LEMMA ReadsStep ==
    ASSUME IndInv, NEW s \in Sessions, NEW x \in Session, Reads(s, x),
           SessionInv(x), x.chain = "read"
    PROVE  IndInv'
  BY AfterReadInv, BecomesInv DEF Reads

\* The answer owed first is read, whatever it is about.
LEMMA AnsweredInv ==
    ASSUME NEW x \in Session, SessionInv(x), x.owed # << >>
    PROVE  /\ Answered(x) \in Session /\ SessionInv(Answered(x))
           /\ Answered(x).chain = x.chain /\ Answered(x).closes = x.closes
           /\ Answered(x).ws = x.ws
<1>1. Tail(x.owed) \in Seq(Frames)
  BY HeadTailProperties DEF Session
<1>2. Answered(x) \in Session
  BY <1>1 DEF Answered, Session
<1>3. SessionInv(Answered(x))
  BY DEF Answered, Session, SessionInv, Live, Destroyed
<1>4. /\ Answered(x).chain = x.chain /\ Answered(x).closes = x.closes
      /\ Answered(x).ws = x.ws
  BY DEF Answered, Session
<1> QED BY <1>2, <1>3, <1>4

\* A login answer.
LEMMA OnReadLoginStep ==
    ASSUME IndInv, NEW s \in Sessions, NEW accepted \in BOOLEAN,
           OnReadLogin(s, accepted)
    PROVE  IndInv'
<1> DEFINE x == sess[s]
           z == Answered(x)
           y == [z EXCEPT !.authenticated = accepted]
<1>1. x \in Session /\ SessionInv(x) /\ x.chain = "read" /\ x.owed # << >>
  BY DEF IndInv, TypeOK, OnReadLogin, Answers, Reads, CanRead
<1>2. z \in Session /\ SessionInv(z) /\ z.chain = "read" /\ z.closes = x.closes
  BY <1>1, AnsweredInv
<1> HIDE DEF z
<1>3. y \in Session /\ y.chain = "read" /\ y.closes = x.closes
  BY <1>2 DEF Session
<1>4. SessionInv(y)
  BY <1>2 DEF Session, SessionInv, Live, Destroyed
<1>5. Reads(s, y)
  BY DEF OnReadLogin, z
<1> QED BY <1>3, <1>4, <1>5, ReadsStep

\* A subscription is acknowledged.
LEMMA OnReadSubscribeStep ==
    ASSUME IndInv, NEW s \in Sessions, NEW r \in Requests, OnReadSubscribe(s, r)
    PROVE  IndInv'
<1> DEFINE x == sess[s]
           z == Answered(x)
           y == [z EXCEPT !.subs = Append(@, r)]
<1>1. x \in Session /\ SessionInv(x) /\ x.chain = "read" /\ x.owed # << >>
  BY DEF IndInv, TypeOK, OnReadSubscribe, Answers, Reads, CanRead
<1>2. z \in Session /\ SessionInv(z) /\ z.chain = "read" /\ z.closes = x.closes
  BY <1>1, AnsweredInv
<1> HIDE DEF z
<1>3. Append(z.subs, r) \in Seq(Requests)
  BY <1>2, AppendProperties DEF Session
<1>4. y \in Session /\ y.chain = "read" /\ y.closes = x.closes
  BY <1>2, <1>3 DEF Session
<1>5. SessionInv(y)
  BY <1>2 DEF Session, SessionInv, Live, Destroyed
<1>6. Reads(s, y)
  BY DEF OnReadSubscribe, z
<1> QED BY <1>4, <1>5, <1>6, ReadsStep

\* An error event.
LEMMA OnReadErrorStep ==
    ASSUME IndInv, NEW s \in Sessions, OnReadError(s)
    PROVE  IndInv'
<1>1. sess[s] \in Session /\ SessionInv(sess[s]) /\ sess[s].chain = "read"
  BY DEF IndInv, TypeOK, OnReadError, Reads, CanRead
<1> QED BY <1>1, AnsweredInv, ReadsStep DEF OnReadError

\* A subscription is taken back.
LEMMA OnReadUnsubscribeStep ==
    ASSUME IndInv, NEW s \in Sessions, NEW r \in Requests, OnReadUnsubscribe(s, r)
    PROVE  IndInv'
<1> DEFINE x == sess[s]
           rest == RemoveFirst(x.subs, r)
           y == [x EXCEPT !.subs = rest]
<1>1. x \in Session /\ SessionInv(x) /\ x.chain = "read"
  BY DEF IndInv, TypeOK, OnReadUnsubscribe, Reads, CanRead
<1>2. x.subs \in Seq(Requests)
  BY <1>1 DEF Session
<1>3. rest \in Seq(Requests)
  BY <1>2, RemoveFirstType
<1>4. Reads(s, y)
  BY DEF OnReadUnsubscribe
<1> HIDE DEF rest
<1>5. y \in Session /\ y.chain = "read" /\ y.closes = x.closes
  BY <1>1, <1>3 DEF Session
<1>6. SessionInv(y)
  BY <1>1 DEF Session, SessionInv, Live, Destroyed
<1> QED BY <1>4, <1>5, <1>6, ReadsStep

\* Data.
LEMMA OnReadPayloadStep ==
    ASSUME IndInv, NEW s \in Sessions, OnReadPayload(s)
    PROVE  IndInv'
<1>1. sess[s] \in Session /\ SessionInv(sess[s]) /\ sess[s].chain = "read"
  BY DEF IndInv, TypeOK, OnReadPayload, Reads, CanRead
<1> QED BY <1>1, ReadsStep DEF OnReadPayload

\* A message that cannot be parsed ends the read chain.
LEMMA OnReadMalformedStep ==
    ASSUME IndInv, NEW s \in Sessions, OnReadMalformed(s)
    PROVE  IndInv'
<1> DEFINE z == StartClose(sess[s])
           y == [z EXCEPT !.chain = "ended"]
<1>1. sess[s] \in Session /\ SessionInv(sess[s]) /\ sess[s].chain = "read"
  BY DEF IndInv, TypeOK, OnReadMalformed, CanRead
<1>2. /\ sess[s].ws # "init"
      /\ sess[s].ws = "open" => sess[s].closes = 0
  BY <1>1 DEF SessionInv
<1>3. z \in Session /\ SessionInv(z)
  BY <1>1, <1>2, StartCloseInv
<1>4. z.chain = "read" /\ z.ws \in {"closing", "closed"}
  <2>1. /\ z.chain = sess[s].chain
        /\ z.ws = sess[s].ws \/ (sess[s].ws = "open" /\ z.ws = "closing")
        /\ sess[s].ws = "open" /\ sess[s].chain = "read" /\ sess[s].closes = 0
              => z.ws = "closing"
    BY <1>1, StartCloseKeeps
  <2>2. sess[s].ws \in {"init", "open", "closing", "closed"}
    BY <1>1 DEF Session
  <2> QED BY <1>1, <1>2, <2>1, <2>2
<1> HIDE DEF z
<1>5. y = [z EXCEPT !.chain = "ended", !.ws = z.ws, !.timer = z.timer]
  BY <1>3 DEF Session
<1>6. z.timer \in {"off", "armed", "fired", "cancelled"}
  BY <1>3 DEF Session
<1>7. Released(y) \in Session /\ SessionInv(Released(y))
  BY <1>3, <1>4, <1>5, <1>6, EndedInv DEF Destroyed
<1>8. Becomes(s, Released(y))
  BY DEF OnReadMalformed, z
<1> QED BY <1>7, <1>8, BecomesInv

\* A chain that ends by an error: of connecting, of writing or of reading.
LEMMA FailureStep ==
    ASSUME IndInv, NEW s \in Sessions, Failure(s)
    PROVE  IndInv'
<1> DEFINE x == sess[s]
           After(w, t) == Released([x EXCEPT !.chain = "ended", !.ws = w, !.timer = t])
<1>1. x \in Session /\ SessionInv(x)
  BY DEF IndInv, TypeOK
<1>2. CASE OnEstablishError(s)
  <2>1. x.chain \notin {"none", "ended"} /\ x.ws = "init"
    BY <1>1, <1>2 DEF OnEstablishError, Establishing, SessionInv
  <2>2. [x EXCEPT !.chain = "ended"]
          = [x EXCEPT !.chain = "ended", !.ws = "init", !.timer = x.timer]
    BY <1>1, <2>1 DEF Session
  <2>3. x.timer \in {"off", "armed", "fired", "cancelled"}
    BY <1>1 DEF Session
  <2>4. After("init", x.timer) \in Session /\ SessionInv(After("init", x.timer))
    BY <1>1, <2>1, <2>3, EndedInv DEF Destroyed
  <2> QED BY <1>2, <2>2, <2>4, BecomesInv DEF OnEstablishError
<1>3. CASE OnWriteError(s)
  <2>1. x.chain = "write" /\ x.timer \in {"off", "armed", "fired", "cancelled"}
    BY <1>1, <1>3 DEF OnWriteError, Session
  <2>2. [x EXCEPT !.chain = "ended", !.ws = "closed"]
          = [x EXCEPT !.chain = "ended", !.ws = "closed", !.timer = x.timer]
    BY <1>1 DEF Session
  <2>3. After("closed", x.timer) \in Session /\ SessionInv(After("closed", x.timer))
    BY <1>1, <2>1, EndedInv DEF Destroyed
  <2> QED BY <1>3, <2>2, <2>3, BecomesInv DEF OnWriteError
<1>4. CASE OnReadFailed(s)
  <2> DEFINE t == CancelTimer(x).timer
  <2>1. x.chain = "read" /\ x.timer \in {"off", "armed", "fired", "cancelled"}
    BY <1>1, <1>4 DEF OnReadFailed, Session
  <2>2. /\ t \in {"off", "armed", "fired", "cancelled"}
        /\ t = x.timer \/ (x.timer = "armed" /\ t = "cancelled")
    BY <1>1, <2>1 DEF CancelTimer, Session
  <2>3. [CancelTimer(x) EXCEPT !.chain = "ended", !.ws = "closed"]
          = [x EXCEPT !.chain = "ended", !.ws = "closed", !.timer = t]
    BY <1>1 DEF CancelTimer, Session
  <2> HIDE DEF t
  <2>4. After("closed", t) \in Session /\ SessionInv(After("closed", t))
    BY <1>1, <2>1, <2>2, EndedInv DEF Destroyed
  <2> QED BY <1>4, <2>3, <2>4, BecomesInv DEF OnReadFailed
<1> QED BY <1>2, <1>3, <1>4 DEF Failure

\* A close handler: it takes the stream and the timer with it.
LEMMA OnCloseStep ==
    ASSUME IndInv, NEW s \in Sessions, OnClose(s)
    PROVE  IndInv'
<1> DEFINE x == sess[s]
           y == [CancelTimer(x) EXCEPT !.closes = @ - 1, !.dropped = FALSE,
                                       !.ws = "closed"]
<1>1. x \in Session /\ SessionInv(x) /\ x.closes > 0
  BY DEF IndInv, TypeOK, OnClose, CloseCompletes
<1>2. x.closes - 1 \in Nat
  BY <1>1 DEF Session
<1>3. y \in Session /\ y.ws = "closed"
  BY <1>1, <1>2, AppendProperties DEF CancelTimer, Session
<1>4. ASSUME ~Destroyed(y) PROVE SessionInv(y)
  BY <1>1, <1>4 DEF CancelTimer, Session, SessionInv, Live, Destroyed, Establishing
<1>5. Released(y) \in Session /\ SessionInv(Released(y))
  BY <1>3, <1>4, ReleasedInv
<1> QED BY <1>5, BecomesInv DEF OnClose

\* The four handlers of the ping timer.
LEMMA TimerStep ==
    ASSUME IndInv, NEW s \in Sessions, TimerHandler(s)
    PROVE  IndInv'
<1> DEFINE x == sess[s]
<1>1. x \in Session /\ SessionInv(x)
  BY DEF IndInv, TypeOK
<1>2. CASE TimerExpires(s)
  <2> DEFINE y == [x EXCEPT !.timer = "fired"]
  <2>1. y \in Session /\ SessionInv(y)
    BY <1>1, <1>2, AppendProperties
       DEF TimerExpires, Session, SessionInv, Live, Destroyed
  <2> QED BY <1>2, <2>1, BecomesInv DEF TimerExpires
<1>3. CASE OnPingTimerCancelled(s)
  <2> DEFINE y == [x EXCEPT !.timer = "off"]
  <2>1. y \in Session /\ y.timer = "off"
    BY <1>1, AppendProperties DEF Session
  <2>2. y.ws = "init" => y.age = 0
    BY <1>1 DEF Session, SessionInv
  <2>3. ASSUME ~Destroyed(y) PROVE SessionInv(y)
    BY <1>1, <1>3, <2>3 DEF OnPingTimerCancelled, Session, SessionInv, Live, Destroyed
  <2> QED BY <1>3, <2>1, <2>2, <2>3, ReleasedInv, BecomesInv DEF OnPingTimerCancelled
<1>4. CASE HardClose(s)
  <2> DEFINE y == [x EXCEPT !.timer = "off", !.ws = "closed"]
  <2>1. y \in Session /\ y.ws = "closed"
    BY <1>1, AppendProperties DEF Session
  <2>2. ASSUME ~Destroyed(y) PROVE SessionInv(y)
    BY <1>1, <1>4, <2>2
       DEF HardClose, Session, SessionInv, Live, Destroyed, Establishing
  <2> QED BY <1>4, <2>1, <2>2, ReleasedInv, BecomesInv DEF HardClose
<1>5. CASE Ping(s)
  <2> DEFINE y == [x EXCEPT !.timer = "armed", !.left = PingInterval,
                            !.pinged = @ \/ x.ws = "open"]
  <2>1. (x.pinged \/ x.ws = "open") \in BOOLEAN
    OBVIOUS
  <2>2. y \in Session
    BY <1>1, <2>1, AppendProperties DEF Session
  <2>3. x.age <= StaleAfter /\ x.age \in Nat
    BY <1>1, <1>5, Bounds DEF Ping, IsStale, Session
  <2>4. x.age + PingInterval <= ZombieAge
    BY <2>3, Bounds
  <2>5. SessionInv(y)
    BY <1>1, <1>5, <2>3, <2>4, Bounds
       DEF Ping, Session, SessionInv, Live, Destroyed
  <2> QED BY <1>5, <2>2, <2>5, BecomesInv DEF Ping
<1> QED BY <1>2, <1>3, <1>4, <1>5 DEF TimerHandler

\* A pong resets the age.
LEMMA OnPongStep ==
    ASSUME IndInv, NEW s \in Sessions, OnPong(s)
    PROVE  IndInv'
<1> DEFINE x == sess[s]
           y == [x EXCEPT !.age = 0, !.pinged = FALSE]
<1>1. x \in Session /\ SessionInv(x) /\ 0 \in 0..AgeCap
  BY Bounds DEF IndInv, TypeOK
<1>2. y \in Session
  BY <1>1, AppendProperties DEF Session
<1>3. SessionInv(y)
  BY <1>1, Bounds DEF Session, SessionInv, Live, Destroyed
<1> QED BY <1>2, <1>3, BecomesInv DEF OnPong

\* The network comes and goes.
LEMMA NetworkStep ==
    ASSUME IndInv, NEW s \in Sessions, Network(s)
    PROVE  IndInv'
<1> DEFINE y(n) == [sess[s] EXCEPT !.net = n]
<1>1. sess[s] \in Session /\ SessionInv(sess[s])
  BY DEF IndInv, TypeOK
<1>2. \A n \in {"up", "dead"} : y(n) \in Session
  BY <1>1, AppendProperties DEF Session
<1>3. \A n \in {"up", "dead"} : SessionInv(y(n))
  BY <1>1 DEF Session, SessionInv, Live, Destroyed
<1> QED BY <1>2, <1>3, BecomesInv DEF Network, NetworkDies, NetworkHeals

\* Time passes only while every live connection either waits for its timer, whose
\* remaining wait shrinks as its pong age grows, or is not connected yet.
LEMMA TickStep ==
    ASSUME IndInv, Tick
    PROVE  IndInv'
<1>1. ASSUME NEW s \in Sessions
      PROVE  Aged(sess[s]) \in Session /\ SessionInv(Aged(sess[s]))
  <2> DEFINE x == sess[s]
             older == IF Connected(x) /\ x.age < AgeCap THEN x.age + 1 ELSE x.age
             y == [x EXCEPT !.left = CountDown(x.left),
                            !.expiry = CountDown(x.expiry), !.age = older]
  <2>1. x \in Session /\ SessionInv(x) /\ ~Due(x)
    BY DEF IndInv, TypeOK, Tick
  <2>2. CASE ~Live(x)
    BY <2>1, <2>2 DEF Aged
  <2>3. CASE Live(x)
    <3>1. Aged(x) = y
      BY <2>3 DEF Aged
    <3>2. /\ x.left \in Nat /\ x.expiry \in Nat /\ x.age \in 0..AgeCap
          /\ x.left <= PingInterval /\ x.age <= ZombieAge
      BY <2>1, <2>3 DEF Session, SessionInv
    <3>3. /\ CountDown(x.left) \in Nat /\ CountDown(x.expiry) \in Nat
          /\ CountDown(x.left) <= PingInterval
          /\ x.left # 0 => CountDown(x.left) = x.left - 1
      BY <3>2 DEF CountDown
    <3>4. older \in 0..AgeCap /\ older <= x.age + 1
      BY <3>2, Bounds
    <3>5. x.ws = "init" => older = x.age
      BY DEF Connected
    <3> HIDE DEF older
    <3>6. y \in Session
      BY <2>1, <3>3, <3>4, AppendProperties DEF Session
    <3>7. x.timer \notin {"fired", "cancelled"} /\ (x.timer = "armed" => x.left # 0)
      BY <2>1 DEF Due
    <3>8. x.timer = "armed" =>
            older + CountDown(x.left) <= ZombieAge /\ older <= ZombieAge
      <4> SUFFICES ASSUME x.timer = "armed"
                   PROVE  older + CountDown(x.left) <= ZombieAge /\ older <= ZombieAge
        OBVIOUS
      <4>1. x.age + x.left <= ZombieAge
        BY <2>1 DEF SessionInv
      <4>2. CountDown(x.left) = x.left - 1
        BY <3>3, <3>7
      <4> QED BY <4>1, <4>2, <3>2, <3>3, <3>4, Bounds
    <3>9. x.timer = "off" => x.ws = "init"
      <4> SUFFICES ASSUME x.timer = "off" PROVE x.ws = "init"
        OBVIOUS
      <4>1. x.chain \notin {"none", "ended"}
        BY <2>3 DEF Live, Destroyed
      <4>2. x.chain \in {"write", "read"} => x.ws = "closed"
        BY <2>1 DEF SessionInv
      <4>3. x.chain \notin {"write", "read"}
        BY <2>1, <4>2 DEF Due
      <4>4. x.chain \in Establishing
        BY <2>1, <4>1, <4>3 DEF Session, Chains
      <4> QED BY <2>1, <4>4 DEF SessionInv
    <3>10. older <= ZombieAge
      BY <2>1, <3>2, <3>5, <3>7, <3>8, <3>9 DEF Session
    <3>11. SessionInv(y)
      BY <2>1, <3>3, <3>5, <3>8, <3>10 DEF Session, SessionInv, Live, Destroyed
    <3> QED BY <3>1, <3>6, <3>11
  <2> QED BY <2>2, <2>3
<1> QED BY <1>1 DEF Tick, IndInv, TypeOK

----------------------------------------------------------------------------
(* The theorems *)

\* The invariant holds before any session exists.
LEMMA InitInv == Init => IndInv
  BY UnbornInv DEF Init, IndInv, TypeOK

\* Every step, of the clock, of a session or of its owner, keeps the invariant.
LEMMA NextInv == IndInv /\ [Next]_vars => IndInv'
<1> SUFFICES ASSUME IndInv, [Next]_vars PROVE IndInv'
  OBVIOUS
<1>1. CASE Tick
  BY <1>1, TickStep
<1>2. CASE Step
  <2>1. PICK s \in Sessions : Internal(s) \/ LoginAnswer(s) \/ Owner(s)
    BY <1>2 DEF Step
  <2>2. CASE IoHandler(s)
    <3>1. CASE OnEstablish(s)
      BY <3>1, OnEstablishStep
    <3>2. CASE OnHandshake(s)
      BY <3>2, OnHandshakeStep
    <3>3. CASE OnWrite(s)
      BY <3>3, OnWriteStep
    <3> QED BY <2>2, <3>1, <3>2, <3>3 DEF IoHandler
  <2>3. CASE TimerHandler(s)
    BY <2>3, TimerStep
  <2>4. CASE OnClose(s)
    BY <2>4, OnCloseStep
  <2>5. CASE Failure(s)
    BY <2>5, FailureStep
  <2>6. CASE Reading(s)
    <3>1. CASE \E r \in Requests : OnReadSubscribe(s, r)
      BY <3>1, OnReadSubscribeStep
    <3>2. CASE \E r \in Requests : OnReadUnsubscribe(s, r)
      BY <3>2, OnReadUnsubscribeStep
    <3>3. CASE OnReadError(s)
      BY <3>3, OnReadErrorStep
    <3>4. CASE OnReadPayload(s)
      BY <3>4, OnReadPayloadStep
    <3>5. CASE OnReadMalformed(s)
      BY <3>5, OnReadMalformedStep
    <3>6. CASE OnPong(s)
      BY <3>6, OnPongStep
    <3> QED BY <2>6, <3>1, <3>2, <3>3, <3>4, <3>5, <3>6 DEF Reading
  <2>7. CASE Network(s)
    BY <2>7, NetworkStep
  <2>8. CASE LoginAnswer(s)
    BY <2>8, OnReadLoginStep DEF LoginAnswer
  <2>9. CASE Owner(s)
    BY <2>9, CloseStep, RunStep, SubscribeStep DEF Owner
  <2> QED BY <2>1, <2>2, <2>3, <2>4, <2>5, <2>6, <2>7, <2>8, <2>9 DEF Internal
<1>3. CASE UNCHANGED vars
  BY <1>3 DEF IndInv, TypeOK, vars
<1> QED BY <1>1, <1>2, <1>3 DEF Next

\* The inductive invariant holds in every reachable state.
THEOREM Invariance == Spec => []IndInv
  BY InitInv, NextInv, PTL DEF Spec

\* Type correctness: no handler, in any order, leaves a field outside its type; in
\* particular onClose never runs more often than closes were started, and what is
\* written is always a login or a request (onWrite, onRead).
THEOREM TypeCorrect == Spec => []TypeOK
<1>1. IndInv => TypeOK
  BY DEF IndInv
<1> QED BY <1>1, Invariance, PTL

\* The zombie bound, for every ping interval: a session that exists has missed at
\* most three pings and one more interval of pongs (ping(), onPingTimer).
THEOREM ZombieBounded == Spec => []ZombieBound
<1>1. IndInv => ZombieBound
  BY DEF IndInv, SessionInv, ZombieBound, ZombieAge
<1> QED BY <1>1, Invariance, PTL

----------------------------------------------------------------------------
(* No request is lost *)

LEMMA MembersOf ==
    ASSUME NEW S, NEW q \in Seq(S)
    PROVE  Len(q) \in Nat /\ ToSet(q) = {q[i] : i \in 1..Len(q)}
  BY DEF ToSet

\* The members of a sequence after the operations of a queue.
LEMMA QueueMembers ==
    ASSUME NEW S, NEW q \in Seq(S)
    PROVE  /\ q # << >> => ToSet(q) = {Head(q)} \cup ToSet(Tail(q))
           /\ \A e \in S : ToSet(Append(q, e)) = ToSet(q) \cup {e}
<1>1. Len(q) \in Nat /\ ToSet(q) = {q[i] : i \in 1..Len(q)}
  BY MembersOf
<1>2. ASSUME q # << >> PROVE ToSet(q) = {Head(q)} \cup ToSet(Tail(q))
  <2> DEFINE t == Tail(q)
  <2>1. /\ Head(q) = q[1] /\ Len(q) >= 1 /\ t \in Seq(S) /\ Len(t) = Len(q) - 1
        /\ \A i \in 1..Len(t) : t[i] = q[i + 1]
    BY <1>2, HeadTailProperties
  <2> HIDE DEF t
  <2>2. ToSet(t) = {t[i] : i \in 1..Len(t)}
    BY <2>1, MembersOf
  <2>3. \A i \in 1..Len(q) : i = 1 \/ (i - 1 \in 1..Len(t) /\ q[i] = t[i - 1])
    BY <1>1, <2>1
  <2>4. \A i \in 1..Len(t) : i + 1 \in 1..Len(q)
    BY <1>1, <2>1
  <2>5. 1 \in 1..Len(q)
    BY <1>1, <2>1
  <2>6. ASSUME NEW e \in ToSet(q) PROVE e \in {Head(q)} \cup ToSet(t)
    <3>1. PICK i \in 1..Len(q) : q[i] = e
      BY <1>1, <2>6
    <3> QED BY <2>1, <2>2, <2>3, <3>1
  <2>7. ASSUME NEW e \in ToSet(t) PROVE e \in ToSet(q)
    <3>1. PICK i \in 1..Len(t) : t[i] = e
      BY <2>2, <2>7
    <3> QED BY <1>1, <2>1, <2>4, <3>1
  <2>8. Head(q) \in ToSet(q)
    BY <1>1, <2>1, <2>5
  <2> QED BY <2>6, <2>7, <2>8 DEF t
<1>3. ASSUME NEW e \in S PROVE ToSet(Append(q, e)) = ToSet(q) \cup {e}
  <2> DEFINE t == Append(q, e)
  <2>1. /\ t \in Seq(S) /\ Len(t) = Len(q) + 1 /\ t[Len(q) + 1] = e
        /\ \A i \in 1..Len(q) : t[i] = q[i]
    BY AppendProperties
  <2> HIDE DEF t
  <2>2. ToSet(t) = {t[i] : i \in 1..Len(t)}
    BY <2>1, MembersOf
  <2>3. \A i \in 1..Len(t) : i \in 1..Len(q) \/ i = Len(q) + 1
    BY <1>1, <2>1
  <2>4. Len(q) + 1 \in 1..Len(t) /\ \A i \in 1..Len(q) : i \in 1..Len(t)
    BY <1>1, <2>1
  <2> QED BY <1>1, <2>1, <2>2, <2>3, <2>4 DEF t
<1> QED BY <1>2, <1>3

\* std::find and erase: all but the one that is looked for stay.
LEMMA RemoveFirstKeeps ==
    ASSUME NEW S, NEW q \in Seq(S), NEW e, NEW r \in ToSet(q), r # e
    PROVE  r \in ToSet(RemoveFirst(q, e))
<1>1. PICK p \in 1..Len(q) : q[p] = r
  BY DEF ToSet
<1>2. CASE \A i \in 1..Len(q) : q[i] # e
  BY <1>2 DEF RemoveFirst
<1>3. CASE \E i \in 1..Len(q) : q[i] = e
  <2>1. PICK k \in 1..Len(q) : q[k] = e /\ RemoveFirst(q, e) = RemoveAt(q, k)
    BY <1>3, RemoveFirstAt
  <2> DEFINE front == SubSeq(q, 1, k - 1)
             back == SubSeq(q, k + 1, Len(q))
             rest == front \o back
  <2>2. Len(q) \in Nat /\ p # k /\ k \in Nat /\ p \in Nat
    BY <1>1, <2>1
  <2>3. /\ front \in Seq(S) /\ Len(front) = k - 1
        /\ \A i \in 1..k - 1 : front[i] = q[i]
    <3>1. \A i \in 1..k - 1 : q[i] \in S
      BY <2>2
    <3>2. /\ SubSeq(q, 1, k - 1) \in Seq(S)
          /\ Len(SubSeq(q, 1, k - 1)) = IF 1 <= k - 1 THEN k - 1 - 1 + 1 ELSE 0
          /\ \A i \in 1..k - 1 - 1 + 1 : SubSeq(q, 1, k - 1)[i] = q[1 + i - 1]
      BY <2>2, <3>1, SubSeqProperties
    <3> HIDE DEF front
    <3> QED BY <2>2, <3>2 DEF front
  <2>4. /\ back \in Seq(S) /\ Len(back) = Len(q) - k
        /\ \A i \in 1..Len(q) - k : back[i] = q[k + i]
    <3>1. \A i \in k + 1..Len(q) : q[i] \in S
      BY <2>2
    <3>2. /\ SubSeq(q, k + 1, Len(q)) \in Seq(S)
          /\ Len(SubSeq(q, k + 1, Len(q))) =
                IF k + 1 <= Len(q) THEN Len(q) - (k + 1) + 1 ELSE 0
          /\ \A i \in 1..Len(q) - (k + 1) + 1 : SubSeq(q, k + 1, Len(q))[i] = q[k + 1 + i - 1]
      BY <2>2, <3>1, SubSeqProperties
    <3> HIDE DEF back
    <3> QED BY <2>1, <2>2, <3>2 DEF back
  <2> HIDE DEF front, back
  <2>5. /\ rest \in Seq(S) /\ Len(rest) = Len(q) - 1
        /\ \A i \in 1..Len(q) - 1 : rest[i] = IF i <= k - 1 THEN front[i] ELSE back[i - (k - 1)]
    <3>1. /\ rest \in Seq(S) /\ Len(rest) = Len(front) + Len(back)
          /\ \A i \in 1..Len(front) + Len(back) :
                rest[i] = IF i <= Len(front) THEN front[i] ELSE back[i - Len(front)]
      BY <2>3, <2>4, ConcatProperties, ZenonT(40)
    <3>2. Len(front) + Len(back) = Len(q) - 1
      BY <2>2, <2>3, <2>4
    <3> HIDE DEF rest
    <3> QED BY <2>3, <3>1, <3>2
  <2> HIDE DEF rest
  <2>6. \E i \in 1..Len(q) - 1 : rest[i] = r
    <3>1. CASE p < k
      <4>1. p \in 1..Len(q) - 1 /\ p \in 1..k - 1
        BY <2>1, <2>2, <3>1
      <4> QED BY <1>1, <2>3, <2>5, <4>1
    <3>2. CASE p > k
      <4>1. /\ p - 1 \in 1..Len(q) - 1 /\ ~(p - 1 <= k - 1) /\ p - 1 - (k - 1) = p - k
            /\ p - k \in 1..Len(q) - k /\ k + (p - k) = p
        BY <1>1, <2>2, <3>2
      <4> QED BY <1>1, <2>4, <2>5, <4>1
    <3> QED BY <2>2, <3>1, <3>2
  <2>7. rest = RemoveFirst(q, e)
    BY <2>1 DEF RemoveAt, rest, front, back
  <2> QED BY <2>5, <2>6, <2>7 DEF ToSet
<1> QED BY <1>2, <1>3

\* Session x has become y: as long as it is open, it still has every request it had.
Safe(x, y) ==
    y.ws = "open" /\ y.chain # "ended" =>
        \A r \in Requests : r \in InHand(x) => r \in InHand(y)

LEMMA SafeReleased == ASSUME NEW x, NEW y, Safe(x, y) PROVE Safe(x, Released(y))
<1>1. Destroyed(y) => Released(y).chain = "ended"
  BY DEF Released, Unborn
<1> QED BY <1>1 DEF Safe, Released

LEMMA SafeFields ==
    ASSUME NEW x, NEW y, y.pending = x.pending, y.frame = x.frame, y.owed = x.owed,
           y.subs = x.subs
    PROVE  Safe(x, y)
  BY DEF Safe, InHand

\* The oldest request goes from the queue into the frame, which was free.
LEMMA WriteNextSafe ==
    ASSUME NEW x \in Session, x.frame = "none", x.pending # << >>
    PROVE  Safe(x, WriteNext(x))
<1>1. /\ WriteNext(x).frame = Head(x.pending) /\ WriteNext(x).pending = Tail(x.pending)
      /\ WriteNext(x).owed = x.owed /\ WriteNext(x).subs = x.subs
  BY DEF WriteNext, Session
<1>2. ToSet(x.pending) = {Head(x.pending)} \cup ToSet(Tail(x.pending))
  <2>1. x.pending \in Seq(Requests)
    BY DEF Session
  <2> QED BY <2>1, QueueMembers
<1> HIDE DEF WriteNext
<1> QED BY <1>1, <1>2 DEF Safe, InHand

\* The tail of onRead.
LEMMA ReadsSafe ==
    ASSUME IndInv, NEW s \in Sessions, NEW z \in Session, Reads(s, z),
           z.frame = "none"
    PROVE  Safe(z, sess'[s])
<1>1. sess'[s] = AfterRead(z)
  BY DEF IndInv, TypeOK, Reads, Becomes
<1>2. /\ StartClose(z).pending = z.pending /\ StartClose(z).frame = z.frame
      /\ StartClose(z).owed = z.owed /\ StartClose(z).subs = z.subs
  BY StartCloseKeeps
<1>3. Safe(z, StartClose(z)) /\ Safe(z, z)
  BY <1>2, SafeFields DEF Safe
<1> QED BY <1>1, <1>3, WriteNextSafe DEF AfterRead

\* What a session does keeps its requests, but for those the venue refuses or takes
\* back.
LEMMA StepSafe ==
    ASSUME IndInv, NEW s \in Sessions, Internal(s) \/ LoginAnswer(s) \/ Owner(s)
    PROVE  \/ Safe(sess[s], sess'[s])
           \/ \A r \in Requests :
                 /\ sess'[s].ws = "open" /\ sess'[s].chain # "ended" /\ r \in InHand(sess[s])
                 => \/ r \in InHand(sess'[s])
                    \/ OnReadError(s) /\ r = Head(sess[s].owed)
                    \/ OnReadUnsubscribe(s, r)
<1> DEFINE x == sess[s]
           Done == Safe(x, sess'[s])
<1>1. x \in Session /\ SessionInv(x) /\ sess \in [Sessions -> Session]
  BY DEF IndInv, TypeOK
<1>2. ASSUME NEW y, Becomes(s, y), Safe(x, y) PROVE Done
  BY <1>1, <1>2 DEF Becomes
<1>3. ASSUME NEW y, Becomes(s, Released(y)), Safe(x, y) PROVE Done
  BY <1>2, <1>3, SafeReleased
<1> HIDE DEF Done
<1>4. CASE IoHandler(s)
  <2>1. ASSUME OnEstablish(s) PROVE Done
    <3> DEFINE y == [x EXCEPT !.chain = NextStage(@), !.expiry = IoTimeout]
    <3>1. Safe(x, y)
      <4>1. y.pending = x.pending /\ y.frame = x.frame /\ y.owed = x.owed /\ y.subs = x.subs
        BY <1>1 DEF Session
      <4> HIDE DEF y
      <4> QED BY <4>1, SafeFields
    <3> QED BY <1>2, <2>1, <3>1 DEF OnEstablish
  <2>2. ASSUME OnHandshake(s) PROVE Done
    <3> DEFINE up == [x EXCEPT !.ws = "open", !.age = 0, !.expiry = 0, !.timer = "armed"]
    <3>1. x.chain = "handshake" /\ x.frame = "none" /\ x.pending # << >>
      BY <1>1, <2>2 DEF OnHandshake, SessionInv, Establishing
    <3>2. up \in Session
      <4>1. 0 \in 0..AgeCap
        BY Bounds
      <4> QED BY <1>1, <4>1, AppendProperties DEF Session
    <3>3. /\ up.pending = x.pending /\ up.frame = x.frame /\ up.owed = x.owed
          /\ up.subs = x.subs
      BY <1>1 DEF Session
    <3>4. ASSUME x.private PROVE Done
      <4> DEFINE y == [up EXCEPT !.chain = "write", !.frame = "login"]
      <4>1. /\ y.pending = x.pending /\ y.frame = "login" /\ y.owed = x.owed
            /\ y.subs = x.subs
        BY <1>1 DEF Session
      <4>2. Becomes(s, y)
        BY <2>2, <3>4 DEF OnHandshake
      <4> HIDE DEF y
      <4>3. Safe(x, y)
        BY <3>1, <4>1 DEF Safe, InHand
      <4> QED BY <1>2, <4>2, <4>3
    <3>5. ASSUME ~x.private PROVE Done
      <4>1. Becomes(s, WriteNext(up))
        BY <2>2, <3>5 DEF OnHandshake
      <4> HIDE DEF up
      <4>2. Safe(up, WriteNext(up)) /\ InHand(up) = InHand(x)
        BY <3>1, <3>2, <3>3, WriteNextSafe DEF InHand
      <4>3. Safe(x, WriteNext(up))
        BY <4>2 DEF Safe
      <4> QED BY <1>2, <4>1, <4>3
    <3> QED BY <3>4, <3>5
  <2>3. ASSUME OnWrite(s) PROVE Done
    <3> DEFINE y == Written(x)
               z == Closing(y)
    <3>1. x.frame \in Frames /\ x.owed \in Seq(Frames)
      BY <1>1, <2>3 DEF OnWrite, SessionInv, Session
    <3>2. ToSet(Append(x.owed, x.frame)) = ToSet(x.owed) \cup {x.frame}
      BY <3>1, QueueMembers
    <3>3. /\ y.pending = x.pending /\ y.frame = "none" /\ y.owed = Append(x.owed, x.frame)
          /\ y.subs = x.subs
      BY <1>1 DEF Session, Written
    <3>4. /\ z.pending = x.pending /\ z.frame = "none" /\ z.owed = Append(x.owed, x.frame)
          /\ z.subs = x.subs
      BY <1>1 DEF Session, Written, Closing
    <3>5. Becomes(s, IF y.closes > 0 THEN z ELSE y)
      BY <2>3 DEF OnWrite
    <3> HIDE DEF y, z
    <3>6. Safe(x, y) /\ Safe(x, z)
      BY <3>2, <3>3, <3>4 DEF Safe, InHand
    <3> QED BY <1>2, <3>5, <3>6
  <2> QED BY <1>4, <2>1, <2>2, <2>3 DEF IoHandler, Done
<1>5. CASE TimerHandler(s)
  <2>1. ASSUME TimerExpires(s) PROVE Done
    <3> DEFINE y == [x EXCEPT !.timer = "fired"]
    <3>1. y.pending = x.pending /\ y.frame = x.frame /\ y.owed = x.owed /\ y.subs = x.subs
      BY <1>1 DEF Session
    <3>2. Becomes(s, y)
      BY <2>1 DEF TimerExpires
    <3> HIDE DEF y
    <3> QED BY <1>2, <3>1, <3>2, SafeFields
  <2>2. ASSUME OnPingTimerCancelled(s) PROVE Done
    <3> DEFINE y == [x EXCEPT !.timer = "off"]
    <3>1. y.pending = x.pending /\ y.frame = x.frame /\ y.owed = x.owed /\ y.subs = x.subs
      BY <1>1 DEF Session
    <3>2. Becomes(s, Released(y))
      BY <2>2 DEF OnPingTimerCancelled
    <3> HIDE DEF y
    <3> QED BY <1>3, <3>1, <3>2, SafeFields
  <2>3. ASSUME HardClose(s) PROVE Done
    <3> DEFINE y == [x EXCEPT !.timer = "off", !.ws = "closed"]
    <3>1. y.pending = x.pending /\ y.frame = x.frame /\ y.owed = x.owed /\ y.subs = x.subs
      BY <1>1 DEF Session
    <3>2. Becomes(s, Released(y))
      BY <2>3 DEF HardClose
    <3> HIDE DEF y
    <3> QED BY <1>3, <3>1, <3>2, SafeFields
  <2>4. ASSUME Ping(s) PROVE Done
    <3> DEFINE y == [x EXCEPT !.timer = "armed", !.left = PingInterval,
                              !.pinged = @ \/ x.ws = "open"]
    <3>1. y.pending = x.pending /\ y.frame = x.frame /\ y.owed = x.owed /\ y.subs = x.subs
      BY <1>1 DEF Session
    <3>2. Becomes(s, y)
      BY <2>4 DEF Ping
    <3> HIDE DEF y
    <3> QED BY <1>2, <3>1, <3>2, SafeFields
  <2> QED BY <1>5, <2>1, <2>2, <2>3, <2>4 DEF TimerHandler, Done
<1>6. CASE OnClose(s)
  <2> DEFINE y == [CancelTimer(x) EXCEPT !.closes = @ - 1, !.dropped = FALSE,
                                       !.ws = "closed"]
  <2>1. y.ws = "closed"
    BY <1>1 DEF CancelTimer, Session
  <2>2. Safe(x, y)
    BY <2>1 DEF Safe
  <2> QED BY <1>3, <1>6, <2>2 DEF OnClose, Done
<1>7. CASE Failure(s)
  <2>1. Safe(x, [x EXCEPT !.chain = "ended"])
    BY <1>1 DEF Safe, Session
  <2>2. Safe(x, [x EXCEPT !.chain = "ended", !.ws = "closed"])
    BY <1>1 DEF Safe, Session
  <2>3. Safe(x, [CancelTimer(x) EXCEPT !.chain = "ended", !.ws = "closed"])
    BY <1>1 DEF Safe, Session, CancelTimer
  <2> QED BY <1>3, <1>7, <2>1, <2>2, <2>3
          DEF Failure, OnEstablishError, OnWriteError, OnReadFailed, Done
<1>8. CASE Network(s)
  <2>1. PICK n \in {"up", "dead"} : Becomes(s, [x EXCEPT !.net = n])
    BY <1>8 DEF Network, NetworkDies, NetworkHeals
  <2> DEFINE y == [x EXCEPT !.net = n]
  <2>2. y.pending = x.pending /\ y.frame = x.frame /\ y.owed = x.owed /\ y.subs = x.subs
    BY <1>1 DEF Session
  <2> HIDE DEF y
  <2>3. Safe(x, y)
    BY <2>2, SafeFields
  <2> QED BY <1>2, <2>1, <2>3 DEF Done, y
<1>9. CASE Owner(s)
  <2>1. ASSUME Close(s) PROVE Done
    <3>1. /\ StartClose(x).pending = x.pending /\ StartClose(x).frame = x.frame
          /\ StartClose(x).owed = x.owed /\ StartClose(x).subs = x.subs
      BY <1>1, StartCloseKeeps
    <3> QED BY <1>2, <2>1, <3>1, SafeFields DEF Close
  <2>2. ASSUME NEW r \in Requests, Subscribe(s, r) PROVE Done
    <3> DEFINE y == WriteSubscriptionRequest(x, r)
    <3>1. x.pending \in Seq(Requests)
      BY <1>1 DEF Session
    <3>2. ToSet(x.pending) \subseteq ToSet(y.pending)
      BY <1>1, <3>1, QueueMembers DEF WriteSubscriptionRequest, Session
    <3>3. y.frame = x.frame /\ y.owed = x.owed /\ y.subs = x.subs
      BY <1>1 DEF WriteSubscriptionRequest, Session
    <3>4. Becomes(s, y)
      BY <2>2 DEF Subscribe
    <3> HIDE DEF y
    <3>5. Safe(x, y)
      BY <3>2, <3>3 DEF Safe, InHand
    <3> QED BY <1>2, <3>4, <3>5
  <2>3. ASSUME NEW r \in Requests, NEW private \in BOOLEAN, Run(s, r, private) PROVE Done
    <3>1. WriteSubscriptionRequest(Started(private), r).ws # "open"
      BY DEF Started, WriteSubscriptionRequest, Unborn
    <3> QED BY <1>2, <2>3, <3>1 DEF Run, Safe
  <2> QED BY <1>9, <2>1, <2>2, <2>3 DEF Owner, Done
<1>10. CASE Reading(s) \/ LoginAnswer(s)
  <2> DEFINE z == Answered(x)
  <2>0. ASSUME CanRead(x)
        PROVE  x.chain = "read" /\ x.frame = "none" /\ x.ws \in {"open", "closing"}
    BY <1>1, <2>0 DEF CanRead, SessionInv
  <2>1. CASE OnPong(s)
    <3> DEFINE y == [x EXCEPT !.age = 0, !.pinged = FALSE]
    <3>1. y.pending = x.pending /\ y.frame = x.frame /\ y.owed = x.owed /\ y.subs = x.subs
      BY <1>1 DEF Session
    <3>2. Becomes(s, y)
      BY <2>1 DEF OnPong
    <3> HIDE DEF y
    <3> QED BY <1>2, <3>1, <3>2, SafeFields DEF Done
  <2>2. CASE OnReadMalformed(s)
    <3> DEFINE y == [StartClose(x) EXCEPT !.chain = "ended"]
    <3>1. Safe(x, y)
      <4>1. StartClose(x) \in Session
        BY <1>1, StartCloseKeeps
      <4> QED BY <4>1 DEF Safe, Session
    <3> QED BY <1>3, <2>2, <3>1 DEF OnReadMalformed, Done
  <2>3. CASE OnReadPayload(s)
    <3>1. Reads(s, x) /\ CanRead(x)
      BY <2>3 DEF OnReadPayload, Reads
    <3> QED BY <1>1, <2>0, <3>1, ReadsSafe
  <2>4. ASSUME NEW q \in Requests, OnReadUnsubscribe(s, q),
               NEW r \in Requests, r \in InHand(x), r # q,
               sess'[s].ws = "open", sess'[s].chain # "ended"
        PROVE  r \in InHand(sess'[s])
    <3> DEFINE rest == RemoveFirst(x.subs, q)
               y == [x EXCEPT !.subs = rest]
    <3>1. x.subs \in Seq(Requests)
      BY <1>1 DEF Session
    <3>2. rest \in Seq(Requests)
      BY <3>1, RemoveFirstType
    <3>3. Reads(s, y) /\ CanRead(x)
      BY <2>4 DEF OnReadUnsubscribe, Reads
    <3>4. r \in ToSet(x.subs) => r \in ToSet(rest)
      BY <2>4, <3>1, RemoveFirstKeeps
    <3> HIDE DEF rest
    <3>5. /\ y \in Session /\ y.pending = x.pending /\ y.frame = x.frame /\ y.owed = x.owed
          /\ y.subs = rest /\ y.ws = x.ws
      BY <1>1, <3>2 DEF Session
    <3> HIDE DEF y
    <3>6. r \in InHand(y)
      BY <2>4, <3>4, <3>5 DEF InHand
    <3>7. Safe(y, sess'[s])
      BY <2>0, <3>3, <3>5, ReadsSafe
    <3> QED BY <2>4, <3>6, <3>7 DEF Safe
  \* An answer takes the first frame that is owed.
  <2>5. ASSUME x.owed # << >>, CanRead(x)
        PROVE  /\ z \in Session /\ z.frame = "none" /\ z.ws \in {"open", "closing"}
               /\ z.subs \in Seq(Requests)
               /\ \A r \in Requests : r \in InHand(x) =>
                     r \in InHand(z) \/ r = Head(x.owed)
    <3>1. z \in Session
      BY <1>1, <2>5, AnsweredInv
    <3>2. /\ z.pending = x.pending /\ z.frame = x.frame /\ z.owed = Tail(x.owed)
          /\ z.subs = x.subs /\ z.ws = x.ws
      BY <1>1 DEF Answered, Session
    <3>3. x.owed \in Seq(Frames) /\ x.subs \in Seq(Requests)
      BY <1>1 DEF Session
    <3>4. ToSet(x.owed) = {Head(x.owed)} \cup ToSet(Tail(x.owed))
      BY <2>5, <3>3, QueueMembers
    <3> HIDE DEF z
    <3> QED BY <2>0, <2>5, <3>1, <3>2, <3>3, <3>4 DEF InHand
  <2>6. ASSUME OnReadError(s), NEW r \in Requests, r \in InHand(x), r # Head(x.owed),
               sess'[s].ws = "open", sess'[s].chain # "ended"
        PROVE  r \in InHand(sess'[s])
    <3>1. Reads(s, z) /\ x.owed # << >> /\ CanRead(x)
      BY <2>6 DEF OnReadError, Reads
    <3> HIDE DEF z
    <3>2. Safe(z, sess'[s])
      BY <2>5, <3>1, ReadsSafe
    <3> QED BY <2>5, <2>6, <3>1, <3>2 DEF Safe
  <2>7. ASSUME NEW q \in Requests, OnReadSubscribe(s, q) PROVE Done
    <3> DEFINE y == [z EXCEPT !.subs = Append(@, q)]
    <3>1. Reads(s, y) /\ x.owed # << >> /\ CanRead(x) /\ Head(x.owed) = q
      BY <2>7 DEF OnReadSubscribe, Answers, Reads
    <3> HIDE DEF z
    <3>2. /\ Append(z.subs, q) \in Seq(Requests)
          /\ ToSet(Append(z.subs, q)) = ToSet(z.subs) \cup {q}
      BY <2>5, <3>1, AppendProperties, QueueMembers
    <3>3. /\ y \in Session /\ y.pending = z.pending /\ y.frame = z.frame /\ y.owed = z.owed
          /\ y.subs = Append(z.subs, q) /\ y.ws = z.ws
      BY <2>5, <3>1, <3>2 DEF Session
    <3> HIDE DEF y
    <3>4. Safe(y, sess'[s])
      BY <2>5, <3>1, <3>3, ReadsSafe
    <3>5. \A r \in Requests : r \in InHand(x) => r \in InHand(y)
      BY <2>5, <3>1, <3>2, <3>3 DEF InHand
    <3> QED BY <3>4, <3>5 DEF Safe, Done
  <2>8. ASSUME NEW accepted \in BOOLEAN, OnReadLogin(s, accepted) PROVE Done
    <3> DEFINE y == [z EXCEPT !.authenticated = accepted]
    <3>1. Reads(s, y) /\ x.owed # << >> /\ CanRead(x) /\ Head(x.owed) = "login"
      BY <2>8 DEF OnReadLogin, Answers, Reads
    <3> HIDE DEF z
    <3>2. /\ y \in Session /\ y.pending = z.pending /\ y.frame = z.frame /\ y.owed = z.owed
          /\ y.subs = z.subs /\ y.ws = z.ws
      BY <2>5, <3>1 DEF Session
    <3> HIDE DEF y
    <3>3. Safe(y, sess'[s])
      BY <2>5, <3>1, <3>2, ReadsSafe
    <3>4. \A r \in Requests : r \in InHand(x) => r \in InHand(y)
      BY <2>5, <3>1, <3>2 DEF InHand
    <3> QED BY <3>3, <3>4 DEF Safe, Done
  <2>9. CASE OnReadError(s)
    BY <2>6, <2>9
  <2>10. ASSUME NEW q \in Requests, OnReadUnsubscribe(s, q)
         PROVE  \A r \in Requests :
                   /\ sess'[s].ws = "open" /\ sess'[s].chain # "ended" /\ r \in InHand(x)
                   => r \in InHand(sess'[s]) \/ OnReadUnsubscribe(s, r)
    BY <2>4, <2>10
  <2> QED BY <1>10, <2>1, <2>2, <2>3, <2>7, <2>8, <2>9, <2>10
          DEF Reading, LoginAnswer, Done
<1> QED BY <1>4, <1>5, <1>6, <1>7, <1>8, <1>9, <1>10 DEF Internal, Done

\* A step of one session leaves the others alone.
LEMMA StepsAlone ==
    ASSUME IndInv, NEW t \in Sessions, Internal(t) \/ LoginAnswer(t) \/ Owner(t),
           NEW s \in Sessions, s # t
    PROVE  sess'[s] = sess[s]
<1>1. \A y : Becomes(t, y) => sess'[s] = sess[s]
  BY DEF Becomes, IndInv, TypeOK
<1>2. \A z : Reads(t, z) => sess'[s] = sess[s]
  BY <1>1 DEF Reads
<1>3. CASE IoHandler(t) \/ TimerHandler(t) \/ OnClose(t)
  BY <1>1, <1>3 DEF IoHandler, OnEstablish, OnHandshake, OnWrite, TimerHandler, TimerExpires,
     OnPingTimerCancelled, HardClose, Ping, OnClose
<1>4. CASE Failure(t) \/ Network(t) \/ Owner(t)
  BY <1>1, <1>4 DEF Failure, OnEstablishError, OnWriteError, OnReadFailed, Network,
     NetworkDies, NetworkHeals, Owner, Close, Subscribe, Run
<1>5. CASE Reading(t) \/ LoginAnswer(t)
  BY <1>1, <1>2, <1>5 DEF Reading, LoginAnswer, OnReadSubscribe, OnReadUnsubscribe,
     OnReadError, OnReadPayload, OnReadMalformed, OnPong, OnReadLogin
<1> QED BY <1>3, <1>4, <1>5 DEF Internal

\* No request is lost on an open connection, for any requests and any bound of the
\* queues: what a caller has handed in is queued, written, owed an answer or
\* acknowledged, until the venue refuses it or takes it back (writeSubscriptionRequest,
\* onRead).
THEOREM RequestsKept == Spec => NoRequestLost
<1>1. IndInv /\ [Next]_vars =>
          [\A s \in Sessions : \A r \in Requests :
              /\ r \in InHand(sess[s]) \/ Subscribe(s, r)
              /\ sess'[s].ws = "open" /\ sess'[s].chain # "ended"
              => \/ r \in InHand(sess'[s])
                 \/ OnReadError(s) /\ r = Head(sess[s].owed)
                 \/ OnReadUnsubscribe(s, r)]_vars
  <2> SUFFICES ASSUME IndInv, Next, NEW s \in Sessions, NEW r \in Requests,
                      r \in InHand(sess[s]) \/ Subscribe(s, r),
                      sess'[s].ws = "open", sess'[s].chain # "ended"
               PROVE  \/ r \in InHand(sess'[s])
                      \/ OnReadError(s) /\ r = Head(sess[s].owed)
                      \/ OnReadUnsubscribe(s, r)
    OBVIOUS
  <2>1. sess[s] \in Session /\ sess \in [Sessions -> Session]
    BY DEF IndInv, TypeOK
  <2>2. CASE Subscribe(s, r)
    <3>1. sess'[s] = WriteSubscriptionRequest(sess[s], r)
      BY <2>1, <2>2 DEF Subscribe, Becomes
    <3>2. sess[s].pending \in Seq(Requests)
      BY <2>1 DEF Session
    <3>3. CASE r \in ToSet(sess[s].subs) \cup ToSet(sess[s].pending)
      BY <3>1, <3>3 DEF WriteSubscriptionRequest, InHand
    <3>4. CASE r \notin ToSet(sess[s].subs) \cup ToSet(sess[s].pending)
      <4>1. sess'[s].pending = Append(sess[s].pending, r)
        BY <2>1, <3>1, <3>4 DEF WriteSubscriptionRequest, Session
      <4>2. r \in ToSet(sess'[s].pending)
        BY <3>2, <4>1, QueueMembers
      <4> QED BY <4>2 DEF InHand
    <3> QED BY <3>3, <3>4
  <2>3. CASE r \in InHand(sess[s]) /\ Tick
    <3> DEFINE x == sess[s]
    <3>1. sess'[s] = Aged(x)
      BY <2>3 DEF Tick
    <3>2. /\ Aged(x).pending = x.pending /\ Aged(x).frame = x.frame
          /\ Aged(x).owed = x.owed /\ Aged(x).subs = x.subs
      BY <2>1 DEF Aged, Session
    <3> QED BY <2>3, <3>1, <3>2 DEF InHand
  <2>4. CASE r \in InHand(sess[s]) /\ Step
    <3>1. PICK t \in Sessions : Internal(t) \/ LoginAnswer(t) \/ Owner(t)
      BY <2>4 DEF Step
    <3>2. CASE t = s
      BY <2>4, <3>1, <3>2, StepSafe DEF Safe
    <3>3. CASE t # s
      <4>1. sess'[s] = sess[s]
        BY <2>1, <3>1, <3>3, StepsAlone
      <4> QED BY <2>4, <4>1
    <3> QED BY <3>2, <3>3
  <2> QED BY <2>2, <2>3, <2>4 DEF Next
<1> QED BY <1>1, Invariance, PTL DEF Spec, NoRequestLost

----------------------------------------------------------------------------
(* How long it can be deaf *)

\* The pong age of a session that hears nothing does not go back.
AgeKept == \A s \in Sessions : Deaf(sess'[s]) => sess[s].age <= sess'[s].age

\* It is enough to look at the session that takes the step.
LEMMA BecomesAge ==
    ASSUME IndInv, NEW s \in Sessions, NEW y, Becomes(s, y),
           Deaf(y) => sess[s].age <= y.age
    PROVE  AgeKept
<1>1. ASSUME NEW t \in Sessions PROVE Deaf(sess'[t]) => sess[t].age <= sess'[t].age
  <2>1. sess[t].age \in Int
    BY Bounds DEF IndInv, TypeOK, Session
  <2> QED BY <2>1 DEF Becomes, IndInv, TypeOK
<1> QED BY <1>1 DEF AgeKept

\* The destructor leaves nothing that is connected, and otherwise changes nothing.
LEMMA ReleasedAge ==
    ASSUME NEW x, NEW a \in Int, x.age = a
    PROVE  Deaf(Released(x)) => a <= Released(x).age
  BY DEF Released, Deaf, Connected, Unborn

\* The helpers of the handlers leave the age alone.
LEMMA HelpersAge ==
    ASSUME NEW x \in Session
    PROVE  /\ WriteNext(x).age = x.age /\ StartClose(x).age = x.age
           /\ AfterRead(x).age = x.age /\ CancelTimer(x).age = x.age
           /\ Answered(x).age = x.age /\ x.age \in Int
           /\ \A r \in Requests : WriteSubscriptionRequest(x, r).age = x.age
<1>1. WriteNext(x).age = x.age /\ StartClose(x).age = x.age
  BY StartCloseKeeps DEF WriteNext, Session
<1>2. AfterRead(x).age = x.age
  BY <1>1 DEF AfterRead
<1>3. CancelTimer(x).age = x.age /\ Answered(x).age = x.age /\ x.age \in Int
  BY Bounds DEF CancelTimer, Answered, Session
<1>4. \A r \in Requests : WriteSubscriptionRequest(x, r).age = x.age
  BY DEF WriteSubscriptionRequest, Session
<1> QED BY <1>1, <1>2, <1>3, <1>4

\* Reads keep the age they are given.
LEMMA ReadsAge ==
    ASSUME IndInv, NEW s \in Sessions, NEW x \in Session, Reads(s, x),
           x.age = sess[s].age
    PROVE  AgeKept
  BY HelpersAge, BecomesAge DEF Reads

\* Only a handshake and a pong turn the age back: the first on a session that was
\* not connected, the second inside a read, when the session is not deaf.
LEMMA StepAge ==
    ASSUME IndInv, Step
    PROVE  AgeKept
<1>1. PICK s \in Sessions : Internal(s) \/ LoginAnswer(s) \/ Owner(s)
  BY DEF Step
<1> DEFINE x == sess[s]
<1>2. x \in Session /\ SessionInv(x) /\ x.age \in Int
  BY HelpersAge DEF IndInv, TypeOK
<1>3. CASE IoHandler(s)
  <2>1. CASE OnEstablish(s)
    <3> DEFINE y == [x EXCEPT !.chain = NextStage(@), !.expiry = IoTimeout]
    <3>1. y.age = x.age /\ Becomes(s, y)
      BY <1>2, <2>1 DEF OnEstablish, Session
    <3> HIDE DEF y
    <3> QED BY <1>2, <3>1, BecomesAge
  <2>2. CASE OnHandshake(s)
    <3>1. x.age = 0
      BY <1>2, <2>2 DEF OnHandshake, SessionInv, Establishing
    <3> DEFINE up == [x EXCEPT !.ws = "open", !.age = 0, !.expiry = 0,
                               !.timer = "armed"]
    <3> DEFINE y == IF x.private THEN [up EXCEPT !.chain = "write", !.frame = "login"]
                    ELSE WriteNext(up)
    <3>2. y.age = 0 /\ Becomes(s, y)
      BY <1>2, <2>2 DEF OnHandshake, Session, WriteNext
    <3> HIDE DEF y
    <3> QED BY <3>1, <3>2, BecomesAge
  <2>3. CASE OnWrite(s)
    <3> DEFINE y == Written(x)
               z == Closing(y)
    <3>1. y.age = x.age /\ z.age = x.age
      BY <1>2 DEF Written, Closing, Session
    <3>2. Becomes(s, IF y.closes > 0 THEN z ELSE y)
      BY <2>3 DEF OnWrite
    <3> HIDE DEF y, z
    <3> QED BY <1>2, <3>1, <3>2, BecomesAge
  <2> QED BY <1>3, <2>1, <2>2, <2>3 DEF IoHandler
<1>4. CASE TimerHandler(s)
  <2>1. CASE TimerExpires(s)
    <3> DEFINE y == [x EXCEPT !.timer = "fired"]
    <3>1. y.age = x.age /\ Becomes(s, y)
      BY <1>2, <2>1 DEF TimerExpires, Session
    <3> HIDE DEF y
    <3> QED BY <1>2, <3>1, BecomesAge
  <2>2. CASE OnPingTimerCancelled(s)
    <3>1. [x EXCEPT !.timer = "off"].age = x.age
      BY <1>2 DEF Session
    <3> QED BY <1>2, <2>2, <3>1, ReleasedAge, BecomesAge DEF OnPingTimerCancelled
  <2>3. CASE HardClose(s)
    <3>1. [x EXCEPT !.timer = "off", !.ws = "closed"].age = x.age
      BY <1>2 DEF Session
    <3> QED BY <1>2, <2>3, <3>1, ReleasedAge, BecomesAge DEF HardClose
  <2>4. CASE Ping(s)
    <3> DEFINE y == [x EXCEPT !.timer = "armed", !.left = PingInterval,
                              !.pinged = @ \/ x.ws = "open"]
    <3>1. y.age = x.age /\ Becomes(s, y)
      BY <1>2, <2>4 DEF Ping, Session
    <3> HIDE DEF y
    <3> QED BY <1>2, <3>1, BecomesAge
  <2> QED BY <1>4, <2>1, <2>2, <2>3, <2>4 DEF TimerHandler
<1>5. CASE OnClose(s)
  <2>1. [CancelTimer(x) EXCEPT !.closes = @ - 1, !.dropped = FALSE,
                               !.ws = "closed"].age = x.age
    BY <1>2 DEF CancelTimer, Session
  <2> QED BY <1>2, <1>5, <2>1, ReleasedAge, BecomesAge DEF OnClose
<1>6. CASE Failure(s)
  <2>1. /\ [x EXCEPT !.chain = "ended"].age = x.age
        /\ [x EXCEPT !.chain = "ended", !.ws = "closed"].age = x.age
        /\ [CancelTimer(x) EXCEPT !.chain = "ended", !.ws = "closed"].age = x.age
    BY <1>2 DEF CancelTimer, Session
  <2> QED BY <1>2, <1>6, <2>1, ReleasedAge, BecomesAge
          DEF Failure, OnEstablishError, OnWriteError, OnReadFailed
<1>7. CASE Reading(s) \/ LoginAnswer(s)
  <2> DEFINE z == Answered(x)
  <2>1. CASE OnPong(s)
    <3>1. ~Deaf([x EXCEPT !.age = 0, !.pinged = FALSE])
      BY <1>2, <2>1 DEF OnPong, CanRead, Deaf, Session
    <3> QED BY <2>1, <3>1, BecomesAge DEF OnPong
  <2>2. CASE OnReadMalformed(s)
    <3>2. StartClose(x) \in Session
      BY <1>2, StartCloseKeeps
    <3>3. [StartClose(x) EXCEPT !.chain = "ended"].age = x.age
      BY <1>2, <3>2, HelpersAge DEF Session
    <3> QED BY <1>2, <2>2, <3>3, ReleasedAge, BecomesAge DEF OnReadMalformed
  <2>3. CASE OnReadPayload(s)
    BY <1>2, <2>3, ReadsAge DEF OnReadPayload
  <2>4. ASSUME NEW r \in Requests, OnReadUnsubscribe(s, r) PROVE AgeKept
    <3> DEFINE rest == RemoveFirst(x.subs, r)
               y == [x EXCEPT !.subs = rest]
    <3>1. x.subs \in Seq(Requests)
      BY <1>2 DEF Session
    <3>2. rest \in Seq(Requests)
      BY <3>1, RemoveFirstType
    <3>3. Reads(s, y)
      BY <2>4 DEF OnReadUnsubscribe
    <3> HIDE DEF rest
    <3>4. y \in Session /\ y.age = x.age
      BY <1>2, <3>2 DEF Session
    <3> QED BY <3>3, <3>4, ReadsAge
  <2>5. ASSUME x.owed # << >> PROVE z \in Session /\ z.age = x.age
    BY <1>2, <2>5, AnsweredInv, HelpersAge
  <2>6. CASE OnReadError(s)
    BY <2>5, <2>6, ReadsAge DEF OnReadError
  <2>7. ASSUME NEW r \in Requests, OnReadSubscribe(s, r) PROVE AgeKept
    <3> DEFINE y == [z EXCEPT !.subs = Append(@, r)]
    <3>1. Reads(s, y) /\ z \in Session /\ z.age = x.age
      BY <2>5, <2>7 DEF OnReadSubscribe, Answers
    <3> HIDE DEF z
    <3>2. Append(z.subs, r) \in Seq(Requests)
      BY <3>1, AppendProperties DEF Session
    <3>3. y \in Session /\ y.age = x.age
      BY <3>1, <3>2 DEF Session
    <3> QED BY <3>1, <3>3, ReadsAge
  <2>8. ASSUME NEW accepted \in BOOLEAN, OnReadLogin(s, accepted) PROVE AgeKept
    <3> DEFINE y == [z EXCEPT !.authenticated = accepted]
    <3>1. Reads(s, y) /\ z \in Session /\ z.age = x.age
      BY <2>5, <2>8 DEF OnReadLogin, Answers
    <3> HIDE DEF z
    <3>2. y \in Session /\ y.age = x.age
      BY <3>1 DEF Session
    <3> QED BY <3>1, <3>2, ReadsAge
  <2> QED BY <1>7, <2>1, <2>2, <2>3, <2>4, <2>6, <2>7, <2>8 DEF Reading, LoginAnswer
<1>8. CASE Network(s)
  <2>1. PICK n \in {"up", "dead"} : Becomes(s, [x EXCEPT !.net = n])
    BY <1>8 DEF Network, NetworkDies, NetworkHeals
  <2> DEFINE y == [x EXCEPT !.net = n]
  <2>2. y.age = x.age /\ Becomes(s, y)
    BY <1>2, <2>1 DEF Session
  <2> HIDE DEF y
  <2> QED BY <1>2, <2>2, BecomesAge
<1>9. CASE Owner(s)
  <2>1. CASE Close(s)
    BY <1>2, <2>1, HelpersAge, BecomesAge DEF Close
  <2>2. ASSUME NEW r \in Requests, Subscribe(s, r) PROVE AgeKept
    BY <1>2, <2>2, HelpersAge, BecomesAge DEF Subscribe
  <2>3. ASSUME NEW r \in Requests, NEW private \in BOOLEAN, Run(s, r, private)
        PROVE  AgeKept
    <3>1. ~Deaf(WriteSubscriptionRequest(Started(private), r))
      BY DEF Started, WriteSubscriptionRequest, Unborn, Deaf, Connected
    <3> QED BY <2>3, <3>1, BecomesAge DEF Run
  <2> QED BY <1>9, <2>1, <2>2, <2>3 DEF Owner
<1> QED BY <1>1, <1>3, <1>4, <1>5, <1>6, <1>7, <1>8, <1>9 DEF Internal

\* A session has not been deaf for longer than its pong age.
BlindInv ==
    /\ deaf \in [Sessions -> Nat]
    /\ \A s \in Sessions : deaf[s] <= sess[s].age

\* A step of a session: it keeps the count only while the session stays deaf.
LEMMA BStepInv == IndInv /\ BlindInv /\ BStep => BlindInv'
<1> SUFFICES ASSUME IndInv, BlindInv, BStep PROVE BlindInv'
  OBVIOUS
<1>1. AgeKept /\ IndInv'
  BY StepAge, NextInv DEF BStep, Next
<1>2. deaf' \in [Sessions -> Nat]
  BY DEF BStep, BlindInv
<1>3. ASSUME NEW s \in Sessions PROVE deaf'[s] <= sess'[s].age
  <2>1. deaf[s] \in Nat /\ deaf[s] <= sess[s].age
    BY DEF BlindInv
  <2>2. sess[s].age \in Int /\ sess'[s].age \in Int /\ sess'[s].age >= 0
    BY <1>1, Bounds, SMTT(20) DEF IndInv, TypeOK, Session
  <2>3. CASE Deaf(sess'[s])
    BY <1>1, <2>1, <2>2, <2>3 DEF BStep, AgeKept
  <2>4. CASE ~Deaf(sess'[s])
    BY <2>2, <2>4 DEF BStep
  <2> QED BY <2>3, <2>4
<1> QED BY <1>2, <1>3 DEF BlindInv

\* A tick: a deaf session is connected, so its pong age grows with the count.
LEMMA BTickInv == IndInv /\ BlindInv /\ BTick => BlindInv'
<1> SUFFICES ASSUME IndInv, BlindInv, BTick PROVE BlindInv'
  OBVIOUS
<1>1. ASSUME NEW s \in Sessions
      PROVE  deaf'[s] \in Nat /\ deaf'[s] <= sess'[s].age
  <2> DEFINE x == sess[s]
  <2>1. deaf[s] \in Nat /\ deaf[s] <= x.age /\ x \in Session /\ SessionInv(x)
    BY DEF BlindInv, IndInv, TypeOK
  <2>2. x.age \in 0..AgeCap /\ AgeCap \in Nat
    BY <2>1, Bounds DEF Session
  <2>3. deaf'[s] = Count(x, deaf[s]) /\ sess'[s] = Aged(x)
    BY DEF BTick, Tick
  <2>4. CASE ~Live(x)
    <3>1. ~Deaf(x)
      BY <2>1, <2>4 DEF Deaf, Connected, Live, SessionInv
    <3> QED BY <2>2, <2>3, <2>4, <3>1 DEF Count, Aged
  <2>5. CASE Live(x)
    <3>1. Aged(x).age = IF Connected(x) /\ x.age < AgeCap THEN x.age + 1 ELSE x.age
      BY <2>1, <2>5 DEF Aged, Session
    <3>2. CASE Deaf(x)
      BY <2>1, <2>2, <2>3, <3>1, <3>2 DEF Count, Deaf
    <3>3. CASE ~Deaf(x)
      BY <2>2, <2>3, <3>1, <3>3 DEF Count
    <3> QED BY <3>2, <3>3
  <2> QED BY <2>4, <2>5
<1>2. deaf' \in [Sessions -> Nat]
  BY <1>1 DEF BTick
<1> QED BY <1>1, <1>2 DEF BlindInv

\* The engine is never blind for longer than the staleness threshold on a session
\* that passes for healthy, for every ping interval (isStale, ping()).
THEOREM BlindBounded == BSpec => []NeverBlindLonger
<1>1. BInit => IndInv /\ BlindInv
  <2>1. BInit => IndInv
    BY InitInv DEF BInit
  <2>2. BInit => BlindInv
    BY DEF BInit, Init, BlindInv, Unborn
  <2> QED BY <2>1, <2>2
<1>2. IndInv /\ BlindInv /\ [BNext]_bvars => IndInv' /\ BlindInv'
  <2> SUFFICES ASSUME IndInv, BlindInv, [BNext]_bvars PROVE IndInv' /\ BlindInv'
    OBVIOUS
  <2>1. CASE BTick
    BY <2>1, BTickInv, NextInv DEF BTick, Next
  <2>2. CASE BStep
    BY <2>2, BStepInv, NextInv DEF BStep, Next
  <2>3. CASE UNCHANGED bvars
    BY <2>3 DEF bvars, IndInv, TypeOK, BlindInv
  <2> QED BY <2>1, <2>2, <2>3 DEF BNext
<1>3. IndInv /\ BlindInv => NeverBlindLonger
  <2> SUFFICES ASSUME IndInv, BlindInv, NEW s \in Sessions, ~IsStale(sess[s])
               PROVE  deaf[s] <= StaleAfter
    BY DEF NeverBlindLonger
  <2>1. sess[s].age \in Int /\ deaf[s] \in Nat /\ deaf[s] <= sess[s].age
    BY Bounds DEF IndInv, TypeOK, Session, BlindInv
  <2> QED BY <2>1, Bounds DEF IsStale
<1> QED BY <1>1, <1>2, <1>3, PTL DEF BSpec

----------------------------------------------------------------------------
(* The private stream *)

USE OrdersAssumption, TroublesAssumption, NoSessionAssumption

\* subscribe() has closed the stale session, or found none, and has not yet stored
\* the new one.
Replacing == \E c \in Callers : pc[c] = "rebuild"

\* No shared_ptr needs a session that can be connected any more, or it is closing.
Leaving(x) == Live(x) => x.ws \in {"closing", "closed"} \/ x.closes > 0

\* The close handlers that may wait: the one of a message that could not be parsed,
\* which ends the read chain, and the one of the caller that replaces the session.
Ended(x) == IF x.chain = "ended" THEN 1 ELSE 0
Closable(s) == IF s = current /\ ~Replacing THEN 0 ELSE 1

\* A session between its construction and its run is the current one and has not
\* started; all others, and the one that is being replaced, are leaving.
ClientInv ==
    /\ \A c \in Callers :
          IF pc[c] \in {"swapped", "reset"}
          THEN built[c] = current /\ current \in Sessions /\ sess[current] = Unborn
          ELSE built[c] = NoSession
    /\ \A s \in Sessions :
          /\ Live(sess[s]) => sess[s].private
          /\ s # current \/ Replacing => Leaving(sess[s])
          /\ sess[s].closes <= Closable(s) + Ended(sess[s])
          /\ ~sess[s].dropped

StreamInv == IndInv /\ StreamTypeOK /\ ClientInv

\* One thread submits.
OneCallerOnly == \A c, d \in Callers : c = d

----------------------------------------------------------------------------
(* What a session does by itself *)

\* Session x has become y: it has not come to life, and if it was leaving it still
\* is; it has started no close unless its read chain ended with it.
Kept(x, y) ==
    /\ x # Unborn
    /\ Live(y) => Live(x) /\ y.private = x.private
    /\ Leaving(x) => Leaving(y)
    /\ y.dropped => x.dropped
    /\ y.closes \in Int /\ y.closes + Ended(x) <= x.closes + Ended(y)

LEMMA ReleasedKept ==
    ASSUME NEW x, NEW y, Kept(x, y) PROVE Kept(x, Released(y))
<1>1. CASE ~Destroyed(y)
  BY <1>1 DEF Released
<1>2. CASE Destroyed(y)
  <2>1. Released(y) = [Unborn EXCEPT !.chain = "ended", !.closes = y.closes,
                                     !.dropped = y.dropped]
    BY <1>2 DEF Released
  <2>2. /\ ~Live(Released(y)) /\ Released(y).closes = y.closes
        /\ Ended(Released(y)) = 1 /\ Ended(y) = 1 /\ Released(y).dropped = y.dropped
    BY <1>2, <2>1 DEF Unborn, Live, Destroyed, Ended
  <2> QED BY <2>2 DEF Kept, Leaving
<1> QED BY <1>1, <1>2

LEMMA FieldsKept ==
    ASSUME NEW x \in Session, x.chain # "none", NEW y, y.private = x.private,
           y.closes = x.closes, y.dropped = x.dropped, x.chain = "ended" => y.chain = "ended",
           Destroyed(x) => y.timer = "off",
           y.ws = x.ws \/ y.ws = "closed" \/ x.ws \notin {"closing", "closed"}
    PROVE  Kept(x, y)
<1>1. x # Unborn /\ x.closes \in Int
  BY DEF Unborn, Session
<1>2. Live(y) => Live(x)
  BY DEF Live, Destroyed
<1>3. Ended(x) <= Ended(y)
  BY DEF Ended
<1>4. Leaving(x) => Leaving(y)
  BY <1>2 DEF Leaving
<1> QED BY <1>1, <1>2, <1>3, <1>4 DEF Kept, Ended

\* The tail of onRead closes no private session.
LEMMA ReadsKept ==
    ASSUME IndInv, ClientInv, NEW s \in Sessions, NEW z \in Session, Reads(s, z),
           z.chain = "read", z.closes = sess[s].closes, z.private = sess[s].private,
           z.ws = sess[s].ws, z.dropped = sess[s].dropped
    PROVE  Kept(sess[s], sess'[s])
<1> DEFINE x == sess[s]
           y == AfterRead(z)
<1>1. x \in Session /\ x.chain = "read" /\ sess'[s] = y
  BY DEF IndInv, TypeOK, Reads, CanRead, Becomes
<1>2. Live(x) /\ x.private /\ x # Unborn
  BY <1>1 DEF ClientInv, Live, Destroyed, Unborn
<1>3. y = z \/ y = WriteNext(z)
  BY <1>2 DEF AfterRead, IdleQuit
<1>4. /\ y.private = x.private /\ y.ws = x.ws /\ y.closes = x.closes
      /\ y.dropped = x.dropped
      /\ y.chain # "ended" /\ x.closes \in Int
  <2>1. CASE y = z
    BY <1>1, <2>1 DEF Session
  <2>2. CASE y = WriteNext(z)
    <3>1. /\ WriteNext(z).private = z.private /\ WriteNext(z).ws = z.ws
          /\ WriteNext(z).closes = z.closes /\ WriteNext(z).chain = "write"
          /\ WriteNext(z).dropped = z.dropped
      BY DEF WriteNext, Session
    <3> HIDE DEF y
    <3> QED BY <1>1, <2>2, <3>1 DEF Session
  <2> QED BY <1>3, <2>1, <2>2
<1> HIDE DEF y
<1> QED BY <1>1, <1>2, <1>4 DEF Kept, Leaving, Ended

LEMMA InternalKept ==
    ASSUME IndInv, ClientInv, NEW s \in Sessions, Internal(s) \/ LoginAnswer(s)
    PROVE  /\ Kept(sess[s], sess'[s])
           /\ \A t \in Sessions : t # s => sess'[t] = sess[t]
<1> DEFINE x == sess[s]
<1>1. x \in Session /\ SessionInv(x) /\ sess \in [Sessions -> Session]
  BY DEF IndInv, TypeOK
<1>2. ASSUME NEW y, Becomes(s, y), Kept(x, y)
      PROVE  Kept(x, sess'[s]) /\ \A t \in Sessions : t # s => sess'[t] = sess[t]
  BY <1>1, <1>2 DEF Becomes
<1>3. ASSUME NEW y, Becomes(s, Released(y)), Kept(x, y)
      PROVE  Kept(x, sess'[s]) /\ \A t \in Sessions : t # s => sess'[t] = sess[t]
  BY <1>2, <1>3, ReleasedKept
<1>4. ASSUME NEW z, Reads(s, z)
      PROVE  \A t \in Sessions : t # s => sess'[t] = sess[t]
  BY <1>1, <1>4 DEF Reads, Becomes
<1>0. x.chain = "none" => x.timer = "off" /\ x.closes = 0
  BY <1>1 DEF SessionInv
<1>5. CASE IoHandler(s)
  <2>1. CASE OnEstablish(s)
    <3> DEFINE y == [x EXCEPT !.chain = NextStage(@), !.expiry = IoTimeout]
    <3>1. x.chain # "none" /\ (x.chain # "ended")
      BY <1>1, <1>0, <2>1 DEF OnEstablish, CanRead, Establishing, Live
    <3>2. /\ y.private = x.private /\ y.closes = x.closes /\ y.dropped = x.dropped /\ y.ws = x.ws
      BY <1>1, <3>1 DEF Session, WriteNext, CancelTimer
    <3>3. Becomes(s, y)
      BY <2>1 DEF OnEstablish
    <3> HIDE DEF y
    <3>4. Kept(x, y)
      BY <1>1, <3>1, <3>2, FieldsKept DEF Destroyed
    <3> QED BY <1>2, <3>3, <3>4
  <2>2. CASE OnHandshake(s)
    <3> DEFINE up == [x EXCEPT !.ws = "open", !.age = 0, !.expiry = 0, !.timer = "armed"]
               y == IF x.private THEN [up EXCEPT !.chain = "write", !.frame = "login"]
                    ELSE WriteNext(up)
    <3>1. x.chain = "handshake" /\ x.ws = "init"
      BY <1>1, <2>2 DEF OnHandshake, SessionInv, Establishing
    <3>2. y.private = x.private /\ y.closes = x.closes /\ y.dropped = x.dropped
      BY <1>1 DEF Session, WriteNext
    <3>3. Becomes(s, y)
      BY <2>2 DEF OnHandshake
    <3> HIDE DEF y
    <3>4. Kept(x, y)
      BY <1>1, <3>1, <3>2, FieldsKept DEF Destroyed
    <3> QED BY <1>2, <3>3, <3>4
  <2>3. CASE OnWrite(s)
    <3> DEFINE y == Written(x)
               z == Closing(y)
    <3>1. x.chain = "write" /\ x.ws = "open"
      BY <2>3 DEF OnWrite
    <3>2. /\ y.private = x.private /\ y.closes = x.closes /\ y.dropped = x.dropped
          /\ z.private = x.private /\ z.closes = x.closes /\ z.dropped = x.dropped
      BY <1>1 DEF Session, Written, Closing
    <3>3. Becomes(s, IF y.closes > 0 THEN z ELSE y)
      BY <2>3 DEF OnWrite
    <3> HIDE DEF y, z
    <3>4. Kept(x, y) /\ Kept(x, z)
      BY <1>1, <3>1, <3>2, FieldsKept DEF Destroyed
    <3> QED BY <1>2, <3>3, <3>4
  <2> QED BY <1>5, <2>1, <2>2, <2>3 DEF IoHandler
<1>6. CASE TimerHandler(s)
  <2>1. CASE TimerExpires(s)
    <3> DEFINE y == [x EXCEPT !.timer = "fired"]
    <3>1. x.chain # "none" /\ (x.timer # "off")
      BY <1>1, <1>0, <2>1 DEF TimerExpires, CanRead, Establishing, Live
    <3>2. /\ y.private = x.private /\ y.closes = x.closes /\ y.dropped = x.dropped /\ y.ws = x.ws /\ y.chain = x.chain
      BY <1>1, <3>1 DEF Session, WriteNext, CancelTimer
    <3>3. Becomes(s, y)
      BY <2>1 DEF TimerExpires
    <3> HIDE DEF y
    <3>4. Kept(x, y)
      BY <1>1, <3>1, <3>2, FieldsKept DEF Destroyed
    <3> QED BY <1>2, <3>3, <3>4
  <2>2. CASE OnPingTimerCancelled(s)
    <3> DEFINE y == [x EXCEPT !.timer = "off"]
    <3>1. x.chain # "none" /\ (x.timer # "off")
      BY <1>1, <1>0, <2>2 DEF OnPingTimerCancelled, CanRead, Establishing, Live
    <3>2. /\ y.private = x.private /\ y.closes = x.closes /\ y.dropped = x.dropped /\ y.ws = x.ws /\ y.chain = x.chain
      BY <1>1, <3>1 DEF Session, WriteNext, CancelTimer
    <3>3. Becomes(s, Released(y))
      BY <2>2 DEF OnPingTimerCancelled
    <3> HIDE DEF y
    <3>4. Kept(x, y)
      BY <1>1, <3>1, <3>2, FieldsKept DEF Destroyed
    <3> QED BY <1>3, <3>3, <3>4
  <2>3. CASE HardClose(s)
    <3> DEFINE y == [x EXCEPT !.timer = "off", !.ws = "closed"]
    <3>1. x.chain # "none" /\ (x.timer # "off")
      BY <1>1, <1>0, <2>3 DEF HardClose, CanRead, Establishing, Live
    <3>2. /\ y.private = x.private /\ y.closes = x.closes /\ y.dropped = x.dropped /\ y.ws = "closed" /\ y.chain = x.chain
      BY <1>1, <3>1 DEF Session, WriteNext, CancelTimer
    <3>3. Becomes(s, Released(y))
      BY <2>3 DEF HardClose
    <3> HIDE DEF y
    <3>4. Kept(x, y)
      BY <1>1, <3>1, <3>2, FieldsKept DEF Destroyed
    <3> QED BY <1>3, <3>3, <3>4
  <2>4. CASE Ping(s)
    <3> DEFINE y == [x EXCEPT !.timer = "armed", !.left = PingInterval, !.pinged = @ \/ x.ws = "open"]
    <3>1. x.chain # "none" /\ (x.timer # "off")
      BY <1>1, <1>0, <2>4 DEF Ping, CanRead, Establishing, Live
    <3>2. /\ y.private = x.private /\ y.closes = x.closes /\ y.dropped = x.dropped /\ y.ws = x.ws /\ y.chain = x.chain
      BY <1>1, <3>1 DEF Session, WriteNext, CancelTimer
    <3>3. Becomes(s, y)
      BY <2>4 DEF Ping
    <3> HIDE DEF y
    <3>4. Kept(x, y)
      BY <1>1, <3>1, <3>2, FieldsKept DEF Destroyed
    <3> QED BY <1>2, <3>3, <3>4
  <2> QED BY <1>6, <2>1, <2>2, <2>3, <2>4 DEF TimerHandler
<1>7. CASE OnClose(s)
  <2> DEFINE y == [CancelTimer(x) EXCEPT !.closes = @ - 1, !.dropped = FALSE,
                                       !.ws = "closed"]
  <2>1. /\ y.closes = x.closes - 1 /\ y.ws = "closed" /\ y.private = x.private /\ ~y.dropped
        /\ y.chain = x.chain /\ (y.timer = "off" <=> x.timer = "off")
    BY <1>1 DEF CancelTimer, Session
  <2>2. x # Unborn /\ x.closes \in Int
    BY <1>1, <1>7 DEF OnClose, CloseCompletes, Unborn, Session
  <2>3. Becomes(s, Released(y))
    BY <1>7 DEF OnClose
  <2> HIDE DEF y
  <2>4. Kept(x, y)
    BY <2>1, <2>2 DEF Kept, Leaving, Ended, Live, Destroyed
  <2> QED BY <1>3, <2>3, <2>4
<1>8. CASE Failure(s)
  <2>1. CASE OnEstablishError(s)
    <3> DEFINE y == [x EXCEPT !.chain = "ended"]
    <3>1. x.chain # "none" /\ (x.chain # "ended")
      BY <1>1, <1>0, <2>1 DEF OnEstablishError, CanRead, Establishing, Live
    <3>2. /\ y.private = x.private /\ y.closes = x.closes /\ y.dropped = x.dropped /\ y.ws = x.ws /\ y.chain = "ended"
      BY <1>1, <3>1 DEF Session, WriteNext, CancelTimer
    <3>3. Becomes(s, Released(y))
      BY <2>1 DEF OnEstablishError
    <3> HIDE DEF y
    <3>4. Kept(x, y)
      BY <1>1, <3>1, <3>2, FieldsKept DEF Destroyed
    <3> QED BY <1>3, <3>3, <3>4
  <2>2. CASE OnWriteError(s)
    <3> DEFINE y == [x EXCEPT !.chain = "ended", !.ws = "closed"]
    <3>1. x.chain # "none" /\ (x.chain # "ended")
      BY <1>1, <1>0, <2>2 DEF OnWriteError, CanRead, Establishing, Live
    <3>2. /\ y.private = x.private /\ y.closes = x.closes /\ y.dropped = x.dropped /\ y.ws = "closed" /\ y.chain = "ended"
      BY <1>1, <3>1 DEF Session, WriteNext, CancelTimer
    <3>3. Becomes(s, Released(y))
      BY <2>2 DEF OnWriteError
    <3> HIDE DEF y
    <3>4. Kept(x, y)
      BY <1>1, <3>1, <3>2, FieldsKept DEF Destroyed
    <3> QED BY <1>3, <3>3, <3>4
  <2>3. CASE OnReadFailed(s)
    <3> DEFINE y == [CancelTimer(x) EXCEPT !.chain = "ended", !.ws = "closed"]
    <3>1. x.chain # "none" /\ (x.chain # "ended")
      BY <1>1, <1>0, <2>3 DEF OnReadFailed, CanRead, Establishing, Live
    <3>2. /\ y.private = x.private /\ y.closes = x.closes /\ y.dropped = x.dropped /\ y.ws = "closed" /\ y.chain = "ended"
      BY <1>1, <3>1 DEF Session, WriteNext, CancelTimer
    <3>3. Becomes(s, Released(y))
      BY <2>3 DEF OnReadFailed
    <3> HIDE DEF y
    <3>4. Kept(x, y)
      BY <1>1, <3>1, <3>2, FieldsKept DEF Destroyed
    <3> QED BY <1>3, <3>3, <3>4
  <2> QED BY <1>8, <2>1, <2>2, <2>3 DEF Failure
<1>9. ASSUME NEW f, Answers(x, f), CanRead(x)
      PROVE  /\ Answered(x) \in Session /\ Answered(x).chain = "read"
             /\ Answered(x).closes = x.closes /\ Answered(x).private = x.private
             /\ Answered(x).ws = x.ws /\ Answered(x).dropped = x.dropped
  BY <1>1, <1>9, AnsweredInv DEF Answers, CanRead, Answered, Session
<1>10. CASE LoginAnswer(s)
  <2>1. PICK accepted \in BOOLEAN : OnReadLogin(s, accepted)
    BY <1>10 DEF LoginAnswer
  <2> DEFINE z == [Answered(x) EXCEPT !.authenticated = accepted]
  <2>2. Reads(s, z) /\ Answers(x, "login") /\ CanRead(x)
    BY <2>1 DEF OnReadLogin, Reads
  <2>3. /\ z \in Session /\ z.chain = "read" /\ z.closes = x.closes
        /\ z.private = x.private /\ z.ws = x.ws /\ z.dropped = x.dropped
    BY <1>9, <2>2 DEF Session
  <2> HIDE DEF z
  <2> QED BY <1>4, <2>2, <2>3, ReadsKept
<1>11. CASE Reading(s)
  <2>1. ASSUME NEW r \in Requests, OnReadSubscribe(s, r)
        PROVE  Kept(x, sess'[s]) /\ \A t \in Sessions : t # s => sess'[t] = sess[t]
    <3> DEFINE z == [Answered(x) EXCEPT !.subs = Append(@, r)]
    <3>1. Reads(s, z) /\ Answers(x, r) /\ CanRead(x)
      BY <2>1 DEF OnReadSubscribe, Reads
    <3>2. /\ z \in Session /\ z.chain = "read" /\ z.closes = x.closes
          /\ z.private = x.private /\ z.ws = x.ws /\ z.dropped = x.dropped
      <4>1. Append(Answered(x).subs, r) \in Seq(Requests)
        BY <1>9, <3>1, AppendProperties DEF Session
      <4> QED BY <1>9, <3>1, <4>1 DEF Session
    <3> HIDE DEF z
    <3> QED BY <1>4, <3>1, <3>2, ReadsKept
  <2>2. ASSUME NEW r \in Requests, OnReadUnsubscribe(s, r)
        PROVE  Kept(x, sess'[s]) /\ \A t \in Sessions : t # s => sess'[t] = sess[t]
    <3> DEFINE rest == RemoveFirst(x.subs, r)
               z == [x EXCEPT !.subs = rest]
    <3>1. Reads(s, z) /\ CanRead(x)
      BY <2>2 DEF OnReadUnsubscribe, Reads
    <3>2. /\ z \in Session /\ z.chain = "read" /\ z.closes = x.closes
          /\ z.private = x.private /\ z.ws = x.ws /\ z.dropped = x.dropped
      <4>1. rest \in Seq(Requests)
        BY <1>1, RemoveFirstType DEF Session
      <4> HIDE DEF rest
      <4> QED BY <1>1, <3>1, <4>1 DEF Session, CanRead
    <3> HIDE DEF z
    <3> QED BY <1>4, <3>1, <3>2, ReadsKept
  <2>3. CASE OnReadError(s)
    <3>1. Reads(s, Answered(x)) /\ Answers(x, Head(x.owed)) /\ CanRead(x)
      BY <2>3 DEF OnReadError, Reads, Answers
    <3> QED BY <1>4, <1>9, <3>1, ReadsKept
  <2>4. CASE OnReadPayload(s)
    <3>1. Reads(s, x) /\ x.chain = "read"
      BY <2>4 DEF OnReadPayload, Reads, CanRead
    <3> QED BY <1>1, <1>4, <3>1, ReadsKept
  <2>5. CASE OnReadMalformed(s)
    <3> DEFINE y == [StartClose(x) EXCEPT !.chain = "ended"]
    <3>1. x.chain = "read" /\ x.closes \in Nat /\ Live(x)
      BY <1>1, <2>5 DEF OnReadMalformed, CanRead, Session, Live, Destroyed
    <3>2. x.closes < CloseSlots(x)
      BY <3>1 DEF ClientInv, Closable, Ended, CloseSlots
    <3>6. /\ StartClose(x) \in Session /\ StartClose(x).private = x.private
          /\ StartClose(x).closes = x.closes + 1 /\ StartClose(x).dropped = x.dropped
      BY <1>1, <3>2, StartCloseKeeps
    <3>7. /\ y.private = x.private /\ y.closes = x.closes + 1 /\ y.chain = "ended"
          /\ y.dropped = x.dropped
      BY <3>6 DEF Session
    <3>3. Becomes(s, Released(y))
      BY <2>5 DEF OnReadMalformed
    <3>4. x # Unborn
      BY <3>1 DEF Unborn
    <3> HIDE DEF y
    <3>5. Kept(x, y)
      BY <3>1, <3>4, <3>7 DEF Kept, Leaving, Ended
    <3> QED BY <1>3, <3>3, <3>5
  <2>6. CASE OnPong(s)
    <3> DEFINE y == [x EXCEPT !.age = 0, !.pinged = FALSE]
    <3>1. x.chain # "none" /\ (x.chain # "ended")
      BY <1>1, <1>0, <2>6 DEF OnPong, CanRead, Establishing, Live
    <3>2. /\ y.private = x.private /\ y.closes = x.closes /\ y.dropped = x.dropped /\ y.ws = x.ws /\ y.chain = x.chain
      BY <1>1, <3>1 DEF Session, WriteNext, CancelTimer
    <3>3. Becomes(s, y)
      BY <2>6 DEF OnPong
    <3> HIDE DEF y
    <3>4. Kept(x, y)
      BY <1>1, <3>1, <3>2, FieldsKept DEF Destroyed
    <3> QED BY <1>2, <3>3, <3>4
  <2> QED BY <1>11, <2>1, <2>2, <2>3, <2>4, <2>5, <2>6 DEF Reading
<1>12. CASE Network(s)
  <2>1. CASE NetworkDies(s)
    <3> DEFINE y == [x EXCEPT !.net = "dead"]
    <3>1. x.chain # "none"
      BY <1>1, <1>0, <2>1 DEF NetworkDies, CanRead, Establishing, Live
    <3>2. /\ y.private = x.private /\ y.closes = x.closes /\ y.dropped = x.dropped /\ y.ws = x.ws /\ y.chain = x.chain /\ y.timer = x.timer
      BY <1>1, <3>1 DEF Session, WriteNext, CancelTimer
    <3>3. Becomes(s, y)
      BY <2>1 DEF NetworkDies
    <3> HIDE DEF y
    <3>4. Kept(x, y)
      BY <1>1, <3>1, <3>2, FieldsKept DEF Destroyed
    <3> QED BY <1>2, <3>3, <3>4
  <2>2. CASE NetworkHeals(s)
    <3> DEFINE y == [x EXCEPT !.net = "up"]
    <3>1. x.chain # "none"
      BY <1>1, <1>0, <2>2 DEF NetworkHeals, CanRead, Establishing, Live
    <3>2. /\ y.private = x.private /\ y.closes = x.closes /\ y.dropped = x.dropped /\ y.ws = x.ws /\ y.chain = x.chain /\ y.timer = x.timer
      BY <1>1, <3>1 DEF Session, WriteNext, CancelTimer
    <3>3. Becomes(s, y)
      BY <2>2 DEF NetworkHeals
    <3> HIDE DEF y
    <3>4. Kept(x, y)
      BY <1>1, <3>1, <3>2, FieldsKept DEF Destroyed
    <3> QED BY <1>2, <3>3, <3>4
  <2> QED BY <1>12, <2>1, <2>2 DEF Network
<1> QED BY <1>5, <1>6, <1>7, <1>8, <1>10, <1>11, <1>12 DEF Internal

----------------------------------------------------------------------------
(* The steps of the stream *)

LEMMA StreamInit == SInit => StreamInv
<1> SUFFICES ASSUME SInit PROVE StreamInv
  OBVIOUS
<1>1. IndInv
  BY InitInv DEF SInit
<1>2. ~Live(Unborn) /\ Unborn.closes = 0 /\ Ended(Unborn) = 0 /\ ~Unborn.dropped
  BY DEF Live, Unborn, Ended
<1>3. sess \in [Sessions -> Session] /\ \A s \in Sessions : sess[s] = Unborn
  BY <1>1 DEF SInit, Init, IndInv, TypeOK
<1>4. /\ current = NoSession /\ authenticated = FALSE /\ troubles = 0
      /\ pc \in [Callers -> {"idle"}] /\ built \in [Callers -> {NoSession}]
  BY DEF SInit
<1>5. StreamTypeOK
  <2>1. /\ sess \in [Sessions -> Session] /\ current \in Sessions \cup {NoSession}
        /\ authenticated \in BOOLEAN
    BY <1>3, <1>4
  <2>4. troubles \in 0..MaxTroubles
    <3>1. troubles = 0
      BY <1>4
    <3> QED BY <3>1
  <2>2. pc \in [Callers -> {"idle", "rebuild", "swapped", "reset"}]
    BY <1>4
  <2>3. built \in [Callers -> Sessions \cup {NoSession}]
    BY <1>4
  <2> QED BY <2>1, <2>2, <2>3, <2>4 DEF StreamTypeOK
<1>6. ClientInv
  BY <1>2, <1>3, <1>4 DEF ClientInv, Leaving, Closable
<1> QED BY <1>1, <1>5, <1>6 DEF StreamInv

\* A session that keeps its way leaves the client's view of it intact.
LEMMA KeptInv ==
    ASSUME StreamInv, UNCHANGED client, NEW s \in Sessions, Kept(sess[s], sess'[s]),
           \A t \in Sessions : t # s => sess'[t] = sess[t]
    PROVE  ClientInv'
<1>1. sess[s] # Unborn
  BY DEF Kept
<1>2. \A c \in Callers :
          IF pc'[c] \in {"swapped", "reset"}
          THEN built'[c] = current' /\ current' \in Sessions /\ sess'[current'] = Unborn
          ELSE built'[c] = NoSession
  BY <1>1 DEF client, StreamInv, ClientInv
<1>3. Replacing' = Replacing /\ \A t \in Sessions : Closable(t)' = Closable(t)
  BY DEF client, Replacing, Closable
<1>4. ASSUME NEW t \in Sessions
      PROVE  /\ Live(sess'[t]) => sess'[t].private
             /\ t # current' \/ Replacing' => Leaving(sess'[t])
             /\ sess'[t].closes <= Closable(t)' + Ended(sess'[t])
             /\ ~sess'[t].dropped
  <2>1. /\ Live(sess[t]) => sess[t].private
        /\ t # current \/ Replacing => Leaving(sess[t])
        /\ sess[t].closes <= Closable(t) + Ended(sess[t])
        /\ ~sess[t].dropped
    BY DEF StreamInv, ClientInv
  <2>2. CASE t # s
    BY <1>3, <2>1, <2>2 DEF client
  <2>3. CASE t = s
    <3>1. sess[t].closes \in Int /\ Closable(t) \in Int
      BY DEF StreamInv, IndInv, TypeOK, Session, Closable
    <3>2. /\ Live(sess'[t]) => Live(sess[t]) /\ sess'[t].private = sess[t].private
          /\ Leaving(sess[t]) => Leaving(sess'[t])
          /\ sess'[t].dropped => sess[t].dropped
          /\ sess'[t].closes \in Int
          /\ sess'[t].closes + Ended(sess[t]) <= sess[t].closes + Ended(sess'[t])
      BY <2>3 DEF Kept
    <3>3. sess'[t].closes <= Closable(t)' + Ended(sess'[t])
      BY <1>3, <2>1, <3>1, <3>2 DEF Ended
    <3> QED BY <1>3, <2>1, <3>2, <3>3 DEF client
  <2> QED BY <2>2, <2>3
<1> QED BY <1>2, <1>4 DEF ClientInv

LEMMA VenueStep == ASSUME StreamInv, NEW s \in Sessions, Venue(s) PROVE StreamInv'
<1>0. troubles' \in 0..MaxTroubles
  <2>1. troubles \in 0..MaxTroubles /\ MaxTroubles \in Nat
    BY DEF StreamInv, StreamTypeOK
  <2>2. troubles' = troubles \/ (troubles < MaxTroubles /\ troubles' = troubles + 1)
    BY DEF Venue, Spoil
  <2> QED BY <2>1, <2>2
<1>1. /\ Internal(s) \/ LoginAnswer(s)
      /\ UNCHANGED client /\ authenticated' \in BOOLEAN /\ troubles' \in 0..MaxTroubles
  <2>1. CASE \E accepted \in BOOLEAN : LoginLogged(s, accepted)
    <3>1. LoginAnswer(s) /\ UNCHANGED client /\ authenticated' \in BOOLEAN
      BY <2>1 DEF LoginLogged, LoginAnswer
    <3> QED BY <1>0, <3>1
  <2>2. CASE Routine(s) /\ UNCHANGED <<client, authenticated, troubles>>
    BY <2>2 DEF Routine, Internal, Reading, Network, StreamInv, StreamTypeOK
  <2>3. CASE Spoil(s) /\ ~LoginLogged(s, FALSE)
    <3>1. UNCHANGED <<client, authenticated>>
      BY <2>3 DEF Spoil, Trouble
    <3>2. NetworkDies(s) \/ OnReadMalformed(s) \/ OnReadError(s) \/ Failure(s)
      BY <2>3 DEF Spoil, Trouble
    <3>3. Internal(s)
      BY <3>2 DEF Internal, Reading, Network
    <3> QED BY <1>0, <3>1, <3>3 DEF StreamInv, StreamTypeOK
  <2> QED BY <2>1, <2>2, <2>3 DEF Venue
<1>2. IndInv'
  <2>1. Next
    BY <1>1 DEF Next, Step
  <2> QED BY <2>1, NextInv DEF StreamInv
<1>3. ClientInv'
  <2>1. /\ Kept(sess[s], sess'[s])
        /\ \A t \in Sessions : t # s => sess'[t] = sess[t]
    BY <1>1, InternalKept DEF StreamInv
  <2> QED BY <1>1, <2>1, KeptInv
<1> QED BY <1>1, <1>2, <1>3 DEF StreamInv, StreamTypeOK, IndInv, TypeOK, client

LEMMA TimeStep == StreamInv /\ STick => StreamInv'
<1> SUFFICES ASSUME StreamInv, STick PROVE StreamInv'
  OBVIOUS
<1>1. IndInv' /\ UNCHANGED <<client, authenticated, troubles>>
  BY NextInv DEF STick, Next, StreamInv
<1>2. ASSUME NEW s \in Sessions
      PROVE  /\ Live(sess'[s]) => Live(sess[s])
             /\ sess'[s].private = sess[s].private /\ sess'[s].ws = sess[s].ws
             /\ sess'[s].closes = sess[s].closes /\ Ended(sess'[s]) = Ended(sess[s])
             /\ sess'[s].dropped = sess[s].dropped
             /\ sess[s] = Unborn => sess'[s] = Unborn
  <2>1. sess'[s] = Aged(sess[s]) /\ sess[s] \in Session
    BY DEF STick, Tick, StreamInv, IndInv, TypeOK
  <2>2. CASE ~Live(sess[s])
    BY <2>1, <2>2 DEF Aged
  <2>3. CASE Live(sess[s])
    <3>1. sess[s] # Unborn
      BY <2>3 DEF Live, Unborn
    <3> QED BY <2>1, <2>3, <3>1 DEF Aged, Ended, Session
  <2> QED BY <2>2, <2>3
<1>3. Replacing' = Replacing /\ \A t \in Sessions : Closable(t)' = Closable(t)
  BY <1>1 DEF client, Replacing, Closable
<1>4. ASSUME NEW s \in Sessions
      PROVE  /\ Live(sess'[s]) => sess'[s].private
             /\ s # current' \/ Replacing' => Leaving(sess'[s])
             /\ sess'[s].closes <= Closable(s)' + Ended(sess'[s])
             /\ ~sess'[s].dropped
  BY <1>1, <1>2, <1>3 DEF StreamInv, ClientInv, Leaving, client
<1>5. \A c \in Callers :
          IF pc'[c] \in {"swapped", "reset"}
          THEN built'[c] = current' /\ current' \in Sessions /\ sess'[current'] = Unborn
          ELSE built'[c] = NoSession
  BY <1>1, <1>2 DEF StreamInv, ClientInv, client
<1>6. ClientInv'
  BY <1>4, <1>5 DEF ClientInv
<1> QED BY <1>1, <1>6 DEF StreamInv, StreamTypeOK, IndInv, TypeOK, client

LEMMA CallerStep ==
    ASSUME OneCallerOnly, StreamInv, NEW c \in Callers, Subscribing(c) PROVE StreamInv'
<1> DEFINE x == sess[current]
<1>1. /\ sess \in [Sessions -> Session] /\ \A s \in Sessions : SessionInv(sess[s])
      /\ \A d \in Callers : d = c
      /\ pc \in [Callers -> {"idle", "rebuild", "swapped", "reset"}]
      /\ built \in [Callers -> Sessions \cup {NoSession}]
      /\ current \in Sessions \cup {NoSession}
  BY DEF StreamInv, IndInv, TypeOK, StreamTypeOK, OneCallerOnly
<1>2. Replacing <=> pc[c] = "rebuild"
  BY <1>1 DEF Replacing
<1>3. ASSUME NEW s \in Sessions
      PROVE  /\ Live(sess[s]) => sess[s].private
             /\ s # current \/ Replacing => Leaving(sess[s])
             /\ sess[s].closes <= Closable(s) + Ended(sess[s])
             /\ ~sess[s].dropped
             /\ sess[s].closes \in Int
  BY <1>1 DEF StreamInv, ClientInv, Session
<1>4. CASE Guard(c)
  <2>1. pc[c] = "idle" /\ UNCHANGED <<current, authenticated, built, troubles>>
    BY <1>4 DEF Guard
  <2>2. built[c] = NoSession
    BY <2>1 DEF StreamInv, ClientInv
  <2>3. Locks(current) => current \in Sessions /\ Live(x)
    BY <1>1, <2>2 DEF Locks
  <2>4. CASE IsSessionAlive
    <3> DEFINE y == WriteSubscriptionRequest(x, Orders)
    <3>1. /\ current \in Sessions /\ Live(x) /\ Becomes(current, y) /\ UNCHANGED pc
      BY <1>4, <2>3, <2>4 DEF Guard, IsSessionAlive, Becomes
    <3>2. x \in Session /\ SessionInv(x) /\ y \in Session /\ SessionInv(y)
      BY <1>1, <3>1, WriteRequestInv
    <3>3. IndInv'
      BY <3>1, <3>2, BecomesInv DEF StreamInv
    <3>4. /\ y.private = x.private /\ y.closes = x.closes /\ y.ws = x.ws /\ y.chain = x.chain
          /\ y.timer = x.timer /\ y.dropped = x.dropped
      BY <3>2 DEF WriteSubscriptionRequest, Session
    <3>5. Kept(x, y)
      BY <3>1, <3>2, <3>4, FieldsKept DEF Live, Destroyed
    <3> HIDE DEF y
    <3>6. sess'[current] = y /\ \A t \in Sessions : t # current => sess'[t] = sess[t]
      BY <1>1, <3>1 DEF Becomes
    <3>7. ClientInv'
      BY <2>1, <3>1, <3>5, <3>6, KeptInv DEF client
    <3> QED BY <2>1, <3>1, <3>3, <3>7 DEF StreamInv, StreamTypeOK, IndInv, TypeOK
  <2>5. CASE ~IsSessionAlive
    <3>1. /\ pc' = [pc EXCEPT ![c] = "rebuild"]
          /\ sess' = IF Locks(current) THEN [sess EXCEPT ![current] = StartClose(@)] ELSE sess
      BY <1>4, <2>5 DEF Guard
    <3>2. pc'[c] = "rebuild" /\ Replacing' /\ \A s \in Sessions : Closable(s)' = 1
      BY <1>1, <3>1 DEF Replacing, Closable
    <3>3. CASE ~Locks(current)
      <4>1. UNCHANGED sess
        BY <3>1, <3>3
      <4>2. ASSUME NEW s \in Sessions PROVE Leaving(sess[s])
        <5>1. s = current => ~Live(sess[s])
          BY <3>3, NoSessionAssumption DEF Locks
        <5> QED BY <1>3, <5>1 DEF Leaving
      <4>3. \A s \in Sessions : sess[s].closes <= 1 + Ended(sess[s])
        BY <1>3 DEF Closable, Ended
      <4>4. ClientInv'
        BY <1>1, <1>3, <2>1, <2>2, <3>2, <4>1, <4>2, <4>3 DEF ClientInv, Leaving, Ended, Live,
           Destroyed
      <4> QED BY <1>1, <2>1, <3>1, <4>1, <4>4 DEF StreamInv, StreamTypeOK, IndInv, TypeOK
    <3>4. CASE Locks(current)
      <4> DEFINE y == StartClose(x)
      <4>1. /\ current \in Sessions /\ Live(x) /\ IsStale(x) /\ x \in Session /\ SessionInv(x)
        BY <1>1, <2>3, <2>5, <3>4 DEF IsSessionAlive
      <4>2. x.ws # "init"
        BY <4>1, Bounds DEF IsStale, SessionInv
      <4>3. x.closes <= Ended(x) /\ x.closes \in Int
        BY <1>2, <1>3, <2>1, <4>1 DEF Closable, Ended
      <4>4. x.closes < CloseSlots(x)
        BY <4>3 DEF Ended, CloseSlots
      <4>5. y \in Session /\ SessionInv(y)
        BY <4>1, <4>2, StartCloseInv
      <4>6. /\ y.private = x.private /\ y.closes = x.closes + 1
            /\ y.dropped = x.dropped /\ y.chain = x.chain
        BY <4>1, <4>4, StartCloseKeeps
      <4>7. Becomes(current, y)
        BY <3>1, <3>4 DEF Becomes
      <4> HIDE DEF y
      <4>8. sess'[current] = y /\ \A t \in Sessions : t # current => sess'[t] = sess[t]
        <5>1. sess \in [Sessions -> Session] /\ current \in Sessions
          BY <1>1, <4>1
        <5> QED BY <4>7, <5>1 DEF Becomes
      <4>9. IndInv'
        BY <4>1, <4>5, <4>7, BecomesInv DEF StreamInv
      <4>10. ASSUME NEW s \in Sessions
             PROVE  /\ Live(sess'[s]) => sess'[s].private
                    /\ Leaving(sess'[s])
                    /\ sess'[s].closes <= 1 + Ended(sess'[s])
                    /\ ~sess'[s].dropped
        <5>1. CASE s = current
          <6>1. /\ x.private /\ Ended(y) = Ended(x) /\ y.closes <= 1 + Ended(x)
                /\ y.closes > 0 /\ ~y.dropped
            <7>1. x.closes \in Nat
              BY <4>1 DEF Session
            <7> QED BY <1>3, <4>1, <4>3, <4>6, <7>1 DEF Ended
          <6> QED BY <4>6, <4>8, <5>1, <6>1 DEF Leaving
        <5>2. CASE s # current
          BY <1>3, <4>8, <5>2 DEF Closable, Ended
        <5> QED BY <5>1, <5>2
      <4>11. ClientInv'
        BY <1>1, <2>1, <2>2, <3>2, <4>10 DEF ClientInv
      <4> QED BY <1>1, <2>1, <3>1, <4>9, <4>11 DEF StreamInv, StreamTypeOK, IndInv, TypeOK
    <3> QED BY <3>3, <3>4
  <2> QED BY <2>4, <2>5
<1>5. CASE Swap(c)
  <2>1. PICK s \in Sessions : /\ sess' = [sess EXCEPT ![s] = Unborn] /\ current' = s
                              /\ built' = [built EXCEPT ![c] = s]
    BY <1>5 DEF Swap
  <2>2. pc[c] = "rebuild" /\ pc' = [pc EXCEPT ![c] = "swapped"] /\ UNCHANGED <<authenticated, troubles>>
    BY <1>5 DEF Swap
  <2>3. IndInv'
    BY <2>1, UnbornInv, BecomesInv DEF Becomes, StreamInv
  <2>4. /\ pc'[c] = "swapped" /\ built'[c] = s /\ sess'[s] = Unborn /\ ~Replacing'
        /\ \A t \in Sessions : t # s => sess'[t] = sess[t]
    BY <1>1, <2>1, <2>2 DEF Replacing
  <2>5. ~Live(Unborn) /\ Unborn.closes = 0 /\ Ended(Unborn) = 0 /\ ~Unborn.dropped
    BY DEF Live, Unborn, Ended
  <2>6. ASSUME NEW t \in Sessions
        PROVE  /\ Live(sess'[t]) => sess'[t].private
               /\ t # current' \/ Replacing' => Leaving(sess'[t])
               /\ sess'[t].closes <= Closable(t)' + Ended(sess'[t])
               /\ ~sess'[t].dropped
    <3>1. CASE t = s
      BY <2>1, <2>4, <2>5, <3>1 DEF Closable
    <3>2. CASE t # s
      <4>1. sess'[t] = sess[t] /\ Closable(t)' = 1 /\ Replacing
        BY <1>2, <2>1, <2>2, <2>4, <3>2 DEF Closable
      <4> QED BY <1>3, <4>1 DEF Leaving, Closable
    <3> QED BY <3>1, <3>2
  <2>7. ClientInv'
    BY <1>1, <2>1, <2>4, <2>6 DEF ClientInv
  <2> QED BY <1>1, <2>1, <2>2, <2>3, <2>7 DEF StreamInv, StreamTypeOK, IndInv, TypeOK
<1>6. CASE ResetAuth(c)
  <2>1. /\ pc[c] = "swapped" /\ pc' = [pc EXCEPT ![c] = "reset"] /\ authenticated' = FALSE
        /\ UNCHANGED <<sess, current, built, troubles>>
    BY <1>6 DEF ResetAuth
  <2>2. pc'[c] = "reset" /\ ~Replacing' /\ ~Replacing
    BY <1>1, <1>2, <2>1 DEF Replacing
  <2>3. ClientInv'
    BY <1>1, <2>1, <2>2 DEF StreamInv, ClientInv, Leaving, Closable, Ended, Live, Destroyed
  <2> QED BY <1>1, <2>1, <2>3 DEF StreamInv, StreamTypeOK, IndInv, TypeOK, SessionInv
<1>7. CASE RunSession(c)
  <2>1. /\ pc[c] = "reset" /\ pc' = [pc EXCEPT ![c] = "idle"]
        /\ built' = [built EXCEPT ![c] = NoSession]
        /\ UNCHANGED <<current, authenticated, troubles>>
    BY <1>7 DEF RunSession
  <2>2. built[c] = current /\ current \in Sessions
    BY <2>1 DEF StreamInv, ClientInv
  <2> DEFINE y == WriteSubscriptionRequest(Started(TRUE), Orders)
  <2>3. Run(current, Orders, TRUE) /\ Becomes(current, y)
    BY <1>7, <2>2 DEF RunSession, Run
  <2>4. IndInv'
    BY <2>2, <2>3, RunStep DEF StreamInv
  <2>5. y.private = TRUE /\ y.closes = 0 /\ y.chain = "resolve" /\ ~y.dropped
    BY DEF WriteSubscriptionRequest, Started, Unborn
  <2> HIDE DEF y
  <2>6. /\ sess'[current] = y /\ \A t \in Sessions : t # current => sess'[t] = sess[t]
        /\ pc'[c] = "idle" /\ built'[c] = NoSession /\ ~Replacing' /\ ~Replacing
    <3>1. sess'[current] = y /\ \A t \in Sessions : t # current => sess'[t] = sess[t]
      <4>1. sess \in [Sessions -> Session]
        BY <1>1
      <4> QED BY <2>2, <2>3, <4>1 DEF Becomes
    <3>2. pc'[c] = "idle" /\ built'[c] = NoSession
      BY <1>1, <2>1
    <3> QED BY <1>1, <1>2, <2>1, <3>1, <3>2 DEF Replacing
  <2>7. ASSUME NEW t \in Sessions
        PROVE  /\ Live(sess'[t]) => sess'[t].private
               /\ t # current' \/ Replacing' => Leaving(sess'[t])
               /\ sess'[t].closes <= Closable(t)' + Ended(sess'[t])
               /\ ~sess'[t].dropped
    <3>1. CASE t = current
      BY <2>1, <2>5, <2>6, <3>1 DEF Closable, Ended
    <3>2. CASE t # current
      BY <1>3, <2>1, <2>6, <3>2 DEF Closable
    <3> QED BY <3>1, <3>2
  <2>8. ClientInv'
    BY <1>1, <2>1, <2>6, <2>7 DEF ClientInv
  <2> QED BY <1>1, <2>1, <2>4, <2>8 DEF StreamInv, StreamTypeOK, IndInv, TypeOK
<1> QED BY <1>4, <1>5, <1>6, <1>7 DEF Subscribing

LEMMA StreamInvariance == ASSUME OneCallerOnly PROVE SSpec => []StreamInv
<1>1. StreamInv /\ UNCHANGED svars => StreamInv'
  BY DEF svars, StreamInv, IndInv, TypeOK, StreamTypeOK, ClientInv, SessionInv, Leaving,
     Closable, Replacing, Ended
<1>2. StreamInv /\ [SNext]_svars => StreamInv'
  BY <1>1, VenueStep, TimeStep, CallerStep DEF SNext
<1> QED BY <1>2, StreamInit, PTL DEF SSpec

\* Every variable of the client and of its sessions keeps its type.
THEOREM StreamTypeCorrect == ASSUME OneCallerOnly PROVE SSpec => []StreamTypeOK
<1>1. StreamInv => StreamTypeOK
  BY DEF StreamInv
<1> QED BY <1>1, StreamInvariance, PTL

\* Only the current session can still open: whatever it replaced is closing, so no
\* two sessions stream orders to the same callback for long (subscribe()).
THEOREM OnlyStream == ASSUME OneCallerOnly PROVE SSpec => []OneStream
<1>1. StreamInv => OneStream
  BY DEF StreamInv, ClientInv, OneStream, Leaving
<1> QED BY <1>1, StreamInvariance, PTL

\* No async_close of a session is ever dropped: the owner closes a session once,
\* when it replaces it, and a message that cannot be parsed ends the read chain, so
\* closeWs() finds room with Beast although neither asks for it.
THEOREM NoneDropped == ASSUME OneCallerOnly PROVE SSpec => []NoCloseDropped
<1>1. StreamInv => NoCloseDropped
  BY DEF StreamInv, ClientInv, NoCloseDropped
<1> QED BY <1>1, StreamInvariance, PTL

=============================================================================
