---------------------------- MODULE MessageProofs ---------------------------
(***************************************************************************)
(* Proofs about messages.  About ClientServer, for every number of         *)
(* clients, every set of requests, room on the connections and width of    *)
(* the sequence numbers: the types, that a call never takes the answer of  *)
(* another one, and that the flags the cycle tests stand for the           *)
(* subscriptions of the clients there are.  About Transceiver, for every   *)
(* set of messages, length of the header and room: the types, that the     *)
(* receiver stays in step with the stream wherever it is cut, and that     *)
(* each step is one of an ordered, lossless stream of messages.            *)
(***************************************************************************)
EXTENDS ClientServer, Transceiver, SequenceTheorems, WellFoundedInduction, TLAPS

----------------------------------------------------------------------------
(* The clients that are left, in their order                               *)

LEMMA LeastNumber ==
  ASSUME NEW T, T \subseteq Nat, T # {}
  PROVE  \E x \in T : \A y \in T : x <= y
<1> DEFINE R == OpToRel(<, Nat)
<1>1. PICK x \in T : \A y \in T : ~ (<<y, x>> \in R)
  BY WFMin, NatLessThanWellFounded, Zenon
<1>2. \A y, z \in Nat : y < z => <<y, z>> \in R
  BY SMT DEF OpToRel
<1> HIDE DEF R
<1>3. ASSUME NEW y \in T PROVE x <= y
  <2>1. x \in Nat /\ y \in Nat
    OBVIOUS
  <2>2. ~(y < x)
    BY <1>1, <1>2, <2>1, Zenon
  <2>3. QED
    BY <2>1, <2>2
<1>4. QED
  BY <1>3

\* A client that is not in S is left out.
LEMMA OrderSkips ==
  ASSUME NEW X, NEW s \in Seq(X), NEW x \in X, NEW S, x \notin S, NEW t \in Seq(S), InOrder(t, s, S)
  PROVE  InOrder(t, Append(s, x), S)
<1> DEFINE u == Append(s, x)
<1>1. /\ Len(s) \in Nat /\ DOMAIN s = 1..Len(s) /\ DOMAIN u = 1..(Len(s) + 1)
      /\ u[Len(s) + 1] = x /\ \A i \in DOMAIN s : u[i] = s[i]
  OBVIOUS
<1> HIDE DEF u
<1>2. DOMAIN s \subseteq DOMAIN u /\ \A i \in DOMAIN u : i \in DOMAIN s \/ u[i] = x
  BY <1>1
<1>3. Range(t) = Range(u) \cap S
  BY <1>1, <1>2 DEF InOrder, Range
<1>4. ASSUME NEW i \in DOMAIN t, NEW j \in DOMAIN t, i < j
      PROVE  \E k, l \in DOMAIN u : k < l /\ u[k] = t[i] /\ u[l] = t[j]
  <2>1. PICK k \in DOMAIN s, l \in DOMAIN s : k < l /\ s[k] = t[i] /\ s[l] = t[j]
    BY <1>4 DEF InOrder
  <2>2. QED
    BY <1>1, <1>2, <2>1
<1>5. InOrder(t, u, S)
  BY <1>3, <1>4 DEF InOrder
<1>6. QED
  BY <1>5 DEF u

\* A client that is in S comes last.
LEMMA OrderGrows ==
  ASSUME NEW X, NEW s \in Seq(X), NEW x \in X, IsInjective(Append(s, x)),
         NEW S, x \in S, NEW t \in Seq(S), InOrder(t, s, S)
  PROVE  InOrder(Append(t, x), Append(s, x), S)
<1> DEFINE u == Append(s, x)
           v == Append(t, x)
           m == Len(s) + 1
           n == Len(t) + 1
<1>1. /\ Len(s) \in Nat /\ DOMAIN s = 1..Len(s) /\ DOMAIN u = 1..m
      /\ u[m] = x /\ \A i \in DOMAIN s : u[i] = s[i]
  OBVIOUS
<1>2. /\ Len(t) \in Nat /\ DOMAIN t = 1..Len(t) /\ DOMAIN v = 1..n
      /\ v[n] = x /\ \A i \in DOMAIN t : v[i] = t[i]
  OBVIOUS
<1>3. /\ m \in DOMAIN u /\ m \notin DOMAIN s /\ \A i \in DOMAIN u : i \in DOMAIN s \/ i = m
      /\ \A i \in DOMAIN s : i \in DOMAIN u /\ i < m
      /\ n \in DOMAIN v /\ n \notin DOMAIN t /\ \A i \in DOMAIN v : i \in DOMAIN t \/ i = n
      /\ \A i \in DOMAIN t : i \in DOMAIN v /\ i < n
  BY <1>1, <1>2
<1>4. IsInjective(u)
  OBVIOUS
<1>5. \A i \in DOMAIN v, j \in DOMAIN v : i < j => i \in DOMAIN t
  BY <1>2
<1> HIDE DEF u, v, m, n
<1>6. Range(t) = Range(s) \cap S /\ IsInjective(t)
  BY DEF InOrder
<1>7. x \notin Range(s)
  BY <1>1, <1>3, <1>4 DEF Range, IsInjective
<1>8. Range(u) = Range(s) \cup {x} /\ Range(v) = Range(t) \cup {x}
  BY <1>1, <1>2, <1>3 DEF Range
<1>9. \A i \in DOMAIN t : t[i] \in Range(s) /\ t[i] # x
  BY <1>6, <1>7 DEF Range
<1>10. IsInjective(v)
  BY <1>2, <1>3, <1>6, <1>9 DEF IsInjective
<1>11. ASSUME NEW i \in DOMAIN v, NEW j \in DOMAIN v, i < j
       PROVE  \E k, l \in DOMAIN u : k < l /\ u[k] = v[i] /\ u[l] = v[j]
  <2>1. i \in DOMAIN t
    BY <1>5, <1>11
  <2>2. CASE j = n
    <3>1. PICK k \in DOMAIN s : s[k] = t[i]
      BY <1>9, <2>1 DEF Range
    <3>2. QED
      BY <1>1, <1>2, <1>3, <2>1, <2>2, <3>1
  <2>3. CASE j \in DOMAIN t
    <3>1. PICK k \in DOMAIN s, l \in DOMAIN s : k < l /\ s[k] = t[i] /\ s[l] = t[j]
      BY <1>11, <2>1, <2>3 DEF InOrder
    <3>2. QED
      BY <1>1, <1>2, <1>3, <2>1, <2>3, <3>1
  <2>4. QED
    BY <1>3, <2>2, <2>3
<1>12. InOrder(v, u, S)
  BY <1>6, <1>8, <1>10, <1>11 DEF InOrder
<1>13. QED
  BY <1>12 DEF u, v

LEMMA SeqOfIsSeq ==
  ASSUME NEW S, NEW n \in Nat, NEW t
  PROVE  t \in SeqOf(S, n) <=> t \in Seq(S) /\ Len(t) <= n
<1>1. ASSUME t \in SeqOf(S, n) PROVE t \in Seq(S) /\ Len(t) <= n
  <2>1. PICK m \in 0..n : t \in [1..m -> S]
    BY <1>1 DEF SeqOf
  <2>2. t \in Seq(S)
    BY <2>1, SeqDef
  <2>3. Len(t) \in Nat /\ 1..Len(t) = 1..m
    BY <2>1, <2>2, LenProperties
  <2>4. \A k, l \in Nat : 1..k = 1..l => k <= l
    <3>1. SUFFICES ASSUME NEW k \in Nat, NEW l \in Nat, 1..k = 1..l, k > 0 PROVE k <= l
      OBVIOUS
    <3>2. k \in 1..k
      BY <3>1
    <3>3. k \in 1..l
      BY <3>1, <3>2
    <3>4. QED
      BY <3>3
  <2>5. QED
    BY <2>2, <2>3, <2>4
<1>2. ASSUME t \in Seq(S), Len(t) <= n PROVE t \in SeqOf(S, n)
  <2>1. Len(t) \in 0..n /\ t \in [1..Len(t) -> S]
    BY <1>2
  <2>2. QED
    BY <2>1 DEF SeqOf
<1>3. QED
  BY <1>1, <1>2

\* What is to be shown of a sequence s for it to be divided.
HasPart(s, S) == \E t \in Seq(S) : Len(t) <= Len(s) /\ InOrder(t, s, S)

LEMMA PartGrows ==
  ASSUME NEW X, NEW s \in Seq(X), NEW x \in X, IsInjective(Append(s, x)), NEW S, HasPart(s, S)
  PROVE  HasPart(Append(s, x), S)
<1>1. PICK t \in Seq(S) : Len(t) <= Len(s) /\ InOrder(t, s, S)
  BY DEF HasPart
<1>2. Len(Append(s, x)) = Len(s) + 1 /\ Len(s) \in Nat /\ Len(t) \in Nat
  OBVIOUS
<1>3. CASE x \in S
  <2>1. Append(t, x) \in Seq(S) /\ Len(Append(t, x)) = Len(t) + 1
    BY <1>3
  <2>2. InOrder(Append(t, x), Append(s, x), S)
    BY <1>1, <1>3, OrderGrows
  <2>3. Len(Append(t, x)) <= Len(Append(s, x))
    BY <1>1, <1>2, <2>1
  <2>4. QED
    BY <2>1, <2>2, <2>3 DEF HasPart
<1>4. CASE x \notin S
  <2>1. InOrder(t, Append(s, x), S)
    BY <1>1, <1>4, OrderSkips
  <2>2. QED
    BY <1>1, <1>2, <2>1 DEF HasPart
<1>5. QED
  BY <1>3, <1>4

\* By the shortest sequence without one: it is not empty, and the one without
\* its last element has a part.
LEMMA PartExists ==
  ASSUME NEW X, NEW S, NEW s \in Seq(X), IsInjective(s)
  PROVE  HasPart(s, S)
<1> DEFINE T == {n \in Nat : \E r \in Seq(X) : Len(r) = n /\ IsInjective(r) /\ ~HasPart(r, S)}
<1> SUFFICES ASSUME T # {} PROVE FALSE
  <2>1. Len(s) \in Nat
    OBVIOUS
  <2>2. QED
    BY <2>1
<1>1. PICK n \in T : \A k \in T : n <= k
  <2>1. T \subseteq Nat
    OBVIOUS
  <2> HIDE DEF T
  <2>2. QED
    BY <2>1, LeastNumber
<1>2. PICK r \in Seq(X) : Len(r) = n /\ IsInjective(r) /\ ~HasPart(r, S)
  OBVIOUS
<1>3. CASE r = <<>>
  <2>1. <<>> \in Seq(S) /\ Len(<<>>) <= Len(r) /\ DOMAIN r = {} /\ DOMAIN <<>> = {}
    BY <1>3
  <2>2. InOrder(<<>>, r, S)
    BY <2>1 DEF InOrder, IsInjective, Range
  <2>3. QED
    BY <1>2, <2>1, <2>2 DEF HasPart
<1>4. CASE r # <<>>
  <2>1. PICK q \in Seq(X), x \in X : r = Append(q, x)
    BY <1>4, SequenceEmptyOrAppend
  <2>2. Len(r) = Len(q) + 1 /\ Len(q) \in Nat /\ DOMAIN q \subseteq DOMAIN r /\ \A i \in DOMAIN q : r[i] = q[i]
    BY <2>1
  <2>3. IsInjective(q)
    BY <1>2, <2>2 DEF IsInjective
  <2>4. HasPart(q, S)
    <3>1. ~(n <= Len(q)) /\ Len(q) \in Nat
      BY <1>2, <2>2
    <3>2. Len(q) \notin T
      BY <1>1, <3>1
    <3>3. QED
      BY <2>3, <3>1, <3>2
  <2>5. QED
    BY <1>2, <2>1, <2>4, PartGrows
<1>5. QED
  BY <1>3, <1>4

LEMMA SelectedIs ==
  ASSUME NEW X, NEW S, NEW s \in Seq(X), IsInjective(s)
  PROVE  /\ Selected(s, S) \in Seq(S) /\ IsInjective(Selected(s, S))
         /\ Range(Selected(s, S)) = Range(s) \cap S
<1>1. PICK t \in Seq(S) : Len(t) <= Len(s) /\ InOrder(t, s, S)
  BY PartExists DEF HasPart
<1>2. Len(s) \in Nat
  OBVIOUS
<1>3. t \in SeqOf(S, Len(s))
  BY <1>1, <1>2, SeqOfIsSeq
<1>4. Selected(s, S) \in SeqOf(S, Len(s)) /\ InOrder(Selected(s, S), s, S)
  BY <1>1, <1>3, Zenon DEF Selected
<1>5. QED
  BY <1>2, <1>4, SeqOfIsSeq DEF InOrder

----------------------------------------------------------------------------
(* The messages under way                                                  *)

MessageIds == Ids \cup {"PING"}
ReplyIds == {"PONG", "REPLY", "RUNSTATE", "EXCEPTION", "MAINTREQ", "CPUDUMP", "MEMORY"}
\* The calls there can be, and None.
Calls == [id : Ids \ Asynchronous, seq : Seqs] \cup {None}

\* Messages under way from and to a client that is in the call k: live is what
\* belongs to this call.
UpMessages(k) ==
  {m \in [id : MessageIds, seq : Seqs, live : BOOLEAN] :
     m.live = ([id |-> m.id, seq |-> m.seq] = k)}
DownMessages(k) ==
  {m \in [id : ReplyIds, to : [id : MessageIds \cup {"none"}, seq : Seqs], live : BOOLEAN] :
     m.live = (m.to = k /\ k # None)}

\* The messages belong to the calls the clients are in.
MessagesFit ==
  /\ call \in [Clients -> Calls] /\ DOMAIN up = Clients /\ DOMAIN down = Clients
  /\ \A c \in Clients : up[c] \in Seq(UpMessages(call[c])) /\ down[c] \in Seq(DownMessages(call[c]))

LEMMA SeqNumber == 0 \in Seqs /\ \A n \in Seqs : NextSeq(n) \in Seqs
BY ClientServerAssumption, SMT DEF Seqs, NextSeq

LEMMA NoneIs == None.id = "none" /\ None.seq = 0 /\ "none" \notin MessageIds /\ Ids \subseteq MessageIds
BY DEF None, MessageIds, Ids

LEMMA NoCallIsNone ==
  ASSUME NEW m, m.id \in MessageIds
  PROVE  [id |-> m.id, seq |-> m.seq] # None
BY NoneIs DEF None

LEMMA NoticeFits ==
  ASSUME NEW id \in ReplyIds, NEW k
  PROVE  Notice(id) \in DownMessages(k)
<1>1. /\ Notice(id).live = FALSE /\ Notice(id).to = None
      /\ Notice(id) \in [id : ReplyIds, to : [id : MessageIds \cup {"none"}, seq : Seqs], live : BOOLEAN]
  BY SeqNumber DEF Notice, None
<1>2. (Notice(id).to = k /\ k # None) = FALSE
  BY <1>1
<1>3. QED
  BY <1>1, <1>2 DEF DownMessages

LEMMA AnswerFits ==
  ASSUME NEW k, NEW m \in UpMessages(k), m.id \in DOMAIN Replies
  PROVE  Answer(m) \in DownMessages(k)
<1>1. /\ m.id \in MessageIds /\ m.seq \in Seqs /\ m.live \in BOOLEAN
      /\ m.live = ([id |-> m.id, seq |-> m.seq] = k)
  BY DEF UpMessages
<1>2. Replies[m.id] \in ReplyIds
  <2>1. m.id \in {"PING", "RUN", "STOP", "OPT", "GET_RUNSTATE"}
    BY DEF Replies
  <2>2. /\ Replies["PING"] = "PONG" /\ Replies["RUN"] = "REPLY" /\ Replies["STOP"] = "REPLY"
        /\ Replies["OPT"] = "REPLY" /\ Replies["GET_RUNSTATE"] = "RUNSTATE"
    BY DEF Replies
  <2>3. QED
    BY <2>1, <2>2 DEF ReplyIds
<1>3. /\ Answer(m).live = m.live /\ Answer(m).to = [id |-> m.id, seq |-> m.seq]
      /\ Answer(m) \in [id : ReplyIds, to : [id : MessageIds \cup {"none"}, seq : Seqs], live : BOOLEAN]
  BY <1>1, <1>2 DEF Answer
<1>4. [id |-> m.id, seq |-> m.seq] # None
  BY <1>1, NoCallIsNone
<1>5. (Answer(m).to = k /\ k # None) = ([id |-> m.id, seq |-> m.seq] = k)
  BY <1>3, <1>4
<1>6. QED
  BY <1>1, <1>3, <1>5 DEF DownMessages

\* A message of a call that is over.
LEMMA ForgetUp ==
  ASSUME NEW k, NEW q \in Seq(UpMessages(k))
  PROVE  Forget(q) \in Seq(UpMessages(None)) /\ Len(Forget(q)) = Len(q)
<1>1. ASSUME NEW i \in DOMAIN q PROVE [q[i] EXCEPT !.live = FALSE] \in UpMessages(None)
  <2>1. q[i] \in UpMessages(k)
    OBVIOUS
  <2> DEFINE m == q[i]
  <2> HIDE DEF m
  <2>2. m \in [id : MessageIds, seq : Seqs, live : BOOLEAN]
    BY <2>1 DEF UpMessages, m
  <2>3. /\ [m EXCEPT !.live = FALSE] \in [id : MessageIds, seq : Seqs, live : BOOLEAN]
        /\ [m EXCEPT !.live = FALSE].live = FALSE /\ [m EXCEPT !.live = FALSE].id \in MessageIds
    BY <2>2
  <2>4. [m EXCEPT !.live = FALSE] \in UpMessages(None)
    BY <2>3, NoCallIsNone DEF UpMessages
  <2>5. QED
    BY <2>4 DEF m
<1>2. DOMAIN q = 1..Len(q) /\ Len(q) \in Nat
  OBVIOUS
<1>3. Forget(q) \in [1..Len(q) -> UpMessages(None)]
  BY <1>1, <1>2 DEF Forget
<1>4. QED
  BY <1>2, <1>3

LEMMA ForgetDown ==
  ASSUME NEW k, NEW q \in Seq(DownMessages(k))
  PROVE  Forget(q) \in Seq(DownMessages(None)) /\ Len(Forget(q)) = Len(q)
<1>1. ASSUME NEW i \in DOMAIN q PROVE [q[i] EXCEPT !.live = FALSE] \in DownMessages(None)
  <2>1. q[i] \in DownMessages(k)
    OBVIOUS
  <2> DEFINE m == q[i]
  <2> HIDE DEF m
  <2>2. m \in [id : ReplyIds, to : [id : MessageIds \cup {"none"}, seq : Seqs], live : BOOLEAN]
    BY <2>1 DEF DownMessages, m
  <2>3. /\ [m EXCEPT !.live = FALSE] \in [id : ReplyIds, to : [id : MessageIds \cup {"none"}, seq : Seqs], live : BOOLEAN]
        /\ [m EXCEPT !.live = FALSE].live = FALSE
    BY <2>2
  <2>4. [m EXCEPT !.live = FALSE] \in DownMessages(None)
    BY <2>3 DEF DownMessages
  <2>5. QED
    BY <2>4 DEF m
<1>2. DOMAIN q = 1..Len(q) /\ Len(q) \in Nat
  OBVIOUS
<1>3. Forget(q) \in [1..Len(q) -> DownMessages(None)]
  BY <1>1, <1>2 DEF Forget
<1>4. QED
  BY <1>2, <1>3

----------------------------------------------------------------------------
(* What the server keeps                                                   *)

\* Each client is registered once, and gets one turn in a pass.
ListsFit ==
  /\ clients \in Seq(Clients) /\ IsInjective(clients)
  /\ sockList \in Seq(Clients) /\ IsInjective(sockList)

Subscriptions == [dumping : SUBSET Clients, reading : SUBSET Clients, blockExit : BOOLEAN, haveMem : BOOLEAN]

\* The subscriptions s are those of clients the server has, and the flags agree.
Agree(s, registered) ==
  /\ s \in Subscriptions
  /\ s.dumping \cup s.reading \subseteq registered
  /\ s.blockExit = (s.dumping # {}) /\ s.haveMem = (s.reading # {})

ControlFit ==
  /\ conn \in [Clients -> {"none", "ping", "up", "closed"}]
  /\ txSeqCount \in [Clients -> Seqs]
  /\ loop \in {"head", "wait", "comm"}
  /\ mode \in {"STOP", "RUN", "MAINTENANCE", "KeyError", "ValueError"}

RoomFits == \A c \in Clients : Len(up[c]) <= UpRoom /\ Len(down[c]) <= DownRoom

\* The inductive invariant.
CSInv ==
  /\ ListsFit /\ Agree(subs, Registered) /\ ControlFit /\ RoomFits /\ MessagesFit
  /\ foreign = {}

LEMMA RegisteredAre == ListsFit => Registered \subseteq Clients
BY DEF ListsFit, Registered, Range

\* Removing clients keeps lists and subscriptions; s is what is subscribed to.
LEMMA LeaveKeeps ==
  ASSUME ListsFit, conn \in [Clients -> {"none", "ping", "up", "closed"}],
         NEW gone \in SUBSET Clients, NEW s, Agree(s, Registered), Leave(gone, s)
  PROVE  /\ clients' \in Seq(Clients) /\ IsInjective(clients')
         /\ Agree(subs', Registered')
         /\ conn' \in [Clients -> {"none", "ping", "up", "closed"}]
<1>1. clients' = Selected(clients, Clients \ gone) /\ subs' = Removed(s, gone)
  BY DEF Leave
<1>2. clients \in Seq(Clients) /\ IsInjective(clients)
  BY DEF ListsFit
<1>3. /\ Selected(clients, Clients \ gone) \in Seq(Clients \ gone)
      /\ IsInjective(Selected(clients, Clients \ gone))
      /\ Range(Selected(clients, Clients \ gone)) = Range(clients) \cap (Clients \ gone)
  BY <1>2, SelectedIs
<1>4. clients' \in Seq(Clients)
  BY <1>1, <1>3, SeqMonotonic
<1>5. Registered' = Registered \ gone
  BY <1>1, <1>3, RegisteredAre DEF Registered
<1>6. Agree(subs', Registered')
  <2>1. CASE gone = {}
    BY <1>1, <1>5, <2>1 DEF Removed, Agree
  <2>2. CASE gone # {}
    <3> DEFINE dumping == s.dumping \ gone
               reading == s.reading \ gone
    <3>1. subs' = [dumping |-> dumping, reading |-> reading,
                   blockExit |-> dumping # {}, haveMem |-> reading # {}]
      BY <1>1, <2>2 DEF Removed
    <3>2. dumping \subseteq Clients /\ reading \subseteq Clients /\ dumping \cup reading \subseteq Registered \ gone
      BY DEF Agree, Subscriptions
    <3> HIDE DEF dumping, reading
    <3>3. QED
      BY <1>5, <3>1, <3>2 DEF Agree, Subscriptions
  <2>3. QED
    BY <2>1, <2>2
<1>7. conn' \in [Clients -> {"none", "ping", "up", "closed"}]
  BY DEF Leave
<1>8. QED
  BY <1>1, <1>3, <1>4, <1>6, <1>7

\* What a step leaves of the requests under way.
UpOK ==
  /\ DOMAIN up' = Clients
  /\ \A c \in Clients : up'[c] \in Seq(UpMessages(call[c])) /\ Len(up'[c]) <= UpRoom

\* What is sent to the clients keeps the messages, if it fits to their calls.
LEMMA SendKeeps ==
  ASSUME CSInv, NEW out, Send(out), call' = call, UpOK,
         \A c \in Clients : out[c] \in Seq(DownMessages(call[c]))
  PROVE  MessagesFit' /\ RoomFits'
<1>1. down' = [c \in Clients |-> IF conn[c] = "closed" THEN <<>> ELSE down[c] \o out[c]]
  BY DEF Send
<1>2. ASSUME NEW c \in Clients
      PROVE  down'[c] \in Seq(DownMessages(call[c])) /\ Len(down'[c]) <= DownRoom
  <2>1. down[c] \in Seq(DownMessages(call[c])) /\ out[c] \in Seq(DownMessages(call[c]))
    BY DEF CSInv, MessagesFit
  <2>2. CASE conn[c] = "closed"
    <3>1. down'[c] = <<>> /\ Len(<<>>) = 0 /\ <<>> \in Seq(DownMessages(call[c]))
      BY <1>1, <2>2
    <3>2. QED
      BY <3>1, ClientServerAssumption
  <2>3. CASE conn[c] # "closed"
    <3>1. down'[c] = down[c] \o out[c] /\ Len(down[c]) + Len(out[c]) <= DownRoom
      BY <1>1, <2>3 DEF Send
    <3> DEFINE a == down[c]
               b == out[c]
               S == DownMessages(call[c])
    <3>2. a \in Seq(S) /\ b \in Seq(S) /\ down'[c] = a \o b /\ Len(a) + Len(b) <= DownRoom
      BY <2>1, <3>1
    <3> HIDE DEF a, b, S
    <3>3. a \o b \in Seq(S) /\ Len(a \o b) = Len(a) + Len(b)
      BY <3>2, ConcatProperties
    <3>4. down'[c] \in Seq(S) /\ Len(down'[c]) <= DownRoom
      BY <3>2, <3>3
    <3>5. QED
      BY <3>4 DEF S
  <2>4. QED
    BY <2>2, <2>3
<1>3. call' \in [Clients -> Calls] /\ DOMAIN down' = Clients
  BY <1>1 DEF CSInv, MessagesFit
<1>4. QED
  BY <1>2, <1>3 DEF MessagesFit, RoomFits, UpOK

\* The messages and the lists when nothing is sent or received.
LEMMA MessagesStay ==
  ASSUME CSInv, UNCHANGED <<call, up, down>>
  PROVE  MessagesFit' /\ RoomFits'
BY DEF CSInv, MessagesFit, RoomFits

LEMMA NoticesFit ==
  ASSUME NEW id \in ReplyIds, NEW jd \in ReplyIds, NEW k
  PROVE  /\ <<>> \in Seq(DownMessages(k)) /\ <<Notice(id)>> \in Seq(DownMessages(k))
         /\ <<Notice(id)>> \o <<Notice(jd)>> \in Seq(DownMessages(k))
         /\ <<>> \o <<Notice(jd)>> \in Seq(DownMessages(k))
         /\ <<Notice(id)>> \o <<>> \in Seq(DownMessages(k))
         /\ <<>> \o <<>> \in Seq(DownMessages(k))
<1>1. Notice(id) \in DownMessages(k) /\ Notice(jd) \in DownMessages(k)
  BY NoticeFits
<1>2. <<>> \in Seq(DownMessages(k)) /\ <<Notice(id)>> \in Seq(DownMessages(k)) /\ <<Notice(jd)>> \in Seq(DownMessages(k))
  BY <1>1
<1>3. QED
  BY <1>2, ConcatProperties

----------------------------------------------------------------------------
(* The steps of the server                                                 *)

\* A step of the server, put together from what it sends and whom it removes.
ServerOK ==
  /\ clients' \in Seq(Clients) /\ IsInjective(clients') /\ Agree(subs', Registered')
  /\ conn' \in [Clients -> {"none", "ping", "up", "closed"}]

LEMMA LeavesOK ==
  ASSUME CSInv, NEW gone \in SUBSET Clients, NEW s, Agree(s, Registered), Leave(gone, s)
  PROVE  ServerOK
BY LeaveKeeps DEF CSInv, ControlFit, ServerOK

LEMMA KeptOK == CSInv /\ UNCHANGED <<clients, subs, conn>> => ServerOK
BY DEF CSInv, ListsFit, ControlFit, Registered, ServerOK

LEMMA ServerKeeps ==
  ASSUME CSInv, ServerOK, MessagesFit', RoomFits', UNCHANGED <<txSeqCount, foreign>>,
         sockList' \in Seq(Clients) /\ IsInjective(sockList'),
         loop' \in {"head", "wait", "comm"},
         mode' \in {"STOP", "RUN", "MAINTENANCE", "KeyError", "ValueError"}
  PROVE  CSInv'
BY DEF CSInv, ServerOK, ListsFit, ControlFit

LEMMA EmptyList == <<>> \in Seq(Clients) /\ IsInjective(<<>>)
BY DEF IsInjective

LEMMA UpStays ==
  ASSUME CSInv, UNCHANGED <<up, call>>
  PROVE  UpOK
BY DEF CSInv, MessagesFit, RoomFits, UpOK

\* The exception and the maintenance request that end a pass.
LEMMA ErrorKeeps ==
  ASSUME CSInv, Error, UpOK, UNCHANGED <<txSeqCount, call, foreign>>
  PROVE  CSInv'
<1>1. PICK broken \in Broken(Registered) : Leave(broken, subs)
  BY DEF Error
<1>2. broken \in SUBSET Clients /\ Agree(subs, Registered)
  BY <1>1, RegisteredAre DEF Broken, CSInv
<1>3. ServerOK
  BY <1>1, <1>2, LeavesOK
<1> DEFINE out == [c \in Clients |-> IF c \in Registered THEN <<Notice("EXCEPTION")>> ELSE <<>>]
<1>4. Send(out) /\ \A c \in Clients : out[c] = <<Notice("EXCEPTION")>> \/ out[c] = <<>>
  BY DEF Error
<1> HIDE DEF out
<1>5. \A c \in Clients : out[c] \in Seq(DownMessages(call[c]))
  BY <1>4, NoticesFit DEF ReplyIds
<1>6. MessagesFit' /\ RoomFits'
  BY <1>4, <1>5, SendKeeps
<1>7. sockList' = <<>> /\ loop' = "head" /\ mode' = "STOP"
  BY DEF Error, EndPass
<1>8. QED
  BY <1>3, <1>6, <1>7, EmptyList, ServerKeeps

LEMMA MaintenanceKeeps ==
  ASSUME CSInv, Maintenance, UpOK, UNCHANGED <<txSeqCount, call, foreign>>
  PROVE  CSInv'
<1>1. ServerOK
  BY KeptOK DEF Maintenance, Kept
<1> DEFINE out == IF clients = <<>> THEN Nobody ELSE Only(Head(clients), Notice("MAINTREQ"))
<1>2. Send(out) /\ \A c \in Clients : out[c] = <<Notice("MAINTREQ")>> \/ out[c] = <<>>
  BY DEF Maintenance, Nobody, Only
<1> HIDE DEF out
<1>3. \A c \in Clients : out[c] \in Seq(DownMessages(call[c]))
  BY <1>2, NoticesFit DEF ReplyIds
<1>4. MessagesFit' /\ RoomFits'
  BY <1>2, <1>3, SendKeeps
<1>5. sockList' = <<>> /\ loop' = "head" /\ mode' = "MAINTENANCE"
  BY DEF Maintenance, EndPass
<1>6. QED
  BY <1>1, <1>4, <1>5, EmptyList, ServerKeeps

\* Reports go to subscribers, and a subscriber that is found broken leaves.
LEMMA ReportsKeep ==
  ASSUME CSInv, NEW dumps \in SUBSET subs.dumping, NEW reads \in SUBSET subs.reading,
         Reports(dumps, reads), UNCHANGED <<call, up>>
  PROVE  ServerOK /\ MessagesFit' /\ RoomFits'
<1>1. PICK broken \in Broken(dumps \cup reads) : Leave(broken, subs)
  BY DEF Reports
<1>2. broken \in SUBSET Clients /\ Agree(subs, Registered)
  BY <1>1 DEF Broken, CSInv, Agree, Subscriptions
<1>3. ServerOK
  BY <1>1, <1>2, LeavesOK
<1> DEFINE out == [c \in Clients |-> (IF c \in dumps THEN <<Notice("CPUDUMP")>> ELSE <<>>)
                                  \o (IF c \in reads THEN <<Notice("MEMORY")>> ELSE <<>>)]
<1>4. Send(out) /\ \A c \in Clients : out[c] \in {<<Notice("CPUDUMP")>> \o <<Notice("MEMORY")>>,
          <<Notice("CPUDUMP")>> \o <<>>, <<>> \o <<Notice("MEMORY")>>, <<>> \o <<>>}
  BY DEF Reports
<1> HIDE DEF out
<1>5. \A c \in Clients : out[c] \in Seq(DownMessages(call[c]))
  BY <1>4, NoticesFit DEF ReplyIds
<1>6. QED
  BY <1>3, <1>4, <1>5, UpStays, SendKeeps

LEMMA ReportKeeps ==
  ASSUME CSInv, Report
  PROVE  CSInv'
<1>1. /\ Reports(subs.dumping, subs.reading) /\ loop' = "wait"
      /\ UNCHANGED <<txSeqCount, call, foreign, up, sockList, mode>>
  BY DEF Report
<1>2. ServerOK /\ MessagesFit' /\ RoomFits'
  BY <1>1, ReportsKeep
<1>3. QED
  BY <1>1, <1>2, ServerKeeps DEF CSInv, ListsFit, ControlFit

LEMMA CycleKeeps ==
  ASSUME CSInv, Cycle
  PROVE  CSInv'
<1>1. UNCHANGED <<txSeqCount, call, foreign, up>>
  BY DEF Cycle
<1>2. CASE Error
  BY <1>1, <1>2, UpStays, ErrorKeeps
<1>3. CASE Maintenance
  BY <1>1, <1>3, UpStays, MaintenanceKeeps
<1>4. CASE ~Error /\ ~Maintenance
  <2>1. PICK dumps \in SUBSET subs.dumping, reads \in SUBSET subs.reading : Reports(dumps, reads)
    BY <1>4 DEF Cycle
  <2>2. loop' = "comm" /\ UNCHANGED <<sockList, mode>>
    BY <1>4 DEF Cycle
  <2>3. ServerOK /\ MessagesFit' /\ RoomFits'
    BY <1>1, <2>1, ReportsKeep
  <2>4. QED
    BY <1>1, <2>2, <2>3, ServerKeeps DEF CSInv, ListsFit, ControlFit
<1>5. QED
  BY <1>2, <1>3, <1>4

\* A new client comes last.
LEMMA AppendInjective1 ==
  ASSUME NEW s \in Seq(Clients), IsInjective(s), NEW c, c \notin Range(s)
  PROVE  IsInjective(s \o <<c>>) /\ Range(s \o <<c>>) = Range(s) \cup {c}
<1> DEFINE u == s \o <<c>>
           m == Len(s) + 1
<1>1. /\ m \in DOMAIN u /\ u[m] = c /\ m \notin DOMAIN s
      /\ \A i \in DOMAIN s : i \in DOMAIN u /\ u[i] = s[i]
      /\ \A i \in DOMAIN u : i \in DOMAIN s \/ i = m
  OBVIOUS
<1> HIDE DEF u, m
<1>2. Range(u) = Range(s) \cup {c}
  BY <1>1 DEF Range
<1>3. \A i \in DOMAIN s : s[i] # c
  BY DEF Range
<1>4. IsInjective(u)
  BY <1>1, <1>3 DEF IsInjective
<1>5. QED
  BY <1>2, <1>4 DEF u

LEMMA SelectKeeps ==
  ASSUME CSInv, Select
  PROVE  CSInv'
<1>1. /\ clients \in Seq(Clients) /\ IsInjective(clients) /\ loop' = "comm"
      /\ UNCHANGED <<conn, txSeqCount, call, foreign, up, down, mode, subs>>
      /\ sockList' = Selected(clients, {c \in Clients : Readable(c)})
  BY DEF CSInv, ListsFit, Select, client, ReadableClients
<1>2. clients' \in Seq(Clients) /\ IsInjective(clients') /\ Registered \subseteq Registered'
  <2>1. PICK accepted \in Accepted : clients' = clients \o accepted
    BY DEF Select
  <2>2. CASE accepted = <<>>
    <3>1. clients' = clients
      BY <1>1, <2>1, <2>2
    <3>2. QED
      BY <1>1, <3>1 DEF Registered
  <2>3. CASE accepted # <<>>
    <3>1. PICK c \in Backlog : accepted = <<c>>
      BY <2>1, <2>3 DEF Accepted
    <3>2. c \in Clients /\ c \notin Range(clients) /\ <<c>> \in Seq(Clients)
      BY <3>1 DEF Backlog, Registered
    <3>3. clients' \in Seq(Clients)
      BY <1>1, <2>1, <3>1, <3>2, ConcatProperties
    <3>4. QED
      BY <1>1, <2>1, <3>1, <3>2, <3>3, AppendInjective1 DEF Registered
  <2>4. QED
    BY <2>2, <2>3
<1>3. sockList' \in Seq(Clients) /\ IsInjective(sockList')
  <2>1. sockList' \in Seq({c \in Clients : Readable(c)}) /\ IsInjective(sockList')
    BY <1>1, SelectedIs
  <2>2. QED
    BY <2>1, SeqMonotonic
<1>4. ServerOK
  BY <1>1, <1>2 DEF CSInv, Agree, ControlFit, ServerOK
<1>5. MessagesFit' /\ RoomFits'
  BY <1>1, MessagesStay
<1>6. QED
  BY <1>1, <1>3, <1>4, <1>5, ServerKeeps DEF CSInv, ControlFit

LEMMA SilenceKeeps ==
  ASSUME CSInv, Silence
  PROVE  CSInv'
<1>1. UNCHANGED <<conn, txSeqCount, call, foreign, up, down, clients, sockList, mode, subs>> /\ loop' = "head"
  BY DEF Silence, client
<1>2. ServerOK /\ MessagesFit' /\ RoomFits'
  BY <1>1, KeptOK, MessagesStay
<1>3. QED
  BY <1>1, <1>2, ServerKeeps DEF CSInv, ListsFit, ControlFit

----------------------------------------------------------------------------
(* The client whose turn it is                                             *)

LEMMA TailInjective ==
  ASSUME NEW X, NEW s \in Seq(X), s # <<>>, IsInjective(s)
  PROVE  Tail(s) \in Seq(X) /\ IsInjective(Tail(s))
<1>1. Tail(s) \in Seq(X)
  OBVIOUS
<1>2. \A i \in DOMAIN Tail(s) : i \in Nat /\ i + 1 \in DOMAIN s /\ Tail(s)[i] = s[i + 1]
  OBVIOUS
<1> DEFINE q == Tail(s)
<1>3. ASSUME NEW i \in DOMAIN q, NEW j \in DOMAIN q, q[i] = q[j] PROVE i = j
  <2>1. i + 1 \in DOMAIN s /\ j + 1 \in DOMAIN s /\ s[i + 1] = s[j + 1]
    BY <1>2, <1>3
  <2>2. i + 1 = j + 1
    BY <2>1 DEF IsInjective
  <2>3. QED
    BY <1>2, <2>2
<1>4. QED
  BY <1>1, <1>3 DEF IsInjective

\* The lists and the phase after a turn; the rest of the pass is to come.
LEMMA TurnIs ==
  ASSUME CSInv, Turn, NEW c, NextTurn(c)
  PROVE  /\ sockList' \in Seq(Clients) /\ IsInjective(sockList') /\ c \in Clients
         /\ loop' \in {"head", "wait", "comm"}
         /\ UNCHANGED <<txSeqCount, call, foreign>>
<1>1. sockList \in Seq(Clients) /\ sockList # <<>> /\ IsInjective(sockList)
  BY DEF CSInv, ListsFit, Turn
<1>2. sockList' = Tail(sockList) /\ c = Head(sockList) /\ loop' = loop
  BY DEF NextTurn
<1>3. c \in Clients
  BY <1>1, <1>2
<1>4. QED
  BY <1>1, <1>2, <1>3, TailInjective DEF CSInv, ControlFit, Turn

LEMMA ReceivesIs ==
  ASSUME CSInv, NEW c \in Clients, NEW ids, Receives(c, ids)
  PROVE  /\ UpOK /\ c \in Registered
         /\ Head(up[c]) \in UpMessages(call[c]) /\ Head(up[c]).id \in ids
<1>1. up[c] \in Seq(UpMessages(call[c])) /\ Len(up[c]) <= UpRoom /\ DOMAIN up = Clients
  BY DEF CSInv, MessagesFit, RoomFits
<1>2. up[c] # <<>> /\ up' = [up EXCEPT ![c] = Tail(@)] /\ c \in Registered /\ Head(up[c]).id \in ids
  BY DEF Receives
<1>3. /\ Head(up[c]) \in UpMessages(call[c])
      /\ Tail(up[c]) \in Seq(UpMessages(call[c])) /\ Len(Tail(up[c])) = Len(up[c]) - 1 /\ Len(up[c]) \in Nat
  BY <1>1, <1>2
<1>4. up'[c] \in Seq(UpMessages(call[c])) /\ Len(up'[c]) <= UpRoom
  BY <1>1, <1>2, <1>3, ClientServerAssumption
<1>5. \A d \in Clients \ {c} : up'[d] = up[d]
  BY <1>1, <1>2
<1>6. UpOK
  BY <1>1, <1>2, <1>4, <1>5 DEF UpOK, CSInv, MessagesFit, RoomFits
<1>7. QED
  BY <1>2, <1>3, <1>6

LEMMA AnswerSent ==
  ASSUME CSInv, NEW c \in Clients, NEW ids, Receives(c, ids), ids \subseteq DOMAIN Replies
  PROVE  Answer(Head(up[c])) \in DownMessages(call[c])
BY ReceivesIs, AnswerFits

\* The answer goes to the client, which is removed if its end is closed.
LEMMA ReplyKeeps ==
  ASSUME CSInv, NEW c \in Clients, NEW ids, Receives(c, ids), ids \subseteq DOMAIN Replies,
         NEW s, Agree(s, Registered), Reply(c, s), call' = call
  PROVE  ServerOK /\ MessagesFit' /\ RoomFits'
<1>1. UpOK
  BY ReceivesIs
<1> DEFINE out == Only(c, Answer(Head(up[c])))
<1>2. Send(out)
  BY DEF Reply
<1>3. Answer(Head(up[c])) \in DownMessages(call[c])
  BY AnswerSent
<1>4. \A d \in Clients : out[d] \in Seq(DownMessages(call[d]))
  <2>1. \A d \in Clients : (d = c /\ out[d] = <<Answer(Head(up[c]))>>) \/ out[d] = <<>>
    BY DEF Only
  <2>2. <<Answer(Head(up[c]))>> \in Seq(DownMessages(call[c]))
    BY <1>3
  <2> HIDE DEF out
  <2>3. \A d \in Clients : <<>> \in Seq(DownMessages(call[d]))
    OBVIOUS
  <2>4. QED
    BY <2>1, <2>2, <2>3
<1> HIDE DEF out
<1>5. MessagesFit' /\ RoomFits'
  BY <1>1, <1>2, <1>4, SendKeeps
<1>6. PICK broken \in Broken({c}) : Leave(broken, s)
  BY DEF Reply
<1>7. broken \in SUBSET Clients
  BY <1>6 DEF Broken
<1>8. QED
  BY <1>5, <1>6, <1>7, LeavesOK

LEMMA SubscribeAgrees ==
  ASSUME NEW registered \in SUBSET Clients, NEW s, Agree(s, registered), NEW c \in registered, NEW on \in BOOLEAN
  PROVE  Agree(WithDump(s, c, on), registered) /\ Agree(WithMemory(s, c), registered)
<1>1. s \in Subscriptions /\ c \in Clients
  BY DEF Agree
<1>2. Agree(WithMemory(s, c), registered)
  BY <1>1 DEF Agree, Subscriptions, WithMemory
<1>3. Agree(WithDump(s, c, on), registered)
  <2> DEFINE dumping == IF on THEN s.dumping \cup {c} ELSE s.dumping \ {c}
  <2>1. dumping \subseteq Clients /\ dumping \subseteq registered
    BY <1>1 DEF Agree, Subscriptions
  <2>2. WithDump(s, c, on) = [s EXCEPT !.dumping = dumping, !.blockExit = dumping # {}]
    BY DEF WithDump
  <2> HIDE DEF dumping
  <2>3. QED
    BY <1>1, <2>1, <2>2 DEF Agree, Subscriptions
<1>4. QED
  BY <1>2, <1>3

LEMMA VanishedKeeps ==
  ASSUME CSInv, NEW c \in Clients, Vanished(c)
  PROVE  CSInv'
<1>1. UNCHANGED <<conn, txSeqCount, call, foreign, up, down, clients, sockList, loop, subs>> /\ mode' = "KeyError"
  BY DEF Vanished, Turn
<1>2. ServerOK /\ MessagesFit' /\ RoomFits'
  BY <1>1, KeptOK, MessagesStay
<1>3. QED
  BY <1>1, <1>2, ServerKeeps DEF CSInv, ListsFit, ControlFit

LEMMA RemoteDiedKeeps ==
  ASSUME CSInv, NEW c \in Clients, RemoteDied(c)
  PROVE  CSInv'
<1>1. Turn /\ NextTurn(c) /\ Leave({c}, subs) /\ UNCHANGED <<up, down, mode>>
  BY DEF RemoteDied
<1>2. ServerOK
  BY <1>1, LeavesOK DEF CSInv
<1>3. MessagesFit' /\ RoomFits'
  BY <1>1, TurnIs, MessagesStay
<1>4. QED
  BY <1>1, <1>2, <1>3, TurnIs, ServerKeeps DEF CSInv, ControlFit

LEMMA QueryKeeps ==
  ASSUME CSInv, NEW c \in Clients, Query(c)
  PROVE  CSInv'
<1>1. Turn /\ NextTurn(c) /\ Receives(c, {"PING", "GET_RUNSTATE"}) /\ Reply(c, subs) /\ mode' = mode
  BY DEF Query
<1>2. {"PING", "GET_RUNSTATE"} \subseteq DOMAIN Replies
  BY DEF Replies
<1>3. UNCHANGED <<txSeqCount, call, foreign>> /\ Agree(subs, Registered)
  BY <1>1, TurnIs DEF CSInv
<1>4. ServerOK /\ MessagesFit' /\ RoomFits'
  BY <1>1, <1>2, <1>3, ReplyKeeps
<1>5. QED
  BY <1>1, <1>3, <1>4, TurnIs, ServerKeeps DEF CSInv, ControlFit

LEMMA SetOptionKeeps ==
  ASSUME CSInv, NEW c \in Clients, SetOption(c)
  PROVE  CSInv'
<1>1. Turn /\ NextTurn(c) /\ Receives(c, {"OPT"}) /\ mode' = mode
  BY DEF SetOption
<1>2. PICK on \in BOOLEAN : Reply(c, WithDump(subs, c, on))
  BY DEF SetOption
<1>3. {"OPT"} \subseteq DOMAIN Replies
  BY DEF Replies
<1>4. UNCHANGED <<txSeqCount, call, foreign>>
  BY <1>1, TurnIs
<1>5. Agree(WithDump(subs, c, on), Registered)
  BY <1>1, ReceivesIs, RegisteredAre, SubscribeAgrees DEF CSInv
<1>6. ServerOK /\ MessagesFit' /\ RoomFits'
  BY <1>1, <1>2, <1>3, <1>4, <1>5, ReplyKeeps
<1>7. QED
  BY <1>1, <1>4, <1>6, TurnIs, ServerKeeps DEF CSInv, ControlFit

LEMMA RequestMemoryKeeps ==
  ASSUME CSInv, NEW c \in Clients, RequestMemory(c)
  PROVE  CSInv'
<1>1. /\ Turn /\ NextTurn(c) /\ Receives(c, {"REQ_MEMORY"}) /\ subs' = WithMemory(subs, c)
      /\ UNCHANGED <<conn, down, clients, mode>>
  BY DEF RequestMemory
<1>2. UNCHANGED <<txSeqCount, call, foreign>> /\ UpOK /\ c \in Registered
  BY <1>1, TurnIs, ReceivesIs
<1>3. Agree(WithMemory(subs, c), Registered)
  BY <1>2, RegisteredAre, SubscribeAgrees DEF CSInv
<1>4. ServerOK
  BY <1>1, <1>3 DEF CSInv, ListsFit, ControlFit, Registered, ServerOK
<1>5. MessagesFit' /\ RoomFits'
  BY <1>1, <1>2 DEF CSInv, MessagesFit, RoomFits, UpOK
<1>6. QED
  BY <1>1, <1>2, <1>4, <1>5, TurnIs, ServerKeeps DEF CSInv, ControlFit

LEMMA StopOrStayKeeps ==
  ASSUME CSInv, NEW c \in Clients, StopOrStay(c)
  PROVE  CSInv'
<1> DEFINE ids == {"STOP"} \cup (IF mode = "RUN" THEN {"RUN"} ELSE {})
<1>1. Turn /\ NextTurn(c) /\ Receives(c, ids) /\ Reply(c, subs)
  BY DEF StopOrStay
<1>2. mode' \in {"STOP", mode}
  BY DEF StopOrStay
<1>3. ids \subseteq DOMAIN Replies
  BY DEF Replies
<1> HIDE DEF ids
<1>4. UNCHANGED <<txSeqCount, call, foreign>> /\ Agree(subs, Registered)
  BY <1>1, TurnIs DEF CSInv
<1>5. ServerOK /\ MessagesFit' /\ RoomFits'
  BY <1>1, <1>3, <1>4, ReplyKeeps
<1>6. mode' \in {"STOP", "RUN", "MAINTENANCE", "KeyError", "ValueError"}
  BY <1>2 DEF CSInv, ControlFit
<1>7. QED
  BY <1>1, <1>4, <1>5, <1>6, TurnIs, ServerKeeps

LEMMA StartupKeeps ==
  ASSUME CSInv, NEW c \in Clients, Startup(c)
  PROVE  CSInv'
<1>1. Turn /\ NextTurn(c) /\ Receives(c, {"RUN"})
  BY DEF Startup
<1>2. UNCHANGED <<txSeqCount, call, foreign>> /\ Agree(subs, Registered) /\ UpOK
  BY <1>1, TurnIs, ReceivesIs DEF CSInv
<1> DEFINE Out(dumps) == [d \in Clients |-> (IF d \in dumps THEN <<Notice("CPUDUMP")>> ELSE <<>>)
                                         \o (IF d = c THEN <<Answer(Head(up[c]))>> ELSE <<>>)]
<1>3. PICK dumps \in SUBSET subs.dumping :
        /\ Send(Out(dumps))
        /\ \E broken \in Broken(dumps) :
             IF c \in broken
             THEN mode' = "ValueError" /\ Leave(broken, subs)
             ELSE mode' = "RUN" /\ \E unsent \in Broken({c}) : Leave(broken \cup unsent, subs)
  BY DEF Startup
<1> DEFINE out == Out(dumps)
<1>4. \A d \in Clients : out[d] \in Seq(DownMessages(call[d]))
  <2>1. {"RUN"} \subseteq DOMAIN Replies
    BY DEF Replies
  <2>2. <<Answer(Head(up[c]))>> \in Seq(DownMessages(call[c]))
    BY <1>1, <2>1, AnswerSent
  <2> DEFINE dump(d) == IF d \in dumps THEN <<Notice("CPUDUMP")>> ELSE <<>>
             answer(d) == IF d = c THEN <<Answer(Head(up[c]))>> ELSE <<>>
  <2>3. \A d \in Clients : dump(d) \in Seq(DownMessages(call[d]))
    BY NoticesFit DEF ReplyIds
  <2>4. ASSUME NEW d \in Clients PROVE answer(d) \in Seq(DownMessages(call[d]))
    <3>1. CASE d = c
      BY <2>2, <3>1
    <3>2. CASE d # c
      <4>1. answer(d) = <<>>
        BY <3>2
      <4> HIDE DEF answer
      <4>2. QED
        BY <4>1
    <3>3. QED
      BY <3>1, <3>2
  <2>5. \A d \in Clients : out[d] = dump(d) \o answer(d)
    OBVIOUS
  <2> HIDE DEF out, dump, answer
  <2>6. ASSUME NEW d \in Clients PROVE out[d] \in Seq(DownMessages(call[d]))
    <3>1. dump(d) \in Seq(DownMessages(call[d])) /\ answer(d) \in Seq(DownMessages(call[d]))
      BY <2>3, <2>4
    <3>2. dump(d) \o answer(d) \in Seq(DownMessages(call[d]))
      BY <3>1, ConcatProperties
    <3>3. QED
      BY <2>5, <3>2
  <2>7. QED
    BY <2>6
<1>5. Send(out)
  BY <1>3
<1> HIDE DEF out, Out
<1>6. MessagesFit' /\ RoomFits'
  BY <1>2, <1>4, <1>5, SendKeeps
<1>7. PICK gone \in SUBSET Clients : Leave(gone, subs) /\ mode' \in {"ValueError", "RUN"}
  <2>1. PICK broken \in Broken(dumps) :
             IF c \in broken
             THEN mode' = "ValueError" /\ Leave(broken, subs)
             ELSE mode' = "RUN" /\ \E unsent \in Broken({c}) : Leave(broken \cup unsent, subs)
    BY <1>3
  <2>2. broken \in SUBSET Clients
    BY <1>2, <2>1 DEF Broken, Agree, Subscriptions
  <2>3. CASE c \in broken
    BY <2>1, <2>2, <2>3
  <2>4. CASE c \notin broken
    <3>1. PICK unsent \in Broken({c}) : Leave(broken \cup unsent, subs)
      BY <2>1, <2>4
    <3>2. broken \cup unsent \in SUBSET Clients
      BY <2>2, <3>1 DEF Broken
    <3>3. QED
      BY <2>1, <2>4, <3>1, <3>2
  <2>5. QED
    BY <2>3, <2>4
<1>8. ServerOK
  BY <1>2, <1>7, LeavesOK
<1>9. QED
  BY <1>1, <1>2, <1>6, <1>7, <1>8, TurnIs, ServerKeeps

LEMMA StartupFailsKeeps ==
  ASSUME CSInv, NEW c \in Clients, StartupFails(c)
  PROVE  CSInv'
<1>1. UNCHANGED <<txSeqCount, call, foreign>> /\ Receives(c, {"RUN"})
  BY DEF StartupFails, Turn
<1>2. UpOK
  BY <1>1, ReceivesIs
<1>3. CASE Error
  BY <1>1, <1>2, <1>3, ErrorKeeps
<1>4. CASE Maintenance
  BY <1>1, <1>2, <1>4, MaintenanceKeeps
<1>5. QED
  BY <1>3, <1>4 DEF StartupFails

LEMMA ServerStep ==
  ASSUME CSInv, Server
  PROVE  CSInv'
<1>1. ASSUME NEW c \in Clients, Serve(c) PROVE CSInv'
  BY <1>1, VanishedKeeps, RemoteDiedKeeps, QueryKeeps, SetOptionKeeps, RequestMemoryKeeps,
     StopOrStayKeeps, StartupKeeps, StartupFailsKeeps DEF Serve
<1>2. QED
  BY <1>1, ReportKeeps, CycleKeeps, SelectKeeps, SilenceKeeps DEF Server

----------------------------------------------------------------------------
(* The steps of the clients                                                *)

\* Of the connections, a step of a client changes its own.
OthersStay(c) ==
  /\ DOMAIN up' = Clients /\ DOMAIN down' = Clients
  /\ \A d \in Clients \ {c} : call'[d] = call[d] /\ up'[d] = up[d] /\ down'[d] = down[d]

LEMMA ClientKeeps ==
  ASSUME CSInv, NEW c \in Clients, Client(c), OthersStay(c), foreign' = foreign,
         conn' \in [Clients -> {"none", "ping", "up", "closed"}],
         txSeqCount' \in [Clients -> Seqs], call' \in [Clients -> Calls],
         up'[c] \in Seq(UpMessages(call'[c])) /\ Len(up'[c]) <= UpRoom,
         down'[c] \in Seq(DownMessages(call'[c])) /\ Len(down'[c]) <= DownRoom
  PROVE  CSInv'
<1>1. MessagesFit'
  BY DEF CSInv, MessagesFit, OthersStay
<1>2. RoomFits'
  BY DEF CSInv, RoomFits, OthersStay
<1>3. ListsFit' /\ Agree(subs', Registered')
  BY DEF CSInv, ListsFit, Agree, Client, Registered
<1>4. QED
  BY <1>1, <1>2, <1>3 DEF CSInv, ControlFit, Client

\* What CSInv says of the client c.
LEMMA ClientIs ==
  ASSUME CSInv, NEW c \in Clients
  PROVE  /\ up[c] \in Seq(UpMessages(call[c])) /\ Len(up[c]) <= UpRoom
         /\ down[c] \in Seq(DownMessages(call[c])) /\ Len(down[c]) <= DownRoom
         /\ call \in [Clients -> Calls] /\ DOMAIN up = Clients /\ DOMAIN down = Clients
         /\ conn \in [Clients -> {"none", "ping", "up", "closed"}]
         /\ txSeqCount \in [Clients -> Seqs] /\ None \in Calls
BY DEF CSInv, MessagesFit, RoomFits, ControlFit, Calls

LEMMA TailFits ==
  ASSUME NEW X, NEW q \in Seq(X), q # <<>>, NEW n \in Nat, Len(q) <= n
  PROVE  Head(q) \in X /\ Tail(q) \in Seq(X) /\ Len(Tail(q)) <= n
OBVIOUS

\* A call that has ended: nothing under way belongs to it any more.
LEMMA DeafKeeps ==
  ASSUME CSInv, NEW c \in Clients, Client(c), NEW rest \in Seq(DownMessages(call[c])), Len(rest) <= DownRoom,
         call' = [call EXCEPT ![c] = None], Deaf(c, rest), UNCHANGED <<conn, txSeqCount, foreign>>
  PROVE  CSInv'
<1>1. up' = [up EXCEPT ![c] = Forget(up[c])] /\ down' = [down EXCEPT ![c] = Forget(rest)]
  BY DEF Deaf
<1>2. Forget(up[c]) \in Seq(UpMessages(None)) /\ Len(Forget(up[c])) = Len(up[c])
  BY ClientIs, ForgetUp
<1>3. Forget(rest) \in Seq(DownMessages(None)) /\ Len(Forget(rest)) = Len(rest)
  BY ForgetDown
<1>4. call'[c] = None /\ up'[c] = Forget(up[c]) /\ down'[c] = Forget(rest) /\ call' \in [Clients -> Calls]
  BY <1>1, ClientIs
<1>5. OthersStay(c)
  BY <1>1, ClientIs DEF OthersStay
<1>6. QED
  BY <1>2, <1>3, <1>4, <1>5, ClientIs, ClientKeeps

LEMMA ConnectKeeps ==
  ASSUME CSInv, NEW c \in Clients, Connect(c)
  PROVE  CSInv'
<1>1. /\ Client(c) /\ conn' = [conn EXCEPT ![c] = "ping"] /\ foreign' = foreign
      /\ txSeqCount' = [txSeqCount EXCEPT ![c] = NextSeq(0)] /\ call' = [call EXCEPT ![c] = None]
      /\ up' = [up EXCEPT ![c] = <<Request("PING", 0, FALSE)>>] /\ down' = [down EXCEPT ![c] = <<>>]
  BY DEF Connect
<1>2. Request("PING", 0, FALSE) \in UpMessages(None)
  <2> DEFINE m == Request("PING", 0, FALSE)
  <2>1. m \in [id : MessageIds, seq : Seqs, live : BOOLEAN] /\ m.live = FALSE /\ m.id \in MessageIds
    BY SeqNumber DEF Request, MessageIds
  <2>2. [id |-> m.id, seq |-> m.seq] # None
    BY <2>1, NoCallIsNone
  <2> HIDE DEF m
  <2>3. QED
    BY <2>1, <2>2 DEF UpMessages, m
<1>3. <<Request("PING", 0, FALSE)>> \in Seq(UpMessages(None)) /\ Len(<<Request("PING", 0, FALSE)>>) = 1
  <2> DEFINE m == Request("PING", 0, FALSE)
  <2> HIDE DEF m
  <2>1. m \in UpMessages(None)
    BY <1>2 DEF m
  <2>2. <<m>> \in Seq(UpMessages(None)) /\ Len(<<m>>) = 1
    BY <2>1
  <2>3. QED
    BY <2>2 DEF m
<1>4. 1 <= UpRoom /\ <<>> \in Seq(DownMessages(None)) /\ Len(<<>>) <= DownRoom
  BY ClientServerAssumption
<1>5. call'[c] = None /\ up'[c] = <<Request("PING", 0, FALSE)>> /\ down'[c] = <<>> /\ call' \in [Clients -> Calls]
  BY <1>1, ClientIs
<1>6. OthersStay(c)
  BY <1>1, ClientIs DEF OthersStay
<1>7. conn' \in [Clients -> {"none", "ping", "up", "closed"}] /\ txSeqCount' \in [Clients -> Seqs]
  BY <1>1, ClientIs, SeqNumber
<1>8. QED
  BY <1>1, <1>3, <1>4, <1>5, <1>6, <1>7, ClientKeeps

LEMMA ConnectedKeeps ==
  ASSUME CSInv, NEW c \in Clients, Connected(c)
  PROVE  CSInv'
<1>1. /\ Client(c) /\ conn' = [conn EXCEPT ![c] = "up"] /\ UNCHANGED <<txSeqCount, call, foreign, up>>
      /\ down' = [down EXCEPT ![c] = IF @ # <<>> /\ Head(@).id = "PONG" THEN Tail(@) ELSE @]
  BY DEF Connected
<1>2. down'[c] = down[c] \/ (down[c] # <<>> /\ down'[c] = Tail(down[c]))
  BY <1>1, ClientIs
<1>3. down'[c] \in Seq(DownMessages(call[c])) /\ Len(down'[c]) <= DownRoom
  <2>1. down[c] \in Seq(DownMessages(call[c])) /\ Len(down[c]) <= DownRoom
    BY ClientIs
  <2>2. CASE down[c] # <<>> /\ down'[c] = Tail(down[c])
    BY <2>1, <2>2, TailFits, ClientServerAssumption
  <2>3. QED
    BY <1>2, <2>1, <2>2
<1>4. OthersStay(c)
  BY <1>1, ClientIs DEF OthersStay
<1>5. conn' \in [Clients -> {"none", "ping", "up", "closed"}]
  BY <1>1, ClientIs
<1>6. QED
  BY <1>1, <1>3, <1>4, <1>5, ClientIs, ClientKeeps

LEMMA ReturnKeeps ==
  ASSUME CSInv, NEW c \in Clients, Return(c)
  PROVE  CSInv'
<1> DEFINE m == Head(down[c])
<1>1. /\ Client(c) /\ call[c] # None /\ down[c] # <<>> /\ m.to = call[c]
      /\ foreign' = (IF m.live THEN foreign ELSE foreign \cup {call[c].id})
      /\ call' = [call EXCEPT ![c] = None] /\ Deaf(c, Tail(down[c])) /\ UNCHANGED <<conn, txSeqCount>>
  BY DEF Return, Matches, IsReplyTo
<1>2. m \in DownMessages(call[c]) /\ Tail(down[c]) \in Seq(DownMessages(call[c])) /\ Len(Tail(down[c])) <= DownRoom
  BY <1>1, ClientIs, TailFits, ClientServerAssumption
<1> HIDE DEF m
<1>3. m.live
  BY <1>1, <1>2 DEF DownMessages
<1>4. foreign' = foreign
  BY <1>1, <1>3
<1>5. QED
  BY <1>1, <1>2, <1>4, DeafKeeps

LEMMA HandleKeeps ==
  ASSUME CSInv, NEW c \in Clients, Handle(c)
  PROVE  CSInv'
<1>1. Client(c) /\ down[c] # <<>> /\ UNCHANGED <<conn, txSeqCount, foreign>>
  BY DEF Handle
<1>2. Tail(down[c]) \in Seq(DownMessages(call[c])) /\ Len(Tail(down[c])) <= DownRoom
  BY <1>1, ClientIs, TailFits, ClientServerAssumption
<1>3. CASE call' = [call EXCEPT ![c] = None] /\ Deaf(c, Tail(down[c]))
  BY <1>1, <1>2, <1>3, DeafKeeps
<1>4. CASE down' = [down EXCEPT ![c] = Tail(@)] /\ UNCHANGED <<call, up>>
  <2>1. down'[c] = Tail(down[c]) /\ OthersStay(c)
    BY <1>4, ClientIs DEF OthersStay
  <2>2. QED
    BY <1>1, <1>2, <1>4, <2>1, ClientIs, ClientKeeps
<1>5. QED
  BY <1>3, <1>4 DEF Handle

LEMMA TimeoutKeeps ==
  ASSUME CSInv, NEW c \in Clients, Timeout(c)
  PROVE  CSInv'
<1>1. /\ Client(c) /\ call' = [call EXCEPT ![c] = None] /\ Deaf(c, down[c])
      /\ UNCHANGED <<conn, txSeqCount, foreign>>
  BY DEF Timeout
<1>2. QED
  BY <1>1, ClientIs, DeafKeeps

LEMMA CloseKeeps ==
  ASSUME CSInv, NEW c \in Clients, Close(c)
  PROVE  CSInv'
<1>1. /\ Client(c) /\ conn' = [conn EXCEPT ![c] = "closed"] /\ foreign' = foreign
      /\ txSeqCount' = [txSeqCount EXCEPT ![c] = 0] /\ call' = [call EXCEPT ![c] = None]
      /\ down' = [down EXCEPT ![c] = <<>>]
      /\ up' \in {[up EXCEPT ![c] = Forget(@)], [up EXCEPT ![c] = <<>>]}
  BY DEF Close
<1>2. Forget(up[c]) \in Seq(UpMessages(None)) /\ Len(Forget(up[c])) <= UpRoom
  BY ClientIs, ForgetUp
<1>3. /\ <<>> \in Seq(UpMessages(None)) /\ <<>> \in Seq(DownMessages(None)) /\ Len(<<>>) = 0
      /\ Len(<<>>) <= UpRoom /\ Len(<<>>) <= DownRoom
  BY ClientServerAssumption
<1>4. /\ up'[c] = Forget(up[c]) \/ up'[c] = <<>>
      /\ down'[c] = <<>> /\ call'[c] = None /\ call' \in [Clients -> Calls]
  BY <1>1, ClientIs
<1>5. OthersStay(c)
  BY <1>1, ClientIs DEF OthersStay
<1>6. conn' \in [Clients -> {"none", "ping", "up", "closed"}] /\ txSeqCount' \in [Clients -> Seqs]
  BY <1>1, ClientIs, SeqNumber
<1>7. up'[c] \in Seq(UpMessages(None)) /\ Len(up'[c]) <= UpRoom
  BY <1>2, <1>3, <1>4
<1>8. QED
  BY <1>1, <1>3, <1>4, <1>5, <1>6, <1>7, ClientKeeps

\* A new request does not meet what is under way, whose sequence numbers are
\* others: this is what SeqIsFree is for.
LEMMA FreshCall ==
  ASSUME CSInv, NEW c \in Clients, call[c] = None, SeqIsFree(c), NEW r \in Ids
  PROVE  LET k == [id |-> r, seq |-> txSeqCount[c]]
         IN up[c] \in Seq(UpMessages(k)) /\ down[c] \in Seq(DownMessages(k))
<1> DEFINE k == [id |-> r, seq |-> txSeqCount[c]]
<1>1. k.id = r /\ k.seq = txSeqCount[c] /\ r # "none"
  BY NoneIs
<1> HIDE DEF k
<1>2. up[c] \in Seq(UpMessages(None)) /\ down[c] \in Seq(DownMessages(None))
  BY ClientIs
<1>3. ASSUME NEW i \in 1..Len(up[c]) PROVE up[c][i] \in UpMessages(k)
  <2> DEFINE m == up[c][i]
  <2>1. m \in UpMessages(None) /\ m.seq # txSeqCount[c]
    BY <1>2 DEF SeqIsFree
  <2> HIDE DEF m
  <2>2. m.id \in MessageIds
    BY <2>1 DEF UpMessages
  <2>3. [id |-> m.id, seq |-> m.seq] # None
    BY <2>2, NoCallIsNone
  <2>4. [id |-> m.id, seq |-> m.seq] # k
    BY <1>1, <2>1
  <2>5. m \in UpMessages(k)
    BY <2>1, <2>3, <2>4 DEF UpMessages
  <2>6. QED
    BY <2>5 DEF m
<1>4. ASSUME NEW i \in 1..Len(down[c]) PROVE down[c][i] \in DownMessages(k)
  <2> DEFINE m == down[c][i]
  <2>1. m \in DownMessages(None) /\ (m.to.id # "none" => m.to.seq # txSeqCount[c])
    BY <1>2 DEF SeqIsFree
  <2> HIDE DEF m
  <2>2. m.to # k
    BY <1>1, <2>1
  <2>3. m \in DownMessages(k)
    BY <2>1, <2>2 DEF DownMessages
  <2>4. QED
    BY <2>3 DEF m
<1>5. up[c] \in Seq(UpMessages(k)) /\ down[c] \in Seq(DownMessages(k))
  <2>1. up[c] \in Seq(UpMessages(k))
    BY <1>2, <1>3
  <2>2. down[c] \in Seq(DownMessages(k))
    BY <1>2, <1>4
  <2>3. QED
    BY <2>1, <2>2
<1>6. QED
  BY <1>5 DEF k

LEMMA TransmitIs ==
  ASSUME CSInv, NEW c \in Clients, NEW r \in Ids, NEW live \in BOOLEAN, Transmit(c, r, live)
  PROVE  /\ Client(c) /\ call[c] = None /\ SeqIsFree(c) /\ UNCHANGED <<conn, down>>
         /\ up' = [up EXCEPT ![c] = Append(@, Request(r, txSeqCount[c], live))]
         /\ Len(up[c]) < UpRoom /\ txSeqCount[c] \in Seqs /\ txSeqCount' \in [Clients -> Seqs]
BY ClientIs, SeqNumber DEF Transmit

\* A request with the number n that is live if it is the call k.
LEMMA RequestFits ==
  ASSUME NEW k, NEW id \in MessageIds, NEW n \in Seqs, NEW live \in BOOLEAN, live = ([id |-> id, seq |-> n] = k)
  PROVE  Request(id, n, live) \in UpMessages(k)
<1> DEFINE m == Request(id, n, live)
<1>1. m \in [id : MessageIds, seq : Seqs, live : BOOLEAN] /\ m.live = live /\ m.id = id /\ m.seq = n
  BY DEF Request
<1> HIDE DEF m
<1>2. m \in UpMessages(k)
  BY <1>1 DEF UpMessages
<1>3. QED
  BY <1>2 DEF m

\* A request under way, with the call it makes of its client.
LEMMA TransmitKeeps ==
  ASSUME CSInv, NEW c \in Clients, NEW r \in Ids, NEW live \in BOOLEAN, Transmit(c, r, live),
         foreign' = foreign, call' \in [Clients -> Calls], \A d \in Clients \ {c} : call'[d] = call[d],
         up[c] \in Seq(UpMessages(call'[c])), down[c] \in Seq(DownMessages(call'[c])),
         Request(r, txSeqCount[c], live) \in UpMessages(call'[c])
  PROVE  CSInv'
<1> DEFINE m == Request(r, txSeqCount[c], live)
<1> HIDE DEF m
<1>1. up' = [up EXCEPT ![c] = Append(@, m)] /\ UNCHANGED <<conn, down>> /\ Client(c)
  BY TransmitIs DEF m
<1>2. up'[c] = Append(up[c], m) /\ OthersStay(c)
  BY <1>1, ClientIs DEF OthersStay
<1>3. Append(up[c], m) \in Seq(UpMessages(call'[c])) /\ Len(Append(up[c], m)) <= UpRoom
  BY TransmitIs, ClientServerAssumption DEF m
<1>4. txSeqCount' \in [Clients -> Seqs] /\ conn' \in [Clients -> {"none", "ping", "up", "closed"}]
  BY <1>1, TransmitIs, ClientIs
<1>5. QED
  BY <1>1, <1>2, <1>3, <1>4, ClientIs, ClientKeeps

LEMMA CallKeeps ==
  ASSUME CSInv, NEW c \in Clients, NEW r \in Ids, Call(c, r)
  PROVE  CSInv'
<1> DEFINE k == [id |-> r, seq |-> txSeqCount[c]]
<1>1. /\ r # "REQ_MEMORY" /\ Transmit(c, r, TRUE) /\ foreign' = foreign
      /\ call' = [call EXCEPT ![c] = k]
  BY DEF Call
<1>2. k \in Calls
  BY <1>1, TransmitIs DEF Calls, Asynchronous
<1>3. up[c] \in Seq(UpMessages(k)) /\ down[c] \in Seq(DownMessages(k))
  BY <1>1, TransmitIs, FreshCall
<1>4. Request(r, txSeqCount[c], TRUE) \in UpMessages(k)
  BY <1>1, TransmitIs, NoneIs, RequestFits
<1> HIDE DEF k
<1>5. call'[c] = k /\ call' \in [Clients -> Calls] /\ \A d \in Clients \ {c} : call'[d] = call[d]
  BY <1>1, <1>2, ClientIs
<1>6. QED
  BY <1>1, <1>3, <1>4, <1>5, TransmitKeeps

LEMMA PostKeeps ==
  ASSUME CSInv, NEW c \in Clients, NEW r \in Ids, Post(c, r)
  PROVE  CSInv'
<1>1. Transmit(c, r, FALSE) /\ UNCHANGED <<call, foreign>>
  BY DEF Post
<1>2. call[c] = None /\ txSeqCount[c] \in Seqs /\ r \in MessageIds
  BY <1>1, TransmitIs, NoneIs
<1>3. Request(r, txSeqCount[c], FALSE) \in UpMessages(None)
  <2>1. [id |-> r, seq |-> txSeqCount[c]] # None
    BY <1>2, NoneIs DEF None
  <2>2. QED
    BY <1>2, <2>1, RequestFits
<1>4. QED
  BY <1>1, <1>2, <1>3, ClientIs, TransmitKeeps

----------------------------------------------------------------------------
(* The theorems                                                            *)

LEMMA CSInit == Init => CSInv
<1> SUFFICES ASSUME Init PROVE CSInv
  OBVIOUS
<1>1. /\ conn = [c \in Clients |-> "none"] /\ txSeqCount = [c \in Clients |-> 0]
      /\ call = [c \in Clients |-> None] /\ foreign = {}
      /\ up = [c \in Clients |-> <<>>] /\ down = [c \in Clients |-> <<>>]
      /\ clients = <<>> /\ sockList = <<>> /\ loop = "head" /\ mode = "STOP"
      /\ subs = [dumping |-> {}, reading |-> {}, blockExit |-> FALSE, haveMem |-> FALSE]
  BY DEF Init
<1>2. ListsFit
  BY <1>1, EmptyList DEF ListsFit
<1>3. Agree(subs, Registered)
  BY <1>1 DEF Agree, Subscriptions
<1>4. ControlFit
  BY <1>1, SeqNumber DEF ControlFit
<1>5. RoomFits
  <2>1. Len(<<>>) <= UpRoom /\ Len(<<>>) <= DownRoom
    BY ClientServerAssumption
  <2>2. QED
    BY <1>1, <2>1 DEF RoomFits
<1>6. MessagesFit
  BY <1>1 DEF MessagesFit, Calls
<1>7. QED
  BY <1>1, <1>2, <1>3, <1>4, <1>5, <1>6 DEF CSInv

LEMMA CSStep == CSInv /\ [Next]_vars => CSInv'
<1> SUFFICES ASSUME CSInv, [Next]_vars PROVE CSInv'
  OBVIOUS
<1>1. CASE Server
  BY <1>1, ServerStep
<1>2. ASSUME NEW c \in Clients, Connect(c) \/ ProcessMessage(c) \/ Timeout(c) \/ Close(c)
      PROVE  CSInv'
  BY <1>2, ConnectKeeps, ConnectedKeeps, ReturnKeeps, HandleKeeps, TimeoutKeeps, CloseKeeps
  DEF ProcessMessage
<1>3. ASSUME NEW c \in Clients, NEW r \in Requests[c], Call(c, r) \/ Post(c, r)
      PROVE  CSInv'
  <2>1. r \in Ids
    BY ClientServerAssumption
  <2>2. QED
    BY <1>3, <2>1, CallKeeps, PostKeeps
<1>4. CASE UNCHANGED vars
  BY <1>4 DEF vars, CSInv, ListsFit, Agree, Registered, ControlFit, RoomFits, MessagesFit
<1>5. CASE Ended
  BY <1>4, <1>5 DEF Ended
<1>6. QED
  BY <1>1, <1>2, <1>3, <1>4, <1>5 DEF Next

THEOREM CSInvariant == Spec => []CSInv
BY CSInit, CSStep, PTL DEF Spec

LEMMA CSTypes == CSInv => TypeOK
<1> SUFFICES ASSUME CSInv PROVE TypeOK
  OBVIOUS
<1>1. ASSUME NEW c \in Clients, NEW i \in DOMAIN up[c]
      PROVE  up[c][i] \in [id : Ids \cup {"PING"}, seq : Seqs, live : BOOLEAN]
  <2>1. up[c][i] \in UpMessages(call[c])
    BY ClientIs
  <2>2. QED
    BY <2>1 DEF UpMessages, MessageIds
<1>2. call \in [Clients -> [id : Ids \cup {"none"}, seq : Seqs]]
  <2>1. Calls \subseteq [id : Ids \cup {"none"}, seq : Seqs]
    BY SeqNumber DEF Calls, None
  <2>2. QED
    BY <2>1 DEF CSInv, MessagesFit
<1>3. QED
  BY <1>1, <1>2 DEF TypeOK, CSInv, ListsFit, ControlFit, RoomFits

\* The types: a client is registered once and has one turn in a pass, no
\* connection takes more than its room, and what a client sends the server
\* (AwlSimServer and AwlSimClient) is one of the requests.
THEOREM MessagesTypeCorrect == Spec => []TypeOK
BY CSInvariant, CSTypes, PTL

\* A synchronous call of the client (__sendAndWait) returns the answer to that
\* very call: with the sequence numbers that are free when it is made, nothing
\* under way is taken for the answer, whatever was aborted or timed out before.
THEOREM CallsAreAnswered == Spec => []AnswersItsCall
<1>1. CSInv => AnswersItsCall
  BY DEF CSInv, AnswersItsCall
<1>2. QED
  BY CSInvariant, <1>1, PTL

\* The flags that the cycle tests stand for the subscriptions of the clients
\* there are, whichever way a client leaves (__clientRemove).
THEOREM FlagsAlwaysAgree == Spec => []FlagsAgree
<1>1. CSInv => FlagsAgree
  BY DEF CSInv, Agree, FlagsAgree
<1>2. QED
  BY CSInvariant, <1>1, PTL

(***************************************************************************)
(* The transceiver                                                         *)
(***************************************************************************)

Byte == [msg : Nat, at : Nat]

----------------------------------------------------------------------------
(* The concatenation of a sequence of sequences                            *)

\* f[i] is what the first i sequences, up to the n-th, make together.
Joins(f, seqs, n) == f = [i \in 1..n |-> IF i = 1 THEN seqs[i] ELSE f[i-1] \o seqs[i]]

LEMMA JoinsGrow ==
  ASSUME NEW seqs, NEW n \in Nat, NEW f, Joins(f, seqs, n)
  PROVE  \E g : Joins(g, seqs, n + 1)
<1> DEFINE g == [i \in 1..(n + 1) |-> IF i = n + 1 THEN IF n = 0 THEN seqs[1] ELSE f[n] \o seqs[n + 1]
                                      ELSE f[i]]
<1>1. ASSUME NEW i \in 1..(n + 1)
      PROVE  g[i] = IF i = 1 THEN seqs[i] ELSE g[i - 1] \o seqs[i]
  <2>1. CASE i = n + 1 /\ n = 0
    BY <2>1
  <2>2. CASE i = n + 1 /\ n # 0
    <3>1. i - 1 = n /\ i # 1 /\ n \in 1..(n + 1) /\ n # n + 1
      BY <2>2
    <3>2. g[n] = f[n] /\ g[i] = f[n] \o seqs[n + 1]
      BY <2>2, <3>1, Zenon
    <3>3. QED
      BY <2>2, <3>1, <3>2, Zenon
  <2>3. CASE i # n + 1
    <3>1. i \in 1..n /\ (i # 1 => i - 1 \in 1..(n + 1) /\ i - 1 # n + 1)
      BY <2>3
    <3>2. f[i] = IF i = 1 THEN seqs[i] ELSE f[i - 1] \o seqs[i]
      BY <3>1, Zenon DEF Joins
    <3>3. g[i] = f[i] /\ (i # 1 => g[i - 1] = f[i - 1])
      BY <2>3, <3>1, Zenon
    <3>4. QED
      BY <3>1, <3>2, <3>3, Zenon
  <2>4. QED
    BY <2>1, <2>2, <2>3
<1>2. g = [i \in 1..(n + 1) |-> g[i]]
  OBVIOUS
<1> HIDE DEF g
<1>3. Joins(g, seqs, n + 1)
  BY <1>1, <1>2, Zenon DEF Joins
<1>4. QED
  BY <1>3, Zenon

LEMMA JoinsExist ==
  ASSUME NEW seqs, NEW n \in Nat
  PROVE  \E f : Joins(f, seqs, n)
<1>1. Joins(<<>>, seqs, 0)
  BY DEF Joins
<1> DEFINE T == {k \in Nat : ~ \E f : Joins(f, seqs, k)}
<1>2. CASE T = {}
  BY <1>2, Zenon
<1>3. CASE T # {}
  <2>1. PICK k \in T : \A y \in T : k <= y
    BY <1>3, LeastNumber
  <2>2. k # 0
    BY <1>1, <2>1, Zenon
  <2>3. k \in Nat /\ k - 1 \in Nat /\ k - 1 < k /\ (k - 1) + 1 = k
    BY <2>1, <2>2
  <2>4. k - 1 \notin T
    BY <2>1, <2>3
  <2>5. PICK f : Joins(f, seqs, k - 1)
    BY <2>3, <2>4, Zenon
  <2>6. \E g : Joins(g, seqs, k)
    BY <2>3, <2>5, JoinsGrow, Zenon
  <2>7. QED
    BY <2>1, <2>6, Zenon
<1>4. QED
  BY <1>2, <1>3

LEMMA FlattenIs ==
  ASSUME NEW S, NEW seqs \in Seq(S), seqs # <<>>
  PROVE  \E f : Joins(f, seqs, Len(seqs)) /\ FlattenSeq(seqs) = f[Len(seqs)]
<1> DEFINE f == CHOOSE f : Joins(f, seqs, Len(seqs))
<1>1. Len(seqs) \in Nat /\ Len(seqs) # 0
  OBVIOUS
<1>2. Joins(f, seqs, Len(seqs))
  BY <1>1, JoinsExist, Zenon
<1>3. FlattenSeq(seqs) = f[Len(seqs)]
  BY <1>1, Zenon DEF FlattenSeq, Joins
<1>4. QED
  BY <1>2, <1>3, Zenon

BytesAgree(s, t, n) == \A i \in 1..n : s[i] = t[i]

\* As far as two sequences of sequences agree, so do their concatenations.
LEMMA JoinsAgree ==
  ASSUME NEW seqs, NEW others, NEW n \in Nat,
         BytesAgree(seqs, others, n),
         NEW f, Joins(f, seqs, n), NEW g, Joins(g, others, n + 1)
  PROVE  BytesAgree(f, g, n)
<1> DEFINE T == {i \in 1..n : f[i] # g[i]}
<1>1. CASE T = {}
  BY <1>1, Zenon DEF BytesAgree
<1>2. CASE T # {}
  <2> T \subseteq Nat
    OBVIOUS
  <2>1. PICK k \in T : \A y \in T : k <= y
    BY <1>2, LeastNumber, Zenon
  <2>2. k \in 1..n /\ k \in 1..(n + 1) /\ seqs[k] = others[k] /\ f[k] # g[k]
    BY <2>1 DEF BytesAgree
  <2>3. k # 1 => k - 1 \in 1..n /\ k - 1 < k
    BY <2>2
  <2>4. k # 1 => k - 1 \notin T
    BY <2>1, <2>3
  <2>5. k # 1 => f[k - 1] = g[k - 1]
    BY <2>3, <2>4, Zenon
  <2>6. /\ f[k] = IF k = 1 THEN seqs[k] ELSE f[k - 1] \o seqs[k]
        /\ g[k] = IF k = 1 THEN others[k] ELSE g[k - 1] \o others[k]
    BY <2>2, Zenon DEF Joins
  <2>7. QED
    BY <2>2, <2>5, <2>6, Zenon
<1>3. QED
  BY <1>1, <1>2

LEMMA FlattenSingle ==
  ASSUME NEW S, NEW s \in S
  PROVE  FlattenSeq(<<s>>) = s
<1>1. <<s>> \in Seq(S) /\ <<s>> # <<>> /\ Len(<<s>>) = 1 /\ <<s>>[1] = s /\ 1 \in 1..1
  OBVIOUS
<1>2. PICK f : Joins(f, <<s>>, 1) /\ FlattenSeq(<<s>>) = f[1]
  BY <1>1, FlattenIs, Zenon
<1>3. f[1] = <<s>>[1]
  BY <1>1, <1>2, Zenon DEF Joins
<1>4. QED
  BY <1>1, <1>2, <1>3, Zenon

LEMMA FlattenAppend ==
  ASSUME NEW S, NEW seqs \in Seq(S), seqs # <<>>, NEW s \in S
  PROVE  FlattenSeq(Append(seqs, s)) = FlattenSeq(seqs) \o s
<1> DEFINE u == Append(seqs, s)
           n == Len(seqs)
<1>1. /\ n \in Nat /\ n # 0 /\ n \in 1..n /\ n + 1 \in 1..(n + 1) /\ n + 1 # 1 /\ (n + 1) - 1 = n
      /\ n + 1 \in Nat /\ n <= n + 1
  OBVIOUS
<1>2. /\ u \in Seq(S) /\ u # <<>> /\ Len(u) = n + 1 /\ u[n + 1] = s
      /\ \A i \in 1..n : u[i] = seqs[i]
  BY AppendProperties
<1> HIDE DEF u, n
<1>3. PICK f : Joins(f, seqs, n) /\ FlattenSeq(seqs) = f[n]
  BY FlattenIs, Zenon DEF n
<1>4. PICK g : Joins(g, u, n + 1) /\ FlattenSeq(u) = g[n + 1]
  BY <1>2, FlattenIs, Zenon
<1>5. f[n] = g[n]
  <2>1. BytesAgree(seqs, u, n)
    BY <1>2, Zenon DEF BytesAgree
  <2>2. n \in Nat /\ Joins(f, seqs, n) /\ Joins(g, u, n + 1)
    BY <1>1, <1>3, <1>4, Zenon
  <2>4. BytesAgree(f, g, n)
    BY ONLY <2>1, <2>2, JoinsAgree, Zenon
  <2>3. QED
    BY <1>1, <2>4, Zenon DEF BytesAgree
<1>6. g[n + 1] = g[n] \o u[n + 1]
  BY <1>1, <1>4, Zenon DEF Joins
<1>7. QED
  BY <1>2, <1>3, <1>4, <1>5, <1>6, Zenon DEF u

----------------------------------------------------------------------------
(* The bytes of messages                                                   *)

LEMMA BytesType ==
  ASSUME NEW i \in Nat, NEW m \in Messages
  PROVE  /\ Bytes(i, m) \in Seq(Byte) /\ Len(Bytes(i, m)) = HdrLen + m.size
         /\ \A k \in 1..(HdrLen + m.size) : Bytes(i, m)[k] = Place(i, k)
<1>1. HdrLen + m.size \in Nat
  BY TransceiverAssumption
<1> DEFINE n == HdrLen + m.size
<1> HIDE DEF n
<1>2. n \in Nat
  BY <1>1 DEF n
<1>3. \A k \in 1..n : Place(i, k) \in Byte
  BY <1>2 DEF Place, Byte
<1>4. [k \in 1..n |-> Place(i, k)] \in Seq(Byte) /\ Len([k \in 1..n |-> Place(i, k)]) = n
  BY <1>2, <1>3
<1>5. Bytes(i, m) = [k \in 1..n |-> Place(i, k)]
  BY Zenon DEF Bytes, n
<1>6. QED
  BY <1>4, <1>5, Zenon DEF n

\* What BytesOf concatenates.
Pieces(ms, first) == [j \in 1..Len(ms) |-> Bytes(first + j - 1, ms[j])]

LEMMA PiecesAreSequences ==
  ASSUME NEW ms \in Seq(Messages), NEW first \in Nat, first > 0
  PROVE  Pieces(ms, first) \in Seq(Seq(Byte)) /\ Len(Pieces(ms, first)) = Len(ms)
<1>1. Len(ms) \in Nat /\ \A j \in 1..Len(ms) : ms[j] \in Messages /\ first + j - 1 \in Nat
  OBVIOUS
<1>2. \A j \in 1..Len(ms) : Bytes(first + j - 1, ms[j]) \in Seq(Byte)
  BY <1>1, BytesType, Zenon
<1>3. QED
  BY <1>1, <1>2 DEF Pieces

LEMMA BytesOfEmpty ==
  ASSUME NEW first
  PROVE  BytesOf(<<>>, first) = <<>>
<1>1. Pieces(<<>>, first) = <<>>
  BY DEF Pieces
<1>2. BytesOf(<<>>, first) = FlattenSeq(Pieces(<<>>, first))
  BY Zenon DEF BytesOf, Pieces
<1>3. FlattenSeq(<<>>) = <<>>
  BY DEF FlattenSeq
<1>4. QED
  BY <1>1, <1>2, <1>3, Zenon

LEMMA BytesOfSingle ==
  ASSUME NEW m \in Messages, NEW first \in Nat, first > 0
  PROVE  BytesOf(<<m>>, first) = Bytes(first, m)
<1>1. Bytes(first, m) \in Seq(Byte)
  BY BytesType
<1>2. first + 1 - 1 = first /\ Len(<<m>>) = 1 /\ <<m>>[1] = m
  OBVIOUS
<1>3. \A j \in 1..1 : j = 1
  OBVIOUS
<1>4. Pieces(<<m>>, first) = [j \in 1..1 |-> Bytes(first, m)]
  BY <1>2, <1>3, Zenon DEF Pieces
<1>5. [j \in 1..1 |-> Bytes(first, m)] = <<Bytes(first, m)>>
  BY <1>1
<1>6. BytesOf(<<m>>, first) = FlattenSeq(Pieces(<<m>>, first))
  BY Zenon DEF BytesOf, Pieces
<1>7. QED
  BY <1>1, <1>4, <1>5, <1>6, FlattenSingle, Zenon

LEMMA BytesOfMore ==
  ASSUME NEW ms \in Seq(Messages), ms # <<>>, NEW m \in Messages, NEW first \in Nat, first > 0
  PROVE  BytesOf(Append(ms, m), first) = BytesOf(ms, first) \o Bytes(first + Len(ms), m)
<1> DEFINE n == Len(ms)
           b == Bytes(first + n, m)
           u == Append(ms, m)
<1>1. /\ n \in Nat /\ n # 0 /\ first + n \in Nat /\ first + (n + 1) - 1 = first + n
      /\ n + 1 \in 1..(n + 1) /\ \A j \in 1..(n + 1) : j \in 1..n \/ j = n + 1
      /\ \A j \in 1..n : j \in 1..(n + 1)
  OBVIOUS
<1>2. /\ u \in Seq(Messages) /\ Len(u) = n + 1 /\ u[n + 1] = m
      /\ \A j \in 1..n : u[j] = ms[j]
  OBVIOUS
<1>3. b \in Seq(Byte)
  BY <1>1, BytesType
<1>4. /\ Pieces(ms, first) \in Seq(Seq(Byte)) /\ Len(Pieces(ms, first)) = n
      /\ Pieces(ms, first) # <<>>
  BY <1>1, PiecesAreSequences
<1> DEFINE p == Pieces(ms, first)
<1>5. /\ \A j \in 1..n : p[j] = Bytes(first + j - 1, ms[j])
      /\ \A j \in 1..(n + 1) : Pieces(u, first)[j] = Bytes(first + j - 1, u[j])
      /\ Pieces(u, first) \in Seq(Seq(Byte)) /\ Len(Pieces(u, first)) = n + 1
  <2>1. Pieces(u, first) \in Seq(Seq(Byte)) /\ Len(Pieces(u, first)) = n + 1
    BY <1>2, PiecesAreSequences
  <2>2. QED
    BY <1>2, <2>1, Zenon DEF Pieces
<1>6. /\ Append(p, b) \in Seq(Seq(Byte)) /\ Len(Append(p, b)) = n + 1
      /\ Append(p, b)[n + 1] = b /\ \A j \in 1..n : Append(p, b)[j] = p[j]
  BY <1>3, <1>4
<1> HIDE DEF b, p, u, n
<1>7. \A j \in 1..(n + 1) : Pieces(u, first)[j] = Append(p, b)[j]
  <2>1. Pieces(u, first)[n + 1] = b
    BY <1>1, <1>2, <1>5, Zenon DEF b
  <2>2. \A j \in 1..n : Pieces(u, first)[j] = p[j]
    BY <1>1, <1>2, <1>5, Zenon
  <2>3. QED
    BY <1>1, <1>6, <2>1, <2>2, Zenon
<1>8. Pieces(u, first) = Append(p, b)
  BY <1>5, <1>6, <1>7, SeqEqual
<1>9. FlattenSeq(Append(p, b)) = FlattenSeq(p) \o b
  BY <1>3, <1>4, FlattenAppend, Zenon DEF p
<1>10. BytesOf(u, first) = FlattenSeq(Pieces(u, first)) /\ BytesOf(ms, first) = FlattenSeq(p)
  BY Zenon DEF BytesOf, Pieces, p
<1>11. QED
  BY <1>8, <1>9, <1>10, Zenon DEF b, u, n

LEMMA BytesOfType ==
  ASSUME NEW ms \in Seq(Messages), NEW first \in Nat, first > 0
  PROVE  BytesOf(ms, first) \in Seq(Byte)
<1> DEFINE T == {n \in Nat : \E s \in Seq(Messages) : Len(s) = n /\ BytesOf(s, first) \notin Seq(Byte)}
<1>1. CASE T = {}
  BY <1>1
<1>2. CASE T # {}
  <2>1. PICK n \in T : \A y \in T : n <= y
    BY <1>2, LeastNumber
  <2>2. PICK s \in Seq(Messages) : Len(s) = n /\ BytesOf(s, first) \notin Seq(Byte)
    BY <2>1
  <2>3. s # <<>>
    BY <2>2, BytesOfEmpty, EmptySeq
  <2>4. PICK t \in Seq(Messages), m \in Messages : s = Append(t, m)
    BY <2>3, SequenceEmptyOrAppend
  <2>5. Len(t) \in Nat /\ Len(t) < n /\ first + Len(t) \in Nat
    BY <2>2, <2>4
  <2>6. BytesOf(t, first) \in Seq(Byte)
    BY <2>1, <2>5
  <2>7. CASE t = <<>>
    <3>1. s = <<m>>
      BY <2>4, <2>7
    <3>2. BytesOf(s, first) \in Seq(Byte)
      BY <3>1, BytesOfSingle, BytesType
    <3>3. QED
      BY <2>2, <3>2
  <2>8. CASE t # <<>>
    <3>1. BytesOf(s, first) = BytesOf(t, first) \o Bytes(first + Len(t), m)
      BY <2>4, <2>8, BytesOfMore
    <3>2. Bytes(first + Len(t), m) \in Seq(Byte)
      BY <2>5, BytesType
    <3>3. BytesOf(s, first) \in Seq(Byte)
      BY <2>6, <3>1, <3>2, ConcatProperties
    <3>4. QED
      BY <2>2, <3>3
  <2>9. QED
    BY <2>7, <2>8
<1>3. QED
  BY <1>1, <1>2

LEMMA BytesOfAppend ==
  ASSUME NEW ms \in Seq(Messages), NEW m \in Messages, NEW first \in Nat, first > 0
  PROVE  BytesOf(Append(ms, m), first) = BytesOf(ms, first) \o Bytes(first + Len(ms), m)
<1>1. CASE ms = <<>>
  <2>1. Append(ms, m) = <<m>> /\ first + Len(ms) = first
    BY <1>1
  <2>2. Bytes(first, m) \in Seq(Byte)
    BY BytesType
  <2>3. <<>> \o Bytes(first, m) = Bytes(first, m)
    BY <2>2, ConcatEmptySeq
  <2>4. QED
    BY <1>1, <2>1, <2>3, BytesOfSingle, BytesOfEmpty, Zenon
<1>2. CASE ms # <<>>
  BY <1>2, BytesOfMore
<1>3. QED
  BY <1>1, <1>2

LEMMA ByteAssociative ==
  \A s, t, u \in Seq(Byte) : (s \o t) \o u = s \o (t \o u)
BY ConcatAssociative

LEMMA ByteCancel ==
  \A s, t, u \in Seq(Byte) : s \o t = s \o u => t = u
BY ConcatSimplifications

LEMMA BytesOfConcat ==
  ASSUME NEW ms \in Seq(Messages), NEW ns \in Seq(Messages), NEW first \in Nat, first > 0
  PROVE  BytesOf(ms \o ns, first) = BytesOf(ms, first) \o BytesOf(ns, first + Len(ms))
<1> DEFINE Holds(s) == BytesOf(ms \o s, first) = BytesOf(ms, first) \o BytesOf(s, first + Len(ms))
           T == {n \in Nat : \E s \in Seq(Messages) : Len(s) = n /\ ~Holds(s)}
           a == BytesOf(ms, first)
<1>0. a \in Seq(Byte) /\ Len(ms) \in Nat /\ first + Len(ms) \in Nat /\ first + Len(ms) > 0
  BY BytesOfType
<1> HIDE DEF a
<1>1. CASE T = {}
  <2>1. Len(ns) \in Nat /\ Len(ns) \notin T
    BY <1>1
  <2>2. QED
    BY <2>1
<1>2. CASE T # {}
  <2>1. PICK n \in T : \A y \in T : n <= y
    BY <1>2, LeastNumber
  <2>2. PICK s \in Seq(Messages) : Len(s) = n /\ ~Holds(s)
    BY <2>1
  <2>3. s # <<>>
    <3>1. SUFFICES ASSUME s = <<>> PROVE FALSE
      OBVIOUS
    <3>2. ms \o s = ms /\ BytesOf(s, first + Len(ms)) = <<>>
      BY <3>1, ConcatEmptySeq, BytesOfEmpty
    <3>3. a \o <<>> = a
      BY <1>0, ConcatEmptySeq
    <3>4. QED
      BY <2>2, <3>2, <3>3, Zenon DEF a
  <2>4. PICK t \in Seq(Messages), m \in Messages : s = Append(t, m)
    BY <2>3, SequenceEmptyOrAppend
  <2>5. Len(t) \in Nat /\ Len(t) < n
    BY <2>2, <2>4
  <2>6. Holds(t)
    BY <2>1, <2>5
  <2>7. /\ ms \o s = Append(ms \o t, m) /\ ms \o t \in Seq(Messages)
        /\ Len(ms \o t) = Len(ms) + Len(t)
    BY <2>4
  <2> DEFINE b == BytesOf(t, first + Len(ms))
             c == Bytes(first + Len(ms) + Len(t), m)
  <2>8. b \in Seq(Byte) /\ c \in Seq(Byte)
    <3>1. first + Len(ms) + Len(t) \in Nat
      BY <1>0, <2>5
    <3>2. c \in Seq(Byte)
      BY <3>1, BytesType, Zenon
    <3>3. b \in Seq(Byte)
      BY <1>0, BytesOfType, Zenon
    <3>4. QED
      BY <3>2, <3>3
  <2>9. BytesOf(s, first + Len(ms)) = b \o c
    BY <1>0, <2>4, BytesOfAppend
  <2>10. BytesOf(ms \o s, first) = BytesOf(ms \o t, first) \o c
    <3>1. BytesOf(ms \o s, first) = BytesOf(ms \o t, first) \o Bytes(first + Len(ms \o t), m)
      BY <2>7, BytesOfAppend
    <3>2. first + Len(ms \o t) = first + Len(ms) + Len(t)
      BY <1>0, <2>5, <2>7
    <3>3. QED
      BY <3>1, <3>2, Zenon
  <2> HIDE DEF b, c
  <2>11. (a \o b) \o c = a \o (b \o c)
    BY <1>0, <2>8, ByteAssociative, Zenon
  <2>12. BytesOf(ms \o t, first) = a \o b
    BY <2>6, Zenon DEF a, b
  <2>13. QED
    BY <2>2, <2>9, <2>10, <2>11, <2>12, Zenon DEF a
<1>3. QED
  BY <1>1, <1>2

\* The bytes of the messages of s after the first h.
Todo(s, h) == BytesOf(SubSeq(s, h + 1, Len(s)), h + 1)

LEMMA TodoType ==
  ASSUME NEW s \in Seq(Messages), NEW h \in Nat
  PROVE  Todo(s, h) \in Seq(Byte)
<1>1. SubSeq(s, h + 1, Len(s)) \in Seq(Messages)
  OBVIOUS
<1>2. h + 1 \in Nat /\ h + 1 > 0
  OBVIOUS
<1>3. QED
  BY <1>1, <1>2, BytesOfType, Zenon DEF Todo

LEMMA TodoNothing ==
  ASSUME NEW s \in Seq(Messages)
  PROVE  Todo(s, Len(s)) = <<>>
<1>1. SubSeq(s, Len(s) + 1, Len(s)) = <<>>
  OBVIOUS
<1>2. QED
  BY <1>1, BytesOfEmpty, Zenon DEF Todo

LEMMA TodoFirst ==
  ASSUME NEW s \in Seq(Messages), NEW h \in Nat, h < Len(s)
  PROVE  Todo(s, h) = Bytes(h + 1, s[h + 1]) \o Todo(s, h + 1)
<1> DEFINE r == SubSeq(s, (h + 1) + 1, Len(s))
           m == s[h + 1]
<1>1. h + 1 \in 1..Len(s) /\ Len(s) \in (h + 1)..Len(s) /\ h + 1 \in Nat /\ h + 1 > 0
  OBVIOUS
<1>2. SubSeq(s, h + 1, Len(s)) = <<m>> \o r
  BY <1>1, SubSeqRecursiveFirst
<1>3. m \in Messages /\ <<m>> \in Seq(Messages) /\ Len(<<m>>) = 1
  BY <1>1
<1>4. r \in Seq(Messages)
  OBVIOUS
<1> HIDE DEF r, m
<1>5. BytesOf(<<m>> \o r, h + 1) = BytesOf(<<m>>, h + 1) \o BytesOf(r, (h + 1) + 1)
  BY <1>1, <1>3, <1>4, BytesOfConcat
<1>6. BytesOf(<<m>>, h + 1) = Bytes(h + 1, m)
  BY <1>1, <1>3, BytesOfSingle
<1>7. QED
  BY <1>2, <1>5, <1>6, Zenon DEF Todo, r, m

LEMMA TodoMore ==
  ASSUME NEW s \in Seq(Messages), NEW ms \in Seq(Messages), NEW h \in Nat, h <= Len(s)
  PROVE  Todo(s \o ms, h) = Todo(s, h) \o BytesOf(ms, Len(s) + 1)
<1> DEFINE a == SubSeq(s, h + 1, Len(s))
           b == SubSeq(s \o ms, h + 1, Len(s \o ms))
           n == Len(s)
           k == Len(ms)
<1>1. /\ n \in Nat /\ k \in Nat /\ s \o ms \in Seq(Messages) /\ Len(s \o ms) = n + k
      /\ \A i \in 1..n : (s \o ms)[i] = s[i]
      /\ \A i \in (n + 1)..(n + k) : (s \o ms)[i] = ms[i - n]
  OBVIOUS
<1>2. /\ a \in Seq(Messages) /\ Len(a) = n - h
      /\ \A i \in 1..(n - h) : a[i] = s[h + i]
  OBVIOUS
<1>3. /\ b \in Seq(Messages) /\ Len(b) = (n + k) - h
      /\ \A i \in 1..((n + k) - h) : b[i] = (s \o ms)[h + i]
  <2> DEFINE u == s \o ms
  <2>1. u \in Seq(Messages) /\ Len(u) = n + k
    BY <1>1
  <2> HIDE DEF u
  <2>2. /\ SubSeq(u, h + 1, Len(u)) \in Seq(Messages)
        /\ Len(SubSeq(u, h + 1, Len(u))) = (n + k) - h
        /\ \A i \in 1..((n + k) - h) : SubSeq(u, h + 1, Len(u))[i] = u[h + i]
    BY <2>1, <1>1
  <2>3. QED
    BY <2>2, Zenon DEF u
<1>4. /\ a \o ms \in Seq(Messages) /\ Len(a \o ms) = (n - h) + k
      /\ \A i \in 1..(n - h) : (a \o ms)[i] = a[i]
      /\ \A i \in (n - h + 1)..(n - h + k) : (a \o ms)[i] = ms[i - (n - h)]
  <2>1. a \in Seq(Messages) /\ Len(a) = n - h
    BY <1>2
  <2> DEFINE l == Len(a)
  <2> HIDE DEF a
  <2>2. l \in Nat /\ k \in Nat
    BY <2>1
  <2>3. /\ a \o ms \in Seq(Messages) /\ Len(a \o ms) = l + k
        /\ \A i \in 1..(l + k) : (a \o ms)[i] = IF i <= l THEN a[i] ELSE ms[i - l]
    BY <2>1, ConcatProperties
  <2> HIDE DEF l, k
  <2>4. /\ \A i \in 1..l : i \in 1..(l + k) /\ i <= l
        /\ \A i \in (l + 1)..(l + k) : i \in 1..(l + k) /\ ~(i <= l)
    BY <2>2
  <2>5. /\ \A i \in 1..l : (a \o ms)[i] = a[i]
        /\ \A i \in (l + 1)..(l + k) : (a \o ms)[i] = ms[i - l]
    BY <2>3, <2>4, Zenon
  <2>6. l = n - h
    BY <2>1, Zenon DEF l
  <2>7. QED
    BY <2>3, <2>5, <2>6, Zenon
<1>5. h + (n - h) = n /\ (n + k) - h = (n - h) + k /\ (h + 1) + (n - h) = n + 1 /\ n - h \in Nat /\ h <= n
  BY <1>1
<1> HIDE DEF a, b, n, k
<1>6. ASSUME NEW i \in 1..((n + k) - h) PROVE b[i] = (a \o ms)[i]
  <2>1. CASE i <= n - h
    <3>1. i \in 1..(n - h) /\ h + i \in 1..n
      BY <1>1, <1>5, <2>1
    <3>2. QED
      BY <1>1, <1>2, <1>3, <1>4, <3>1, Zenon
  <2>2. CASE ~(i <= n - h)
    <3>1. /\ i \in (n - h + 1)..(n - h + k) /\ h + i \in (n + 1)..(n + k)
          /\ (h + i) - n = i - (n - h)
      BY <1>1, <1>5, <2>2
    <3>2. QED
      BY <1>1, <1>3, <1>4, <3>1, Zenon
  <2>3. QED
    BY <2>1, <2>2
<1>7. b = a \o ms
  BY <1>3, <1>4, <1>5, <1>6, SeqEqual
<1>8. BytesOf(a \o ms, h + 1) = BytesOf(a, h + 1) \o BytesOf(ms, (h + 1) + Len(a))
  <2>1. h + 1 \in Nat /\ h + 1 > 0 /\ a \in Seq(Messages)
    BY <1>2
  <2>2. QED
    BY <2>1, BytesOfConcat, Zenon
<1>9. (h + 1) + Len(a) = n + 1
  BY <1>2, <1>5
<1>10. QED
  BY <1>7, <1>8, <1>9, Zenon DEF Todo, a, b, n

----------------------------------------------------------------------------
(* Where a stream of bytes is cut                                          *)

\* The header of the message that is announced.
Announced(s, i) == IF i = 0 THEN <<>> ELSE SubSeq(Bytes(i, s[i]), 1, HdrLen)

LEMMA HeaderType ==
  ASSUME NEW i \in Nat, NEW m \in Messages
  PROVE  /\ SubSeq(Bytes(i, m), 1, HdrLen) \in Seq(Byte)
         /\ Len(SubSeq(Bytes(i, m), 1, HdrLen)) = HdrLen
         /\ \A k \in 1..HdrLen : SubSeq(Bytes(i, m), 1, HdrLen)[k] = Place(i, k)
<1> DEFINE b == Bytes(i, m)
           n == m.size
<1>1. b \in Seq(Byte) /\ Len(b) = HdrLen + n /\ \A k \in 1..(HdrLen + n) : b[k] = Place(i, k)
  BY BytesType
<1>2. HdrLen \in Nat /\ n \in Nat /\ HdrLen > 0
  BY TransceiverAssumption
<1> HIDE DEF b, n
<1>3. \A k \in 1..HdrLen : k \in 1..(HdrLen + n)
  BY <1>2
<1>4. /\ SubSeq(b, 1, HdrLen) \in Seq(Byte) /\ Len(SubSeq(b, 1, HdrLen)) = HdrLen
      /\ \A k \in 1..HdrLen : SubSeq(b, 1, HdrLen)[k] = b[k]
  BY <1>1, <1>2
<1>5. \A k \in 1..HdrLen : SubSeq(b, 1, HdrLen)[k] = Place(i, k)
  BY <1>1, <1>3, <1>4, Zenon
<1>6. QED
  BY <1>4, <1>5, Zenon DEF b

Associate(s, t, u) == (s \o t) \o u = s \o (t \o u)

LEMMA ByteAssociates ==
  \A s, t, u \in Seq(Byte) : Associate(s, t, u)
BY ByteAssociative, Zenon DEF Associate

\* The end of a buffer that goes to the other one.
Regroup(p, b, x, v, r) == (p \o b) \o ((x \o v) \o r) = (p \o (b \o x)) \o (v \o r)

LEMMA Regroups ==
  \A p, b, x, v, r \in Seq(Byte) : Regroup(p, b, x, v, r)
<1> TAKE p, b, x, v, r \in Seq(Byte)
<1>2. p \o b \in Seq(Byte)
  BY ConcatProperties
<1>3. v \o r \in Seq(Byte)
  BY ConcatProperties
<1>4. Associate(x, v, r) /\ Associate(p, b, x) /\ Associate(p \o b, x, v \o r)
  BY <1>2, <1>3, ByteAssociates, Zenon
<1>5. QED
  BY <1>4, Zenon DEF Associate, Regroup

Split(w, n) == w = SubSeq(w, 1, n) \o SubSeq(w, n + 1, Len(w))

LEMMA SplitAt ==
  ASSUME NEW w \in Seq(Byte), NEW n \in Nat, n <= Len(w)
  PROVE  Split(w, n)
<1>1. 1 \in 1..(Len(w) + 1) /\ n \in (1 - 1)..Len(w) /\ Len(w) \in n..Len(w)
  OBVIOUS
<1>2. SubSeq(w, 1, n) \o SubSeq(w, n + 1, Len(w)) = SubSeq(w, 1, Len(w))
  BY <1>1, ConcatAdjacentSubSeq
<1>3. QED
  BY <1>2, SubSeqFull DEF Split

Moved(p, b, w, r, n) ==
  (p \o b) \o (w \o r) = (p \o (b \o SubSeq(w, 1, n))) \o (SubSeq(w, n + 1, Len(w)) \o r)

\* recv() moves bytes from the connection to the buffer.
LEMMA Taken ==
  ASSUME NEW p \in Seq(Byte), NEW b \in Seq(Byte), NEW w \in Seq(Byte), NEW r \in Seq(Byte),
         NEW n \in Nat, n <= Len(w)
  PROVE  /\ b \o SubSeq(w, 1, n) \in Seq(Byte) /\ SubSeq(w, n + 1, Len(w)) \in Seq(Byte)
         /\ Len(b \o SubSeq(w, 1, n)) = Len(b) + n
         /\ Len(SubSeq(w, n + 1, Len(w))) = Len(w) - n
         /\ Moved(p, b, w, r, n)
<1> DEFINE x == SubSeq(w, 1, n)
           v == SubSeq(w, n + 1, Len(w))
<1>1. x \in Seq(Byte) /\ Len(x) = n /\ v \in Seq(Byte) /\ Len(v) = Len(w) - n
  OBVIOUS
<1>2. w = x \o v
  BY SplitAt, Zenon DEF Split
<1> HIDE DEF x, v
<1>3. b \o x \in Seq(Byte) /\ Len(b \o x) = Len(b) + n
  BY <1>1, ConcatProperties
<1>4. (p \o b) \o (w \o r) = (p \o (b \o x)) \o (v \o r)
  <2>1. x \in Seq(Byte)
    BY <1>1
  <2>2. v \in Seq(Byte)
    BY <1>1
  <2>3. Regroup(p, b, x, v, r)
    BY <2>1, <2>2, Regroups, Zenon
  <2>4. QED
    BY <1>2, <2>3, Zenon DEF Regroup
<1>5. QED
  BY <1>1, <1>3, <1>4, Zenon DEF Moved, x, v

\* Two ways to cut one sequence.
Cut(c, e, b, t) ==
  c \o e = b \o t /\ Len(c) <= Len(b)
    => /\ \A k \in 1..Len(c) : c[k] = b[k]
       /\ Len(c) = Len(b) => c = b /\ e = t

LEMMA Cuts ==
  \A c, e, b, t \in Seq(Byte) : Cut(c, e, b, t)
<1> TAKE c, e, b, t \in Seq(Byte)
<1> SUFFICES ASSUME c \o e = b \o t, Len(c) <= Len(b)
             PROVE  /\ \A k \in 1..Len(c) : c[k] = b[k]
                    /\ Len(c) = Len(b) => c = b /\ e = t
  BY DEF Cut
<1>1. Len(c) \in Nat /\ Len(b) \in Nat /\ Len(e) \in Nat /\ Len(t) \in Nat
  OBVIOUS
<1>2. \A k \in 1..Len(c) : (c \o e)[k] = c[k]
  OBVIOUS
<1>3. \A k \in 1..Len(b) : (b \o t)[k] = b[k]
  OBVIOUS
<1>4. \A k \in 1..Len(c) : k \in 1..Len(b)
  BY <1>1
<1>5. \A k \in 1..Len(c) : c[k] = b[k]
  BY <1>2, <1>3, <1>4, Zenon
<1>6. ASSUME Len(c) = Len(b) PROVE c = b /\ e = t
  <2>1. c = b
    BY <1>5, <1>6, SeqEqual
  <2>2. QED
    BY <2>1, ByteCancel
<1>7. QED
  BY <1>5, <1>6

\* The bytes that come first are those of the next message.
LEMMA NextMessage ==
  ASSUME NEW s \in Seq(Messages), NEW h \in Nat, h <= Len(s),
         NEW c \in Seq(Byte), NEW e \in Seq(Byte), c # <<>>, c \o e = Todo(s, h)
  PROVE  /\ h < Len(s) /\ s[h + 1] \in Messages
         /\ Len(c) <= HdrLen + s[h + 1].size => \A k \in 1..Len(c) : c[k] = Place(h + 1, k)
         /\ Len(c) = HdrLen + s[h + 1].size => e = Todo(s, h + 1)
<1>1. h < Len(s)
  <2>1. SUFFICES ASSUME h = Len(s) PROVE FALSE
    OBVIOUS
  <2>2. c \o e = <<>>
    BY <2>1, TodoNothing
  <2>3. QED
    BY <2>2, ConcatEqualIffEmpty
<1> DEFINE m == s[h + 1]
           b == Bytes(h + 1, m)
           t == Todo(s, h + 1)
           n == HdrLen + m.size
<1>2. m \in Messages
  BY <1>1
<1>3. c \o e = b \o t
  BY <1>1, TodoFirst
<1>4. h + 1 \in Nat
  OBVIOUS
<1>5. b \in Seq(Byte) /\ Len(b) = n /\ \A k \in 1..n : b[k] = Place(h + 1, k)
  BY <1>2, <1>4, BytesType, Zenon
<1>6. t \in Seq(Byte)
  BY <1>4, TodoType, Zenon
<1>7. n \in Nat /\ Len(c) \in Nat
  BY <1>2, TransceiverAssumption
<1> HIDE DEF m, b, t, n
<1>8. Len(c) <= n => /\ \A k \in 1..Len(c) : c[k] = b[k]
                     /\ Len(c) = n => e = t
  <2>1. b \in Seq(Byte) /\ Len(b) = n
    BY <1>5
  <2>2. Cut(c, e, b, t)
    BY <1>6, <2>1, Cuts, Zenon
  <2>3. QED
    BY <1>3, <2>1, <2>2, Zenon DEF Cut
<1>9. Len(c) <= n => \A k \in 1..Len(c) : k \in 1..n
  BY <1>7
<1>10. Len(c) <= n => \A k \in 1..Len(c) : c[k] = Place(h + 1, k)
  BY <1>5, <1>8, <1>9, Zenon
<1>11. Len(c) = n => Len(c) <= n
  BY <1>7
<1>12. QED
  BY <1>1, <1>2, <1>8, <1>10, <1>11, Zenon DEF m, t, n

\* With the header of i read, b in the buffer and w under way, r is what
\* follows until the messages of s after the first h are complete.
Follow(s, h, i, b, w, r) == (Announced(s, i) \o b) \o (w \o r) = Todo(s, h)

LEMMA AnnouncedType ==
  ASSUME NEW s \in Seq(Messages), NEW i \in Nat, i <= Len(s)
  PROVE  /\ Announced(s, i) \in Seq(Byte)
         /\ i = 0 => Announced(s, i) = <<>>
         /\ i # 0 => Len(Announced(s, i)) = HdrLen
<1>1. CASE i = 0
  BY <1>1 DEF Announced
<1>2. CASE i # 0
  <2>1. s[i] \in Messages
    BY <1>2
  <2>2. QED
    BY <1>2, <2>1, HeaderType, Zenon DEF Announced
<1>3. QED
  BY <1>1, <1>2

\* A message whose bytes are all there is the one that has to be handled next.
LEMMA WholeMessage ==
  ASSUME NEW s \in Seq(Messages), NEW h \in Nat, h < Len(s),
         NEW b \in Seq(Byte), NEW w \in Seq(Byte), NEW r \in Seq(Byte),
         Follow(s, h, h + 1, b, w, r), Len(b) = s[h + 1].size
  PROVE  Follow(s, h + 1, 0, <<>>, w, r)
<1> DEFINE a == Announced(s, h + 1)
           c == a \o b
           e == w \o r
<1>1. h + 1 \in Nat /\ h + 1 <= Len(s) /\ h + 1 # 0 /\ h <= Len(s)
  OBVIOUS
<1>2. a \in Seq(Byte) /\ Len(a) = HdrLen
  BY <1>1, AnnouncedType, Zenon
<1>3. HdrLen \in Nat /\ HdrLen > 0 /\ Len(b) \in Nat
  BY TransceiverAssumption
<1> HIDE DEF a
<1>4. c \in Seq(Byte) /\ Len(c) = HdrLen + Len(b)
  BY <1>2, ConcatProperties
<1>5. e \in Seq(Byte)
  BY ConcatProperties
<1>6. c \o e = Todo(s, h)
  BY Zenon DEF Follow, a
<1> HIDE DEF c, e
<1>7. c # <<>>
  BY <1>3, <1>4
<1>8. e = Todo(s, h + 1)
  <2>1. c \in Seq(Byte)
    BY <1>4
  <2>2. Len(c) = HdrLen + s[h + 1].size => e = Todo(s, h + 1)
    BY <1>1, <1>5, <1>6, <1>7, <2>1, NextMessage
  <2>3. QED
    BY <1>4, <2>2, Zenon
<1>9. (Announced(s, 0) \o <<>>) \o (w \o r) = e
  <2>1. Announced(s, 0) = <<>> /\ <<>> \in Seq(Byte)
    BY Zenon, EmptySeq DEF Announced
  <2>2. <<>> \o <<>> = <<>> /\ <<>> \o e = e
    BY <1>5, <2>1, ConcatEmptySeq
  <2>3. QED
    BY <2>1, <2>2, Zenon DEF e
<1>10. QED
  BY <1>8, <1>9, Zenon DEF Follow

\* Bytes that are moved from the connection to the buffer.
LEMMA TakeBytes ==
  ASSUME NEW s \in Seq(Messages), NEW h \in Nat, NEW i \in Nat, i <= Len(s),
         NEW b \in Seq(Byte), NEW w \in Seq(Byte), NEW r \in Seq(Byte),
         NEW n \in Nat, n <= Len(w), Follow(s, h, i, b, w, r)
  PROVE  Follow(s, h, i, b \o SubSeq(w, 1, n), SubSeq(w, n + 1, Len(w)), r)
<1> DEFINE a == Announced(s, i)
<1>1. a \in Seq(Byte)
  BY AnnouncedType
<1>2. (a \o b) \o (w \o r) = Todo(s, h)
  BY Zenon DEF Follow
<1> HIDE DEF a
<1>3. Moved(a, b, w, r, n)
  BY <1>1, Taken, Zenon
<1>4. QED
  BY <1>2, <1>3, Zenon DEF Follow, Moved, a

\* Bytes of a header: they are those of the message that has to come next.
LEMMA HeaderBytes ==
  ASSUME NEW s \in Seq(Messages), NEW h \in Nat, h <= Len(s),
         NEW b \in Seq(Byte), NEW w \in Seq(Byte), NEW r \in Seq(Byte),
         Follow(s, h, 0, b, w, r), b # <<>>, Len(b) <= HdrLen
  PROVE  /\ h < Len(s) /\ b[1].msg = h + 1
         /\ Len(b) = HdrLen => /\ b = [k \in 1..HdrLen |-> Place(h + 1, k)]
                               /\ Follow(s, h, h + 1, <<>>, w, r)
<1> DEFINE e == w \o r
           m == s[h + 1]
<1>1. e \in Seq(Byte) /\ <<>> \in Seq(Byte)
  BY ConcatProperties
<1>2. b \o e = Todo(s, h)
  <2>1. Announced(s, 0) = <<>> /\ <<>> \o b = b
    BY ConcatEmptySeq, Zenon DEF Announced
  <2>2. QED
    BY <2>1, Zenon DEF Follow
<1>3. HdrLen \in Nat /\ Len(b) \in Nat /\ Len(b) > 0
  BY TransceiverAssumption
<1> HIDE DEF e
<1>4. /\ h < Len(s) /\ m \in Messages
      /\ Len(b) <= HdrLen + m.size => \A k \in 1..Len(b) : b[k] = Place(h + 1, k)
  BY <1>1, <1>2, NextMessage
<1>5. Len(b) <= HdrLen + m.size
  BY <1>3, <1>4, TransceiverAssumption
<1> HIDE DEF m
<1>6. \A k \in 1..Len(b) : b[k] = Place(h + 1, k)
  BY <1>4, <1>5
<1>7. b[1].msg = h + 1
  <2>1. 1 \in 1..Len(b)
    BY <1>3
  <2>2. b[1] = [msg |-> h + 1, at |-> 1]
    BY <1>6, <2>1, Zenon DEF Place
  <2>3. QED
    BY <2>2
<1>8. ASSUME Len(b) = HdrLen
      PROVE  /\ b = [k \in 1..HdrLen |-> Place(h + 1, k)]
             /\ Follow(s, h, h + 1, <<>>, w, r)
  <2> DEFINE a == Announced(s, h + 1)
  <2>1. h + 1 \in Nat /\ h + 1 <= Len(s) /\ h + 1 # 0
    BY <1>4
  <2>2. a \in Seq(Byte) /\ Len(a) = HdrLen /\ \A k \in 1..HdrLen : a[k] = Place(h + 1, k)
    BY <1>4, <2>1, HeaderType, Zenon DEF Announced, m
  <2> HIDE DEF a
  <2>3. \A k \in 1..Len(a) : a[k] = b[k]
    BY <1>6, <1>8, <2>2, Zenon
  <2>4. a = b
    BY <1>8, <2>2, <2>3, SeqEqual
  <2>5. b = [k \in 1..HdrLen |-> Place(h + 1, k)]
    <3>1. b = [k \in 1..Len(b) |-> b[k]]
      OBVIOUS
    <3>2. QED
      BY <1>6, <1>8, <3>1, Zenon
  <2>6. (a \o <<>>) \o e = Todo(s, h)
    <3>1. a \o <<>> = a
      BY <2>2, ConcatEmptySeq
    <3>2. QED
      BY <1>2, <2>4, <3>1, Zenon
  <2>7. QED
    BY <2>5, <2>6, Zenon DEF Follow, a, e
<1>9. QED
  BY <1>4, <1>7, <1>8, Zenon

----------------------------------------------------------------------------
(* The invariant                                                           *)

SequenceTypes == txData \in Seq(Byte) /\ wire \in Seq(Byte) /\ rxBuffers \in Seq(Byte)

\* A header is read only for the message that has to be handled next.
InTurn == Len(handled) <= Len(sent) /\ (hdr # 0 => hdr = Len(handled) + 1)

\* What has been read and what is under way is the beginning of what has not
\* been handled, also after the sending end has closed; before, the rest is
\* what it has yet to send.
Along ==
  rxOpen => \E r \in Seq(Byte) :
              /\ Follow(sent, Len(handled), hdr, rxBuffers, wire, r)
              /\ txOpen => r = txData

TInv == StreamTypeOK /\ SequenceTypes /\ InTurn /\ Along

LEMMA InitFits == StreamInit => TInv
<1> SUFFICES ASSUME StreamInit PROVE TInv
  OBVIOUS
<1>1. <<>> \in Seq(Messages) /\ <<>> \in Seq(Byte) /\ Len(<<>>) = 0
  OBVIOUS
<1>2. StreamTypeOK /\ SequenceTypes /\ InTurn
  BY <1>1, TransceiverAssumption DEF StreamInit, StreamTypeOK, SequenceTypes, InTurn
<1>3. Follow(<<>>, 0, 0, <<>>, <<>>, <<>>)
  <2>1. <<>> \o <<>> = <<>> /\ Announced(<<>>, 0) = <<>>
    BY <1>1, ConcatEmptySeq, Zenon DEF Announced
  <2>2. Todo(<<>>, 0) = <<>>
    BY <1>1, TodoNothing
  <2>3. QED
    BY <2>1, <2>2, Zenon DEF Follow
<1>4. Along
  BY <1>1, <1>3, Zenon DEF StreamInit, Along
<1>5. QED
  BY <1>2, <1>4 DEF TInv

LEMMA FitsInSync == TInv => InSync
<1> SUFFICES ASSUME TInv, txOpen, rxOpen
             PROVE  (Received \o wire) \o txData = Todo(sent, Len(handled))
  BY Zenon DEF InSync, Todo
<1>1. Follow(sent, Len(handled), hdr, rxBuffers, wire, txData)
  BY Zenon DEF TInv, Along
<1> DEFINE a == Announced(sent, hdr) \o rxBuffers
<1>2. txData \in Seq(Byte)
  BY DEF TInv, SequenceTypes
<1>3. wire \in Seq(Byte)
  BY DEF TInv, SequenceTypes
<1>4. a \in Seq(Byte)
  <2>1. sent \in Seq(Messages) /\ hdr \in Nat /\ hdr <= Len(sent) /\ rxBuffers \in Seq(Byte)
    BY DEF TInv, StreamTypeOK, SequenceTypes
  <2>2. Announced(sent, hdr) \in Seq(Byte)
    BY <2>1, AnnouncedType
  <2>3. QED
    BY <2>1, <2>2, ConcatProperties
<1>5. Received = a
  BY Zenon DEF Received, Announced
<1>6. a \o (wire \o txData) = Todo(sent, Len(handled))
  BY <1>1, Zenon DEF Follow
<1> HIDE DEF a
<1>7. (a \o wire) \o txData = a \o (wire \o txData)
  BY <1>2, <1>3, <1>4, ByteAssociative, Zenon
<1>8. QED
  BY <1>5, <1>6, <1>7, Zenon

\* A step of the stream of messages, or none.
StreamStep == [Stream!Next]_(Stream!vars)

LEMMA FinishFits ==
  ASSUME TInv, rxOpen, NEW payload \in Seq(Byte), NEW r \in Seq(Byte), NEW v \in Seq(Byte),
         Len(handled) < Len(sent), Len(payload) = sent[Len(handled) + 1].size,
         wire' = v, Len(v) <= Room, txOpen => r = txData,
         Follow(sent, Len(handled), Len(handled) + 1, payload, v, r),
         Finish(Len(handled) + 1, payload), UNCHANGED <<atClient, sender>>
  PROVE  TInv' /\ StreamStep
<1> DEFINE h == Len(handled)
           m == sent[h + 1]
<1>1. /\ sent \in Seq(Messages) /\ handled \in Seq(Messages) /\ h \in Nat /\ Len(sent) \in Nat
      /\ atClient \in BOOLEAN /\ txOpen \in BOOLEAN /\ rxOpen \in BOOLEAN
      /\ txData \in Seq(Byte)
  BY DEF TInv, StreamTypeOK, SequenceTypes
<1>2. sent' = sent /\ txData' = txData /\ txOpen' = txOpen /\ atClient' = atClient
  BY DEF sender
<1>3. m \in Messages /\ h + 1 \in 0..Len(sent) /\ h + 1 # 0 /\ h + 1 \in Nat /\ h < Len(sent)
  BY <1>1
<1>4. HdrLen \in Nat /\ HdrLen # 0 /\ m.size \in Nat /\ Room \in Nat
  BY <1>3, TransceiverAssumption
<1>5. <<>> \in Seq(Byte) /\ Len(<<>>) = 0 /\ Len(payload) = m.size /\ Len(v) \in Nat
  OBVIOUS
<1> DEFINE z == Size(h + 1)
<1>6. z = HdrLen + Len(payload)
  BY Zenon DEF Size
<1> HIDE DEF m, z
<1>7. CASE m.decodes
  <2>1. /\ handled' = Append(handled, m)
        /\ rxBuffers' = <<>> /\ rxByteCnt' = 0 /\ hdr' = 0 /\ rxOpen' = rxOpen
    BY <1>7, Zenon DEF Finish, ResetRxBuf, m
  <2>2. handled' \in Seq(Messages) /\ Len(handled') = h + 1
    BY <1>1, <1>3, <2>1
  <2>3. StreamTypeOK'
    BY <1>1, <1>2, <1>4, <1>5, <2>1, <2>2 DEF StreamTypeOK
  <2>4. SequenceTypes' /\ InTurn'
    BY <1>1, <1>2, <1>3, <1>5, <2>1, <2>2 DEF SequenceTypes, InTurn
  <2>5. Follow(sent, h + 1, 0, <<>>, v, r)
    BY <1>1, <1>3, WholeMessage
  <2>6. Along'
    BY <1>2, <2>1, <2>2, <2>5, Zenon DEF Along
  <2>7. StreamStep
    BY <1>2, <1>3, <1>7, <2>1, Zenon DEF StreamStep, Stream!Next, Stream!Handle, m
  <2>8. QED
    BY <2>3, <2>4, <2>6, <2>7 DEF TInv
<1>8. CASE ~m.decodes
  <2>1. /\ hdr' = h + 1 /\ rxBuffers' = payload /\ rxByteCnt' = z
        /\ rxOpen' = atClient /\ handled' = handled
    BY <1>8, Zenon DEF Finish, m, z
  <2>2. Size(hdr)' = z
    BY <1>2, <2>1, Zenon DEF Size, z
  <2>3. StreamTypeOK'
    BY <1>1, <1>2, <1>3, <1>4, <1>5, <1>6, <2>1, <2>2 DEF StreamTypeOK
  <2>4. SequenceTypes' /\ InTurn'
    BY <1>1, <1>2, <1>3, <2>1 DEF SequenceTypes, InTurn
  <2>5. Along'
    BY <1>2, <2>1, Zenon DEF Along
  <2>6. StreamStep
    <3>1. CASE atClient
      BY <1>1, <1>2, <2>1, <3>1, Zenon DEF StreamStep, Stream!vars
    <3>2. CASE ~atClient
      BY <1>1, <1>2, <2>1, <3>2, Zenon DEF StreamStep, Stream!Next, Stream!Lose
    <3>3. QED
      BY <3>1, <3>2
  <2>7. QED
    BY <2>3, <2>4, <2>5, <2>6 DEF TInv
<1>9. QED
  BY <1>7, <1>8

LEMMA SendFits ==
  ASSUME TInv, SendMessages
  PROVE  TInv' /\ StreamStep
<1>1. PICK ms \in SeqOf(Messages, 2) : /\ ms # <<>> /\ sent' = sent \o ms
                                       /\ txData' = BytesOf(ms, Len(sent) + 1)
  BY DEF SendMessages
<1>2. /\ txOpen /\ txData = <<>> /\ txOpen' = txOpen /\ atClient' = atClient /\ wire' = wire
      /\ rxBuffers' = rxBuffers /\ rxByteCnt' = rxByteCnt /\ hdr' = hdr
      /\ handled' = handled /\ rxOpen' = rxOpen
  BY DEF SendMessages, buffer
<1>3. ms \in Seq(Messages)
  <2>1. PICK k \in 0..2 : ms \in [1..k -> Messages]
    BY Zenon DEF SeqOf
  <2>2. k \in Nat
    OBVIOUS
  <2>3. QED
    BY <2>1, <2>2
<1> DEFINE h == Len(handled)
           n == Len(sent)
           d == BytesOf(ms, n + 1)
           a == Announced(sent, hdr)
           b == a \o rxBuffers
<1>4. /\ sent \in Seq(Messages) /\ handled \in Seq(Messages) /\ h \in Nat /\ n \in Nat /\ h <= n
      /\ hdr \in 0..n /\ hdr \in Nat /\ wire \in Seq(Byte) /\ rxBuffers \in Seq(Byte)
  BY DEF TInv, StreamTypeOK, SequenceTypes, InTurn
<1>5. /\ sent' \in Seq(Messages) /\ n <= Len(sent') /\ Len(sent') \in Nat
      /\ \A i \in 1..n : sent'[i] = sent[i]
      /\ SubSeq(sent', 1, n) = SubSeq(sent, 1, n)
  <2> DEFINE t == sent \o ms
  <2>1. t \in Seq(Messages) /\ Len(t) = n + Len(ms) /\ \A i \in 1..n : t[i] = sent[i]
    BY <1>3, <1>4
  <2>2. Len(ms) \in Nat
    BY <1>3
  <2> HIDE DEF t, n
  <2>3. /\ SubSeq(t, 1, n) \in Seq(Messages) /\ Len(SubSeq(t, 1, n)) = n
        /\ \A i \in 1..n : SubSeq(t, 1, n)[i] = t[i]
    BY <1>4, <2>1, <2>2
  <2>4. /\ SubSeq(sent, 1, n) \in Seq(Messages) /\ Len(SubSeq(sent, 1, n)) = n
        /\ \A i \in 1..n : SubSeq(sent, 1, n)[i] = sent[i]
    BY <1>4 DEF n
  <2>5. \A i \in 1..n : SubSeq(t, 1, n)[i] = SubSeq(sent, 1, n)[i]
    BY <2>1, <2>3, <2>4, Zenon
  <2>6. SubSeq(t, 1, n) = SubSeq(sent, 1, n)
    BY <2>3, <2>4, <2>5, SeqEqual
  <2>7. n <= Len(t) /\ Len(t) \in Nat
    BY <1>4, <2>1, <2>2
  <2>8. QED
    BY <1>1, <2>1, <2>6, <2>7, Zenon DEF t
<1>6. d \in Seq(Byte)
  BY <1>3, <1>4, BytesOfType
<1>7. hdr # 0 => hdr \in 1..n
  BY <1>4
<1>8. /\ Size(hdr)' = Size(hdr) \/ hdr = 0
      /\ Announced(sent', hdr) = a
  BY <1>2, <1>5, <1>7, Zenon DEF Size, Announced
<1>9. StreamTypeOK'
  <2>1. hdr \in 0..Len(sent')
    BY <1>4, <1>5
  <2> DEFINE z == Size(hdr)
  <2>2. /\ atClient \in BOOLEAN /\ txOpen \in BOOLEAN /\ rxOpen \in BOOLEAN
        /\ rxByteCnt = Len(rxBuffers) + (IF hdr = 0 THEN 0 ELSE HdrLen)
        /\ rxByteCnt <= (IF hdr = 0 THEN HdrLen - 1 ELSE z)
        /\ Len(wire) <= Room
    BY DEF TInv, StreamTypeOK
  <2>3. z = Size(hdr)' \/ hdr = 0
    BY <1>8
  <2> HIDE DEF z
  <2>4. rxByteCnt <= (IF hdr = 0 THEN HdrLen - 1 ELSE Size(hdr)')
    BY <2>2, <2>3, Zenon
  <2>5. QED
    BY <1>2, <1>4, <1>5, <2>1, <2>2, <2>4, Zenon DEF StreamTypeOK
<1>10. SequenceTypes'
  BY <1>1, <1>2, <1>4, <1>6 DEF SequenceTypes
<1>11. InTurn'
  BY <1>2, <1>4, <1>5 DEF TInv, InTurn
<1>12. ASSUME rxOpen PROVE Follow(sent', h, hdr, rxBuffers, wire, d)
  <2>1. Follow(sent, h, hdr, rxBuffers, wire, <<>>)
    BY <1>2, <1>12, Zenon DEF TInv, Along
  <2>2. b \in Seq(Byte)
    <3>1. a \in Seq(Byte)
      BY <1>4, AnnouncedType
    <3>2. QED
      BY <1>4, <3>1, ConcatProperties
  <2>3. b \o (wire \o <<>>) = Todo(sent, h)
    BY <2>1, Zenon DEF Follow
  <2>4. Todo(sent \o ms, h) = Todo(sent, h) \o d
    BY <1>3, <1>4, TodoMore, Zenon
  <2>5. Announced(sent', hdr) \o rxBuffers = b
    BY <1>8, Zenon
  <2> HIDE DEF b, d
  <2>6. wire \o <<>> = wire
    BY <1>4, ConcatEmptySeq
  <2>7. Associate(b, wire, d)
    BY <1>4, <1>6, <2>2, ByteAssociates, Zenon
  <2>8. QED
    BY <1>1, <2>3, <2>4, <2>5, <2>6, <2>7, Zenon DEF Follow, Associate
<1>13. Along'
  BY <1>1, <1>2, <1>6, <1>12, Zenon DEF Along
<1>14. Stream!IsPrefix(sent, sent')
  BY <1>5, Zenon DEF Stream!IsPrefix
<1>15. StreamStep
  BY <1>2, <1>5, <1>14, Zenon DEF StreamStep, Stream!Next, Stream!Send
<1>16. QED
  BY <1>9, <1>10, <1>11, <1>13, <1>15 DEF TInv

LEMMA FragmentFits ==
  ASSUME TInv, Fragment
  PROVE  TInv' /\ StreamStep
<1>1. PICK n \in 1..Len(txData) :
        /\ Len(wire) + n <= Room
        /\ wire' = wire \o SubSeq(txData, 1, n)
        /\ txData' = SubSeq(txData, n + 1, Len(txData))
  BY DEF Fragment
<1>2. /\ txOpen /\ rxOpen /\ txOpen' = txOpen /\ atClient' = atClient /\ sent' = sent
      /\ rxBuffers' = rxBuffers /\ rxByteCnt' = rxByteCnt /\ hdr' = hdr
      /\ handled' = handled /\ rxOpen' = rxOpen
  BY DEF Fragment, buffer
<1>3. txData \in Seq(Byte)
  BY DEF TInv, SequenceTypes
<1>4. wire \in Seq(Byte)
  BY DEF TInv, SequenceTypes
<1>5. n \in Nat /\ n <= Len(txData)
  BY <1>1, <1>3
<1> DEFINE x == SubSeq(txData, 1, n)
           v == SubSeq(txData, n + 1, Len(txData))
<1>6. x \in Seq(Byte) /\ Len(x) = n
  BY <1>3, <1>5
<1>7. v \in Seq(Byte)
  BY <1>3, <1>5
<1>8. txData = x \o v
  BY <1>3, <1>5, SplitAt DEF Split
<1>9. wire' = wire \o x /\ txData' = v
  BY <1>1
<1> HIDE DEF x, v
<1>10. wire' \in Seq(Byte) /\ Len(wire') <= Room
  BY <1>1, <1>4, <1>6, <1>9, ConcatProperties
<1>11. StreamTypeOK'
  BY <1>2, <1>10, Zenon DEF TInv, StreamTypeOK, Size
<1>12. SequenceTypes' /\ InTurn'
  BY <1>2, <1>7, <1>9, <1>10, Zenon DEF TInv, SequenceTypes, InTurn
<1>13. Follow(sent, Len(handled), hdr, rxBuffers, wire', v)
  <2>1. Follow(sent, Len(handled), hdr, rxBuffers, wire, txData)
    BY <1>2, Zenon DEF TInv, Along
  <2>2. Associate(wire, x, v)
    BY <1>4, <1>6, <1>7, ByteAssociates, Zenon
  <2>3. wire \o txData = wire' \o v
    BY <1>8, <1>9, <2>2, Zenon DEF Associate
  <2>4. QED
    BY <2>1, <2>3, Zenon DEF Follow
<1>14. Along'
  BY <1>2, <1>7, <1>9, <1>13, Zenon DEF Along
<1>15. StreamStep
  BY <1>2, Zenon DEF StreamStep, Stream!vars
<1>16. QED
  BY <1>11, <1>12, <1>14, <1>15 DEF TInv

LEMMA CloseFits ==
  ASSUME TInv, CloseSender
  PROVE  TInv' /\ StreamStep
<1>1. /\ txOpen' = FALSE /\ txData' = <<>> /\ wire' \in {wire, <<>>}
      /\ atClient' = atClient /\ sent' = sent /\ handled' = handled /\ rxOpen' = rxOpen
      /\ rxBuffers' = rxBuffers /\ rxByteCnt' = rxByteCnt /\ hdr' = hdr
  BY DEF CloseSender, buffer
<1>2. <<>> \in Seq(Byte) /\ Len(<<>>) = 0 /\ Room \in Nat
  BY TransceiverAssumption
<1>3. wire \in Seq(Byte)
  BY DEF TInv, SequenceTypes
<1>4. wire' \in Seq(Byte) /\ Len(wire') <= Room
  <2>1. Len(wire) <= Room /\ Len(<<>>) <= Room
    BY <1>2 DEF TInv, StreamTypeOK
  <2>2. QED
    BY <1>1, <1>2, <1>3, <2>1, Zenon
<1>5. StreamTypeOK'
  BY <1>1, <1>4, Zenon DEF TInv, StreamTypeOK, Size
<1>6. SequenceTypes' /\ InTurn'
  BY <1>1, <1>2, <1>4, Zenon DEF TInv, SequenceTypes, InTurn
<1>7. ASSUME rxOpen
      PROVE  \E r \in Seq(Byte) : Follow(sent, Len(handled), hdr, rxBuffers, wire', r)
  <2>1. PICK r \in Seq(Byte) : Follow(sent, Len(handled), hdr, rxBuffers, wire, r)
    BY <1>7, Zenon DEF TInv, Along
  <2>2. CASE wire' = wire
    BY <2>1, <2>2, Zenon
  <2>3. CASE wire' = <<>>
    <3> DEFINE e == wire \o r
    <3>1. e \in Seq(Byte)
      BY <1>3, ConcatProperties
    <3>2. <<>> \o e = e
      BY <3>1, ConcatEmptySeq
    <3>3. Follow(sent, Len(handled), hdr, rxBuffers, wire', e)
      BY <2>1, <2>3, <3>2, Zenon DEF Follow
    <3>4. QED
      BY <3>1, <3>3, Zenon
  <2>4. QED
    BY <1>1, <2>2, <2>3
<1>8. Along'
  BY <1>1, <1>7, Zenon DEF Along
<1>9. StreamStep
  BY <1>1, Zenon DEF StreamStep, Stream!vars
<1>10. QED
  BY <1>5, <1>6, <1>8, <1>9 DEF TInv

LEMMA ReadHeaderFits ==
  ASSUME TInv, ReadHeader
  PROVE  TInv' /\ StreamStep
<1>1. PICK n \in 1..(HdrLen - rxByteCnt) :
        /\ n <= Len(wire) /\ wire' = SubSeq(wire, n + 1, Len(wire))
        /\ LET bytes == rxBuffers \o SubSeq(wire, 1, n)
               i == bytes[1].msg
           IN CASE Len(bytes) < HdrLen ->
                     /\ rxBuffers' = bytes /\ rxByteCnt' = rxByteCnt + n
                     /\ UNCHANGED <<hdr, handled, rxOpen>>
                [] Len(bytes) = HdrLen /\ ~IsHeader(bytes) ->
                     ResetRxBuf /\ UNCHANGED <<handled, rxOpen>>
                [] Len(bytes) = HdrLen /\ IsHeader(bytes) /\ sent[i].size > 0 ->
                     /\ hdr' = i /\ rxBuffers' = <<>> /\ rxByteCnt' = HdrLen
                     /\ UNCHANGED <<handled, rxOpen>>
                [] OTHER -> Finish(i, <<>>)
  BY DEF ReadHeader
<1>2. /\ rxOpen /\ rxByteCnt < HdrLen
      /\ atClient' = atClient /\ sent' = sent /\ txData' = txData /\ txOpen' = txOpen
  BY DEF ReadHeader, sender
<1> DEFINE c == rxBuffers \o SubSeq(wire, 1, n)
           v == SubSeq(wire, n + 1, Len(wire))
           h == Len(handled)
           m == sent[h + 1]
<1>3. /\ sent \in Seq(Messages) /\ handled \in Seq(Messages) /\ h \in Nat /\ h <= Len(sent)
      /\ rxBuffers \in Seq(Byte) /\ wire \in Seq(Byte) /\ txData \in Seq(Byte)
      /\ atClient \in BOOLEAN /\ txOpen \in BOOLEAN /\ rxOpen \in BOOLEAN
      /\ Len(wire) <= Room /\ Len(sent) \in Nat
  BY DEF TInv, StreamTypeOK, SequenceTypes, InTurn
<1>4. HdrLen \in Nat /\ HdrLen > 0 /\ Room \in Nat
  BY TransceiverAssumption
<1>5. hdr = 0 /\ rxByteCnt = Len(rxBuffers) /\ rxByteCnt \in Nat
  BY <1>2, <1>3, <1>4 DEF TInv, StreamTypeOK
<1>6. n \in Nat /\ n > 0 /\ n <= Len(wire) /\ rxByteCnt + n <= HdrLen
  BY <1>1, <1>4, <1>5
<1>7. PICK r \in Seq(Byte) : Follow(sent, h, 0, rxBuffers, wire, r) /\ (txOpen => r = txData)
  BY <1>2, <1>5, Zenon DEF TInv, Along
<1>8. c \in Seq(Byte) /\ v \in Seq(Byte) /\ Len(c) = rxByteCnt + n /\ Len(v) = Len(wire) - n
  BY <1>3, <1>5, <1>6, Taken
<1>9. Follow(sent, h, 0, c, v, r)
  BY <1>3, <1>6, <1>7, TakeBytes
<1> HIDE DEF c, v, m
<1>10. Len(v) <= Room /\ Len(v) \in Nat /\ Len(c) <= HdrLen /\ Len(c) > 0 /\ Len(c) \in Nat /\ c # <<>>
  <2>1. Len(c) \in Nat /\ Len(v) \in Nat /\ Len(wire) \in Nat /\ (c = <<>> => Len(c) = 0)
    BY <1>3, <1>8
  <2>2. QED
    BY <1>3, <1>4, <1>5, <1>6, <1>8, <2>1
<1>11. /\ h < Len(sent) /\ c[1].msg = h + 1
       /\ Len(c) = HdrLen => /\ c = [k \in 1..HdrLen |-> Place(h + 1, k)]
                             /\ Follow(sent, h, h + 1, <<>>, v, r)
  BY <1>3, <1>8, <1>9, <1>10, HeaderBytes
<1>12. wire' = v
  BY <1>1 DEF v
<1>13. m \in Messages /\ m.size \in Nat /\ h + 1 \in 0..Len(sent) /\ h + 1 # 0
  <2>1. m \in Messages /\ h + 1 \in 0..Len(sent) /\ h + 1 # 0
    BY <1>3, <1>11 DEF m
  <2>2. QED
    BY <2>1, TransceiverAssumption
<1>14. CASE Len(c) < HdrLen
  <2>1. /\ rxBuffers' = c /\ rxByteCnt' = rxByteCnt + n /\ hdr' = hdr
        /\ handled' = handled /\ rxOpen' = rxOpen
    <3>1. ~(Len(c) = HdrLen)
      BY <1>4, <1>10, <1>14
    <3>2. QED
      BY <1>1, <1>14, <3>1, Zenon DEF c
  <2>2. StreamTypeOK'
    <3>1. rxByteCnt + n = Len(c) + 0 /\ rxByteCnt + n <= HdrLen - 1
      BY <1>4, <1>8, <1>10, <1>14
    <3>2. 0 \in 0..Len(sent)
      BY <1>3
    <3>3. QED
      BY <1>2, <1>3, <1>5, <1>10, <1>12, <2>1, <3>1, <3>2, Zenon DEF StreamTypeOK
  <2>3. SequenceTypes' /\ InTurn'
    BY <1>2, <1>3, <1>5, <1>8, <1>12, <2>1, Zenon DEF SequenceTypes, InTurn
  <2>4. Along'
    BY <1>2, <1>5, <1>7, <1>9, <1>12, <2>1, Zenon DEF Along
  <2>5. StreamStep
    BY <1>2, <2>1, Zenon DEF StreamStep, Stream!vars
  <2>6. QED
    BY <2>2, <2>3, <2>4, <2>5 DEF TInv
<1>15. CASE ~(Len(c) < HdrLen)
  <2>1. Len(c) = HdrLen
    BY <1>4, <1>10, <1>15
  <2>2. IsHeader(c)
    BY <1>11, <2>1, Zenon DEF IsHeader
  <2>3. Follow(sent, h, h + 1, <<>>, v, r)
    BY <1>11, <2>1
  <2>4. <<>> \in Seq(Byte) /\ Len(<<>>) = 0
    OBVIOUS
  <2>5. CASE m.size > 0
    <3>1. /\ rxBuffers' = <<>> /\ rxByteCnt' = HdrLen /\ hdr' = h + 1
          /\ handled' = handled /\ rxOpen' = rxOpen
      BY <1>1, <1>11, <1>15, <2>1, <2>2, <2>5, Zenon DEF c, m
    <3>2. StreamTypeOK'
      <4>1. HdrLen = Len(<<>>) + HdrLen /\ HdrLen <= HdrLen + m.size
        BY <1>4, <1>13, <2>4
      <4>2. Size(hdr)' = HdrLen + m.size
        BY <1>2, <3>1, Zenon DEF Size, m
      <4>3. QED
        BY <1>2, <1>3, <1>10, <1>12, <1>13, <3>1, <4>1, <4>2, Zenon DEF StreamTypeOK
    <3>3. SequenceTypes' /\ InTurn'
      BY <1>2, <1>3, <1>8, <1>12, <2>4, <3>1, Zenon DEF SequenceTypes, InTurn
    <3>4. Along'
      BY <1>2, <1>7, <1>12, <2>3, <3>1, Zenon DEF Along
    <3>5. StreamStep
      BY <1>2, <3>1, Zenon DEF StreamStep, Stream!vars
    <3>6. QED
      BY <3>2, <3>3, <3>4, <3>5 DEF TInv
  <2>6. CASE ~(m.size > 0)
    <3>1. Finish(h + 1, <<>>)
      BY <1>1, <1>11, <1>15, <2>1, <2>2, <2>6, Zenon DEF c, m
    <3>2. Len(<<>>) = sent[h + 1].size
      BY <1>13, <2>4, <2>6 DEF m
    <3>3. UNCHANGED <<atClient, sender>>
      BY <1>2 DEF sender
    <3>4. QED
      BY <1>2, <1>7, <1>8, <1>10, <1>11, <1>12, <2>3, <2>4, <3>1, <3>2, <3>3, FinishFits
  <2>7. QED
    BY <2>5, <2>6
<1>16. QED
  BY <1>14, <1>15

LEMMA ReadPayloadFits ==
  ASSUME TInv, ReadPayload
  PROVE  TInv' /\ StreamStep
<1> DEFINE z == Size(hdr)
<1>1. PICK n \in 1..(z - rxByteCnt) :
        /\ n <= Len(wire) /\ wire' = SubSeq(wire, n + 1, Len(wire))
        /\ LET bytes == rxBuffers \o SubSeq(wire, 1, n)
           IN IF rxByteCnt + n < z
              THEN /\ rxBuffers' = bytes /\ rxByteCnt' = rxByteCnt + n
                   /\ UNCHANGED <<hdr, handled, rxOpen>>
              ELSE Finish(hdr, bytes)
  BY DEF ReadPayload
<1>2. /\ rxOpen /\ hdr # 0 /\ rxByteCnt < z
      /\ atClient' = atClient /\ sent' = sent /\ txData' = txData /\ txOpen' = txOpen
  BY DEF ReadPayload, sender
<1> DEFINE c == rxBuffers \o SubSeq(wire, 1, n)
           v == SubSeq(wire, n + 1, Len(wire))
           h == Len(handled)
           m == sent[h + 1]
<1>3. /\ sent \in Seq(Messages) /\ handled \in Seq(Messages) /\ h \in Nat /\ Len(sent) \in Nat
      /\ rxBuffers \in Seq(Byte) /\ wire \in Seq(Byte) /\ txData \in Seq(Byte)
      /\ atClient \in BOOLEAN /\ txOpen \in BOOLEAN /\ rxOpen \in BOOLEAN
      /\ Len(wire) <= Room /\ hdr \in 0..Len(sent)
  BY DEF TInv, StreamTypeOK, SequenceTypes
<1>4. hdr = h + 1 /\ hdr \in Nat /\ hdr <= Len(sent) /\ h < Len(sent) /\ hdr \in 1..Len(sent)
  BY <1>2, <1>3 DEF TInv, InTurn
<1>5. m \in Messages /\ z = HdrLen + m.size
  BY <1>3, <1>4 DEF Size
<1>6. HdrLen \in Nat /\ HdrLen > 0 /\ Room \in Nat /\ m.size \in Nat
  BY <1>5, TransceiverAssumption
<1>7. rxByteCnt = Len(rxBuffers) + HdrLen /\ rxByteCnt \in Nat
  BY <1>2, <1>3, <1>6 DEF TInv, StreamTypeOK
<1> HIDE DEF m, z
<1>8. n \in Nat /\ n > 0 /\ n <= Len(wire) /\ rxByteCnt + n <= z
  BY <1>1, <1>5, <1>6, <1>7
<1>9. PICK r \in Seq(Byte) : Follow(sent, h, hdr, rxBuffers, wire, r) /\ (txOpen => r = txData)
  BY <1>2, Zenon DEF TInv, Along
<1>10. c \in Seq(Byte) /\ v \in Seq(Byte) /\ Len(c) = Len(rxBuffers) + n /\ Len(v) = Len(wire) - n
  BY <1>3, <1>8, Taken
<1>11. Follow(sent, h, hdr, c, v, r)
  BY <1>3, <1>4, <1>8, <1>9, TakeBytes
<1>12. wire' = v
  BY <1>1
<1> HIDE DEF c, v
<1>13. Len(v) <= Room /\ rxByteCnt + n = Len(c) + HdrLen
  BY <1>3, <1>6, <1>7, <1>8, <1>10
<1>14. CASE rxByteCnt + n < z
  <2>1. /\ rxBuffers' = c /\ rxByteCnt' = rxByteCnt + n /\ hdr' = hdr
        /\ handled' = handled /\ rxOpen' = rxOpen
    BY <1>1, <1>14, Zenon DEF c
  <2>2. StreamTypeOK'
    <3>1. Size(hdr)' = z
      BY <1>2, <2>1, Zenon DEF Size, z
    <3>2. QED
      BY <1>2, <1>3, <1>8, <1>12, <1>13, <2>1, <3>1, Zenon DEF StreamTypeOK
  <2>3. SequenceTypes' /\ InTurn'
    BY <1>2, <1>3, <1>10, <1>12, <2>1, Zenon DEF TInv, SequenceTypes, InTurn
  <2>4. Along'
    BY <1>2, <1>9, <1>11, <1>12, <2>1, Zenon DEF Along
  <2>5. StreamStep
    BY <1>2, <2>1, Zenon DEF StreamStep, Stream!vars
  <2>6. QED
    BY <2>2, <2>3, <2>4, <2>5 DEF TInv
<1>15. CASE ~(rxByteCnt + n < z)
  <2>1. Finish(h + 1, c)
    BY <1>1, <1>4, <1>15, Zenon DEF c
  <2>2. Len(c) = sent[h + 1].size
    <3>1. Len(c) \in Nat
      BY <1>10
    <3>2. Len(c) = m.size
      <4> DEFINE q == rxByteCnt + n
                 y == m.size
      <4>1. q \in Nat /\ q <= z /\ ~(q < z)
        BY <1>7, <1>8, <1>15
      <4>2. q = Len(c) + HdrLen /\ z = HdrLen + y /\ y \in Nat
        BY <1>5, <1>6, <1>13
      <4> HIDE DEF q, y
      <4>3. Len(c) = y
        BY <1>6, <3>1, <4>1, <4>2
      <4>4. QED
        BY <4>3 DEF y
    <3>3. QED
      BY <3>2 DEF m
  <2>3. UNCHANGED <<atClient, sender>>
    BY <1>2 DEF sender
  <2>4. Follow(sent, h, h + 1, c, v, r)
    BY <1>4, <1>11, Zenon
  <2>5. QED
    BY <1>2, <1>4, <1>9, <1>10, <1>12, <1>13, <2>1, <2>2, <2>3, <2>4, FinishFits
<1>16. QED
  BY <1>14, <1>15

LEMMA DecodeAgainFits ==
  ASSUME TInv, DecodeAgain
  PROVE  TInv' /\ StreamStep
<1> DEFINE h == Len(handled)
<1>1. /\ rxOpen /\ hdr # 0 /\ rxByteCnt = Size(hdr) /\ wire' = wire
      /\ Finish(hdr, rxBuffers) /\ UNCHANGED <<atClient, sender>>
  BY DEF DecodeAgain, Stuck
<1>2. /\ sent \in Seq(Messages) /\ h \in Nat /\ Len(sent) \in Nat
      /\ rxBuffers \in Seq(Byte) /\ wire \in Seq(Byte)
      /\ Len(wire) <= Room /\ hdr \in 0..Len(sent)
  BY DEF TInv, StreamTypeOK, SequenceTypes
<1>3. hdr = h + 1 /\ h < Len(sent) /\ hdr \in 1..Len(sent)
  BY <1>1, <1>2 DEF TInv, InTurn
<1>4. PICK r \in Seq(Byte) : Follow(sent, h, hdr, rxBuffers, wire, r) /\ (txOpen => r = txData)
  BY <1>1, Zenon DEF TInv, Along
<1>5. Len(rxBuffers) = sent[h + 1].size
  <2>1. sent[h + 1] \in Messages /\ HdrLen \in Nat
    BY <1>2, <1>3, TransceiverAssumption
  <2>2. sent[h + 1].size \in Nat
    BY <2>1, TransceiverAssumption
  <2>3. Len(rxBuffers) + HdrLen = HdrLen + sent[h + 1].size
    BY <1>1, <1>3 DEF TInv, StreamTypeOK, Size
  <2>4. QED
    BY <1>2, <2>1, <2>2, <2>3
<1>6. Follow(sent, h, h + 1, rxBuffers, wire, r) /\ Finish(h + 1, rxBuffers)
  BY <1>1, <1>3, <1>4, Zenon
<1>7. QED
  BY <1>1, <1>2, <1>3, <1>4, <1>5, <1>6, FinishFits

\* The receiving end gives up.
LEMMA EndFits ==
  ASSUME TInv, EndOfFile \/ Break
  PROVE  TInv' /\ StreamStep
<1>1. /\ rxOpen /\ rxOpen' = FALSE /\ ResetRxBuf /\ atClient' = atClient /\ sent' = sent
      /\ handled' = handled /\ (txOpen' = txOpen \/ txOpen' = FALSE)
      /\ (txData' = txData \/ txData' = <<>>) /\ (wire' = wire \/ wire' = <<>>)
  BY DEF EndOfFile, Break, sender
<1>2. rxBuffers' = <<>> /\ rxByteCnt' = 0 /\ hdr' = 0
  BY <1>1 DEF ResetRxBuf
<1>3. <<>> \in Seq(Byte) /\ Len(<<>>) = 0 /\ Room \in Nat /\ HdrLen \in Nat /\ HdrLen > 0
  BY TransceiverAssumption
<1>4. StreamTypeOK'
  <2>1. /\ atClient \in BOOLEAN /\ txOpen \in BOOLEAN /\ sent \in Seq(Messages)
        /\ handled \in Seq(Messages) /\ Len(wire) <= Room
    BY DEF TInv, StreamTypeOK
  <2>2. 0 \in 0..Len(sent) /\ 0 = 0 + 0 /\ 0 <= HdrLen - 1 /\ 0 <= Room
    BY <1>3, <2>1
  <2>3. atClient' \in BOOLEAN /\ txOpen' \in BOOLEAN /\ rxOpen' \in BOOLEAN
    BY <1>1, <2>1, Zenon
  <2>4. Len(wire') <= Room
    BY <1>1, <1>3, <2>1, <2>2, Zenon
  <2>5. hdr' \in 0..Len(sent') /\ rxByteCnt' = Len(rxBuffers') + 0 /\ rxByteCnt' <= HdrLen - 1
    BY <1>1, <1>2, <1>3, <2>2, Zenon
  <2>6. QED
    BY <1>1, <1>2, <2>1, <2>3, <2>4, <2>5, Zenon DEF StreamTypeOK
<1>5. SequenceTypes' /\ InTurn'
  BY <1>1, <1>2, <1>3, Zenon DEF TInv, SequenceTypes, InTurn
<1>6. Along'
  BY <1>1, Zenon DEF Along
<1>7. StreamStep
  BY <1>1, Zenon DEF StreamStep, Stream!Next, Stream!Lose
<1>8. QED
  BY <1>4, <1>5, <1>6, <1>7 DEF TInv

LEMMA StepFits ==
  ASSUME TInv, [StreamNext]_streamVars
  PROVE  TInv' /\ StreamStep
<1>1. CASE UNCHANGED streamVars
  <2>1. TInv'
    BY <1>1, Zenon DEF streamVars, TInv, StreamTypeOK, SequenceTypes, InTurn, Along, Size
  <2>2. StreamStep
    BY <1>1, Zenon DEF streamVars, StreamStep, Stream!vars
  <2>3. QED
    BY <2>1, <2>2
<1>2. CASE SendMessages
  BY <1>2, SendFits
<1>3. CASE Fragment
  BY <1>3, FragmentFits
<1>4. CASE CloseSender
  BY <1>4, CloseFits
<1>5. CASE ReadHeader
  BY <1>5, ReadHeaderFits
<1>6. CASE ReadPayload
  BY <1>6, ReadPayloadFits
<1>7. CASE DecodeAgain
  BY <1>7, DecodeAgainFits
<1>8. CASE EndOfFile \/ Break
  BY <1>8, EndFits
<1>9. QED
  BY <1>1, <1>2, <1>3, <1>4, <1>5, <1>6, <1>7, <1>8 DEF StreamNext, Receive, StreamEnded

----------------------------------------------------------------------------
(* The theorems                                                            *)

THEOREM TransceiverInvariant == StreamSpec => []TInv
<1>1. StreamInit => TInv
  BY InitFits
<1>2. TInv /\ [StreamNext]_streamVars => TInv'
  BY StepFits
<1>3. QED
  BY <1>1, <1>2, PTL DEF StreamSpec

\* The byte count of receive() is that of the bytes in its buffer, and never
\* more than those of the header or of the message it waits for; nothing but
\* messages that were given to send() comes out at the other end.
THEOREM TransceiverTypeCorrect == StreamSpec => []StreamTypeOK
<1>1. TInv => StreamTypeOK
  BY DEF TInv
<1>2. QED
  BY <1>1, TransceiverInvariant, PTL

\* However send() and recv() cut the stream, the receiver stays in step with
\* it: whatever was sent and not handled is, in its order and with no byte
\* lost or read twice, in the buffer, under way, or still to be sent.
THEOREM StaysInSync == StreamSpec => []InSync
<1>1. QED
  BY FitsInSync, TransceiverInvariant, PTL

\* As far as safety goes, a transceiver implements the stream of messages:
\* each is handled once, in the order of send(), and none that is not decoded.
THEOREM SafelyImplementsStream == StreamSpec => Stream!Init /\ [][Stream!Next]_(Stream!vars)
<1>1. StreamInit => Stream!Init
  BY DEF StreamInit, Stream!Init
<1>2. TInv /\ [StreamNext]_streamVars => [Stream!Next]_(Stream!vars)
  BY StepFits DEF StreamStep
<1>3. QED
  BY <1>1, <1>2, TransceiverInvariant, PTL DEF StreamSpec
=============================================================================
