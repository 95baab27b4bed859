-------------------------- MODULE RpcClientProofs --------------------------
(***************************************************************************)
(* For any requests and any number of connections: however the client      *)
(* loses its connections, reconnects, sends again, is disconnected and     *)
(* shut down, no future is answered twice and no command is run more often *)
(* than the reconnects explain.                                            *)
(*                                                                         *)
(* The first is about the list of pending requests: it names a request     *)
(* once, and only one that is not answered, and every answer takes the     *)
(* request out of it.  The second is a count: a request is in a number of  *)
(* places (its caller's hand, the queue, the hands of wsOutHandler, the    *)
(* connection, the copies resendRequests made of the list, or the list it  *)
(* is still to copy), and no step lets it into one more without taking it  *)
(* out of another, but a new connection.                                   *)
(***************************************************************************)
EXTENDS RpcClient, FiniteSetTheorems, SliceLemmas, TLAPS

-----------------------------------------------------------------------------
(* How often something is in a queue.                                      *)

Places(s, x) == {i \in DOMAIN s : s[i] = x}
Times(s, x) == Cardinality(Places(s, x))

(* It is a number, and none when it is not there.                          *)
LEMMA TimesNumber ==
    ASSUME NEW S, NEW s \in Seq(S), NEW x
    PROVE  /\ IsFiniteSet(Places(s, x)) /\ Times(s, x) \in Nat
           /\ Times(<< >>, x) = 0
           /\ x \notin Elements(s) => Times(s, x) = 0
<1>1. DOMAIN s = 1 .. Len(s) /\ Len(s) \in Nat
  OBVIOUS
<1>2. IsFiniteSet(1 .. Len(s))
  BY <1>1, FS_Interval
<1>3. IsFiniteSet(Places(s, x))
  BY <1>1, <1>2, FS_Subset DEF Places
<1>4. Places(<< >>, x) = {}
  BY DEF Places
<1>5. x \notin Elements(s) => Places(s, x) = {}
  BY DEF Places, Elements
<1> QED
  BY <1>3, <1>4, <1>5, FS_EmptySet, FS_CardinalityType DEF Times

(* A queue grows at its end.                                               *)
LEMMA TimesAppend ==
    ASSUME NEW S, NEW s \in Seq(S), NEW y \in S, NEW x
    PROVE  Times(Append(s, y), x) = Times(s, x) + (IF x = y THEN 1 ELSE 0)
<1>1. /\ DOMAIN s = 1 .. Len(s) /\ Len(s) \in Nat
      /\ DOMAIN Append(s, y) = 1 .. Len(s) + 1
      /\ \A i \in 1 .. Len(s) : Append(s, y)[i] = s[i]
      /\ Append(s, y)[Len(s) + 1] = y
  OBVIOUS
<1>2. \A i : i \in 1 .. Len(s) + 1 <=> i \in 1 .. Len(s) \/ i = Len(s) + 1
  BY <1>1
<1>3. IsFiniteSet(Places(s, x)) /\ Times(s, x) \in Nat
  BY TimesNumber
<1>4. CASE x = y
  <2>1. Places(Append(s, y), x) = Places(s, x) \cup {Len(s) + 1}
    BY <1>1, <1>2, <1>4 DEF Places
  <2>2. Len(s) + 1 \notin Places(s, x)
    BY <1>1 DEF Places
  <2> QED
    BY <1>3, <1>4, <2>1, <2>2, FS_AddElement DEF Times
<1>5. CASE x # y
  <2>1. Places(Append(s, y), x) = Places(s, x)
    BY <1>1, <1>2, <1>5 DEF Places
  <2> QED
    BY <1>3, <1>5, <2>1 DEF Times
<1> QED
  BY <1>4, <1>5

(* A queue shrinks at its head.                                            *)
LEMMA TimesTail ==
    ASSUME NEW S, NEW s \in Seq(S), s # << >>, NEW x
    PROVE  Times(Tail(s), x) + (IF x = Head(s) THEN 1 ELSE 0) <= Times(s, x)
<1>1. /\ DOMAIN s = 1 .. Len(s) /\ Len(s) \in Nat /\ Len(s) >= 1 /\ Head(s) = s[1]
      /\ Tail(s) \in Seq(S) /\ DOMAIN Tail(s) = 1 .. (Len(s) - 1)
      /\ \A i \in 1 .. (Len(s) - 1) : Tail(s)[i] = s[i + 1]
  OBVIOUS
<1>2. IsFiniteSet(Places(s, x)) /\ IsFiniteSet(Places(Tail(s), x)) /\ Times(s, x) \in Nat /\ Times(Tail(s), x) \in Nat
  BY <1>1, TimesNumber
<1> DEFINE later == Places(s, x) \ {1}
           shift == [i \in Places(Tail(s), x) |-> i + 1]
<1>3. IsFiniteSet(later) /\ Cardinality(later) = IF x = Head(s) THEN Times(s, x) - 1 ELSE Times(s, x)
  <2>1. 1 \in Places(s, x) <=> x = Head(s)
    BY <1>1 DEF Places
  <2> QED
    BY <1>2, <2>1, FS_RemoveElement DEF Times
<1>4. shift \in Injection(Places(Tail(s), x), later)
  <2>1. \A i \in Places(Tail(s), x) : i \in Nat /\ i + 1 \in later
    BY <1>1 DEF Places
  <2>2. shift \in [Places(Tail(s), x) -> later]
    BY <2>1
  <2>3. \A i, j \in Places(Tail(s), x) : shift[i] = shift[j] => i = j
    BY <2>1
  <2> QED
    BY <2>2, <2>3 DEF Injection, IsInjective
<1> HIDE DEF later, shift
<1>5. Times(Tail(s), x) <= Cardinality(later)
  BY <1>3, <1>4, FS_Injection DEF Times
<1> QED
  BY <1>2, <1>3, <1>5

-----------------------------------------------------------------------------
(* Sets of connections, and what they count.                               *)
LEMMA ConnSets ==
    ASSUME NEW S \in SUBSET Conns
    PROVE  /\ IsFiniteSet(S) /\ Cardinality(S) \in Nat
           /\ \A T \in SUBSET S : Cardinality(T) \in Nat /\ Cardinality(T) <= Cardinality(S)
           /\ \A n \in S : \A T \in SUBSET (S \ {n}) : Cardinality(T) + 1 <= Cardinality(S)
           /\ \A n \in Conns : \A T \in SUBSET (S \cup {n}) : Cardinality(T) <= Cardinality(S) + 1
<1>1. IsFiniteSet(Conns)
  BY ClientAssumption, FS_Interval DEF Conns
<1>2. IsFiniteSet(S) /\ Cardinality(S) \in Nat
  BY <1>1, FS_Subset, FS_CardinalityType
<1>3. \A T \in SUBSET S : Cardinality(T) \in Nat /\ Cardinality(T) <= Cardinality(S)
  BY <1>2, FS_Subset, FS_CardinalityType
<1>4. ASSUME NEW n \in S, NEW T \in SUBSET (S \ {n}) PROVE Cardinality(T) + 1 <= Cardinality(S)
  <2>1. IsFiniteSet(S \ {n}) /\ Cardinality(S \ {n}) = Cardinality(S) - 1
    BY <1>2, FS_RemoveElement
  <2>2. Cardinality(T) <= Cardinality(S \ {n}) /\ Cardinality(T) \in Nat
    BY <2>1, FS_Subset, FS_CardinalityType
  <2> QED
    BY <1>2, <2>1, <2>2
<1>5. ASSUME NEW n \in Conns, NEW T \in SUBSET (S \cup {n}) PROVE Cardinality(T) <= Cardinality(S) + 1
  <2>1. IsFiniteSet(S \cup {n}) /\ Cardinality(S \cup {n}) <= Cardinality(S) + 1
    BY <1>2, FS_AddElement
  <2>2. Cardinality(T) <= Cardinality(S \cup {n}) /\ Cardinality(T) \in Nat /\ Cardinality(S \cup {n}) \in Nat
    BY <2>1, FS_Subset, FS_CardinalityType
  <2> QED
    BY <1>2, <2>1, <2>2
<1> QED
  BY <1>2, <1>3, <1>4, <1>5

(* What is left of a list names nothing twice if the list does not.        *)
LEMMA WithoutKeeps ==
    ASSUME NEW S, NEW seq \in Seq(S), NEW gone
    PROVE  /\ Without(seq, gone) \in Seq(S)
           /\ Elements(Without(seq, gone)) = Elements(seq) \ gone
           /\ Distinct(seq) => Distinct(Without(seq, gone))
<1> DEFINE f == CHOOSE g : IsFilter(g, seq, gone)
           w == Without(seq, gone)
<1>1. IsFilter(f, seq, gone)
  BY FilterExists
<1>2. w = f[Len(seq)]
  BY DEF Without, IsFilter
<1> HIDE DEF f, w
<1>3. w \in Seq(S) /\ Elements(w) = Elements(seq) \ gone /\ InOrder(w, seq)
  BY <1>1, <1>2, FilterProperties
<1>4. ASSUME Distinct(seq), NEW i \in DOMAIN w, NEW j \in DOMAIN w, i < j PROVE w[i] # w[j]
  <2>1. PICK k, l \in DOMAIN seq : k < l /\ w[i] = seq[k] /\ w[j] = seq[l]
    BY <1>3, <1>4 DEF InOrder
  <2>2. k # l
    BY <2>1
  <2> QED
    BY <1>4, <2>1, <2>2 DEF Distinct
<1>5. DOMAIN w = 1 .. Len(w)
  BY <1>3
<1>6. \A i, j \in DOMAIN w : i = j \/ i < j \/ j < i
  BY <1>5
<1>7. Distinct(seq) => Distinct(w)
  BY <1>4, <1>6 DEF Distinct
<1> QED
  BY <1>3, <1>7 DEF w

-----------------------------------------------------------------------------
(* The invariant.                                                          *)

Errs == {"none", "rpc", "shutdown", "disconnect"}
Call == [st : {"idle", "send", "done"}, at : Nat, again : Nat]
Handler == [st : {"none", "select", "write", "drain", "done"}, ch : Nat, msg : {<< >>} \cup {<<id>> : id \in Ids}]
Copying == [st : {"none", "register", "copy", "send", "done"}, left : Seq(Ids)]

TypeOK ==
    /\ calls \in [Ids -> Call] /\ answers \in [Ids -> Seq(Errs)]
    /\ requestList \in Seq(Ids) /\ sendChan \in Seq(Ids) /\ wire \in Seq(Ids)
    /\ replies \in Seq([id : Ids, err : Errs])
    /\ conn \in Conns
    /\ outs \in [Conns -> Handler] /\ resend \in [Conns -> Copying]
    /\ executed \in [Ids -> Nat]

(* What is pending is called, named once, and not answered; a registration *)
(* whose answer has come is not pending when the list is copied.           *)
PendingOK ==
    /\ Distinct(requestList)
    /\ \A id \in Elements(requestList) : calls[id].st # "idle" /\ answers[id] = << >>
    /\ Post => requestList = << >>
    /\ \A n \in Conns : resend[n].st = "copy" => n \notin Elements(requestList)

(* Each copy of it names a request once, and never its own registration.   *)
CopiesOK ==
    /\ \A n \in Conns : Distinct(resend[n].left) /\ n \notin Elements(resend[n].left)
    /\ \A n \in Conns : n > conn => resend[n].st = "none"
    /\ \A n \in Registers : n > conn => calls[n].st = "idle"

Written(id) == {n \in Conns : outs[n].msg = <<id>>}
ToSend(id) == {n \in Conns \ {id} : resend[n].st \in {"register", "copy"} \/ id \in Elements(resend[n].left)}

(* A request that is not made yet is nowhere.                              *)
IdleOK ==
    \A id \in Ids : calls[id].st = "idle" =>
        /\ answers[id] = << >> /\ executed[id] = 0
        /\ id \notin Elements(sendChan) /\ id \notin Elements(wire)
        /\ Written(id) = {}
        /\ \A n \in Conns : id \notin Elements(resend[n].left)

(* How many times a request was executed or is on its way to it, and how   *)
(* many that may be.                                                       *)
InCall(id) == IF calls[id].st = "send" THEN 1 ELSE 0
Copies(id) == executed[id] + InCall(id) + Times(sendChan, id) + Times(wire, id)
              + Cardinality(Written(id)) + Cardinality(ToSend(id))
CopiesCounted ==
    \A id \in Ids : calls[id].st # "idle" =>
        calls[id].at <= conn /\ Copies(id) <= 1 + calls[id].again + (conn - calls[id].at)

ClientInv == TypeOK /\ PendingOK /\ CopiesOK /\ IdleOK /\ CopiesCounted /\ AnsweredOnce

-----------------------------------------------------------------------------
(* The counts are numbers.                                                 *)
LEMMA CountsAreNumbers ==
    ASSUME TypeOK, NEW id \in Ids
    PROVE  /\ executed[id] \in Nat /\ InCall(id) \in {0, 1}
           /\ Times(sendChan, id) \in Nat /\ Times(wire, id) \in Nat
           /\ Written(id) \in SUBSET Conns /\ Cardinality(Written(id)) \in Nat
           /\ ToSend(id) \in SUBSET Conns /\ Cardinality(ToSend(id)) \in Nat
           /\ Copies(id) \in Nat
<1>1. executed[id] \in Nat /\ InCall(id) \in {0, 1}
  BY DEF TypeOK, InCall
<1>2. Times(sendChan, id) \in Nat /\ Times(wire, id) \in Nat
  BY TimesNumber DEF TypeOK
<1>3. Written(id) \in SUBSET Conns /\ ToSend(id) \in SUBSET Conns
  BY DEF Written, ToSend
<1>4. Cardinality(Written(id)) \in Nat /\ Cardinality(ToSend(id)) \in Nat
  BY <1>3, ConnSets
<1> QED
  BY <1>1, <1>2, <1>3, <1>4 DEF Copies

(* The empty sequence is one of any set.                                   *)
LEMMA EmptySeq == \A S : << >> \in Seq(S)
OBVIOUS

(* Connections have numbers, and registrations are named by them.          *)
LEMMA ConnFacts == 1 \in Conns /\ Conns \subseteq Nat /\ Registers \subseteq Ids /\ Reqs \subseteq Ids
  BY ClientAssumption DEF Conns, Registers, Ids

(* At the start nothing is anywhere.                                       *)
LEMMA InitClientInv == NewClient => ClientInv
<1> SUFFICES ASSUME NewClient PROVE ClientInv
  OBVIOUS
<1>1. TypeOK
  <2>1. Idle \in Call /\ OutHandler(1) \in Handler /\ NoHandler \in Handler /\ NoResend \in Copying
    BY DEF Idle, Call, OutHandler, NoHandler, Handler, NoResend, Copying
  <2> QED
    BY <2>1, ConnFacts DEF TypeOK, NewClient
<1>2. Elements(<< >>) = {} /\ Distinct(<< >>)
  BY DEF Elements, Distinct
<1>3. PendingOK /\ CopiesOK
  BY <1>2, ConnFacts DEF NewClient, PendingOK, CopiesOK, NoResend, Idle, Registers, Conns
<1>4. \A id \in Ids : Written(id) = {}
  BY DEF NewClient, Written, OutHandler, NoHandler
<1>5. IdleOK
  BY <1>2, <1>4 DEF NewClient, IdleOK, NoResend
<1>6. CopiesCounted /\ AnsweredOnce
  BY DEF NewClient, CopiesCounted, AnsweredOnce, Idle
<1> QED
  BY <1>1, <1>3, <1>5, <1>6 DEF ClientInv

-----------------------------------------------------------------------------
Numbers ==
    \A id \in Ids :
        /\ executed[id] \in Nat /\ InCall(id) \in Nat /\ Times(sendChan, id) \in Nat /\ Times(wire, id) \in Nat
        /\ Written(id) \in SUBSET Conns /\ Cardinality(Written(id)) \in Nat
        /\ ToSend(id) \in SUBSET Conns /\ Cardinality(ToSend(id)) \in Nat
        /\ Copies(id) \in Nat

(* In the invariant each of the counts is a number.                        *)
LEMMA NumbersThen == TypeOK => Numbers
BY CountsAreNumbers DEF Numbers

(* The parts of the count, before and after a step.                        *)
LEMMA PartsAreNumbers ==
    ASSUME Numbers, Numbers', NEW id \in Ids
    PROVE  /\ executed[id] \in Nat /\ InCall(id) \in Nat /\ Times(sendChan, id) \in Nat
           /\ Times(wire, id) \in Nat /\ Cardinality(Written(id)) \in Nat /\ Cardinality(ToSend(id)) \in Nat
           /\ executed'[id] \in Nat /\ InCall(id)' \in Nat /\ Times(sendChan, id)' \in Nat
           /\ Times(wire, id)' \in Nat /\ Cardinality(Written(id))' \in Nat /\ Cardinality(ToSend(id))' \in Nat
BY DEF Numbers

(* The count does not grow when a request goes from one place to another,  *)
(* and the other places are as they were, or hold less.                    *)
LEMMA CopiesFall ==
    ASSUME Numbers, Numbers', NEW id \in Ids,
           \/ /\ executed'[id] <= executed[id]
              /\ InCall(id)' <= InCall(id)
              /\ Times(sendChan, id)' <= Times(sendChan, id)
              /\ Times(wire, id)' <= Times(wire, id)
              /\ Cardinality(Written(id))' <= Cardinality(Written(id))
              /\ Cardinality(ToSend(id))' <= Cardinality(ToSend(id))
           \/ /\ executed'[id] <= executed[id]
              /\ Times(wire, id)' <= Times(wire, id)
              /\ Cardinality(Written(id))' <= Cardinality(Written(id))
              /\ Cardinality(ToSend(id))' <= Cardinality(ToSend(id))
              /\ InCall(id)' + Times(sendChan, id)' <= InCall(id) + Times(sendChan, id)
           \/ /\ executed'[id] <= executed[id]
              /\ InCall(id)' <= InCall(id)
              /\ Times(wire, id)' <= Times(wire, id)
              /\ Cardinality(ToSend(id))' <= Cardinality(ToSend(id))
              /\ Times(sendChan, id)' + Cardinality(Written(id))' <= Times(sendChan, id) + Cardinality(Written(id))
           \/ /\ executed'[id] <= executed[id]
              /\ InCall(id)' <= InCall(id)
              /\ Times(sendChan, id)' <= Times(sendChan, id)
              /\ Cardinality(ToSend(id))' <= Cardinality(ToSend(id))
              /\ Cardinality(Written(id))' + Times(wire, id)' <= Cardinality(Written(id)) + Times(wire, id)
           \/ /\ InCall(id)' <= InCall(id)
              /\ Times(sendChan, id)' <= Times(sendChan, id)
              /\ Cardinality(Written(id))' <= Cardinality(Written(id))
              /\ Cardinality(ToSend(id))' <= Cardinality(ToSend(id))
              /\ Times(wire, id)' + executed'[id] <= Times(wire, id) + executed[id]
           \/ /\ InCall(id)' <= InCall(id)
              /\ Times(wire, id)' <= Times(wire, id)
              /\ Cardinality(Written(id))' <= Cardinality(Written(id))
              /\ Cardinality(ToSend(id))' <= Cardinality(ToSend(id))
              /\ Times(sendChan, id)' + executed'[id] <= Times(sendChan, id) + executed[id]
           \/ /\ executed'[id] <= executed[id]
              /\ InCall(id)' <= InCall(id)
              /\ Times(wire, id)' <= Times(wire, id)
              /\ Cardinality(Written(id))' <= Cardinality(Written(id))
              /\ Cardinality(ToSend(id))' + Times(sendChan, id)' <= Cardinality(ToSend(id)) + Times(sendChan, id)
    PROVE  Copies(id)' <= Copies(id)
BY PartsAreNumbers DEF Copies

(* Steps that make no request keep the bound when they make no copy.       *)
LEMMA CountedStep ==
    ASSUME ClientInv, TypeOK', conn' = conn,
           \A id \in Ids : /\ calls[id].st = "idle" <=> calls'[id].st = "idle"
                           /\ calls'[id].at = calls[id].at /\ calls'[id].again = calls[id].again,
           \A id \in Ids : calls[id].st # "idle" => Copies(id)' <= Copies(id)
    PROVE  CopiesCounted'
<1> SUFFICES ASSUME NEW id \in Ids, calls'[id].st # "idle"
             PROVE  calls'[id].at <= conn' /\ Copies(id)' <= 1 + calls'[id].again + (conn' - calls'[id].at)
  BY DEF CopiesCounted
<1>1. Numbers /\ Numbers'
  BY NumbersThen, PTL DEF ClientInv
<1>2. calls[id] \in Call /\ conn \in Nat
  BY ConnFacts DEF ClientInv, TypeOK
<1>3. calls[id].at <= conn /\ Copies(id) <= 1 + calls[id].again + (conn - calls[id].at)
  BY DEF ClientInv, CopiesCounted
<1> QED
  BY <1>1, <1>2, <1>3 DEF Call, Numbers

(* What is where changes only with the variables that say so.              *)
LEMMA SamePlaces ==
    /\ UNCHANGED sendChan => \A id \in Ids : Times(sendChan, id)' = Times(sendChan, id)
    /\ UNCHANGED wire => \A id \in Ids : Times(wire, id)' = Times(wire, id)
    /\ UNCHANGED outs => \A id \in Ids : Written(id)' = Written(id)
    /\ UNCHANGED resend => \A id \in Ids : ToSend(id)' = ToSend(id)
    /\ UNCHANGED calls => \A id \in Ids : InCall(id)' = InCall(id)
BY DEF Written, ToSend, InCall

(* What is under way when the connection is closed or lost is nowhere.     *)
LEMMA LostOnTheWay ==
    ASSUME TypeOK, wire' = << >>
    PROVE  \A id \in Ids : Times(wire, id)' = 0 /\ Times(wire, id) >= 0
<1>1. \A id \in Ids : Times(<< >>, id) = 0 /\ Times(wire, id) \in Nat
  BY TimesNumber DEF TypeOK
<1> QED
  BY <1>1

-----------------------------------------------------------------------------
(* Steps of the connection and of the goroutines that touch no request;    *)
(* what is on the connection may be lost.                                  *)
LEMMA QuietKeeps ==
    ASSUME ClientInv, UNCHANGED <<mode, calls, answers, requestList, sendChan, conn, resend, executed>>,
           wire' \in {wire, << >>}, replies' \in {replies, << >>},
           outs' \in [Conns -> Handler], \A n \in Conns : outs'[n].msg = outs[n].msg
    PROVE  ClientInv'
<1>1. TypeOK'
  <2>1. wire' \in Seq(Ids) /\ replies' \in Seq([id : Ids, err : Errs])
    BY EmptySeq DEF ClientInv, TypeOK
  <2> QED
    BY <2>1 DEF ClientInv, TypeOK
<1>2. PendingOK' /\ CopiesOK' /\ AnsweredOnce'
  BY DEF ClientInv, PendingOK, CopiesOK, AnsweredOnce, Post
<1>3. \A id \in Ids : Written(id)' = Written(id)
  BY DEF Written
<1>4. Elements(wire') \subseteq Elements(wire)
  BY DEF Elements
<1>5. IdleOK'
  BY <1>3, <1>4 DEF ClientInv, IdleOK
<1>6. \A id \in Ids : Times(wire', id) <= Times(wire, id)
  <2>1. \A id \in Ids : Times(<< >>, id) = 0 /\ Times(wire, id) \in Nat
    BY TimesNumber DEF ClientInv, TypeOK
  <2> QED
    BY <2>1
<1>7. CopiesCounted'
  <2>1. Numbers /\ Numbers'
    BY <1>1, NumbersThen, PTL DEF ClientInv
  <2>2. ASSUME NEW id \in Ids PROVE Copies(id)' <= Copies(id)
    <3>1. executed'[id] = executed[id] /\ InCall(id)' = InCall(id) /\ Times(sendChan, id)' = Times(sendChan, id)
          /\ Times(wire, id)' <= Times(wire, id) /\ Written(id)' = Written(id) /\ ToSend(id)' = ToSend(id)
      BY <1>3, <1>6, SamePlaces
    <3> QED
      BY <2>1, <3>1, PartsAreNumbers DEF Copies
  <2> QED
    BY <1>1, <2>2, CountedStep
<1> QED
  BY <1>1, <1>2, <1>5, <1>7 DEF ClientInv

(* A disconnect, a loss, and goroutines that leave or notice the shutdown. *)
LEMMA QuietActionsKeep ==
    ClientInv /\ (UserDisconnect \/ Lose \/ Notice \/ \E n \in Conns : OutQuits(n) \/ InQuits(n)) => ClientInv'
<1> SUFFICES ASSUME ClientInv, UserDisconnect \/ Lose \/ Notice \/ \E n \in Conns : OutQuits(n) \/ InQuits(n)
             PROVE  ClientInv'
  OBVIOUS
<1>1. outs \in [Conns -> Handler]
  BY DEF ClientInv, TypeOK
<1>2. CASE UserDisconnect
  BY <1>1, <1>2, QuietKeeps DEF UserDisconnect, Disconnect, doDisconnect, callVars, handlerVars
<1>3. CASE Lose
  BY <1>1, <1>3, QuietKeeps DEF Lose, callVars, handlerVars
<1>4. CASE Notice
  BY <1>1, <1>4, QuietKeeps DEF Notice, callVars, linkVars
<1>5. ASSUME NEW n \in Conns, OutQuits(n) PROVE ClientInv'
  <2>1. outs' = [outs EXCEPT ![n].st = "drain"]
    BY <1>5 DEF OutQuits
  <2>2. outs' \in [Conns -> Handler] /\ \A m \in Conns : outs'[m].msg = outs[m].msg
    BY <1>1, <2>1 DEF Handler
  <2> QED
    BY <1>5, <2>2, QuietKeeps DEF OutQuits, callVars, linkVars
<1>6. ASSUME NEW n \in Conns, InQuits(n) PROVE ClientInv'
  BY <1>1, <1>6, QuietKeeps DEF InQuits, Disconnect, doDisconnect, callVars
<1> QED
  BY <1>2, <1>3, <1>4, <1>5, <1>6

(* Fail and Shutdown answer what is pending and forget it.                 *)
LEMMA AnswerAllKeeps ==
    ASSUME ClientInv, NEW err \in Errs, Answer(Pending, err), removeAllRequests,
           UNCHANGED <<mode, calls, sendChan, conn, outs, resend, executed>>,
           wire' \in {wire, << >>}, replies' \in {replies, << >>}
    PROVE  ClientInv'
<1>0. Pending = Elements(requestList) /\ Elements(<< >>) = {} /\ Distinct(<< >>)
  BY DEF Pending, Elements, Distinct
<1>1. TypeOK'
  <2>1. wire' \in Seq(Ids) /\ replies' \in Seq([id : Ids, err : Errs]) /\ requestList' \in Seq(Ids)
    BY EmptySeq DEF ClientInv, TypeOK, removeAllRequests
  <2>2. \A id \in Ids : Append(answers[id], err) \in Seq(Errs)
    BY DEF ClientInv, TypeOK
  <2>3. answers' \in [Ids -> Seq(Errs)]
    BY <2>2 DEF Answer, ClientInv, TypeOK
  <2> QED
    BY <2>1, <2>3 DEF ClientInv, TypeOK
<1>2. PendingOK' /\ CopiesOK'
  BY <1>0 DEF ClientInv, PendingOK, CopiesOK, removeAllRequests, Post
<1>3. \A id \in Ids : answers'[id] = IF id \in Pending THEN Append(answers[id], err) ELSE answers[id]
  BY DEF Answer
<1>4. AnsweredOnce'
  <2> SUFFICES ASSUME ~Post, NEW id \in Ids PROVE Len(answers'[id]) <= 1
    BY DEF AnsweredOnce, Post
  <2>1. CASE id \in Pending
    <3>1. answers'[id] = Append(<< >>, err)
      BY <1>0, <1>3, <2>1 DEF ClientInv, PendingOK
    <3> QED
      BY <3>1
  <2> QED
    BY <1>3, <2>1 DEF ClientInv, AnsweredOnce
<1>5. IdleOK'
  <2>1. Elements(wire') \subseteq Elements(wire)
    BY DEF Elements
  <2>2. \A id \in Ids : calls[id].st = "idle" => id \notin Pending
    BY <1>0 DEF ClientInv, PendingOK
  <2> QED
    BY <1>3, <2>1, <2>2, SamePlaces DEF ClientInv, IdleOK
<1>6. CopiesCounted'
  <2>1. Numbers /\ Numbers'
    BY <1>1, NumbersThen, PTL DEF ClientInv
  <2>2. \A id \in Ids : Times(wire', id) <= Times(wire, id)
    <3>1. \A id \in Ids : Times(<< >>, id) = 0 /\ Times(wire, id) \in Nat
      BY TimesNumber DEF ClientInv, TypeOK
    <3> QED
      BY <3>1
  <2>3. ASSUME NEW id \in Ids PROVE Copies(id)' <= Copies(id)
    <3>1. executed'[id] = executed[id] /\ InCall(id)' = InCall(id) /\ Times(sendChan, id)' = Times(sendChan, id)
          /\ Times(wire, id)' <= Times(wire, id) /\ Written(id)' = Written(id) /\ ToSend(id)' = ToSend(id)
      BY <2>2, SamePlaces
    <3> QED
      BY <2>1, <3>1, PartsAreNumbers DEF Copies
  <2> QED
    BY <1>1, <2>3, CountedStep
<1> QED
  BY <1>1, <1>2, <1>4, <1>5, <1>6 DEF ClientInv

(* The second half of Disconnect, and Shutdown.                            *)
LEMMA AnswerActionsKeep == ClientInv /\ (Fail \/ Shutdown) => ClientInv'
<1>1. ASSUME ClientInv, Fail PROVE ClientInv'
  BY <1>1, AnswerAllKeeps DEF Fail, Errs, handlerVars
<1>2. ASSUME ClientInv, Shutdown PROVE ClientInv'
  BY <1>2, AnswerAllKeeps DEF Shutdown, Errs, handlerVars, linkVars, doDisconnect
<1> QED
  BY <1>1, <1>2

-----------------------------------------------------------------------------
(* A caller's request goes to the queue, or the caller gives it up.        *)
LEMMA HandOverKeeps ==
    ASSUME ClientInv, NEW r \in Ids, calls[r].st = "send", calls' = [calls EXCEPT ![r].st = "done"],
           sendChan' \in {Append(sendChan, r), sendChan},
           UNCHANGED <<mode, answers, requestList, conn, wire, replies, outs, resend, executed>>
    PROVE  ClientInv'
<1>1. sendChan \in Seq(Ids) /\ calls \in [Ids -> Call]
  BY DEF ClientInv, TypeOK
<1>2. sendChan' \in Seq(Ids) /\ Elements(sendChan') \subseteq Elements(sendChan) \cup {r}
  <2>1. Append(sendChan, r) \in Seq(Ids) /\ Elements(Append(sendChan, r)) = Elements(sendChan) \cup {r}
    BY <1>1, QueueAppend
  <2> QED
    BY <1>1, <2>1
<1>3. /\ calls' \in [Ids -> Call]
      /\ \A id \in Ids : /\ calls[id].st = "idle" <=> calls'[id].st = "idle"
                         /\ calls'[id].at = calls[id].at /\ calls'[id].again = calls[id].again
                         /\ id # r => calls'[id] = calls[id]
      /\ calls'[r].st = "done"
  BY <1>1 DEF Call
<1>4. TypeOK'
  BY <1>2, <1>3 DEF ClientInv, TypeOK
<1>5. PendingOK' /\ AnsweredOnce'
  BY <1>1, <1>3 DEF ClientInv, PendingOK, AnsweredOnce, Post, TypeOK, Elements
<1>6. CopiesOK'
  BY <1>3, ConnFacts DEF ClientInv, CopiesOK
<1>7. IdleOK'
  BY <1>2, <1>3, SamePlaces DEF ClientInv, IdleOK
<1>8. CopiesCounted'
  <2>1. Numbers /\ Numbers'
    BY <1>4, NumbersThen, PTL DEF ClientInv
  <2>2. ASSUME NEW id \in Ids PROVE Copies(id)' <= Copies(id)
    <3>1. executed'[id] = executed[id] /\ Times(wire, id)' = Times(wire, id)
          /\ Written(id)' = Written(id) /\ ToSend(id)' = ToSend(id)
      BY SamePlaces
    <3>2. id # r => InCall(id)' = InCall(id)
      BY <1>3 DEF InCall
    <3>3. id = r => InCall(id) = 1 /\ InCall(id)' = 0
      BY <1>3 DEF InCall
    <3>4. Times(sendChan, id)' <= Times(sendChan, id) + 1 /\ (id # r => Times(sendChan, id)' = Times(sendChan, id))
      <4>1. Times(Append(sendChan, r), id) = Times(sendChan, id) + (IF id = r THEN 1 ELSE 0)
        BY <1>1, TimesAppend
      <4>2. Times(sendChan, id) \in Nat
        BY <1>1, TimesNumber
      <4>3. Times(sendChan, id)' = Times(sendChan', id)
        OBVIOUS
      <4>4. CASE sendChan' = Append(sendChan, r)
        BY <4>1, <4>2, <4>3, <4>4
      <4>5. CASE sendChan' = sendChan
        BY <4>2, <4>3, <4>5
      <4> QED
        BY <4>4, <4>5
    <3>5. /\ InCall(id)' \in Nat /\ Times(sendChan, id)' \in Nat
          /\ InCall(id) \in Nat /\ Times(sendChan, id) \in Nat
      BY <2>1, PartsAreNumbers
    <3>6. id # r => InCall(id)' + Times(sendChan, id)' <= InCall(id) + Times(sendChan, id)
      BY <3>5, <3>2, <3>4
    <3>7. id = r => InCall(id)' + Times(sendChan, id)' <= InCall(id) + Times(sendChan, id)
      BY <3>5, <3>3, <3>4
    <3>8. /\ executed[id] \in Nat /\ Times(wire, id) \in Nat
          /\ Cardinality(Written(id)) \in Nat /\ Cardinality(ToSend(id)) \in Nat
      BY <2>1, PartsAreNumbers
    <3>9. InCall(id)' + Times(sendChan, id)' <= InCall(id) + Times(sendChan, id)
      BY <3>6, <3>7
    <3> QED
      BY <2>1, <3>1, <3>8, <3>9, CopiesFall
  <2> QED
    BY <1>3, <1>4, <2>2, CountedStep
<1> QED
  BY <1>4, <1>5, <1>6, <1>7, <1>8 DEF ClientInv

(* sendMessage, on a websocket and in HTTP POST mode.                      *)
LEMMA QueueActionsKeep ==
    ASSUME ClientInv, NEW id \in Ids, sendMessage(id) \/ QueuePost(id)
    PROVE  ClientInv'
<1>1. CASE sendMessage(id)
  BY <1>1, HandOverKeeps DEF sendMessage, handlerVars, linkVars
<1>2. CASE QueuePost(id)
  BY <1>2, HandOverKeeps DEF QueuePost, handlerVars, linkVars
<1> QED
  BY <1>1, <1>2

(* A request is made: it is nowhere yet, and those who are still to copy   *)
(* the list will.                                                          *)
LEMMA CallKeeps ==
    ASSUME ClientInv, NEW r \in Ids, calls[r].st = "idle", NEW st \in {"send", "done"}, Called(r, st),
           r \in Registers => resend[r].st = "register",
           \/ UNCHANGED <<requestList, answers>>
           \/ requestList' = Append(requestList, r) /\ UNCHANGED answers /\ ~Post
           \/ Answer({r}, "shutdown") /\ UNCHANGED requestList,
           UNCHANGED <<mode, sendChan, conn, wire, replies, outs, resend, executed>>
    PROVE  ClientInv'
<1>1. /\ calls \in [Ids -> Call] /\ requestList \in Seq(Ids) /\ answers \in [Ids -> Seq(Errs)]
      /\ conn \in Conns /\ conn \in Nat
  BY ConnFacts DEF ClientInv, TypeOK
<1>2. ToCopy(r) \in SUBSET Conns /\ Cardinality(ToCopy(r)) \in Nat
  <2>1. ToCopy(r) \in SUBSET Conns
    BY DEF ToCopy
  <2> QED
    BY <2>1, ConnSets
<1>3. /\ calls' \in [Ids -> Call]
      /\ \A id \in Ids : id # r => calls'[id] = calls[id]
      /\ calls'[r] = [st |-> st, at |-> conn, again |-> Cardinality(ToCopy(r))]
  BY <1>1, <1>2 DEF Call, Called
<1>4. r \notin Elements(requestList)
  BY DEF ClientInv, PendingOK
<1>5. /\ requestList' \in Seq(Ids) /\ Distinct(requestList')
      /\ Elements(requestList') \subseteq Elements(requestList) \cup {r}
      /\ Post => requestList' = << >>
  <2>1. /\ Append(requestList, r) \in Seq(Ids)
        /\ Elements(Append(requestList, r)) = Elements(requestList) \cup {r}
        /\ Distinct(requestList) => Distinct(Append(requestList, r))
    BY <1>1, <1>4, QueueAppend
  <2>2. Distinct(requestList) /\ (Post => requestList = << >>)
    BY DEF ClientInv, PendingOK
  <2> QED
    BY <1>1, <2>1, <2>2
<1>6. /\ answers' \in [Ids -> Seq(Errs)] /\ \A id \in Ids : id # r => answers'[id] = answers[id]
      /\ Len(answers'[r]) <= 1 /\ (requestList' # requestList => answers'[r] = << >>)
  <2>1. answers[r] = << >> /\ Len(<< >>) <= 1
    BY DEF ClientInv, IdleOK
  <2>2. CASE Answer({r}, "shutdown") /\ UNCHANGED requestList
    <3>1. answers' = [id \in Ids |-> IF id = r THEN Append(answers[id], "shutdown") ELSE answers[id]]
      BY <2>2 DEF Answer
    <3>2. Append(<< >>, "shutdown") \in Seq(Errs) /\ Len(Append(<< >>, "shutdown")) = 1
      BY EmptySeq DEF Errs
    <3>3. answers'[r] = Append(<< >>, "shutdown")
      BY <2>1, <3>1
    <3>4. \A id \in Ids : answers'[id] \in Seq(Errs) /\ (id # r => answers'[id] = answers[id])
      BY <1>1, <3>1, <3>2, <3>3
    <3> QED
      BY <2>2, <3>1, <3>2, <3>3, <3>4
  <2> QED
    BY <1>1, <2>1, <2>2
<1>7. TypeOK'
  BY <1>3, <1>5, <1>6 DEF ClientInv, TypeOK
<1>8. PendingOK'
  <2>1. \A id \in Elements(requestList') : id \in Ids
    BY <1>5 DEF Elements
  <2>2. ASSUME NEW id \in Elements(requestList') PROVE calls'[id].st # "idle" /\ answers'[id] = << >>
    <3>1. CASE id = r
      BY <1>3, <1>4, <1>6, <2>2, <3>1
    <3>2. CASE id # r
      BY <1>3, <1>5, <1>6, <2>1, <2>2, <3>2 DEF ClientInv, PendingOK
    <3> QED
      BY <3>1, <3>2
  <2>3. ASSUME NEW n \in Conns, resend[n].st = "copy" PROVE n \notin Elements(requestList')
    <3>1. n # r
      <4>1. SUFFICES ASSUME n = r PROVE FALSE
        OBVIOUS
      <4>2. r \in Registers
        BY <4>1, ClientAssumption DEF Ids, Conns, Registers
      <4> QED
        BY <2>3, <4>1, <4>2
    <3> QED
      BY <1>5, <2>3, <3>1 DEF ClientInv, PendingOK
  <2> QED
    BY <1>5, <2>2, <2>3 DEF PendingOK, Post
<1>9. CopiesOK'
  <2>1. ASSUME r \in Registers PROVE ~(r > conn)
    BY <2>1, ConnFacts DEF ClientInv, CopiesOK, Registers
  <2> QED
    BY <1>3, <2>1, ConnFacts DEF ClientInv, CopiesOK
<1>10. AnsweredOnce'
  BY <1>6 DEF ClientInv, AnsweredOnce, Post
<1>11. IdleOK'
  BY <1>3, <1>6, SamePlaces DEF ClientInv, IdleOK
<1>12. CopiesCounted'
  <2> SUFFICES ASSUME NEW id \in Ids, calls'[id].st # "idle"
               PROVE  calls'[id].at <= conn' /\ Copies(id)' <= 1 + calls'[id].again + (conn' - calls'[id].at)
    BY DEF CopiesCounted
  <2>1. Numbers /\ Numbers'
    BY <1>7, NumbersThen, PTL DEF ClientInv
  <2>2. executed'[id] = executed[id] /\ Times(sendChan, id)' = Times(sendChan, id)
        /\ Times(wire, id)' = Times(wire, id) /\ Written(id)' = Written(id) /\ ToSend(id)' = ToSend(id)
    BY SamePlaces
  <2>3. CASE id # r
    <3>1. InCall(id)' = InCall(id) /\ calls'[id] = calls[id]
      BY <1>3, <2>3 DEF InCall
    <3>2. Copies(id)' = Copies(id)
      BY <2>1, <2>2, <3>1, PartsAreNumbers DEF Copies
    <3> QED
      BY <3>1, <3>2 DEF ClientInv, CopiesCounted
  <2>4. CASE id = r
    <3>1. /\ executed[id] = 0 /\ id \notin Elements(sendChan) /\ id \notin Elements(wire)
          /\ Written(id) = {} /\ \A n \in Conns : id \notin Elements(resend[n].left)
      BY <2>4 DEF ClientInv, IdleOK
    <3>2. Times(sendChan, id) = 0 /\ Times(wire, id) = 0 /\ Cardinality(Written(id)) = 0
      BY <3>1, TimesNumber, FS_EmptySet DEF ClientInv, TypeOK
    <3>3. ToSend(id) = ToCopy(id)
      BY <3>1 DEF ToSend, ToCopy
    <3>4. InCall(id)' \in {0, 1}
      BY <1>3, <2>4 DEF InCall
    <3>5. /\ executed'[id] = 0 /\ Times(sendChan, id)' = 0 /\ Times(wire, id)' = 0
          /\ Cardinality(Written(id))' = 0 /\ Cardinality(ToSend(id))' = Cardinality(ToCopy(id))
      BY <2>2, <3>1, <3>2, <3>3
    <3>6. Cardinality(ToCopy(id)) \in Nat
      BY <1>2, <2>4
    <3>7. Copies(id)' <= 1 + Cardinality(ToCopy(id))
      BY <2>1, <3>4, <3>5, <3>6, PartsAreNumbers DEF Copies
    <3> QED
      BY <1>1, <1>3, <2>4, <3>6, <3>7
  <2> QED
    BY <2>3, <2>4
<1> QED
  BY <1>7, <1>8, <1>9, <1>10, <1>11, <1>12 DEF ClientInv

(* sendRequest, on a websocket and in HTTP POST mode.                      *)
LEMMA CallActionsKeep ==
    ASSUME ClientInv, NEW id \in Ids, sendRequest(id) \/ sendPostRequest(id)
    PROVE  ClientInv'
<1>1. CASE sendRequest(id)
  <2>1. \/ Answer({id}, "shutdown") /\ Called(id, "done") /\ UNCHANGED requestList
        \/ requestList' = Append(requestList, id) /\ Called(id, "send") /\ UNCHANGED answers
    BY <1>1 DEF sendRequest, addRequest
  <2>2. /\ ~Post /\ calls[id].st = "idle" /\ (id \in Registers => resend[id].st = "register")
        /\ UNCHANGED <<mode, sendChan, conn, wire, replies, outs, resend, executed>>
    BY <1>1 DEF sendRequest, linkVars, handlerVars
  <2> QED
    BY <2>1, <2>2, CallKeeps
<1>2. CASE sendPostRequest(id)
  <2>1. id \notin Registers
    BY <1>2, ClientAssumption DEF sendPostRequest, Registers, Conns
  <2>2. /\ Called(id, "send") /\ calls[id].st = "idle"
        /\ Answer({id}, "shutdown") \/ UNCHANGED answers
        /\ UNCHANGED <<mode, requestList, sendChan, conn, wire, replies, outs, resend, executed>>
    BY <1>2 DEF sendPostRequest, linkVars, handlerVars
  <2> QED
    BY <2>1, <2>2, CallKeeps
<1> QED
  BY <1>1, <1>2

-----------------------------------------------------------------------------
(* A handler takes something in hand, or lays it down.                     *)
LEMMA InHand ==
    ASSUME TypeOK, NEW n \in Conns, NEW h \in Handler, outs' = [outs EXCEPT ![n] = h]
    PROVE  /\ outs' \in [Conns -> Handler]
           /\ \A id \in Ids : h.msg # <<id>> => Written(id)' \subseteq Written(id) \ {n}
           /\ \A id \in Ids : Written(id)' \subseteq Written(id) \cup {n}
           /\ \A id \in Ids : /\ Cardinality(Written(id))' <= Cardinality(Written(id)) + 1
                              /\ h.msg # <<id>> => Cardinality(Written(id))' <= Cardinality(Written(id))
                              /\ h.msg # <<id>> /\ outs[n].msg = <<id>> => Cardinality(Written(id))' + 1 <= Cardinality(Written(id))
<1>1. outs \in [Conns -> Handler]
  BY DEF TypeOK
<1>2. outs' \in [Conns -> Handler] /\ outs'[n] = h /\ \A m \in Conns \ {n} : outs'[m] = outs[m]
  BY <1>1
<1>3. \A id \in Ids : /\ Written(id) \in SUBSET Conns
                      /\ Written(id)' \subseteq Written(id) \cup {n}
                      /\ h.msg # <<id>> => Written(id)' \subseteq Written(id) \ {n}
  BY <1>2 DEF Written
<1>4. \A id \in Ids : outs[n].msg = <<id>> => n \in Written(id)
  BY DEF Written
<1>5. ASSUME NEW id \in Ids
      PROVE  /\ Cardinality(Written(id))' <= Cardinality(Written(id)) + 1
             /\ h.msg # <<id>> => Cardinality(Written(id))' <= Cardinality(Written(id))
             /\ h.msg # <<id>> /\ outs[n].msg = <<id>> => Cardinality(Written(id))' + 1 <= Cardinality(Written(id))
  <2>1. /\ Written(id) \in SUBSET Conns /\ Written(id)' \in SUBSET (Written(id) \cup {n})
        /\ h.msg # <<id>> => Written(id)' \in SUBSET (Written(id) \ {n}) /\ Written(id)' \in SUBSET Written(id)
        /\ outs[n].msg = <<id>> => n \in Written(id)
    BY <1>3, <1>4
  <2> QED
    BY <2>1, ConnSets
<1> QED
  BY <1>2, <1>3, <1>5

(* What does not touch the list of pending requests, a call or an answer.  *)
LEMMA ListsStay ==
    ASSUME ClientInv, UNCHANGED <<mode, calls, answers, requestList, conn, resend>>
    PROVE  PendingOK' /\ CopiesOK' /\ AnsweredOnce'
BY DEF ClientInv, PendingOK, CopiesOK, AnsweredOnce, Post

(* The head of the queue is taken: queued once less.                       *)
LEMMA Taken ==
    ASSUME NEW s \in Seq(Ids), s # << >>
    PROVE  /\ Tail(s) \in Seq(Ids) /\ Head(s) \in Ids /\ Head(s) \in Elements(s)
           /\ Elements(Tail(s)) \subseteq Elements(s)
           /\ \A id \in Ids : /\ Times(Tail(s), id) <= Times(s, id)
                              /\ id = Head(s) => Times(Tail(s), id) + 1 <= Times(s, id)
<1>1. /\ Tail(s) \in Seq(Ids) /\ Head(s) \in Elements(s) /\ Elements(s) \subseteq Ids
      /\ Elements(Tail(s)) \subseteq Elements(s)
  BY QueueTail
<1>2. ASSUME NEW id \in Ids
      PROVE  Times(Tail(s), id) <= Times(s, id) /\ (id = Head(s) => Times(Tail(s), id) + 1 <= Times(s, id))
  <2>1. Times(Tail(s), id) + (IF id = Head(s) THEN 1 ELSE 0) <= Times(s, id)
    BY TimesTail
  <2>2. Times(Tail(s), id) \in Nat /\ Times(s, id) \in Nat
    BY <1>1, TimesNumber
  <2> QED
    BY <2>1, <2>2
<1> QED
  BY <1>1, <1>2

(* wsOutHandler takes the head of the queue.                               *)
LEMMA ReceiveKeeps ==
    ASSUME ClientInv, NEW n \in Conns, Receive(n)
    PROVE  ClientInv'
<1> DEFINE r == Head(sendChan)
           h == [st |-> "write", ch |-> outs[n].ch, msg |-> <<r>>]
<1>1. /\ sendChan # << >> /\ sendChan' = Tail(sendChan) /\ outs' = [outs EXCEPT ![n] = h]
      /\ UNCHANGED <<mode, calls, answers, requestList, conn, resend, wire, replies, executed>>
  BY DEF Receive, callVars, linkVars
<1>2. TypeOK /\ sendChan \in Seq(Ids) /\ outs \in [Conns -> Handler]
  BY DEF ClientInv, TypeOK
<1>3. /\ sendChan' \in Seq(Ids) /\ r \in Ids /\ r \in Elements(sendChan)
      /\ Elements(sendChan') \subseteq Elements(sendChan)
      /\ \A id \in Ids : /\ Times(sendChan', id) <= Times(sendChan, id)
                         /\ id = r => Times(sendChan', id) + 1 <= Times(sendChan, id)
  BY <1>1, <1>2, Taken
<1>4. h \in Handler /\ h.msg = <<r>>
  BY <1>2, <1>3 DEF Handler
<1> HIDE DEF h, r
<1>5. /\ outs' \in [Conns -> Handler]
      /\ \A id \in Ids : id # r => Written(id)' \subseteq Written(id)
      /\ \A id \in Ids : /\ Cardinality(Written(id))' <= Cardinality(Written(id)) + 1
                         /\ id # r => Cardinality(Written(id))' <= Cardinality(Written(id))
  <2>1. \A id \in Ids : id # r => h.msg # <<id>>
    BY <1>4
  <2> QED
    BY <1>1, <1>2, <1>4, <2>1, InHand
<1>6. TypeOK'
  BY <1>1, <1>3, <1>5 DEF ClientInv, TypeOK
<1>7. PendingOK' /\ CopiesOK' /\ AnsweredOnce'
  BY <1>1, ListsStay
<1>8. IdleOK'
  BY <1>1, <1>3, <1>5 DEF ClientInv, IdleOK
<1>9. CopiesCounted'
  <2>1. Numbers /\ Numbers'
    BY <1>6, NumbersThen, PTL DEF ClientInv
  <2>2. ASSUME NEW id \in Ids PROVE Copies(id)' <= Copies(id)
    <3>1. executed'[id] <= executed[id] /\ InCall(id)' <= InCall(id) /\ Times(wire, id)' <= Times(wire, id)
          /\ Cardinality(ToSend(id))' <= Cardinality(ToSend(id))
      BY <1>1, <2>1, SamePlaces, PartsAreNumbers
    <3>2. /\ Times(sendChan, id)' \in Nat /\ Times(sendChan, id) \in Nat
          /\ Cardinality(Written(id))' \in Nat /\ Cardinality(Written(id)) \in Nat
      BY <2>1, PartsAreNumbers
    <3>3. Times(sendChan, id)' + Cardinality(Written(id))' <= Times(sendChan, id) + Cardinality(Written(id))
      BY <1>3, <1>5, <3>2
    <3> QED
      BY <2>1, <3>1, <3>3, CopiesFall
  <2> QED
    BY <1>1, <1>6, <2>2, CountedStep
<1> QED
  BY <1>6, <1>7, <1>8, <1>9 DEF ClientInv

(* It writes what it has in hand, or loses it with the connection.         *)
LEMMA WriteMessageKeeps ==
    ASSUME ClientInv, NEW n \in Conns, WriteMessage(n)
    PROVE  ClientInv'
<1>1. /\ UNCHANGED <<mode, calls, answers, requestList, conn, resend, sendChan, executed>>
      /\ outs[n].st = "write"
  BY DEF WriteMessage, callVars
<1>2. TypeOK /\ wire \in Seq(Ids) /\ outs \in [Conns -> Handler] /\ outs[n] \in Handler /\ conn \in Nat
  BY ConnFacts DEF ClientInv, TypeOK
<1>3. PICK h \in Handler : /\ outs' = [outs EXCEPT ![n] = h] /\ h.msg = << >>
                           /\ wire' \in {wire, << >>, wire \o outs[n].msg} /\ replies' \in {replies, << >>}
  <2>1. OutHandler(conn) \in Handler /\ OutHandler(conn).msg = << >>
    BY <1>2 DEF OutHandler, Handler
  <2>2. [st |-> "drain", ch |-> outs[n].ch, msg |-> << >>] \in Handler
    BY <1>2 DEF Handler
  <2>3. \/ wire' \in {wire, wire \o outs[n].msg} /\ outs' = [outs EXCEPT ![n] = OutHandler(conn)] /\ UNCHANGED replies
        \/ /\ outs' = [outs EXCEPT ![n] = [st |-> "drain", ch |-> outs[n].ch, msg |-> << >>]]
           /\ wire' = << >> /\ replies' = << >>
    BY DEF WriteMessage, Disconnect, doDisconnect
  <2> QED
    BY <2>1, <2>2, <2>3
<1>4. outs[n].msg = << >> \/ \E r \in Ids : outs[n].msg = <<r>>
  BY <1>2 DEF Handler
<1>5. /\ outs' \in [Conns -> Handler]
      /\ \A id \in Ids : Written(id)' \subseteq Written(id)
      /\ \A id \in Ids : /\ Cardinality(Written(id))' <= Cardinality(Written(id))
                         /\ outs[n].msg = <<id>> => Cardinality(Written(id))' + 1 <= Cardinality(Written(id))
  <2>1. \A id \in Ids : h.msg # <<id>>
    BY <1>3
  <2> QED
    BY <1>2, <1>3, <2>1, InHand
<1>6. /\ wire' \in Seq(Ids)
      /\ \A id \in Ids : id \in Elements(wire') => id \in Elements(wire) \/ outs[n].msg = <<id>>
      /\ \A id \in Ids : /\ Times(wire', id) <= Times(wire, id) + 1
                         /\ outs[n].msg # <<id>> => Times(wire', id) <= Times(wire, id)
  <2>1. CASE wire' = wire
    BY <1>2, <2>1, TimesNumber
  <2>2. CASE wire' = << >>
    <3>1. \A id \in Ids : Times(<< >>, id) = 0 /\ Times(wire, id) \in Nat
      BY <1>2, TimesNumber
    <3> QED
      BY <2>2, <3>1, EmptySeq DEF Elements
  <2>3. CASE wire' = wire \o outs[n].msg /\ outs[n].msg = << >>
    <3>1. wire' = wire
      BY <1>2, <2>3
    <3> QED
      BY <1>2, <3>1, TimesNumber
  <2>4. ASSUME NEW r \in Ids, wire' = wire \o outs[n].msg, outs[n].msg = <<r>>
        PROVE  /\ wire' \in Seq(Ids)
               /\ \A id \in Ids : id \in Elements(wire') => id \in Elements(wire) \/ outs[n].msg = <<id>>
               /\ \A id \in Ids : /\ Times(wire', id) <= Times(wire, id) + 1
                                  /\ outs[n].msg # <<id>> => Times(wire', id) <= Times(wire, id)
    <3>1. wire' = Append(wire, r)
      BY <1>2, <2>4
    <3>2. wire' \in Seq(Ids) /\ Elements(wire') = Elements(wire) \cup {r}
      BY <1>2, <3>1, QueueAppend
    <3>3. ASSUME NEW id \in Ids
          PROVE  /\ Times(wire', id) <= Times(wire, id) + 1
                 /\ outs[n].msg # <<id>> => Times(wire', id) <= Times(wire, id)
      <4>1. Times(wire', id) = Times(wire, id) + (IF id = r THEN 1 ELSE 0) /\ Times(wire, id) \in Nat
        BY <1>2, <3>1, TimesAppend, TimesNumber
      <4> QED
        BY <2>4, <4>1
    <3> QED
      BY <2>4, <3>2, <3>3
  <2> QED
    BY <1>3, <1>4, <2>1, <2>2, <2>3, <2>4
<1>7. TypeOK'
  <2>1. replies' \in Seq([id : Ids, err : Errs])
    BY <1>3, EmptySeq DEF ClientInv, TypeOK
  <2> QED
    BY <1>1, <1>5, <1>6, <2>1 DEF ClientInv, TypeOK
<1>8. PendingOK' /\ CopiesOK' /\ AnsweredOnce'
  BY <1>1, ListsStay
<1>9. IdleOK'
  <2>1. \A id \in Ids : outs[n].msg = <<id>> => Written(id) # {}
    BY DEF Written
  <2> QED
    BY <1>1, <1>5, <1>6, <2>1 DEF ClientInv, IdleOK
<1>10. CopiesCounted'
  <2>1. Numbers /\ Numbers'
    BY <1>7, NumbersThen, PTL DEF ClientInv
  <2>2. ASSUME NEW id \in Ids PROVE Copies(id)' <= Copies(id)
    <3>1. executed'[id] <= executed[id] /\ InCall(id)' <= InCall(id)
          /\ Times(sendChan, id)' <= Times(sendChan, id) /\ Cardinality(ToSend(id))' <= Cardinality(ToSend(id))
      BY <1>1, <2>1, SamePlaces, PartsAreNumbers
    <3>2. /\ Times(wire, id)' \in Nat /\ Times(wire, id) \in Nat
          /\ Cardinality(Written(id))' \in Nat /\ Cardinality(Written(id)) \in Nat
      BY <2>1, PartsAreNumbers
    <3>3. Cardinality(Written(id))' + Times(wire, id)' <= Cardinality(Written(id)) + Times(wire, id)
      BY <1>5, <1>6, <3>2
    <3> QED
      BY <2>1, <3>1, <3>3, CopiesFall
  <2> QED
    BY <1>1, <1>7, <2>2, CountedStep
<1> QED
  BY <1>7, <1>8, <1>9, <1>10 DEF ClientInv

(* A handler that ends empties the queue.                                  *)
LEMMA DrainKeeps ==
    ASSUME ClientInv, NEW n \in Conns, Drain(n)
    PROVE  ClientInv'
<1>1. /\ UNCHANGED <<mode, calls, answers, requestList, conn, resend, wire, replies, executed>>
      /\ sendChan' = << >> /\ outs' = [outs EXCEPT ![n].st = "done"]
  BY DEF Drain, callVars, linkVars
<1>2. TypeOK /\ sendChan \in Seq(Ids) /\ outs \in [Conns -> Handler]
  BY DEF ClientInv, TypeOK
<1>3. outs' \in [Conns -> Handler] /\ \A m \in Conns : outs'[m].msg = outs[m].msg
  BY <1>1, <1>2 DEF Handler
<1>4. \A id \in Ids : Written(id)' = Written(id)
  BY <1>3 DEF Written
<1>5. TypeOK'
  BY <1>1, <1>3, EmptySeq DEF ClientInv, TypeOK
<1>6. PendingOK' /\ CopiesOK' /\ AnsweredOnce'
  BY <1>1, ListsStay
<1>7. IdleOK'
  <2>1. Elements(sendChan') = {}
    BY <1>1 DEF Elements
  <2> QED
    BY <1>1, <1>4, <2>1 DEF ClientInv, IdleOK
<1>8. CopiesCounted'
  <2>1. Numbers /\ Numbers'
    BY <1>5, NumbersThen, PTL DEF ClientInv
  <2>2. ASSUME NEW id \in Ids PROVE Copies(id)' <= Copies(id)
    <3>1. executed'[id] <= executed[id] /\ InCall(id)' <= InCall(id)
          /\ Times(wire, id)' <= Times(wire, id) /\ Cardinality(ToSend(id))' <= Cardinality(ToSend(id))
      BY <1>1, <2>1, SamePlaces, PartsAreNumbers
    <3>2. Cardinality(Written(id))' <= Cardinality(Written(id))
      BY <1>4, <2>1, PartsAreNumbers
    <3>3. Times(sendChan, id)' <= Times(sendChan, id)
      <4>1. Times(<< >>, id) = 0 /\ Times(sendChan, id) \in Nat
        BY <1>2, TimesNumber
      <4> QED
        BY <1>1, <4>1
    <3> QED
      BY <2>1, <3>1, <3>2, <3>3, CopiesFall
  <2> QED
    BY <1>1, <1>5, <2>2, CountedStep
<1> QED
  BY <1>5, <1>6, <1>7, <1>8 DEF ClientInv

(* The server executes what arrives.                                       *)
LEMMA ExecuteKeeps ==
    ASSUME ClientInv, Execute
    PROVE  ClientInv'
<1> DEFINE r == Head(wire)
<1>1. /\ UNCHANGED <<mode, calls, answers, requestList, conn, resend, sendChan, outs>>
      /\ wire # << >> /\ wire' = Tail(wire)
      /\ executed' = [executed EXCEPT ![r] = @ + 1]
      /\ \E err \in {"none", "rpc"} : replies' = Append(replies, [id |-> r, err |-> err])
  BY DEF Execute, callVars, handlerVars
<1>2. TypeOK /\ wire \in Seq(Ids) /\ executed \in [Ids -> Nat] /\ replies \in Seq([id : Ids, err : Errs])
  BY DEF ClientInv, TypeOK
<1>3. /\ wire' \in Seq(Ids) /\ r \in Ids /\ r \in Elements(wire)
      /\ Elements(wire') \subseteq Elements(wire)
      /\ \A id \in Ids : /\ Times(wire', id) <= Times(wire, id)
                         /\ id = r => Times(wire', id) + 1 <= Times(wire, id)
  BY <1>1, <1>2, Taken
<1> HIDE DEF r
<1>4. /\ executed' \in [Ids -> Nat]
      /\ \A id \in Ids : /\ executed'[id] <= executed[id] + 1
                         /\ id # r => executed'[id] = executed[id]
  BY <1>1, <1>2, <1>3
<1>5. TypeOK'
  <2>1. PICK err \in {"none", "rpc"} : replies' = Append(replies, [id |-> r, err |-> err])
    BY <1>1
  <2>2. [id |-> r, err |-> err] \in [id : Ids, err : Errs]
    BY <1>3 DEF Errs
  <2>3. replies' \in Seq([id : Ids, err : Errs])
    BY <1>2, <2>1, <2>2
  <2> QED
    BY <1>1, <1>3, <1>4, <2>3 DEF ClientInv, TypeOK
<1>6. PendingOK' /\ CopiesOK' /\ AnsweredOnce'
  BY <1>1, ListsStay
<1>7. IdleOK'
  BY <1>1, <1>3, <1>4, SamePlaces DEF ClientInv, IdleOK
<1>8. CopiesCounted'
  <2>1. Numbers /\ Numbers'
    BY <1>5, NumbersThen, PTL DEF ClientInv
  <2>2. ASSUME NEW id \in Ids PROVE Copies(id)' <= Copies(id)
    <3>1. InCall(id)' <= InCall(id) /\ Times(sendChan, id)' <= Times(sendChan, id)
          /\ Cardinality(Written(id))' <= Cardinality(Written(id)) /\ Cardinality(ToSend(id))' <= Cardinality(ToSend(id))
      BY <1>1, <2>1, SamePlaces, PartsAreNumbers
    <3>2. Times(wire, id)' \in Nat /\ Times(wire, id) \in Nat /\ executed'[id] \in Nat /\ executed[id] \in Nat
      BY <2>1, PartsAreNumbers
    <3>3. Times(wire, id)' + executed'[id] <= Times(wire, id) + executed[id]
      BY <1>3, <1>4, <3>2
    <3> QED
      BY <2>1, <3>1, <3>3, CopiesFall
  <2> QED
    BY <1>1, <1>5, <2>2, CountedStep
<1> QED
  BY <1>5, <1>6, <1>7, <1>8 DEF ClientInv

(* HTTP POST mode: the head of the queue is answered, and executed unless  *)
(* the client shuts down.                                                  *)
LEMMA PostTakenKeeps ==
    ASSUME ClientInv, Post, sendChan # << >>, sendChan' = Tail(sendChan),
           NEW err \in Errs, Answer({Head(sendChan)}, err),
           executed' \in {executed, [executed EXCEPT ![Head(sendChan)] = @ + 1]},
           UNCHANGED <<mode, calls, requestList, conn, wire, replies, outs, resend>>
    PROVE  ClientInv'
<1> DEFINE r == Head(sendChan)
<1>1. TypeOK /\ sendChan \in Seq(Ids) /\ executed \in [Ids -> Nat] /\ answers \in [Ids -> Seq(Errs)]
  BY DEF ClientInv, TypeOK
<1>2. /\ sendChan' \in Seq(Ids) /\ r \in Ids /\ r \in Elements(sendChan)
      /\ Elements(sendChan') \subseteq Elements(sendChan)
      /\ \A id \in Ids : /\ Times(sendChan', id) <= Times(sendChan, id)
                         /\ id = r => Times(sendChan', id) + 1 <= Times(sendChan, id)
  BY <1>1, Taken
<1>3. /\ executed' \in {executed, [executed EXCEPT ![r] = @ + 1]}
      /\ answers' = [id \in Ids |-> IF id = r THEN Append(answers[id], err) ELSE answers[id]]
  BY DEF Answer
<1> HIDE DEF r
<1>4. /\ executed' \in [Ids -> Nat]
      /\ \A id \in Ids : /\ executed'[id] <= executed[id] + 1
                         /\ id # r => executed'[id] = executed[id]
  <2>1. CASE executed' = executed
    BY <1>1, <2>1
  <2>2. CASE executed' = [executed EXCEPT ![r] = @ + 1]
    BY <1>1, <1>2, <2>2
  <2> QED
    BY <1>3, <2>1, <2>2
<1>5. answers' \in [Ids -> Seq(Errs)] /\ \A id \in Ids : id # r => answers'[id] = answers[id]
  <2>1. \A id \in Ids : Append(answers[id], err) \in Seq(Errs)
    BY <1>1
  <2> QED
    BY <1>1, <1>3, <2>1
<1>6. TypeOK'
  BY <1>2, <1>4, <1>5 DEF ClientInv, TypeOK
<1>7. PendingOK' /\ CopiesOK' /\ AnsweredOnce'
  <2>1. requestList = << >> /\ requestList' = << >>
    BY DEF ClientInv, PendingOK
  <2>2. Elements(requestList') = {} /\ Distinct(requestList')
    BY <2>1 DEF Elements, Distinct
  <2> QED
    BY <2>1, <2>2 DEF ClientInv, PendingOK, CopiesOK, AnsweredOnce, Post
<1>8. IdleOK'
  BY <1>2, <1>4, <1>5, SamePlaces DEF ClientInv, IdleOK
<1>9. CopiesCounted'
  <2>1. Numbers /\ Numbers'
    BY <1>6, NumbersThen, PTL DEF ClientInv
  <2>2. ASSUME NEW id \in Ids PROVE Copies(id)' <= Copies(id)
    <3>1. InCall(id)' <= InCall(id) /\ Times(wire, id)' <= Times(wire, id)
          /\ Cardinality(Written(id))' <= Cardinality(Written(id)) /\ Cardinality(ToSend(id))' <= Cardinality(ToSend(id))
      BY <2>1, SamePlaces, PartsAreNumbers
    <3>2. Times(sendChan, id)' \in Nat /\ Times(sendChan, id) \in Nat /\ executed'[id] \in Nat /\ executed[id] \in Nat
      BY <2>1, PartsAreNumbers
    <3>3. Times(sendChan, id)' + executed'[id] <= Times(sendChan, id) + executed[id]
      <4>1. CASE id = r
        BY <1>2, <1>4, <3>2, <4>1
      <4>2. CASE id # r
        BY <1>2, <1>4, <3>2, <4>2
      <4> QED
        BY <4>1, <4>2
    <3> QED
      BY <2>1, <3>1, <3>3, CopiesFall
  <2> QED
    BY <1>6, <2>2, CountedStep
<1> QED
  BY <1>6, <1>7, <1>8, <1>9 DEF ClientInv

(* The goroutine of HTTP POST mode, and its end.                           *)
LEMMA PostActionsKeep == ClientInv /\ (handleSendPostMessage \/ sendPostHandler) => ClientInv'
<1>1. ASSUME ClientInv, handleSendPostMessage PROVE ClientInv'
  <2>1. PICK err \in {"none", "rpc"} : Answer({Head(sendChan)}, err)
    BY <1>1 DEF handleSendPostMessage
  <2> QED
    BY <1>1, <2>1, PostTakenKeeps DEF handleSendPostMessage, Errs, linkVars, handlerVars
<1>2. ASSUME ClientInv, sendPostHandler PROVE ClientInv'
  <2>1. UNCHANGED <<mode, calls, requestList, conn, wire, replies, resend, executed>> /\ Post
    BY <1>2 DEF sendPostHandler, linkVars
  <2>2. outs \in [Conns -> Handler]
    BY <1>2 DEF ClientInv, TypeOK
  <2>3. CASE outs' \in {[outs EXCEPT ![1].st = "drain"], [outs EXCEPT ![1].st = "done"]} /\ UNCHANGED <<answers, sendChan>>
    <3>1. PICK st \in {"drain", "done"} : outs' = [outs EXCEPT ![1].st = st]
      BY <2>3
    <3>2. outs' \in [Conns -> Handler] /\ \A m \in Conns : outs'[m].msg = outs[m].msg
      BY <2>2, <3>1, ConnFacts DEF Handler
    <3> QED
      BY <1>2, <2>1, <2>3, <3>2, QuietKeeps
  <2>4. CASE sendChan # << >> /\ Answer({Head(sendChan)}, "shutdown") /\ sendChan' = Tail(sendChan) /\ UNCHANGED outs
    BY <1>2, <2>1, <2>4, PostTakenKeeps DEF Errs
  <2> QED
    BY <1>2, <2>3, <2>4 DEF sendPostHandler
<1> QED
  BY <1>1, <1>2

(* A reply answers a request that is pending, and takes it off the list.   *)
LEMMA ReadMessageKeeps ==
    ASSUME ClientInv, NEW n \in Conns, ReadMessage(n)
    PROVE  ClientInv'
<1> DEFINE r == Head(replies).id
           err == Head(replies).err
<1>1. /\ UNCHANGED <<mode, calls, conn, resend, sendChan, outs, wire, executed>>
      /\ replies # << >> /\ replies' = Tail(replies)
      /\ requestList' = Without(requestList, {r})
      /\ r \notin Pending => UNCHANGED answers
      /\ r \in Pending => Answer({r}, err)
  BY DEF ReadMessage, handleMessage, handlerVars, removeRequest
<1>2. TypeOK /\ requestList \in Seq(Ids) /\ replies \in Seq([id : Ids, err : Errs]) /\ answers \in [Ids -> Seq(Errs)]
  BY DEF ClientInv, TypeOK
<1>3. replies' \in Seq([id : Ids, err : Errs]) /\ r \in Ids /\ err \in Errs
  <2>1. Head(replies) \in [id : Ids, err : Errs] /\ Tail(replies) \in Seq([id : Ids, err : Errs])
    <3>1. Elements(replies) \subseteq [id : Ids, err : Errs] /\ Head(replies) \in Elements(replies)
      BY <1>1, <1>2, QueueTail
    <3> QED
      BY <1>1, <1>2, <3>1
  <2> QED
    BY <1>1, <2>1
<1> HIDE DEF r, err
<1>4. /\ requestList' \in Seq(Ids) /\ Distinct(requestList')
      /\ Elements(requestList') = Elements(requestList) \ {r}
  BY <1>1, <1>2, WithoutKeeps DEF ClientInv, PendingOK
<1>5. Pending = Elements(requestList)
  BY DEF Pending, Elements
<1>6. /\ answers' \in [Ids -> Seq(Errs)] /\ \A id \in Ids : id # r => answers'[id] = answers[id]
      /\ r \notin Pending => answers'[r] = answers[r]
      /\ r \in Pending => answers'[r] = <<err>>
  <2>1. CASE r \in Pending
    <3>1. answers' = [id \in Ids |-> IF id = r THEN Append(answers[id], err) ELSE answers[id]]
      BY <1>1, <2>1 DEF Answer
    <3>2. answers[r] = << >> /\ Append(<< >>, err) = <<err>>
      BY <1>5, <2>1 DEF ClientInv, PendingOK
    <3>3. \A id \in Ids : Append(answers[id], err) \in Seq(Errs)
      BY <1>2, <1>3
    <3> QED
      BY <1>2, <1>3, <2>1, <3>1, <3>2, <3>3
  <2> QED
    BY <1>1, <1>2, <2>1
<1>7. TypeOK'
  BY <1>1, <1>3, <1>4, <1>6 DEF ClientInv, TypeOK
<1>8. PendingOK'
  <2>1. \A id \in Elements(requestList) : id \in Ids
    BY <1>2 DEF Elements
  <2>2. Post => requestList' = << >>
    <3> SUFFICES ASSUME Post PROVE requestList' = << >>
      OBVIOUS
    <3>1. requestList = << >>
      BY DEF ClientInv, PendingOK
    <3>2. Elements(requestList') = {}
      BY <1>4, <3>1 DEF Elements
    <3>3. Len(requestList') = 0
      BY <1>4, <3>2 DEF Elements
    <3> QED
      BY <1>4, <3>3
  <2> QED
    BY <1>1, <1>4, <1>6, <2>1, <2>2 DEF ClientInv, PendingOK, Post
<1>9. CopiesOK'
  BY <1>1 DEF ClientInv, CopiesOK
<1>10. AnsweredOnce'
  <2> SUFFICES ASSUME ~Post, NEW id \in Ids PROVE Len(answers'[id]) <= 1
    BY <1>1 DEF AnsweredOnce, Post
  <2>1. Len(answers[id]) <= 1 /\ Len(<<err>>) = 1
    BY DEF ClientInv, AnsweredOnce
  <2>2. CASE id = r /\ r \in Pending
    <3>1. answers'[id] = <<err>>
      BY <1>6, <2>2
    <3> QED
      BY <2>1, <3>1
  <2>3. CASE ~(id = r /\ r \in Pending)
    <3>1. answers'[id] = answers[id]
      BY <1>6, <2>3
    <3> QED
      BY <2>1, <3>1
  <2> QED
    BY <2>2, <2>3
<1>11. IdleOK'
  <2>1. \A id \in Ids : calls[id].st = "idle" => id \notin Pending
    BY <1>5 DEF ClientInv, PendingOK
  <2>2. \A id \in Ids : calls[id].st = "idle" => answers'[id] = answers[id]
    BY <1>6, <2>1
  <2> QED
    BY <1>1, <2>2, SamePlaces DEF ClientInv, IdleOK
<1>12. CopiesCounted'
  <2>1. Numbers /\ Numbers'
    BY <1>7, NumbersThen, PTL DEF ClientInv
  <2>2. ASSUME NEW id \in Ids PROVE Copies(id)' <= Copies(id)
    <3>1. /\ executed'[id] <= executed[id] /\ InCall(id)' <= InCall(id) /\ Times(sendChan, id)' <= Times(sendChan, id)
          /\ Times(wire, id)' <= Times(wire, id) /\ Cardinality(Written(id))' <= Cardinality(Written(id))
          /\ Cardinality(ToSend(id))' <= Cardinality(ToSend(id))
      BY <1>1, <2>1, SamePlaces, PartsAreNumbers
    <3> QED
      BY <2>1, <3>1, CopiesFall
  <2> QED
    BY <1>1, <1>7, <2>2, CountedStep
<1> QED
  BY <1>7, <1>8, <1>9, <1>10, <1>11, <1>12 DEF ClientInv

-----------------------------------------------------------------------------
(* A resendRequests that still may send a request.                         *)
StillTo(h, n, id) == n # id /\ (h.st \in {"register", "copy"} \/ id \in Elements(h.left))

(* A resendRequests goes on: what the others are to send is as it was.     *)
LEMMA GoesOn ==
    ASSUME TypeOK, NEW n \in Conns, NEW h \in Copying, resend' = [resend EXCEPT ![n] = h]
    PROVE  /\ resend' \in [Conns -> Copying] /\ resend'[n] = h /\ \A m \in Conns \ {n} : resend'[m] = resend[m]
           /\ \A id \in Ids :
                /\ Cardinality(ToSend(id))' <= Cardinality(ToSend(id)) + 1
                /\ (StillTo(h, n, id) => StillTo(resend[n], n, id))
                   => Cardinality(ToSend(id))' <= Cardinality(ToSend(id))
                /\ ~StillTo(h, n, id) => Cardinality(ToSend(id))' <= Cardinality(ToSend(id))
                /\ ~StillTo(h, n, id) /\ StillTo(resend[n], n, id)
                   => Cardinality(ToSend(id))' + 1 <= Cardinality(ToSend(id))
<1>1. resend \in [Conns -> Copying]
  BY DEF TypeOK
<1>2. resend' \in [Conns -> Copying] /\ resend'[n] = h /\ \A m \in Conns \ {n} : resend'[m] = resend[m]
  BY <1>1
<1>3. ASSUME NEW id \in Ids
      PROVE  /\ ToSend(id) \in SUBSET Conns /\ ToSend(id)' \in SUBSET Conns
             /\ ToSend(id)' \in SUBSET (ToSend(id) \cup {n})
             /\ n \in ToSend(id) <=> StillTo(resend[n], n, id)
             /\ n \in ToSend(id)' <=> StillTo(h, n, id)
  BY <1>2 DEF ToSend, StillTo
<1>4. ASSUME NEW id \in Ids
      PROVE  /\ Cardinality(ToSend(id))' <= Cardinality(ToSend(id)) + 1
             /\ (StillTo(h, n, id) => StillTo(resend[n], n, id))
                => Cardinality(ToSend(id))' <= Cardinality(ToSend(id))
             /\ ~StillTo(h, n, id) => Cardinality(ToSend(id))' <= Cardinality(ToSend(id))
             /\ ~StillTo(h, n, id) /\ StillTo(resend[n], n, id)
                => Cardinality(ToSend(id))' + 1 <= Cardinality(ToSend(id))
  <2>1. Cardinality(ToSend(id))' <= Cardinality(ToSend(id)) + 1
    BY <1>3, ConnSets
  <2>2. ASSUME StillTo(resend[n], n, id) PROVE Cardinality(ToSend(id))' <= Cardinality(ToSend(id))
    <3>1. ToSend(id)' \in SUBSET ToSend(id)
      BY <1>3, <2>2
    <3> QED
      BY <1>3, <3>1, ConnSets
  <2>3. ASSUME ~StillTo(h, n, id) PROVE Cardinality(ToSend(id))' <= Cardinality(ToSend(id))
    <3>1. ToSend(id)' \in SUBSET ToSend(id)
      BY <1>3, <2>3
    <3> QED
      BY <1>3, <3>1, ConnSets
  <2>4. ASSUME ~StillTo(h, n, id), StillTo(resend[n], n, id)
        PROVE  Cardinality(ToSend(id))' + 1 <= Cardinality(ToSend(id))
    <3>1. ToSend(id)' \in SUBSET (ToSend(id) \ {n}) /\ n \in ToSend(id)
      BY <1>3, <2>4
    <3> QED
      BY <1>3, <3>1, ConnSets
  <2> QED
    BY <2>1, <2>2, <2>3, <2>4
<1> QED
  BY <1>2, <1>4

(* The registration has its answer.                                        *)
LEMMA RegisteredKeeps ==
    ASSUME ClientInv, NEW n \in Conns, Registered(n)
    PROVE  ClientInv'
<1>1. /\ UNCHANGED <<mode, calls, answers, requestList, sendChan, conn, outs, executed>>
      /\ resend[n].st = "register" /\ answers[n] # << >>
      /\ wire' \in {wire, << >>} /\ replies' \in {replies, << >>}
  BY DEF Registered, Disconnect, doDisconnect, callVars, linkVars
<1>2. TypeOK /\ resend \in [Conns -> Copying]
  BY DEF ClientInv, TypeOK
<1>3. PICK h \in Copying : /\ resend' = [resend EXCEPT ![n] = h] /\ h.left = resend[n].left
                           /\ h.st \in {"copy", "done"}
  <2>1. PICK st \in {"copy", "done"} : resend' = [resend EXCEPT ![n].st = st]
    BY DEF Registered
  <2> DEFINE h == [resend[n] EXCEPT !.st = st]
  <2>2. resend' = [resend EXCEPT ![n] = h]
    BY <1>2, <2>1
  <2>3. h \in Copying /\ h.left = resend[n].left /\ h.st = st
    BY <1>2 DEF Copying
  <2> QED
    BY <2>2, <2>3
<1>4. /\ resend' \in [Conns -> Copying] /\ resend'[n] = h /\ \A m \in Conns \ {n} : resend'[m] = resend[m]
      /\ \A id \in Ids : Cardinality(ToSend(id))' <= Cardinality(ToSend(id))
  <2>1. \A id \in Ids : StillTo(h, n, id) => StillTo(resend[n], n, id)
    BY <1>1, <1>3 DEF StillTo
  <2> QED
    BY <1>2, <1>3, <2>1, GoesOn
<1>5. TypeOK'
  <2>1. wire' \in Seq(Ids) /\ replies' \in Seq([id : Ids, err : Errs])
    BY <1>1, EmptySeq DEF ClientInv, TypeOK
  <2> QED
    BY <1>1, <1>4, <2>1 DEF ClientInv, TypeOK
<1>6. PendingOK' /\ AnsweredOnce'
  <2>1. n \notin Elements(requestList)
    BY <1>1 DEF ClientInv, PendingOK
  <2> QED
    BY <1>1, <1>4, <2>1 DEF ClientInv, PendingOK, AnsweredOnce, Post
<1>7. CopiesOK'
  <2>1. ~(n > conn)
    BY <1>1 DEF ClientInv, CopiesOK
  <2>2. \A m \in Conns : resend'[m].left = resend[m].left
    BY <1>3, <1>4
  <2> QED
    BY <1>1, <1>4, <2>1, <2>2 DEF ClientInv, CopiesOK
<1>8. IdleOK'
  <2>1. \A m \in Conns : resend'[m].left = resend[m].left
    BY <1>3, <1>4
  <2>2. Elements(wire') \subseteq Elements(wire)
    BY <1>1 DEF Elements
  <2> QED
    BY <1>1, <2>1, <2>2, SamePlaces DEF ClientInv, IdleOK
<1>9. CopiesCounted'
  <2>1. Numbers /\ Numbers'
    BY <1>5, NumbersThen, PTL DEF ClientInv
  <2>2. ASSUME NEW id \in Ids PROVE Copies(id)' <= Copies(id)
    <3>1. /\ executed'[id] <= executed[id] /\ InCall(id)' <= InCall(id) /\ Times(sendChan, id)' <= Times(sendChan, id)
          /\ Cardinality(Written(id))' <= Cardinality(Written(id))
      BY <1>1, <2>1, SamePlaces, PartsAreNumbers
    <3>2. Times(wire, id)' <= Times(wire, id)
      <4>1. Times(<< >>, id) = 0 /\ Times(wire, id) \in Nat
        BY <1>2, TimesNumber DEF TypeOK
      <4> QED
        BY <1>1, <4>1
    <3> QED
      BY <1>4, <2>1, <3>1, <3>2, CopiesFall
  <2> QED
    BY <1>1, <1>5, <2>2, CountedStep
<1> QED
  BY <1>5, <1>6, <1>7, <1>8, <1>9 DEF ClientInv

(* The list is copied, without the rescans, which leave it too.            *)
LEMMA resendRequestsKeeps ==
    ASSUME ClientInv, NEW n \in Conns, resendRequests(n)
    PROVE  ClientInv'
<1> DEFINE h == [st |-> "send", left |-> requestList']
<1>1. /\ UNCHANGED <<mode, calls, answers, sendChan, conn, outs, wire, replies, executed>>
      /\ resend[n].st = "copy" /\ resend' = [resend EXCEPT ![n] = h]
      /\ requestList' = Without(requestList, {id \in Ids : method(id) = "rescan"})
  BY DEF resendRequests, linkVars
<1>2. TypeOK /\ requestList \in Seq(Ids) /\ resend \in [Conns -> Copying]
  BY DEF ClientInv, TypeOK
<1>3. /\ requestList' \in Seq(Ids) /\ Distinct(requestList')
      /\ Elements(requestList') \subseteq Elements(requestList)
  BY <1>1, <1>2, WithoutKeeps DEF ClientInv, PendingOK
<1>4. h \in Copying /\ h.left = requestList' /\ h.st = "send"
  BY <1>3 DEF Copying
<1> HIDE DEF h
<1>5. /\ resend' \in [Conns -> Copying] /\ resend'[n] = h /\ \A m \in Conns \ {n} : resend'[m] = resend[m]
      /\ \A id \in Ids : Cardinality(ToSend(id))' <= Cardinality(ToSend(id))
  <2>1. \A id \in Ids : StillTo(h, n, id) => StillTo(resend[n], n, id)
    BY <1>1 DEF StillTo
  <2> QED
    BY <1>1, <1>2, <1>4, <2>1, GoesOn
<1>6. n \notin Elements(requestList)
  BY <1>1 DEF ClientInv, PendingOK
<1>7. TypeOK'
  BY <1>1, <1>3, <1>5 DEF ClientInv, TypeOK
<1>8. PendingOK' /\ AnsweredOnce'
  <2>1. Post => requestList' = << >>
    <3> SUFFICES ASSUME Post PROVE requestList' = << >>
      OBVIOUS
    <3>1. requestList = << >>
      BY DEF ClientInv, PendingOK
    <3>2. Elements(requestList') = {}
      BY <1>3, <3>1 DEF Elements
    <3>3. Len(requestList') = 0
      BY <1>3, <3>2 DEF Elements
    <3> QED
      BY <1>3, <3>3
  <2> QED
    BY <1>1, <1>3, <1>4, <1>5, <2>1 DEF ClientInv, PendingOK, AnsweredOnce, Post
<1>9. CopiesOK'
  <2>1. ~(n > conn)
    BY <1>1 DEF ClientInv, CopiesOK
  <2> QED
    BY <1>1, <1>3, <1>4, <1>5, <1>6, <2>1 DEF ClientInv, CopiesOK
<1>10. IdleOK'
  <2>1. \A id \in Ids : calls[id].st = "idle" => id \notin Elements(requestList')
    BY <1>3 DEF ClientInv, PendingOK
  <2> QED
    BY <1>1, <1>4, <1>5, <2>1, SamePlaces DEF ClientInv, IdleOK
<1>11. CopiesCounted'
  <2>1. Numbers /\ Numbers'
    BY <1>7, NumbersThen, PTL DEF ClientInv
  <2>2. ASSUME NEW id \in Ids PROVE Copies(id)' <= Copies(id)
    <3>1. /\ executed'[id] <= executed[id] /\ InCall(id)' <= InCall(id) /\ Times(sendChan, id)' <= Times(sendChan, id)
          /\ Times(wire, id)' <= Times(wire, id) /\ Cardinality(Written(id))' <= Cardinality(Written(id))
      BY <1>1, <2>1, SamePlaces, PartsAreNumbers
    <3> QED
      BY <1>5, <2>1, <3>1, CopiesFall
  <2> QED
    BY <1>1, <1>7, <2>2, CountedStep
<1> QED
  BY <1>7, <1>8, <1>9, <1>10, <1>11 DEF ClientInv

(* One of the copies goes to the queue, or those that are left are given   *)
(* up; no copy is of the registration of the connection itself.            *)
LEMMA ResendKeeps ==
    ASSUME ClientInv, NEW n \in Conns, Resend(n)
    PROVE  ClientInv'
<1> DEFINE left == resend[n].left
           r == Head(left)
<1>1. /\ UNCHANGED <<mode, calls, answers, requestList, conn, outs, wire, replies, executed>>
      /\ resend[n].st = "send"
  BY DEF Resend, callVars, linkVars
<1>2. TypeOK /\ sendChan \in Seq(Ids) /\ resend \in [Conns -> Copying] /\ left \in Seq(Ids) /\ Distinct(left)
      /\ n \notin Elements(left) /\ resend[n] \in Copying
  BY DEF ClientInv, TypeOK, CopiesOK, Copying
<1>3. CASE sendChan' = sendChan /\ resend' = [resend EXCEPT ![n] = [st |-> "done", left |-> << >>]]
  <2> DEFINE h == [st |-> "done", left |-> << >>]
  <2>1. h \in Copying /\ Elements(h.left) = {} /\ Distinct(h.left) /\ h.st = "done"
    BY EmptySeq DEF Copying, Elements, Distinct
  <2>2. resend' = [resend EXCEPT ![n] = h]
    BY <1>3
  <2> HIDE DEF h
  <2>3. \A id \in Ids : ~StillTo(h, n, id)
    BY <2>1 DEF StillTo
  <2>4. /\ resend' \in [Conns -> Copying] /\ resend'[n] = h /\ \A m \in Conns \ {n} : resend'[m] = resend[m]
        /\ \A id \in Ids : Cardinality(ToSend(id))' <= Cardinality(ToSend(id))
    BY <1>2, <2>1, <2>2, <2>3, GoesOn
  <2>5. TypeOK'
    BY <1>1, <1>3, <2>4 DEF ClientInv, TypeOK
  <2>6. PendingOK' /\ AnsweredOnce'
    BY <1>1, <2>1, <2>4 DEF ClientInv, PendingOK, AnsweredOnce, Post
  <2>7. CopiesOK'
    <3>1. ~(n > conn)
      BY <1>1 DEF ClientInv, CopiesOK
    <3> QED
      BY <1>1, <2>1, <2>4, <3>1 DEF ClientInv, CopiesOK
  <2>8. IdleOK'
    BY <1>1, <1>3, <2>1, <2>4, SamePlaces DEF ClientInv, IdleOK
  <2>9. CopiesCounted'
    <3>1. Numbers /\ Numbers'
      BY <2>5, NumbersThen, PTL DEF ClientInv
    <3>2. ASSUME NEW id \in Ids PROVE Copies(id)' <= Copies(id)
      <4>1. /\ executed'[id] <= executed[id] /\ InCall(id)' <= InCall(id) /\ Times(sendChan, id)' <= Times(sendChan, id)
            /\ Times(wire, id)' <= Times(wire, id) /\ Cardinality(Written(id))' <= Cardinality(Written(id))
        BY <1>1, <1>3, <3>1, SamePlaces, PartsAreNumbers
      <4> QED
        BY <2>4, <3>1, <4>1, CopiesFall
    <3> QED
      BY <1>1, <2>5, <3>2, CountedStep
  <2> QED
    BY <2>5, <2>6, <2>7, <2>8, <2>9 DEF ClientInv
<1>4. CASE left # << >> /\ sendChan' = Append(sendChan, r) /\ resend' = [resend EXCEPT ![n].left = Tail(left)]
  <2> DEFINE h == [resend[n] EXCEPT !.left = Tail(left)]
  <2>1. /\ Tail(left) \in Seq(Ids) /\ r \in Elements(left) /\ r \in Ids
        /\ Elements(left) = Elements(Tail(left)) \cup {r}
        /\ Distinct(Tail(left)) /\ r \notin Elements(Tail(left))
    BY <1>2, <1>4, QueueTail
  <2>2. resend' = [resend EXCEPT ![n] = h] /\ h \in Copying /\ h.left = Tail(left) /\ h.st = "send"
    BY <1>1, <1>2, <1>4, <2>1 DEF Copying
  <2>3. Append(sendChan, r) \in Seq(Ids) /\ Elements(Append(sendChan, r)) = Elements(sendChan) \cup {r}
    BY <1>2, <2>1, QueueAppend
  <2>4. \A id \in Ids : Times(Append(sendChan, r), id) = Times(sendChan, id) + (IF id = r THEN 1 ELSE 0)
    BY <1>2, <2>1, TimesAppend
  <2> HIDE DEF h, r, left
  <2>5. /\ \A id \in Ids : StillTo(h, n, id) => StillTo(resend[n], n, id)
        /\ ~StillTo(h, n, r) /\ StillTo(resend[n], n, r)
    BY <1>2, <2>1, <2>2 DEF StillTo, left
  <2>6. /\ resend' \in [Conns -> Copying] /\ resend'[n] = h /\ \A m \in Conns \ {n} : resend'[m] = resend[m]
        /\ \A id \in Ids : Cardinality(ToSend(id))' <= Cardinality(ToSend(id))
        /\ \A id \in Ids : id = r => Cardinality(ToSend(id))' + 1 <= Cardinality(ToSend(id))
    <3>1. /\ resend' \in [Conns -> Copying] /\ resend'[n] = h /\ \A m \in Conns \ {n} : resend'[m] = resend[m]
          /\ \A id \in Ids : Cardinality(ToSend(id))' <= Cardinality(ToSend(id))
      BY <1>2, <2>2, <2>5, GoesOn
    <3>2. \A id \in Ids : ~StillTo(h, n, id) /\ StillTo(resend[n], n, id)
                           => Cardinality(ToSend(id))' + 1 <= Cardinality(ToSend(id))
      BY <1>2, <2>2, GoesOn
    <3> QED
      BY <2>5, <3>1, <3>2
  <2>7. TypeOK'
    BY <1>1, <1>4, <2>3, <2>6 DEF ClientInv, TypeOK
  <2>8. PendingOK' /\ AnsweredOnce'
    BY <1>1, <2>2, <2>6 DEF ClientInv, PendingOK, AnsweredOnce, Post
  <2>9. CopiesOK'
    <3>1. ~(n > conn)
      BY <1>1 DEF ClientInv, CopiesOK
    <3>2. Distinct(h.left) /\ n \notin Elements(h.left)
      BY <1>2, <2>1, <2>2
    <3> QED
      BY <1>1, <2>6, <3>1, <3>2 DEF ClientInv, CopiesOK
  <2>10. IdleOK'
    <3>1. \A id \in Ids : calls[id].st = "idle" => id \notin Elements(left)
      BY DEF ClientInv, IdleOK, left
    <3>2. \A id \in Ids : calls[id].st = "idle" => id \notin Elements(h.left) /\ id # r
      BY <2>1, <2>2, <3>1
    <3> QED
      BY <1>1, <1>4, <2>3, <2>6, <3>2, SamePlaces DEF ClientInv, IdleOK
  <2>11. CopiesCounted'
    <3>1. Numbers /\ Numbers'
      BY <2>7, NumbersThen, PTL DEF ClientInv
    <3>2. ASSUME NEW id \in Ids PROVE Copies(id)' <= Copies(id)
      <4>1. /\ executed'[id] <= executed[id] /\ InCall(id)' <= InCall(id)
            /\ Times(wire, id)' <= Times(wire, id) /\ Cardinality(Written(id))' <= Cardinality(Written(id))
        BY <1>1, <3>1, SamePlaces, PartsAreNumbers
      <4>2. /\ Times(sendChan, id)' \in Nat /\ Times(sendChan, id) \in Nat
            /\ Cardinality(ToSend(id))' \in Nat /\ Cardinality(ToSend(id)) \in Nat
        BY <3>1, PartsAreNumbers
      <4>3. Times(sendChan, id)' = Times(sendChan, id) + (IF id = r THEN 1 ELSE 0)
        BY <1>4, <2>4
      <4>4. Cardinality(ToSend(id))' + Times(sendChan, id)' <= Cardinality(ToSend(id)) + Times(sendChan, id)
        <5>1. CASE id = r
          <6>1. Times(sendChan, id)' = Times(sendChan, id) + 1
            BY <4>3, <5>1
          <6>2. Cardinality(ToSend(id))' + 1 <= Cardinality(ToSend(id))
            BY <2>6, <5>1
          <6> QED
            BY <4>2, <6>1, <6>2
        <5>2. CASE id # r
          BY <2>6, <4>2, <4>3, <5>2
        <5> QED
          BY <5>1, <5>2
      <4> QED
        BY <3>1, <4>1, <4>4, CopiesFall
    <3> QED
      BY <1>1, <2>7, <3>2, CountedStep
  <2> QED
    BY <2>7, <2>8, <2>9, <2>10, <2>11 DEF ClientInv
<1> QED
  BY <1>3, <1>4 DEF Resend

(* A new connection: one more may send the pending requests again, and the *)
(* bound is one higher.                                                    *)
LEMMA DialKeeps == ClientInv /\ Dial => ClientInv'
<1> SUFFICES ASSUME ClientInv, Dial PROVE ClientInv'
  OBVIOUS
<1>1. UNCHANGED <<mode, calls, answers, requestList, sendChan, wire, replies, executed>>
  BY DEF Dial, callVars
<1>2. TypeOK /\ resend \in [Conns -> Copying] /\ outs \in [Conns -> Handler] /\ conn \in Conns /\ conn \in Nat
  BY ConnFacts DEF ClientInv, TypeOK
<1>3. CASE UNCHANGED <<conn, outs, resend>>
  BY <1>1, <1>2, <1>3, QuietKeeps
<1>4. CASE conn' = conn + 1
  <2> DEFINE n == conn + 1
  <2>1. n \in Conns /\ n \in Nat /\ n # 1
    BY <1>2, <1>4, ClientAssumption DEF Dial, Conns
  <2>2. outs' = [outs EXCEPT ![n] = OutHandler(n)]
    BY <1>2, <1>4 DEF Dial
  <2>3. PICK st \in {"register", "copy"} : resend' = [resend EXCEPT ![n].st = st]
    BY <1>2, <1>4 DEF Dial
  <2> DEFINE h == [resend[n] EXCEPT !.st = st]
  <2>4. resend' = [resend EXCEPT ![n] = h] /\ h \in Copying /\ h.left = resend[n].left /\ h.st = st
    BY <1>2, <2>1, <2>3 DEF Copying
  <2>5. OutHandler(n) \in Handler /\ OutHandler(n).msg = << >>
    BY <2>1 DEF OutHandler, Handler
  <2>6. conn' = n
    BY <1>4
  <2> HIDE DEF h, n
  <2>7. /\ outs' \in [Conns -> Handler]
        /\ \A id \in Ids : Written(id)' \subseteq Written(id)
        /\ \A id \in Ids : Cardinality(Written(id))' <= Cardinality(Written(id))
    <3>1. \A id \in Ids : OutHandler(n).msg # <<id>>
      BY <2>5
    <3> QED
      BY <1>2, <2>1, <2>2, <2>5, <3>1, InHand
  <2>8. /\ resend' \in [Conns -> Copying] /\ resend'[n] = h /\ \A m \in Conns \ {n} : resend'[m] = resend[m]
        /\ \A id \in Ids : Cardinality(ToSend(id))' <= Cardinality(ToSend(id)) + 1
    BY <1>2, <2>1, <2>4, GoesOn
  <2>9. TypeOK'
    BY <1>1, <2>1, <2>6, <2>7, <2>8 DEF ClientInv, TypeOK
  <2>10. n > conn
    BY <1>2 DEF n
  <2>11. calls[n].st = "idle" /\ n \notin Elements(requestList)
    <3>1. n \in Registers
      BY <2>1 DEF Registers
    <3>2. calls[n].st = "idle"
      BY <2>1, <2>10, <3>1 DEF ClientInv, CopiesOK
    <3> QED
      BY <3>2 DEF ClientInv, PendingOK
  <2>12. PendingOK' /\ AnsweredOnce'
    BY <1>1, <2>8, <2>11 DEF ClientInv, PendingOK, AnsweredOnce, Post
  <2>13. CopiesOK'
    <3>1. \A m \in Conns : m > n => m > conn /\ m # n
      BY <1>2, <2>1, <2>10, ConnFacts
    <3>2. Registers \subseteq Conns
      BY DEF Registers
    <3> QED
      BY <1>1, <2>4, <2>6, <2>8, <3>1, <3>2 DEF ClientInv, CopiesOK
  <2>14. IdleOK'
    <3>1. \A m \in Conns : resend'[m].left = resend[m].left
      BY <2>4, <2>8
    <3> QED
      BY <1>1, <2>7, <3>1 DEF ClientInv, IdleOK
  <2>15. CopiesCounted'
    <3> SUFFICES ASSUME NEW id \in Ids, calls'[id].st # "idle"
                 PROVE  calls'[id].at <= conn' /\ Copies(id)' <= 1 + calls'[id].again + (conn' - calls'[id].at)
      BY DEF CopiesCounted
    <3>1. Numbers /\ Numbers'
      BY <2>9, NumbersThen, PTL DEF ClientInv
    <3>2. calls[id] \in Call /\ calls'[id] = calls[id]
      BY <1>1 DEF ClientInv, TypeOK
    <3>3. calls[id].at <= conn /\ Copies(id) <= 1 + calls[id].again + (conn - calls[id].at)
      BY <3>2 DEF ClientInv, CopiesCounted
    <3>4. Copies(id)' <= Copies(id) + 1
      <4>1. /\ executed'[id] = executed[id] /\ InCall(id)' = InCall(id) /\ Times(sendChan, id)' = Times(sendChan, id)
            /\ Times(wire, id)' = Times(wire, id) /\ Cardinality(Written(id))' <= Cardinality(Written(id))
            /\ Cardinality(ToSend(id))' <= Cardinality(ToSend(id)) + 1
        BY <1>1, <2>7, <2>8, SamePlaces
      <4> HIDE <3>2, <3>3
      <4> QED
        BY <3>1, <4>1, PartsAreNumbers DEF Copies
    <3>5. Copies(id) \in Nat /\ Copies(id)' \in Nat /\ n = conn + 1
      BY <3>1 DEF Numbers, n
    <3> QED
      BY <1>2, <2>6, <3>2, <3>3, <3>4, <3>5 DEF Call
  <2> QED
    BY <2>9, <2>12, <2>13, <2>14, <2>15 DEF ClientInv
<1> QED
  BY <1>3, <1>4 DEF Dial

-----------------------------------------------------------------------------
(* Every step keeps the invariant.                                         *)
LEMMA NextClientInv == ClientInv /\ [ClientNext]_clientVars => ClientInv'
<1> SUFFICES ASSUME ClientInv, [ClientNext]_clientVars PROVE ClientInv'
  OBVIOUS
<1>1. CASE UNCHANGED clientVars
  <2>1. outs \in [Conns -> Handler]
    BY DEF ClientInv, TypeOK
  <2> QED
    BY <1>1, <2>1, QuietKeeps DEF clientVars
<1>2. ASSUME NEW id \in Ids, sendRequest(id) \/ sendPostRequest(id) PROVE ClientInv'
  BY <1>2, CallActionsKeep
<1>3. ASSUME NEW id \in Ids, sendMessage(id) \/ QueuePost(id) PROVE ClientInv'
  BY <1>3, QueueActionsKeep
<1>4. CASE UserDisconnect \/ Lose \/ Notice \/ \E n \in Conns : OutQuits(n) \/ InQuits(n)
  BY <1>4, QuietActionsKeep
<1>5. CASE Fail \/ Shutdown
  BY <1>5, AnswerActionsKeep
<1>6. CASE handleSendPostMessage \/ sendPostHandler
  BY <1>6, PostActionsKeep
<1>7. ASSUME NEW n \in Conns, Receive(n) \/ WriteMessage(n) \/ Drain(n) \/ ReadMessage(n) PROVE ClientInv'
  BY <1>7, ReceiveKeeps, WriteMessageKeeps, DrainKeeps, ReadMessageKeeps
<1>8. ASSUME NEW n \in Conns, Registered(n) \/ resendRequests(n) \/ Resend(n) PROVE ClientInv'
  BY <1>8, RegisteredKeeps, resendRequestsKeeps, ResendKeeps
<1> QED
  BY <1>1, <1>2, <1>3, <1>4, <1>5, <1>6, <1>7, <1>8, ExecuteKeeps, DialKeeps DEF ClientNext

(* What is executed is no more than what was under way.                    *)
LEMMA ExecutedIsCounted == ClientInv => NothingTwice
<1> SUFFICES ASSUME ClientInv, NEW id \in Ids
             PROVE  executed[id] <= IF calls[id].st = "idle" THEN 0
                                    ELSE 1 + calls[id].again + (conn - calls[id].at)
  BY DEF ClientInv, NothingTwice, RepeatedOnlyByReconnects
<1>1. CASE calls[id].st = "idle"
  BY <1>1 DEF ClientInv, IdleOK
<1>2. CASE calls[id].st # "idle"
  <2>1. Copies(id) <= 1 + calls[id].again + (conn - calls[id].at) /\ calls[id] \in Call /\ conn \in Nat
    BY <1>2, ConnFacts DEF ClientInv, CopiesCounted, TypeOK
  <2>2. executed[id] <= Copies(id) /\ executed[id] \in Nat /\ Copies(id) \in Nat
    BY CountsAreNumbers DEF ClientInv, Copies
  <2> QED
    BY <1>2, <2>1, <2>2 DEF Call
<1> QED
  BY <1>1, <1>2

(* On a websocket a future gets one answer, and the server executes a      *)
(* request once, and once more for each connection made since and each     *)
(* resendRequests that had not yet copied the list when it was made.       *)
THEOREM CommandsNeverRunTwice == ClientSpec => []NothingTwice
<1>1. ClientSpec => []ClientInv
  BY InitClientInv, NextClientInv, PTL DEF ClientSpec
<1> QED
  BY <1>1, ExecutedIsCounted, PTL

=============================================================================
