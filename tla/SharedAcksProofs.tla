--------------------------- MODULE SharedAcksProofs ---------------------------
(***************************************************************************)
(* Acknowledgements go to whom they belong, for any number of handles,     *)
(* frames and sends, any capacities, failing writes, losses and delays.    *)
(*                                                                         *)
(* Senders take turns (Turns), so sends are published and written in the   *)
(* order of their tokens, and acknowledgements come in that order          *)
(* (Numbered, InOrder).  Of a frame of which none was lost, failed or      *)
(* lapsed, the sends pending are those still to be acknowledged (AddsUp):  *)
(* the oldest of them is the one the next acknowledgement is for.          *)
(***************************************************************************)
EXTENDS SharedAcks, FiniteSetTheorems, NaturalsInduction, WellFoundedInduction, TLAPS

-------------------------------------------------------------------------------
(* The invariant *)

Ingresses == [tx_ack : BOOLEAN, frame : Frames, src : Handles \cup {Nobody}, token : Nat]
Slots == [seq : Nat, frame : Frames \cup {Nobody}, origin : Handles \cup {Nobody}, src : Handles \cup {Nobody}]
Callers == [pc : {"idle", "locked", "committed", "emitted"}, frame : Frames \cup {Nobody}, token : Nat]

Shape ==
    /\ pending \subseteq PendingSends /\ IsFiniteSet(pending) /\ Cardinality(pending) <= PendingCap
    /\ rxq \in Seq(Ingresses) /\ onwire \in Seq(Ingresses)
    /\ caller \in [Handles -> Callers] /\ send_mu \in Handles \cup {Nobody}
    /\ ring \in [0 .. (Capacity - 1) -> Slots] /\ heard \in [Handles -> Slots]
    /\ next_seq \in Nat \ {0} /\ cursor \in [Handles -> Nat] /\ closed \subseteq Handles
    /\ next_send_token \in Nat /\ committed \in Nat /\ matched \in Nat /\ cancelled \in Nat
    /\ unmatched_tx_acks \in Nat /\ expired_tx_acks \in Nat /\ expired_failed_sends \in Nat

\* The one sender at work has send_mu and the latest token.
Turns ==
    \A h \in Handles : caller[h].pc # "idle" =>
        send_mu = h /\ caller[h].token = next_send_token /\ caller[h].frame \in Frames

\* The acknowledgements to come: those read from the device's stream, and those of frames still on
\* the wire.
Acks == {rxq[i] : i \in {j \in DOMAIN rxq : rxq[j].tx_ack}} \cup {onwire[i] : i \in DOMAIN onwire}

\* `pending` stands in the order of tokens, and every token in it and on the wire was given out; that
\* of the sender at work is in neither before its time.
Numbered ==
    /\ \A e \in pending : e.token <= next_send_token /\ e.nr <= committed
    /\ \A d, e \in pending : (d.nr < e.nr <=> d.token < e.token) /\ (d.token = e.token => d = e)
    /\ \A x \in Acks : x.token <= next_send_token
    /\ \A h \in Handles :
          /\ caller[h].pc = "locked" => \A e \in pending : e.token # next_send_token
          /\ caller[h].pc \in {"locked", "committed"} => \A x \in Acks : x.token # next_send_token

\* They come in the order of tokens too.
Rising(q) == \A i, j \in DOMAIN q : i < j /\ q[i].tx_ack /\ q[j].tx_ack => q[i].token < q[j].token
InOrder ==
    /\ Rising(rxq) /\ Rising(onwire) /\ \A j \in DOMAIN onwire : onwire[j].tx_ack
    /\ \A i \in DOMAIN rxq, j \in DOMAIN onwire : rxq[i].tx_ack => rxq[i].token < onwire[j].token
    /\ \A i \in DOMAIN rxq : ~rxq[i].tx_ack => rxq[i].src = Nobody

\* Of a frame whose acknowledgements add up each one to come has its send among the pending ones,
\* and each pending one is acknowledged yet, but for the one about to be written.
Sent(token, frame, origin) == \E e \in pending : e.token = token /\ e.frame = frame /\ e.origin = origin
Writes(e) == \E h \in Handles : caller[h].pc = "committed" /\ caller[h].token = e.token /\ caller[h].frame = e.frame
Acked(e) == \E x \in Acks : x.token = e.token /\ x.frame = e.frame
AddsUp ==
    /\ \A x \in Acks : x.frame \notin tainted => Sent(x.token, x.frame, x.src)
    /\ \A h \in Handles : caller[h].pc = "committed" /\ caller[h].frame \notin tainted =>
          Sent(caller[h].token, caller[h].frame, h)
    /\ \A e \in pending : e.frame \notin tainted => Writes(e) \/ Acked(e)

\* What is in the ring, and what was read from it.
Credited == AttributionExact /\ NoSelfEcho

IInv == Shape /\ Turns /\ Numbered /\ InOrder /\ AddsUp /\ Credited /\ EverySendAccounted

-------------------------------------------------------------------------------
(* Lists and sets of pending sends *)

\* Of some pending sends one stands first.
LEMMA OldestIsOne ==
    ASSUME NEW S, S \subseteq PendingSends, S # {}
    PROVE  Oldest(S) \in S /\ \A d \in S : Oldest(S).nr <= d.nr
<1> DEFINE T == {e.nr : e \in S}
<1>1. T \subseteq Nat /\ T # {}
    BY DEF PendingSends
<1>2. PICK x \in T : \A y \in T : ~(<<y, x>> \in OpToRel(<, Nat))
    BY <1>1, NatLessThanWellFounded, WFMin
<1>3. \A y \in T : <<y, x>> \in Nat \X Nat /\ <<y, x>>[1] = y /\ <<y, x>>[2] = x
    BY <1>1
<1>4. \A y \in T : ~(y < x)
    BY <1>2, <1>3, Zenon DEF OpToRel
<1>5. PICK e \in S : x = e.nr
    BY <1>2
<1>6. \A d \in S : e.nr <= d.nr
  <2> SUFFICES ASSUME NEW d \in S PROVE e.nr <= d.nr
      OBVIOUS
  <2>1. ~(d.nr < e.nr) /\ d.nr \in Nat /\ e.nr \in Nat
      BY <1>1, <1>4, <1>5
  <2> QED BY <2>1
<1> QED BY <1>6 DEF Oldest

\* A finite set, some of its elements and the others.
LEMMA Parts ==
    ASSUME NEW S, IsFiniteSet(S), NEW T, T \subseteq S
    PROVE  /\ IsFiniteSet(T) /\ IsFiniteSet(S \ T)
           /\ Cardinality(S) = Cardinality(T) + Cardinality(S \ T)
           /\ Cardinality(S) \in Nat /\ Cardinality(T) \in Nat /\ Cardinality(S \ T) \in Nat
<1>1. IsFiniteSet(T) /\ IsFiniteSet(S \ T)
    BY FS_Subset
<1>2. Cardinality(S) \in Nat /\ Cardinality(T) \in Nat /\ Cardinality(S \ T) \in Nat
    BY <1>1, FS_CardinalityType
<1>3. T \cup (S \ T) = S /\ T \cap (S \ T) = {}
    OBVIOUS
<1>4. Cardinality(T \cup (S \ T)) = Cardinality(T) + Cardinality(S \ T) - Cardinality(T \cap (S \ T))
    BY <1>1, FS_Union
<1>5. Cardinality(T \cap (S \ T)) = 0
    BY <1>3, FS_EmptySet
<1> QED BY <1>1, <1>2, <1>3, <1>4, <1>5

\* Whatever leaves without an acknowledgement is counted, once.
LEMMA Retired ==
    ASSUME NEW gone, IsFiniteSet(gone), retire_pending(gone), expired_tx_acks \in Nat, expired_failed_sends \in Nat
    PROVE  /\ expired_tx_acks' \in Nat /\ expired_failed_sends' \in Nat /\ Cardinality(gone) \in Nat
           /\ expired_tx_acks' + expired_failed_sends' = expired_tx_acks + expired_failed_sends + Cardinality(gone)
           /\ tainted' = tainted \cup FramesOf(gone)
<1>1. Failed(gone) \subseteq gone
    BY DEF Failed
<1>2. /\ Cardinality(gone) = Cardinality(Failed(gone)) + Cardinality(gone \ Failed(gone))
      /\ Cardinality(gone) \in Nat /\ Cardinality(Failed(gone)) \in Nat /\ Cardinality(gone \ Failed(gone)) \in Nat
    BY <1>1, Parts
<1>3. /\ expired_failed_sends' = expired_failed_sends + Cardinality(Failed(gone))
      /\ expired_tx_acks' = expired_tx_acks + Cardinality(gone \ Failed(gone))
      /\ tainted' = tainted \cup FramesOf(gone)
    BY DEF retire_pending
<1> QED BY <1>2, <1>3

\* One send is stamped, or its deadline passes: it stays what and where it is.
Restamps(d, e) ==
    /\ d \in pending /\ e \in PendingSends /\ pending' = (pending \ {d}) \cup {e}
    /\ e.nr = d.nr /\ e.token = d.token /\ e.origin = d.origin /\ e.frame = d.frame

\* It is the same sends that are pending.
SamePending ==
    /\ pending' \subseteq PendingSends /\ IsFiniteSet(pending') /\ Cardinality(pending') = Cardinality(pending)
    /\ \A e \in pending' : \E d \in pending :
          e.nr = d.nr /\ e.token = d.token /\ e.origin = d.origin /\ e.frame = d.frame
    /\ \A d \in pending : \E e \in pending' :
          e.nr = d.nr /\ e.token = d.token /\ e.origin = d.origin /\ e.frame = d.frame
    /\ \A d, e \in pending' : d.token = e.token => d = e

LEMMA RestampsSame ==
    ASSUME Shape, Numbered, NEW d, NEW e, Restamps(d, e)
    PROVE  SamePending
<1>1. IsFiniteSet(pending) /\ pending \subseteq PendingSends /\ \A a, b \in pending : a.token = b.token => a = b
    BY DEF Shape, Numbered
<1>2. d \in pending /\ e \in PendingSends /\ pending' = (pending \ {d}) \cup {e}
    BY DEF Restamps
<1>3. e \notin pending \ {d}
    BY <1>1, <1>2 DEF Restamps
<1>4. Cardinality(pending \ {d}) = Cardinality(pending) - 1 /\ IsFiniteSet(pending \ {d})
    BY <1>1, <1>2, FS_RemoveElement
<1>5. Cardinality(pending') = Cardinality(pending \ {d}) + 1 /\ IsFiniteSet(pending')
    BY <1>2, <1>3, <1>4, FS_AddElement
<1>6. Cardinality(pending) \in Nat
    BY <1>1, FS_CardinalityType
<1>7. Cardinality(pending') = Cardinality(pending)
    BY <1>4, <1>5, <1>6
<1> QED BY <1>1, <1>2, <1>5, <1>7 DEF Restamps, SamePending

LEMMA Unstamped ==
    ASSUME Shape, Numbered, UNCHANGED pending PROVE SamePending
BY DEF Shape, Numbered, SamePending

\* start_pending_window stamps the send of a token, if it is pending still.
LEMMA WindowSame ==
    ASSUME Shape, Numbered, NEW token, NEW failed \in BOOLEAN,
           pending' = start_pending_window(pending, token, failed)
    PROVE  SamePending
<1>1. pending \subseteq PendingSends /\ \A a, b \in pending : a.token = b.token => a = b
    BY DEF Shape, Numbered
<1>2. CASE \A e \in pending : e.token # token
  <2>1. pending' = pending
      BY <1>2 DEF start_pending_window
  <2> QED BY <2>1, Unstamped
<1>3. ASSUME NEW d \in pending, d.token = token PROVE SamePending
  <2> DEFINE e == [d EXCEPT !.life = "armed", !.failed = failed]
  <2>1. {c \in pending : c.token = token} = {d} /\ {c \in pending : c.token # token} = pending \ {d}
      BY <1>1, <1>3
  <2>2. pending' = (pending \ {d}) \cup {e}
      BY <2>1 DEF start_pending_window
  <2>3. e \in PendingSends /\ e.nr = d.nr /\ e.token = d.token /\ e.origin = d.origin /\ e.frame = d.frame
      BY <1>1, <1>3 DEF PendingSends
  <2>4. Restamps(d, e)
      BY <1>3, <2>2, <2>3 DEF Restamps
  <2> QED BY <2>4, RestampsSame
<1> QED BY <1>2, <1>3

-------------------------------------------------------------------------------
(* The streams *)

LEMMA Appended ==
    ASSUME NEW S, NEW q \in Seq(S), NEW x \in S
    PROVE  /\ Append(q, x) \in Seq(S) /\ DOMAIN q = 1 .. Len(q) /\ Len(q) \in Nat
           /\ DOMAIN Append(q, x) = 1 .. (Len(q) + 1)
           /\ \A i \in DOMAIN q : Append(q, x)[i] = q[i]
           /\ Append(q, x)[Len(q) + 1] = x
OBVIOUS

LEMMA Dropped ==
    ASSUME NEW S, NEW q \in Seq(S), q # <<>>
    PROVE  /\ Tail(q) \in Seq(S) /\ 1 \in DOMAIN q /\ Head(q) = q[1] /\ Head(q) \in S
           /\ DOMAIN q \subseteq Nat
           /\ \A i \in DOMAIN Tail(q) : i + 1 \in DOMAIN q /\ Tail(q)[i] = q[i + 1] /\ i \in Nat /\ i >= 1
           /\ \A i \in DOMAIN q : i = 1 \/ ((i - 1) \in DOMAIN Tail(q) /\ Tail(q)[i - 1] = q[i])
OBVIOUS

\* The acknowledgements to come are records of ingress.
LEMMA AcksAre ==
    ASSUME Shape, InOrder
    PROVE  \A x \in Acks : x \in Ingresses /\ x.tx_ack /\ x.token \in Nat /\ x.frame \in Frames
<1>1. \A i \in DOMAIN rxq : rxq[i] \in Ingresses
    BY DEF Shape
<1>2. \A i \in DOMAIN onwire : onwire[i] \in Ingresses /\ onwire[i].tx_ack
    BY DEF Shape, InOrder
<1> QED BY <1>1, <1>2 DEF Acks, Ingresses

\* No acknowledgement: the frame of another node, read.
LEMMA ReceiveAcks ==
    ASSUME Shape, InOrder, Numbered, NEW f \in Frames, Receive(f)
    PROVE  Acks' = Acks /\ InOrder' /\ rxq' \in Seq(Ingresses)
<1> DEFINE x == SharedIngress(FALSE, f, Nobody, 0)
<1>1. x \in Ingresses /\ ~x.tx_ack /\ x.src = Nobody
    BY DEF SharedIngress, Ingresses
<1>2. rxq \in Seq(Ingresses) /\ rxq' = Append(rxq, x) /\ onwire' = onwire
    BY DEF Shape, Receive, ingress
<1> HIDE DEF x
<1>3. /\ rxq' \in Seq(Ingresses) /\ DOMAIN rxq = 1 .. Len(rxq) /\ Len(rxq) \in Nat
      /\ DOMAIN rxq' = 1 .. (Len(rxq) + 1) /\ (\A i \in DOMAIN rxq : rxq'[i] = rxq[i]) /\ rxq'[Len(rxq) + 1] = x
    BY <1>1, <1>2, Appended
<1>4. \A i \in DOMAIN rxq' : i \in DOMAIN rxq \/ rxq'[i] = x
    BY <1>3
<1>5. \A i \in DOMAIN rxq : i \in DOMAIN rxq'
    BY <1>3
<1>6. {rxq'[i] : i \in {j \in DOMAIN rxq' : rxq'[j].tx_ack}} = {rxq[i] : i \in {j \in DOMAIN rxq : rxq[j].tx_ack}}
    BY <1>1, <1>3, <1>4, <1>5
<1>7. Acks' = Acks
    BY <1>2, <1>6 DEF Acks
<1>8. Rising(rxq)'
    BY <1>1, <1>3, <1>4 DEF InOrder, Rising
<1>9. InOrder'
    BY <1>1, <1>2, <1>3, <1>4, <1>8 DEF InOrder, Rising
<1> QED BY <1>3, <1>7, <1>9

\* A frame reaches the wire: its acknowledgement is the latest of those to come.
LEMMA EmitAcks ==
    ASSUME Shape, Turns, Numbered, InOrder, NEW h \in Handles, Emit(h)
    PROVE  LET x == SharedIngress(TRUE, caller[h].frame, h, caller[h].token) IN
           Acks' = Acks \cup {x} /\ InOrder' /\ onwire' \in Seq(Ingresses)
<1> DEFINE x == SharedIngress(TRUE, caller[h].frame, h, caller[h].token)
<1>1. /\ caller[h].pc = "committed" /\ caller[h].token = next_send_token /\ caller[h].frame \in Frames
      /\ next_send_token \in Nat
    BY DEF Emit, Turns, Shape
<1>2. x \in Ingresses /\ x.tx_ack /\ x.token = next_send_token
    BY <1>1 DEF SharedIngress, Ingresses
<1>3. onwire \in Seq(Ingresses) /\ onwire' = Append(onwire, x) /\ rxq' = rxq
    BY DEF Shape, Emit
<1>4. \A y \in Acks : y.token < next_send_token
  <2>1. \A y \in Acks : y.token \in Nat
      BY AcksAre
  <2>2. \A y \in Acks : y.token <= next_send_token /\ y.token # next_send_token
      BY <1>1 DEF Numbered
  <2> QED BY <1>1, <2>1, <2>2
<1> HIDE DEF x
<1>5. /\ onwire' \in Seq(Ingresses) /\ DOMAIN onwire = 1 .. Len(onwire) /\ Len(onwire) \in Nat
      /\ DOMAIN onwire' = 1 .. (Len(onwire) + 1) /\ (\A i \in DOMAIN onwire : onwire'[i] = onwire[i])
      /\ onwire'[Len(onwire) + 1] = x
    BY <1>2, <1>3, Appended
<1>6. \A i \in DOMAIN onwire' : i \in DOMAIN onwire \/ (i = Len(onwire) + 1 /\ onwire'[i] = x)
    BY <1>5
<1>7. (\A i \in DOMAIN onwire : i \in DOMAIN onwire') /\ Len(onwire) + 1 \in DOMAIN onwire'
    BY <1>5
<1>8. {onwire'[i] : i \in DOMAIN onwire'} = {onwire[i] : i \in DOMAIN onwire} \cup {x}
    BY <1>5, <1>6, <1>7
<1>9. Acks' = Acks \cup {x}
    BY <1>3, <1>8 DEF Acks
<1>10. /\ \A i \in DOMAIN onwire : onwire[i].token < x.token
       /\ \A i \in DOMAIN rxq : rxq[i].tx_ack => rxq[i].token < x.token
    BY <1>2, <1>4 DEF Acks
<1>11. Rising(onwire)'
  <2> SUFFICES ASSUME NEW i \in DOMAIN onwire', NEW j \in DOMAIN onwire', i < j
               PROVE  onwire'[i].token < onwire'[j].token
      BY DEF Rising
  <2>1. i \in DOMAIN onwire /\ (j \in DOMAIN onwire \/ onwire'[j] = x)
      BY <1>5, <1>6
  <2>2. CASE j \in DOMAIN onwire
      BY <1>5, <2>1, <2>2 DEF InOrder, Rising
  <2>3. CASE onwire'[j] = x
      BY <1>5, <1>10, <2>1, <2>3
  <2> QED BY <2>1, <2>2, <2>3
<1>12. InOrder'
    BY <1>2, <1>3, <1>5, <1>6, <1>10, <1>11 DEF InOrder, Rising
<1> QED BY <1>5, <1>9, <1>12 DEF x

\* The device acknowledges: the acknowledgement to come is the same one.
LEMMA AcknowledgeAcks ==
    ASSUME Shape, InOrder, Acknowledge
    PROVE  Acks' = Acks /\ InOrder' /\ onwire' \in Seq(Ingresses) /\ rxq' \in Seq(Ingresses)
<1> DEFINE x == Head(onwire)
<1>1. /\ onwire \in Seq(Ingresses) /\ onwire # <<>> /\ rxq \in Seq(Ingresses)
      /\ onwire' = Tail(onwire) /\ rxq' = Append(rxq, x)
    BY DEF Shape, Acknowledge
<1>2. /\ onwire' \in Seq(Ingresses) /\ 1 \in DOMAIN onwire /\ x = onwire[1] /\ x \in Ingresses
      /\ DOMAIN onwire \subseteq Nat
      /\ \A i \in DOMAIN onwire' : i + 1 \in DOMAIN onwire /\ onwire'[i] = onwire[i + 1] /\ i \in Nat /\ i >= 1
      /\ \A i \in DOMAIN onwire : i = 1 \/ ((i - 1) \in DOMAIN onwire' /\ onwire'[i - 1] = onwire[i])
    BY <1>1, Dropped
<1>3. x.tx_ack
    BY <1>2 DEF InOrder
<1> HIDE DEF x
<1>4. /\ rxq' \in Seq(Ingresses) /\ DOMAIN rxq = 1 .. Len(rxq) /\ Len(rxq) \in Nat
      /\ DOMAIN rxq' = 1 .. (Len(rxq) + 1) /\ (\A i \in DOMAIN rxq : rxq'[i] = rxq[i]) /\ rxq'[Len(rxq) + 1] = x
    BY <1>1, <1>2, Appended
<1>5. /\ \A i \in DOMAIN rxq' : i \in DOMAIN rxq \/ (i = Len(rxq) + 1 /\ rxq'[i] = x)
      /\ (\A i \in DOMAIN rxq : i \in DOMAIN rxq') /\ Len(rxq) + 1 \in DOMAIN rxq'
    BY <1>4
<1>6. {rxq'[i] : i \in {j \in DOMAIN rxq' : rxq'[j].tx_ack}}
        = {rxq[i] : i \in {j \in DOMAIN rxq : rxq[j].tx_ack}} \cup {x}
    BY <1>3, <1>4, <1>5
<1>7. {onwire[i] : i \in DOMAIN onwire} = {onwire'[i] : i \in DOMAIN onwire'} \cup {x}
    BY <1>2
<1>8. Acks' = Acks
    BY <1>6, <1>7 DEF Acks
<1>9. Rising(rxq)'
  <2> SUFFICES ASSUME NEW i \in DOMAIN rxq', NEW j \in DOMAIN rxq', i < j, rxq'[i].tx_ack, rxq'[j].tx_ack
               PROVE  rxq'[i].token < rxq'[j].token
      BY DEF Rising
  <2>1. i \in DOMAIN rxq /\ rxq'[i] = rxq[i] /\ (j \in DOMAIN rxq \/ rxq'[j] = x)
      BY <1>4, <1>5
  <2>2. CASE j \in DOMAIN rxq
      BY <1>4, <2>1, <2>2 DEF InOrder, Rising
  <2>3. CASE rxq'[j] = x
      BY <1>2, <2>1, <2>3 DEF InOrder
  <2> QED BY <2>1, <2>2, <2>3
<1>10. Rising(onwire)'
  <2> SUFFICES ASSUME NEW i \in DOMAIN onwire', NEW j \in DOMAIN onwire', i < j
               PROVE  onwire'[i].token < onwire'[j].token
      BY DEF Rising
  <2>1. /\ i + 1 \in DOMAIN onwire /\ j + 1 \in DOMAIN onwire /\ i + 1 < j + 1
        /\ onwire'[i] = onwire[i + 1] /\ onwire'[j] = onwire[j + 1]
      BY <1>2
  <2> QED BY <2>1 DEF InOrder, Rising
<1>11. \A j \in DOMAIN onwire' : onwire'[j].tx_ack
    BY <1>2 DEF InOrder
<1>12. \A i \in DOMAIN rxq', j \in DOMAIN onwire' : rxq'[i].tx_ack => rxq'[i].token < onwire'[j].token
  <2> SUFFICES ASSUME NEW i \in DOMAIN rxq', NEW j \in DOMAIN onwire', rxq'[i].tx_ack
               PROVE  rxq'[i].token < onwire'[j].token
      OBVIOUS
  <2>1. j + 1 \in DOMAIN onwire /\ onwire'[j] = onwire[j + 1] /\ 1 < j + 1
      BY <1>2
  <2>2. CASE i \in DOMAIN rxq
      BY <1>4, <2>1, <2>2 DEF InOrder
  <2>3. CASE rxq'[i] = x
      BY <1>2, <2>1, <2>3 DEF InOrder, Rising
  <2> QED BY <1>5, <2>2, <2>3
<1>13. \A i \in DOMAIN rxq' : ~rxq'[i].tx_ack => rxq'[i].src = Nobody
    BY <1>3, <1>4, <1>5 DEF InOrder
<1>14. InOrder'
    BY <1>9, <1>10, <1>11, <1>12, <1>13 DEF InOrder
<1> QED BY <1>2, <1>4, <1>8, <1>14

\* The device loses one: all others still come.
LEMMA LoseAcks ==
    ASSUME Shape, InOrder, Lose
    PROVE  /\ Acks' \subseteq Acks /\ InOrder' /\ onwire' \in Seq(Ingresses)
           /\ \A x \in Acks : x \in Acks' \/ x = Head(onwire)
<1>1. onwire \in Seq(Ingresses) /\ onwire # <<>> /\ onwire' = Tail(onwire) /\ rxq' = rxq
    BY DEF Shape, Lose
<1>2. /\ onwire' \in Seq(Ingresses) /\ 1 \in DOMAIN onwire /\ Head(onwire) = onwire[1]
      /\ DOMAIN onwire \subseteq Nat
      /\ \A i \in DOMAIN onwire' : i + 1 \in DOMAIN onwire /\ onwire'[i] = onwire[i + 1] /\ i \in Nat /\ i >= 1
      /\ \A i \in DOMAIN onwire : i = 1 \/ ((i - 1) \in DOMAIN onwire' /\ onwire'[i - 1] = onwire[i])
    BY <1>1, Dropped
<1>3. /\ {onwire'[i] : i \in DOMAIN onwire'} \subseteq {onwire[i] : i \in DOMAIN onwire}
      /\ \A x \in {onwire[i] : i \in DOMAIN onwire} : x \in {onwire'[i] : i \in DOMAIN onwire'} \/ x = Head(onwire)
    BY <1>2
<1>4. Acks' \subseteq Acks /\ \A x \in Acks : x \in Acks' \/ x = Head(onwire)
    BY <1>1, <1>3 DEF Acks
<1>5. Rising(onwire)'
  <2> SUFFICES ASSUME NEW i \in DOMAIN onwire', NEW j \in DOMAIN onwire', i < j
               PROVE  onwire'[i].token < onwire'[j].token
      BY DEF Rising
  <2>1. /\ i + 1 \in DOMAIN onwire /\ j + 1 \in DOMAIN onwire /\ i + 1 < j + 1
        /\ onwire'[i] = onwire[i + 1] /\ onwire'[j] = onwire[j + 1]
      BY <1>2
  <2> QED BY <2>1 DEF InOrder, Rising
<1>6. InOrder'
    BY <1>1, <1>2, <1>5 DEF InOrder, Rising
<1> QED BY <1>2, <1>4, <1>6

\* The reader takes the next record: if it is an acknowledgement it is the earliest to come.
LEMMA IngressAcks ==
    ASSUME Shape, InOrder, rxq # <<>>, rxq' = Tail(rxq), UNCHANGED onwire
    PROVE  /\ Acks' \subseteq Acks /\ InOrder' /\ rxq' \in Seq(Ingresses) /\ Head(rxq) \in Ingresses
           /\ \A x \in Acks : x \in Acks' \/ (x = Head(rxq) /\ x.tx_ack)
           /\ Head(rxq).tx_ack => Head(rxq) \in Acks /\ \A x \in Acks' : Head(rxq).token < x.token
           /\ ~Head(rxq).tx_ack => Head(rxq).src = Nobody
<1>1. rxq \in Seq(Ingresses)
    BY DEF Shape
<1>2. /\ rxq' \in Seq(Ingresses) /\ 1 \in DOMAIN rxq /\ Head(rxq) = rxq[1] /\ Head(rxq) \in Ingresses
      /\ DOMAIN rxq \subseteq Nat
      /\ \A i \in DOMAIN rxq' : i + 1 \in DOMAIN rxq /\ rxq'[i] = rxq[i + 1] /\ i \in Nat /\ i >= 1
      /\ \A i \in DOMAIN rxq : i = 1 \/ ((i - 1) \in DOMAIN rxq' /\ rxq'[i - 1] = rxq[i])
    BY <1>1, Dropped
<1> DEFINE Of(q) == {q[i] : i \in {j \in DOMAIN q : q[j].tx_ack}}
<1>3. Of(rxq') \subseteq Of(rxq) /\ \A x \in Of(rxq) : x \in Of(rxq') \/ (x = Head(rxq) /\ x.tx_ack)
  <2>1. ASSUME NEW x \in Of(rxq') PROVE x \in Of(rxq)
    <3>1. PICK i \in DOMAIN rxq' : x = rxq'[i] /\ x.tx_ack
        BY <2>1
    <3>2. i + 1 \in DOMAIN rxq /\ x = rxq[i + 1]
        BY <1>2, <3>1
    <3> QED BY <3>1, <3>2
  <2>2. ASSUME NEW x \in Of(rxq), x # Head(rxq) PROVE x \in Of(rxq')
    <3>1. PICK i \in DOMAIN rxq : x = rxq[i] /\ x.tx_ack
        BY <2>2
    <3>2. (i - 1) \in DOMAIN rxq' /\ rxq'[i - 1] = x
        BY <1>2, <2>2, <3>1
    <3> QED BY <3>1, <3>2
  <2>3. \A x \in Of(rxq) : x.tx_ack
      OBVIOUS
  <2> QED BY <2>1, <2>2, <2>3
<1>4. Acks = Of(rxq) \cup {onwire[i] : i \in DOMAIN onwire} /\ Acks' = Of(rxq') \cup {onwire[i] : i \in DOMAIN onwire}
    BY DEF Acks
<1>5. Acks' \subseteq Acks /\ \A x \in Acks : x \in Acks' \/ (x = Head(rxq) /\ x.tx_ack)
    BY <1>3, <1>4
<1>6. ASSUME Head(rxq).tx_ack PROVE Head(rxq) \in Acks /\ \A x \in Acks' : Head(rxq).token < x.token
  <2>1. Head(rxq) \in Acks
      BY <1>2, <1>6 DEF Acks
  <2>2. ASSUME NEW x \in Of(rxq') PROVE Head(rxq).token < x.token
    <3>1. PICK i \in DOMAIN rxq' : x = rxq'[i] /\ x.tx_ack
        BY <2>2
    <3>2. i + 1 \in DOMAIN rxq /\ x = rxq[i + 1] /\ 1 < i + 1
        BY <1>2, <3>1
    <3> QED BY <1>2, <1>6, <3>1, <3>2 DEF InOrder, Rising
  <2>3. ASSUME NEW j \in DOMAIN onwire PROVE Head(rxq).token < onwire[j].token
      BY <1>2, <1>6 DEF InOrder
  <2> QED BY <1>4, <2>1, <2>2, <2>3
<1>7. Rising(rxq)'
  <2> SUFFICES ASSUME NEW i \in DOMAIN rxq', NEW j \in DOMAIN rxq', i < j, rxq'[i].tx_ack, rxq'[j].tx_ack
               PROVE  rxq'[i].token < rxq'[j].token
      BY DEF Rising
  <2>1. /\ i + 1 \in DOMAIN rxq /\ j + 1 \in DOMAIN rxq /\ i + 1 < j + 1
        /\ rxq'[i] = rxq[i + 1] /\ rxq'[j] = rxq[j + 1]
      BY <1>2
  <2> QED BY <2>1 DEF InOrder, Rising
<1>8. InOrder'
    BY <1>2, <1>7 DEF InOrder, Rising
<1> QED BY <1>2, <1>5, <1>6, <1>8 DEF InOrder

-------------------------------------------------------------------------------
(* What becomes of the pending sends *)

LEMMA LapseSame == ASSUME Shape, Numbered, Lapse PROVE SamePending
<1>1. PICK d \in pending : d.life = "armed" /\ pending' = (pending \ {d}) \cup {[d EXCEPT !.life = "due"]}
    BY DEF Lapse
<1> DEFINE e == [d EXCEPT !.life = "due"]
<1>2. d \in PendingSends
    BY DEF Shape
<1>3. e \in PendingSends /\ e.nr = d.nr /\ e.token = d.token /\ e.origin = d.origin /\ e.frame = d.frame
    BY <1>2 DEF PendingSends
<1>4. Restamps(d, e)
    BY <1>1, <1>3 DEF Restamps
<1> QED BY <1>4, RestampsSame

\* A send that was retired has left; one that is kept is not due.
LEMMA KeptAre ==
    /\ Kept(pending) = pending \ Expired(pending) /\ Expired(pending) \subseteq pending
    /\ Expired(pending) = {e \in pending : e.life = "due"}
BY DEF Kept, Expired

Entry(h) == [nr |-> committed + 1, token |-> caller[h].token, origin |-> h, frame |-> caller[h].frame,
             life |-> "inflight", failed |-> FALSE]

\* A commit retires some sends, which makes room for its own.
LEMMA CommitPending ==
    ASSUME Shape, Turns, Numbered, NEW h \in Handles, Commit(h)
    PROVE  /\ Entry(h) \in PendingSends /\ Entry(h) \notin pending
           /\ \E gone \in SUBSET pending :
                 /\ pending' = (pending \ gone) \cup {Entry(h)} /\ retire_pending(gone)
                 /\ Cardinality(pending \ gone) < PendingCap
<1> DEFINE kept == Kept(pending)
           out  == IF Full(kept) THEN {Oldest(kept)} ELSE {}
           gone == Expired(pending) \cup out
<1>1. /\ caller[h].pc = "locked" /\ caller[h].token = next_send_token /\ caller[h].frame \in Frames
      /\ next_send_token \in Nat /\ committed \in Nat
    BY DEF Commit, Turns, Shape
<1>2. \A e \in pending : e.token # next_send_token
    BY <1>1 DEF Numbered
<1>3. Entry(h) \in PendingSends /\ Entry(h) \notin pending
    BY <1>1, <1>2 DEF Entry, PendingSends
<1>4. pending' = (kept \ out) \cup {Entry(h)} /\ retire_pending(gone)
    BY DEF Commit, Entry
<1>5. pending \subseteq PendingSends /\ IsFiniteSet(pending) /\ Cardinality(pending) <= PendingCap /\ PendingCap \in Nat \ {0}
    BY AcksAssumption DEF Shape
<1>6. kept \subseteq pending /\ kept = pending \ Expired(pending) /\ Expired(pending) \subseteq pending
    BY KeptAre
<1>7. IsFiniteSet(kept) /\ Cardinality(kept) \in Nat /\ Cardinality(kept) <= Cardinality(pending) /\ Cardinality(pending) \in Nat
    BY <1>5, <1>6, FS_Subset, FS_CardinalityType
<1>8. out \subseteq kept /\ Cardinality(kept \ out) < PendingCap
  <2>1. CASE Full(kept)
    <3>1. Cardinality(kept) >= PendingCap
        BY <2>1 DEF Full
    <3>2. kept # {}
        BY <1>5, <1>7, <3>1, FS_EmptySet
    <3>3. Oldest(kept) \in kept
        BY <1>5, <1>6, <3>2, OldestIsOne
    <3>4. Cardinality(kept \ {Oldest(kept)}) = Cardinality(kept) - 1
        BY <1>7, <3>3, FS_RemoveElement
    <3>5. out = {Oldest(kept)}
        BY <2>1
    <3>6. Cardinality(kept \ out) < PendingCap
        BY <1>5, <1>7, <3>4, <3>5
    <3> QED BY <3>3, <3>5, <3>6
  <2>2. CASE ~Full(kept)
    <3>1. ~(Cardinality(kept) >= PendingCap)
        BY <2>2 DEF Full
    <3>2. out = {} /\ kept \ out = kept
        BY <2>2
    <3>3. Cardinality(kept) < PendingCap
        BY <1>5, <1>7, <3>1
    <3> QED BY <3>2, <3>3
  <2> QED BY <2>1, <2>2
<1> HIDE DEF kept, out
<1>9. gone \in SUBSET pending /\ kept \ out = pending \ gone
    BY <1>6, <1>8
<1> QED BY <1>3, <1>4, <1>8, <1>9

\* The sends an acknowledgement may be credited to.
LEMMA EqualAre ==
    ASSUME NEW f
    PROVE  \A e : e \in Equal(Kept(pending), f) <=> (e \in pending /\ e.life # "due" /\ e.frame = f)
BY DEF Equal, Kept

\* What the reader takes out of `pending`: what is due and, with an acknowledgement, its owner.
LEMMA IngressPending ==
    ASSUME Shape, Ingress
    PROVE  /\ retire_pending(Expired(pending))
           /\ \/ /\ pending' = Kept(pending) /\ matched' = matched
              \/ /\ pending' = Kept(pending) \ {Oldest(Equal(Kept(pending), Head(rxq).frame))}
                 /\ Oldest(Equal(Kept(pending), Head(rxq).frame)) \in Kept(pending)
                 /\ matched' = matched + 1
<1> DEFINE equal == Equal(Kept(pending), Head(rxq).frame)
<1>1. equal \subseteq Kept(pending) /\ equal \subseteq PendingSends
    BY DEF Equal, Kept, Shape
<1>2. equal # {} => Oldest(equal) \in equal
    BY <1>1, OldestIsOne
<1> QED BY <1>1, <1>2 DEF Ingress

\* One step takes sends out of `pending`, or stamps one, or commits one.
LEMMA PendingStep ==
    ASSUME Shape, Numbered, [Next]_vars
    PROVE  SamePending \/ pending' \subseteq pending \/ \E h \in Handles : Commit(h)
<1>1. CASE UNCHANGED vars
    BY <1>1, Unstamped DEF vars
<1>2. ASSUME NEW h \in Handles, (\E f \in Frames : SendLocks(h, f)) \/ Emit(h) \/ recv(h) \/ close(h) PROVE SamePending
    BY <1>2, Unstamped DEF SendLocks, Emit, recv, close
<1>3. ASSUME NEW h \in Handles, Refuse(h) PROVE pending' \subseteq pending
    BY <1>3 DEF Refuse, cancel_pending
<1>4. ASSUME NEW h \in Handles, WriteReturns(h) \/ WriteFails(h) PROVE SamePending
    BY <1>4, WindowSame DEF WriteReturns, WriteFails
<1>5. CASE Ingress
    BY <1>5, IngressPending, KeptAre
<1>6. CASE Poll
    BY <1>6, KeptAre DEF Poll
<1>7. CASE Acknowledge \/ Lose \/ \E f \in Frames : Receive(f)
    BY <1>7, Unstamped DEF Acknowledge, Lose, Receive
<1>8. CASE Lapse
    BY <1>8, LapseSame
<1> QED BY <1>1, <1>2, <1>3, <1>4, <1>5, <1>6, <1>7, <1>8 DEF Next

LEMMA PendingShape ==
    ASSUME Shape, Turns, Numbered, [Next]_vars
    PROVE  pending' \subseteq PendingSends /\ IsFiniteSet(pending') /\ Cardinality(pending') <= PendingCap
<1>1. /\ pending \subseteq PendingSends /\ IsFiniteSet(pending) /\ Cardinality(pending) <= PendingCap
      /\ PendingCap \in Nat \ {0} /\ Cardinality(pending) \in Nat
    BY AcksAssumption, FS_CardinalityType DEF Shape
<1>2. CASE SamePending
    BY <1>1, <1>2 DEF SamePending
<1>3. CASE pending' \subseteq pending
  <2>1. IsFiniteSet(pending') /\ Cardinality(pending') <= Cardinality(pending) /\ Cardinality(pending') \in Nat
      BY <1>1, <1>3, FS_Subset, FS_CardinalityType
  <2> QED BY <1>1, <1>3, <2>1
<1>4. ASSUME NEW h \in Handles, Commit(h)
      PROVE  pending' \subseteq PendingSends /\ IsFiniteSet(pending') /\ Cardinality(pending') <= PendingCap
  <2>1. Entry(h) \in PendingSends /\ Entry(h) \notin pending
      BY <1>4, CommitPending
  <2>2. PICK gone \in SUBSET pending :
            pending' = (pending \ gone) \cup {Entry(h)} /\ Cardinality(pending \ gone) < PendingCap
      BY <1>4, CommitPending
  <2>3. IsFiniteSet(pending \ gone) /\ Cardinality(pending \ gone) \in Nat /\ Entry(h) \notin pending \ gone
      BY <1>1, <2>1, FS_Subset, FS_CardinalityType
  <2>4. IsFiniteSet(pending') /\ Cardinality(pending') = Cardinality(pending \ gone) + 1
      BY <2>2, <2>3, FS_AddElement
  <2>5. Cardinality(pending') <= PendingCap
      BY <1>1, <2>2, <2>3, <2>4
  <2> QED BY <1>1, <2>1, <2>2, <2>4, <2>5
<1> QED BY <1>2, <1>3, <1>4, PendingStep

-------------------------------------------------------------------------------
(* Who sends, and the types *)

\* What a step does to the senders: one takes its turn, goes on or is done.
CallerStep ==
    \/ UNCHANGED <<caller, send_mu, next_send_token>>
    \/ \E h \in Handles :
          \/ \E f \in Frames : SendLocks(h, f)
          \/ /\ caller[h].pc # "idle" /\ UNCHANGED <<send_mu, next_send_token>>
             /\ \E pc \in {"committed", "emitted"} : caller' = [caller EXCEPT ![h].pc = pc]
          \/ caller[h].pc # "idle" /\ SendEnds(h) /\ UNCHANGED next_send_token

LEMMA Senders ==
    ASSUME [Next]_vars PROVE CallerStep
<1>1. CASE UNCHANGED vars
    BY <1>1 DEF vars, CallerStep
<1>2. ASSUME NEW h \in Handles, \E f \in Frames : SendLocks(h, f) PROVE CallerStep
    BY <1>2 DEF CallerStep
<1>3. ASSUME NEW h \in Handles, Commit(h) \/ Emit(h) PROVE CallerStep
  <2>1. /\ caller[h].pc # "idle" /\ UNCHANGED <<send_mu, next_send_token>>
        /\ \E pc \in {"committed", "emitted"} : caller' = [caller EXCEPT ![h].pc = pc]
      BY <1>3 DEF Commit, Emit
  <2> QED BY <2>1 DEF CallerStep
<1>4. ASSUME NEW h \in Handles, Refuse(h) \/ WriteReturns(h) \/ WriteFails(h) PROVE CallerStep
  <2>1. caller[h].pc # "idle" /\ SendEnds(h) /\ UNCHANGED next_send_token
      BY <1>4 DEF Refuse, WriteReturns, WriteFails
  <2> QED BY <2>1 DEF CallerStep
<1>5. ASSUME NEW h \in Handles, recv(h) \/ close(h) PROVE CallerStep
    BY <1>5 DEF recv, close, CallerStep
<1>6. CASE Ingress \/ Poll \/ Acknowledge \/ Lose \/ Lapse \/ \E f \in Frames : Receive(f)
    BY <1>6 DEF Ingress, Poll, Acknowledge, Lose, Lapse, Receive, CallerStep
<1> QED BY <1>1, <1>2, <1>3, <1>4, <1>5, <1>6 DEF Next

LEMMA TurnsKept ==
    ASSUME Shape, Turns, CallerStep
    PROVE  Turns' /\ caller' \in [Handles -> Callers] /\ send_mu' \in Handles \cup {Nobody} /\ next_send_token' \in Nat
<1>1. caller \in [Handles -> Callers] /\ send_mu \in Handles \cup {Nobody} /\ next_send_token \in Nat
    BY DEF Shape
<1>2. CASE UNCHANGED <<caller, send_mu, next_send_token>>
    BY <1>1, <1>2 DEF Turns
<1>3. ASSUME NEW h \in Handles, NEW f \in Frames, SendLocks(h, f)
      PROVE  Turns' /\ caller' \in [Handles -> Callers] /\ send_mu' \in Handles \cup {Nobody} /\ next_send_token' \in Nat
  <2> DEFINE r == [pc |-> "locked", frame |-> f, token |-> next_send_token + 1]
  <2>1. send_mu = Nobody /\ send_mu' = h /\ next_send_token' = next_send_token + 1 /\ caller' = [caller EXCEPT ![h] = r]
      BY <1>3 DEF SendLocks
  <2>2. r \in Callers /\ r.token = next_send_token + 1 /\ r.frame = f
      BY <1>1 DEF Callers
  <2>3. \A k \in Handles : caller[k].pc = "idle"
      BY <2>1, AcksAssumption DEF Turns
  <2> HIDE DEF r
  <2>4. caller'[h] = r /\ \A k \in Handles \ {h} : caller'[k].pc = "idle"
      BY <1>1, <2>1, <2>3
  <2> QED BY <1>1, <2>1, <2>2, <2>4 DEF Turns
<1>4. ASSUME NEW h \in Handles, NEW pc \in {"committed", "emitted"}, caller[h].pc # "idle",
             UNCHANGED <<send_mu, next_send_token>>, caller' = [caller EXCEPT ![h].pc = pc]
      PROVE  Turns' /\ caller' \in [Handles -> Callers] /\ send_mu' \in Handles \cup {Nobody} /\ next_send_token' \in Nat
  <2>1. caller[h] \in Callers
      BY <1>1
  <2>2. /\ caller'[h] = [caller[h] EXCEPT !.pc = pc] /\ \A k \in Handles \ {h} : caller'[k] = caller[k]
        /\ caller' = [caller EXCEPT ![h] = [caller[h] EXCEPT !.pc = pc]]
      BY <1>1, <1>4
  <2>3. [caller[h] EXCEPT !.pc = pc] \in Callers
      BY <2>1 DEF Callers
  <2>4. caller'[h].token = caller[h].token /\ caller'[h].frame = caller[h].frame
      BY <2>1, <2>2 DEF Callers
  <2>5. caller' \in [Handles -> Callers]
      BY <1>1, <2>2, <2>3
  <2> QED BY <1>1, <1>4, <2>2, <2>4, <2>5 DEF Turns
<1>5. ASSUME NEW h \in Handles, caller[h].pc # "idle", SendEnds(h), UNCHANGED next_send_token
      PROVE  Turns' /\ caller' \in [Handles -> Callers] /\ send_mu' \in Handles \cup {Nobody} /\ next_send_token' \in Nat
  <2>1. NoSend \in Callers /\ NoSend.pc = "idle"
      BY DEF NoSend, Callers
  <2>2. caller' = [caller EXCEPT ![h] = NoSend] /\ send_mu = h /\ send_mu' = Nobody
      BY <1>5 DEF SendEnds, Turns
  <2> HIDE DEF NoSend
  <2>3. \A k \in Handles : caller'[k].pc = "idle"
      BY <1>1, <2>1, <2>2 DEF Turns
  <2> QED BY <1>1, <1>5, <2>1, <2>2, <2>3 DEF Turns
<1> QED BY <1>2, <1>3, <1>4, <1>5 DEF CallerStep

\* The counters stay numbers.
LEMMA CountersTyped ==
    ASSUME Shape, Turns, Numbered, [Next]_vars
    PROVE  /\ committed' \in Nat /\ matched' \in Nat /\ cancelled' \in Nat
           /\ unmatched_tx_acks' \in Nat /\ expired_tx_acks' \in Nat /\ expired_failed_sends' \in Nat
<1> DEFINE Typed == /\ committed' \in Nat /\ matched' \in Nat /\ cancelled' \in Nat
                    /\ unmatched_tx_acks' \in Nat /\ expired_tx_acks' \in Nat /\ expired_failed_sends' \in Nat
<1>1. /\ committed \in Nat /\ matched \in Nat /\ cancelled \in Nat
      /\ unmatched_tx_acks \in Nat /\ expired_tx_acks \in Nat /\ expired_failed_sends \in Nat
      /\ IsFiniteSet(pending)
    BY DEF Shape
<1>2. ASSUME NEW gone \in SUBSET pending, retire_pending(gone)
      PROVE  expired_tx_acks' \in Nat /\ expired_failed_sends' \in Nat
  <2>1. IsFiniteSet(gone)
      BY <1>1, FS_Subset
  <2> QED BY <1>1, <1>2, <2>1, Retired
<1>3. CASE UNCHANGED vars
    BY <1>1, <1>3 DEF vars, counters, history
<1>4. ASSUME NEW h \in Handles, (\E f \in Frames : SendLocks(h, f)) \/ Emit(h) \/ WriteReturns(h) \/ WriteFails(h) \/ recv(h) \/ close(h)
      PROVE  Typed
    BY <1>1, <1>4 DEF SendLocks, Emit, WriteReturns, WriteFails, recv, close, counters, history
<1>5. ASSUME NEW h \in Handles, Refuse(h) PROVE Typed
  <2> DEFINE gone == pending \ cancel_pending(pending, caller[h].token)
  <2>1. IsFiniteSet(gone)
      BY <1>1, FS_Subset
  <2>2. Cardinality(gone) \in Nat
      BY <2>1, FS_CardinalityType
  <2>3. cancelled' = cancelled + Cardinality(gone) /\ UNCHANGED <<counters, matched, committed>>
      BY <1>5 DEF Refuse
  <2> QED BY <1>1, <2>2, <2>3 DEF counters
<1>6. ASSUME NEW h \in Handles, Commit(h) PROVE Typed
  <2>1. expired_tx_acks' \in Nat /\ expired_failed_sends' \in Nat
      BY <1>2, <1>6, CommitPending
  <2> QED BY <1>1, <1>6, <2>1 DEF Commit
<1>7. CASE Ingress
  <2>1. expired_tx_acks' \in Nat /\ expired_failed_sends' \in Nat
      BY <1>2, <1>7, KeptAre DEF Ingress
  <2> QED BY <1>1, <1>7, <2>1 DEF Ingress
<1>8. CASE Poll
  <2>1. expired_tx_acks' \in Nat /\ expired_failed_sends' \in Nat
      BY <1>2, <1>8, KeptAre DEF Poll
  <2> QED BY <1>1, <1>8, <2>1 DEF Poll
<1>9. CASE Acknowledge \/ Lose \/ Lapse \/ \E f \in Frames : Receive(f)
    BY <1>1, <1>9 DEF Acknowledge, Lose, Lapse, Receive, counters, history
<1> QED BY <1>3, <1>4, <1>5, <1>6, <1>7, <1>8, <1>9 DEF Next

-------------------------------------------------------------------------------
(* Order *)

LEMMA StreamStep ==
    ASSUME Shape, Turns, Numbered, InOrder, [Next]_vars
    PROVE  /\ InOrder' /\ rxq' \in Seq(Ingresses) /\ onwire' \in Seq(Ingresses)
           /\ (\E h \in Handles : Emit(h)) \/ Acks' \subseteq Acks
<1> DEFINE Streams == InOrder' /\ rxq' \in Seq(Ingresses) /\ onwire' \in Seq(Ingresses)
<1>1. rxq \in Seq(Ingresses) /\ onwire \in Seq(Ingresses)
    BY DEF Shape
<1>2. ASSUME UNCHANGED <<rxq, onwire>> PROVE Streams /\ Acks' \subseteq Acks
  <2>1. rxq' = rxq /\ onwire' = onwire
      BY <1>2
  <2>2. Acks' = Acks
      BY <2>1 DEF Acks
  <2>3. InOrder'
      BY <2>1 DEF InOrder, Rising
  <2> QED BY <1>1, <2>1, <2>2, <2>3
<1>3. ASSUME NEW h \in Handles, Emit(h) PROVE Streams
  <2>1. rxq' = rxq
      BY <1>3 DEF Emit
  <2> QED BY <1>1, <1>3, <2>1, EmitAcks
<1>4. ASSUME NEW f \in Frames, Receive(f) PROVE Streams /\ Acks' \subseteq Acks
  <2>1. onwire' = onwire
      BY <1>4 DEF Receive
  <2> QED BY <1>1, <1>4, <2>1, ReceiveAcks
<1>5. CASE Acknowledge
    BY <1>5, AcknowledgeAcks
<1>6. CASE Lose
  <2>1. rxq' = rxq
      BY <1>6 DEF Lose
  <2> QED BY <1>1, <1>6, <2>1, LoseAcks
<1>7. CASE Ingress
  <2>1. rxq # <<>> /\ rxq' = Tail(rxq) /\ onwire' = onwire
      BY <1>7 DEF Ingress
  <2> QED BY <1>1, <2>1, IngressAcks
<1>8. CASE Poll \/ Lapse
    BY <1>2, <1>8 DEF Poll, Lapse, ingress
<1>9. ASSUME NEW h \in Handles, (\E f \in Frames : SendLocks(h, f)) \/ Commit(h) \/ Refuse(h) \/ WriteReturns(h) \/ WriteFails(h)
                                \/ recv(h) \/ close(h)
      PROVE  Streams /\ Acks' \subseteq Acks
    BY <1>2, <1>9 DEF SendLocks, Commit, Refuse, WriteReturns, WriteFails, recv, close, ingress
<1>10. CASE UNCHANGED vars
    BY <1>2, <1>10 DEF vars, ingress
<1> HIDE DEF Streams
<1>11. Streams /\ ((\E h \in Handles : Emit(h)) \/ Acks' \subseteq Acks)
    BY <1>3, <1>4, <1>5, <1>6, <1>7, <1>8, <1>9, <1>10 DEF Next, Streams
<1> QED BY <1>11 DEF Streams

\* A step after which the sends pending, those acknowledged and those at work are some of what they were.
LEMMA NumberedKept ==
    ASSUME Shape, Numbered, SamePending \/ pending' \subseteq pending, Acks' \subseteq Acks,
           UNCHANGED <<next_send_token, committed>>,
           \A h \in Handles : caller'[h].pc \in {"locked", "committed"} => caller'[h].pc = caller[h].pc
    PROVE  Numbered'
<1>1. \A e \in pending' : \E d \in pending : e.nr = d.nr /\ e.token = d.token
    BY DEF SamePending
<1>2. \A d, e \in pending' : d.token = e.token => d = e
    BY DEF SamePending, Numbered
<1>3. next_send_token' = next_send_token /\ committed' = committed
    OBVIOUS
<1>4. \A e \in pending' : e.token <= next_send_token' /\ e.nr <= committed'
    BY <1>1, <1>3 DEF Numbered
<1>5. \A d, e \in pending' : d.nr < e.nr <=> d.token < e.token
    BY <1>1 DEF Numbered
<1>6. \A x \in Acks' : x.token <= next_send_token'
    BY <1>3 DEF Numbered
<1>7. \A h \in Handles :
          /\ caller'[h].pc = "locked" => \A e \in pending' : e.token # next_send_token'
          /\ caller'[h].pc \in {"locked", "committed"} => \A x \in Acks' : x.token # next_send_token'
    BY <1>1, <1>3 DEF Numbered
<1> QED BY <1>2, <1>4, <1>5, <1>6, <1>7 DEF Numbered

LEMMA NumberedLocks ==
    ASSUME Shape, Turns, Numbered, InOrder, NEW h \in Handles, NEW f \in Frames, SendLocks(h, f)
    PROVE  Numbered'
<1>1. /\ rxq' = rxq /\ onwire' = onwire /\ pending' = pending /\ committed' = committed
      /\ next_send_token' = next_send_token + 1 /\ next_send_token \in Nat
    BY DEF Shape, SendLocks, ingress, history
<1>2. Acks' = Acks
    BY <1>1 DEF Acks
<1>3. \A e \in pending : e.token \in Nat /\ e.token <= next_send_token /\ e.nr <= committed
    BY DEF Shape, PendingSends, Numbered
<1>4. \A x \in Acks : x.token \in Nat /\ x.token <= next_send_token
    BY AcksAre DEF Numbered
<1>5. \A e \in pending' : e.token <= next_send_token' /\ e.nr <= committed' /\ e.token # next_send_token'
    BY <1>1, <1>3
<1>6. \A x \in Acks' : x.token <= next_send_token' /\ x.token # next_send_token'
    BY <1>1, <1>2, <1>4
<1> QED BY <1>1, <1>5, <1>6 DEF Numbered

LEMMA NumberedCommit ==
    ASSUME Shape, Turns, Numbered, InOrder, NEW h \in Handles, Commit(h)
    PROVE  Numbered'
<1>1. /\ rxq' = rxq /\ onwire' = onwire /\ committed' = committed + 1 /\ committed \in Nat
      /\ next_send_token' = next_send_token /\ next_send_token \in Nat
      /\ caller' = [caller EXCEPT ![h].pc = "committed"] /\ caller[h].pc = "locked" /\ caller[h].token = next_send_token
    BY DEF Shape, Turns, Commit, ingress
<1>2. Acks' = Acks
    BY <1>1 DEF Acks
<1> DEFINE new == Entry(h)
<1>3. new \in PendingSends /\ new.token = next_send_token /\ new.nr = committed + 1
    BY <1>1, CommitPending DEF Entry
<1>4. \A e \in pending' : e = new \/ e \in pending
    BY CommitPending
<1> HIDE DEF new
<1>5. \A e \in pending : /\ e.token \in Nat /\ e.nr \in Nat /\ e.token <= next_send_token /\ e.nr <= committed
                         /\ e.token # next_send_token
    BY <1>1 DEF Shape, PendingSends, Numbered
<1>6. \A e \in pending : e.token < new.token /\ e.nr < new.nr /\ e.token \in Nat /\ e.nr \in Nat
    BY <1>1, <1>3, <1>5
<1>7. \A e \in pending' : e.token <= next_send_token' /\ e.nr <= committed'
    BY <1>1, <1>3, <1>4, <1>5
<1>8. \A d, e \in pending' : (d.nr < e.nr <=> d.token < e.token) /\ (d.token = e.token => d = e)
  <2> SUFFICES ASSUME NEW d \in pending', NEW e \in pending'
               PROVE  (d.nr < e.nr <=> d.token < e.token) /\ (d.token = e.token => d = e)
      OBVIOUS
  <2>1. CASE d \in pending /\ e \in pending
      BY <2>1 DEF Numbered
  <2>2. CASE d = new /\ e \in pending
      BY <1>1, <1>3, <1>6, <2>2
  <2>3. CASE d \in pending /\ e = new
      BY <1>1, <1>3, <1>6, <2>3
  <2>4. CASE d = new /\ e = new
      BY <1>1, <1>3, <2>4
  <2> QED BY <1>4, <2>1, <2>2, <2>3, <2>4
<1>9. \A k \in Handles : caller'[k].pc # "locked" /\ (caller'[k].pc = "committed" => k = h)
  <2>1. \A k \in Handles \ {h} : caller'[k] = caller[k] /\ caller[k].pc = "idle"
      BY <1>1 DEF Shape, Turns
  <2>2. caller'[h].pc = "committed"
      BY <1>1 DEF Shape, Callers
  <2> QED BY <2>1, <2>2
<1>10. \A x \in Acks' : x.token <= next_send_token' /\ x.token # next_send_token'
    BY <1>1, <1>2 DEF Numbered
<1> QED BY <1>7, <1>8, <1>9, <1>10 DEF Numbered

LEMMA NumberedEmit ==
    ASSUME Shape, Turns, Numbered, InOrder, NEW h \in Handles, Emit(h)
    PROVE  Numbered'
<1>1. /\ pending' = pending /\ committed' = committed /\ next_send_token' = next_send_token /\ next_send_token \in Nat
      /\ caller' = [caller EXCEPT ![h].pc = "emitted"] /\ caller[h].pc = "committed" /\ caller[h].token = next_send_token
    BY DEF Shape, Turns, Emit, history
<1>2. \A x \in Acks' : x \in Acks \/ x.token = next_send_token
    BY <1>1, EmitAcks DEF SharedIngress
<1>3. \A x \in Acks' : x.token <= next_send_token'
    BY <1>1, <1>2 DEF Numbered
<1>4. \A k \in Handles : caller'[k].pc \notin {"locked", "committed"}
  <2>1. \A k \in Handles \ {h} : caller'[k] = caller[k] /\ caller[k].pc = "idle"
      BY <1>1 DEF Shape, Turns
  <2>2. caller'[h].pc = "emitted"
      BY <1>1 DEF Shape, Callers
  <2> QED BY <2>1, <2>2
<1> QED BY <1>1, <1>3, <1>4 DEF Numbered

LEMMA NumberedStep ==
    ASSUME Shape, Turns, Numbered, InOrder, [Next]_vars
    PROVE  Numbered'
<1>1. CASE \E h \in Handles : Emit(h) \/ Commit(h) \/ \E f \in Frames : SendLocks(h, f)
    BY <1>1, NumberedEmit, NumberedCommit, NumberedLocks
<1>2. ASSUME ~\E h \in Handles : Emit(h) \/ Commit(h) \/ \E f \in Frames : SendLocks(h, f) PROVE Numbered'
  <2>1. (SamePending \/ pending' \subseteq pending) /\ Acks' \subseteq Acks
      BY <1>2, PendingStep, StreamStep
  <2>2. UNCHANGED <<next_send_token, committed>>
      BY <1>2 DEF Next, vars, history, Refuse, WriteReturns, WriteFails, recv, close, Ingress, Poll, Acknowledge, Lose, Lapse, Receive
  <2>3. UNCHANGED caller \/ \E h \in Handles : SendEnds(h)
      BY <1>2 DEF Next, vars, Refuse, WriteReturns, WriteFails, recv, close, Ingress, Poll, Acknowledge, Lose, Lapse, Receive
  <2>4. \A h \in Handles : caller'[h].pc \in {"locked", "committed"} => caller'[h].pc = caller[h].pc
    <3>1. ASSUME NEW h \in Handles, SendEnds(h), NEW k \in Handles, caller'[k].pc \in {"locked", "committed"}
          PROVE  caller'[k].pc = caller[k].pc
        BY <3>1 DEF SendEnds, Shape, NoSend
    <3> QED BY <2>3, <3>1
  <2> QED BY <2>1, <2>2, <2>4, NumberedKept
<1> QED BY <1>1, <1>2

-------------------------------------------------------------------------------
(* Whose acknowledgement it is *)

\* Of a frame whose acknowledgements add up the oldest equal send pending is the one the next
\* acknowledgement is for: an older one would have been acknowledged by an earlier acknowledgement.
LEMMA Owner ==
    ASSUME Shape, Turns, Numbered, InOrder, AddsUp, Ingress, Head(rxq).tx_ack, Head(rxq).frame \notin tainted'
    PROVE  LET equal == Equal(Kept(pending), Head(rxq).frame) IN
           /\ equal # {} /\ Oldest(equal) \in equal
           /\ Oldest(equal).token = Head(rxq).token /\ Oldest(equal).origin = Head(rxq).src
<1> DEFINE in    == Head(rxq)
           equal == Equal(Kept(pending), in.frame)
           own   == Oldest(equal)
<1>1. rxq # <<>> /\ rxq' = Tail(rxq) /\ onwire' = onwire /\ retire_pending(Expired(pending))
    BY DEF Ingress
<1>2. in \in Acks /\ (\A x \in Acks' : in.token < x.token) /\ (\A x \in Acks : x \in Acks' \/ x = in)
    BY <1>1, IngressAcks
<1>3. tainted' = tainted \cup FramesOf(Expired(pending))
    BY <1>1 DEF retire_pending
<1>4. in.frame \notin tainted /\ \A e \in pending : e.frame = in.frame => e.life # "due"
    BY <1>3, KeptAre DEF FramesOf
<1>5. PICK e \in pending : e.token = in.token /\ e.frame = in.frame /\ e.origin = in.src
    BY <1>2, <1>4 DEF AddsUp, Sent
<1>6. \A d : d \in equal <=> (d \in pending /\ d.life # "due" /\ d.frame = in.frame)
    BY EqualAre
<1>7. e \in equal
    BY <1>4, <1>5, <1>6
<1>8. own \in equal /\ own.nr <= e.nr
  <2>1. equal \subseteq PendingSends /\ equal # {}
      BY <1>6, <1>7 DEF Shape
  <2> QED BY <1>7, <2>1, OldestIsOne
<1>9. own \in pending /\ own.frame = in.frame
    BY <1>6, <1>8
<1> HIDE DEF own, equal
<1>10. own.nr \in Nat /\ e.nr \in Nat /\ own.token \in Nat /\ e.token \in Nat
    BY <1>5, <1>9 DEF Shape, PendingSends
<1>11. own.token <= in.token
  <2>1. ~(e.nr < own.nr)
      BY <1>8, <1>10
  <2>2. ~(e.token < own.token)
      BY <1>5, <1>9, <2>1 DEF Numbered
  <2> QED BY <1>5, <1>10, <2>2
<1>12. in.token \in Nat /\ in.token <= next_send_token /\ next_send_token \in Nat
    BY <1>2, <1>5, <1>10 DEF Numbered, Shape
<1>13. Writes(own) \/ Acked(own)
    BY <1>4, <1>9 DEF AddsUp
<1>14. ~Writes(own)
  <2> SUFFICES ASSUME NEW h \in Handles, caller[h].pc = "committed", caller[h].token = own.token PROVE FALSE
      BY DEF Writes
  <2>1. own.token = next_send_token /\ \A x \in Acks : x.token # next_send_token
      BY DEF Turns, Numbered
  <2> QED BY <1>2, <1>11, <1>12, <2>1
<1>15. PICK x \in Acks : x.token = own.token
    BY <1>13, <1>14 DEF Acked
<1>16. x = in
    BY <1>2, <1>10, <1>11, <1>12, <1>15
<1>17. own.token = in.token /\ own = e
    BY <1>5, <1>9, <1>15, <1>16 DEF Numbered
<1> QED BY <1>5, <1>7, <1>8, <1>17 DEF own, equal

-------------------------------------------------------------------------------
(* What adds up still does *)

TaintedGrows == tainted \subseteq tainted'

\* A step that brings no acknowledgement and no write, and keeps the sends they are for.
LEMMA AddsUpKept ==
    ASSUME AddsUp, TaintedGrows,
           \A x \in Acks' : x \in Acks,
           \A h \in Handles : caller'[h].pc = "committed" => caller'[h] = caller[h],
           \A d \in pending :
               /\ d.frame \notin tainted'
               /\ (\E x \in Acks' : x.token = d.token) \/ (\E h \in Handles : caller'[h].pc = "committed" /\ caller'[h].token = d.token)
               => \E e \in pending' : e.token = d.token /\ e.frame = d.frame /\ e.origin = d.origin,
           \A e \in pending' : e.frame \notin tainted' =>
               \E d \in pending : /\ e.token = d.token /\ e.frame = d.frame
                                  /\ Writes(d) \/ Acked(d) => (Writes(e))' \/ (Acked(e))'
    PROVE  AddsUp'
<1>1. ASSUME NEW x \in Acks', x.frame \notin tainted' PROVE (Sent(x.token, x.frame, x.src))'
  <2>1. PICK d \in pending : d.token = x.token /\ d.frame = x.frame /\ d.origin = x.src
      BY <1>1 DEF AddsUp, Sent, TaintedGrows
  <2>2. \E e \in pending' : e.token = d.token /\ e.frame = d.frame /\ e.origin = d.origin
      BY <1>1, <2>1
  <2> QED BY <2>1, <2>2 DEF Sent
<1>2. ASSUME NEW h \in Handles, caller'[h].pc = "committed", caller'[h].frame \notin tainted'
      PROVE  (Sent(caller[h].token, caller[h].frame, h))'
  <2>1. caller'[h] = caller[h]
      BY <1>2
  <2>2. PICK d \in pending : d.token = caller[h].token /\ d.frame = caller[h].frame /\ d.origin = h
      BY <1>2, <2>1 DEF AddsUp, Sent, TaintedGrows
  <2>3. \E e \in pending' : e.token = d.token /\ e.frame = d.frame /\ e.origin = d.origin
      BY <1>2, <2>1, <2>2
  <2> QED BY <2>1, <2>2, <2>3 DEF Sent
<1>3. ASSUME NEW e \in pending', e.frame \notin tainted' PROVE (Writes(e))' \/ (Acked(e))'
  <2>1. PICK d \in pending : /\ e.token = d.token /\ e.frame = d.frame
                             /\ Writes(d) \/ Acked(d) => (Writes(e))' \/ (Acked(e))'
      BY <1>3
  <2>2. Writes(d) \/ Acked(d)
      BY <1>3, <2>1 DEF AddsUp, TaintedGrows
  <2> QED BY <2>1, <2>2
<1> QED BY <1>1, <1>2, <1>3 DEF AddsUp

\* The same sends, writes and acknowledgements.
LEMMA AddsUpSame ==
    ASSUME AddsUp, TaintedGrows, SamePending, Acks' = Acks,
           \A h \in Handles : caller'[h].pc = "committed" <=> caller[h].pc = "committed",
           \A h \in Handles : caller'[h].pc = "committed" => caller'[h] = caller[h]
    PROVE  AddsUp'
<1>1. \A d \in pending : \E e \in pending' : e.token = d.token /\ e.frame = d.frame /\ e.origin = d.origin
    BY DEF SamePending
<1>2. ASSUME NEW e \in pending', NEW d \in pending, e.token = d.token, e.frame = d.frame, Writes(d) \/ Acked(d)
      PROVE  (Writes(e))' \/ (Acked(e))'
  <2>1. CASE Writes(d)
      BY <1>2, <2>1 DEF Writes
  <2>2. CASE Acked(d)
      BY <1>2, <2>2 DEF Acked
  <2> QED BY <1>2, <2>1, <2>2
<1>3. \A e \in pending' : \E d \in pending : e.token = d.token /\ e.frame = d.frame
    BY DEF SamePending
<1>4. \A e \in pending' : \E d \in pending :
          e.token = d.token /\ e.frame = d.frame /\ (Writes(d) \/ Acked(d) => (Writes(e))' \/ (Acked(e))')
    BY <1>2, <1>3
<1> QED BY <1>1, <1>4, AddsUpKept

LEMMA TaintedStep ==
    ASSUME [Next]_vars PROVE TaintedGrows
BY DEF Next, vars, history, SendLocks, Commit, Refuse, Emit, WriteReturns, WriteFails, recv, close, Ingress, Poll,
       Acknowledge, Lose, Lapse, Receive, retire_pending, TaintedGrows

\* While one sends no other does.
LEMMA OneSends ==
    ASSUME Shape, Turns, NEW h \in Handles, caller[h].pc # "idle"
    PROVE  /\ caller[h].token = next_send_token /\ caller[h].frame \in Frames
           /\ \A k \in Handles \ {h} : caller[k].pc = "idle"
BY DEF Turns

LEMMA AddsUpCommit ==
    ASSUME Shape, Turns, Numbered, InOrder, AddsUp, NEW h \in Handles, Commit(h)
    PROVE  AddsUp'
<1> DEFINE new == Entry(h)
<1>1. PICK gone \in SUBSET pending : pending' = (pending \ gone) \cup {new} /\ retire_pending(gone)
    BY CommitPending
<1>2. tainted' = tainted \cup FramesOf(gone) /\ tainted \subseteq tainted'
    BY <1>1 DEF retire_pending
<1>3. \A e \in pending : e.frame \notin tainted' => e \in pending' /\ e.frame \notin tainted
    BY <1>1, <1>2 DEF FramesOf
<1>4. /\ rxq' = rxq /\ onwire' = onwire /\ caller[h].pc = "locked"
      /\ caller' = [caller EXCEPT ![h].pc = "committed"] /\ caller \in [Handles -> Callers]
    BY DEF Shape, Commit, ingress
<1>5. Acks' = Acks
    BY <1>4 DEF Acks
<1>6. /\ caller'[h].pc = "committed" /\ caller'[h].token = caller[h].token /\ caller'[h].frame = caller[h].frame
      /\ \A k \in Handles \ {h} : caller'[k].pc = "idle" /\ caller[k].pc = "idle"
    BY <1>4, OneSends DEF Callers
<1>7. new.token = caller[h].token /\ new.frame = caller[h].frame /\ new.origin = h /\ new \in pending'
    BY <1>1 DEF Entry
<1> HIDE DEF new
<1>8. ASSUME NEW x \in Acks', x.frame \notin tainted' PROVE (Sent(x.token, x.frame, x.src))'
    BY <1>2, <1>3, <1>5, <1>8 DEF AddsUp, Sent
<1>9. ASSUME NEW k \in Handles, caller'[k].pc = "committed" PROVE (Sent(caller[k].token, caller[k].frame, k))'
  <2>1. k = h
      BY <1>6, <1>9
  <2> QED BY <1>6, <1>7, <2>1 DEF Sent
<1>10. ASSUME NEW e \in pending', e.frame \notin tainted' PROVE (Writes(e))' \/ (Acked(e))'
  <2>1. CASE e = new
      BY <1>6, <1>7, <2>1 DEF Writes
  <2>2. CASE e \in pending
    <3>1. ~Writes(e)
        BY <1>4, <1>6 DEF Writes
    <3>2. Acked(e)
        BY <1>3, <1>10, <2>2, <3>1 DEF AddsUp
    <3> QED BY <1>5, <3>2 DEF Acked
  <2> QED BY <1>1, <2>1, <2>2
<1> QED BY <1>8, <1>9, <1>10 DEF AddsUp

LEMMA AddsUpEmit ==
    ASSUME Shape, Turns, Numbered, InOrder, AddsUp, NEW h \in Handles, Emit(h)
    PROVE  AddsUp'
<1> DEFINE x == SharedIngress(TRUE, caller[h].frame, h, caller[h].token)
<1>1. Acks' = Acks \cup {x}
    BY EmitAcks
<1>2. x.token = caller[h].token /\ x.frame = caller[h].frame /\ x.src = h
    BY DEF SharedIngress
<1>3. /\ pending' = pending /\ tainted' = tainted /\ caller[h].pc = "committed"
      /\ caller' = [caller EXCEPT ![h].pc = "emitted"] /\ caller \in [Handles -> Callers]
    BY DEF Shape, Emit, history
<1>4. \A k \in Handles : caller'[k].pc # "committed" /\ (caller[k].pc = "committed" => k = h)
    BY <1>3, OneSends DEF Callers
<1> HIDE DEF x
<1>5. ASSUME NEW y \in Acks', y.frame \notin tainted' PROVE (Sent(y.token, y.frame, y.src))'
    BY <1>1, <1>2, <1>3, <1>5 DEF AddsUp, Sent
<1>6. ASSUME NEW e \in pending', e.frame \notin tainted' PROVE (Acked(e))'
  <2>1. Writes(e) \/ Acked(e)
      BY <1>3, <1>6 DEF AddsUp
  <2>2. CASE Writes(e)
      BY <1>1, <1>2, <1>4, <2>2 DEF Writes, Acked
  <2>3. CASE Acked(e)
      BY <1>1, <2>3 DEF Acked
  <2> QED BY <2>1, <2>2, <2>3
<1> QED BY <1>4, <1>5, <1>6 DEF AddsUp

LEMMA AddsUpRefuse ==
    ASSUME Shape, Turns, Numbered, InOrder, AddsUp, NEW h \in Handles, Refuse(h)
    PROVE  AddsUp'
<1>1. /\ pending' = {e \in pending : e.token # caller[h].token} /\ tainted' = tainted
      /\ rxq' = rxq /\ onwire' = onwire /\ caller[h].pc \in {"locked", "committed"}
      /\ caller' = [caller EXCEPT ![h] = NoSend] /\ caller \in [Handles -> Callers]
    BY DEF Shape, Refuse, cancel_pending, SendEnds, ingress
<1>2. Acks' = Acks
    BY <1>1 DEF Acks
<1>3. caller[h].token = next_send_token /\ \A k \in Handles \ {h} : caller[k].pc = "idle"
    BY <1>1, OneSends
<1>4. \A k \in Handles : caller'[k].pc # "committed" /\ (caller[k].pc = "committed" => k = h)
    BY <1>1, <1>3 DEF NoSend
<1>5. \A x \in Acks : x.token # caller[h].token
    BY <1>1, <1>3 DEF Numbered
<1>6. ASSUME NEW x \in Acks', x.frame \notin tainted' PROVE (Sent(x.token, x.frame, x.src))'
    BY <1>1, <1>2, <1>5, <1>6 DEF AddsUp, Sent
<1>7. ASSUME NEW e \in pending', e.frame \notin tainted' PROVE (Acked(e))'
  <2>1. e \in pending /\ e.token # caller[h].token
      BY <1>1
  <2>2. ~Writes(e)
      BY <1>4, <2>1 DEF Writes
  <2>3. Acked(e)
      BY <1>1, <1>7, <2>1, <2>2 DEF AddsUp
  <2> QED BY <1>2, <2>3 DEF Acked
<1> QED BY <1>4, <1>6, <1>7 DEF AddsUp

\* A write returns or fails.
LEMMA AddsUpWritten ==
    ASSUME Shape, Turns, Numbered, InOrder, AddsUp, NEW h \in Handles, WriteReturns(h) \/ WriteFails(h)
    PROVE  AddsUp'
<1>1. /\ rxq' = rxq /\ onwire' = onwire /\ caller[h].pc \in {"committed", "emitted"}
      /\ caller' = [caller EXCEPT ![h] = NoSend] /\ caller \in [Handles -> Callers]
      /\ caller[h].pc = "committed" => caller[h].frame \in tainted'
    BY DEF Shape, WriteReturns, WriteFails, SendEnds, ingress
<1>2. Acks' = Acks
    BY <1>1 DEF Acks
<1>3. SamePending
    BY WindowSame DEF WriteReturns, WriteFails
<1>4. TaintedGrows
    BY TaintedStep DEF Next
<1>5. \A k \in Handles : caller'[k].pc # "committed" /\ (caller[k].pc = "committed" => k = h)
    BY <1>1, OneSends DEF NoSend
<1>6. \A d \in pending : \E e \in pending' : e.token = d.token /\ e.frame = d.frame /\ e.origin = d.origin
    BY <1>3 DEF SamePending
<1>7. ASSUME NEW e \in pending', e.frame \notin tainted'
      PROVE  \E d \in pending : /\ e.token = d.token /\ e.frame = d.frame
                                /\ Writes(d) \/ Acked(d) => (Writes(e))' \/ (Acked(e))'
  <2>1. PICK d \in pending : e.token = d.token /\ e.frame = d.frame
      BY <1>3 DEF SamePending
  <2>2. ~Writes(d)
      BY <1>1, <1>5, <1>7, <2>1 DEF Writes
  <2>3. Acked(d) => (Acked(e))'
      BY <1>2, <2>1 DEF Acked
  <2> QED BY <2>1, <2>2, <2>3
<1>8. \A x \in Acks' : x \in Acks
    BY <1>2
<1> QED BY <1>4, <1>5, <1>6, <1>7, <1>8, AddsUpKept

LEMMA AddsUpLose ==
    ASSUME Shape, Turns, Numbered, InOrder, AddsUp, Lose
    PROVE  AddsUp'
<1>1. /\ caller' = caller /\ pending' = pending /\ tainted' = tainted \cup {Head(onwire).frame}
    BY DEF Lose
<1>2. Acks' \subseteq Acks /\ \A x \in Acks : x \in Acks' \/ x = Head(onwire)
    BY LoseAcks
<1>3. ASSUME NEW e \in pending', e.frame \notin tainted'
      PROVE  \E d \in pending : /\ e.token = d.token /\ e.frame = d.frame
                                /\ Writes(d) \/ Acked(d) => (Writes(e))' \/ (Acked(e))'
  <2>1. Writes(e) => (Writes(e))'
      BY <1>1 DEF Writes
  <2>2. Acked(e) => (Acked(e))'
      BY <1>1, <1>2, <1>3 DEF Acked
  <2> QED BY <1>1, <2>1, <2>2
<1>4. TaintedGrows
    BY <1>1 DEF TaintedGrows
<1> QED BY <1>1, <1>2, <1>3, <1>4, AddsUpKept

LEMMA AddsUpPoll ==
    ASSUME Shape, AddsUp, Poll
    PROVE  AddsUp'
<1>1. caller' = caller /\ pending' = Kept(pending) /\ rxq' = rxq /\ onwire' = onwire
    BY DEF Poll, ingress
<1>2. Acks' = Acks
    BY <1>1 DEF Acks
<1>3. tainted' = tainted \cup FramesOf(Expired(pending))
    BY DEF Poll, retire_pending
<1>4. \A d \in pending : d.frame \notin tainted' => d \in pending'
    BY <1>1, <1>3, KeptAre DEF FramesOf
<1>5. pending' \subseteq pending
    BY <1>1, KeptAre
<1>6. \A e \in pending' : Writes(e) \/ Acked(e) => (Writes(e))' \/ (Acked(e))'
    BY <1>1, <1>2 DEF Writes, Acked
<1>7. TaintedGrows
    BY <1>3 DEF TaintedGrows
<1> QED BY <1>1, <1>2, <1>4, <1>5, <1>6, <1>7, AddsUpKept

\* The acknowledgement read has its send taken out of `pending`, and no other still to be acknowledged.
LEMMA AddsUpIngress ==
    ASSUME Shape, Turns, Numbered, InOrder, AddsUp, Ingress
    PROVE  AddsUp'
<1> DEFINE in  == Head(rxq)
           own == Oldest(Equal(Kept(pending), in.frame))
<1>1. rxq # <<>> /\ rxq' = Tail(rxq) /\ onwire' = onwire /\ caller' = caller /\ retire_pending(Expired(pending))
    BY DEF Ingress
<1>2. /\ Acks' \subseteq Acks /\ \A x \in Acks : x \in Acks' \/ (x = in /\ in.tx_ack)
      /\ in.tx_ack => in \in Acks /\ \A x \in Acks' : in.token < x.token
    BY <1>1, IngressAcks
<1>3. tainted' = tainted \cup FramesOf(Expired(pending))
    BY <1>1 DEF retire_pending
<1>4. TaintedGrows
    BY <1>3 DEF TaintedGrows
<1>5. in.tx_ack /\ in.frame \notin tainted' => /\ Equal(Kept(pending), in.frame) # {} /\ own.token = in.token
                                               /\ own \in pending /\ own.frame = in.frame
  <2>1. ASSUME in.tx_ack, in.frame \notin tainted'
        PROVE  Equal(Kept(pending), in.frame) # {} /\ own.token = in.token /\ own \in Equal(Kept(pending), in.frame)
      BY <2>1, Owner
  <2> QED BY <2>1, EqualAre
<1>6. Equal(Kept(pending), in.frame) # {} => own \in pending /\ own.frame = in.frame
  <2>1. Equal(Kept(pending), in.frame) \subseteq PendingSends
      BY EqualAre DEF Shape
  <2>2. Equal(Kept(pending), in.frame) # {} => own \in Equal(Kept(pending), in.frame)
      BY <2>1, OldestIsOne
  <2> QED BY <2>2, EqualAre
<1>7. \/ pending' = Kept(pending) /\ (~in.tx_ack \/ Equal(Kept(pending), in.frame) = {})
      \/ pending' = Kept(pending) \ {own} /\ in.tx_ack /\ Equal(Kept(pending), in.frame) # {}
    BY DEF Ingress
<1> HIDE DEF own, in
<1>8. pending' \subseteq pending
    BY <1>7, KeptAre
<1>9. ASSUME NEW d \in pending, d.frame \notin tainted', d \notin pending' PROVE in.tx_ack /\ d = own /\ d.token = in.token
  <2>1. d \in Kept(pending)
      BY <1>3, <1>9, KeptAre DEF FramesOf
  <2>2. d = own /\ in.tx_ack /\ Equal(Kept(pending), in.frame) # {}
      BY <1>7, <1>9, <2>1
  <2> QED BY <1>5, <1>6, <1>9, <2>2
<1>10. ASSUME NEW d \in pending, d.frame \notin tainted',
              (\E x \in Acks' : x.token = d.token) \/ (\E h \in Handles : caller'[h].pc = "committed" /\ caller'[h].token = d.token)
       PROVE  d \in pending'
  <2> SUFFICES ASSUME d \notin pending' PROVE FALSE
      OBVIOUS
  <2>1. in.tx_ack /\ d.token = in.token /\ in \in Acks
      BY <1>2, <1>9, <1>10
  <2>2. CASE \E x \in Acks' : x.token = d.token
    <3>1. in.token \in Nat
        BY <2>1 DEF Shape, PendingSends
    <3> QED BY <1>2, <2>1, <2>2, <3>1
  <2>3. ASSUME NEW h \in Handles, caller'[h].pc = "committed", caller'[h].token = d.token PROVE FALSE
      BY <1>1, <2>1, <2>3 DEF Turns, Numbered
  <2> QED BY <1>10, <2>2, <2>3
<1>11. ASSUME NEW e \in pending', e.frame \notin tainted' PROVE Writes(e) \/ Acked(e) => (Writes(e))' \/ (Acked(e))'
  <2>1. Writes(e) => (Writes(e))'
      BY <1>1 DEF Writes
  <2>2. ASSUME NEW x \in Acks, x.token = e.token, x.frame = e.frame PROVE (Acked(e))'
    <3>1. CASE x \in Acks'
        BY <2>2, <3>1 DEF Acked
    <3>2. CASE x \notin Acks'
      <4>1. x = in /\ in.tx_ack /\ in.frame \notin tainted'
          BY <1>2, <1>11, <2>2, <3>2
      <4>2. own \in pending /\ own.token = e.token /\ e \in pending
          BY <1>5, <1>8, <2>2, <4>1
      <4>3. own = e
          BY <4>2 DEF Numbered
      <4>4. e \notin pending'
          BY <1>5, <1>7, <4>1, <4>3
      <4> QED BY <1>11, <4>4
    <3> QED BY <3>1, <3>2
  <2> QED BY <2>1, <2>2 DEF Acked
<1> QED BY <1>1, <1>2, <1>4, <1>8, <1>10, <1>11, AddsUpKept

LEMMA AddsUpStep ==
    ASSUME Shape, Turns, Numbered, InOrder, AddsUp, [Next]_vars
    PROVE  AddsUp'
<1>1. CASE \E h \in Handles : Commit(h) \/ Refuse(h) \/ Emit(h) \/ WriteReturns(h) \/ WriteFails(h)
    BY <1>1, AddsUpCommit, AddsUpRefuse, AddsUpEmit, AddsUpWritten
<1>2. CASE Ingress \/ Poll \/ Lose
    BY <1>2, AddsUpIngress, AddsUpPoll, AddsUpLose
<1>3. TaintedGrows
    BY TaintedStep
<1>4. CASE Lapse \/ UNCHANGED vars \/ (\E h \in Handles : recv(h) \/ close(h))
  <2>1. caller' = caller /\ rxq' = rxq /\ onwire' = onwire
      BY <1>4 DEF Lapse, vars, recv, close, ingress
  <2>2. Acks' = Acks
      BY <2>1 DEF Acks
  <2>3. Lapse \/ UNCHANGED pending
      BY <1>4 DEF vars, recv, close
  <2>4. SamePending
      BY <2>3, LapseSame, Unstamped
  <2> QED BY <1>3, <2>1, <2>2, <2>4, AddsUpSame
<1>5. CASE Acknowledge
  <2>1. caller' = caller /\ pending' = pending
      BY <1>5 DEF Acknowledge
  <2> QED BY <1>3, <1>5, <2>1, AcknowledgeAcks, Unstamped, AddsUpSame
<1>6. ASSUME NEW f \in Frames, Receive(f) PROVE AddsUp'
  <2>1. caller' = caller /\ pending' = pending
      BY <1>6 DEF Receive
  <2> QED BY <1>3, <1>6, <2>1, ReceiveAcks, Unstamped, AddsUpSame
<1>7. ASSUME NEW h \in Handles, NEW f \in Frames, SendLocks(h, f) PROVE AddsUp'
  <2>1. rxq' = rxq /\ onwire' = onwire /\ pending' = pending
      BY <1>7 DEF SendLocks, ingress
  <2>2. Acks' = Acks
      BY <2>1 DEF Acks
  <2>3. caller[h].pc = "idle" /\ caller'[h].pc = "locked" /\ \A k \in Handles \ {h} : caller'[k] = caller[k]
      BY <1>7 DEF SendLocks, Shape
  <2>4. \A k \in Handles : /\ caller'[k].pc = "committed" <=> caller[k].pc = "committed"
                           /\ caller'[k].pc = "committed" => caller'[k] = caller[k]
      BY <2>3
  <2> QED BY <1>3, <2>1, <2>2, <2>4, Unstamped, AddsUpSame
<1> QED BY <1>1, <1>2, <1>4, <1>5, <1>6, <1>7 DEF Next

-------------------------------------------------------------------------------
(* The ring and what is read from it *)

LEMMA FirstOf == ASSUME NEW S, S \subseteq Nat, S # {} PROVE Min(S) \in S
<1>1. PICK x \in S : \A y \in S : ~(<<y, x>> \in OpToRel(<, Nat))
    BY NatLessThanWellFounded, WFMin
<1>2. \A y \in S : <<y, x>> \in Nat \X Nat /\ <<y, x>>[1] = y /\ <<y, x>>[2] = x
    OBVIOUS
<1>3. \A y \in S : ~(y < x)
    BY <1>1, <1>2, Zenon DEF OpToRel
<1>4. \A y \in S : x <= y
    BY <1>3
<1> QED BY <1>1, <1>4 DEF Min

LEMMA SlotIn == ASSUME NEW s \in Nat \ {0} PROVE SlotOf(s) \in 0 .. (Capacity - 1)
BY CapacityAssumption DEF SlotOf

\* What a step does to the ring and its readers.
RingTyped ==
    /\ ring' \in [0 .. (Capacity - 1) -> Slots] /\ heard' \in [Handles -> Slots]
    /\ next_seq' \in Nat \ {0} /\ cursor' \in [Handles -> Nat] /\ closed' \subseteq Handles

\* A frame put into the ring under the handle it came from.
LEMMA PublishCredits ==
    ASSUME Shape, Credited, TaintedGrows, NEW frame \in Frames, NEW origin \in Handles \cup {Nobody},
           NEW src \in Handles \cup {Nobody}, Publish(frame, origin, src), frame \notin tainted' => origin = src,
           UNCHANGED <<cursor, closed, heard>>
    PROVE  RingTyped /\ Credited'
<1> DEFINE r == [seq |-> next_seq, frame |-> frame, origin |-> origin, src |-> src]
<1>1. ring \in [0 .. (Capacity - 1) -> Slots] /\ next_seq \in Nat \ {0}
    BY DEF Shape
<1>2. SlotOf(next_seq) \in 0 .. (Capacity - 1) /\ ring' = [ring EXCEPT ![SlotOf(next_seq)] = r] /\ next_seq' = next_seq + 1
    BY <1>1, SlotIn DEF Publish, Put
<1>3. r \in Slots /\ r.frame = frame /\ r.origin = origin /\ r.src = src
    BY <1>1 DEF Slots
<1> HIDE DEF r
<1>4. ring' \in [0 .. (Capacity - 1) -> Slots] /\ \A i \in 0 .. (Capacity - 1) : ring'[i] = r \/ ring'[i] = ring[i]
    BY <1>1, <1>2, <1>3
<1>5. RingTyped
    BY <1>1, <1>2, <1>4 DEF RingTyped, Shape
<1>6. AttributionExact'
    BY <1>1, <1>3, <1>4 DEF Credited, AttributionExact, TaintedGrows
<1>7. NoSelfEcho'
    BY DEF Credited, NoSelfEcho, TaintedGrows
<1> QED BY <1>5, <1>6, <1>7 DEF Credited

LEMMA IngressCredits ==
    ASSUME Shape, Turns, Numbered, InOrder, AddsUp, Credited, Ingress
    PROVE  RingTyped /\ Credited'
<1> DEFINE in    == Head(rxq)
           equal == Equal(Kept(pending), in.frame)
<1>1. rxq # <<>> /\ rxq' = Tail(rxq) /\ onwire' = onwire /\ UNCHANGED <<cursor, closed, heard>>
    BY DEF Ingress
<1>2. in \in Ingresses /\ (~in.tx_ack => in.src = Nobody)
    BY <1>1, IngressAcks
<1>3. in.frame \in Frames /\ in.src \in Handles \cup {Nobody}
    BY <1>2 DEF Ingresses
<1>4. TaintedGrows
    BY TaintedStep DEF Next
<1>5. CASE ~in.tx_ack /\ Publish(in.frame, Nobody, in.src)
    BY <1>1, <1>2, <1>3, <1>4, <1>5, PublishCredits
<1>6. CASE in.tx_ack /\ equal # {} /\ Publish(in.frame, Oldest(equal).origin, in.src)
  <2>1. equal \subseteq PendingSends
      BY EqualAre DEF Shape
  <2>2. Oldest(equal) \in PendingSends
      BY <1>6, <2>1, OldestIsOne
  <2>3. Oldest(equal).origin \in Handles
      BY <2>2 DEF PendingSends
  <2>4. in.frame \notin tainted' => Oldest(equal).origin = in.src
      BY <1>6, Owner
  <2> HIDE DEF in, equal
  <2> QED BY <1>1, <1>3, <1>4, <1>6, <2>3, <2>4, PublishCredits
<1>7. CASE UNCHANGED <<ring, next_seq>>
  <2>1. RingTyped
      BY <1>1, <1>7 DEF RingTyped, Shape
  <2> QED BY <1>1, <1>4, <1>7, <2>1 DEF Credited, AttributionExact, NoSelfEcho, TaintedGrows
<1> QED BY <1>5, <1>6, <1>7 DEF Ingress

\* A receive passes over the handle's own frames.
LEMMA recvCredits ==
    ASSUME Shape, Credited, NEW h \in Handles, recv(h)
    PROVE  RingTyped /\ Credited'
<1> DEFINE from     == OwnCursor(cursor[h], oldest_locked(next_seq))
           readable == Readable(ring, h, from, next_seq)
           at       == Advance(readable, next_seq)
<1>1. /\ ring \in [0 .. (Capacity - 1) -> Slots] /\ heard \in [Handles -> Slots] /\ next_seq \in Nat \ {0}
      /\ cursor \in [Handles -> Nat] /\ closed \subseteq Handles
    BY DEF Shape
<1>2. /\ cursor' = [cursor EXCEPT ![h] = at] /\ UNCHANGED <<ring, next_seq, closed, tainted>>
      /\ readable = {} => heard' = heard
      /\ readable # {} => heard' = [heard EXCEPT ![h] = ring[SlotOf(Min(readable))]]
    BY <1>1 DEF recv
<1>3. oldest_locked(next_seq) \in Nat \ {0}
    BY <1>1, CapacityAssumption DEF oldest_locked
<1>4. from \in Nat \ {0}
    BY <1>1, <1>3 DEF OwnCursor
<1> HIDE DEF from
<1>5. readable \subseteq Nat \ {0} /\ \A s \in readable : ring[SlotOf(s)].origin # h
    BY <1>1, <1>4 DEF Readable
<1> HIDE DEF readable
<1>6. readable # {} => Min(readable) \in readable
    BY <1>5, FirstOf
<1>7. at \in Nat
  <2>1. CASE readable = {}
      BY <1>1, <2>1 DEF Advance
  <2>2. CASE readable # {}
    <3>1. Min(readable) \in Nat
        BY <1>5, <1>6, <2>2
    <3>2. at = Min(readable) + 1
        BY <2>2 DEF Advance
    <3> QED BY <3>1, <3>2
  <2> QED BY <2>1, <2>2
<1>8. readable # {} => /\ SlotOf(Min(readable)) \in 0 .. (Capacity - 1) /\ ring[SlotOf(Min(readable))] \in Slots
                       /\ ring[SlotOf(Min(readable))].origin # h
  <2>1. ASSUME readable # {} PROVE SlotOf(Min(readable)) \in 0 .. (Capacity - 1)
      BY <1>5, <1>6, <2>1, SlotIn
  <2> QED BY <1>1, <1>5, <1>6, <2>1
<1> HIDE DEF at
<1>9. heard' \in [Handles -> Slots]
    BY <1>1, <1>2, <1>8
<1>10. RingTyped
    BY <1>1, <1>2, <1>7, <1>9 DEF RingTyped
<1>11. AttributionExact'
    BY <1>2 DEF Credited, AttributionExact
<1>12. ASSUME NEW k \in Handles, heard'[k].src = k PROVE heard'[k].frame \in tainted'
  <2>1. CASE heard'[k] = heard[k]
      BY <1>2, <1>12, <2>1 DEF Credited, NoSelfEcho
  <2>2. CASE heard'[k] # heard[k]
    <3>1. readable # {} /\ k = h /\ heard'[k] = ring[SlotOf(Min(readable))]
        BY <1>1, <1>2, <2>2
    <3>2. SlotOf(Min(readable)) \in DOMAIN ring
        BY <1>1, <1>8, <3>1
    <3> QED BY <1>2, <1>8, <1>12, <3>1, <3>2 DEF Credited, AttributionExact
  <2> QED BY <2>1, <2>2
<1> QED BY <1>10, <1>11, <1>12 DEF Credited, NoSelfEcho

LEMMA CreditedStep ==
    ASSUME Shape, Turns, Numbered, InOrder, AddsUp, Credited, [Next]_vars
    PROVE  RingTyped /\ Credited'
<1>1. CASE Ingress
    BY <1>1, IngressCredits
<1>2. CASE \E h \in Handles : recv(h)
    BY <1>2, recvCredits
<1>3. ASSUME ~Ingress, ~\E h \in Handles : recv(h) PROVE RingTyped /\ Credited'
  <2>1. TaintedGrows
      BY TaintedStep
  <2>2. UNCHANGED <<ring, next_seq, cursor, heard>>
      BY <1>3 DEF Next, vars, history, SendLocks, Commit, Refuse, Emit, WriteReturns, WriteFails, close, Poll,
                  Acknowledge, Lose, Lapse, Receive
  <2>3. UNCHANGED closed \/ \E h \in Handles : close(h)
      BY <1>3 DEF Next, vars, SendLocks, Commit, Refuse, Emit, WriteReturns, WriteFails, Poll, Acknowledge, Lose, Lapse, Receive
  <2>4. closed' \subseteq Handles
      BY <2>3 DEF close, Shape
  <2>5. RingTyped
      BY <2>2, <2>4 DEF RingTyped, Shape
  <2> QED BY <2>1, <2>2, <2>5 DEF Credited, AttributionExact, NoSelfEcho, TaintedGrows
<1> QED BY <1>1, <1>2, <1>3

-------------------------------------------------------------------------------
(* Every send is accounted for *)

\* What is retired leaves `pending` and enters a counter.
LEMMA RetiredParts ==
    ASSUME Shape, NEW gone \in SUBSET pending, retire_pending(gone)
    PROVE  /\ IsFiniteSet(gone) /\ IsFiniteSet(pending \ gone)
           /\ Cardinality(pending) \in Nat /\ Cardinality(gone) \in Nat /\ Cardinality(pending \ gone) \in Nat
           /\ Cardinality(pending) = Cardinality(gone) + Cardinality(pending \ gone)
           /\ expired_tx_acks \in Nat /\ expired_failed_sends \in Nat
           /\ expired_tx_acks' \in Nat /\ expired_failed_sends' \in Nat
           /\ expired_tx_acks' + expired_failed_sends' = expired_tx_acks + expired_failed_sends + Cardinality(gone)
<1>1. IsFiniteSet(pending) /\ expired_tx_acks \in Nat /\ expired_failed_sends \in Nat
    BY DEF Shape
<1>2. /\ IsFiniteSet(gone) /\ IsFiniteSet(pending \ gone)
      /\ Cardinality(pending) \in Nat /\ Cardinality(gone) \in Nat /\ Cardinality(pending \ gone) \in Nat
      /\ Cardinality(pending) = Cardinality(gone) + Cardinality(pending \ gone)
    BY <1>1, Parts
<1> QED BY <1>1, <1>2, Retired

LEMMA AccountedStep ==
    ASSUME Shape, Turns, Numbered, EverySendAccounted, [Next]_vars
    PROVE  EverySendAccounted'
<1>1. /\ committed \in Nat /\ matched \in Nat /\ cancelled \in Nat /\ expired_tx_acks \in Nat
      /\ expired_failed_sends \in Nat /\ IsFiniteSet(pending)
    BY DEF Shape
<1>2. Cardinality(pending) \in Nat
    BY <1>1, FS_CardinalityType
<1>3. ASSUME SamePending, UNCHANGED <<committed, matched, cancelled, expired_tx_acks, expired_failed_sends>>
      PROVE  EverySendAccounted'
    BY <1>3 DEF SamePending, EverySendAccounted
<1>4. ASSUME NEW h \in Handles, Commit(h) PROVE EverySendAccounted'
  <2>1. PICK gone \in SUBSET pending : pending' = (pending \ gone) \cup {Entry(h)} /\ retire_pending(gone)
      BY <1>4, CommitPending
  <2>2. Entry(h) \notin pending \ gone
      BY <1>4, CommitPending
  <2>3. /\ IsFiniteSet(pending \ gone) /\ Cardinality(pending \ gone) \in Nat /\ Cardinality(gone) \in Nat
        /\ Cardinality(pending) = Cardinality(gone) + Cardinality(pending \ gone)
        /\ expired_tx_acks' \in Nat /\ expired_failed_sends' \in Nat
        /\ expired_tx_acks' + expired_failed_sends' = expired_tx_acks + expired_failed_sends + Cardinality(gone)
      BY <2>1, RetiredParts
  <2>4. Cardinality(pending') = Cardinality(pending \ gone) + 1
      BY <2>1, <2>2, <2>3, FS_AddElement
  <2>5. committed' = committed + 1 /\ matched' = matched /\ cancelled' = cancelled
      BY <1>4 DEF Commit
  <2> QED BY <1>1, <1>2, <2>3, <2>4, <2>5 DEF EverySendAccounted
<1>5. ASSUME NEW h \in Handles, Refuse(h) PROVE EverySendAccounted'
  <2> DEFINE gone == pending \ pending'
  <2>1. /\ pending' \subseteq pending /\ cancelled' = cancelled + Cardinality(gone)
        /\ UNCHANGED <<committed, matched, expired_tx_acks, expired_failed_sends>>
      BY <1>5 DEF Refuse, cancel_pending, counters
  <2> HIDE DEF gone
  <2>2. Cardinality(pending) = Cardinality(pending') + Cardinality(gone) /\ Cardinality(pending') \in Nat /\ Cardinality(gone) \in Nat
      BY <1>1, <2>1, Parts DEF gone
  <2> QED BY <1>1, <1>2, <2>1, <2>2 DEF EverySendAccounted
<1>6. ASSUME Ingress \/ Poll PROVE EverySendAccounted'
  <2>1. retire_pending(Expired(pending)) /\ Expired(pending) \in SUBSET pending /\ Kept(pending) = pending \ Expired(pending)
      BY <1>6, KeptAre DEF Ingress, Poll
  <2> DEFINE gone == Expired(pending)
             kept == pending \ gone
  <2>2. /\ IsFiniteSet(kept) /\ Cardinality(kept) \in Nat /\ Cardinality(gone) \in Nat
        /\ Cardinality(pending) = Cardinality(gone) + Cardinality(kept)
        /\ expired_tx_acks' \in Nat /\ expired_failed_sends' \in Nat
        /\ expired_tx_acks' + expired_failed_sends' = expired_tx_acks + expired_failed_sends + Cardinality(gone)
      BY <2>1, RetiredParts
  <2>3. committed' = committed /\ cancelled' = cancelled
      BY <1>6 DEF Ingress, Poll
  <2>4. \/ pending' = kept /\ matched' = matched
        \/ \E e \in kept : pending' = kept \ {e} /\ matched' = matched + 1
      BY <1>6, <2>1, IngressPending DEF Poll
  <2> HIDE DEF gone, kept
  <2>5. CASE pending' = kept /\ matched' = matched
      BY <1>1, <1>2, <2>2, <2>3, <2>5 DEF EverySendAccounted
  <2>6. ASSUME NEW e \in kept, pending' = kept \ {e}, matched' = matched + 1 PROVE EverySendAccounted'
    <3>1. Cardinality(pending') = Cardinality(kept) - 1
        BY <2>2, <2>6, FS_RemoveElement
    <3> QED BY <1>1, <1>2, <2>2, <2>3, <2>6, <3>1 DEF EverySendAccounted
  <2> QED BY <2>4, <2>5, <2>6
<1>7. ASSUME NEW h \in Handles, (\E f \in Frames : SendLocks(h, f)) \/ Emit(h) \/ recv(h) \/ close(h) PROVE EverySendAccounted'
    BY <1>3, <1>7, Unstamped DEF SendLocks, Emit, recv, close, counters, history
<1>8. ASSUME NEW h \in Handles, WriteReturns(h) \/ WriteFails(h) PROVE EverySendAccounted'
    BY <1>3, <1>8, WindowSame DEF WriteReturns, WriteFails, counters, history
<1>9. CASE Acknowledge \/ Lose \/ UNCHANGED vars \/ \E f \in Frames : Receive(f)
    BY <1>3, <1>9, Unstamped DEF Acknowledge, Lose, Receive, vars, counters, history
<1>10. CASE Lapse
    BY <1>3, <1>10, LapseSame DEF Lapse, counters, history
<1> QED BY <1>4, <1>5, <1>6, <1>7, <1>8, <1>9, <1>10 DEF Next

-------------------------------------------------------------------------------
(* The theorems *)

LEMMA AcksInit == ASSUME Init PROVE IInv
<1>1. /\ pending = {} /\ rxq = <<>> /\ onwire = <<>> /\ caller = [h \in Handles |-> NoSend] /\ send_mu = Nobody
      /\ ring = [i \in 0 .. (Capacity - 1) |-> NoFrame] /\ heard = [h \in Handles |-> NoFrame]
      /\ next_seq = 1 /\ cursor = [h \in Handles |-> 1] /\ closed = {} /\ next_send_token = 0 /\ committed = 0
      /\ matched = 0 /\ cancelled = 0 /\ unmatched_tx_acks = 0 /\ expired_tx_acks = 0 /\ expired_failed_sends = 0
    BY DEF Init
<1>2. NoSend \in Callers /\ NoSend.pc = "idle" /\ NoFrame \in Slots /\ NoFrame.origin = Nobody /\ NoFrame.src = Nobody
    BY DEF NoSend, NoFrame, Callers, Slots
<1>3. IsFiniteSet(pending) /\ Cardinality(pending) = 0
    BY <1>1, FS_EmptySet
<1>4. Shape
    BY <1>1, <1>2, <1>3, AcksAssumption DEF Shape
<1>5. Acks = {}
    BY <1>1 DEF Acks
<1>6. Turns /\ Numbered /\ AddsUp
    BY <1>1, <1>2, <1>5 DEF Turns, Numbered, AddsUp
<1>7. InOrder
    BY <1>1 DEF InOrder, Rising
<1>8. Credited
    BY <1>1, <1>2, AcksAssumption DEF Credited, AttributionExact, NoSelfEcho
<1>9. EverySendAccounted
    BY <1>1, <1>3 DEF EverySendAccounted
<1> QED BY <1>4, <1>6, <1>7, <1>8, <1>9 DEF IInv

LEMMA AcksStep == ASSUME IInv, [Next]_vars PROVE IInv'
<1>1. Shape /\ Turns /\ Numbered /\ InOrder /\ AddsUp /\ Credited /\ EverySendAccounted
    BY DEF IInv
<1>2. CallerStep
    BY Senders
<1>3. Turns' /\ caller' \in [Handles -> Callers] /\ send_mu' \in Handles \cup {Nobody} /\ next_send_token' \in Nat
    BY <1>1, <1>2, TurnsKept
<1>4. InOrder' /\ rxq' \in Seq(Ingresses) /\ onwire' \in Seq(Ingresses)
    BY <1>1, StreamStep
<1>5. Numbered'
    BY <1>1, NumberedStep
<1>6. AddsUp'
    BY <1>1, AddsUpStep
<1>7. RingTyped /\ Credited'
    BY <1>1, CreditedStep
<1>8. EverySendAccounted'
    BY <1>1, AccountedStep
<1>9. /\ pending' \subseteq PendingSends /\ IsFiniteSet(pending') /\ Cardinality(pending') <= PendingCap
      /\ committed' \in Nat /\ matched' \in Nat /\ cancelled' \in Nat
      /\ unmatched_tx_acks' \in Nat /\ expired_tx_acks' \in Nat /\ expired_failed_sends' \in Nat
    BY <1>1, PendingShape, CountersTyped
<1>10. Shape'
    BY <1>3, <1>4, <1>7, <1>9 DEF Shape, RingTyped
<1> QED BY <1>3, <1>4, <1>5, <1>6, <1>7, <1>8, <1>10 DEF IInv

\* What SharedEntry and its senders keep, for any number of handles, frames and sends, any capacities
\* of the ring and of `pending`: senders take turns, acknowledgements come in the order of the sends,
\* and of a frame none of whose acknowledgements was lost the sends pending are those to come.
THEOREM AcksInductive == Spec => []IInv
<1>1. IInv /\ [Next]_vars => IInv'
    BY AcksStep
<1> QED BY AcksInit, <1>1, PTL DEF Spec

\* The shared state of the acknowledging hub stays within its types, and SharedEntry.pending never
\* outgrows shared_pending_capacity, whatever that is.
THEOREM AcksTypes == Spec => []TypeOK
<1>1. IInv => TypeOK
  <2> SUFFICES ASSUME IInv PROVE TypeOK
      OBVIOUS
  <2>1. Shape
      BY DEF IInv
  <2>2. \A h \in Handles : caller[h].pc \in {"idle", "locked", "committed", "emitted"}
      BY <2>1 DEF Shape, Callers
  <2> QED BY <2>1, <2>2 DEF Shape, TypeOK
<1> QED BY <1>1, AcksInductive, PTL

\* SharedEntry.read_loop credits every acknowledgement of a frame to the handle that sent it, as long
\* as none of that frame was lost, failed or lapsed, however many handles send identical frames.
THEOREM AttributionAlwaysExact == Spec => []AttributionExact
<1>1. IInv => AttributionExact
    BY DEF IInv, Credited
<1> QED BY <1>1, AcksInductive, PTL

\* SharedHandle.recv returns a handle's own frame only if that frame's acknowledgements no longer add
\* up: the no-self-loop contract, however the ring and the readers stand.
THEOREM NeverSelfEcho == Spec => []NoSelfEcho
<1>1. IInv => NoSelfEcho
    BY DEF IInv, Credited
<1> QED BY <1>1, AcksInductive, PTL

\* Nothing leaves SharedEntry.pending uncounted, by expiry, by capacity, by credit or by cancellation.
THEOREM EverySendAlwaysAccounted == Spec => []EverySendAccounted
<1>1. IInv => EverySendAccounted
    BY DEF IInv
<1> QED BY <1>1, AcksInductive, PTL

\* SharedEntry.read_loop never credits an acknowledgement to a send whose deadline had passed: all that
\* were due leave, and are counted, in the step that credits it.
THEOREM NeverStaleCredit == Spec => NoStaleCredit
<1>1. IInv /\ [Next]_vars =>
          [matched' > matched =>
              (expired_tx_acks' + expired_failed_sends') - (expired_tx_acks + expired_failed_sends)
                  = Cardinality({e \in pending : e.life = "due"})]_vars
  <2> SUFFICES ASSUME IInv, [Next]_vars, matched' > matched
               PROVE  (expired_tx_acks' + expired_failed_sends') - (expired_tx_acks + expired_failed_sends)
                          = Cardinality({e \in pending : e.life = "due"})
      OBVIOUS
  <2>1. Shape
      BY DEF IInv
  <2>2. matched' # matched
      BY <2>1 DEF Shape
  <2>3. Ingress
      BY <2>2 DEF Next, vars, history, SendLocks, Commit, Refuse, Emit, WriteReturns, WriteFails, recv, close, Poll,
                  Acknowledge, Lose, Lapse, Receive
  <2>4. /\ retire_pending(Expired(pending)) /\ Expired(pending) \in SUBSET pending
        /\ Expired(pending) = {e \in pending : e.life = "due"}
      BY <2>1, <2>3, IngressPending, KeptAre
  <2> DEFINE due == {e \in pending : e.life = "due"}
  <2>5. /\ expired_tx_acks \in Nat /\ expired_failed_sends \in Nat /\ Cardinality(due) \in Nat
        /\ expired_tx_acks' \in Nat /\ expired_failed_sends' \in Nat
        /\ expired_tx_acks' + expired_failed_sends' = expired_tx_acks + expired_failed_sends + Cardinality(due)
      BY <2>1, <2>4, RetiredParts
  <2> HIDE DEF due
  <2>6. (expired_tx_acks' + expired_failed_sends') - (expired_tx_acks + expired_failed_sends) = Cardinality(due)
      BY <2>5
  <2> QED BY <2>6 DEF due
<1> QED BY <1>1, AcksInductive, PTL DEF Spec, NoStaleCredit

\* SharedEntry.read_loop drops an acknowledgement as ownerless only if that frame's no longer add up:
\* one that arrives before the write call has returned finds its send.
THEOREM AcknowledgedFramesAlwaysAppear == Spec => AcknowledgedFramesAppear
<1>1. IInv /\ [Next]_vars =>
          [unmatched_tx_acks' > unmatched_tx_acks => Head(rxq).frame \in tainted']_vars
  <2> SUFFICES ASSUME IInv, [Next]_vars, unmatched_tx_acks' > unmatched_tx_acks
               PROVE  Head(rxq).frame \in tainted'
      OBVIOUS
  <2>1. Shape /\ Turns /\ Numbered /\ InOrder /\ AddsUp
      BY DEF IInv
  <2>2. unmatched_tx_acks' # unmatched_tx_acks
      BY <2>1 DEF Shape
  <2>3. Ingress
      BY <2>2 DEF Next, vars, counters, SendLocks, Commit, Refuse, Emit, WriteReturns, WriteFails, recv, close, Poll,
                  Acknowledge, Lose, Lapse, Receive
  <2>4. Head(rxq).tx_ack /\ Equal(Kept(pending), Head(rxq).frame) = {}
      BY <2>2, <2>3 DEF Ingress
  <2> QED BY <2>1, <2>3, <2>4, Owner
<1> QED BY <1>1, AcksInductive, PTL DEF Spec, AcknowledgedFramesAppear
===============================================================================
