------------------------------ MODULE IsoTpProofs ------------------------------
(***************************************************************************)
(* What a software ISO-TP channel promises its caller, for any sizes of    *)
(* messages, block sizes and statuses, any peer, calls, stops and failing  *)
(* writes.                                                                 *)
(*                                                                         *)
(* Read away on a dirty channel is only what came in since the bad end:    *)
(* a message read makes the channel clean (Dirty).  Never put together of  *)
(* two messages: what is queued here and what the peer is to say next is   *)
(* one line in which messages follow each other and, past a First Frame,   *)
(* no Consecutive Frame is missing, so the frame with the number expected  *)
(* is the frame expected, or a loss away from it (InLine, SameNumber).     *)
(* Cleared by its own: while the channel is clean every frame of a         *)
(* transfer on its way, and every Flow Control, is of the one under way;   *)
(* sender and peer count the same block (Flowed).                          *)
(***************************************************************************)
EXTENDS IsoTp, TLAPS

-------------------------------------------------------------------------------
(* The frames on their way here *)

\* A frame of a message of the peer's own, and the one it is to say next of the message it is
\* sending: the line is what is queued and, last, what is due.
IsOwn(f) == f.k \in {"SF", "FF", "CF"}
Silence == Flow("none", 0, NoMessage)
Due == IF peer.tx = NoRx THEN Silence ELSE Frame("CF", peer.tx.m, peer.tx.next)
Line == Append(rxq, Due)

\* Between p and q the message of q begins.
Begins(s, p, q) == \E f \in DOMAIN s : p < f /\ f < q /\ s[f].k = "FF" /\ s[f].m = s[q].m

\* Behind p and ahead of q is the Consecutive Frame before q.
Preceded(s, p, q) ==
    \E f \in DOMAIN s : p < f /\ f < q /\ s[f].k = "CF" /\ s[f].m = s[q].m /\ s[f].i + 1 = s[q].i

\* The peer's messages follow each other: a later frame is not of an earlier message, a
\* Consecutive Frame is of the message before it or of one begun in between, and within a
\* message they rise.
Follows(s, p, q) ==
    /\ s[p].m.id <= s[q].m.id
    /\ s[q].k # "CF" => s[p].m.id < s[q].m.id
    /\ s[q].k = "CF" /\ s[p].m.id = s[q].m.id =>
          s[p].m = s[q].m /\ (s[p].k = "CF" => s[p].i <= s[q].i)
    /\ s[q].k = "CF" /\ s[p].m.id # s[q].m.id => Begins(s, p, q)

Rising(s) == \A p, q \in DOMAIN s : p < q /\ IsOwn(s[p]) /\ IsOwn(s[q]) => Follows(s, p, q)

\* After a First Frame none is missing: a frame is lost at the head of the queue only.
Gapless(s) ==
    \A f, q \in DOMAIN s : f < q /\ s[f].k = "FF" /\ s[q].k = "CF" /\ s[f].m = s[q].m =>
        s[q].i = 1 \/ Preceded(s, f, q)

\* What continues a transfer in progress: frames of its message from about where it stands - one
\* back if the last was repeated, as many further as were lost - or of a later message begun first.
Continues(s, r, gone) ==
    r # NoRx => \A q \in DOMAIN s : s[q].k = "CF" =>
        \/ Begins(s, 0, q)
        \/ /\ s[q].m = r.m /\ r.next <= s[q].i + 1
           /\ s[q].i <= r.next + gone \/ Preceded(s, 0, q)

\* No message is ahead of its beginning.
Said(s, n) == \A q \in DOMAIN s : IsOwn(s[q]) => s[q].m.id <= n

InLine(s, r, gone, n) == Rising(s) /\ Gapless(s) /\ Continues(s, r, gone) /\ Said(s, n)

-------------------------------------------------------------------------------
(* The invariant *)

Calls == [pc : {"idle", "flush", "first", "await", "sending", "recv", "drain"}, m : Messages,
          off : Nat, bs : Nat, in_block : Nat, waits : Nat, fc : Messages]
PeerStates == [rx : Receptions, owes : BOOLEAN, bs : Nat, in_block : Nat, tx : Receptions,
               go : BOOLEAN, over : BOOLEAN]
Shape ==
    /\ rx \in Receptions /\ call \in Calls /\ peer \in PeerStates
    /\ rxq \in Seq(Frames) /\ txq \in Seq(Frames)
    /\ said \in Nat /\ lost \in 0 .. MaxLost /\ sent \in Nat
    /\ fc_dirty \in BOOLEAN /\ stop \in BOOLEAN /\ exposed \in BOOLEAN
    /\ got \in Seq([id : Nat, whole : BOOLEAN]) /\ bad \in Nat

\* A transfer is kept between two receives, and lost by any other call.
Kept == call.pc \notin {"idle", "recv"} => rx = NoRx

\* No message has been read since a channel became dirty.
Dirty ==
    /\ fc_dirty => Len(got) = bad
    /\ call.pc = "flush" => fc_dirty
    /\ call.pc \in {"first", "await", "sending"} => ~fc_dirty

Whole == rx.whole /\ NoSplice

-------------------------------------------------------------------------------
(* The line *)

\* The frames at S of a line are those of another line, in its order and from behind `from` on with
\* none of a message left out in between: what the other line promises of them, this one does.
Keeps(s, t, S, back, from) ==
    /\ S \subseteq DOMAIN t /\ back \in [S -> DOMAIN s]
    /\ \A i \in S : t[i] = s[back[i]] /\ from < back[i]
    /\ \A i, j \in S : i < j <=> back[i] < back[j]
    /\ \A i \in S, j \in DOMAIN s :
          from < j /\ j < back[i] /\ IsOwn(s[j]) => \E l \in S : back[l] = j

LEMMA Kinds == \A f \in Frames : (f.k = "CF" \/ f.k = "FF" => IsOwn(f)) /\ f.i \in Nat /\ f.m.id \in Nat
BY DEF IsOwn, Frames, Messages

LEMMA KeepsBegins ==
    ASSUME NEW s \in Seq(Frames), NEW t \in Seq(Frames), NEW S, NEW back, NEW from \in Nat,
           Keeps(s, t, S, back, from), NEW q \in S
    PROVE  /\ \A p \in S : Begins(s, back[p], back[q]) => Begins(t, p, q)
           /\ Begins(s, from, back[q]) => Begins(t, 0, q)
<1>0. DOMAIN s = 1 .. Len(s) /\ DOMAIN t = 1 .. Len(t) /\ Len(s) \in Nat /\ Len(t) \in Nat
    OBVIOUS
<1>1. \A f \in DOMAIN s : s[f] \in Frames
    BY <1>0
<1>2. ASSUME NEW f \in DOMAIN s, from < f, f < back[q], s[f].k = "FF", s[f].m = s[back[q]].m
      PROVE  \E l \in S : /\ back[l] = f /\ l < q /\ t[l].k = "FF" /\ t[l].m = t[q].m
                          /\ l \in DOMAIN t /\ 0 < l
  <2>1. PICK l \in S : back[l] = f
      BY <1>1, <1>2, Kinds DEF Keeps
  <2>2. t[l] = s[f] /\ t[q] = s[back[q]] /\ l < q /\ l \in DOMAIN t
      BY <1>2, <2>1 DEF Keeps
  <2> QED BY <1>0, <1>2, <2>1, <2>2
<1>3. ASSUME NEW p \in S, Begins(s, back[p], back[q])
      PROVE  Begins(t, p, q)
  <2>1. PICK f \in DOMAIN s : back[p] < f /\ f < back[q] /\ s[f].k = "FF" /\ s[f].m = s[back[q]].m
      BY <1>3 DEF Begins
  <2>2. back[p] \in DOMAIN s /\ from < back[p]
      BY DEF Keeps
  <2>3. from < f
      BY <1>0, <2>1, <2>2
  <2>4. PICK l \in S : back[l] = f /\ l < q /\ t[l].k = "FF" /\ t[l].m = t[q].m /\ l \in DOMAIN t
      BY <1>2, <2>1, <2>3
  <2>5. p < l
      BY <2>1, <2>4 DEF Keeps
  <2> QED BY <2>4, <2>5 DEF Begins
<1>4. ASSUME Begins(s, from, back[q])
      PROVE  Begins(t, 0, q)
  <2>1. PICK f \in DOMAIN s : from < f /\ f < back[q] /\ s[f].k = "FF" /\ s[f].m = s[back[q]].m
      BY <1>4 DEF Begins
  <2> QED BY <1>2, <2>1 DEF Begins
<1> QED BY <1>3, <1>4

LEMMA KeepsPreceded ==
    ASSUME NEW s \in Seq(Frames), NEW t \in Seq(Frames), NEW S, NEW back, NEW from \in Nat,
           Keeps(s, t, S, back, from), NEW q \in S
    PROVE  /\ \A p \in S : Preceded(s, back[p], back[q]) => Preceded(t, p, q)
           /\ Preceded(s, from, back[q]) => Preceded(t, 0, q)
<1>0. DOMAIN s = 1 .. Len(s) /\ DOMAIN t = 1 .. Len(t) /\ Len(s) \in Nat /\ Len(t) \in Nat
    OBVIOUS
<1>1. \A f \in DOMAIN s : s[f] \in Frames
    BY <1>0
<1>2. ASSUME NEW f \in DOMAIN s, from < f, f < back[q], s[f].k = "CF", s[f].m = s[back[q]].m,
             s[f].i + 1 = s[back[q]].i
      PROVE  \E l \in S : /\ back[l] = f /\ l < q /\ t[l].k = "CF" /\ t[l].m = t[q].m
                          /\ t[l].i + 1 = t[q].i /\ l \in DOMAIN t /\ 0 < l
  <2>1. PICK l \in S : back[l] = f
      BY <1>1, <1>2, Kinds DEF Keeps
  <2>2. t[l] = s[f] /\ t[q] = s[back[q]] /\ l < q /\ l \in DOMAIN t
      BY <1>2, <2>1 DEF Keeps
  <2> QED BY <1>0, <1>2, <2>1, <2>2
<1>3. ASSUME NEW p \in S, Preceded(s, back[p], back[q])
      PROVE  Preceded(t, p, q)
  <2>1. PICK f \in DOMAIN s : /\ back[p] < f /\ f < back[q] /\ s[f].k = "CF" /\ s[f].m = s[back[q]].m
                              /\ s[f].i + 1 = s[back[q]].i
      BY <1>3 DEF Preceded
  <2>2. back[p] \in DOMAIN s /\ from < back[p]
      BY DEF Keeps
  <2>3. from < f
      BY <1>0, <2>1, <2>2
  <2>4. PICK l \in S : /\ back[l] = f /\ l < q /\ t[l].k = "CF" /\ t[l].m = t[q].m
                       /\ t[l].i + 1 = t[q].i /\ l \in DOMAIN t
      BY <1>2, <2>1, <2>3
  <2>5. p < l
      BY <2>1, <2>4 DEF Keeps
  <2> QED BY <2>4, <2>5 DEF Preceded
<1>4. ASSUME Preceded(s, from, back[q])
      PROVE  Preceded(t, 0, q)
  <2>1. PICK f \in DOMAIN s : /\ from < f /\ f < back[q] /\ s[f].k = "CF" /\ s[f].m = s[back[q]].m
                              /\ s[f].i + 1 = s[back[q]].i
      BY <1>4 DEF Preceded
  <2> QED BY <1>2, <2>1 DEF Preceded
<1> QED BY <1>3, <1>4

\* Two of the frames kept follow each other as they did, and are as gapless.
LEMMA KeepsPairs ==
    ASSUME NEW s \in Seq(Frames), NEW t \in Seq(Frames), NEW S, NEW back, NEW from \in Nat,
           Keeps(s, t, S, back, from), Rising(s), Gapless(s), NEW p \in S, NEW q \in S, p < q
    PROVE  /\ IsOwn(t[p]) /\ IsOwn(t[q]) => Follows(t, p, q)
           /\ t[p].k = "FF" /\ t[q].k = "CF" /\ t[p].m = t[q].m => t[q].i = 1 \/ Preceded(t, p, q)
<1>1. /\ t[p] = s[back[p]] /\ t[q] = s[back[q]] /\ back[p] < back[q]
      /\ back[p] \in DOMAIN s /\ back[q] \in DOMAIN s
    BY DEF Keeps
<1>2. IsOwn(t[p]) /\ IsOwn(t[q]) => Follows(s, back[p], back[q])
    BY <1>1 DEF Rising
<1>3. Begins(s, back[p], back[q]) => Begins(t, p, q)
    BY KeepsBegins
<1>4. Preceded(s, back[p], back[q]) => Preceded(t, p, q)
    BY KeepsPreceded
<1>5. t[p].k = "FF" /\ t[q].k = "CF" /\ t[p].m = t[q].m => t[q].i = 1 \/ Preceded(s, back[p], back[q])
    BY <1>1 DEF Gapless
<1>6. IsOwn(t[p]) /\ IsOwn(t[q]) => Follows(t, p, q)
    BY <1>1, <1>2, <1>3 DEF Follows
<1> QED BY <1>4, <1>5, <1>6

\* Where no frame of a message is new, and none left out, the line is as it was.
LEMMA KeepsLine ==
    ASSUME NEW s \in Seq(Frames), NEW t \in Seq(Frames), NEW S, NEW back, Keeps(s, t, S, back, 0),
           \A i \in DOMAIN t : IsOwn(t[i]) => i \in S,
           NEW r, NEW gone \in Nat, NEW more \in Nat, gone <= more, r # NoRx => r.next \in Nat,
           NEW n, InLine(s, r, gone, n)
    PROVE  InLine(t, r, more, n)
<1>1. \A i \in DOMAIN t : t[i] \in Frames
    OBVIOUS
<1>2. \A i \in DOMAIN t : t[i].k \in {"CF", "FF"} => i \in S
    BY <1>1, Kinds
<1>3. S \subseteq DOMAIN t /\ 0 \in Nat
    BY DEF Keeps
<1>4. Rising(t)
    BY KeepsPairs DEF InLine, Rising
<1>5. Gapless(t)
    BY <1>2, <1>3, KeepsPairs DEF InLine, Gapless
<1>6. Said(t, n)
  <2>1. \A i \in S : back[i] \in DOMAIN s /\ t[i] = s[back[i]]
      BY DEF Keeps
  <2> QED BY <2>1 DEF InLine, Said
<1>7. Continues(t, r, more)
  <2> SUFFICES ASSUME r # NoRx, NEW q \in DOMAIN t, t[q].k = "CF"
               PROVE  \/ Begins(t, 0, q)
                      \/ /\ t[q].m = r.m /\ r.next <= t[q].i + 1
                         /\ t[q].i <= r.next + more \/ Preceded(t, 0, q)
      BY DEF Continues
  <2>1. q \in S /\ back[q] \in DOMAIN s /\ t[q] = s[back[q]] /\ t[q].i \in Nat
      BY <1>1, <1>2, Kinds DEF Keeps
  <2>2. \/ Begins(s, 0, back[q])
        \/ /\ s[back[q]].m = r.m /\ r.next <= s[back[q]].i + 1
           /\ s[back[q]].i <= r.next + gone \/ Preceded(s, 0, back[q])
      BY <2>1 DEF InLine, Continues
  <2>3. Begins(s, 0, back[q]) => Begins(t, 0, q)
      BY <1>3, <2>1, KeepsBegins
  <2>4. Preceded(s, 0, back[q]) => Preceded(t, 0, q)
      BY <1>3, <2>1, KeepsPreceded
  <2>5. t[q].i <= r.next + gone => t[q].i <= r.next + more
      BY <2>1
  <2> QED BY <2>1, <2>2, <2>3, <2>4, <2>5
<1> QED BY <1>4, <1>5, <1>6, <1>7 DEF InLine

\* A frame joins the line that is of no message of the peer's own, ahead of the one due.
LEMMA JoinsLine ==
    ASSUME NEW u \in Seq(Frames), NEW d \in Frames, NEW f \in Frames, ~IsOwn(f),
           NEW r, NEW gone \in Nat, NEW more \in Nat, gone <= more, r # NoRx => r.next \in Nat,
           NEW n, InLine(Append(u, d), r, gone, n)
    PROVE  InLine(Append(Append(u, f), d), r, more, n)
<1> DEFINE s == Append(u, d)
           t == Append(Append(u, f), d)
           L == Len(u) + 1
           S == DOMAIN t \ {L}
           back == [i \in S |-> IF i > L THEN L ELSE i]
<1>1. /\ L \in Nat \ {0} /\ s \in Seq(Frames) /\ t \in Seq(Frames)
      /\ DOMAIN s = 1 .. L /\ DOMAIN t = 1 .. (L + 1)
      /\ t[L] = f /\ t[L + 1] = d /\ s[L] = d /\ \A i \in 1 .. (L - 1) : t[i] = s[i]
    OBVIOUS
<1> HIDE DEF s, t, L
<1>2. S = (1 .. (L - 1)) \union {L + 1}
    BY <1>1
<1>3. \A i \in S : back[i] = IF i > L THEN L ELSE i
    OBVIOUS
<1>4. \A j \in DOMAIN s : \E l \in S : back[l] = j
  <2>1. \A j \in 1 .. (L - 1) : j \in S /\ back[j] = j
      BY <1>1, <1>2
  <2>2. L + 1 \in S /\ back[L + 1] = L
      BY <1>1, <1>2
  <2>3. \A j \in DOMAIN s : j \in 1 .. (L - 1) \/ j = L
      BY <1>1
  <2> HIDE DEF back, S
  <2> QED BY <2>1, <2>2, <2>3
<1>5. back \in [S -> DOMAIN s]
    BY <1>1, <1>2
<1>6. \A i, j \in S : i < j <=> back[i] < back[j]
  <2>1. \A i \in S : i \in Nat /\ ((i < L /\ back[i] = i) \/ (i = L + 1 /\ back[i] = L))
      BY <1>1, <1>2, <1>3
  <2> HIDE DEF back, S
  <2> QED BY <1>1, <2>1
<1>7. \A i \in S : t[i] = s[back[i]] /\ 0 < back[i]
    BY <1>1, <1>2, <1>3
<1>8. S \subseteq DOMAIN t
    OBVIOUS
<1> HIDE DEF back, S
<1>9. Keeps(s, t, S, back, 0)
    BY <1>4, <1>5, <1>6, <1>7, <1>8 DEF Keeps
<1>10. \A i \in DOMAIN t : IsOwn(t[i]) => i \in S
    BY <1>1 DEF S
<1>11. InLine(s, r, gone, n)
    BY DEF s
<1>12. InLine(t, r, more, n)
    BY <1>1, <1>9, <1>10, <1>11, KeepsLine
<1> QED BY <1>12 DEF t

\* The frame at the head leaves the line.
LEMMA LeavesLine ==
    ASSUME NEW u \in Seq(Frames), u # <<>>, NEW d \in Frames
    PROVE  LET s == Append(u, d)
               t == Append(Tail(u), d)
           IN  /\ s \in Seq(Frames) /\ t \in Seq(Frames)
               /\ DOMAIN t = 1 .. Len(u) /\ DOMAIN s = 1 .. (Len(u) + 1) /\ Len(u) \in Nat \ {0}
               /\ \A i \in DOMAIN t : t[i] = s[i + 1] /\ i + 1 \in DOMAIN s
               /\ s[1] = Head(u) /\ s[1] \in Frames /\ 1 \in DOMAIN s
               /\ \A q \in DOMAIN t : /\ Begins(s, 1, q + 1) => Begins(t, 0, q)
                                      /\ Preceded(s, 1, q + 1) => Preceded(t, 0, q)
                                      /\ q \in Nat /\ 1 < q + 1 /\ t[q] \in Frames /\ t[q].i \in Nat
               /\ Keeps(s, t, DOMAIN t, [i \in DOMAIN t |-> i + 1], 1)
               /\ ~IsOwn(Head(u)) => Keeps(s, t, DOMAIN t, [i \in DOMAIN t |-> i + 1], 0)
<1> DEFINE s == Append(u, d)
           t == Append(Tail(u), d)
           S == DOMAIN t
           back == [i \in S |-> i + 1]
<1>1. /\ s \in Seq(Frames) /\ t \in Seq(Frames)
      /\ DOMAIN t = 1 .. Len(u) /\ DOMAIN s = 1 .. (Len(u) + 1) /\ Len(u) \in Nat \ {0}
    OBVIOUS
<1>2. \A i \in DOMAIN t : t[i] = s[i + 1] /\ i + 1 \in DOMAIN s
    BY <1>1
<1>3. s[1] = Head(u) /\ 1 \in DOMAIN s
    BY <1>1
<1> HIDE DEF s, t
<1>4. back \in [S -> DOMAIN s]
    BY <1>2
<1>5. \A i \in S : back[i] = i + 1 /\ i \in Nat \ {0} /\ i # 0
    BY <1>1
<1>6. \A j \in DOMAIN s : j # 1 => j - 1 \in S /\ (j - 1) + 1 = j /\ j \in Nat
    BY <1>1
<1> HIDE DEF S
<1>7. \A j \in DOMAIN s : j # 1 => \E l \in S : back[l] = j
    BY <1>5, <1>6
<1> HIDE DEF back
<1>8. /\ \A i \in S : t[i] = s[back[i]] /\ 1 < back[i] /\ 0 < back[i]
      /\ \A i, j \in S : i < j <=> back[i] < back[j]
    BY <1>2, <1>5 DEF S
<1>9. Keeps(s, t, S, back, 1)
    BY <1>4, <1>7, <1>8 DEF Keeps, S
<1>10. ~IsOwn(Head(u)) => Keeps(s, t, S, back, 0)
    BY <1>3, <1>4, <1>7, <1>8 DEF Keeps, S
<1>11. \A q \in S : /\ Begins(s, 1, q + 1) => Begins(t, 0, q)
                    /\ Preceded(s, 1, q + 1) => Preceded(t, 0, q)
    BY <1>1, <1>5, <1>9, KeepsBegins, KeepsPreceded
<1>12. \A q \in S : q \in Nat /\ 1 < q + 1
    BY <1>5
<1>13. \A q \in S : t[q] \in Frames
    BY <1>1 DEF S
<1>14. \A q \in S : t[q].i \in Nat
    BY <1>13, Kinds
<1>15. s[1] \in Frames
    BY <1>1, <1>3
<1> HIDE DEF Keeps, Begins, Preceded
<1> QED BY <1>1, <1>2, <1>3, <1>9, <1>10, <1>11, <1>12, <1>13, <1>14, <1>15 DEF s, t, S, back

\* A frame of no message of the peer's own is read, or one no transfer was in progress for.
LEMMA ReadsPast ==
    ASSUME NEW u \in Seq(Frames), u # <<>>, NEW d \in Frames,
           NEW r, NEW gone \in Nat, r # NoRx => r.next \in Nat,
           NEW n, InLine(Append(u, d), r, gone, n)
    PROVE  /\ InLine(Append(Tail(u), d), NoRx, gone, n)
           /\ ~IsOwn(Head(u)) => InLine(Append(Tail(u), d), r, gone, n)
<1> DEFINE s == Append(u, d)
           t == Append(Tail(u), d)
           S == DOMAIN t
           back == [i \in S |-> i + 1]
<1>1. /\ s \in Seq(Frames) /\ t \in Seq(Frames)
      /\ \A i \in DOMAIN t : t[i] = s[i + 1] /\ i + 1 \in DOMAIN s
      /\ Keeps(s, t, S, back, 1)
      /\ ~IsOwn(Head(u)) => Keeps(s, t, S, back, 0)
    BY LeavesLine, Zenon
<1>2. InLine(s, r, gone, n)
    OBVIOUS
<1> HIDE DEF s, t, back
<1>3. Rising(t)
    BY <1>1, <1>2, KeepsPairs DEF InLine, Rising
<1>4. Gapless(t)
    BY <1>1, <1>2, KeepsPairs DEF InLine, Gapless
<1>5. Said(t, n)
    BY <1>1, <1>2 DEF InLine, Said
<1>6. InLine(t, NoRx, gone, n)
    BY <1>3, <1>4, <1>5 DEF InLine, Continues
<1>7. ASSUME ~IsOwn(Head(u)) PROVE InLine(t, r, gone, n)
  <2>1. gone <= gone /\ \A i \in DOMAIN t : IsOwn(t[i]) => i \in S
      OBVIOUS
  <2>2. Keeps(s, t, S, back, 0)
      BY <1>1, <1>7
  <2> HIDE DEF S
  <2> QED BY <1>1, <1>2, <2>1, <2>2, KeepsLine
<1> QED BY <1>6, <1>7 DEF t

\* The Consecutive Frame at the head is of the transfer in progress, and about where it stands.
LEMMA HeadContinues ==
    ASSUME NEW s \in Seq(Frames), s # <<>>, s[1].k = "CF",
           NEW r, r # NoRx, NEW gone, Continues(s, r, gone)
    PROVE  s[1].m = r.m /\ r.next <= s[1].i + 1 /\ s[1].i <= r.next + gone
<1>1. 1 \in DOMAIN s /\ DOMAIN s \subseteq Nat
    OBVIOUS
<1>2. ~Begins(s, 0, 1) /\ ~Preceded(s, 0, 1)
    BY <1>1 DEF Begins, Preceded
<1> QED BY <1>1, <1>2 DEF Continues

\* A First Frame is read: what continues its message follows.
LEMMA ReadsFirst ==
    ASSUME NEW u \in Seq(Frames), u # <<>>, NEW d \in Frames, Head(u).k = "FF",
           NEW r, NEW gone \in Nat, r # NoRx => r.next \in Nat,
           NEW n, InLine(Append(u, d), r, gone, n)
    PROVE  InLine(Append(Tail(u), d), Begun(Head(u).m), gone, n)
<1> DEFINE s == Append(u, d)
           t == Append(Tail(u), d)
           m == Head(u).m
<1>1. /\ s \in Seq(Frames) /\ t \in Seq(Frames) /\ DOMAIN s = 1 .. (Len(u) + 1) /\ Len(u) \in Nat \ {0}
      /\ DOMAIN t = 1 .. Len(u)
      /\ \A i \in DOMAIN t : t[i] = s[i + 1] /\ i + 1 \in DOMAIN s
      /\ s[1] = Head(u) /\ s[1] \in Frames /\ 1 \in DOMAIN s
      /\ \A q \in DOMAIN t : /\ Begins(s, 1, q + 1) => Begins(t, 0, q)
                             /\ Preceded(s, 1, q + 1) => Preceded(t, 0, q)
                             /\ q \in Nat /\ 1 < q + 1 /\ t[q] \in Frames /\ t[q].i \in Nat
    BY LeavesLine, Zenon
<1>2. InLine(s, r, gone, n)
    OBVIOUS
<1>3. InLine(t, NoRx, gone, n)
    BY ReadsPast
<1> HIDE DEF s, t
<1>6. ASSUME NEW q \in DOMAIN t, t[q].k = "CF"
      PROVE  \/ Begins(t, 0, q)
             \/ /\ t[q].m = m /\ 1 <= t[q].i + 1
                /\ t[q].i <= 1 + gone \/ Preceded(t, 0, q)
  <2>1. q + 1 \in DOMAIN s /\ t[q] = s[q + 1]
      BY <1>1
  <2>2. Follows(s, 1, q + 1)
      BY <1>1, <1>2, <1>1, <1>6, <2>1, Kinds DEF InLine, Rising, IsOwn
  <2>3. CASE t[q].m # m
    <3>1. s[q + 1].m.id # m.id => Begins(s, 1, q + 1)
        BY <1>1, <1>6, <2>1, <2>2 DEF Follows
    <3>2. s[q + 1].m.id = m.id => s[q + 1].m = m
        BY <1>1, <1>6, <2>1, <2>2 DEF Follows
    <3>3. Begins(s, 1, q + 1)
        BY <2>1, <2>3, <3>1, <3>2
    <3> QED BY <1>1, <3>3
  <2>4. CASE t[q].m = m
    <3>1. s[q + 1].i = 1 \/ Preceded(s, 1, q + 1)
        BY <1>1, <1>2, <1>1, <1>6, <2>1, <2>4 DEF InLine, Gapless
    <3>2. Preceded(s, 1, q + 1) => Preceded(t, 0, q)
        BY <1>1
    <3> QED BY <1>1, <2>1, <2>4, <3>1, <3>2
  <2> QED BY <2>3, <2>4
<1>7. Begun(m).m = m /\ Begun(m).next = 1
    BY DEF Begun
<1>8. Continues(t, Begun(m), gone)
    BY <1>6, <1>7 DEF Continues
<1>9. InLine(t, Begun(m), gone, n)
    BY <1>3, <1>8 DEF InLine
<1> QED BY <1>9 DEF t

\* The Consecutive Frame awaited is read; or one is lost.
LEMMA ReadsConsecutive ==
    ASSUME NEW u \in Seq(Frames), u # <<>>, NEW d \in Frames, Head(u).k = "CF",
           NEW r, NEW gone \in Nat, r # NoRx, r.next \in Nat,
           NEW n, InLine(Append(u, d), r, gone, n),
           NEW g, g.m = r.m, g.next = r.next + 1, Head(u).i = r.next
    PROVE  InLine(Append(Tail(u), d), g, gone, n)
<1> DEFINE s == Append(u, d)
           t == Append(Tail(u), d)
<1>1. /\ s \in Seq(Frames) /\ t \in Seq(Frames) /\ DOMAIN s = 1 .. (Len(u) + 1) /\ Len(u) \in Nat \ {0}
      /\ DOMAIN t = 1 .. Len(u)
      /\ \A i \in DOMAIN t : t[i] = s[i + 1] /\ i + 1 \in DOMAIN s
      /\ s[1] = Head(u) /\ s[1] \in Frames /\ 1 \in DOMAIN s
      /\ \A q \in DOMAIN t : /\ Begins(s, 1, q + 1) => Begins(t, 0, q)
                             /\ Preceded(s, 1, q + 1) => Preceded(t, 0, q)
                             /\ q \in Nat /\ 1 < q + 1 /\ t[q] \in Frames /\ t[q].i \in Nat
    BY LeavesLine, Zenon
<1>2. InLine(s, r, gone, n)
    OBVIOUS
<1>3. InLine(t, NoRx, gone, n)
    BY ReadsPast
<1>5. DOMAIN s \subseteq Nat /\ s # <<>> /\ s[1].i \in Nat
    BY <1>1, Kinds
<1> HIDE DEF s, t
<1>6. s[1].m = r.m
    BY <1>1, <1>2, <1>5, HeadContinues DEF InLine
<1>7. ASSUME NEW q \in DOMAIN t, t[q].k = "CF"
      PROVE  \/ Begins(t, 0, q)
             \/ /\ t[q].m = r.m /\ r.next + 1 <= t[q].i + 1
                /\ t[q].i <= r.next + 1 + gone \/ Preceded(t, 0, q)
  <2>1. q + 1 \in DOMAIN s /\ t[q] = s[q + 1]
      BY <1>1
  <2>2. Follows(s, 1, q + 1)
      BY <1>1, <1>2, <1>1, <1>5, <1>7, <2>1, Kinds DEF InLine, Rising, IsOwn
  <2>3. Begins(s, 0, q + 1) => Begins(s, 1, q + 1)
      BY <1>1, <1>5 DEF Begins
  <2>4. Begins(s, 1, q + 1) => Begins(t, 0, q)
      BY <1>1
  <2>5. CASE ~Begins(s, 0, q + 1)
    <3>1. /\ s[q + 1].m = r.m
          /\ s[q + 1].i <= r.next + gone \/ Preceded(s, 0, q + 1)
        BY <1>2, <1>7, <2>1, <2>5 DEF InLine, Continues
    <3>2. s[1].i <= s[q + 1].i
        BY <1>1, <1>6, <1>7, <2>1, <2>2, <3>1 DEF Follows
    <3>3. Preceded(s, 0, q + 1) => s[q + 1].i = r.next + 1 \/ Preceded(s, 1, q + 1)
        BY <1>1, <1>5 DEF Preceded
    <3>4. Preceded(s, 1, q + 1) => Preceded(t, 0, q)
        BY <1>1
    <3>5. r.next <= t[q].i
        BY <1>1, <2>1, <3>2
    <3>6. t[q].i <= r.next + 1 + gone \/ Preceded(t, 0, q)
        BY <1>1, <2>1, <3>1, <3>3, <3>4
    <3> QED BY <1>1, <2>1, <3>1, <3>5, <3>6
  <2> QED BY <2>3, <2>4, <2>5
<1>8. Continues(t, g, gone)
    BY <1>7 DEF Continues
<1>9. InLine(t, g, gone, n)
    BY <1>3, <1>8 DEF InLine
<1> QED BY <1>9 DEF t

\* The Consecutive Frame at the head is lost: one more is gone.
LEMMA LosesConsecutive ==
    ASSUME NEW u \in Seq(Frames), u # <<>>, NEW d \in Frames, Head(u).k = "CF",
           NEW r, NEW gone \in Nat, r # NoRx => r.next \in Nat,
           NEW n, InLine(Append(u, d), r, gone, n)
    PROVE  InLine(Append(Tail(u), d), r, gone + 1, n)
<1> DEFINE s == Append(u, d)
           t == Append(Tail(u), d)
<1>1. /\ s \in Seq(Frames) /\ t \in Seq(Frames) /\ DOMAIN s = 1 .. (Len(u) + 1) /\ Len(u) \in Nat \ {0}
      /\ DOMAIN t = 1 .. Len(u)
      /\ \A i \in DOMAIN t : t[i] = s[i + 1] /\ i + 1 \in DOMAIN s
      /\ s[1] = Head(u) /\ s[1] \in Frames /\ 1 \in DOMAIN s
      /\ \A q \in DOMAIN t : /\ Begins(s, 1, q + 1) => Begins(t, 0, q)
                             /\ Preceded(s, 1, q + 1) => Preceded(t, 0, q)
                             /\ q \in Nat /\ 1 < q + 1 /\ t[q] \in Frames /\ t[q].i \in Nat
    BY LeavesLine, Zenon
<1>2. InLine(s, r, gone, n)
    OBVIOUS
<1>3. InLine(t, NoRx, gone, n)
    BY ReadsPast
<1>5. DOMAIN s \subseteq Nat /\ s # <<>> /\ s[1].i \in Nat
    BY <1>1, Kinds
<1> HIDE DEF s, t
<1>6. ASSUME r # NoRx, NEW q \in DOMAIN t, t[q].k = "CF"
      PROVE  \/ Begins(t, 0, q)
             \/ /\ t[q].m = r.m /\ r.next <= t[q].i + 1
                /\ t[q].i <= r.next + (gone + 1) \/ Preceded(t, 0, q)
  <2>1. q + 1 \in DOMAIN s /\ t[q] = s[q + 1]
      BY <1>1
  <2>2. s[1].i <= r.next + gone
      BY <1>1, <1>2, <1>5, <1>6, HeadContinues DEF InLine
  <2>3. Begins(s, 0, q + 1) => Begins(s, 1, q + 1)
      BY <1>1, <1>5 DEF Begins
  <2>4. Begins(s, 1, q + 1) => Begins(t, 0, q)
      BY <1>1
  <2>5. CASE ~Begins(s, 0, q + 1)
    <3>1. /\ s[q + 1].m = r.m /\ r.next <= s[q + 1].i + 1
          /\ s[q + 1].i <= r.next + gone \/ Preceded(s, 0, q + 1)
        BY <1>2, <1>6, <2>1, <2>5 DEF InLine, Continues
    <3>2. Preceded(s, 0, q + 1) => s[1].i + 1 = s[q + 1].i \/ Preceded(s, 1, q + 1)
        BY <1>1, <1>5 DEF Preceded
    <3>3. Preceded(s, 1, q + 1) => Preceded(t, 0, q)
        BY <1>1
    <3>4. s[1].i + 1 = s[q + 1].i => t[q].i <= r.next + (gone + 1)
        BY <1>5, <1>6, <2>1, <2>2
    <3>5. s[q + 1].i <= r.next + gone => t[q].i <= r.next + (gone + 1)
        BY <1>1, <1>6, <2>1
    <3> QED BY <2>1, <3>1, <3>2, <3>3, <3>4, <3>5
  <2> QED BY <2>3, <2>4, <2>5
<1>7. Continues(t, r, gone + 1)
    BY <1>6 DEF Continues
<1>8. InLine(t, r, gone + 1, n)
    BY <1>3, <1>7 DEF InLine
<1> QED BY <1>8 DEF t

\* The Consecutive Frame at the head is on the bus twice.
LEMMA RepeatsConsecutive ==
    ASSUME NEW u \in Seq(Frames), u # <<>>, NEW d \in Frames, Head(u).k = "CF",
           NEW r, NEW gone \in Nat, r # NoRx => r.next \in Nat,
           NEW n, InLine(Append(u, d), r, gone, n)
    PROVE  InLine(Append(<<Head(u)>> \o u, d), r, gone + 1, n)
<1> DEFINE s == Append(u, d)
           t == Append(<<Head(u)>> \o u, d)
           S == DOMAIN t \ {1}
           back == [i \in S |-> i - 1]
<1>1. /\ Len(u) \in Nat \ {0} /\ Head(u) \in Frames /\ Head(u) = u[1]
      /\ <<Head(u)>> \o u \in Seq(Frames) /\ Len(<<Head(u)>> \o u) = Len(u) + 1
      /\ \A i \in 1 .. (Len(u) + 1) : (<<Head(u)>> \o u)[i] = IF i = 1 THEN Head(u) ELSE u[i - 1]
    OBVIOUS
<1>2. /\ s \in Seq(Frames) /\ t \in Seq(Frames)
      /\ DOMAIN s = 1 .. (Len(u) + 1) /\ DOMAIN t = 1 .. (Len(u) + 2)
    BY <1>1
<1>3. t[1] = Head(u) /\ s[1] = Head(u)
    BY <1>1
<1>4. \A i \in S : t[i] = s[i - 1] /\ i - 1 \in DOMAIN s /\ 0 < i - 1 /\ i \in Nat
    BY <1>1, <1>2
<1>5. \A j \in DOMAIN s : j + 1 \in S /\ (j + 1) - 1 = j
    BY <1>1, <1>2
<1> HIDE DEF s, t
<1>6. back \in [S -> DOMAIN s] /\ \A i \in S : back[i] = i - 1
    BY <1>4
<1>7. S \subseteq DOMAIN t
    OBVIOUS
<1> HIDE DEF back, S
<1>8. Keeps(s, t, S, back, 0)
  <2>1. \A j \in DOMAIN s : \E l \in S : back[l] = j
      BY <1>5, <1>6
  <2>2. \A i, j \in S : i < j <=> back[i] < back[j]
      BY <1>4, <1>6
  <2> QED BY <1>4, <1>6, <1>7, <2>1, <2>2 DEF Keeps
<1>9. InLine(s, r, gone, n)
    BY DEF s
<1>10. /\ 1 \in DOMAIN s /\ 1 \in DOMAIN t /\ s # <<>> /\ s[1] \in Frames /\ DOMAIN t \subseteq Nat /\ 0 \in Nat
       /\ 2 \in S /\ back[2] = 1
  <2>1. 1 \in DOMAIN s /\ 1 \in DOMAIN t /\ DOMAIN t \subseteq Nat /\ 0 \in Nat
      BY <1>1, <1>2
  <2>2. s # <<>> /\ s[1] \in Frames
      BY <1>2, <2>1
  <2>3. 1 + 1 \in S /\ 2 = 1 + 1
      BY <1>5, <2>1
  <2>4. back[2] = 1
      BY <1>6, <2>3
  <2> QED BY <2>1, <2>2, <2>3, <2>4
<1>11. \A i \in DOMAIN t : i = 1 \/ i \in S
    BY DEF S
<1>12. IsOwn(s[1]) /\ s[1].k = "CF" /\ s[1].m.id <= s[1].m.id /\ s[1].i <= s[1].i /\ s[1].i \in Nat
    BY <1>3, <1>10, Kinds
<1>13. \A q \in DOMAIN t : 1 < q /\ IsOwn(t[q]) => Follows(t, 1, q)
  <2> SUFFICES ASSUME NEW q \in DOMAIN t, 1 < q, IsOwn(t[q]) PROVE Follows(t, 1, q)
      OBVIOUS
  <2>1. q \in S
      BY <1>11
  <2>2. CASE q = 2
      BY <1>3, <1>4, <1>12, <2>1, <2>2 DEF Follows
  <2>3. CASE q # 2
    <3>1. 2 < q
        BY <1>10, <2>3
    <3>3. t[2] = t[1]
        BY <1>3, <1>4, <1>6, <1>10
    <3>2. Follows(t, 2, q)
      <4>1. IsOwn(t[2])
          BY <1>3, <1>12, <3>3
      <4> QED BY <1>2, <1>8, <1>9, <1>10, <2>1, <3>1, <4>1, KeepsPairs DEF InLine
    <3>4. Begins(t, 2, q) => Begins(t, 1, q)
        BY <1>10 DEF Begins
    <3> QED BY <3>2, <3>3, <3>4 DEF Follows
  <2> QED BY <2>2, <2>3
<1>14. Rising(t)
  <2> SUFFICES ASSUME NEW p \in DOMAIN t, NEW q \in DOMAIN t, p < q, IsOwn(t[p]), IsOwn(t[q]) PROVE Follows(t, p, q)
      BY DEF Rising
  <2>1. q \in S
      BY <1>2, <1>11
  <2>2. CASE p = 1
      BY <1>13, <2>2
  <2>3. CASE p \in S
      BY <1>2, <1>8, <1>9, <1>10, <2>1, <2>3, KeepsPairs DEF InLine
  <2> QED BY <1>11, <2>2, <2>3
<1>15. Gapless(t)
  <2> SUFFICES ASSUME NEW p \in DOMAIN t, NEW q \in DOMAIN t, p < q, t[p].k = "FF", t[q].k = "CF", t[p].m = t[q].m
               PROVE  t[q].i = 1 \/ Preceded(t, p, q)
      BY DEF Gapless
  <2>1. p \in S /\ q \in S
      BY <1>2, <1>3, <1>11, <1>12
  <2> QED BY <1>2, <1>8, <1>9, <1>10, <2>1, KeepsPairs DEF InLine
<1>16. Said(t, n)
    BY <1>3, <1>4, <1>9, <1>10, <1>11 DEF InLine, Said
<1>17. Continues(t, r, gone + 1)
  <2> SUFFICES ASSUME r # NoRx, NEW q \in DOMAIN t, t[q].k = "CF"
               PROVE  \/ Begins(t, 0, q)
                      \/ /\ t[q].m = r.m /\ r.next <= t[q].i + 1
                         /\ t[q].i <= r.next + (gone + 1) \/ Preceded(t, 0, q)
      BY DEF Continues
  <2>1. CASE q = 1
    <3>1. s[1].m = r.m /\ r.next <= s[1].i + 1 /\ s[1].i <= r.next + gone
        BY <1>2, <1>9, <1>10, <1>12, HeadContinues DEF InLine
    <3> QED BY <1>3, <1>12, <2>1, <3>1
  <2>2. CASE q \in S
    <3>1. t[q] = s[back[q]] /\ back[q] \in DOMAIN s /\ t[q].i \in Nat
      <4>1. t[q] = s[back[q]] /\ back[q] \in DOMAIN s
          BY <1>4, <1>6, <2>2
      <4>2. t[q] \in Frames
          BY <1>2
      <4> QED BY <4>1, <4>2, Kinds
    <3>2. \/ Begins(s, 0, back[q])
          \/ /\ s[back[q]].m = r.m /\ r.next <= s[back[q]].i + 1
             /\ s[back[q]].i <= r.next + gone \/ Preceded(s, 0, back[q])
        BY <1>9, <3>1 DEF InLine, Continues
    <3>3. Begins(s, 0, back[q]) => Begins(t, 0, q)
        BY <1>2, <1>8, <1>10, <2>2, KeepsBegins
    <3>4. Preceded(s, 0, back[q]) => Preceded(t, 0, q)
        BY <1>2, <1>8, <1>10, <2>2, KeepsPreceded
    <3>5. t[q].i <= r.next + gone => t[q].i <= r.next + (gone + 1)
        BY <3>1
    <3> QED BY <3>1, <3>2, <3>3, <3>4, <3>5
  <2> QED BY <1>11, <2>1, <2>2
<1>18. InLine(t, r, gone + 1, n)
    BY <1>14, <1>15, <1>16, <1>17 DEF InLine
<1> QED BY <1>18 DEF t

\* A line and its longer one.
LEMMA GrownKeeps ==
    ASSUME NEW s \in Seq(Frames), NEW d \in Frames
    PROVE  LET t == Append(s, d) IN
           /\ t \in Seq(Frames) /\ DOMAIN s = 1 .. Len(s) /\ DOMAIN t = 1 .. (Len(s) + 1) /\ Len(s) \in Nat
           /\ t[Len(s) + 1] = d /\ \A i \in DOMAIN s : t[i] = s[i] /\ i \in DOMAIN t
           /\ \A i \in DOMAIN t : i \in DOMAIN s \/ i = Len(s) + 1
           /\ Keeps(s, t, DOMAIN s, [i \in DOMAIN s |-> i], 0)
           /\ Keeps(t, s, DOMAIN s, [i \in DOMAIN s |-> i], 0)
<1> DEFINE t == Append(s, d)
           S == DOMAIN s
           back == [i \in S |-> i]
<1>1. /\ t \in Seq(Frames) /\ S = 1 .. Len(s) /\ DOMAIN t = 1 .. (Len(s) + 1) /\ Len(s) \in Nat
      /\ t[Len(s) + 1] = d /\ \A i \in S : t[i] = s[i]
    OBVIOUS
<1> HIDE DEF t, S
<1>2. \A i \in DOMAIN t : i \in S \/ i = Len(s) + 1
    BY <1>1
<1>3. \A i \in S : i \in DOMAIN t /\ i \in Nat /\ 0 < i /\ \A j \in DOMAIN t : j < i => j \in S
    BY <1>1
<1>4. \A i \in S : back[i] = i
    OBVIOUS
<1>5. back \in [S -> S] /\ back \in [S -> DOMAIN t]
    BY <1>3
<1> HIDE DEF back
<1>6. \A i, j \in S : i < j <=> back[i] < back[j]
    BY <1>4
<1>7. \A i \in S : t[i] = s[back[i]] /\ s[i] = t[back[i]] /\ 0 < back[i]
    BY <1>1, <1>3, <1>4
<1>8. \A i \in S, j \in DOMAIN t : j < back[i] => \E l \in S : back[l] = j
    BY <1>3, <1>4
<1>9. \A j \in S : \E l \in S : back[l] = j
    BY <1>4
<1>10. Keeps(s, t, S, back, 0)
    BY <1>3, <1>5, <1>6, <1>7, <1>9 DEF Keeps, S
<1>11. Keeps(t, s, S, back, 0)
    BY <1>5, <1>6, <1>7, <1>8 DEF Keeps, S
<1> QED BY <1>1, <1>2, <1>3, <1>10, <1>11 DEF t, S, back

\* Nothing is due any more.
LEMMA HushesLine ==
    ASSUME NEW s \in Seq(Frames), NEW d \in Frames,
           NEW r, NEW gone \in Nat, r # NoRx => r.next \in Nat, NEW n, InLine(Append(s, d), r, gone, n)
    PROVE  InLine(s, r, gone, n)
<1>1. PICK t : /\ t = Append(s, d) /\ t \in Seq(Frames)
               /\ Keeps(t, s, DOMAIN s, [i \in DOMAIN s |-> i], 0)
    BY GrownKeeps
<1>2. gone <= gone /\ \A i \in DOMAIN s : IsOwn(s[i]) => i \in DOMAIN s
    OBVIOUS
<1> QED BY <1>1, <1>2, KeepsLine

\* What is due becomes part of the line: nothing, or what comes after the last.
LEMMA GrowsLine ==
    ASSUME NEW s \in Seq(Frames), NEW d \in Frames,
           \/ ~IsOwn(d)
           \/ /\ s # <<>> /\ d.k = "CF" /\ d.m = s[Len(s)].m
              /\ \/ s[Len(s)].k = "CF" /\ d.i = s[Len(s)].i + 1
                 \/ s[Len(s)].k = "FF" /\ d.i = 1,
           NEW r, NEW gone \in Nat, r # NoRx => r.next \in Nat, NEW n, InLine(s, r, gone, n)
    PROVE  InLine(Append(s, d), r, gone, n)
<1> DEFINE t == Append(s, d)
           L == Len(s)
           S == DOMAIN s
           back == [i \in S |-> i]
<1>1. /\ t \in Seq(Frames) /\ S = 1 .. L /\ DOMAIN t = 1 .. (L + 1) /\ L \in Nat
      /\ t[L + 1] = d /\ \A i \in S : t[i] = s[i] /\ i \in DOMAIN t
      /\ \A i \in DOMAIN t : i \in S \/ i = L + 1
      /\ Keeps(s, t, S, back, 0)
    BY GrownKeeps, Zenon
<1>2. InLine(s, r, gone, n) /\ \A q \in S : back[q] = q
    OBVIOUS
<1> HIDE DEF t, back
<1>3. CASE ~IsOwn(d)
  <2>1. gone <= gone /\ \A i \in DOMAIN t : IsOwn(t[i]) => i \in S
      BY <1>1, <1>3
  <2>2. InLine(t, r, gone, n)
      BY <1>1, <1>2, <2>1, KeepsLine
  <2> QED BY <2>2 DEF t
<1>4. CASE /\ s # <<>> /\ d.k = "CF" /\ d.m = s[L].m
           /\ \/ s[L].k = "CF" /\ d.i = s[L].i + 1
              \/ s[L].k = "FF" /\ d.i = 1
  <2>1. L \in S /\ s[L] \in Frames /\ L \in DOMAIN t /\ t[L] = s[L] /\ L + 1 \in DOMAIN t /\ 0 < L
      BY <1>1, <1>4
  <2>2. \A i \in S : i \in Nat /\ i <= L /\ s[i] \in Frames /\ t[i] = s[i] /\ i \in DOMAIN t
      BY <1>1
  <2>3. IsOwn(s[L]) /\ s[L].i \in Nat /\ d.i \in Nat /\ s[L].m.id \in Nat
      BY <1>4, <2>1, Kinds
  <2>4. \A p \in S \union {0} : p < L /\ s[L].k = "FF" => Begins(t, p, L + 1)
      BY <1>1, <1>4, <2>1, <2>2 DEF Begins
  <2>5. \A p \in S \union {0} : p < L /\ s[L].k = "CF" => Preceded(t, p, L + 1)
      BY <1>1, <1>4, <2>1, <2>2 DEF Preceded
  <2>6. \A p \in S \union {0} : Begins(s, p, L) => Begins(t, p, L + 1)
    <3> SUFFICES ASSUME NEW p \in S \union {0}, Begins(s, p, L) PROVE Begins(t, p, L + 1)
        OBVIOUS
    <3>1. PICK f \in S : p < f /\ f < L /\ s[f].k = "FF" /\ s[f].m = s[L].m
        BY DEF Begins
    <3>2. f < L + 1 /\ t[f] = s[f] /\ f \in DOMAIN t
        BY <2>1, <2>2, <3>1
    <3>3. t[f].m = t[L + 1].m
        BY <1>1, <1>4, <3>1, <3>2
    <3> QED BY <3>1, <3>2, <3>3 DEF Begins
  <2>7. \A p \in S : IsOwn(s[p]) => Follows(t, p, L + 1)
    <3> SUFFICES ASSUME NEW p \in S, IsOwn(s[p]) PROVE Follows(t, p, L + 1)
        OBVIOUS
    <3>1. CASE p = L
        BY <1>1, <1>4, <2>1, <2>3, <3>1 DEF Follows
    <3>2. CASE p # L
      <4>1. p < L
          BY <2>1, <2>2, <3>2
      <4>2. Follows(s, p, L)
          BY <1>2, <2>1, <2>3, <4>1 DEF InLine, Rising
      <4>3. s[p].i \in Nat /\ s[p].m.id \in Nat
          BY <2>2, Kinds
      <4>4. CASE s[L].k = "FF"
        <5>1. s[p].m.id < s[L].m.id
            BY <4>2, <4>4 DEF Follows
        <5>2. Begins(t, p, L + 1)
            BY <2>4, <4>1, <4>4
        <5> QED BY <1>1, <1>4, <2>2, <2>3, <4>3, <5>1, <5>2 DEF Follows
      <4>5. CASE s[L].k = "CF"
        <5>1. /\ s[p].m.id <= s[L].m.id
              /\ s[p].m.id = s[L].m.id => s[p].m = s[L].m /\ (s[p].k = "CF" => s[p].i <= s[L].i)
              /\ s[p].m.id # s[L].m.id => Begins(s, p, L)
            BY <4>2, <4>5 DEF Follows
        <5>2. d.i = s[L].i + 1
            BY <1>4, <4>5
        <5>3. s[p].i <= s[L].i => s[p].i <= d.i
            BY <2>3, <4>3, <5>2
        <5>4. t[p] = s[p] /\ t[L + 1] = d
            BY <1>1
        <5> QED BY <1>4, <2>6, <5>1, <5>3, <5>4 DEF Follows
      <4> QED BY <1>4, <4>4, <4>5
    <3> QED BY <3>1, <3>2
  <2>8. Rising(t)
    <3> SUFFICES ASSUME NEW p \in DOMAIN t, NEW q \in DOMAIN t, p < q, IsOwn(t[p]), IsOwn(t[q]) PROVE Follows(t, p, q)
        BY DEF Rising
    <3>1. p \in S
        BY <1>1
    <3>2. CASE q \in S
      <4>1. 0 \in Nat
          OBVIOUS
      <4> QED BY <1>1, <1>2, <3>1, <3>2, <4>1, KeepsPairs DEF InLine
    <3> QED BY <1>1, <2>7, <3>1, <3>2
  <2>9. Gapless(t)
    <3> SUFFICES ASSUME NEW p \in DOMAIN t, NEW q \in DOMAIN t, p < q, t[p].k = "FF", t[q].k = "CF", t[p].m = t[q].m
                 PROVE  t[q].i = 1 \/ Preceded(t, p, q)
        BY DEF Gapless
    <3>1. p \in S
        BY <1>1
    <3>2. CASE q \in S
      <4>1. 0 \in Nat
          OBVIOUS
      <4> QED BY <1>1, <1>2, <3>1, <3>2, <4>1, KeepsPairs DEF InLine
    <3>3. CASE q = L + 1
      <4>1. CASE s[L].k = "FF"
          BY <1>1, <1>4, <3>3, <4>1
      <4>2. CASE s[L].k = "CF"
        <5>1. p # L
            BY <2>1, <4>2
        <5>2. p < L
            BY <2>1, <2>2, <3>1, <5>1
        <5> QED BY <2>5, <3>1, <3>3, <4>2, <5>2
      <4> QED BY <1>4, <4>1, <4>2
    <3> QED BY <1>1, <3>2, <3>3
  <2>10. Said(t, n)
      BY <1>1, <1>2, <1>4, <2>1, <2>3 DEF InLine, Said
  <2>11. Continues(t, r, gone)
    <3> SUFFICES ASSUME r # NoRx, NEW q \in DOMAIN t, t[q].k = "CF"
                 PROVE  \/ Begins(t, 0, q)
                        \/ /\ t[q].m = r.m /\ r.next <= t[q].i + 1
                           /\ t[q].i <= r.next + gone \/ Preceded(t, 0, q)
        BY DEF Continues
    <3>1. CASE q \in S
      <4>1. \/ Begins(s, 0, q)
            \/ /\ s[q].m = r.m /\ r.next <= s[q].i + 1
               /\ s[q].i <= r.next + gone \/ Preceded(s, 0, q)
          BY <1>1, <1>2, <3>1 DEF InLine, Continues
      <4>2. /\ Begins(s, 0, q) => Begins(t, 0, q)
            /\ Preceded(s, 0, q) => Preceded(t, 0, q)
        <5>1. 0 \in Nat
            OBVIOUS
        <5> QED BY <1>1, <1>2, <3>1, <5>1, KeepsBegins, KeepsPreceded
      <4> QED BY <1>1, <3>1, <4>1, <4>2
    <3>2. CASE q = L + 1
      <4>1. CASE s[L].k = "FF"
          BY <2>1, <2>4, <3>2, <4>1
      <4>2. CASE s[L].k = "CF"
        <5>1. Begins(s, 0, L) \/ (s[L].m = r.m /\ r.next <= s[L].i + 1)
            BY <1>2, <2>1, <4>2 DEF InLine, Continues
        <5>2. Begins(s, 0, L) => Begins(t, 0, L + 1)
            BY <2>6
        <5>3. Preceded(t, 0, L + 1)
            BY <2>1, <2>5, <4>2
        <5>4. d.i = s[L].i + 1
            BY <1>4, <4>2
        <5>5. r.next <= s[L].i + 1 => r.next <= d.i + 1
            BY <2>3, <5>4
        <5> QED BY <1>1, <1>4, <3>2, <5>1, <5>2, <5>3, <5>5
      <4> QED BY <1>4, <4>1, <4>2
    <3> QED BY <1>1, <3>1, <3>2
  <2>12. InLine(t, r, gone, n)
      BY <2>8, <2>9, <2>10, <2>11 DEF InLine
  <2> QED BY <2>12 DEF t
<1> QED BY <1>3, <1>4

\* The peer begins a message.
LEMMA StartsLine ==
    ASSUME NEW s \in Seq(Frames), NEW n \in Nat, NEW f \in Frames, f.k \in {"SF", "FF"}, f.m.id = n + 1,
           NEW r, NEW gone \in Nat, r # NoRx => r.next \in Nat, InLine(s, r, gone, n)
    PROVE  InLine(Append(s, f), r, gone, n + 1)
<1> DEFINE t == Append(s, f)
           L == Len(s)
           S == DOMAIN s
           back == [i \in S |-> i]
<1>1. /\ t \in Seq(Frames) /\ S = 1 .. L /\ DOMAIN t = 1 .. (L + 1) /\ L \in Nat
      /\ t[L + 1] = f /\ \A i \in S : t[i] = s[i] /\ i \in DOMAIN t
      /\ \A i \in DOMAIN t : i \in S \/ i = L + 1
      /\ Keeps(s, t, S, back, 0)
    BY GrownKeeps, Zenon
<1>2. InLine(s, r, gone, n) /\ 0 \in Nat /\ \A q \in S : back[q] = q
    OBVIOUS
<1> HIDE DEF t, back
<1>3. \A i \in S : s[i] \in Frames /\ s[i].m.id \in Nat
    BY <1>1, Kinds
<1>4. Rising(t)
  <2> SUFFICES ASSUME NEW p \in DOMAIN t, NEW q \in DOMAIN t, p < q, IsOwn(t[p]), IsOwn(t[q]) PROVE Follows(t, p, q)
      BY DEF Rising
  <2>1. p \in S
      BY <1>1
  <2>2. CASE q \in S
      BY <1>1, <1>2, <2>1, <2>2, KeepsPairs DEF InLine
  <2>3. CASE q = L + 1
    <3>1. s[p].m.id <= n /\ t[p] = s[p] /\ t[q] = f
        BY <1>1, <1>2, <2>1, <2>3 DEF InLine, Said
    <3>2. s[p].m.id < f.m.id
        BY <1>3, <2>1, <3>1
    <3>3. f.k # "CF"
        OBVIOUS
    <3> QED BY <1>3, <2>1, <3>1, <3>2, <3>3 DEF Follows
  <2> QED BY <1>1, <2>2, <2>3
<1>5. \A q \in DOMAIN t : t[q].k = "CF" => q \in S
    BY <1>1
<1>6. Gapless(t)
  <2> SUFFICES ASSUME NEW p \in DOMAIN t, NEW q \in DOMAIN t, p < q, t[p].k = "FF", t[q].k = "CF", t[p].m = t[q].m
               PROVE  t[q].i = 1 \/ Preceded(t, p, q)
      BY DEF Gapless
  <2>1. p \in S /\ q \in S
      BY <1>1, <1>5
  <2> QED BY <1>1, <1>2, <2>1, KeepsPairs DEF InLine
<1>7. Said(t, n + 1)
  <2>1. \A q \in S : IsOwn(t[q]) => t[q].m.id <= n /\ t[q].m.id \in Nat
      BY <1>1, <1>2, <1>3 DEF InLine, Said
  <2> QED BY <1>1, <2>1 DEF Said
<1>8. Continues(t, r, gone)
  <2> SUFFICES ASSUME r # NoRx, NEW q \in DOMAIN t, t[q].k = "CF"
               PROVE  \/ Begins(t, 0, q)
                      \/ /\ t[q].m = r.m /\ r.next <= t[q].i + 1
                         /\ t[q].i <= r.next + gone \/ Preceded(t, 0, q)
      BY DEF Continues
  <2>1. q \in S
      BY <1>5
  <2>2. \/ Begins(s, 0, q)
        \/ /\ s[q].m = r.m /\ r.next <= s[q].i + 1
           /\ s[q].i <= r.next + gone \/ Preceded(s, 0, q)
      BY <1>1, <1>2, <2>1 DEF InLine, Continues
  <2>3. /\ Begins(s, 0, q) => Begins(t, 0, q)
        /\ Preceded(s, 0, q) => Preceded(t, 0, q)
      BY <1>1, <1>2, <2>1, KeepsBegins, KeepsPreceded
  <2> QED BY <1>1, <2>1, <2>2, <2>3
<1>9. InLine(t, r, gone, n + 1)
    BY <1>4, <1>6, <1>7, <1>8 DEF InLine
<1> QED BY <1>9 DEF t

\* Two numbers that far apart at most are the same if their sequence numbers are.
LEMMA SameNumber ==
    ASSUME NEW N \in Nat \ {0, 1}, NEW a \in Nat, NEW b \in Nat, NEW gone \in Nat, gone < N,
           b % N = a % N, a <= b + 1, b <= a + gone
    PROVE  a = b
<1> DEFINE p == a \div N
           q == b \div N
           c == a % N
<1>1. N \in Nat /\ N > 1
    OBVIOUS
<1>2. a = N * p + c /\ b = N * q + c /\ p \in Nat /\ q \in Nat /\ c \in Nat
    BY <1>1
<1> HIDE DEF p, q, c
<1>3. b - a = N * q - N * p
    BY <1>2
<1>4. N * q - N * p = N * (q - p)
    BY <1>1, <1>2
<1>5. ASSUME q - p >= 1 PROVE N * (q - p) >= N
    BY <1>1, <1>2, <1>5
<1>6. ASSUME q - p <= -1 PROVE N * (q - p) <= -N
    BY <1>1, <1>2, <1>6
<1>7. N * (q - p) < N /\ N * (q - p) > -N
    BY <1>1, <1>3, <1>4
<1>8. q - p = 0
  <2>1. q - p \in Int
      BY <1>2
  <2> QED BY <1>1, <1>2, <1>5, <1>6, <1>7, <2>1
<1>9. N * (q - p) = 0
    BY <1>1, <1>8
<1> QED BY <1>3, <1>4, <1>9

-------------------------------------------------------------------------------
(* Every step keeps the shape of the state, and what a dirty channel says *)

LEMMA Typed ==
    /\ NoMessage \in Messages /\ NoRx \in Receptions /\ Idle \in Calls
    /\ \A m \in Messages : Begun(m) \in Receptions
    /\ \A r \in Receptions, f \in Frames :
          Grown(r, f) \in Receptions /\ Grown(r, f).m = r.m /\ Grown(r, f).next = r.next + 1
    /\ \A k \in {"SF", "FF", "CF", "FC", "bad", "empty"}, m \in Messages, i \in Nat : Frame(k, m, i) \in Frames
    /\ \A fs \in {"none", "cts", "wait", "overflow"}, bs \in Nat, m \in Messages : Flow(fs, bs, m) \in Frames
<1>1. NoMessage \in Messages /\ NoRx \in Receptions
    BY DEF NoMessage, Messages, NoRx, Receptions
<1>2. Idle \in Calls
    BY <1>1 DEF Idle, Calls
<1>3. \A m \in Messages : Begun(m) \in Receptions
    BY DEF Begun, Receptions
<1>4. ASSUME NEW r \in Receptions, NEW f \in Frames
      PROVE  Grown(r, f) \in Receptions /\ Grown(r, f).m = r.m /\ Grown(r, f).next = r.next + 1
  <2>1. r.next + 1 \in Nat /\ (r.whole /\ f.m = r.m /\ f.i = r.next) \in BOOLEAN
      BY DEF Receptions
  <2> QED BY <2>1 DEF Grown, Receptions
<1>5. \A k \in {"SF", "FF", "CF", "FC", "bad", "empty"}, m \in Messages, i \in Nat : Frame(k, m, i) \in Frames
    BY DEF Frame, Frames
<1>6. \A fs \in {"none", "cts", "wait", "overflow"}, bs \in Nat, m \in Messages : Flow(fs, bs, m) \in Frames
    BY DEF Flow, Frames
<1> QED BY <1>1, <1>2, <1>3, <1>4, <1>5, <1>6

LEMMA QueueTyped ==
    ASSUME NEW S, NEW u \in Seq(S)
    PROVE  /\ <<>> \in Seq(S) /\ \A f \in S : Append(u, f) \in Seq(S)
           /\ u # <<>> => Head(u) \in S /\ Tail(u) \in Seq(S) /\ <<Head(u)>> \o u \in Seq(S)
<1>1. u # <<>> => Head(u) \in S /\ Tail(u) \in Seq(S)
    OBVIOUS
<1>2. u # <<>> => <<Head(u)>> \in Seq(S)
    BY <1>1
<1>3. u # <<>> => <<Head(u)>> \o u \in Seq(S)
    BY <1>2
<1>4. <<>> \in Seq(S) /\ \A f \in S : Append(u, f) \in Seq(S)
    OBVIOUS
<1> QED BY <1>1, <1>3, <1>4

LEMMA ShapeInit == Init => Shape
<1> SUFFICES ASSUME Init PROVE Shape
    OBVIOUS
<1>1. 0 \in 0 .. MaxLost
    BY IsoTpAssumption DEF IsoTpAssumption
<1>2. peer \in PeerStates
    BY Typed DEF Init, PeerStates
<1>3. rxq \in Seq(Frames) /\ txq \in Seq(Frames) /\ got \in Seq([id : Nat, whole : BOOLEAN])
    BY DEF Init
<1>4. rx \in Receptions /\ call \in Calls
    BY Typed DEF Init
<1>5. said \in Nat /\ lost \in 0 .. MaxLost /\ sent \in Nat /\ bad \in Nat
    BY <1>1 DEF Init
<1> QED BY <1>2, <1>3, <1>4, <1>5 DEF Init, Shape

LEMMA ShapeSends == ASSUME Shape, Steps \/ \E n \in Sizes : SendStart(n) PROVE Shape'
<1>q. /\ rxq \in Seq(Frames) /\ txq \in Seq(Frames)
      /\ \A f \in Frames : Append(rxq, f) \in Seq(Frames) /\ Append(txq, f) \in Seq(Frames)
      /\ rxq # <<>> => Head(rxq) \in Frames /\ Tail(rxq) \in Seq(Frames) /\ <<Head(rxq)>> \o rxq \in Seq(Frames)
      /\ txq # <<>> => Head(txq) \in Frames /\ Tail(txq) \in Seq(Frames)
  <2>1. rxq \in Seq(Frames) /\ txq \in Seq(Frames)
      BY DEF Shape
  <2> QED BY <2>1, QueueTyped
<1>0. /\ call \in Calls /\ call.off \in Nat /\ call.waits \in Nat /\ call.in_block \in Nat /\ call.m \in Messages
      /\ call.pc \in {"idle", "flush", "first", "await", "sending", "recv", "drain"}
    BY DEF Shape, Calls
<1>g. Len(got) \in Nat /\ bad \in Nat /\ fc_dirty \in BOOLEAN
    BY DEF Shape
<1>1. ASSUME NEW n \in Sizes, SendStart(n) PROVE Shape'
  <2> DEFINE m == [id |-> sent + 1, n |-> n]
  <2>1. m \in Messages /\ sent + 1 \in Nat
      BY IsoTpAssumption DEF IsoTpAssumption, Shape, Messages
  <2>2. [Idle EXCEPT !.pc = IF fc_dirty THEN "flush" ELSE "first", !.m = m] \in Calls
      BY <2>1, Typed DEF Calls
  <2>3. Frame("SF", m, 0) \in Frames
      BY <2>1, Typed
  <2> HIDE DEF m
  <2>4. /\ \/ Returns /\ tx(Frame("SF", m, 0))
           \/ Returns /\ UNCHANGED txq
           \/ call' = [Idle EXCEPT !.pc = IF fc_dirty THEN "flush" ELSE "first", !.m = m] /\ UNCHANGED txq
        /\ sent' = sent + 1 /\ rx' = NoRx
        /\ UNCHANGED <<fc_dirty, rxq, stop, said, lost, peer, got, bad, exposed>>
      BY <1>1 DEF SendStart, m
  <2>5. call' \in Calls
      BY <2>2, <2>4, Typed DEF Returns
  <2>6. txq' \in Seq(Frames)
      BY <2>3, <2>4, <1>q DEF tx
  <2> QED BY <2>1, <2>4, <2>5, <2>6, Typed DEF Shape
<1>2. CASE FlushReads
  <2>1. call.off + 1 \in Nat /\ call' = [call EXCEPT !.off = call.off + 1]
      BY <1>0, <1>2 DEF FlushReads
  <2>2. call' \in Calls
      BY <1>0, <2>1 DEF Calls
  <2> QED BY <1>2, <2>2, <1>q DEF FlushReads, Shape, chan
<1>3. CASE FlushEnds
  <2>1. call' \in Calls
      BY <1>0, <1>3, 0 \in Nat DEF FlushEnds, Calls
  <2> QED BY <1>3, <2>1 DEF FlushEnds, Shape, bus
<1>4. CASE SendStopped
    BY <1>4, Typed DEF SendStopped, Returns, Shape, chan, bus
<1>5. CASE SendFirst
  <2>1. call' \in Calls
      BY <1>0, <1>5, Typed DEF SendFirst, Returns, Calls
  <2>2. txq' \in Seq(Frames)
    <3>1. Frame("FF", call.m, 0) \in Frames
        BY <1>0, Typed
    <3> QED BY <1>5, <3>1, <1>q DEF SendFirst, tx
  <2> QED BY <1>5, <2>1, <2>2 DEF SendFirst, Shape, chan
<1>6. CASE AwaitSkips
    BY <1>6, <1>q DEF AwaitSkips, Shape, chan
<1>7. CASE AwaitCleared
  <2>1. Head(rxq) \in Frames
      BY <1>7, <1>q DEF AwaitCleared, Shape
  <2>2. Head(rxq).bs \in Nat /\ Head(rxq).m \in Messages
      BY <2>1 DEF Frames
  <2>3. call' \in Calls
    <3>1. call' = [call EXCEPT !.pc = "sending", !.bs = Head(rxq).bs, !.in_block = 0, !.waits = 0, !.fc = Head(rxq).m]
        BY <1>7 DEF AwaitCleared
    <3> QED BY <1>0, <2>2, <3>1, 0 \in Nat DEF Calls
  <2> QED BY <1>7, <2>3, <1>q DEF AwaitCleared, Shape, chan
<1>8. CASE AwaitWaits
  <2>1. call' \in Calls
    <3>1. call.waits + 1 \in Nat /\ (call' = [call EXCEPT !.waits = call.waits + 1] \/ call' = Idle)
        BY <1>0, <1>8 DEF AwaitWaits, EndsBadly, Returns
    <3> QED BY <1>0, <3>1, Typed DEF Calls
  <2>2. fc_dirty' \in BOOLEAN /\ bad' \in Nat
      BY <1>8, <1>g DEF AwaitWaits, EndsBadly
  <2>3. rxq' \in Seq(Frames)
      BY <1>8, <1>q DEF AwaitWaits
  <2> QED BY <1>8, <2>1, <2>2, <2>3 DEF AwaitWaits, Shape
<1>9. CASE AwaitRefused
    BY <1>9, Typed, <1>q DEF AwaitRefused, EndsBadly, Returns, Shape
<1>10. CASE AwaitTimesOut
    BY <1>10, Typed DEF AwaitTimesOut, EndsBadly, Returns, Shape, bus
<1>11. CASE SegmentedStopped
    BY <1>11, Typed DEF SegmentedStopped, EndsBadly, Returns, Shape, bus
<1>12. CASE SendConsecutive
  <2>1. call' \in Calls
    <3>1. call.off + 1 \in Nat /\ call.in_block + 1 \in Nat
        BY <1>0
    <3>2. (IF BlockFull(call.in_block + 1) THEN "await" ELSE call.pc)
             \in {"idle", "flush", "first", "await", "sending", "recv", "drain"}
        BY <1>0
    <3>3. \/ call' = Idle
          \/ call' = [call EXCEPT !.off = call.off + 1, !.in_block = call.in_block + 1,
                                  !.pc = IF BlockFull(call.in_block + 1) THEN "await" ELSE call.pc]
        BY <1>12 DEF SendConsecutive, EndsBadly, Returns
    <3>4. PICK pc \in {"idle", "flush", "first", "await", "sending", "recv", "drain"} :
            call' = Idle \/ call' = [call EXCEPT !.off = call.off + 1, !.in_block = call.in_block + 1, !.pc = pc]
        BY <3>2, <3>3
    <3> QED BY <1>0, <3>1, <3>4, Typed DEF Calls
  <2>2. txq' \in Seq(Frames)
    <3>1. call.off + 1 \in Nat
        BY <1>0
    <3>2. Frame("CF", call.m, call.off + 1) \in Frames
        BY <1>0, <3>1, Typed
    <3> QED BY <1>12, <3>2, <1>q DEF SendConsecutive, tx
  <2>3. fc_dirty' \in BOOLEAN /\ bad' \in Nat
      BY <1>12, <1>g DEF SendConsecutive, EndsBadly
  <2> QED BY <1>12, <2>1, <2>2, <2>3 DEF SendConsecutive, Shape
<1> QED BY <1>1, <1>2, <1>3, <1>4, <1>5, <1>6, <1>7, <1>8, <1>9, <1>10, <1>11, <1>12 DEF Steps

Reads == Recvs \/ RecvStart \/ RecvTimesOut \/ RecvNCr \/ RecvStopped \/ DrainStart \/ DrainReads \/ DrainEnds \/ RequestStop

LEMMA DeliversTyped ==
    ASSUME NEW m \in Messages, NEW whole \in BOOLEAN, Delivers(m, whole), Shape
    PROVE  /\ got' \in Seq([id : Nat, whole : BOOLEAN]) /\ fc_dirty' \in BOOLEAN /\ exposed' \in BOOLEAN
           /\ rx' \in Receptions /\ call' \in Calls /\ rx' = NoRx /\ call' = Idle /\ fc_dirty' = FALSE
           /\ got' = Append(got, [id |-> m.id, whole |-> whole])
<1>1. [id |-> m.id, whole |-> whole] \in [id : Nat, whole : BOOLEAN]
    BY DEF Messages
<1>2. got' \in Seq([id : Nat, whole : BOOLEAN])
    BY <1>1 DEF Delivers, Shape
<1> QED BY <1>2, Typed DEF Delivers, Returns, Shape

LEMMA ShapeReads == ASSUME Shape, Reads PROVE Shape'
<1>q. /\ rxq \in Seq(Frames) /\ txq \in Seq(Frames)
      /\ \A f \in Frames : Append(rxq, f) \in Seq(Frames) /\ Append(txq, f) \in Seq(Frames)
      /\ rxq # <<>> => Head(rxq) \in Frames /\ Tail(rxq) \in Seq(Frames) /\ <<Head(rxq)>> \o rxq \in Seq(Frames)
      /\ txq # <<>> => Head(txq) \in Frames /\ Tail(txq) \in Seq(Frames)
  <2>1. rxq \in Seq(Frames) /\ txq \in Seq(Frames)
      BY DEF Shape
  <2> QED BY <2>1, QueueTyped
<1>0. \A f \in Frames : f.m \in Messages
    BY DEF Frames
<1>1. CASE RecvSkips
    BY <1>1, <1>q DEF RecvSkips, Shape, chan
<1>2. CASE RecvSingle
  <2>1. Head(rxq).m \in Messages
      BY <1>0, <1>2, <1>q DEF RecvSingle, Shape
  <2>2. TRUE \in BOOLEAN /\ Delivers(Head(rxq).m, TRUE)
      BY <1>2 DEF RecvSingle
  <2>3. /\ got' \in Seq([id : Nat, whole : BOOLEAN]) /\ fc_dirty' \in BOOLEAN /\ exposed' \in BOOLEAN
        /\ rx' \in Receptions /\ call' \in Calls
      BY <2>1, <2>2, DeliversTyped
  <2> QED BY <1>2, <2>3, <1>q DEF RecvSingle, Shape
<1>3. CASE RecvFirst
  <2>1. Head(rxq).m \in Messages
      BY <1>0, <1>3, <1>q DEF RecvFirst, Shape
  <2>2. rx' \in Receptions /\ call' \in Calls
      BY <1>3, <2>1, Typed DEF RecvFirst, Returns, Shape
  <2>3. Flow("cts", 0, Head(rxq).m) \in Frames
      BY <2>1, Typed, 0 \in Nat
  <2>4. txq' \in Seq(Frames)
      BY <1>3, <2>3, <1>q DEF RecvFirst, tx
  <2> QED BY <1>3, <2>2, <2>4, <1>q DEF RecvFirst, Shape
<1>4. CASE RecvConsecutive
  <2>1. Head(rxq) \in Frames /\ rx \in Receptions
      BY <1>4, <1>q DEF RecvConsecutive, Shape
  <2> DEFINE r == Grown(rx, Head(rxq))
  <2>2. r \in Receptions /\ r.m \in Messages /\ r.whole \in BOOLEAN
      BY <2>1, Typed DEF Receptions
  <2> HIDE DEF r
  <2>3. \/ rx' = NoRx /\ Returns /\ UNCHANGED <<fc_dirty, got, exposed>>
        \/ Delivers(r.m, r.whole)
        \/ rx' = r /\ UNCHANGED <<fc_dirty, call, got, exposed>>
      BY <1>4 DEF RecvConsecutive, r
  <2>4. /\ rx' \in Receptions /\ call' \in Calls /\ fc_dirty' \in BOOLEAN /\ exposed' \in BOOLEAN
        /\ got' \in Seq([id : Nat, whole : BOOLEAN])
      BY <2>2, <2>3, DeliversTyped, Typed DEF Returns, Shape
  <2>5. rxq' \in Seq(Frames) /\ UNCHANGED <<txq, stop, sent, said, lost, peer, bad>>
      BY <1>4, <1>q DEF RecvConsecutive
  <2> QED BY <2>4, <2>5 DEF Shape
<1>5. CASE RecvGarbage
    BY <1>5, Typed, <1>q DEF RecvGarbage, Returns, Shape
<1>6. CASE RecvStart
  <2>1. call' \in Calls
      BY <1>6, Typed DEF RecvStart, Calls
  <2> QED BY <1>6, <2>1 DEF RecvStart, Shape, chan, bus
<1>7. CASE RecvTimesOut
    BY <1>7, Typed DEF RecvTimesOut, Returns, Shape, chan, bus
<1>8. CASE RecvNCr
    BY <1>8, Typed DEF RecvNCr, Returns, Shape, bus
<1>9. CASE RecvStopped
    BY <1>9, Typed DEF RecvStopped, Returns, Shape, bus
<1>10. CASE DrainStart
  <2>1. call' \in Calls
      BY <1>10, Typed DEF DrainStart, Calls
  <2> QED BY <1>10, <2>1, Typed DEF DrainStart, Shape, bus
<1>11. CASE DrainReads
    BY <1>11, <1>q DEF DrainReads, Shape, chan
<1>12. CASE DrainEnds
    BY <1>12, Typed DEF DrainEnds, Returns, Shape, chan, bus
<1>13. CASE RequestStop
    BY <1>13 DEF RequestStop, Shape, chan, bus
<1> QED BY <1>1, <1>2, <1>3, <1>4, <1>5, <1>6, <1>7, <1>8, <1>9, <1>10, <1>11, <1>12, <1>13 DEF Reads, Recvs

External == Peers \/ PeerSays \/ PeerGivesUp \/ PeerGarbles \/ BusLoses

LEMMA ShapeExternal == ASSUME Shape, External PROVE Shape'
<1>q. /\ rxq \in Seq(Frames) /\ txq \in Seq(Frames)
      /\ \A f \in Frames : Append(rxq, f) \in Seq(Frames) /\ Append(txq, f) \in Seq(Frames)
      /\ rxq # <<>> => Head(rxq) \in Frames /\ Tail(rxq) \in Seq(Frames) /\ <<Head(rxq)>> \o rxq \in Seq(Frames)
      /\ txq # <<>> => Head(txq) \in Frames /\ Tail(txq) \in Seq(Frames)
  <2>1. rxq \in Seq(Frames) /\ txq \in Seq(Frames)
      BY DEF Shape
  <2> QED BY <2>1, QueueTyped
<1>0. /\ peer \in PeerStates /\ peer.rx \in Receptions /\ peer.tx \in Receptions /\ peer.rx.m \in Messages
      /\ peer.tx.m \in Messages /\ peer.tx.next \in Nat /\ peer.bs \in Nat /\ peer.in_block \in Nat
      /\ peer.over \in BOOLEAN /\ peer.owes \in BOOLEAN
    BY DEF Shape, PeerStates, Receptions
<1>1. CASE PeerHears
  <2> DEFINE f == Head(txq)
             r == Grown(peer.rx, f)
  <2>1. f \in Frames /\ f.m \in Messages
    <3>1. f \in Frames
        BY <1>1, <1>q DEF PeerHears, Shape
    <3> QED BY <3>1 DEF Frames
  <2>2. r \in Receptions /\ Begun(f.m) \in Receptions /\ NoRx \in Receptions
      BY <1>0, <2>1, Typed
  <2>3. peer.in_block + 1 \in Nat
      BY <1>0
  <2> HIDE DEF f, r
  <2>4. \/ peer' = [peer EXCEPT !.rx = NoRx, !.owes = FALSE]
        \/ peer' = [peer EXCEPT !.rx = Begun(f.m), !.owes = TRUE]
        \/ peer' = [peer EXCEPT !.go = (peer.tx # NoRx)]
        \/ peer' = peer
        \/ peer' = [peer EXCEPT !.rx = NoRx, !.owes = FALSE, !.over = peer.over \/ (peer.owes /\ ~exposed)]
        \/ peer' = [peer EXCEPT !.rx = IF Complete(r) THEN NoRx ELSE r, !.in_block = peer.in_block + 1,
                                !.owes = /\ ~Complete(r) /\ peer.bs > 0
                                         /\ peer.in_block + 1 >= peer.bs]
      BY <1>1 DEF PeerHears, f, r
  <2> DEFINE g == IF Complete(r) THEN NoRx ELSE r
             owes == ~Complete(r) /\ peer.bs > 0 /\ peer.in_block + 1 >= peer.bs
  <2>5. g \in Receptions /\ owes \in BOOLEAN
      BY <2>2, Typed
  <2>6. \A x \in Receptions, y \in BOOLEAN :
           [peer EXCEPT !.rx = x, !.in_block = peer.in_block + 1, !.owes = y] \in PeerStates
      BY <1>0, <2>3 DEF PeerStates
  <2>7. [peer EXCEPT !.rx = g, !.in_block = peer.in_block + 1, !.owes = owes] \in PeerStates
    <3> HIDE DEF g, owes
    <3> QED BY <2>5, <2>6
  <2>8. peer' \in PeerStates
      BY <1>0, <2>2, <2>4, <2>7 DEF PeerStates
  <2> QED BY <1>1, <2>8, <1>q DEF PeerHears, Shape, chan
<1>2. CASE PeerAnswers
  <2>1. PICK fs \in FlowStatuses, bs \in BlockSizes :
          /\ says(Flow(fs, bs, peer.rx.m))
          /\ \/ fs = "cts" /\ peer' = [peer EXCEPT !.owes = FALSE, !.bs = bs, !.in_block = 0]
             \/ fs = "wait" /\ UNCHANGED peer
             \/ fs = "overflow" /\ peer' = [peer EXCEPT !.owes = FALSE, !.rx = NoRx]
      BY <1>2 DEF PeerAnswers
  <2>2. bs \in Nat /\ fs \in {"none", "cts", "wait", "overflow"}
      BY IsoTpAssumption DEF IsoTpAssumption
  <2>3. rxq' \in Seq(Frames)
    <3>1. Flow(fs, bs, peer.rx.m) \in Frames
        BY <1>0, <2>2, Typed
    <3> QED BY <2>1, <3>1, <1>q DEF says
  <2>4. peer' \in PeerStates
    <3>1. NoRx \in Receptions /\ 0 \in Nat
        BY Typed
    <3> QED BY <1>0, <2>1, <2>2, <3>1 DEF PeerStates
  <2> QED BY <1>2, <2>3, <2>4 DEF PeerAnswers, Shape, chan
<1>3. CASE PeerContinues
  <2> DEFINE t == [peer.tx EXCEPT !.next = @ + 1]
  <2>1. t \in Receptions
      BY <1>0 DEF Receptions
  <2> HIDE DEF t
  <2>2. peer' = [peer EXCEPT !.tx = IF Complete(t) THEN NoRx ELSE t, !.go = ~Complete(t)]
      BY <1>3 DEF PeerContinues, t
  <2>3. peer' \in PeerStates
    <3>1. (IF Complete(t) THEN NoRx ELSE t) \in Receptions
        BY <2>1, Typed
    <3> QED BY <1>0, <2>2, <3>1 DEF PeerStates
  <2>4. rxq' \in Seq(Frames)
    <3>1. Frame("CF", peer.tx.m, peer.tx.next) \in Frames
        BY <1>0, Typed
    <3> QED BY <1>3, <3>1, <1>q DEF PeerContinues, says, Shape
  <2> QED BY <1>3, <2>3, <2>4 DEF PeerContinues, Shape, chan
<1>4. CASE PeerSays
  <2>1. PICK n \in Sizes :
          LET m == [id |-> said + 1, n |-> n] IN
          /\ says(Frame(IF n = 0 THEN "SF" ELSE "FF", m, 0))
          /\ peer' = [peer EXCEPT !.tx = IF n = 0 THEN NoRx ELSE Begun(m), !.go = FALSE]
      BY <1>4 DEF PeerSays
  <2> DEFINE m == [id |-> said + 1, n |-> n]
  <2>2. m \in Messages /\ said + 1 \in Nat
      BY IsoTpAssumption DEF IsoTpAssumption, Shape, Messages
  <2>3. /\ says(Frame(IF n = 0 THEN "SF" ELSE "FF", m, 0))
        /\ peer' = [peer EXCEPT !.tx = IF n = 0 THEN NoRx ELSE Begun(m), !.go = FALSE]
      BY <2>1
  <2> HIDE DEF m
  <2>4. peer' \in PeerStates
    <3>1. (IF n = 0 THEN NoRx ELSE Begun(m)) \in Receptions
        BY <2>2, Typed
    <3> QED BY <1>0, <2>3, <3>1 DEF PeerStates
  <2>5. Frame(IF n = 0 THEN "SF" ELSE "FF", m, 0) \in Frames
      BY <2>2, Typed, 0 \in Nat
  <2>6. rxq' \in Seq(Frames)
      BY <2>3, <2>5, <1>q DEF says
  <2> QED BY <1>4, <2>2, <2>4, <2>6 DEF PeerSays, Shape, chan
<1>5. CASE PeerGivesUp
  <2>1. peer' \in PeerStates
      BY <1>0, <1>5, Typed DEF PeerGivesUp, PeerStates
  <2> QED BY <1>5, <2>1 DEF PeerGivesUp, Shape, chan, bus
<1>6. CASE PeerGarbles
  <2>1. rxq' \in Seq(Frames)
    <3>1. \A k \in {"bad", "empty"} : Frame(k, NoMessage, 0) \in Frames
        BY Typed, 0 \in Nat
    <3> QED BY <1>6, <3>1, <1>q DEF PeerGarbles, says, Shape
  <2>2. lost' \in 0 .. MaxLost
      BY <1>6, IsoTpAssumption DEF PeerGarbles, Shape, IsoTpAssumption
  <2> QED BY <1>6, <2>1, <2>2 DEF PeerGarbles, Shape, chan
<1>7. CASE BusLoses
  <2>1. rxq' \in Seq(Frames)
      BY <1>7, <1>q DEF BusLoses, Shape
  <2>2. lost' \in 0 .. MaxLost
      BY <1>7, IsoTpAssumption DEF BusLoses, Shape, IsoTpAssumption
  <2> QED BY <1>7, <2>1, <2>2 DEF BusLoses, Shape, chan
<1> QED BY <1>1, <1>2, <1>3, <1>4, <1>5, <1>6, <1>7 DEF External, Peers

LEMMA NextIs == Next <=> \/ Steps \/ \E n \in Sizes : SendStart(n)
                        \/ Reads \/ External
BY DEF Next, Reads, External

-------------------------------------------------------------------------------
(* A channel that ended a send badly has read no message since *)

Base == Shape /\ Kept /\ Dirty

LEMMA BaseInit == Init => Base
BY ShapeInit DEF Init, Base, Kept, Dirty, NoRx, Idle

LEMMA BaseNext == ASSUME Base, [Next]_vars PROVE Base'
<1>0. /\ Shape /\ Idle.pc = "idle" /\ Kept /\ Dirty
    BY DEF Base, Idle
<1>1. CASE UNCHANGED vars
    BY <1>1 DEF vars, chan, bus, Base, Shape, Kept, Dirty
<1>2. CASE Steps \/ \E n \in Sizes : SendStart(n)
  <2>1. Shape'
      BY <1>0, <1>2, ShapeSends
  <2> SUFFICES (Kept /\ Dirty)'
      BY <2>1 DEF Base
  <2>2. call \in Calls
      BY <1>0 DEF Shape
  <2>3. ASSUME NEW n \in Sizes, SendStart(n) PROVE (Kept /\ Dirty)'
    <3>1. \/ call' = Idle
          \/ call'.pc = IF fc_dirty THEN "flush" ELSE "first"
        BY <2>3 DEF SendStart, Returns, Idle
    <3>2. rx' = NoRx /\ UNCHANGED <<fc_dirty, got, bad>>
        BY <2>3 DEF SendStart
    <3> QED BY <1>0, <3>1, <3>2 DEF Kept, Dirty
  <2>4. CASE FlushReads
      BY <1>0, <2>2, <2>4 DEF FlushReads, chan, Kept, Dirty, Calls
  <2>5. CASE FlushEnds
      BY <1>0, <2>2, <2>5 DEF FlushEnds, Kept, Dirty, Calls
  <2>6. CASE SendStopped
      BY <1>0, <2>6 DEF SendStopped, Returns, chan, Kept, Dirty
  <2>7. CASE SendFirst
      BY <1>0, <2>2, <2>7 DEF SendFirst, Returns, chan, Kept, Dirty, Calls
  <2>8. CASE AwaitSkips
      BY <1>0, <2>8 DEF AwaitSkips, chan, Kept, Dirty
  <2>9. CASE AwaitCleared
      BY <1>0, <2>2, <2>9 DEF AwaitCleared, chan, Kept, Dirty, Calls
  <2>10. CASE AwaitWaits
    <3>1. \/ call'.pc = call.pc /\ UNCHANGED <<fc_dirty, bad>>
          \/ call' = Idle /\ fc_dirty' /\ bad' = Len(got)
        BY <2>2, <2>10 DEF AwaitWaits, EndsBadly, Returns, Calls
    <3> QED BY <1>0, <2>10, <3>1 DEF AwaitWaits, Kept, Dirty
  <2>11. CASE AwaitRefused \/ AwaitTimesOut \/ SegmentedStopped
      BY <1>0, <2>11 DEF AwaitRefused, AwaitTimesOut, SegmentedStopped, EndsBadly, Returns, Kept, Dirty
  <2>12. CASE SendConsecutive
    <3>1. \/ call' = Idle /\ UNCHANGED <<fc_dirty, bad>>
          \/ call'.pc \in {"await", "sending"} /\ UNCHANGED <<fc_dirty, bad>>
          \/ call' = Idle /\ fc_dirty' /\ bad' = Len(got)
        BY <2>2, <2>12 DEF SendConsecutive, EndsBadly, Returns, Calls
    <3> QED BY <1>0, <2>12, <3>1 DEF SendConsecutive, Kept, Dirty
  <2> QED BY <1>2, <2>3, <2>4, <2>5, <2>6, <2>7, <2>8, <2>9, <2>10, <2>11, <2>12 DEF Steps
<1>3. CASE Reads
  <2>1. Shape'
      BY <1>0, <1>3, ShapeReads
  <2> SUFFICES (Kept /\ Dirty)'
      BY <2>1 DEF Base
  <2>2. CASE RecvSkips
      BY <1>0, <2>2 DEF RecvSkips, chan, Kept, Dirty
  <2>3. CASE RecvSingle
      BY <1>0, <2>3 DEF RecvSingle, Delivers, Returns, Kept, Dirty
  <2>4. CASE RecvFirst
    <3>1. call' = Idle \/ call'.pc = "recv"
        BY <2>4 DEF RecvFirst, Returns
    <3>2. UNCHANGED <<fc_dirty, got, bad>>
        BY <2>4 DEF RecvFirst
    <3> QED BY <1>0, <3>1, <3>2 DEF Kept, Dirty
  <2>5. CASE RecvConsecutive
    <3>1. \/ call' = Idle /\ UNCHANGED <<fc_dirty, got>>
          \/ call' = Idle /\ fc_dirty' = FALSE
          \/ call'.pc = "recv" /\ UNCHANGED <<fc_dirty, got>>
        BY <2>5 DEF RecvConsecutive, Delivers, Returns
    <3>2. UNCHANGED bad
        BY <2>5 DEF RecvConsecutive
    <3> QED BY <1>0, <3>1, <3>2 DEF Kept, Dirty
  <2>6. CASE RecvGarbage \/ RecvNCr \/ RecvStopped
      BY <1>0, <2>6 DEF RecvGarbage, RecvNCr, RecvStopped, Returns, Kept, Dirty
  <2>7. CASE RecvStart
      BY <1>0, <2>7 DEF RecvStart, Idle, chan, Kept, Dirty
  <2>8. CASE RecvTimesOut \/ DrainEnds
      BY <1>0, <2>8 DEF RecvTimesOut, DrainEnds, Returns, chan, Kept, Dirty
  <2>9. CASE DrainStart
      BY <1>0, <2>9 DEF DrainStart, Idle, Kept, Dirty
  <2>10. CASE DrainReads \/ RequestStop
      BY <1>0, <2>10 DEF DrainReads, RequestStop, chan, Kept, Dirty
  <2> QED BY <1>3, <2>2, <2>3, <2>4, <2>5, <2>6, <2>7, <2>8, <2>9, <2>10 DEF Reads, Recvs
<1>4. CASE External
  <2>1. Shape'
      BY <1>0, <1>4, ShapeExternal
  <2>2. UNCHANGED <<fc_dirty, rx, call, got, bad>>
      BY <1>4 DEF External, Peers, PeerHears, PeerAnswers, PeerContinues, PeerSays, PeerGivesUp, PeerGarbles, BusLoses, chan
  <2> QED BY <1>0, <2>1, <2>2 DEF Base, Kept, Dirty
<1> QED BY <1>1, <1>2, <1>3, <1>4, NextIs

\* A segmented send drains only while no message has been read since the send that ended badly, for
\* any peer, calls and faults (flush_rx, recv_succeeded).
THEOREM RepliesAlwaysSpared == Spec => []DrainSparesReplies
<1>1. Spec => []Base
    BY BaseInit, BaseNext, PTL DEF Spec
<1>2. Base => DrainSparesReplies
    BY DEF Base, Dirty, DrainSparesReplies
<1> QED BY <1>1, <1>2, PTL

-------------------------------------------------------------------------------
(* Every step keeps the line, and what is put together whole *)

LEMMA LineTyped == ASSUME Shape
                   PROVE  /\ Due \in Frames /\ Silence \in Frames /\ ~IsOwn(Silence) /\ rxq \in Seq(Frames)
                          /\ rx # NoRx => rx.next \in Nat
                          /\ lost \in Nat /\ said \in Nat /\ Line \in Seq(Frames)
<1>1. Silence \in Frames
    BY Typed, 0 \in Nat DEF Silence
<1>2. ~IsOwn(Silence)
    BY DEF Silence, Flow, IsOwn
<1>3. peer.tx.m \in Messages /\ peer.tx.next \in Nat
    BY DEF Shape, PeerStates, Receptions
<1>4. Due \in Frames
    BY <1>1, <1>3, Typed DEF Due
<1>5. rxq \in Seq(Frames) /\ lost \in Nat /\ said \in Nat
    BY IsoTpAssumption DEF Shape, IsoTpAssumption
<1>6. Line \in Seq(Frames)
    BY <1>4, <1>5, QueueTyped DEF Line
<1>7. rx # NoRx => rx.next \in Nat
    BY DEF Shape, Receptions
<1> QED BY <1>1, <1>2, <1>4, <1>5, <1>6, <1>7

\* Nothing on the line changes; or a frame at its head is read, and no transfer goes on by it.
LEMMA LineStays ==
    ASSUME Shape, InLine(Line, rx, lost, said), UNCHANGED <<rxq, lost, said>>, peer'.tx = peer.tx, rx' \in {rx, NoRx}
    PROVE  InLine(Line, rx, lost, said)'
<1>1. Line' = Line
    BY DEF Line, Due
<1>2. InLine(Line, rx', lost, said)
    BY DEF InLine, Continues
<1> QED BY <1>1, <1>2

LEMMA LineRead ==
    ASSUME Shape, InLine(Line, rx, lost, said), UNCHANGED <<lost, said>>, peer'.tx = peer.tx,
           rxq # <<>>, rxq' = Tail(rxq),
           rx' = NoRx \/ (rx' = rx /\ Head(rxq).k \in {"FC", "bad", "empty"})
    PROVE  InLine(Line, rx, lost, said)'
<1>1. Due' = Due
    BY DEF Due
<1>2. /\ InLine(Append(Tail(rxq), Due), NoRx, lost, said)
      /\ ~IsOwn(Head(rxq)) => InLine(Append(Tail(rxq), Due), rx, lost, said)
    BY LineTyped, ReadsPast DEF Line
<1>3. Head(rxq).k \in {"FC", "bad", "empty"} => ~IsOwn(Head(rxq))
    BY DEF IsOwn
<1>4. Line' = Append(Tail(rxq), Due)
    BY <1>1 DEF Line
<1>5. InLine(Line', rx', lost, said)
    BY <1>2, <1>3, <1>4
<1> QED BY <1>5

LEMMA LineJoined ==
    ASSUME Shape, InLine(Line, rx, lost, said), UNCHANGED <<rx, said>>, peer'.tx = peer.tx,
           lost' \in Nat, lost <= lost', NEW f \in Frames, ~IsOwn(f), rxq' = Append(rxq, f)
    PROVE  InLine(Line, rx, lost, said)'
<1>1. Due' = Due
    BY DEF Due
<1>2. InLine(Append(Append(rxq, f), Due), rx, lost', said)
    BY LineTyped, JoinsLine DEF Line
<1>3. Line' = Append(Append(rxq, f), Due)
    BY <1>1 DEF Line
<1>4. InLine(Line', rx, lost', said)
    BY <1>2, <1>3
<1> QED BY <1>4

Ready == Base /\ InLine(Line, rx, lost, said) /\ Whole

LEMMA ReadyInit == Init => Ready
<1> SUFFICES ASSUME Init PROVE Ready
    OBVIOUS
<1>1. rx = NoRx /\ NoRx.whole /\ lost = 0 /\ said = 0 /\ got = <<>> /\ rxq = <<>> /\ Due = Silence
    BY DEF Init, NoRx, Due
<1>2. Line = <<Silence>> /\ Len(Line) = 1 /\ DOMAIN Line = {1} /\ Line[1] = Silence
    BY <1>1 DEF Line
<1>3. ~IsOwn(Silence) /\ Silence.k = "FC"
    BY DEF Silence, Flow, IsOwn
<1>4. Rising(Line) /\ Gapless(Line) /\ Said(Line, said)
    BY <1>2, <1>3 DEF Rising, Gapless, Said
<1>5. Continues(Line, rx, lost)
    BY <1>1 DEF Continues
<1>6. Whole
    BY <1>1 DEF Whole, NoSplice
<1> QED BY <1>4, <1>5, <1>6, BaseInit DEF Ready, InLine

\* Messages read whole stay so.
LEMMA WholeAppended ==
    ASSUME NEW id \in Nat, Shape, Whole, got' = Append(got, [id |-> id, whole |-> TRUE]), rx' = NoRx
    PROVE  Whole'
<1>1. got \in Seq([id : Nat, whole : BOOLEAN]) /\ rx'.whole
    BY DEF Shape, NoRx
<1> DEFINE e == [id |-> id, whole |-> TRUE]
<1>2. e.whole /\ e \in [id : Nat, whole : BOOLEAN]
    OBVIOUS
<1> HIDE DEF e
<1>3. got' = Append(got, e)
    BY DEF e
<1>4. \A i \in DOMAIN got' : got'[i] = e \/ (i \in DOMAIN got /\ got'[i] = got[i])
    BY <1>1, <1>2, <1>3
<1> QED BY <1>1, <1>2, <1>4 DEF Whole, NoSplice

LEMMA ReadySends == ASSUME Ready, Steps \/ \E n \in Sizes : SendStart(n)
                    PROVE  InLine(Line, rx, lost, said)' /\ Whole'
<1>0. Shape /\ InLine(Line, rx, lost, said) /\ Whole /\ Kept /\ NoRx.whole
    BY DEF Ready, Base, NoRx
<1>1. UNCHANGED <<lost, said, peer, got>>
    BY DEF Steps, SendStart, FlushReads, FlushEnds, SendStopped, SendFirst, AwaitSkips, AwaitCleared, AwaitWaits,
           AwaitRefused, AwaitTimesOut, SegmentedStopped, SendConsecutive
<1>2. CASE FlushReads \/ AwaitSkips \/ AwaitCleared \/ AwaitWaits \/ AwaitRefused
  <2>1. rxq # <<>> /\ rxq' = Tail(rxq) /\ call.pc \in {"flush", "await"} /\ UNCHANGED rx
      BY <1>2 DEF FlushReads, AwaitSkips, AwaitCleared, AwaitWaits, AwaitRefused, chan
  <2>2. rx' = NoRx
      BY <1>0, <2>1 DEF Kept
  <2> QED BY <1>0, <1>1, <2>1, <2>2, LineRead DEF Whole, NoSplice
<1>3. CASE \/ FlushEnds \/ SendStopped \/ SendFirst \/ AwaitTimesOut \/ SegmentedStopped \/ SendConsecutive
           \/ \E n \in Sizes : SendStart(n)
  <2>1. rx' \in {rx, NoRx} /\ UNCHANGED rxq
      BY <1>3 DEF SendStart, FlushEnds, SendStopped, SendFirst, AwaitTimesOut, SegmentedStopped, SendConsecutive,
                  chan, bus
  <2> QED BY <1>0, <1>1, <2>1, LineStays DEF Whole, NoSplice
<1> QED BY <1>2, <1>3 DEF Steps

\* The Consecutive Frame a receive accepts is the one it awaits.
LEMMA Accepted ==
    ASSUME MaxLost < SNs, Shape, InLine(Line, rx, lost, said), rx # NoRx, rxq # <<>>, Head(rxq).k = "CF",
           InOrder(rx, Head(rxq))
    PROVE  Head(rxq).m = rx.m /\ Head(rxq).i = rx.next
<1>1. Line \in Seq(Frames) /\ Line # <<>> /\ Line[1] = Head(rxq) /\ Head(rxq) \in Frames
  <2>1. Due \in Frames /\ rxq \in Seq(Frames)
      BY LineTyped
  <2> QED BY <2>1 DEF Line
<1>2. Head(rxq).m = rx.m /\ rx.next <= Head(rxq).i + 1 /\ Head(rxq).i <= rx.next + lost
    BY <1>1, HeadContinues DEF InLine
<1>3. rx.next \in Nat /\ Head(rxq).i \in Nat /\ lost \in Nat /\ lost < SNs /\ SNs \in Nat \ {0, 1}
    BY <1>1, LineTyped, Kinds, IsoTpAssumption DEF Shape, IsoTpAssumption
<1>4. rx.next = Head(rxq).i
    BY <1>2, <1>3, SameNumber DEF InOrder
<1> QED BY <1>2, <1>4

LEMMA ReadyReads == ASSUME MaxLost < SNs, Ready, Reads
                    PROVE  InLine(Line, rx, lost, said)' /\ Whole'
<1>0. Shape /\ InLine(Line, rx, lost, said) /\ Whole /\ Kept /\ NoRx.whole
    BY DEF Ready, Base, NoRx
<1>1. UNCHANGED <<lost, said, peer>>
    BY DEF Reads, Recvs, RecvSkips, RecvSingle, RecvFirst, RecvConsecutive, RecvGarbage, RecvStart, RecvTimesOut, RecvNCr,
           RecvStopped, DrainStart, DrainReads, DrainEnds, RequestStop
<1>2. rxq # <<>> => Head(rxq) \in Frames /\ Head(rxq).m \in Messages /\ Head(rxq).m.id \in Nat
  <2>1. rxq # <<>> => Head(rxq) \in Frames
      BY <1>0, LineTyped, QueueTyped
  <2> QED BY <2>1 DEF Frames, Messages
<1>3. CASE RecvSkips
  <2>1. /\ rxq # <<>> /\ rxq' = Tail(rxq) /\ UNCHANGED <<rx, got>>
        /\ Head(rxq).k = "FC" \/ (Head(rxq).k = "CF" /\ rx = NoRx) \/ Head(rxq).k = "empty"
      BY <1>3 DEF RecvSkips, chan
  <2> QED BY <1>0, <1>1, <2>1, LineRead DEF Whole, NoSplice
<1>4. CASE RecvSingle
  <2>1. /\ rxq # <<>> /\ rxq' = Tail(rxq) /\ rx' = NoRx
        /\ got' = Append(got, [id |-> Head(rxq).m.id, whole |-> TRUE])
      BY <1>4 DEF RecvSingle, Delivers
  <2> QED BY <1>0, <1>1, <1>2, <2>1, LineRead, WholeAppended
<1>5. CASE RecvFirst
  <2>1. /\ rxq # <<>> /\ rxq' = Tail(rxq) /\ Head(rxq).k = "FF" /\ rx' \in {NoRx, Begun(Head(rxq).m)} /\ UNCHANGED got
      BY <1>5 DEF RecvFirst
  <2>2. InLine(Append(Tail(rxq), Due), Begun(Head(rxq).m), lost, said)
      BY <1>0, <2>1, LineTyped, ReadsFirst DEF Line
  <2>3. Line' = Append(Tail(rxq), Due)
      BY <1>1, <2>1 DEF Line, Due
  <2>4. rx'.whole
      BY <1>0, <2>1 DEF Begun
  <2>5. CASE rx' = NoRx
      BY <1>0, <1>1, <2>1, <2>4, <2>5, LineRead DEF Whole, NoSplice
  <2>6. CASE rx' = Begun(Head(rxq).m)
    <3>1. InLine(Line', rx', lost', said')
        BY <1>1, <2>2, <2>3, <2>6
    <3> QED BY <1>0, <2>1, <2>4, <3>1 DEF Whole, NoSplice
  <2> QED BY <2>1, <2>5, <2>6
<1>6. CASE RecvConsecutive
  <2> DEFINE r == Grown(rx, Head(rxq))
  <2>1. rxq # <<>> /\ Head(rxq).k = "CF" /\ rx # NoRx /\ rxq' = Tail(rxq)
      BY <1>6 DEF RecvConsecutive
  <2>2. /\ rx \in Receptions /\ r.m = rx.m /\ r.next = rx.next + 1 /\ rx.next \in Nat
        /\ r.whole = (rx.whole /\ Head(rxq).m = rx.m /\ Head(rxq).i = rx.next)
      BY <1>0, <1>2, <2>1, Typed DEF Shape, Receptions, Grown
  <2> HIDE DEF r
  <2>3. \/ rx' = NoRx /\ UNCHANGED got
        \/ InOrder(rx, Head(rxq)) /\ Delivers(r.m, r.whole)
        \/ InOrder(rx, Head(rxq)) /\ rx' = r /\ UNCHANGED got
      BY <1>6 DEF RecvConsecutive, r
  <2>4. ASSUME InOrder(rx, Head(rxq)) PROVE r.whole /\ Head(rxq).i = rx.next
      BY <1>0, <2>1, <2>2, <2>4, Accepted DEF Whole
  <2>5. CASE rx' = NoRx /\ UNCHANGED got
      BY <1>0, <1>1, <2>1, <2>5, LineRead DEF Whole, NoSplice
  <2>6. CASE InOrder(rx, Head(rxq)) /\ Delivers(r.m, r.whole)
    <3>1. r.m.id \in Nat /\ r.whole = TRUE
        BY <2>2, <2>4, <2>6 DEF Receptions, Messages
    <3>2. rx' = NoRx /\ got' = Append(got, [id |-> r.m.id, whole |-> TRUE])
        BY <2>6, <3>1 DEF Delivers
    <3> QED BY <1>0, <1>1, <2>1, <3>1, <3>2, LineRead, WholeAppended
  <2>7. CASE InOrder(rx, Head(rxq)) /\ rx' = r /\ UNCHANGED got
    <3>1. InLine(Append(Tail(rxq), Due), r, lost, said)
        BY <1>0, <2>1, <2>2, <2>4, <2>7, LineTyped, ReadsConsecutive DEF Line
    <3>2. Line' = Append(Tail(rxq), Due)
        BY <1>1, <2>1 DEF Line, Due
    <3>3. InLine(Line', rx', lost', said')
        BY <1>1, <2>7, <3>1, <3>2
    <3> QED BY <1>0, <2>4, <2>7, <3>3 DEF Whole, NoSplice
  <2> QED BY <2>3, <2>5, <2>6, <2>7
<1>7. CASE RecvGarbage
  <2>1. rxq # <<>> /\ rxq' = Tail(rxq) /\ rx' = NoRx /\ UNCHANGED got
      BY <1>7 DEF RecvGarbage
  <2> QED BY <1>0, <1>1, <2>1, LineRead DEF Whole, NoSplice
<1>8. CASE DrainReads
  <2>1. rxq # <<>> /\ rxq' = Tail(rxq) /\ UNCHANGED <<rx, got>> /\ call.pc = "drain"
      BY <1>8 DEF DrainReads, chan
  <2>2. rx' = NoRx
      BY <1>0, <2>1 DEF Kept
  <2> QED BY <1>0, <1>1, <2>1, <2>2, LineRead DEF Whole, NoSplice
<1>9. CASE RecvStart \/ RecvTimesOut \/ RecvNCr \/ RecvStopped \/ DrainStart \/ DrainEnds \/ RequestStop
  <2>1. rx' \in {rx, NoRx} /\ UNCHANGED <<rxq, got>>
      BY <1>9 DEF RecvStart, RecvTimesOut, RecvNCr, RecvStopped, DrainStart, DrainEnds, RequestStop, chan, bus
  <2> QED BY <1>0, <1>1, <2>1, LineStays DEF Whole, NoSplice
<1> QED BY <1>3, <1>4, <1>5, <1>6, <1>7, <1>8, <1>9 DEF Reads, Recvs

LEMMA ReadyExternal == ASSUME Ready, External
                       PROVE  InLine(Line, rx, lost, said)' /\ Whole'
<1>0. Shape /\ InLine(Line, rx, lost, said) /\ Whole /\ UNCHANGED <<rx, got>>
    BY DEF Ready, Base, External, Peers, PeerHears, PeerAnswers, PeerContinues, PeerSays, PeerGivesUp, PeerGarbles,
           BusLoses, chan
<1> SUFFICES InLine(Line, rx, lost, said)'
    BY <1>0 DEF Whole, NoSplice
<1>1. peer \in PeerStates /\ peer.tx \in Receptions /\ peer.rx.m \in Messages
    BY <1>0 DEF Shape, PeerStates, Receptions
<1>2. CASE PeerHears
  <2>1. UNCHANGED <<rxq, lost, said>> /\ peer'.tx = peer.tx
      BY <1>1, <1>2 DEF PeerHears, chan, PeerStates
  <2> QED BY <1>0, <2>1, LineStays
<1>3. CASE PeerAnswers
  <2>1. PICK fs \in FlowStatuses, bs \in BlockSizes : rxq' = Append(rxq, Flow(fs, bs, peer.rx.m))
      BY <1>3 DEF PeerAnswers, says
  <2>2. UNCHANGED <<lost, said>> /\ peer'.tx = peer.tx
      BY <1>1, <1>3 DEF PeerAnswers, chan, PeerStates
  <2>3. Flow(fs, bs, peer.rx.m) \in Frames
      BY <1>1, Typed, IsoTpAssumption DEF IsoTpAssumption
  <2>4. ~IsOwn(Flow(fs, bs, peer.rx.m))
      BY DEF Flow, IsOwn
  <2>5. lost' \in Nat /\ lost <= lost'
      BY <1>0, <2>2, LineTyped
  <2> QED BY <1>0, <2>1, <2>2, <2>3, <2>4, <2>5, LineJoined
<1>4. CASE PeerContinues
  <2> DEFINE t == [peer.tx EXCEPT !.next = @ + 1]
             d == IF Complete(t) THEN Silence ELSE Frame("CF", peer.tx.m, peer.tx.next + 1)
  <2>1. /\ peer.tx # NoRx /\ rxq' = Append(rxq, Frame("CF", peer.tx.m, peer.tx.next)) /\ UNCHANGED <<lost, said>>
        /\ peer'.tx = IF Complete(t) THEN NoRx ELSE t
      BY <1>1, <1>4 DEF PeerContinues, says, chan, PeerStates
  <2>2. rxq' = Line /\ Due = Frame("CF", peer.tx.m, peer.tx.next)
      BY <2>1 DEF Line, Due
  <2>3. /\ t.m = peer.tx.m /\ t.next = peer.tx.next + 1 /\ peer.tx.m \in Messages /\ peer.tx.next \in Nat
        /\ peer.tx.next + 1 \in Nat /\ t # NoRx
      BY <1>1 DEF Receptions, NoRx
  <2>4. Due' = d
      BY <2>1, <2>3 DEF Due
  <2>5. Line' = Append(Line, d)
      BY <2>2, <2>4 DEF Line
  <2>6. d \in Frames
      BY <1>0, <2>3, LineTyped, Typed
  <2>7. Line # <<>> /\ Line[Len(Line)] = Due
    <3>1. Due \in Frames /\ rxq \in Seq(Frames)
        BY <1>0, LineTyped
    <3> QED BY <3>1 DEF Line
  <2>8. Due.k = "CF" /\ Due.m = peer.tx.m /\ Due.i = peer.tx.next
      BY <2>2 DEF Frame
  <2>9. ~IsOwn(d) \/ (d.k = "CF" /\ d.m = peer.tx.m /\ d.i = peer.tx.next + 1)
      BY <1>0, LineTyped DEF Frame
  <2> HIDE DEF d, t
  <2>10. InLine(Append(Line, d), rx, lost, said)
      BY <1>0, <2>6, <2>7, <2>8, <2>9, LineTyped, GrowsLine
  <2>11. InLine(Line', rx', lost', said')
      BY <1>0, <2>1, <2>5, <2>10
  <2> QED BY <2>11
<1>5. CASE PeerSays
  <2>1. PICK n \in Sizes :
          LET m == [id |-> said + 1, n |-> n] IN
          /\ rxq' = Append(rxq, Frame(IF n = 0 THEN "SF" ELSE "FF", m, 0))
          /\ peer' = [peer EXCEPT !.tx = IF n = 0 THEN NoRx ELSE Begun(m), !.go = FALSE]
      BY <1>5 DEF PeerSays, says
  <2> DEFINE m == [id |-> said + 1, n |-> n]
             f == Frame(IF n = 0 THEN "SF" ELSE "FF", m, 0)
             d == IF n = 0 THEN Silence ELSE Frame("CF", m, 1)
  <2>2. m \in Messages /\ m.id = said + 1 /\ m # NoMessage /\ said \in Nat
      BY <1>0, IsoTpAssumption DEF IsoTpAssumption, Shape, Messages, NoMessage
  <2>3. rxq' = Append(rxq, f) /\ peer'.tx = (IF n = 0 THEN NoRx ELSE Begun(m))
      BY <1>1, <2>1 DEF PeerStates
  <2> HIDE DEF m
  <2>4. Due = Silence /\ said' = said + 1 /\ lost' = lost
      BY <1>5 DEF PeerSays, Due
  <2>5. Due' = d
      BY <2>2, <2>3 DEF Due, Begun, NoRx
  <2>6. f \in Frames /\ d \in Frames
      BY <1>0, <2>2, LineTyped, Typed, 0 \in Nat, 1 \in Nat
  <2>7. f.k \in {"SF", "FF"} /\ f.m.id = said + 1
      BY <2>2 DEF Frame
  <2>8. ~IsOwn(d) \/ (d.k = "CF" /\ d.m = f.m /\ f.k = "FF" /\ d.i = 1)
      BY <1>0, LineTyped DEF Frame
  <2> HIDE DEF f, d
  <2>9. InLine(rxq, rx, lost, said)
      BY <1>0, LineTyped, HushesLine DEF Line
  <2>10. InLine(Append(rxq, f), rx, lost, said + 1)
      BY <1>0, <2>2, <2>6, <2>7, <2>9, LineTyped, StartsLine
  <2>11. Append(rxq, f) \in Seq(Frames) /\ Append(rxq, f) # <<>> /\ Append(rxq, f)[Len(Append(rxq, f))] = f
    <3>1. rxq \in Seq(Frames)
        BY <1>0, LineTyped
    <3> QED BY <2>6, <3>1
  <2>12. InLine(Append(Append(rxq, f), d), rx, lost, said + 1)
      BY <1>0, <2>6, <2>8, <2>10, <2>11, LineTyped, GrowsLine
  <2>13. Line' = Append(Append(rxq, f), d)
      BY <2>3, <2>5 DEF Line
  <2>14. InLine(Line', rx', lost', said')
      BY <1>0, <2>4, <2>12, <2>13
  <2> QED BY <2>14
<1>6. CASE PeerGivesUp
  <2>1. UNCHANGED <<rxq, lost, said>> /\ (peer'.tx = peer.tx \/ peer'.tx = NoRx)
      BY <1>1, <1>6 DEF PeerGivesUp, chan, bus, PeerStates
  <2>2. CASE peer'.tx = peer.tx
      BY <1>0, <2>1, <2>2, LineStays
  <2>3. CASE peer'.tx = NoRx
    <3>1. Line' = Append(rxq, Silence)
        BY <2>1, <2>3 DEF Line, Due
    <3>2. InLine(rxq, rx, lost, said)
        BY <1>0, LineTyped, HushesLine DEF Line
    <3>3. InLine(Append(rxq, Silence), rx, lost, said)
        BY <1>0, <3>2, LineTyped, GrowsLine
    <3>4. InLine(Line', rx', lost', said')
        BY <1>0, <2>1, <3>1, <3>3
    <3> QED BY <3>4
  <2> QED BY <2>1, <2>2, <2>3
<1>7. CASE PeerGarbles
  <2>1. PICK k \in {"bad", "empty"} : rxq' = Append(rxq, Frame(k, NoMessage, 0))
      BY <1>7 DEF PeerGarbles, says
  <2>2. Frame(k, NoMessage, 0) \in Frames
      BY Typed, 0 \in Nat
  <2>3. ~IsOwn(Frame(k, NoMessage, 0))
      BY DEF Frame, IsOwn
  <2>4. lost' \in Nat /\ lost <= lost' /\ UNCHANGED <<said, peer>>
    <3>1. lost' = lost + 1 /\ lost \in Nat /\ UNCHANGED <<said, peer>>
        BY <1>0, <1>7, LineTyped DEF PeerGarbles
    <3> QED BY <3>1
  <2> QED BY <1>0, <2>1, <2>2, <2>3, <2>4, LineJoined
<1>8. CASE BusLoses
  <2>1. /\ rxq # <<>> /\ Head(rxq).k = "CF" /\ lost' = lost + 1 /\ UNCHANGED <<said, peer>>
        /\ rxq' \in {Tail(rxq), <<Head(rxq)>> \o rxq}
      BY <1>8 DEF BusLoses
  <2>2. Due' = Due
      BY <2>1 DEF Due
  <2>3. /\ InLine(Append(Tail(rxq), Due), rx, lost + 1, said)
        /\ InLine(Append(<<Head(rxq)>> \o rxq, Due), rx, lost + 1, said)
      BY <1>0, <2>1, LineTyped, LosesConsecutive, RepeatsConsecutive DEF Line
  <2>4. InLine(Line', rx', lost', said')
      BY <1>0, <2>1, <2>2, <2>3 DEF Line
  <2> QED BY <2>4
<1> QED BY <1>2, <1>3, <1>4, <1>5, <1>6, <1>7, <1>8 DEF External, Peers

LEMMA ReadyNext == ASSUME MaxLost < SNs, Ready, [Next]_vars PROVE Ready'
<1>1. Base'
    BY BaseNext DEF Ready
<1>2. ASSUME UNCHANGED vars PROVE InLine(Line, rx, lost, said)' /\ Whole'
  <2>1. Line' = Line /\ rx' = rx /\ lost' = lost /\ said' = said /\ got' = got
      BY <1>2 DEF vars, chan, bus, Line, Due
  <2>2. InLine(Line', rx', lost', said')
      BY <2>1 DEF Ready
  <2> QED BY <2>1, <2>2 DEF Ready, Whole, NoSplice
<1>3. InLine(Line, rx, lost, said)' /\ Whole'
    BY <1>2, NextIs, ReadySends, ReadyReads, ReadyExternal
<1> QED BY <1>1, <1>3 DEF Ready

\* recv never returns a PDU put together from two messages, for any messages, peer, calls, stops,
\* failing writes and resets, as long as fewer frames are lost or repeated than there are sequence
\* numbers: as many losses in a row would bring the same number round again (rx, the SN check).
THEOREM NeverSpliced == ASSUME MaxLost < SNs PROVE Spec => []NoSplice
<1>1. Spec => []Ready
    BY ReadyInit, ReadyNext, PTL DEF Spec
<1>2. Ready => NoSplice
    BY DEF Ready, Whole
<1> QED BY <1>1, <1>2, PTL

-------------------------------------------------------------------------------
(* Flow Controls *)

\* Neither did a send end badly since, nor may the peer still speak of one that did.
Clean == ~fc_dirty /\ ~exposed

Has(q, k) == \E i \in DOMAIN q : q[i].k = k

\* Nothing is sent of a transfer before its First Frame.
Fresh ==
    /\ call.pc \in {"flush", "first"} => call.in_block = 0
    /\ call.pc = "first" => call.off = 0

\* A First Frame not heard yet is of the transfer under way, and the last of it so far.
Opening ==
    \A i \in DOMAIN txq : txq[i].k = "FF" =>
        /\ call.pc = "await" /\ txq[i].m = call.m /\ call.off = 0
        /\ \A j \in DOMAIN txq : j > i => txq[j].k \notin {"FF", "CF"}

\* The peer owes a Flow Control of this transfer only, having heard all of it so far.
Heard == peer.rx.m = call.m /\ peer.rx.next = call.off + 1
Owing == peer.owes => call.pc = "await" /\ peer.rx # NoRx /\ Heard /\ ~Has(txq, "FF") /\ ~Has(txq, "CF")

\* A Flow Control on its way is of this transfer and follows all of it so far; it is the last
\* but for a WAIT, and the block it opens is the one the peer counts.
Answered ==
    \A i \in DOMAIN rxq : rxq[i].k = "FC" =>
        /\ call.pc = "await" /\ rxq[i].m = call.m /\ ~Has(txq, "FF") /\ ~Has(txq, "CF")
        /\ rxq[i].fs # "wait" => ~peer.owes /\ \A j \in DOMAIN rxq : j > i => rxq[j].k # "FC"
        /\ rxq[i].fs = "cts" /\ peer.rx # NoRx => Heard /\ peer.bs = rxq[i].bs /\ peer.in_block = 0

\* Consecutive Frames on their way follow what the peer has heard, in order, and none but the one a
\* sender waits behind fills its block.
Fills(i) == peer.bs > 0 /\ peer.in_block + (i - peer.rx.next) + 1 >= peer.bs
Flowing ==
    peer.rx # NoRx => \A q \in DOMAIN txq : txq[q].k = "CF" =>
        /\ txq[q].m = peer.rx.m /\ peer.rx.next <= txq[q].i
        /\ txq[q].i = peer.rx.next \/ Preceded(txq, 0, q)
        /\ \A p \in DOMAIN txq : p < q /\ txq[p].k = "CF" => txq[p].i < txq[q].i
        /\ txq[q].i < peer.rx.m.n /\ Fills(txq[q].i) =>
              call.pc = "await" /\ call.m = peer.rx.m /\ call.off = txq[q].i /\ ~Has(txq, "FF")

\* Once the First Frame is heard the peer listens to this transfer, if to any ...
Listening ==
    call.pc \in {"await", "sending"} /\ ~Has(txq, "FF") /\ peer.rx # NoRx =>
        peer.rx.m = call.m /\ \A q \in DOMAIN txq : txq[q].k = "CF" => txq[q].i <= call.off

\* ... and the sender in a block the peer opened counts as the peer does.
InBlock ==
    call.pc = "sending" =>
        /\ call.fc = call.m /\ ~Has(txq, "FF") /\ ~BlockFull(call.in_block)
        /\ peer.rx # NoRx =>
              /\ peer.bs = call.bs /\ peer.in_block + call.off + 1 = call.in_block + peer.rx.next
              /\ \/ peer.rx.next = call.off + 1
                 \/ \E q \in DOMAIN txq : txq[q].k = "CF" /\ txq[q].i = call.off

Flowed == Opening /\ Owing /\ Answered /\ Flowing /\ Listening /\ InBlock
Flows == Fresh /\ (Clean => Flowed)
-------------------------------------------------------------------------------
(* Every step keeps what is known of the Flow Controls *)

LEMMA FlowTyped ==
    ASSUME Shape
    PROVE  /\ call.off \in Nat /\ call.in_block \in Nat /\ call.bs \in Nat /\ call.m \in Messages /\ call \in Calls
           /\ peer.bs \in Nat /\ peer.in_block \in Nat /\ peer.rx.next \in Nat /\ peer.rx.m.n \in Nat /\ peer \in PeerStates
           /\ peer.rx \in Receptions /\ peer.rx.m \in Messages
           /\ rxq \in Seq(Frames) /\ txq \in Seq(Frames)
           /\ \A i \in DOMAIN txq : txq[i] \in Frames /\ txq[i].i \in Nat /\ i \in Nat \ {0}
           /\ \A i \in DOMAIN rxq : rxq[i] \in Frames /\ rxq[i].bs \in Nat /\ i \in Nat \ {0}
<1>1. rxq \in Seq(Frames) /\ txq \in Seq(Frames)
    BY DEF Shape
<1>2. /\ \A i \in DOMAIN txq : txq[i] \in Frames /\ i \in Nat \ {0}
      /\ \A i \in DOMAIN rxq : rxq[i] \in Frames /\ i \in Nat \ {0}
    BY <1>1
<1>3. call \in Calls /\ peer \in PeerStates
    BY DEF Shape
<1>4. call.off \in Nat /\ call.in_block \in Nat /\ call.bs \in Nat /\ call.m \in Messages
    BY <1>3 DEF Calls
<1>5. peer.bs \in Nat /\ peer.in_block \in Nat /\ peer.rx \in Receptions
    BY <1>3 DEF PeerStates
<1>6. peer.rx.next \in Nat /\ peer.rx.m \in Messages /\ peer.rx.m.n \in Nat
    BY <1>5 DEF Receptions, Messages
<1>7. \A f \in Frames : f.i \in Nat /\ f.bs \in Nat
    BY DEF Frames
<1> QED BY <1>1, <1>2, <1>3, <1>4, <1>5, <1>6, <1>7

\* The Flow Controls queued are among those that were, in their order.
LEMMA AnsweredKept ==
    ASSUME Shape, Shape', Answered, UNCHANGED txq, call'.pc = call.pc, call'.m = call.m, call'.off = call.off,
           peer'.owes = peer.owes, peer'.rx = peer.rx, peer'.bs = peer.bs, peer'.in_block = peer.in_block,
           NEW back,
           \A i \in DOMAIN rxq' : rxq'[i].k = "FC" => back[i] \in DOMAIN rxq /\ rxq[back[i]] = rxq'[i],
           \A i, j \in DOMAIN rxq' : i < j /\ rxq'[i].k = "FC" /\ rxq'[j].k = "FC" => back[i] < back[j]
    PROVE  Answered'
<1> SUFFICES ASSUME NEW i \in DOMAIN rxq', rxq'[i].k = "FC"
             PROVE  (/\ call.pc = "await" /\ rxq[i].m = call.m /\ ~Has(txq, "FF") /\ ~Has(txq, "CF")
                     /\ rxq[i].fs # "wait" => ~peer.owes /\ \A j \in DOMAIN rxq : j > i => rxq[j].k # "FC"
                     /\ rxq[i].fs = "cts" /\ peer.rx # NoRx => Heard /\ peer.bs = rxq[i].bs /\ peer.in_block = 0)'
    BY DEF Answered
<1>1. back[i] \in DOMAIN rxq /\ rxq[back[i]] = rxq'[i]
    OBVIOUS
<1>2. /\ call.pc = "await" /\ rxq[back[i]].m = call.m /\ ~Has(txq, "FF") /\ ~Has(txq, "CF")
      /\ rxq[back[i]].fs # "wait" => ~peer.owes /\ \A j \in DOMAIN rxq : j > back[i] => rxq[j].k # "FC"
      /\ rxq[back[i]].fs = "cts" /\ peer.rx # NoRx => Heard /\ peer.bs = rxq[back[i]].bs /\ peer.in_block = 0
    BY <1>1 DEF Answered
<1>3. (~Has(txq, "FF") /\ ~Has(txq, "CF"))' /\ Heard' = Heard
    BY <1>2 DEF Has, Heard
<1>4. \A j \in DOMAIN rxq' : j > i /\ rxq'[j].k = "FC" => back[j] \in DOMAIN rxq /\ rxq[back[j]].k = "FC" /\ back[j] > back[i]
  <2> SUFFICES ASSUME NEW j \in DOMAIN rxq', j > i, rxq'[j].k = "FC"
               PROVE  back[j] \in DOMAIN rxq /\ rxq[back[j]].k = "FC" /\ back[j] > back[i]
      OBVIOUS
  <2>1. back[j] \in DOMAIN rxq /\ rxq[back[j]] = rxq'[j]
      OBVIOUS
  <2>2. i \in Nat /\ j \in Nat /\ i < j
    <3>1. rxq' \in Seq(Frames)
        BY DEF Shape
    <3> QED BY <3>1
  <2>3. back[i] < back[j] /\ back[i] \in Nat /\ back[j] \in Nat
      BY <1>1, <2>1, <2>2, FlowTyped
  <2> QED BY <2>1, <2>3
<1> QED BY <1>1, <1>2, <1>3, <1>4

\* Nothing that matters to the Flow Controls changes but the queue here, which they only leave.
LEMMA FlowKept ==
    ASSUME Shape, Shape', Flowed, Answered', UNCHANGED txq, call'.pc = call.pc, call'.m = call.m, call'.off = call.off,
           call'.in_block = call.in_block, call'.bs = call.bs, call'.fc = call.fc,
           peer'.owes = peer.owes, peer'.rx = peer.rx, peer'.bs = peer.bs, peer'.in_block = peer.in_block
    PROVE  Flowed'
<1>1. Opening'
    BY DEF Flowed, Opening
<1>2. Owing'
    BY DEF Flowed, Owing, Heard, Has
<1>3. Flowing'
    BY DEF Flowed, Flowing, Fills, Preceded, Has
<1>4. Listening'
    BY DEF Flowed, Listening, Has
<1>5. InBlock'
    BY DEF Flowed, InBlock, Has, BlockFull
<1> QED BY <1>1, <1>2, <1>3, <1>4, <1>5 DEF Flowed

\* A frame joins or leaves the queue here that is no Flow Control, or is put there twice.
LEMMA AnsweredMoves ==
    ASSUME Shape, Shape', Answered, UNCHANGED txq, call'.pc = call.pc, call'.m = call.m, call'.off = call.off,
           peer'.owes = peer.owes, peer'.rx = peer.rx, peer'.bs = peer.bs, peer'.in_block = peer.in_block,
           \/ UNCHANGED rxq
           \/ \E f \in Frames : f.k # "FC" /\ rxq' = Append(rxq, f)
           \/ rxq # <<>> /\ rxq' = Tail(rxq)
           \/ rxq # <<>> /\ Head(rxq).k # "FC" /\ rxq' = <<Head(rxq)>> \o rxq
    PROVE  Answered'
<1>0. rxq \in Seq(Frames) /\ rxq' \in Seq(Frames) /\ \A i \in DOMAIN rxq : i \in Nat \ {0}
  <2>1. rxq' \in Seq(Frames)
      BY DEF Shape
  <2> QED BY <2>1, FlowTyped
<1>1. CASE UNCHANGED rxq
  <2> DEFINE back == [i \in DOMAIN rxq |-> i]
  <2>1. \A i \in DOMAIN rxq : back[i] = i
      OBVIOUS
  <2> HIDE DEF back
  <2>2. \A i \in DOMAIN rxq' : back[i] \in DOMAIN rxq /\ rxq[back[i]] = rxq'[i]
      BY <1>1, <2>1
  <2>3. \A i, j \in DOMAIN rxq' : i < j => back[i] < back[j]
      BY <1>1, <2>1
  <2> QED BY <2>2, <2>3, AnsweredKept
<1>2. ASSUME NEW f \in Frames, f.k # "FC", rxq' = Append(rxq, f) PROVE Answered'
  <2> DEFINE back == [i \in DOMAIN rxq' |-> i]
  <2>1. \A i \in DOMAIN rxq' : rxq'[i].k = "FC" => i \in DOMAIN rxq /\ rxq[i] = rxq'[i]
      BY <1>0, <1>2
  <2>2. \A i \in DOMAIN rxq' : back[i] = i
      OBVIOUS
  <2> HIDE DEF back
  <2>3. \A i, j \in DOMAIN rxq' : i < j => back[i] < back[j]
      BY <2>2
  <2>4. \A i \in DOMAIN rxq' : rxq'[i].k = "FC" => back[i] \in DOMAIN rxq /\ rxq[back[i]] = rxq'[i]
      BY <2>1, <2>2
  <2> QED BY <2>3, <2>4, AnsweredKept
<1>3. CASE rxq # <<>> /\ rxq' = Tail(rxq)
  <2> DEFINE back == [i \in DOMAIN rxq' |-> i + 1]
  <2>1. \A i \in DOMAIN rxq' : i + 1 \in DOMAIN rxq /\ rxq[i + 1] = rxq'[i] /\ i \in Nat
      BY <1>0, <1>3
  <2>2. \A i \in DOMAIN rxq' : back[i] = i + 1
      OBVIOUS
  <2> HIDE DEF back
  <2>3. \A i, j \in DOMAIN rxq' : i < j => back[i] < back[j]
      BY <2>1, <2>2
  <2> QED BY <2>1, <2>2, <2>3, AnsweredKept
<1>4. CASE rxq # <<>> /\ Head(rxq).k # "FC" /\ rxq' = <<Head(rxq)>> \o rxq
  <2> DEFINE back == [i \in DOMAIN rxq' |-> i - 1]
  <2>1. /\ Len(rxq) \in Nat /\ Len(rxq') = Len(rxq) + 1 /\ DOMAIN rxq' = 1 .. Len(rxq') /\ DOMAIN rxq = 1 .. Len(rxq)
        /\ \A i \in 1 .. Len(rxq') : rxq'[i] = IF i = 1 THEN Head(rxq) ELSE rxq[i - 1]
    <3>1. <<Head(rxq)>> \in Seq(Frames) /\ Len(<<Head(rxq)>>) = 1 /\ <<Head(rxq)>>[1] = Head(rxq)
        BY <1>0, <1>4
    <3> QED BY <1>0, <1>4, <3>1
  <2>5. Len(rxq) \in Nat /\ \A i \in DOMAIN rxq' : i \in Nat
      BY <1>0
  <2>2. \A i \in DOMAIN rxq' : rxq'[i].k = "FC" => i - 1 \in DOMAIN rxq /\ rxq[i - 1] = rxq'[i]
    <3>1. ASSUME NEW i \in DOMAIN rxq', rxq'[i].k = "FC" PROVE i - 1 \in DOMAIN rxq /\ rxq[i - 1] = rxq'[i]
      <4>1. i \in 1 .. (Len(rxq) + 1) /\ rxq'[i] = IF i = 1 THEN Head(rxq) ELSE rxq[i - 1]
          BY <2>1
      <4>2. i # 1
          BY <1>4, <3>1, <4>1
      <4>3. i - 1 \in 1 .. Len(rxq)
          BY <2>5, <4>1, <4>2
      <4> QED BY <2>1, <4>1, <4>2, <4>3
    <3> QED BY <3>1
  <2>3. \A i \in DOMAIN rxq' : back[i] = i - 1 /\ i \in Nat
    <3>1. \A i \in DOMAIN rxq' : back[i] = i - 1
        OBVIOUS
    <3> HIDE DEF back
    <3>2. \A i \in DOMAIN rxq' : i \in Nat
        BY <2>5
    <3> QED BY <3>1, <3>2
  <2> HIDE DEF back
  <2>4. \A i, j \in DOMAIN rxq' : i < j => back[i] < back[j]
      BY <2>3
  <2> QED BY <2>2, <2>3, <2>4, AnsweredKept
<1> QED BY <1>1, <1>2, <1>3, <1>4

\* The queue to the peer with one more frame, and with one less.
LEMMA TxGrown ==
    ASSUME Shape, NEW f \in Frames, txq' = Append(txq, f)
    PROVE  /\ \A i \in DOMAIN txq : i \in DOMAIN txq' /\ txq'[i] = txq[i] /\ i < Len(txq) + 1
           /\ \A i \in DOMAIN txq' : (i \in DOMAIN txq \/ i = Len(txq) + 1) /\ i \in Nat \ {0}
           /\ Len(txq) + 1 \in DOMAIN txq' /\ txq'[Len(txq) + 1] = f /\ Len(txq) \in Nat
           /\ \A q \in DOMAIN txq : Preceded(txq, 0, q) => Preceded(txq', 0, q)
<1>1. txq \in Seq(Frames)
    BY DEF Shape
<1>2. /\ \A i \in DOMAIN txq : i \in DOMAIN txq' /\ txq'[i] = txq[i] /\ i < Len(txq) + 1
      /\ \A i \in DOMAIN txq' : (i \in DOMAIN txq \/ i = Len(txq) + 1) /\ i \in Nat \ {0}
      /\ Len(txq) + 1 \in DOMAIN txq' /\ txq'[Len(txq) + 1] = f /\ Len(txq) \in Nat
    BY <1>1
<1>3. \A q \in DOMAIN txq : Preceded(txq, 0, q) => Preceded(txq', 0, q)
    BY <1>2 DEF Preceded
<1> QED BY <1>2, <1>3

LEMMA TxHeard ==
    ASSUME Shape, txq # <<>>, txq' = Tail(txq)
    PROVE  /\ Head(txq) = txq[1] /\ 1 \in DOMAIN txq /\ Head(txq) \in Frames
           /\ \A i \in DOMAIN txq' : i + 1 \in DOMAIN txq /\ txq'[i] = txq[i + 1] /\ i \in Nat /\ 1 < i + 1
           /\ \A i \in DOMAIN txq : i = 1 \/ (i - 1 \in DOMAIN txq' /\ txq'[i - 1] = txq[i])
           /\ \A q \in DOMAIN txq' : Preceded(txq, 0, q + 1) =>
                 Preceded(txq', 0, q) \/ (Head(txq).k = "CF" /\ Head(txq).i + 1 = txq'[q].i)
<1>1. txq \in Seq(Frames)
    BY DEF Shape
<1>2. /\ Head(txq) = txq[1] /\ 1 \in DOMAIN txq /\ Head(txq) \in Frames
      /\ \A i \in DOMAIN txq' : i + 1 \in DOMAIN txq /\ txq'[i] = txq[i + 1] /\ i \in Nat /\ 1 < i + 1
      /\ \A i \in DOMAIN txq : i \in Nat /\ (i = 1 \/ (i - 1 \in DOMAIN txq' /\ txq'[i - 1] = txq[i]))
    BY <1>1
<1>3. ASSUME NEW q \in DOMAIN txq', Preceded(txq, 0, q + 1)
      PROVE  Preceded(txq', 0, q) \/ (Head(txq).k = "CF" /\ Head(txq).i + 1 = txq'[q].i)
  <2>1. PICK f \in DOMAIN txq : /\ 0 < f /\ f < q + 1 /\ txq[f].k = "CF" /\ txq[f].m = txq[q + 1].m
                                /\ txq[f].i + 1 = txq[q + 1].i
      BY <1>3 DEF Preceded
  <2>2. CASE f = 1
      BY <1>2, <2>1, <2>2
  <2>3. CASE f # 1
    <3>1. f - 1 \in DOMAIN txq' /\ txq'[f - 1] = txq[f] /\ 0 < f - 1 /\ f - 1 < q
        BY <1>2, <2>1, <2>3
    <3> QED BY <1>2, <2>1, <3>1 DEF Preceded
  <2> QED BY <2>2, <2>3
<1> QED BY <1>2, <1>3

\* What goes on outside a segmented send: no Flow Control is on its way, none is owed.
LEMMA FlowElsewhere ==
    ASSUME Shape, Flowed, call.pc \notin {"await", "sending"}, call'.pc \in {"idle", "recv", "drain", "first"},
           UNCHANGED peer, UNCHANGED rxq \/ (rxq # <<>> /\ rxq' = Tail(rxq)),
           UNCHANGED txq \/ \E f \in Frames : f.k \notin {"FF", "CF"} /\ txq' = Append(txq, f)
    PROVE  Flowed'
<1>1. \A i \in DOMAIN rxq : rxq[i].k # "FC"
    BY DEF Flowed, Answered
<1>2. \A i \in DOMAIN rxq' : rxq'[i].k # "FC"
  <2>1. rxq \in Seq(Frames)
      BY DEF Shape
  <2>2. CASE UNCHANGED rxq
      BY <1>1, <2>2
  <2>3. CASE rxq # <<>> /\ rxq' = Tail(rxq)
    <3>1. \A i \in DOMAIN rxq' : i + 1 \in DOMAIN rxq /\ rxq'[i] = rxq[i + 1]
        BY <2>1, <2>3
    <3> QED BY <1>1, <3>1
  <2> QED BY <2>2, <2>3
<1>3. ~peer.owes /\ \A i \in DOMAIN txq : txq[i].k # "FF"
    BY DEF Flowed, Owing, Opening
<1>4. /\ \A i \in DOMAIN txq' : txq'[i].k \in {"FF", "CF"} =>
            i \in DOMAIN txq /\ txq'[i] = txq[i] /\ (Preceded(txq, 0, i) => Preceded(txq', 0, i))
      /\ \A i \in DOMAIN txq : i \in DOMAIN txq'
  <2>1. CASE UNCHANGED txq
      BY <2>1
  <2>2. ASSUME NEW f \in Frames, f.k \notin {"FF", "CF"}, txq' = Append(txq, f)
        PROVE  /\ \A i \in DOMAIN txq' : txq'[i].k \in {"FF", "CF"} =>
                      i \in DOMAIN txq /\ txq'[i] = txq[i] /\ (Preceded(txq, 0, i) => Preceded(txq', 0, i))
               /\ \A i \in DOMAIN txq : i \in DOMAIN txq'
      BY <2>2, TxGrown
  <2> QED BY <2>1, <2>2
<1>5. Opening' /\ Answered' /\ Owing' /\ InBlock' /\ Listening'
    BY <1>2, <1>3, <1>4 DEF Opening, Answered, Owing, InBlock, Listening
<1>6. Flowing'
  <2> SUFFICES ASSUME peer.rx # NoRx, NEW q \in DOMAIN txq', txq'[q].k = "CF"
               PROVE  /\ txq'[q].m = peer.rx.m /\ peer.rx.next <= txq'[q].i
                      /\ txq'[q].i = peer.rx.next \/ Preceded(txq', 0, q)
                      /\ \A p \in DOMAIN txq' : p < q /\ txq'[p].k = "CF" => txq'[p].i < txq'[q].i
                      /\ ~(txq'[q].i < peer.rx.m.n /\ Fills(txq'[q].i))
      BY DEF Flowing, Fills
  <2>1. /\ txq[q].m = peer.rx.m /\ peer.rx.next <= txq[q].i
        /\ txq[q].i = peer.rx.next \/ Preceded(txq, 0, q)
        /\ \A p \in DOMAIN txq : p < q /\ txq[p].k = "CF" => txq[p].i < txq[q].i
        /\ ~(txq[q].i < peer.rx.m.n /\ Fills(txq[q].i))
      BY <1>4 DEF Flowed, Flowing
  <2> QED BY <1>4, <2>1
<1> QED BY <1>5, <1>6 DEF Flowed

\* The peer is told nothing of a transfer, or listens to none any more.
LEMMA FlowUnheard ==
    ASSUME Shape, Flowed, UNCHANGED <<call, rxq>>,
           \/ UNCHANGED txq
           \/ txq # <<>> /\ Head(txq).k # "FF" /\ txq' = Tail(txq),
           \/ peer'.rx = NoRx /\ ~peer'.owes
           \/ /\ peer'.rx = peer.rx /\ peer'.owes = peer.owes /\ peer'.bs = peer.bs /\ peer'.in_block = peer.in_block
              /\ txq # <<>> /\ Head(txq).k # "CF"
    PROVE  Flowed'
<1>1. /\ \A i \in DOMAIN txq' : \E l \in DOMAIN txq : txq[l] = txq'[i]
      /\ \A i \in DOMAIN txq : \A j \in DOMAIN txq : txq[i].k = "FF" /\ j > i => txq[j].k \notin {"FF", "CF"}
    BY TxHeard DEF Flowed, Opening
<1>2. \A k \in {"FF", "CF"} : ~Has(txq, k) => ~(Has(txq, k)')
    BY <1>1 DEF Has
<1>3. Has(txq, "FF") => Has(txq, "FF")'
    BY TxHeard DEF Has
<1>4. Opening'
  <2> SUFFICES ASSUME NEW i \in DOMAIN txq', txq'[i].k = "FF"
               PROVE  /\ call.pc = "await" /\ txq'[i].m = call.m /\ call.off = 0
                      /\ \A j \in DOMAIN txq' : j > i => txq'[j].k \notin {"FF", "CF"}
      BY DEF Opening
  <2>1. CASE UNCHANGED txq
      BY <2>1 DEF Flowed, Opening
  <2>2. CASE txq # <<>> /\ Head(txq).k # "FF" /\ txq' = Tail(txq)
    <3>1. i + 1 \in DOMAIN txq /\ txq'[i] = txq[i + 1] /\ i \in Nat
        BY <2>2, TxHeard
    <3>2. \A j \in DOMAIN txq' : j > i => j + 1 \in DOMAIN txq /\ txq'[j] = txq[j + 1] /\ j + 1 > i + 1
        BY <2>2, <3>1, TxHeard
    <3> QED BY <3>1, <3>2 DEF Flowed, Opening
  <2> QED BY <2>1, <2>2
<1>5. Owing'
    BY <1>2 DEF Flowed, Owing, Heard
<1>6. Answered'
  <2> SUFFICES ASSUME NEW i \in DOMAIN rxq, rxq[i].k = "FC"
               PROVE  /\ call.pc = "await" /\ rxq[i].m = call.m /\ ~(Has(txq, "FF")') /\ ~(Has(txq, "CF")')
                      /\ rxq[i].fs # "wait" => ~peer'.owes /\ \A j \in DOMAIN rxq : j > i => rxq[j].k # "FC"
                      /\ rxq[i].fs = "cts" /\ peer'.rx # NoRx => Heard' /\ peer'.bs = rxq[i].bs /\ peer'.in_block = 0
      BY DEF Answered
  <2>1. /\ call.pc = "await" /\ rxq[i].m = call.m /\ ~Has(txq, "FF") /\ ~Has(txq, "CF")
        /\ rxq[i].fs # "wait" => ~peer.owes /\ \A j \in DOMAIN rxq : j > i => rxq[j].k # "FC"
        /\ rxq[i].fs = "cts" /\ peer.rx # NoRx => Heard /\ peer.bs = rxq[i].bs /\ peer.in_block = 0
      BY DEF Flowed, Answered
  <2> QED BY <1>2, <2>1 DEF Heard
<1>7. Listening'
    BY <1>1, <1>3 DEF Flowed, Listening
<1>8. Flowing'
  <2> SUFFICES ASSUME peer'.rx # NoRx, NEW q \in DOMAIN txq', txq'[q].k = "CF"
               PROVE  /\ txq'[q].m = peer.rx.m /\ peer.rx.next <= txq'[q].i
                      /\ txq'[q].i = peer.rx.next \/ Preceded(txq', 0, q)
                      /\ \A p \in DOMAIN txq' : p < q /\ txq'[p].k = "CF" => txq'[p].i < txq'[q].i
                      /\ txq'[q].i < peer.rx.m.n /\ Fills(txq'[q].i) =>
                            call.pc = "await" /\ call.m = peer.rx.m /\ call.off = txq'[q].i /\ ~Has(txq, "FF")
      BY <1>2 DEF Flowing, Fills
  <2>1. CASE UNCHANGED txq
      BY <2>1 DEF Flowed, Flowing
  <2>2. CASE txq # <<>> /\ Head(txq).k # "FF" /\ txq' = Tail(txq)
    <3>1. q + 1 \in DOMAIN txq /\ txq'[q] = txq[q + 1] /\ q \in Nat
        BY <2>2, TxHeard
    <3>2. \A p \in DOMAIN txq' : p < q => p + 1 \in DOMAIN txq /\ txq'[p] = txq[p + 1] /\ p + 1 < q + 1
        BY <2>2, <3>1, TxHeard
    <3>3. Preceded(txq, 0, q + 1) => Preceded(txq', 0, q)
        BY <2>2, TxHeard
    <3>4. /\ txq[q + 1].m = peer.rx.m /\ peer.rx.next <= txq[q + 1].i
          /\ txq[q + 1].i = peer.rx.next \/ Preceded(txq, 0, q + 1)
          /\ \A p \in DOMAIN txq : p < q + 1 /\ txq[p].k = "CF" => txq[p].i < txq[q + 1].i
          /\ txq[q + 1].i < peer.rx.m.n /\ Fills(txq[q + 1].i) =>
                call.pc = "await" /\ call.m = peer.rx.m /\ call.off = txq[q + 1].i /\ ~Has(txq, "FF")
        BY <3>1 DEF Flowed, Flowing
    <3> QED BY <3>1, <3>2, <3>3, <3>4
  <2> QED BY <2>1, <2>2
<1>9. InBlock'
  <2> SUFFICES ASSUME call.pc = "sending"
               PROVE  /\ call.fc = call.m /\ ~(Has(txq, "FF")') /\ ~BlockFull(call.in_block)
                      /\ peer'.rx # NoRx =>
                            /\ peer.bs = call.bs /\ peer.in_block + call.off + 1 = call.in_block + peer.rx.next
                            /\ \/ peer.rx.next = call.off + 1
                               \/ \E q \in DOMAIN txq' : txq'[q].k = "CF" /\ txq'[q].i = call.off
      BY DEF InBlock, BlockFull
  <2>1. /\ call.fc = call.m /\ ~Has(txq, "FF") /\ ~BlockFull(call.in_block)
        /\ peer.rx # NoRx =>
              /\ peer.bs = call.bs /\ peer.in_block + call.off + 1 = call.in_block + peer.rx.next
              /\ \/ peer.rx.next = call.off + 1
                 \/ \E q \in DOMAIN txq : txq[q].k = "CF" /\ txq[q].i = call.off
      BY DEF Flowed, InBlock
  <2>2. peer'.rx # NoRx => \A q \in DOMAIN txq : txq[q].k = "CF" => \E l \in DOMAIN txq' : txq'[l] = txq[q]
    <3>1. CASE UNCHANGED txq
        BY <3>1
    <3>2. CASE txq # <<>> /\ Head(txq).k # "FF" /\ txq' = Tail(txq)
        BY <3>2, TxHeard
    <3> QED BY <3>1, <3>2
  <2> QED BY <1>2, <2>1, <2>2
<1> QED BY <1>4, <1>5, <1>6, <1>7, <1>8, <1>9 DEF Flowed

LEMMA FlowSendFirst == ASSUME Shape, Shape', Fresh, Flowed, SendFirst PROVE Flowed'
<1>0. call.pc = "first" /\ UNCHANGED <<rxq, peer>> /\ call.off = 0 /\ call.in_block = 0
    BY DEF SendFirst, Fresh
<1>1. CASE call' = Idle /\ UNCHANGED txq
    BY <1>0, <1>1, FlowElsewhere DEF Idle
<1>2. CASE call' = [call EXCEPT !.pc = "await"] /\ tx(Frame("FF", call.m, 0))
  <2> DEFINE f == Frame("FF", call.m, 0)
  <2>1. call'.pc = "await" /\ call'.m = call.m /\ call'.off = 0
      BY <1>0, <1>2, FlowTyped DEF Calls
  <2>2. f \in Frames /\ f.k = "FF" /\ f.m = call.m
      BY FlowTyped, Typed, 0 \in Nat DEF Frame
  <2> HIDE DEF f
  <2>3. txq' = Append(txq, f)
      BY <1>2 DEF tx, f
  <2>4. /\ \A i \in DOMAIN txq : i \in DOMAIN txq' /\ txq'[i] = txq[i] /\ i < Len(txq) + 1 /\ txq[i].k # "FF"
        /\ \A i \in DOMAIN txq' : (i \in DOMAIN txq \/ i = Len(txq) + 1) /\ i \in Nat \ {0}
        /\ Len(txq) + 1 \in DOMAIN txq' /\ txq'[Len(txq) + 1] = f /\ Len(txq) \in Nat
        /\ \A q \in DOMAIN txq : Preceded(txq, 0, q) => Preceded(txq', 0, q)
    <3>1. \A i \in DOMAIN txq : txq[i].k # "FF"
        BY <1>0 DEF Flowed, Opening
    <3> QED BY <2>2, <2>3, <3>1, TxGrown
  <2>5. \A i \in DOMAIN rxq : rxq[i].k # "FC"
      BY <1>0 DEF Flowed, Answered
  <2>6. ~peer.owes
      BY <1>0 DEF Flowed, Owing
  <2>7. Opening'
      BY <2>1, <2>2, <2>4 DEF Opening
  <2>8. Answered' /\ Owing' /\ InBlock'
      BY <1>0, <2>1, <2>5, <2>6 DEF Answered, Owing, InBlock
  <2>9. Listening'
      BY <2>2, <2>4 DEF Listening, Has
  <2>10. Flowing'
    <3> SUFFICES ASSUME peer.rx # NoRx, NEW q \in DOMAIN txq', txq'[q].k = "CF"
                 PROVE  /\ txq'[q].m = peer.rx.m /\ peer.rx.next <= txq'[q].i
                        /\ txq'[q].i = peer.rx.next \/ Preceded(txq', 0, q)
                        /\ \A p \in DOMAIN txq' : p < q /\ txq'[p].k = "CF" => txq'[p].i < txq'[q].i
                        /\ ~(txq'[q].i < peer.rx.m.n /\ Fills(txq'[q].i))
        BY <1>0 DEF Flowing, Fills
    <3>1. q \in DOMAIN txq /\ txq'[q] = txq[q]
        BY <2>2, <2>4
    <3>2. /\ txq[q].m = peer.rx.m /\ peer.rx.next <= txq[q].i
          /\ txq[q].i = peer.rx.next \/ Preceded(txq, 0, q)
          /\ \A p \in DOMAIN txq : p < q /\ txq[p].k = "CF" => txq[p].i < txq[q].i
          /\ ~(txq[q].i < peer.rx.m.n /\ Fills(txq[q].i))
        BY <1>0, <3>1 DEF Flowed, Flowing
    <3> QED BY <2>2, <2>4, <3>1, <3>2
  <2> QED BY <2>7, <2>8, <2>9, <2>10 DEF Flowed
<1> QED BY <1>1, <1>2 DEF SendFirst, Returns

\* A drain that ends with nothing more to come starts afresh.
LEMMA FlowFlushed == ASSUME Shape, FlushEnds, ~exposed' PROVE Flowed'
<1>1. rxq' = <<>> /\ txq' = <<>> /\ ~peer'.owes /\ call'.pc = "first"
  <2>1. call \in Calls
      BY DEF Shape
  <2> QED BY <2>1 DEF FlushEnds, bus, Calls
<1>2. Opening' /\ Owing' /\ Answered' /\ Flowing'
    BY <1>1 DEF Opening, Owing, Answered, Flowing
<1>3. Listening' /\ InBlock'
    BY <1>1 DEF Listening, InBlock
<1> QED BY <1>2, <1>3 DEF Flowed

\* A Flow Control read opens the block the peer counts.
LEMMA FlowCleared == ASSUME Shape, Flowed, AwaitCleared PROVE Flowed'
<1>1. /\ rxq # <<>> /\ Head(rxq).k = "FC" /\ Head(rxq).fs = "cts" /\ rxq' = Tail(rxq) /\ UNCHANGED <<txq, peer>>
      /\ call' = [call EXCEPT !.pc = "sending", !.bs = Head(rxq).bs, !.in_block = 0, !.waits = 0, !.fc = Head(rxq).m]
    BY DEF AwaitCleared
<1>2. /\ call'.pc = "sending" /\ call'.bs = Head(rxq).bs /\ call'.in_block = 0 /\ call'.fc = Head(rxq).m
      /\ call'.m = call.m /\ call'.off = call.off
    BY <1>1, FlowTyped DEF Calls
<1>3. rxq[1] = Head(rxq) /\ 1 \in DOMAIN rxq /\ \A i \in DOMAIN rxq' : i + 1 \in DOMAIN rxq /\ rxq'[i] = rxq[i + 1] /\ i + 1 > 1
  <2>1. rxq \in Seq(Frames)
      BY FlowTyped
  <2> QED BY <1>1, <2>1
<1>4. /\ Head(rxq).m = call.m /\ ~Has(txq, "FF") /\ ~Has(txq, "CF") /\ ~peer.owes
      /\ \A j \in DOMAIN rxq : j > 1 => rxq[j].k # "FC"
      /\ peer.rx # NoRx => Heard /\ peer.bs = Head(rxq).bs /\ peer.in_block = 0
    BY <1>1, <1>3 DEF Flowed, Answered
<1>5. Opening' /\ Owing' /\ Answered' /\ Flowing'
    BY <1>1, <1>3, <1>4 DEF Opening, Owing, Answered, Flowing, Has
<1>6. Listening'
    BY <1>1, <1>2, <1>4 DEF Listening, Has, Heard
<1>7. InBlock'
  <2>1. ~(BlockFull(call.in_block)')
    <3>1. Head(rxq).bs \in Nat
        BY <1>3, FlowTyped
    <3> QED BY <1>2, <3>1 DEF BlockFull
  <2>2. ~(Has(txq, "FF")')
      BY <1>1, <1>4 DEF Has
  <2>3. peer.rx # NoRx => peer.in_block + call.off + 1 = 0 + peer.rx.next /\ peer.rx.next = call.off + 1
      BY <1>4, FlowTyped DEF Heard
  <2> QED BY <1>1, <1>2, <1>4, <2>1, <2>2, <2>3 DEF InBlock
<1> QED BY <1>5, <1>6, <1>7 DEF Flowed

\* One more Consecutive Frame: the sender counts it as the peer will.
LEMMA FlowSends == ASSUME Shape, Shape', Flowed, SendConsecutive, ~fc_dirty' PROVE Flowed'
<1> DEFINE off == call.off + 1
           f == Frame("CF", call.m, off)
<1>1. /\ call.pc = "sending" /\ UNCHANGED <<rxq, peer>> /\ txq' = Append(txq, f)
      /\ call' = IF off = call.m.n THEN Idle
                 ELSE [call EXCEPT !.off = off, !.in_block = call.in_block + 1,
                                   !.pc = IF BlockFull(call.in_block + 1) THEN "await" ELSE call.pc]
    BY DEF SendConsecutive, EndsBadly, tx
<1>2. off \in Nat /\ off = call.off + 1 /\ f \in Frames /\ f.k = "CF" /\ f.m = call.m /\ f.i = off
  <2>1. off \in Nat /\ call.m \in Messages
      BY FlowTyped
  <2> HIDE DEF off
  <2>2. f \in Frames
      BY <2>1, Typed
  <2>3. off = call.off + 1
      BY DEF off
  <2> QED BY <2>1, <2>2, <2>3 DEF Frame
<1> HIDE DEF f, off
<1>3. /\ \A i \in DOMAIN txq : i \in DOMAIN txq' /\ txq'[i] = txq[i] /\ i < Len(txq) + 1
      /\ \A i \in DOMAIN txq' : (i \in DOMAIN txq \/ i = Len(txq) + 1) /\ i \in Nat \ {0}
      /\ Len(txq) + 1 \in DOMAIN txq' /\ txq'[Len(txq) + 1] = f /\ Len(txq) \in Nat
      /\ \A q \in DOMAIN txq : Preceded(txq, 0, q) => Preceded(txq', 0, q)
    BY <1>1, <1>2, TxGrown
<1>4. /\ call.fc = call.m /\ ~Has(txq, "FF") /\ ~BlockFull(call.in_block)
      /\ peer.rx # NoRx =>
            /\ peer.bs = call.bs /\ peer.in_block + call.off + 1 = call.in_block + peer.rx.next
            /\ \/ peer.rx.next = call.off + 1
               \/ \E q \in DOMAIN txq : txq[q].k = "CF" /\ txq[q].i = call.off
    BY <1>1 DEF Flowed, InBlock
<1>5. peer.rx # NoRx => peer.rx.m = call.m /\ \A q \in DOMAIN txq : txq[q].k = "CF" => txq[q].i <= call.off
    BY <1>1, <1>4 DEF Flowed, Listening
<1>6. (\A i \in DOMAIN rxq : rxq[i].k # "FC") /\ ~peer.owes
    BY <1>1 DEF Flowed, Answered, Owing
<1>7. ~(Has(txq, "FF")') /\ \A i \in DOMAIN txq' : txq'[i].k # "FF"
    BY <1>2, <1>3, <1>4 DEF Has
<1>8. \/ call' = Idle /\ off = call.m.n
      \/ /\ call'.pc = (IF BlockFull(call.in_block + 1) THEN "await" ELSE "sending") /\ call'.m = call.m
         /\ call'.off = off /\ call'.in_block = call.in_block + 1 /\ call'.bs = call.bs /\ call'.fc = call.fc
    BY <1>1, FlowTyped DEF Calls
<1>9. Opening' /\ Answered' /\ Owing'
    BY <1>1, <1>6, <1>7 DEF Opening, Answered, Owing
<1>10. Listening'
  <2> SUFFICES ASSUME call'.pc \in {"await", "sending"}, peer.rx # NoRx
               PROVE  peer.rx.m = call'.m /\ \A q \in DOMAIN txq' : txq'[q].k = "CF" => txq'[q].i <= call'.off
      BY <1>1 DEF Listening
  <2>1. call'.m = call.m /\ call'.off = off
      BY <1>8 DEF Idle
  <2>2. \A q \in DOMAIN txq : txq[q].k = "CF" => txq[q].i <= off
      BY <1>2, <1>5, FlowTyped
  <2> QED BY <1>2, <1>3, <1>5, <2>1, <2>2
<1>11. InBlock'
  <2> SUFFICES ASSUME call'.pc = "sending" PROVE InBlock'
      BY DEF InBlock
  <2>1. /\ ~BlockFull(call.in_block + 1) /\ call'.m = call.m /\ call'.off = off
        /\ call'.in_block = call.in_block + 1 /\ call'.bs = call.bs /\ call'.fc = call.fc
      BY <1>8 DEF Idle
  <2>2. ~(BlockFull(call.in_block)')
      BY <2>1 DEF BlockFull
  <2>3. peer.rx # NoRx => peer.in_block + off + 1 = (call.in_block + 1) + peer.rx.next
    <3>1. peer.in_block \in Nat /\ call.off \in Nat /\ call.in_block \in Nat /\ peer.rx.next \in Nat
        BY FlowTyped
    <3>2. off = call.off + 1
        BY <1>2
    <3> QED BY <1>4, <3>1, <3>2
  <2>4. \E q \in DOMAIN txq' : txq'[q].k = "CF" /\ txq'[q].i = off
      BY <1>2, <1>3
  <2> QED BY <1>1, <1>4, <1>7, <2>1, <2>2, <2>3, <2>4 DEF InBlock
<1>12. Flowing'
  <2> SUFFICES ASSUME peer.rx # NoRx, NEW q \in DOMAIN txq', txq'[q].k = "CF"
               PROVE  /\ txq'[q].m = peer.rx.m /\ peer.rx.next <= txq'[q].i
                      /\ txq'[q].i = peer.rx.next \/ Preceded(txq', 0, q)
                      /\ \A p \in DOMAIN txq' : p < q /\ txq'[p].k = "CF" => txq'[p].i < txq'[q].i
                      /\ txq'[q].i < peer.rx.m.n /\ Fills(txq'[q].i) =>
                            call'.pc = "await" /\ call'.m = peer.rx.m /\ call'.off = txq'[q].i
      BY <1>1, <1>7 DEF Flowing, Fills
  <2>1. \A p \in DOMAIN txq : txq[p].k = "CF" =>
          /\ txq[p].m = peer.rx.m /\ peer.rx.next <= txq[p].i
          /\ txq[p].i = peer.rx.next \/ Preceded(txq, 0, p)
          /\ \A l \in DOMAIN txq : l < p /\ txq[l].k = "CF" => txq[l].i < txq[p].i
          /\ ~(txq[p].i < peer.rx.m.n /\ Fills(txq[p].i))
      BY <1>1 DEF Flowed, Flowing
  <2>2. CASE q \in DOMAIN txq
    <3>1. \A p \in DOMAIN txq' : p < q => p \in DOMAIN txq /\ txq'[p] = txq[p]
        BY <1>3, <2>2
    <3> QED BY <1>3, <2>1, <2>2, <3>1
  <2>3. CASE q = Len(txq) + 1
    <3>1. txq'[q] = f
        BY <1>3, <2>3
    <3>2. peer.rx.next <= off /\ (off = peer.rx.next \/ Preceded(txq', 0, q))
      <4>1. CASE peer.rx.next = call.off + 1
          BY <1>2, <4>1, FlowTyped
      <4>2. ASSUME NEW p \in DOMAIN txq, txq[p].k = "CF", txq[p].i = call.off
            PROVE  peer.rx.next <= off /\ Preceded(txq', 0, q)
        <5>1. peer.rx.next <= off
            BY <1>2, <2>1, <4>2, FlowTyped
        <5>2. p \in DOMAIN txq' /\ txq'[p] = txq[p] /\ p < q /\ 0 < p
            BY <1>3, <2>3, FlowTyped
        <5>3. txq'[p].m = txq'[q].m /\ txq'[p].i + 1 = txq'[q].i
            BY <1>2, <1>5, <2>1, <3>1, <4>2, <5>2
        <5> QED BY <4>2, <5>1, <5>2, <5>3 DEF Preceded
      <4> QED BY <1>4, <4>1, <4>2
    <3>3. \A p \in DOMAIN txq' : p < q /\ txq'[p].k = "CF" => txq'[p].i < off
      <4>1. \A p \in DOMAIN txq : txq[p].k = "CF" => txq[p].i < off
          BY <1>2, <1>5, FlowTyped
      <4>2. \A p \in DOMAIN txq' : p < q => p \in DOMAIN txq
          BY <1>3, <2>3
      <4> QED BY <1>3, <4>1, <4>2
    <3>4. ASSUME off < peer.rx.m.n, Fills(off)
          PROVE  call'.pc = "await" /\ call'.m = peer.rx.m /\ call'.off = off
      <4>1. off # call.m.n
          BY <1>2, <1>5, <3>4, FlowTyped
      <4>2. peer.bs > 0 /\ peer.in_block + (off - peer.rx.next) + 1 >= peer.bs
          BY <3>4 DEF Fills
      <4>3. call.in_block + 1 >= peer.bs
        <5>1. peer.in_block + call.off + 1 = call.in_block + peer.rx.next /\ off = call.off + 1
            BY <1>2, <1>4
        <5>2. peer.in_block \in Nat /\ call.off \in Nat /\ call.in_block \in Nat /\ peer.rx.next \in Nat /\ peer.bs \in Nat
            BY FlowTyped
        <5> QED BY <4>2, <5>1, <5>2
      <4>4. BlockFull(call.in_block + 1)
          BY <1>4, <4>2, <4>3 DEF BlockFull
      <4> QED BY <1>5, <1>8, <4>1, <4>4
    <3> QED BY <1>2, <1>5, <3>1, <3>2, <3>3, <3>4
  <2> QED BY <1>3, <2>2, <2>3
<1> QED BY <1>9, <1>10, <1>11, <1>12 DEF Flowed

\* The First Frame is heard: all that follows is to come, and a Flow Control is owed for it.
LEMMA FlowHearsFirst == ASSUME Shape, Flowed, PeerHears, Head(txq).k = "FF" PROVE Flowed'
<1>1. /\ txq # <<>> /\ txq' = Tail(txq) /\ UNCHANGED <<rxq, call>>
      /\ peer' = [peer EXCEPT !.rx = Begun(Head(txq).m), !.owes = TRUE]
    BY DEF PeerHears
<1>2. /\ Head(txq) = txq[1] /\ 1 \in DOMAIN txq
      /\ \A i \in DOMAIN txq' : i + 1 \in DOMAIN txq /\ txq'[i] = txq[i + 1] /\ i + 1 > 1
    BY <1>1, TxHeard
<1>3. /\ call.pc = "await" /\ Head(txq).m = call.m /\ call.off = 0
      /\ \A i \in DOMAIN txq' : txq'[i].k \notin {"FF", "CF"}
    BY <1>2 DEF Flowed, Opening
<1>4. peer'.rx.m = call.m /\ peer'.rx.next = 1 /\ peer'.rx # NoRx
  <2>1. peer'.rx = Begun(call.m)
    <3>1. peer'.rx = Begun(Head(txq).m)
        BY <1>1, FlowTyped DEF PeerStates
    <3> QED BY <1>3, <3>1
  <2>2. Begun(call.m).m = call.m /\ Begun(call.m).next = 1
      BY DEF Begun
  <2>3. NoRx.next = 0
      BY DEF NoRx
  <2> QED BY <2>1, <2>2, <2>3
<1>5. \A i \in DOMAIN rxq : rxq[i].k # "FC"
    BY <1>2 DEF Flowed, Answered, Has
<1>6. Opening' /\ Answered' /\ Flowing' /\ InBlock'
    BY <1>1, <1>3, <1>5 DEF Opening, Answered, Flowing, InBlock
<1>7. Owing'
    BY <1>1, <1>3, <1>4 DEF Owing, Heard, Has
<1>8. Listening'
    BY <1>1, <1>3, <1>4 DEF Listening
<1> QED BY <1>6, <1>7, <1>8 DEF Flowed

\* The next Consecutive Frame is heard, and it is not the last of the message.
LEMMA FlowHearsNext ==
    ASSUME Shape, Flowed, PeerHears, Head(txq).k = "CF", peer.rx # NoRx, ~peer.owes,
           ~Complete(Grown(peer.rx, Head(txq))),
           peer' = [peer EXCEPT !.rx = Grown(peer.rx, Head(txq)), !.in_block = peer.in_block + 1,
                                !.owes = peer.bs > 0 /\ peer.in_block + 1 >= peer.bs]
    PROVE  Flowed'
<1>1. txq # <<>> /\ txq' = Tail(txq) /\ UNCHANGED <<rxq, call>>
    BY DEF PeerHears
<1>2. /\ Head(txq) = txq[1] /\ 1 \in DOMAIN txq /\ Head(txq) \in Frames /\ txq[1].k = "CF"
      /\ \A i \in DOMAIN txq' : i + 1 \in DOMAIN txq /\ txq'[i] = txq[i + 1] /\ i \in Nat /\ 1 < i + 1
      /\ \A i \in DOMAIN txq : i = 1 \/ (i - 1 \in DOMAIN txq' /\ txq'[i - 1] = txq[i])
      /\ \A q \in DOMAIN txq' : Preceded(txq, 0, q + 1) =>
            Preceded(txq', 0, q) \/ Head(txq).i + 1 = txq'[q].i
    BY <1>1, TxHeard
<1> DEFINE r == Grown(peer.rx, Head(txq))
<1>3. r \in Receptions /\ r.m = peer.rx.m /\ r.next = peer.rx.next + 1
    BY <1>2, FlowTyped, Typed
<1>4. peer.rx.next < peer.rx.m.n /\ r # NoRx
  <2>1. ~(r.next > r.m.n)
      BY DEF Complete
  <2>2. r.next # 0 /\ peer.rx.next < peer.rx.m.n
      BY <1>3, <2>1, FlowTyped
  <2> QED BY <2>2 DEF NoRx
<1> HIDE DEF r
<1>5. /\ peer'.rx = r /\ peer'.in_block = peer.in_block + 1 /\ peer'.bs = peer.bs
      /\ peer'.owes <=> (peer.bs > 0 /\ peer.in_block + 1 >= peer.bs)
    BY FlowTyped DEF PeerStates, r
<1>6. /\ txq[1].m = peer.rx.m /\ txq[1].i = peer.rx.next
      /\ Fills(txq[1].i) => call.pc = "await" /\ call.m = peer.rx.m /\ call.off = peer.rx.next /\ ~Has(txq, "FF")
  <2>1. ~Preceded(txq, 0, 1)
      BY <1>2, FlowTyped DEF Preceded
  <2> QED BY <1>2, <1>4, <2>1 DEF Flowed, Flowing
<1>7. \A i \in DOMAIN rxq : rxq[i].k # "FC"
    BY <1>2 DEF Flowed, Answered, Has
<1>8. Has(txq, "CF") /\ (~Has(txq, "FF") => ~(Has(txq, "FF")')) /\ (Has(txq, "FF") => Has(txq, "FF")')
    BY <1>2 DEF Has
<1>9. \A q \in DOMAIN txq' : txq'[q].k = "CF" => txq'[q].i \in Nat /\ txq[1].i < txq'[q].i
    BY <1>2, FlowTyped DEF Flowed, Flowing
<1>10. Opening'
  <2> SUFFICES ASSUME NEW i \in DOMAIN txq', txq'[i].k = "FF"
               PROVE  /\ call.pc = "await" /\ txq'[i].m = call.m /\ call.off = 0
                      /\ \A j \in DOMAIN txq' : j > i => txq'[j].k \notin {"FF", "CF"}
      BY <1>1 DEF Opening
  <2>1. i + 1 \in DOMAIN txq /\ txq'[i] = txq[i + 1] /\ i \in Nat
      BY <1>2
  <2>2. \A j \in DOMAIN txq' : j > i => j + 1 \in DOMAIN txq /\ txq'[j] = txq[j + 1] /\ j + 1 > i + 1
      BY <1>2, <2>1
  <2> QED BY <2>1, <2>2 DEF Flowed, Opening
<1>11. Answered'
    BY <1>1, <1>7 DEF Answered
<1>12. Owing'
  <2> SUFFICES ASSUME peer'.owes PROVE Owing'
      BY DEF Owing
  <2>1. Fills(txq[1].i)
    <3>1. peer.in_block + (peer.rx.next - peer.rx.next) + 1 = peer.in_block + 1
        BY FlowTyped
    <3> QED BY <1>5, <1>6, <3>1 DEF Fills
  <2>2. call.pc = "await" /\ call.m = peer.rx.m /\ call.off = peer.rx.next /\ ~Has(txq, "FF")
      BY <1>6, <2>1
  <2>3. \A q \in DOMAIN txq : txq[q].k = "CF" => txq[q].i <= call.off
      BY <2>2 DEF Flowed, Listening
  <2>4. ~(Has(txq, "CF")')
    <3> SUFFICES ASSUME NEW q \in DOMAIN txq', txq'[q].k = "CF" PROVE FALSE
        BY DEF Has
    <3>1. txq'[q].i <= call.off
        BY <1>2, <2>3
    <3>2. txq'[q].i \in Nat /\ call.off < txq'[q].i
        BY <1>6, <1>9, <2>2
    <3> QED BY <2>2, <3>1, <3>2, FlowTyped
  <2> QED BY <1>1, <1>3, <1>4, <1>5, <1>8, <2>2, <2>4 DEF Owing, Heard
<1>13. Flowing'
  <2> SUFFICES ASSUME NEW q \in DOMAIN txq', txq'[q].k = "CF"
               PROVE  /\ txq'[q].m = peer.rx.m /\ peer.rx.next + 1 <= txq'[q].i
                      /\ txq'[q].i = peer.rx.next + 1 \/ Preceded(txq', 0, q)
                      /\ \A p \in DOMAIN txq' : p < q /\ txq'[p].k = "CF" => txq'[p].i < txq'[q].i
                      /\ txq'[q].i < peer.rx.m.n /\ peer.bs > 0
                         /\ (peer.in_block + 1) + (txq'[q].i - (peer.rx.next + 1)) + 1 >= peer.bs =>
                            call.pc = "await" /\ call.m = peer.rx.m /\ call.off = txq'[q].i /\ ~(Has(txq, "FF")')
      BY <1>1, <1>3, <1>5 DEF Flowing, Fills
  <2>1. q + 1 \in DOMAIN txq /\ txq'[q] = txq[q + 1] /\ q \in Nat
      BY <1>2
  <2>2. \A p \in DOMAIN txq' : p < q => p + 1 \in DOMAIN txq /\ txq'[p] = txq[p + 1] /\ p + 1 < q + 1
      BY <1>2, <2>1
  <2>3. /\ txq[q + 1].m = peer.rx.m
        /\ txq[q + 1].i = peer.rx.next \/ Preceded(txq, 0, q + 1)
        /\ \A p \in DOMAIN txq : p < q + 1 /\ txq[p].k = "CF" => txq[p].i < txq[q + 1].i
        /\ txq[q + 1].i < peer.rx.m.n /\ Fills(txq[q + 1].i) =>
              call.pc = "await" /\ call.m = peer.rx.m /\ call.off = txq[q + 1].i /\ ~Has(txq, "FF")
      BY <2>1 DEF Flowed, Flowing
  <2>4. txq'[q].i \in Nat /\ peer.rx.next < txq'[q].i /\ peer.rx.next + 1 <= txq'[q].i
      BY <1>6, <1>9, FlowTyped
  <2>5. txq'[q].i = peer.rx.next + 1 \/ Preceded(txq', 0, q)
      BY <1>2, <1>6, <2>1, <2>3, <2>4, FlowTyped
  <2>6. peer.bs > 0 /\ (peer.in_block + 1) + (txq'[q].i - (peer.rx.next + 1)) + 1 >= peer.bs => Fills(txq[q + 1].i)
    <3>1. txq'[q].i \in Nat /\ peer.rx.next \in Nat /\ peer.in_block \in Nat
        BY <2>4, FlowTyped
    <3>2. (peer.in_block + 1) + (txq'[q].i - (peer.rx.next + 1)) + 1 = peer.in_block + (txq'[q].i - peer.rx.next) + 1
        BY <3>1
    <3> QED BY <2>1, <3>2 DEF Fills
  <2> QED BY <1>8, <2>1, <2>2, <2>3, <2>4, <2>5, <2>6
<1>14. Listening'
  <2>1. call.pc \in {"await", "sending"} /\ ~Has(txq, "FF") =>
           peer.rx.m = call.m /\ \A q \in DOMAIN txq : txq[q].k = "CF" => txq[q].i <= call.off
      BY DEF Flowed, Listening
  <2> QED BY <1>1, <1>2, <1>3, <1>5, <1>8, <2>1 DEF Listening
<1>15. InBlock'
  <2> SUFFICES ASSUME call.pc = "sending" PROVE InBlock'
      BY <1>1 DEF InBlock
  <2>1. /\ call.fc = call.m /\ ~Has(txq, "FF") /\ ~BlockFull(call.in_block)
        /\ peer.bs = call.bs /\ peer.in_block + call.off + 1 = call.in_block + peer.rx.next
        /\ \/ peer.rx.next = call.off + 1
           \/ \E q \in DOMAIN txq : txq[q].k = "CF" /\ txq[q].i = call.off
      BY DEF Flowed, InBlock
  <2>2. \A q \in DOMAIN txq : txq[q].k = "CF" => txq[q].i <= call.off
      BY <2>1 DEF Flowed, Listening
  <2>3. (peer.in_block + 1) + call.off + 1 = call.in_block + (peer.rx.next + 1)
    <3>1. peer.in_block \in Nat /\ call.off \in Nat /\ call.in_block \in Nat /\ peer.rx.next \in Nat
        BY FlowTyped
    <3> QED BY <2>1, <3>1
  <2>4. peer.rx.next + 1 = call.off + 1 \/ \E q \in DOMAIN txq' : txq'[q].k = "CF" /\ txq'[q].i = call.off
    <3>1. peer.rx.next <= call.off
        BY <1>2, <1>6, <2>2
    <3>2. PICK q \in DOMAIN txq : txq[q].k = "CF" /\ txq[q].i = call.off
        BY <2>1, <3>1, FlowTyped
    <3>3. CASE q = 1
        BY <1>6, <3>2, <3>3
    <3>4. CASE q # 1
        BY <1>2, <3>2, <3>4
    <3> QED BY <3>3, <3>4
  <2>5. ~(BlockFull(call.in_block)')
      BY <1>1, <2>1 DEF BlockFull
  <2> QED BY <1>1, <1>3, <1>5, <1>8, <2>1, <2>3, <2>4, <2>5 DEF InBlock
<1> QED BY <1>10, <1>11, <1>12, <1>13, <1>14, <1>15 DEF Flowed


\* A frame reaches the peer.
LEMMA FlowHears == ASSUME Shape, Flowed, PeerHears PROVE Flowed'
<1> DEFINE f == Head(txq)
           r == Grown(peer.rx, f)
<1>1. txq # <<>> /\ txq' = Tail(txq) /\ UNCHANGED <<rxq, call>> /\ peer \in PeerStates
    BY FlowTyped DEF PeerHears
<1>2. CASE f.k = "FF"
    BY <1>2, FlowHearsFirst
<1>3. CASE f.k # "FF" /\ peer'.rx = NoRx /\ ~peer'.owes
    BY <1>1, <1>3, FlowUnheard
<1>4. CASE f.k = "FC"
  <2>1. peer' = [peer EXCEPT !.go = (peer.tx # NoRx)]
      BY <1>4 DEF PeerHears
  <2>2. peer'.rx = peer.rx /\ peer'.owes = peer.owes /\ peer'.bs = peer.bs /\ peer'.in_block = peer.in_block
      BY <1>1, <2>1 DEF PeerStates
  <2> QED BY <1>1, <1>4, <2>2, FlowUnheard
<1>5. CASE f.k = "SF"
  <2>1. peer' = [peer EXCEPT !.rx = NoRx, !.owes = FALSE]
      BY <1>5 DEF PeerHears
  <2> QED BY <1>1, <1>3, <1>5, <2>1 DEF PeerStates
<1>6. CASE f.k = "CF" /\ peer.rx = NoRx
  <2>1. peer' = peer
      BY <1>6 DEF PeerHears
  <2> QED BY <1>3, <1>6, <2>1 DEF Flowed, Owing
<1>7. CASE f.k = "CF" /\ peer.rx # NoRx /\ (peer.owes \/ ~InOrder(peer.rx, f))
  <2>1. peer'.rx = NoRx /\ ~peer'.owes
      BY <1>1, <1>7 DEF PeerHears, PeerStates
  <2> QED BY <1>3, <1>7, <2>1
<1>8. CASE f.k = "CF" /\ peer.rx # NoRx /\ ~peer.owes /\ InOrder(peer.rx, f)
  <2>1. peer' = [peer EXCEPT !.rx = IF Complete(r) THEN NoRx ELSE r, !.in_block = peer.in_block + 1,
                             !.owes = /\ ~Complete(r) /\ peer.bs > 0
                                      /\ peer.in_block + 1 >= peer.bs]
      BY <1>1, <1>8 DEF PeerHears
  <2>2. CASE Complete(r)
    <3> HIDE DEF r, f
    <3>1. peer'.rx = NoRx /\ ~peer'.owes
        BY <1>1, <2>1, <2>2 DEF PeerStates
    <3> QED BY <1>3, <1>8, <3>1
  <2>3. CASE ~Complete(r)
    <3>1. peer' = [peer EXCEPT !.rx = r, !.in_block = peer.in_block + 1,
                               !.owes = peer.bs > 0 /\ peer.in_block + 1 >= peer.bs]
      <4> HIDE DEF r, f
      <4> QED BY <2>1, <2>3
    <3> QED BY <1>8, <2>3, <3>1, FlowHearsNext
  <2> QED BY <2>2, <2>3
<1>9. f.k \in {"SF", "FF", "FC", "CF"}
    BY DEF PeerHears
<1> QED BY <1>2, <1>4, <1>5, <1>6, <1>7, <1>8, <1>9

\* The peer answers: behind the WAITs it said before, and of the transfer it has heard.
LEMMA FlowAnswers == ASSUME Shape, Flowed, PeerAnswers PROVE Flowed'
<1>1. PICK fs \in FlowStatuses, bs \in BlockSizes :
        /\ rxq' = Append(rxq, Flow(fs, bs, peer.rx.m))
        /\ \/ fs = "cts" /\ peer' = [peer EXCEPT !.owes = FALSE, !.bs = bs, !.in_block = 0]
           \/ fs = "wait" /\ UNCHANGED peer
           \/ fs = "overflow" /\ peer' = [peer EXCEPT !.owes = FALSE, !.rx = NoRx]
    BY DEF PeerAnswers, says
<1> DEFINE f == Flow(fs, bs, peer.rx.m)
<1>2. peer.owes /\ UNCHANGED <<call, txq>>
    BY DEF PeerAnswers
<1>3. call.pc = "await" /\ peer.rx # NoRx /\ Heard /\ ~Has(txq, "FF") /\ ~Has(txq, "CF")
    BY <1>2 DEF Flowed, Owing
<1>4. ~(Has(txq, "FF")') /\ ~(Has(txq, "CF")') /\ \A i \in DOMAIN txq' : txq'[i].k \notin {"FF", "CF"}
    BY <1>2, <1>3 DEF Has
<1>5. f.k = "FC" /\ f.fs = fs /\ f.bs = bs /\ f.m = call.m
    BY <1>3 DEF Flow, Heard
<1> HIDE DEF f
<1>6. /\ peer'.owes => fs = "wait" /\ UNCHANGED peer
      /\ peer'.rx # NoRx => peer'.rx = peer.rx
      /\ fs = "cts" => peer'.bs = bs /\ peer'.in_block = 0
      /\ fs # "wait" => ~peer'.owes
    BY <1>1, FlowTyped DEF PeerStates
<1>7. /\ \A i \in DOMAIN rxq' : (i \in DOMAIN rxq /\ rxq'[i] = rxq[i]) \/ (i = Len(rxq) + 1 /\ rxq'[i] = f)
      /\ \A i \in DOMAIN rxq' : ~(i > Len(rxq) + 1)
  <2>1. rxq \in Seq(Frames)
      BY DEF Shape
  <2> QED BY <1>1, <2>1 DEF f
<1>8. Answered'
  <2> SUFFICES ASSUME NEW i \in DOMAIN rxq', rxq'[i].k = "FC"
               PROVE  /\ rxq'[i].m = call.m
                      /\ rxq'[i].fs # "wait" => ~peer'.owes /\ \A j \in DOMAIN rxq' : j > i => rxq'[j].k # "FC"
                      /\ rxq'[i].fs = "cts" /\ peer'.rx # NoRx => Heard' /\ peer'.bs = rxq'[i].bs /\ peer'.in_block = 0
      BY <1>2, <1>3, <1>4 DEF Answered
  <2>1. CASE i \in DOMAIN rxq /\ rxq'[i] = rxq[i]
    <3>1. rxq[i].m = call.m /\ rxq[i].fs = "wait"
        BY <1>2, <2>1 DEF Flowed, Answered
    <3> QED BY <2>1, <3>1
  <2>2. CASE i = Len(rxq) + 1 /\ rxq'[i] = f
    <3>1. peer'.rx # NoRx => Heard'
        BY <1>2, <1>3, <1>6 DEF Heard
    <3> QED BY <1>5, <1>6, <1>7, <2>2, <3>1
  <2> QED BY <1>7, <2>1, <2>2
<1>9. Owing'
    BY <1>2, <1>3, <1>4, <1>6 DEF Owing, Heard
<1>10. Opening' /\ Flowing' /\ InBlock'
    BY <1>2, <1>3, <1>4 DEF Opening, Flowing, InBlock
<1>11. Listening'
    BY <1>2, <1>3, <1>4, <1>6 DEF Listening, Heard
<1> QED BY <1>8, <1>9, <1>10, <1>11 DEF Flowed

\* Nothing is sent of a transfer before its First Frame.
LEMMA FreshNext == ASSUME Shape, Fresh, [Next]_vars PROVE Fresh'
<1>0. call \in Calls /\ Idle.pc = "idle"
    BY FlowTyped DEF Idle
<1>1. CASE UNCHANGED call
    BY <1>1 DEF Fresh
<1>2. CASE call' = Idle
    BY <1>0, <1>2 DEF Fresh
<1>3. CASE call'.pc \notin {"flush", "first"}
    BY <1>3 DEF Fresh
<1>4. ASSUME NEW n \in Sizes, SendStart(n) PROVE Fresh'
  <2>1. CASE call' = Idle
      BY <1>2, <2>1
  <2>2. ASSUME NEW pc, NEW m, call' = [Idle EXCEPT !.pc = pc, !.m = m] PROVE Fresh'
    <3>1. call'.off = 0 /\ call'.in_block = 0
        BY <2>2 DEF Idle
    <3> QED BY <3>1 DEF Fresh
  <2> QED BY <1>4, <2>1, <2>2 DEF SendStart, Returns
<1>5. CASE Steps
  <2>1. CASE FlushReads
    <3>1. call'.pc = "flush" /\ call'.in_block = call.in_block /\ call.pc = "flush"
        BY <1>0, <2>1 DEF FlushReads, Calls
    <3> QED BY <3>1 DEF Fresh
  <2>2. CASE FlushEnds
    <3>1. call'.off = 0 /\ call'.in_block = call.in_block /\ call.pc = "flush"
        BY <1>0, <2>2 DEF FlushEnds, Calls
    <3> QED BY <3>1 DEF Fresh
  <2>3. CASE SendFirst
    <3>1. call' = Idle \/ call'.pc = "await"
        BY <1>0, <2>3 DEF SendFirst, Returns, Calls
    <3> QED BY <1>2, <1>3, <3>1
  <2>4. CASE AwaitCleared
    <3>1. call'.pc = "sending"
        BY <1>0, <2>4 DEF AwaitCleared, Calls
    <3> QED BY <1>3, <3>1
  <2>5. CASE AwaitWaits
    <3>1. call' = Idle \/ call'.pc = "await"
        BY <1>0, <2>5 DEF AwaitWaits, EndsBadly, Returns, Calls
    <3> QED BY <1>2, <1>3, <3>1
  <2>6. CASE SendConsecutive
    <3>1. call' = Idle \/ call'.pc \in {"await", "sending"}
        BY <1>0, <2>6 DEF SendConsecutive, EndsBadly, Returns, Calls
    <3> QED BY <1>2, <1>3, <3>1
  <2>7. CASE SendStopped \/ AwaitSkips \/ AwaitRefused \/ AwaitTimesOut \/ SegmentedStopped
      BY <1>1, <1>2, <2>7 DEF SendStopped, AwaitSkips, AwaitRefused, AwaitTimesOut, SegmentedStopped, EndsBadly, Returns
  <2> QED BY <1>5, <2>1, <2>2, <2>3, <2>4, <2>5, <2>6, <2>7 DEF Steps
<1>6. CASE Reads
  <2>1. CASE RecvStart \/ DrainStart
    <3>1. call'.pc \in {"recv", "drain"}
        BY <2>1 DEF RecvStart, DrainStart, Idle
    <3> QED BY <1>3, <3>1
  <2>2. CASE RecvSkips \/ RecvSingle \/ RecvFirst \/ RecvConsecutive \/ RecvGarbage
      BY <1>1, <1>2, <2>2 DEF RecvSkips, RecvSingle, RecvFirst, RecvConsecutive, RecvGarbage, Delivers, Returns
  <2>3. CASE RecvTimesOut \/ RecvNCr \/ RecvStopped \/ DrainReads \/ DrainEnds \/ RequestStop
      BY <1>1, <1>2, <2>3 DEF RecvTimesOut, RecvNCr, RecvStopped, DrainReads, DrainEnds, RequestStop, Returns
  <2> QED BY <1>6, <2>1, <2>2, <2>3 DEF Reads, Recvs
<1>7. CASE External
    BY <1>1, <1>7 DEF External, Peers, PeerHears, PeerAnswers, PeerContinues, PeerSays, PeerGivesUp, PeerGarbles, BusLoses
<1> QED BY <1>1, <1>4, <1>5, <1>6, <1>7, NextIs DEF vars

\* Nothing that matters to the Flow Controls changes but the queue here, by a frame.
LEMMA FlowStays ==
    ASSUME Shape, Shape', Flowed, UNCHANGED txq, call'.pc = call.pc, call'.m = call.m, call'.off = call.off,
           call'.in_block = call.in_block, call'.bs = call.bs, call'.fc = call.fc,
           peer'.owes = peer.owes, peer'.rx = peer.rx, peer'.bs = peer.bs, peer'.in_block = peer.in_block,
           \/ UNCHANGED rxq
           \/ \E f \in Frames : f.k # "FC" /\ rxq' = Append(rxq, f)
           \/ rxq # <<>> /\ rxq' = Tail(rxq)
           \/ rxq # <<>> /\ Head(rxq).k # "FC" /\ rxq' = <<Head(rxq)>> \o rxq
    PROVE  Flowed'
<1>1. Answered'
    BY AnsweredMoves DEF Flowed
<1> QED BY <1>1, FlowKept

LEMMA FlowedSends ==
    ASSUME Base, Shape', Flows, Clean', Steps \/ \E n \in Sizes : SendStart(n)
    PROVE  Flowed'
<1>0. Shape /\ call \in Calls /\ Idle.pc = "idle" /\ Idle \in Calls
  <2>1. Idle \in Calls
      BY Typed
  <2> QED BY <2>1 DEF Base, Shape, Idle
<1>1. ASSUME NEW n \in Sizes, SendStart(n) PROVE Flowed'
  <2>1. UNCHANGED <<fc_dirty, rxq, peer, exposed>> /\ call.pc = "idle"
      BY <1>1 DEF SendStart
  <2>2. Clean
      BY <2>1 DEF Clean
  <2> DEFINE m == [id |-> sent + 1, n |-> n]
  <2>3. \/ call' = Idle /\ (UNCHANGED txq \/ tx(Frame("SF", m, 0)))
        \/ call' = [Idle EXCEPT !.pc = "first", !.m = m] /\ UNCHANGED txq
      BY <1>1, <2>2 DEF SendStart, Returns, Clean
  <2>4. call'.pc \in {"idle", "first"}
    <3> HIDE DEF m
    <3>1. CASE call' = [Idle EXCEPT !.pc = "first", !.m = m]
        BY <1>0, <3>1 DEF Calls
    <3> QED BY <1>0, <2>3, <3>1
  <2>5. Frame("SF", m, 0) \in Frames /\ Frame("SF", m, 0).k = "SF"
    <3>1. m \in Messages
        BY <1>0, <1>1, IsoTpAssumption DEF Shape, IsoTpAssumption, Messages
    <3> HIDE DEF m
    <3>2. Frame("SF", m, 0) \in Frames
        BY <3>1, Typed, 0 \in Nat
    <3> QED BY <3>2 DEF Frame
  <2>6. UNCHANGED txq \/ \E f \in Frames : f.k \notin {"FF", "CF"} /\ txq' = Append(txq, f)
      BY <2>3, <2>5 DEF tx
  <2>7. Flowed
      BY <2>2 DEF Flows
  <2> QED BY <1>0, <2>1, <2>4, <2>6, <2>7, FlowElsewhere
<1>2. CASE FlushReads
  <2>1. fc_dirty'
      BY <1>2 DEF FlushReads, Base, Dirty, chan
  <2> QED BY <2>1 DEF Clean
<1>3. CASE FlushEnds
    BY <1>0, <1>3, FlowFlushed DEF Clean
<1>4. CASE SendStopped
  <2>1. UNCHANGED <<fc_dirty, rxq, txq, peer, exposed>> /\ call.pc \in {"flush", "first"} /\ call'.pc = "idle"
      BY <1>0, <1>4 DEF SendStopped, Returns, chan, bus
  <2>2. Flowed
      BY <2>1 DEF Flows, Clean
  <2> QED BY <1>0, <2>1, <2>2, FlowElsewhere
<1>5. CASE SendFirst \/ AwaitCleared
  <2>1. Clean /\ Fresh
      BY <1>5 DEF SendFirst, AwaitCleared, Clean, chan, Flows
  <2> QED BY <1>0, <1>5, <2>1, FlowSendFirst, FlowCleared DEF Flows
<1>6. CASE AwaitSkips
  <2>1. UNCHANGED <<fc_dirty, call, txq, peer, exposed>> /\ rxq # <<>> /\ rxq' = Tail(rxq)
      BY <1>6 DEF AwaitSkips, chan
  <2>2. Flowed
      BY <2>1 DEF Flows, Clean
  <2> QED BY <1>0, <2>1, <2>2, FlowStays
<1>7. CASE AwaitWaits
  <2>1. UNCHANGED <<fc_dirty, txq, peer, exposed>> /\ rxq # <<>> /\ rxq' = Tail(rxq) /\ call' = [call EXCEPT !.waits = call.waits + 1]
      BY <1>7 DEF AwaitWaits, EndsBadly, Clean
  <2>2. Flowed
      BY <2>1 DEF Flows, Clean
  <2>3. /\ call'.pc = call.pc /\ call'.m = call.m /\ call'.off = call.off
        /\ call'.in_block = call.in_block /\ call'.bs = call.bs /\ call'.fc = call.fc
      BY <1>0, <2>1 DEF Calls
  <2> QED BY <1>0, <2>1, <2>2, <2>3, FlowStays
<1>8. CASE AwaitRefused \/ AwaitTimesOut \/ SegmentedStopped
    BY <1>8 DEF AwaitRefused, AwaitTimesOut, SegmentedStopped, EndsBadly, Clean
<1>9. CASE SendConsecutive
  <2>1. UNCHANGED exposed /\ call.pc = "sending" /\ ~fc_dirty'
      BY <1>9 DEF SendConsecutive, Clean
  <2>2. Clean
      BY <2>1 DEF Base, Dirty, Clean
  <2> QED BY <1>0, <1>9, <2>1, <2>2, FlowSends DEF Flows
<1> QED BY <1>1, <1>2, <1>3, <1>4, <1>5, <1>6, <1>7, <1>8, <1>9 DEF Steps

\* Outside a send, what clears the channel leaves the peer something to say of the bad end.
LEMMA FlowedReads ==
    ASSUME Base, Shape', Flows, Clean', Reads
    PROVE  Flowed'
<1>0. Shape /\ Idle.pc = "idle"
    BY DEF Base, Idle
<1>1. Clean
  <2>1. (UNCHANGED fc_dirty /\ UNCHANGED exposed) \/ exposed' = (exposed \/ fc_dirty)
    <3>1. CASE Recvs
        BY <3>1 DEF Recvs, RecvSkips, RecvSingle, RecvFirst, RecvConsecutive, RecvGarbage, Delivers, chan
    <3>2. CASE ~Recvs
        BY <3>2 DEF Reads, RecvStart, RecvTimesOut, RecvNCr, RecvStopped, DrainStart, DrainReads, DrainEnds, RequestStop, chan
    <3> QED BY <3>1, <3>2
  <2>2. fc_dirty \in BOOLEAN /\ exposed \in BOOLEAN
      BY <1>0 DEF Shape
  <2> QED BY <2>1, <2>2 DEF Clean
<1>2. Flowed
    BY <1>1 DEF Flows
<1>3. CASE RequestStop
    BY <1>0, <1>2, <1>3, FlowStays DEF RequestStop, bus
<1>4. CASE ~RequestStop
  <2>1. call.pc \in {"idle", "recv", "drain"} /\ UNCHANGED peer
      BY <1>4 DEF Reads, Recvs, RecvSkips, RecvSingle, RecvFirst, RecvConsecutive, RecvGarbage, RecvStart, RecvTimesOut,
           RecvNCr, RecvStopped, DrainStart, DrainReads, DrainEnds
  <2>2. call'.pc \in {"idle", "recv", "drain"}
    <3>1. UNCHANGED call \/ call' = Idle \/ call' = [Idle EXCEPT !.pc = "recv"] \/ call' = [Idle EXCEPT !.pc = "drain"]
        BY <1>4 DEF Reads, Recvs, RecvSkips, RecvSingle, RecvFirst, RecvConsecutive, RecvGarbage, RecvStart, RecvTimesOut,
           RecvNCr, RecvStopped, DrainStart, DrainReads, DrainEnds, Delivers, Returns
    <3> QED BY <2>1, <3>1 DEF Idle
  <2>3. UNCHANGED rxq \/ (rxq # <<>> /\ rxq' = Tail(rxq))
      BY <1>4 DEF Reads, Recvs, RecvSkips, RecvSingle, RecvFirst, RecvConsecutive, RecvGarbage, RecvStart, RecvTimesOut,
           RecvNCr, RecvStopped, DrainStart, DrainReads, DrainEnds, bus
  <2>4. UNCHANGED txq \/ \E f \in Frames : f.k \notin {"FF", "CF"} /\ txq' = Append(txq, f)
    <3>1. CASE RecvFirst
      <4>1. Head(rxq).m \in Messages
        <5>1. rxq # <<>> /\ rxq \in Seq(Frames)
            BY <1>0, <3>1 DEF RecvFirst, Shape
        <5>2. Head(rxq) \in Frames
            BY <5>1
        <5> QED BY <5>2 DEF Frames
      <4>2. Flow("cts", 0, Head(rxq).m) \in Frames /\ Flow("cts", 0, Head(rxq).m).k = "FC"
        <5>1. Flow("cts", 0, Head(rxq).m) \in Frames
            BY <4>1, Typed, 0 \in Nat
        <5> QED BY <5>1 DEF Flow
      <4> QED BY <3>1, <4>2 DEF RecvFirst, tx
    <3>2. CASE ~RecvFirst
        BY <1>4, <3>2 DEF Reads, Recvs, RecvSkips, RecvSingle, RecvConsecutive, RecvGarbage, RecvStart, RecvTimesOut,
             RecvNCr, RecvStopped, DrainStart, DrainReads, DrainEnds, bus
    <3> QED BY <3>1, <3>2
  <2> QED BY <1>0, <1>2, <2>1, <2>2, <2>3, <2>4, FlowElsewhere
<1> QED BY <1>3, <1>4

LEMMA FlowedExternal ==
    ASSUME Base, Shape', Flows, Clean', External
    PROVE  Flowed'
<1>0. Shape /\ Clean /\ UNCHANGED call /\ peer \in PeerStates
  <2>1. UNCHANGED <<call, fc_dirty, exposed>>
      BY DEF External, Peers, PeerHears, PeerAnswers, PeerContinues, PeerSays, PeerGivesUp, PeerGarbles, BusLoses, chan
  <2> QED BY <2>1 DEF Base, Shape, Clean
<1>1. Flowed
    BY <1>0 DEF Flows
<1>2. CASE PeerHears \/ PeerAnswers
    BY <1>0, <1>1, <1>2, FlowHears, FlowAnswers
<1>3. CASE PeerContinues \/ PeerSays
  <2>1. /\ UNCHANGED txq
        /\ peer'.owes = peer.owes /\ peer'.rx = peer.rx /\ peer'.bs = peer.bs /\ peer'.in_block = peer.in_block
      BY <1>0, <1>3 DEF PeerContinues, PeerSays, PeerStates
  <2>2. \E f \in Frames : f.k # "FC" /\ rxq' = Append(rxq, f)
    <3>1. PICK k \in {"SF", "FF", "CF"}, m \in Messages, i \in Nat : rxq' = Append(rxq, Frame(k, m, i))
      <4>1. CASE PeerContinues
        <5>1. peer.tx.m \in Messages /\ peer.tx.next \in Nat
            BY <1>0 DEF PeerStates, Receptions
        <5>2. rxq' = Append(rxq, Frame("CF", peer.tx.m, peer.tx.next))
            BY <4>1 DEF PeerContinues, says
        <5> QED BY <5>1, <5>2
      <4>2. CASE PeerSays
        <5>1. PICK n \in Sizes : rxq' = Append(rxq, Frame(IF n = 0 THEN "SF" ELSE "FF", [id |-> said + 1, n |-> n], 0))
            BY <4>2 DEF PeerSays, says
        <5>2. [id |-> said + 1, n |-> n] \in Messages
            BY <1>0, IsoTpAssumption DEF IsoTpAssumption, Shape, Messages
        <5>3. (IF n = 0 THEN "SF" ELSE "FF") \in {"SF", "FF", "CF"} /\ 0 \in Nat
            OBVIOUS
        <5> QED BY <5>1, <5>2, <5>3
      <4> QED BY <1>3, <4>1, <4>2
    <3>2. Frame(k, m, i) \in Frames
        BY Typed
    <3>3. Frame(k, m, i).k = k
        BY DEF Frame
    <3> QED BY <3>1, <3>2, <3>3
  <2> QED BY <1>0, <1>1, <2>1, <2>2, FlowStays
<1>4. CASE PeerGivesUp
  <2>1. CASE peer.tx # NoRx /\ peer' = [peer EXCEPT !.tx = NoRx, !.go = FALSE]
    <3>1. peer'.owes = peer.owes /\ peer'.rx = peer.rx /\ peer'.bs = peer.bs /\ peer'.in_block = peer.in_block
        BY <1>0, <2>1 DEF PeerStates
    <3>2. UNCHANGED <<txq, rxq>>
        BY <1>4 DEF PeerGivesUp, bus
    <3> QED BY <1>0, <1>1, <3>1, <3>2, FlowStays
  <2>2. CASE peer' = [peer EXCEPT !.rx = NoRx, !.owes = FALSE]
    <3>1. peer'.rx = NoRx /\ ~peer'.owes
        BY <1>0, <2>2 DEF PeerStates
    <3>2. UNCHANGED <<txq, rxq, call>>
        BY <1>4 DEF PeerGivesUp, bus
    <3> QED BY <1>0, <1>1, <3>1, <3>2, FlowUnheard
  <2> QED BY <1>4, <2>1, <2>2 DEF PeerGivesUp
<1>5. CASE PeerGarbles
  <2>1. PICK k \in {"bad", "empty"} : rxq' = Append(rxq, Frame(k, NoMessage, 0))
      BY <1>5 DEF PeerGarbles, says
  <2>2. Frame(k, NoMessage, 0) \in Frames /\ Frame(k, NoMessage, 0).k # "FC"
    <3>1. Frame(k, NoMessage, 0) \in Frames
        BY Typed, 0 \in Nat
    <3> QED BY <3>1 DEF Frame
  <2>3. UNCHANGED <<txq, peer>>
      BY <1>5 DEF PeerGarbles
  <2> QED BY <1>0, <1>1, <2>1, <2>2, <2>3, FlowStays
<1>6. CASE BusLoses
  <2>1. UNCHANGED <<txq, peer>> /\ rxq # <<>> /\ Head(rxq).k # "FC" /\ (rxq' = Tail(rxq) \/ rxq' = <<Head(rxq)>> \o rxq)
      BY <1>6 DEF BusLoses
  <2> QED BY <1>0, <1>1, <2>1, FlowStays
<1> QED BY <1>2, <1>3, <1>4, <1>5, <1>6 DEF External, Peers

LEMMA FlowsNext == ASSUME Base, Flows, [Next]_vars PROVE Flows'
<1>1. Shape /\ Shape' /\ Fresh
    BY BaseNext DEF Base, Flows
<1>2. Fresh'
    BY <1>1, FreshNext
<1>3. ASSUME Clean' PROVE Flowed'
  <2>1. CASE UNCHANGED vars
    <3>1. UNCHANGED <<call, peer, txq, rxq>> /\ Clean
        BY <1>3, <2>1 DEF vars, chan, bus, Clean
    <3> QED BY <1>1, <3>1, FlowStays DEF Flows
  <2> QED BY <1>1, <1>3, <2>1, NextIs, FlowedSends, FlowedReads, FlowedExternal
<1> QED BY <1>2, <1>3 DEF Flows

LEMMA FlowsInit == Init => Flows
<1> SUFFICES ASSUME Init PROVE Flows
    OBVIOUS
<1>1. call.pc = "idle" /\ rxq = <<>> /\ txq = <<>> /\ ~peer.owes
    BY DEF Init, Idle
<1>2. Opening /\ Owing /\ Answered /\ Flowing
    BY <1>1 DEF Opening, Owing, Answered, Flowing
<1>3. Fresh /\ Listening /\ InBlock
    BY <1>1 DEF Fresh, Listening, InBlock
<1> QED BY <1>2, <1>3 DEF Flows, Flowed

\* Every Consecutive Frame goes out on the word of a Flow Control meant for its own transfer, for
\* any peer, block sizes and order of calls - except while fc_dirty was cleared with the peer
\* still to say something of a send that ended badly (fc_dirty, flush_rx's quiet window).
THEOREM ClearedAlwaysByItsOwn == Spec => ClearedByItsOwn
<1>1. Spec => [](Base /\ Flows)
  <2>1. Init => Base /\ Flows
      BY BaseInit, FlowsInit
  <2>2. Base /\ Flows /\ [Next]_vars => (Base /\ Flows)'
      BY BaseNext, FlowsNext
  <2> QED BY <2>1, <2>2, PTL DEF Spec
<1>2. Base /\ Flows /\ [Next]_vars =>
        [call.pc = "sending" /\ ~exposed /\ Len(txq') > Len(txq) => call.fc = call.m]_vars
  <2> SUFFICES ASSUME Base, Flows, call.pc = "sending", ~exposed PROVE call.fc = call.m
      OBVIOUS
  <2>1. Clean
      BY DEF Base, Dirty, Clean
  <2> QED BY <2>1 DEF Flows, Flowed, InBlock
<1> QED BY <1>1, <1>2, PTL DEF Spec, ClearedByItsOwn
================================================================================
