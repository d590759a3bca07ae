------------------------- MODULE RoutingDedupProofs -------------------------
(***************************************************************************)
(* Proofs about the names of conversations and the keys made from them     *)
(* (Routing, for any bot ids, users and message keys), and about the       *)
(* memory those message keys are looked up in (Dedup, for any keys,        *)
(* callers, TTL, limit and clock range).                                   *)
(***************************************************************************)
EXTENDS Routing, Dedup, SequenceTheorems, TLAPS

-----------------------------------------------------------------------------
(* Sequences put together and taken apart *)

\* What is put in front of a sequence stands there, and the rest follows.
LEMMA TakenApart ==
  ASSUME NEW S, NEW p \in Seq(S), NEW r \in Seq(S)
  PROVE  /\ At(p \o r, 1, p)
         /\ SubSeq(p \o r, 1, Len(p)) = p
         /\ From(p \o r, Len(p) + 1) = r
<1>1. PICK t \in Seq(S) : t = p \o r
  BY ConcatProperties
<1>2. /\ Len(t) = Len(p) + Len(r) /\ Len(p) \in Nat /\ Len(r) \in Nat
      /\ \A i \in 1 .. Len(t) : t[i] = IF i <= Len(p) THEN p[i] ELSE r[i - Len(p)]
  BY <1>1, ConcatProperties
<1>3. At(t, 1, p)
  BY <1>2 DEF At
<1>4. SubSeq(t, 1, Len(p)) = p
  <2>1. /\ SubSeq(t, 1, Len(p)) \in Seq(S) /\ Len(SubSeq(t, 1, Len(p))) = Len(p)
        /\ \A i \in 1 .. Len(p) : SubSeq(t, 1, Len(p))[i] = t[i]
    BY <1>2
  <2>2. \A i \in 1 .. Len(p) : t[i] = p[i]
    BY <1>2
  <2>3. QED
    BY <2>1, <2>2, SeqEqual
<1>5. From(t, Len(p) + 1) = r
  <2> DEFINE e == SubSeq(t, Len(p) + 1, Len(t))
  <2>1. /\ e \in Seq(S) /\ Len(e) = Len(r)
        /\ \A i \in 1 .. Len(r) : e[i] = t[Len(p) + i]
    BY <1>2
  <2>2. \A i \in 1 .. Len(r) : t[Len(p) + i] = r[i]
    <3> SUFFICES ASSUME NEW i \in 1 .. Len(r) PROVE t[Len(p) + i] = r[i]
      OBVIOUS
    <3>1. /\ Len(p) + i \in 1 .. Len(t) /\ ~(Len(p) + i <= Len(p))
          /\ (Len(p) + i) - Len(p) = i
      BY <1>2
    <3>2. QED
      BY <1>2, <3>1
  <2>3. e = r
    BY <2>1, <2>2, SeqEqual
  <2>4. QED
    BY <2>3 DEF From
<1>6. QED
  BY <1>1, <1>3, <1>4, <1>5

\* Sequences with the same beginning differ only in the rest.
LEMMA SameFront ==
  ASSUME NEW S, NEW p \in Seq(S), NEW r1 \in Seq(S), NEW r2 \in Seq(S), p \o r1 = p \o r2
  PROVE  r1 = r2
<1>1. From(p \o r1, Len(p) + 1) = r1 /\ From(p \o r2, Len(p) + 1) = r2
  BY TakenApart
<1>2. QED
  BY <1>1

Without(l, c) == \A i \in DOMAIN l : l[i] # c

\* A letter that occurs in no front stands where the front ends, and nowhere
\* before.
LEMMA FrontEnds ==
  ASSUME NEW S, NEW c \in S, NEW l \in Seq(S), NEW r \in Seq(S), Without(l, c)
  PROVE  /\ (l \o (<<c>> \o r))[Len(l) + 1] = c
         /\ \A i \in 1 .. Len(l) : (l \o (<<c>> \o r))[i] # c
<1>1. PICK a \in Seq(S) : a = <<c>> \o r
  BY <<c>> \in Seq(S), ConcatProperties
<1>2. a[1] = c /\ Len(a) = 1 + Len(r) /\ Len(r) \in Nat /\ Len(l) \in Nat
  BY <1>1
<1>3. \A i \in 1 .. Len(l) + Len(a) : (l \o a)[i] = IF i <= Len(l) THEN l[i] ELSE a[i - Len(l)]
  BY ConcatProperties
<1>4. (l \o a)[Len(l) + 1] = c
  <2>1. Len(l) + 1 \in 1 .. Len(l) + Len(a) /\ ~(Len(l) + 1 <= Len(l)) /\ Len(l) + 1 - Len(l) = 1
    BY <1>2
  <2>2. (l \o a)[Len(l) + 1] = a[Len(l) + 1 - Len(l)]
    BY <1>3, <2>1
  <2>3. QED
    BY <1>2, <2>1, <2>2
<1>5. \A i \in 1 .. Len(l) : (l \o a)[i] # c
  <2> SUFFICES ASSUME NEW i \in 1 .. Len(l) PROVE (l \o a)[i] # c
    OBVIOUS
  <2>1. i \in 1 .. Len(l) + Len(a) /\ i <= Len(l) /\ i \in DOMAIN l
    BY <1>2
  <2>2. QED
    BY <1>3, <2>1 DEF Without
<1>6. QED
  BY <1>1, <1>4, <1>5

\* A letter that occurs in neither front tells where both end.
LEMMA SplitUnique ==
  ASSUME NEW S, NEW c \in S, NEW l1 \in Seq(S), NEW l2 \in Seq(S),
         NEW r1 \in Seq(S), NEW r2 \in Seq(S), Without(l1, c), Without(l2, c),
         l1 \o (<<c>> \o r1) = l2 \o (<<c>> \o r2)
  PROVE  l1 = l2 /\ r1 = r2
<1> DEFINE t == l1 \o (<<c>> \o r1)
<1>1. t = l2 \o (<<c>> \o r2)
  OBVIOUS
<1>2. t[Len(l1) + 1] = c /\ \A i \in 1 .. Len(l1) : t[i] # c
  BY FrontEnds
<1>3. t[Len(l2) + 1] = c /\ \A i \in 1 .. Len(l2) : t[i] # c
  <2>1. /\ (l2 \o (<<c>> \o r2))[Len(l2) + 1] = c
        /\ \A i \in 1 .. Len(l2) : (l2 \o (<<c>> \o r2))[i] # c
    BY FrontEnds
  <2> HIDE DEF t
  <2>2. QED
    BY <1>1, <2>1
<1> HIDE DEF t
<1>4. Len(l1) = Len(l2)
  <2>1. Len(l1) \in Nat /\ Len(l2) \in Nat
    BY LenProperties
  <2>2. ~(Len(l1) < Len(l2))
    <3>1. Len(l1) < Len(l2) => Len(l1) + 1 \in 1 .. Len(l2)
      BY <2>1
    <3>2. QED
      BY <1>2, <1>3, <3>1
  <2>3. ~(Len(l2) < Len(l1))
    <3>1. Len(l2) < Len(l1) => Len(l2) + 1 \in 1 .. Len(l1)
      BY <2>1
    <3>2. QED
      BY <1>2, <1>3, <3>1
  <2>4. QED
    BY <2>1, <2>2, <2>3
<1>5. <<c>> \in Seq(S)
  OBVIOUS
<1>6. PICK a1 \in Seq(S), a2 \in Seq(S) : a1 = <<c>> \o r1 /\ a2 = <<c>> \o r2
  BY <1>5, ConcatProperties
<1>7. l1 = l2
  <2>1. SubSeq(l1 \o a1, 1, Len(l1)) = l1 /\ SubSeq(l2 \o a2, 1, Len(l2)) = l2
    BY TakenApart
  <2>2. l1 \o a1 = l2 \o a2
    BY <1>1, <1>6 DEF t
  <2>3. QED
    BY <1>4, <2>1, <2>2
<1>8. a1 = a2
  <2>1. l1 \o a1 = l1 \o a2
    BY <1>1, <1>6, <1>7 DEF t
  <2>2. QED
    BY <2>1, SameFront
<1>9. r1 = r2
  <2>1. <<c>> \o r1 = <<c>> \o r2
    BY <1>6, <1>8
  <2>2. QED
    BY <1>5, <2>1, SameFront
<1>10. QED
  BY <1>7, <1>9

-----------------------------------------------------------------------------
(* The names of conversations *)

\* The label of a bot, which may have none.
AnyLabel == Labels \cup {NoLabel}

Plugin == <<"weixin", ":">>
Between == <<"p2p", ":">>
Separator == <<":", "p2p", ":">>

\* The words of a tape are names, and the separator begins with a colon.
LEMMA Words ==
  /\ Plugin \in Seq(Letters) /\ Len(Plugin) = 2
  /\ Between \in Seq(Letters) /\ Len(Between) = 2
  /\ Separator \in Seq(Letters) /\ Len(Separator) = 3 /\ Separator = <<":">> \o Between
  /\ <<":">> \in Seq(Letters)
  /\ <<"weixin", ":", "p2p", ":">> = Plugin \o Between
<1>1. "weixin" \in Letters /\ ":" \in Letters /\ "p2p" \in Letters
  BY RoutingAssumption DEF RoutingAssumption, Separating
<1>2. \A w \in Letters, c \in Letters, p \in Letters :
        /\ <<w, c>> \in Seq(Letters) /\ <<p, c>> \in Seq(Letters) /\ <<c>> \in Seq(Letters)
        /\ <<c, p, c>> \in Seq(Letters) /\ <<w, c, p, c>> \in Seq(Letters)
        /\ Len(<<w, c>>) = 2 /\ Len(<<c, p, c>>) = 3
  OBVIOUS
<1>3. ASSUME NEW w \in Letters, NEW c \in Letters, NEW p \in Letters
      PROVE  <<c, p, c>> = <<c>> \o <<p, c>> /\ <<w, c, p, c>> = <<w, c>> \o <<p, c>>
  <2>1. /\ <<c>> \o <<p, c>> \in Seq(Letters) /\ Len(<<c>> \o <<p, c>>) = 3
        /\ \A i \in 1 .. 3 : <<c, p, c>>[i] = (<<c>> \o <<p, c>>)[i]
    OBVIOUS
  <2>2. /\ <<w, c>> \o <<p, c>> \in Seq(Letters) /\ Len(<<w, c>> \o <<p, c>>) = 4
        /\ Len(<<w, c, p, c>>) = 4
        /\ \A i \in 1 .. 4 : <<w, c, p, c>>[i] = (<<w, c>> \o <<p, c>>)[i]
    OBVIOUS
  <2>3. QED
    BY <1>2, <2>1, <2>2, SeqEqual
<1>4. QED
  BY <1>1, <1>2, <1>3 DEF Plugin, Between, Separator

\* Ids are names; a bot's contains no letter that separates.
LEMMA Names ==
  /\ \A p \in Peers : p \in Seq(Letters) /\ Len(p) > 0
  /\ \A m \in MsgIds : m \in Seq(Letters)
  /\ \A l \in Labels : /\ l \in Seq(Letters) /\ Len(l) > 0 /\ l # NoLabel
                       /\ Without(l, ":") /\ Without(l, "RS") /\ Without(l, "|")
  /\ ":" \in Letters /\ "RS" \in Letters /\ "|" \in Letters
BY RoutingAssumption DEF RoutingAssumption, Separating, NoLabel, Without

\* The parts of a name may be put together in any order.
LEMMA Grouped ==
  \A a, b, c \in Seq(Letters) : (a \o b) \o c = a \o (b \o c)
<1> TAKE a, b, c \in Seq(Letters)
<1> QED
  BY ConcatAssociative

\* A tape without an id reads back as one, whatever the peer contains.
LEMMA LegacyTape ==
  ASSUME NEW peer \in Peers
  PROVE  parseWeixinP2PTape(tapeForPeer(NoLabel, peer)) = Routed(NoLabel, peer)
<1>1. peer \in Seq(Letters)
  BY Names
<1>2. PICK body \in Seq(Letters) : body = Between \o peer
  BY <1>1, Words, ConcatProperties
<1>3. PICK tape \in Seq(Letters) : tape = Plugin \o body
  BY Words, ConcatProperties
<1>4. tapeForPeer(NoLabel, peer) = tape
  <2>1. Plugin \in Seq(Letters) /\ Between \in Seq(Letters)
    BY Words
  <2>2. (Plugin \o Between) \o peer = Plugin \o (Between \o peer)
    BY <1>1, <2>1, Grouped, SMTT(30)
  <2>3. QED
    BY <1>2, <1>3, <2>2, Words DEF tapeForPeer
<1>5. At(tape, 1, Plugin) /\ From(tape, 3) = body
  <2>1. At(tape, 1, Plugin) /\ From(tape, Len(Plugin) + 1) = body
    BY <1>3, Words, TakenApart
  <2>2. QED
    BY <2>1, Words
<1>6. At(body, 1, Between) /\ From(body, 3) = peer
  <2>1. At(body, 1, Between) /\ From(body, Len(Between) + 1) = peer
    BY <1>1, <1>2, Words, TakenApart
  <2>2. QED
    BY <2>1, Words
<1>7. QED
  BY <1>4, <1>5, <1>6 DEF parseWeixinP2PTape, Plugin, Between

\* How the parts of a bot's tape group.
LEMMA BotTape ==
  ASSUME NEW label \in Labels, NEW peer \in Peers
  PROVE  LET body == label \o (Separator \o peer)
         IN  /\ body \in Seq(Letters) /\ Separator \o peer \in Seq(Letters)
             /\ tapeForPeer(label, peer) = Plugin \o body
             /\ body = (label \o Separator) \o peer /\ label \o Separator \in Seq(Letters)
             /\ body = label \o (<<":">> \o (Between \o peer)) /\ Between \o peer \in Seq(Letters)
<1> DEFINE rest == Separator \o peer
<1>1. /\ label \in Seq(Letters) /\ label # NoLabel /\ peer \in Seq(Letters)
      /\ Separator \in Seq(Letters) /\ Plugin \in Seq(Letters)
  BY Names, Words
<1>2. rest \in Seq(Letters) /\ label \o rest \in Seq(Letters)
      /\ label \o Separator \in Seq(Letters) /\ Between \o peer \in Seq(Letters)
  BY <1>1, Words, ConcatProperties
<1>3. label \o rest = (label \o Separator) \o peer
  <2> HIDE DEF rest
  <2>1. (label \o Separator) \o peer = label \o (Separator \o peer)
    BY <1>1, Grouped, Zenon
  <2>2. QED
    BY <2>1 DEF rest
<1>4. rest = <<":">> \o (Between \o peer)
  BY <1>1, Words, ConcatAssociative
<1>5. tapeForPeer(label, peer) = ((Plugin \o label) \o Separator) \o peer
  BY <1>1 DEF tapeForPeer, Plugin, Separator
<1>6. ((Plugin \o label) \o Separator) \o peer = Plugin \o (label \o rest)
  <2>2. Plugin \o label \in Seq(Letters)
    BY <1>1, ConcatProperties
  <2>3. ((Plugin \o label) \o Separator) \o peer = (Plugin \o label) \o (Separator \o peer)
    BY <1>1, <2>2, Grouped, Zenon
  <2>4. (Plugin \o label) \o rest = Plugin \o (label \o rest)
    <3> HIDE DEF rest
    <3>1. QED
      BY <1>1, <1>2, Grouped, SMTT(30)
  <2>5. QED
    BY <2>3, <2>4, Zenon
<1> HIDE DEF rest
<1>7. QED
  BY <1>2, <1>3, <1>4, <1>5, <1>6 DEF rest

\* The first separator of a bot's tape is the one after its id.
LEMMA SeparatorFound ==
  ASSUME NEW label \in Labels, label # <<"p2p">>, NEW peer \in Peers,
         NEW body, body = label \o (Separator \o peer)
  PROVE  /\ ~At(body, 1, Between)
         /\ Separators(body) # {} /\ FirstSeparator(body) = Len(label) + 1
<1>1. /\ label \in Seq(Letters) /\ Len(label) \in Nat /\ Len(label) > 0
      /\ \A i \in 1 .. Len(label) : label[i] # ":"
  BY Names, LenProperties DEF Without
<1>2. PICK rest \in Seq(Letters) : rest = Separator \o peer
  BY BotTape
<1>3. /\ Len(rest) >= 3 /\ rest[1] = ":" /\ rest[2] = "p2p" /\ rest[3] = ":"
  <2>1. At(rest, 1, Separator) /\ Separator \in Seq(Letters) /\ Len(Separator) = 3
    BY <1>2, Names, Words, TakenApart
  <2>2. Len(rest) \in Nat /\ DOMAIN Separator = 1 .. 3
    BY <1>2, <2>1, LenProperties
  <2>3. Len(rest) >= 3 /\ \A k \in 1 .. 3 : rest[k] = Separator[k]
    BY <2>1, <2>2 DEF At
  <2>4. Separator[1] = ":" /\ Separator[2] = "p2p" /\ Separator[3] = ":"
    BY DEF Separator
  <2>5. QED
    BY <2>3, <2>4
<1>4. /\ Len(body) = Len(label) + Len(rest) /\ Len(rest) \in Nat
      /\ \A i \in 1 .. Len(body) : body[i] = IF i <= Len(label) THEN label[i]
                                             ELSE rest[i - Len(label)]
  BY <1>1, <1>2, ConcatProperties, LenProperties
<1>5. ~At(body, 1, Between)
  <2> SUFFICES ASSUME At(body, 1, Between) PROVE FALSE
    OBVIOUS
  <2>1. body[1] = "p2p" /\ body[2] = ":"
    <3>1. DOMAIN Between = 1 .. 2 /\ Between[1] = "p2p" /\ Between[2] = ":"
      BY DEF Between
    <3>2. ASSUME NEW k \in 1 .. 2 PROVE body[k] = Between[k]
      <4>1. body[1 + k - 1] = Between[k]
        BY <3>1 DEF At
      <4>2. 1 + k - 1 = k
        OBVIOUS
      <4>3. QED
        BY <4>1, <4>2
    <3>3. body[1] = Between[1] /\ body[2] = Between[2]
      <4>1. 1 \in 1 .. 2 /\ 2 \in 1 .. 2
        OBVIOUS
      <4>2. QED
        BY <3>2, <4>1, Zenon
    <3>4. QED
      BY <3>1, <3>3
  <2>2. label[1] = "p2p"
    BY <1>1, <1>4, <2>1
  <2>3. Len(label) = 1
    <3>1. Len(label) # 1 => 2 \in 1 .. Len(label) /\ 2 \in 1 .. Len(body) /\ 2 <= Len(label)
      <4>1. PICK m \in Nat, n \in Nat, k \in Nat :
              m = Len(label) /\ n = Len(rest) /\ k = Len(body) /\ m > 0 /\ k = m + n
        BY <1>1, <1>4
      <4>2. m # 1 => 2 \in 1 .. m /\ 2 \in 1 .. k /\ 2 <= m
        BY <4>1
      <4>3. QED
        BY <4>1, <4>2
    <3>2. Len(label) # 1 => body[2] = label[2]
      BY <1>4, <3>1
    <3>3. QED
      BY <1>1, <2>1, <3>1, <3>2
  <2>4. label = <<"p2p">>
    <3>1. "p2p" \in Letters
      BY RoutingAssumption DEF RoutingAssumption
    <3>2. <<"p2p">> \in Seq(Letters) /\ Len(<<"p2p">>) = 1 /\ <<"p2p">>[1] = "p2p"
      BY <3>1
    <3>3. QED
      BY <1>1, <2>2, <2>3, <3>2, SeqEqual
  <2>5. QED
    BY <2>4
<1>6. At(body, Len(label) + 1, Separator)
  <2>1. /\ body[Len(label) + 1] = ":" /\ body[Len(label) + 2] = "p2p"
        /\ body[Len(label) + 3] = ":"
    <3>1. \A k \in 1 .. 3 : /\ Len(label) + k \in 1 .. Len(body)
                             /\ ~(Len(label) + k <= Len(label))
                             /\ Len(label) + k - Len(label) = k
      BY <1>1, <1>3, <1>4
    <3>2. ASSUME NEW k \in 1 .. 3 PROVE body[Len(label) + k] = rest[k]
      <4>1. /\ Len(label) + k \in 1 .. Len(body) /\ ~(Len(label) + k <= Len(label))
            /\ Len(label) + k - Len(label) = k
        BY <3>1
      <4>2. body[Len(label) + k] = rest[Len(label) + k - Len(label)]
        BY <1>4, <4>1
      <4>3. QED
        BY <4>1, <4>2
    <3>3. /\ body[Len(label) + 1] = rest[1] /\ body[Len(label) + 2] = rest[2]
          /\ body[Len(label) + 3] = rest[3]
      <4>1. 1 \in 1 .. 3 /\ 2 \in 1 .. 3 /\ 3 \in 1 .. 3
        OBVIOUS
      <4>2. QED
        BY <3>2, <4>1, Zenon
    <3>4. QED
      BY <1>3, <3>3
  <2>2. DOMAIN Separator = 1 .. 3 /\ Len(Separator) = 3
        /\ Separator[1] = ":" /\ Separator[2] = "p2p" /\ Separator[3] = ":"
    BY DEF Separator
  <2>3. \A k \in 1 .. 3 : body[Len(label) + 1 + k - 1] = Separator[k]
    <3>1. ASSUME NEW k \in 1 .. 3 PROVE body[Len(label) + k] = Separator[k]
      <4>1. k = 1 \/ k = 2 \/ k = 3
        OBVIOUS
      <4>2. QED
        BY <2>1, <2>2, <4>1
    <3>2. \A k \in 1 .. 3 : Len(label) + 1 + k - 1 = Len(label) + k
      BY <1>1
    <3>3. QED
      BY <3>1, <3>2
  <2>4. QED
    BY <1>1, <1>3, <1>4, <2>2, <2>3 DEF At
<1>7. \A i \in 1 .. Len(body) : At(body, i, Separator) => i > Len(label)
  <2> SUFFICES ASSUME NEW i \in 1 .. Len(body), At(body, i, Separator) PROVE i > Len(label)
    OBVIOUS
  <2>1. 1 \in DOMAIN Separator /\ Separator[1] = ":"
    BY DEF Separator
  <2>2. body[i + 1 - 1] = ":"
    BY <2>1 DEF At
  <2>3. QED
    BY <1>1, <1>4, <2>2
<1>8. /\ Len(label) + 1 \in Separators(body)
      /\ \A j \in Separators(body) : j \in Nat /\ Len(label) + 1 <= j
  <2>1. Separators(body) = {i \in 1 .. Len(body) : At(body, i, Separator)}
    BY DEF Separators, Separator
  <2>2. Len(label) + 1 \in 1 .. Len(body)
    BY <1>1, <1>3, <1>4
  <2>3. Len(label) + 1 \in Separators(body)
    BY <1>6, <2>1, <2>2
  <2>4. ASSUME NEW j \in Separators(body) PROVE j \in Nat /\ Len(label) + 1 <= j
    <3>1. j \in 1 .. Len(body) /\ At(body, j, Separator)
      BY <2>1
    <3>2. QED
      BY <1>1, <1>7, <3>1
  <2>5. QED
    BY <2>3, <2>4
<1>9. FirstSeparator(body) = Len(label) + 1
  <2> DEFINE F(i) == i \in Separators(body) /\ \A j \in Separators(body) : i <= j
  <2>1. F(Len(label) + 1)
    BY <1>8
  <2>2. \A i : F(i) => i = Len(label) + 1
    BY <1>1, <1>8
  <2>3. FirstSeparator(body) = CHOOSE i : F(i)
    BY DEF FirstSeparator
  <2>4. QED
    BY <2>1, <2>2, <2>3
<1>10. QED
  BY <1>5, <1>8, <1>9

\* A tape with an id other than "p2p" reads back as one, whatever the peer contains.
LEMMA TapeOfABot ==
  ASSUME NEW label \in Labels, label # <<"p2p">>, NEW peer \in Peers
  PROVE  parseWeixinP2PTape(tapeForPeer(label, peer)) = Routed(label, peer)
<1>1. PICK body \in Seq(Letters) : body = label \o (Separator \o peer)
  BY BotTape
<1>2. PICK tape \in Seq(Letters) : tape = Plugin \o body /\ tape = tapeForPeer(label, peer)
  <2>1. tapeForPeer(label, peer) = Plugin \o body
    BY <1>1, BotTape
  <2>2. Plugin \o body \in Seq(Letters)
    BY Words, ConcatProperties
  <2>3. QED
    BY <2>1, <2>2
<1>3. At(tape, 1, Plugin) /\ From(tape, 3) = body
  <2>1. At(tape, 1, Plugin) /\ From(tape, Len(Plugin) + 1) = body
    BY <1>2, Words, TakenApart
  <2>2. QED
    BY <2>1, Words
<1>4. /\ ~At(body, 1, Between) /\ Separators(body) # {}
      /\ FirstSeparator(body) = Len(label) + 1
  BY <1>1, SeparatorFound
<1>5. label \in Seq(Letters) /\ Len(label) \in Nat /\ Len(label) > 0 /\ peer \in Seq(Letters)
  BY Names, LenProperties
<1>6. SubSeq(body, 1, Len(label)) = label
  BY <1>1, <1>5, BotTape, TakenApart
<1>7. From(body, Len(label) + 4) = peer
  <2>1. PICK front \in Seq(Letters) : front = label \o Separator /\ body = front \o peer
    BY <1>1, BotTape
  <2>2. Len(front) = Len(label) + 3
    BY <1>5, <2>1, Words, ConcatProperties
  <2>3. From(body, Len(front) + 1) = peer
    BY <1>5, <2>1, TakenApart
  <2>4. (Len(label) + 3) + 1 = Len(label) + 4
    BY <1>5
  <2>5. QED
    BY <2>2, <2>3, <2>4
<1>8. /\ FirstSeparator(body) # 1 /\ FirstSeparator(body) - 1 = Len(label)
      /\ FirstSeparator(body) + 3 = Len(label) + 4
  BY <1>4, <1>5
<1>9. parseWeixinP2PTape(tape)
        = Routed(SubSeq(body, 1, FirstSeparator(body) - 1), From(body, FirstSeparator(body) + 3))
  BY <1>3, <1>4, <1>8 DEF parseWeixinP2PTape, Plugin, Between
<1>10. QED
  BY <1>2, <1>6, <1>7, <1>8, <1>9

(* The name of a conversation reads back, if no bot is called "p2p".       *)
LEMMA ReadsBack ==
  ASSUME <<"p2p">> \notin Labels,
         NEW label \in AnyLabel, NEW peer \in Peers
  PROVE  parseWeixinP2PTape(tapeForPeer(label, peer)) = Routed(label, peer)
BY LegacyTape, TapeOfABot DEF AnyLabel

(* Two conversations of one bot never share a name, nor do two of bots     *)
(* that have ids.                                                          *)
LEMMA NamesDiffer ==
  ASSUME NEW l1 \in AnyLabel, NEW p1 \in Peers,
         NEW l2 \in AnyLabel, NEW p2 \in Peers,
         l1 = l2 \/ (l1 # NoLabel /\ l2 # NoLabel),
         tapeForPeer(l1, p1) = tapeForPeer(l2, p2)
  PROVE  l1 = l2 /\ p1 = p2
<1>1. p1 \in Seq(Letters) /\ p2 \in Seq(Letters)
  BY Names
<1>2. CASE l1 = NoLabel /\ l2 = NoLabel
  <2>1. (Plugin \o Between) \o p1 = (Plugin \o Between) \o p2
    BY <1>2, Words DEF tapeForPeer
  <2>2. Plugin \o Between \in Seq(Letters)
    BY Words, ConcatProperties
  <2>3. QED
    BY <1>1, <1>2, <2>1, <2>2, SameFront
<1>3. CASE l1 # NoLabel /\ l2 # NoLabel
  <2>1. l1 \in Labels /\ l2 \in Labels
    BY <1>3 DEF AnyLabel
  <2>2. PICK b1 \in Seq(Letters), b2 \in Seq(Letters) :
          /\ tapeForPeer(l1, p1) = Plugin \o b1 /\ b1 = l1 \o (<<":">> \o (Between \o p1))
          /\ tapeForPeer(l2, p2) = Plugin \o b2 /\ b2 = l2 \o (<<":">> \o (Between \o p2))
    <3>1. ASSUME NEW l \in Labels, NEW p \in Peers
          PROVE  \E b \in Seq(Letters) : /\ tapeForPeer(l, p) = Plugin \o b
                                         /\ b = l \o (<<":">> \o (Between \o p))
      BY BotTape
    <3>2. QED
      BY <2>1, <3>1
  <2>3. b1 = b2
    BY <2>2, Words, SameFront
  <2>4. PICK r1 \in Seq(Letters), r2 \in Seq(Letters) :
          r1 = Between \o p1 /\ r2 = Between \o p2
    BY <1>1, Words, ConcatProperties
  <2>5. /\ l1 \in Seq(Letters) /\ l2 \in Seq(Letters) /\ ":" \in Letters
        /\ Without(l1, ":") /\ Without(l2, ":")
    BY <2>1, Names
  <2>6. l1 \o (<<":">> \o r1) = l2 \o (<<":">> \o r2)
    BY <2>2, <2>3, <2>4
  <2>7. l1 = l2 /\ r1 = r2
    BY <2>5, <2>6, SplitUnique
  <2>8. QED
    BY <1>1, <2>4, <2>7, Words, SameFront
<1>4. QED
  BY <1>2, <1>3

\* A key with a letter between a bot's id and the rest.
KeyOf(label, c, rest) == label \o <<c>> \o rest

\* Nor do they share an approval key, and their bots share no message key.
LEMMA KeysDiffer ==
  ASSUME NEW l1 \in Labels, NEW l2 \in Labels, NEW c \in {"RS", "|"},
         NEW r1 \in Seq(Letters), NEW r2 \in Seq(Letters),
         KeyOf(l1, c, r1) = KeyOf(l2, c, r2)
  PROVE  l1 = l2 /\ r1 = r2
<1>1. /\ l1 \in Seq(Letters) /\ l2 \in Seq(Letters) /\ c \in Letters
      /\ Without(l1, c) /\ Without(l2, c)
  BY Names
<1>2. <<c>> \in Seq(Letters)
  BY <1>1
<1>3. /\ KeyOf(l1, c, r1) = l1 \o (<<c>> \o r1)
      /\ KeyOf(l2, c, r2) = l2 \o (<<c>> \o r2)
  <2>1. (l1 \o <<c>>) \o r1 = l1 \o (<<c>> \o r1)
    BY <1>1, <1>2, Grouped
  <2>2. (l2 \o <<c>>) \o r2 = l2 \o (<<c>> \o r2)
    BY <1>1, <1>2, Grouped
  <2>3. QED
    BY <2>1, <2>2 DEF KeyOf
<1>4. l1 \o (<<c>> \o r1) = l2 \o (<<c>> \o r2)
  BY <1>3
<1>5. QED
  BY <1>1, <1>4, SplitUnique

-----------------------------------------------------------------------------
(* Bots and the jobs of their conversations *)

\* What validateWeixinBots admits: one bot, or two with ids of their own.
LEMMA BotsAreValid ==
  ASSUME NEW bs \in Configs
  PROVE  /\ bs \in Seq(AnyLabel) /\ Len(bs) \in 1 .. 2 /\ DOMAIN bs = 1 .. Len(bs)
         /\ Len(bs) > 1 => \A i, j \in DOMAIN bs :
                              bs[i] # NoLabel /\ (bs[i] = bs[j] => i = j)
<1>1. PICK n \in 1 .. 2 : bs \in [1 .. n -> AnyLabel]
  BY DEF Configs, AnyLabel
<1>2. bs \in Seq(AnyLabel) /\ Len(bs) = n /\ DOMAIN bs = 1 .. n
  <2>1. bs = [i \in 1 .. n |-> bs[i]] /\ \A i \in 1 .. n : bs[i] \in AnyLabel
    BY <1>1
  <2>2. QED
    BY <1>1, <2>1
<1>3. ValidBots(bs)
  BY DEF Configs
<1>4. QED
  BY <1>2, <1>3 DEF ValidBots

(* A label names one bot at most; the empty one names the only bot.        *)
LEMMA BotFound ==
  ASSUME NEW bs \in Configs, NEW i \in DOMAIN bs
  PROVE  botByTapeLabel(bs, bs[i]) = {bs[i]}
<1>1. Len(bs) \in 1 .. 2 /\ i \in 1 .. Len(bs) /\ (Len(bs) > 1 => bs[i] # NoLabel)
  BY BotsAreValid
<1>2. CASE Len(bs) = 1
  BY <1>1, <1>2 DEF botByTapeLabel
<1>3. CASE Len(bs) # 1
  BY <1>1, <1>3 DEF botByTapeLabel
<1>4. QED
  BY <1>2, <1>3

\* A conversation of a bot there is finds that bot.
LEMMA RouteFound ==
  ASSUME NEW bs \in Configs, NEW i \in DOMAIN bs, NEW peer
  PROVE  RouteLabel(bs, bs[i], peer) = Routed(bs[i], peer)
<1>1. botByTapeLabel(bs, bs[i]) = {bs[i]}
  BY BotFound
<1>2. (CHOOSE l \in {bs[i]} : TRUE) = bs[i]
  OBVIOUS
<1>3. QED
  BY <1>1, <1>2 DEF RouteLabel

\* A label finds no other bot, but the empty one finds a bot that is alone.
LEMMA RouteIsRight ==
  ASSUME NEW bs \in Configs, NEW label, NEW peer,
         NEW route, route = RouteLabel(bs, label, peer), route.ok
  PROVE  /\ route.peer = peer
         /\ IF label = NoLabel THEN Len(bs) = 1 ELSE route.label = label
<1> DEFINE found == botByTapeLabel(bs, label)
<1>1. found # {} /\ route = Routed(CHOOSE l \in found : TRUE, peer)
  BY DEF RouteLabel, Unrouted, Routed
<1>2. route.peer = peer /\ route.label \in found
  BY <1>1 DEF Routed
<1>3. label # NoLabel => found \subseteq {label}
  BY DEF botByTapeLabel
<1>4. label = NoLabel => Len(bs) = 1
  BY <1>1 DEF botByTapeLabel
<1>5. QED
  BY <1>2, <1>3, <1>4

\* A job has the names its conversation has.
OfItsConversation(j) ==
    /\ j = [label |-> j.label, peer |-> j.peer, tape |-> tapeForPeer(j.label, j.peer),
            waitKey |-> approvalWaitKey(j.label, j.peer), dedupKey |-> j.dedupKey,
            raw |-> j.raw, current |-> j.current]
    /\ j.label \in AnyLabel /\ j.peer \in Peers /\ j.raw \in MsgIds

\* The names of a job that came in since the bots were last replaced are names
\* of a bot there is.
NamesFit ==
    /\ bots \in Configs
    /\ \A j \in jobs :
         /\ OfItsConversation(j)
         /\ j.current => /\ \E i \in DOMAIN bots : bots[i] = j.label
                         /\ j.dedupKey = dedupScopedKey(j.label, j.raw, Len(bots) > 1)

\* So the names of jobs always fit.
LEMMA NamesFitHolds == Spec => []NamesFit
<1>1. Init => NamesFit
  BY DEF Init, NamesFit
<1>2. NamesFit /\ [Next]_vars => NamesFit'
  <2> SUFFICES ASSUME NamesFit, [Next]_vars PROVE NamesFit'
    OBVIOUS
  <2>1. ASSUME NEW i \in 1 .. 2, NEW p \in Peers, NEW raw \in MsgIds, Inbound(i, p, raw)
        PROVE  NamesFit'
    <3> DEFINE job == [label |-> bots[i], peer |-> p, tape |-> tapeForPeer(bots[i], p),
                       waitKey |-> approvalWaitKey(bots[i], p),
                       dedupKey |-> dedupScopedKey(bots[i], raw, Len(bots) > 1),
                       raw |-> raw, current |-> TRUE]
    <3>1. i \in DOMAIN bots /\ jobs' = jobs \cup {job} /\ bots' = bots
      BY <2>1 DEF Inbound
    <3>2. /\ job.label = bots[i] /\ job.current = TRUE
          /\ job.dedupKey = dedupScopedKey(job.label, job.raw, Len(bots) > 1)
      OBVIOUS
    <3>3. OfItsConversation(job)
      BY <3>1, BotsAreValid DEF NamesFit, OfItsConversation
    <3> HIDE DEF job
    <3>4. QED
      BY <3>1, <3>2, <3>3 DEF NamesFit
  <2>2. ASSUME NEW bs \in Configs, Reconfigure(bs) PROVE NamesFit'
    <3>1. bots' = bs /\ jobs' = {[j EXCEPT !.current = FALSE] : j \in jobs}
      BY <2>2 DEF Reconfigure
    <3>2. ASSUME NEW j \in jobs, NEW k, k = [j EXCEPT !.current = FALSE]
          PROVE  OfItsConversation(k) /\ ~k.current
      <4>1. OfItsConversation(j)
        BY DEF NamesFit
      <4> DEFINE With(l, p, t, w, d, r, c) ==
                   [label |-> l, peer |-> p, tape |-> t, waitKey |-> w, dedupKey |-> d,
                    raw |-> r, current |-> c]
      <4>2. ASSUME NEW l, NEW p, NEW t, NEW w, NEW d, NEW r, NEW c, NEW c2
            PROVE  [With(l, p, t, w, d, r, c) EXCEPT !.current = c2]
                     = With(l, p, t, w, d, r, c2)
        OBVIOUS
      <4>3. k = [label |-> j.label, peer |-> j.peer, tape |-> tapeForPeer(j.label, j.peer),
                 waitKey |-> approvalWaitKey(j.label, j.peer), dedupKey |-> j.dedupKey,
                 raw |-> j.raw, current |-> FALSE]
        <5>1. PICK no : no = FALSE
          OBVIOUS
        <5>2. PICK t, w : /\ t = tapeForPeer(j.label, j.peer)
                          /\ w = approvalWaitKey(j.label, j.peer)
          OBVIOUS
        <5>3. j = With(j.label, j.peer, t, w, j.dedupKey, j.raw, j.current)
          BY <4>1, <5>2 DEF OfItsConversation
        <5>4. k = [With(j.label, j.peer, t, w, j.dedupKey, j.raw, j.current)
                      EXCEPT !.current = no]
          BY <3>2, <5>1, <5>3, Zenon
        <5> HIDE DEF With
        <5>5. k = With(j.label, j.peer, t, w, j.dedupKey, j.raw, no)
          BY <4>2, <5>4
        <5>6. QED
          BY <5>1, <5>2, <5>5 DEF With
      <4>4. QED
        BY <4>1, <4>3 DEF OfItsConversation
    <3>3. bots' \in Configs
      BY <3>1
    <3>4. QED
      BY <3>1, <3>2, <3>3 DEF NamesFit
  <2>3. ASSUME NEW j \in jobs, JobEnds(j) PROVE NamesFit'
    BY <2>3 DEF JobEnds, NamesFit
  <2>4. CASE UNCHANGED vars
    BY <2>4 DEF vars, NamesFit
  <2>5. QED
    BY <2>1, <2>2, <2>3, <2>4 DEF Next
<1>3. QED
  BY <1>1, <1>2, PTL DEF Spec

(* parse.go:12 for every bot id but "p2p": the name of a conversation      *)
(* reads back as its bot and its peer, whatever the peer's id contains.    *)
THEOREM TapeRoundTripHolds ==
  ASSUME <<"p2p">> \notin Labels
  PROVE  Spec => []TapeRoundTrip
<1>1. ASSUME NamesFit PROVE TapeRoundTrip
  <2> SUFFICES ASSUME NEW j \in jobs
               PROVE  parseWeixinP2PTape(j.tape) = Routed(j.label, j.peer)
    BY DEF TapeRoundTrip
  <2>1. /\ j.label \in AnyLabel /\ j.peer \in Peers
        /\ j.tape = tapeForPeer(j.label, j.peer)
    BY <1>1 DEF NamesFit, OfItsConversation
  <2>2. QED
    BY <2>1, ReadsBack
<1>2. QED
  BY <1>1, NamesFitHolds, PTL

(* Where approvals and tool calls of a job go, and those that name its      *)
(* conversation.                                                           *)
LEMMA RoutesOfAJob ==
  ASSUME <<"p2p">> \notin Labels, NamesFit, NEW j \in jobs
  PROVE  RoutesOf(j) = {RouteLabel(bots, j.label, j.peer)}
<1>1. parseWeixinP2PTape(j.tape) = Routed(j.label, j.peer)
  BY ReadsBack DEF NamesFit, OfItsConversation
<1>2. j.peer # <<>>
  BY Names, EmptySeq DEF NamesFit, OfItsConversation
<1>3. /\ Routed(j.label, j.peer).ok /\ Routed(j.label, j.peer).label = j.label
      /\ Routed(j.label, j.peer).peer = j.peer
  BY <1>2 DEF Routed
<1>4. j.tape # <<>>
  <2>1. ~At(<<>>, 1, <<"weixin", ":">>)
    BY DEF At
  <2>2. ~parseWeixinP2PTape(<<>>).ok
    BY <2>1 DEF parseWeixinP2PTape, Unrouted, Routed
  <2>3. QED
    BY <1>1, <1>3, <2>2
<1>5. ApprovalRoute(bots, j.tape) = RouteLabel(bots, j.label, j.peer)
  BY <1>1, <1>3 DEF ApprovalRoute
<1>6. ToolRoute(bots, j) = RouteLabel(bots, j.label, j.peer)
  BY <1>1, <1>3 DEF ToolRoute
<1>7. OffSessionRoute(bots, j.tape, <<>>, NoLabel) = RouteLabel(bots, j.label, j.peer)
  BY <1>4, <1>5 DEF OffSessionRoute
<1>8. OffSessionRoute(bots, <<>>, j.peer, j.label) = RouteLabel(bots, j.label, j.peer)
  <2>1. Len(bots) > 1 /\ j.label = NoLabel => RouteLabel(bots, j.label, j.peer) = Unrouted
    BY BotsAreValid DEF RouteLabel, botByTapeLabel, NamesFit
  <2>2. QED
    BY <1>2, <2>1 DEF OffSessionRoute
<1>9. QED
  BY <1>5, <1>6, <1>7, <1>8 DEF RoutesOf

(* As long as the bots stay, approvals and tool calls of a job reach the   *)
(* bot and the user it came from (handleSingle, botForToolContext).        *)
THEOREM OwnConversationHolds ==
  ASSUME <<"p2p">> \notin Labels
  PROVE  Spec => []OwnConversationReached
<1>1. ASSUME NamesFit PROVE OwnConversationReached
  <2> SUFFICES ASSUME NEW j \in jobs, j.current
               PROVE  RouteLabel(bots, j.label, j.peer) = Routed(j.label, j.peer)
    BY <1>1, RoutesOfAJob DEF OwnConversationReached
  <2>1. PICK i \in DOMAIN bots : bots[i] = j.label
    BY <1>1 DEF NamesFit
  <2>2. QED
    BY <1>1, <2>1, RouteFound DEF NamesFit
<1>2. QED
  BY <1>1, NamesFitHolds, PTL

(* After the bots were replaced, they go to a bot of the same id or fail,  *)
(* but for jobs of a bot without an id (botByTapeLabel).                   *)
THEOREM NeverMisroutedHolds ==
  ASSUME <<"p2p">> \notin Labels
  PROVE  Spec => []NeverMisrouted
<1>1. ASSUME NamesFit PROVE NeverMisrouted
  <2> SUFFICES ASSUME NEW j \in jobs, NEW route, route = RouteLabel(bots, j.label, j.peer),
                      route.ok
               PROVE  /\ route.peer = j.peer
                      /\ IF j.label = NoLabel THEN Len(bots) = 1
                                                    ELSE route.label = j.label
    BY <1>1, RoutesOfAJob DEF NeverMisrouted
  <2>1. QED
    BY <1>1, RouteIsRight DEF NamesFit
<1>2. QED
  BY <1>1, NamesFitHolds, PTL

(* Conversations of one configuration share neither tape nor approval key, *)
(* and its bots no message key, also if one is called "p2p"                *)
(* (approvalWaitKey, dedupScopedKey).                                      *)
THEOREM KeysAreDistinctHolds == Spec => []KeysAreDistinct
<1>1. ASSUME NamesFit PROVE KeysAreDistinct
  <2> SUFFICES ASSUME NEW j \in jobs, NEW k \in jobs, j.current, k.current
               PROVE  /\ j.tape = k.tape => j.label = k.label /\ j.peer = k.peer
                      /\ j.waitKey = k.waitKey => j.label = k.label /\ j.peer = k.peer
                      /\ j.dedupKey = k.dedupKey => j.label = k.label /\ j.raw = k.raw
    BY DEF KeysAreDistinct
  <2>1. /\ j.label \in AnyLabel /\ j.peer \in Peers /\ k.label \in AnyLabel /\ k.peer \in Peers
        /\ j.tape = tapeForPeer(j.label, j.peer) /\ k.tape = tapeForPeer(k.label, k.peer)
        /\ j.waitKey = approvalWaitKey(j.label, j.peer)
        /\ k.waitKey = approvalWaitKey(k.label, k.peer)
        /\ j.dedupKey = dedupScopedKey(j.label, j.raw, Len(bots) > 1)
        /\ k.dedupKey = dedupScopedKey(k.label, k.raw, Len(bots) > 1)
    BY <1>1 DEF NamesFit, OfItsConversation
  <2>2. \/ Len(bots) = 1 /\ j.label = k.label
        \/ Len(bots) > 1 /\ j.label # NoLabel /\ k.label # NoLabel
    <3>1. PICK a \in DOMAIN bots, b \in DOMAIN bots : bots[a] = j.label /\ bots[b] = k.label
      BY <1>1 DEF NamesFit
    <3>2. /\ Len(bots) \in 1 .. 2 /\ DOMAIN bots = 1 .. Len(bots)
          /\ Len(bots) > 1 => bots[a] # NoLabel /\ bots[b] # NoLabel
      BY <1>1, BotsAreValid DEF NamesFit
    <3>3. Len(bots) = 1 => a = b
      BY <3>2
    <3>4. QED
      BY <3>1, <3>2, <3>3
  <2>3. j.tape = k.tape => j.label = k.label /\ j.peer = k.peer
    <3>1. /\ j.label \in AnyLabel /\ k.label \in AnyLabel
          /\ j.label = k.label \/ (j.label # NoLabel /\ k.label # NoLabel)
      BY <2>1, <2>2
    <3>2. ASSUME j.tape = k.tape PROVE j.label = k.label /\ j.peer = k.peer
      <4>1. tapeForPeer(j.label, j.peer) = tapeForPeer(k.label, k.peer)
        BY <2>1, <3>2
      <4>2. j.peer \in Peers /\ k.peer \in Peers
        BY <2>1
      <4>3. QED
        BY <3>1, <4>1, <4>2, NamesDiffer
    <3>3. QED
      BY <3>2
  <2>4. j.waitKey = k.waitKey => j.label = k.label /\ j.peer = k.peer
    <3>1. CASE j.label = NoLabel \/ k.label = NoLabel
      <4>1. j.label = NoLabel /\ k.label = NoLabel
        BY <2>2, <3>1
      <4>2. QED
        BY <2>1, <4>1 DEF approvalWaitKey
    <3>2. CASE j.label # NoLabel /\ k.label # NoLabel
      <4>1. /\ j.label \in Labels /\ k.label \in Labels
            /\ j.peer \in Seq(Letters) /\ k.peer \in Seq(Letters)
        BY <2>1, <3>2, Names DEF AnyLabel
      <4>2. j.waitKey = KeyOf(j.label, "RS", j.peer) /\ k.waitKey = KeyOf(k.label, "RS", k.peer)
        BY <2>1, <3>2 DEF approvalWaitKey, KeyOf
      <4>3. ASSUME j.waitKey = k.waitKey PROVE j.label = k.label /\ j.peer = k.peer
        <5>1. "RS" \in {"RS", "|"}
          OBVIOUS
        <5>2. KeyOf(j.label, "RS", j.peer) = KeyOf(k.label, "RS", k.peer)
          BY <4>2, <4>3
        <5>3. QED
          BY <4>1, <5>1, <5>2, KeysDiffer
      <4>4. QED
        BY <4>3
    <3>3. QED
      BY <3>1, <3>2
  <2>5. j.dedupKey = k.dedupKey => j.label = k.label /\ j.raw = k.raw
    <3>1. CASE Len(bots) = 1 /\ j.label = k.label
      BY <2>1, <3>1 DEF dedupScopedKey
    <3>2. CASE Len(bots) > 1 /\ j.label # NoLabel /\ k.label # NoLabel
      <4>1. /\ j.label \in Labels /\ k.label \in Labels
            /\ j.raw \in Seq(Letters) /\ k.raw \in Seq(Letters)
        BY <1>1, <2>1, <3>2, Names DEF AnyLabel, NamesFit, OfItsConversation
      <4>2. j.dedupKey = KeyOf(j.label, "|", j.raw) /\ k.dedupKey = KeyOf(k.label, "|", k.raw)
        BY <2>1, <3>2 DEF dedupScopedKey, KeyOf
      <4>3. ASSUME j.dedupKey = k.dedupKey PROVE j.label = k.label /\ j.raw = k.raw
        <5>1. "|" \in {"RS", "|"}
          OBVIOUS
        <5>2. KeyOf(j.label, "|", j.raw) = KeyOf(k.label, "|", k.raw)
          BY <4>2, <4>3
        <5>3. QED
          BY <4>1, <5>1, <5>2, KeysDiffer
      <4>4. QED
        BY <4>3
    <3>3. QED
      BY <2>2, <3>1, <3>2
  <2>6. QED
    BY <2>3, <2>4, <2>5
<1>2. QED
  BY <1>1, NamesFitHolds, PTL

-----------------------------------------------------------------------------
(* Deduplication *)

USE DedupAssumption DEF DedupAssumption, Time

(* Readings lie in the past.                                                *)
THEOREM TypeCorrect == DedupSpec => []TypeOK
<1>1. DedupInit => TypeOK
  BY DEF DedupInit, TypeOK
<1>2. TypeOK /\ [DedupNext]_dedupVars => TypeOK'
  <2> SUFFICES ASSUME TypeOK, [DedupNext]_dedupVars PROVE TypeOK'
    OBVIOUS
  <2> USE DEF TypeOK
  <2>1. CASE Tick
    BY <2>1 DEF Tick
  <2>2. ASSUME NEW c \in Callers, NEW id \in Ids, Call(c, id) PROVE TypeOK'
    BY <2>2 DEF Call
  <2>3. ASSUME NEW c \in Callers, Duplicate(c) PROVE TypeOK'
    BY <2>3 DEF Duplicate
  <2>4. ASSUME NEW c \in Callers, New(c) PROVE TypeOK'
    BY <2>4 DEF New, Expired
  <2>5. CASE UNCHANGED dedupVars
    BY <2>5 DEF dedupVars
  <2>6. QED
    BY <2>1, <2>2, <2>3, <2>4, <2>5 DEF DedupNext
<1>3. QED
  BY <1>1, <1>2, PTL DEF DedupSpec

(* No id is forgotten within TTL of its latest report: a sweep judges by a  *)
(* reading no later than the clock, and a record is only replaced by a      *)
(* report.                                                                  *)
THEOREM LiveIdIsRememberedHolds == DedupSpec => []LiveIdIsRemembered
<1>1. DedupInit => LiveIdIsRemembered
  BY DEF DedupInit, LiveIdIsRemembered
<1>2. TypeOK /\ LiveIdIsRemembered /\ [DedupNext]_dedupVars => LiveIdIsRemembered'
  <2> SUFFICES ASSUME TypeOK, LiveIdIsRemembered, [DedupNext]_dedupVars
               PROVE  LiveIdIsRemembered'
    OBVIOUS
  <2> USE DEF TypeOK, LiveIdIsRemembered
  <2>1. CASE Tick
    BY <2>1 DEF Tick
  <2>2. ASSUME NEW c \in Callers, NEW id \in Ids, Call(c, id)
        PROVE  LiveIdIsRemembered'
    BY <2>2 DEF Call
  <2>3. ASSUME NEW c \in Callers, Duplicate(c) PROVE LiveIdIsRemembered'
    BY <2>3 DEF Duplicate
  <2>4. ASSUME NEW c \in Callers, New(c) PROVE LiveIdIsRemembered'
    <3>1. arg[c] \in known' /\ at'[arg[c]] = now[c] /\ last'[arg[c]] = now[c]
      BY <2>4 DEF New, Expired
    <3>2. ASSUME NEW id \in accepted, id # arg[c], clock < last[id] + TTL
          PROVE  id \in known' /\ at'[id] = last[id]
      \* The sweep's reading is not later than the clock, so id is not expired.
      <4>1. id \in known /\ at[id] = last[id] /\ at'[id] = at[id]
        BY <2>4, <3>2 DEF New
      <4>2. ~(now[c] > at[id] + TTL)
        BY <3>2, <4>1
      <4>3. QED
        BY <2>4, <3>2, <4>1, <4>2 DEF New, Expired
    <3>3. clock' = clock /\ accepted' = accepted \cup {arg[c]}
          /\ \A id \in Ids : id # arg[c] => last'[id] = last[id]
      BY <2>4 DEF New
    <3>4. ASSUME NEW id \in accepted', clock' < last'[id] + TTL
          PROVE  id \in known' /\ at'[id] = last'[id]
      <4>1. CASE id = arg[c]
        BY <3>1, <4>1
      <4>2. CASE id # arg[c]
        BY <3>2, <3>3, <3>4, <4>2
      <4>3. QED
        BY <4>1, <4>2
    <3>5. QED
      BY <3>4
  <2>5. CASE UNCHANGED dedupVars
    BY <2>5 DEF dedupVars
  <2>6. QED
    BY <2>1, <2>2, <2>3, <2>4, <2>5 DEF DedupNext
<1>3. QED
  BY <1>1, <1>2, TypeCorrect, PTL DEF DedupSpec

(* A message is not reported as new twice within TTL.                       *)
THEOREM NoEarlyRepeatHolds == DedupSpec => NoEarlyRepeat
<1>1. TypeOK /\ LiveIdIsRemembered =>
        \A c \in Callers :
           New(c) /\ arg[c] \in accepted => clock >= last[arg[c]] + TTL
  BY DEF TypeOK, LiveIdIsRemembered, New, Fresh
<1>2. QED
  BY <1>1, TypeCorrect, LiveIdIsRememberedHolds, PTL DEF NoEarlyRepeat

(* What a map over its limit holds is at most TTL old.                      *)
THEOREM OverflowIsRecentHolds == DedupSpec => []OverflowIsRecent
<1>1. DedupInit => OverflowIsRecent
  BY DEF DedupInit, OverflowIsRecent
<1>2. TypeOK /\ OverflowIsRecent /\ [DedupNext]_dedupVars => OverflowIsRecent'
  <2> SUFFICES ASSUME TypeOK, OverflowIsRecent, [DedupNext]_dedupVars
               PROVE  OverflowIsRecent'
    OBVIOUS
  <2>1. ASSUME UNCHANGED <<known, at, sweptAt>> PROVE OverflowIsRecent'
    BY <2>1 DEF OverflowIsRecent
  <2>2. ASSUME NEW c \in Callers, New(c) PROVE OverflowIsRecent'
    <3> DEFINE keys == known \cup {arg[c]}
    <3>1. CASE Cardinality(keys) > Limit
      BY <2>2, <3>1 DEF New, Expired, OverflowIsRecent, TypeOK
    <3>2. CASE ~(Cardinality(keys) > Limit)
      BY <2>2, <3>2 DEF New, OverflowIsRecent
    <3>3. QED
      BY <3>1, <3>2
  <2>3. QED
    BY <2>1, <2>2 DEF DedupNext, Tick, Call, Duplicate, dedupVars
<1>3. QED
  BY <1>1, <1>2, TypeCorrect, PTL DEF DedupSpec

(* The sweep drops what is old and nothing else: no id is forgotten within  *)
(* TTL, and a map over its limit holds nothing older (isDuplicate).         *)
THEOREM SweepIsExactHolds == DedupSpec => []SweepIsExact
BY LiveIdIsRememberedHolds, OverflowIsRecentHolds, PTL DEF SweepIsExact
=============================================================================
