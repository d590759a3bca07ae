--------------------------- MODULE OutboundProofs ---------------------------
(***************************************************************************)
(* Proofs about Outbound, for any number of users and sends, any requests  *)
(* and any limits. The invariants speak of one send at a time; the typing  *)
(* indicator is the one thing the sends of a user share. At the end, for   *)
(* every file, what the padding of MediaPadding adds and announces.        *)
(***************************************************************************)
EXTENDS Outbound, MediaPadding, SequenceTheorems, TLAPS

\* What a send has of its own.
Own(s) == <<pc[s], req[s], armed[s], total[s], off[s], ticket[s], posted[s], tries[s],
            got[s], uploaded[s]>>

Sending == {"part", "start", "post"}

\* The parts that reached the user follow one another.
Chained(s) ==
    /\ got[s] # <<>> => got[s][1][1] = First(s)
    /\ \A i \in 1 .. Len(got[s]) : got[s][i][2] = PartEnd(s, got[s][i][1])
    /\ \A i \in 2 .. Len(got[s]) : got[s][i][1] = got[s][i - 1][2]

\* How far they go, against what the send knows, place by place.
Reached(s) ==
    /\ pc[s] \in {"new", "fetch", "resolve"} => got[s] = <<>> /\ off[s] = 0 /\ ~armed[s]
    /\ pc[s] \in {"url", "cdn"} =>
           req[s].kind = "file" /\ got[s] = <<>> /\ off[s] = First(s) /\ total[s] = 2
    /\ pc[s] \in Sending => armed[s] /\ off[s] < total[s] /\ Reach(s) = off[s]
    /\ pc[s] = "stop" => /\ armed[s] /\ off[s] < total[s]
                         /\ Reach(s) \in {off[s], PartEnd(s, off[s])}
                         /\ posted[s] => Reach(s) = PartEnd(s, off[s])
    /\ pc[s] = "ok" => off[s] = total[s] /\ Reach(s) = total[s]
    /\ pc[s] = "failed" /\ armed[s] => Reach(s) \in {off[s], PartEnd(s, off[s])}

\* Where a send stands with its upload.
UploadInv(s) ==
    /\ pc[s] \in {"new", "fetch", "resolve", "url"} => tries[s] = 0
    /\ pc[s] = "cdn" => tries[s] < MaxAttempts
    /\ pc[s] # "new" /\ req[s].kind = "file" /\ (pc[s] \in Sending \cup {"stop"} \/ got[s] # <<>>)
           => uploaded[s]

SendInv(s) == Chained(s) /\ Reached(s) /\ UploadInv(s) /\ (pc[s] = "start" => ticket[s])

\* A message that was given up is the last of its send, and not there yet.
LateInv(call) ==
    LET s == call.by
    IN  call.what = "post" =>
            /\ call.at = off[s] /\ pc[s] \in {"stop", "failed"} /\ ~posted[s]
            /\ armed[s] /\ off[s] < total[s] /\ Reach(s) = off[s]
            /\ req[s].kind = "file" => uploaded[s]

\* The type of every variable; the bound of tries is part of SendInv.
IInv ==
    /\ TypeOK
    /\ \A s \in Senders : SendInv(s)
    /\ \A call \in late : LateInv(call)
    /\ TypingEnds

-----------------------------------------------------------------------------
(* Helpers *)

\* The steps of a part, and where it ends.
LEMMA PartBounds ==
    ASSUME TypeOK, NEW s \in Senders, pc[s] # "new"
    PROVE  /\ First(s) \in {0, 1} /\ Step(s) \in Nat \ {0}
           /\ PartEnd(s, off[s]) \in Nat
           /\ off[s] < total[s] => PartEnd(s, off[s]) > off[s]
           /\ off[s] <= total[s] => PartEnd(s, off[s]) <= total[s]
  BY OutboundAssumption DEF TypeOK, First, Step, PartEnd

\* A step leaves the sends it does not belong to as they are.
LEMMA OthersUntouched ==
    ASSUME TypeOK, NEW s \in Senders, NEW t \in Senders, t # s,
           SendStep(s) \/ \E r \in Requests : Begin(s, r)
    PROVE  Own(t)' = Own(t)
<1>1. CASE \E r \in Requests : Begin(s, r)
  BY <1>1 DEF Begin, Own, TypeOK, gatewayVars
<1>2. CASE \E ok \in BOOLEAN : Fetch(s, ok)
  BY <1>2 DEF Fetch, Own, TypeOK, gatewayVars
<1>3. CASE \E left \in 0 .. ChunkRunes * MaxChunks + CutMark : ResolveText(s, left)
  BY <1>3 DEF ResolveText, Own, TypeOK, gatewayVars
<1>4. CASE ResolveFile(s)
  BY <1>4 DEF ResolveFile, Own, TypeOK, gatewayVars
<1>5. CASE \E answer \in {"full", "param", "none"} : AskUploadUrl(s, answer)
  BY <1>5 DEF AskUploadUrl, Own, TypeOK, gatewayVars
<1>6. CASE UploadDone(s)
  BY <1>6 DEF UploadDone, UploadStep, Own, TypeOK
<1>7. CASE UploadFails(s)
  BY <1>7 DEF UploadFails, UploadStep, Own, TypeOK
<1>8. CASE UploadRefused(s)
  BY <1>8 DEF UploadRefused, UploadStep, Own, TypeOK
<1>9. CASE ReadTicket(s)
  BY <1>9 DEF ReadTicket, Own, TypeOK, gatewayVars
<1>10. CASE StartTyping(s)
  BY <1>10 DEF StartTyping, Own, TypeOK
<1>11. CASE Post(s)
  BY <1>11 DEF Post, PostEffect, Proceed, Own, TypeOK
<1>12. CASE StopTyping(s)
  BY <1>12 DEF StopTyping, Proceed, Own, TypeOK
<1>13. QED
  BY <1>1, <1>2, <1>3, <1>4, <1>5, <1>6, <1>7, <1>8, <1>9, <1>10, <1>11, <1>12 DEF SendStep

\* The invariant of a send is about nothing but the send.
LEMMA UntouchedKeeps ==
    ASSUME NEW s \in Senders, SendInv(s), Own(s)' = Own(s)
    PROVE  SendInv(s)'
<1>1. /\ pc'[s] = pc[s] /\ req'[s] = req[s] /\ armed'[s] = armed[s] /\ total'[s] = total[s]
      /\ off'[s] = off[s] /\ ticket'[s] = ticket[s] /\ posted'[s] = posted[s]
      /\ tries'[s] = tries[s] /\ got'[s] = got[s] /\ uploaded'[s] = uploaded[s]
  BY DEF Own
<1>2. First(s)' = First(s) /\ Step(s)' = Step(s)
  BY <1>1 DEF First, Step
<1>3. Reach(s)' = Reach(s)
  BY <1>1, <1>2 DEF Reach
<1>4. Chained(s)'
  BY <1>1, <1>2 DEF SendInv, Chained, PartEnd
<1>5. Reached(s)'
  BY <1>1, <1>2, <1>3 DEF SendInv, Reached, PartEnd, Sending
<1>6. QED
  BY <1>1, <1>4, <1>5 DEF SendInv, UploadInv, Sending

\* What a call that a send gives up leaves behind.
LEMMA GivenUp ==
    ASSUME TypeOK, NEW s \in Senders, NEW what \in {"start", "post", "stop"},
           NEW o, GiveUp(s, what, o)
    PROVE  /\ late' \subseteq late \cup {CallOf(s, what)}
           /\ CallOf(s, what) \in [what : {"start", "post", "stop"}, by : Senders, at : Nat]
           /\ CallOf(s, what).by = s /\ CallOf(s, what).what = what
           /\ CallOf(s, what).at = off[s]
  BY DEF GiveUp, CallOf, TypeOK

\* Which calls may be late.
LateCalls == [what : {"start", "post", "stop"}, by : Senders, at : Nat]

\* A message a send makes leaves a call of its own at most.
LEMMA LateTyped ==
    ASSUME TypeOK, NEW s \in Senders, StartTyping(s) \/ Post(s) \/ StopTyping(s)
    PROVE  late' \subseteq LateCalls /\ \A call \in late' : pc'[call.by] # "new"
<1>1. PICK what \in {"start", "post", "stop"}, o \in Outcomes(s) : GiveUp(s, what, o)
  BY DEF StartTyping, Post, StopTyping, PostEffect
<1>2. /\ late' \subseteq late \cup {CallOf(s, what)}
      /\ CallOf(s, what) \in LateCalls /\ CallOf(s, what).by = s
  BY <1>1, GivenUp DEF LateCalls
<1>3. \A t \in Senders : pc'[t] = "new" => pc[t] = "new" /\ t # s
  BY DEF StartTyping, Post, StopTyping, Proceed, TypeOK
<1>4. late \subseteq LateCalls /\ \A call \in late : pc[call.by] # "new"
  BY DEF TypeOK, LateCalls
<1>5. \A call \in late' : call.by \in Senders
  BY <1>2, <1>4 DEF LateCalls
<1>6. QED
  BY <1>2, <1>3, <1>4, <1>5

-----------------------------------------------------------------------------
(* Types *)

\* Every step leaves the variables their types.
LEMMA TypeStep == IInv /\ [Next]_vars => TypeOK'
<1> SUFFICES ASSUME IInv, [Next]_vars PROVE TypeOK'
  OBVIOUS
<1> USE DEF IInv
<1>1. CASE \E again \in BOOLEAN : EndRun(again)
  BY <1>1 DEF TypeOK, EndRun, gatewayVars
<1>2. CASE \E p \in Peers : LearnToken(p) \/ LearnTicket(p)
  BY <1>2 DEF TypeOK, LearnToken, LearnTicket, sendVars, gatewayVars
<1>3. ASSUME NEW s \in Senders, NEW r \in Requests, Begin(s, r) PROVE TypeOK'
  BY <1>3 DEF TypeOK, Begin, Places, gatewayVars
<1>4. ASSUME NEW s \in Senders, SendStep(s) PROVE TypeOK'
  <2>0. pc[s] # "new"
    BY <1>4 DEF SendStep, Fetch, ResolveText, ResolveFile, AskUploadUrl, UploadDone,
                UploadFails, UploadRefused, UploadStep, ReadTicket, StartTyping, Post,
                StopTyping
  <2>1. First(s) \in Nat /\ PartEnd(s, off[s]) \in Nat /\ Part(s) \in Nat \X Nat
    <3>1. First(s) \in Nat /\ PartEnd(s, off[s]) \in Nat
      BY <2>0, PartBounds
    <3>2. off[s] \in Nat
      BY DEF TypeOK
    <3>3. QED
      BY <3>1, <3>2 DEF Part, PartFrom
  <2>2. req[s] \in Requests /\ req[s].peer \in Peers
    BY <2>0, OutboundAssumption DEF TypeOK, RequestType
  <2>3. ASSUME NEW ok \in BOOLEAN, Fetch(s, ok) PROVE TypeOK'
    BY <2>3 DEF TypeOK, Fetch, Places, Ended, gatewayVars
  <2>4. ASSUME NEW left \in 0 .. ChunkRunes * MaxChunks + CutMark, ResolveText(s, left)
        PROVE  TypeOK'
    <3>1. left \in Nat
      BY OutboundAssumption
    <3>2. Tokened(s) \in BOOLEAN
      BY <2>2, OutboundAssumption DEF Tokened, RequestType
    <3>3. QED
      <4>1. pc' \in [Senders -> Places]
        <5>1. \E v \in {"ok", "part", "failed"} : pc' = [pc EXCEPT ![s] = v]
          BY <2>4 DEF ResolveText
        <5>2. QED
          BY <5>1 DEF TypeOK, Places, Ended
      <4>2. total' \in [Senders -> Nat] /\ tokens' \subseteq Peers
        <5>1. CASE Tokened(s)
          <6>1. total' = [total EXCEPT ![s] = left]
                /\ (tokens' = tokens \/ tokens' = tokens \cup {req[s].peer})
            BY <2>4, <5>1 DEF ResolveText
          <6>2. QED
            BY <2>2, <3>1, <6>1 DEF TypeOK
        <5>2. CASE ~Tokened(s)
          BY <2>4, <5>2 DEF TypeOK, ResolveText
        <5>3. QED
          BY <5>1, <5>2
      <4>3. \A t \in Senders : pc'[t] # "new" => req[t] \in Requests
        BY <2>2, <2>4 DEF TypeOK, ResolveText
      <4>4. QED
        BY <2>4, <3>2, <4>1, <4>2, <4>3 DEF TypeOK, ResolveText, gatewayVars
  <2>5. CASE ResolveFile(s)
    <3>1. Tokened(s) \in BOOLEAN
      BY <2>2, OutboundAssumption DEF Tokened, RequestType
    <3>2. QED
      BY <2>1, <2>5, <3>1 DEF TypeOK, ResolveFile, Places, Ended, gatewayVars
  <2>6. ASSUME NEW answer \in {"full", "param", "none"}, AskUploadUrl(s, answer)
        PROVE  TypeOK'
    BY <2>6 DEF TypeOK, AskUploadUrl, Places, Ended, gatewayVars
  <2>7. CASE UploadDone(s) \/ UploadFails(s) \/ UploadRefused(s)
    <3>1. tries[s] + 1 \in 0 .. MaxAttempts
      BY <2>7, OutboundAssumption
      DEF TypeOK, SendInv, UploadInv, UploadDone, UploadFails, UploadRefused, UploadStep
    <3>2. QED
      <4>1. pc' \in [Senders -> Places] /\ tries' \in [Senders -> 0 .. MaxAttempts]
        <5>1. \E v \in {"part", "cdn", "failed"} : pc' = [pc EXCEPT ![s] = v]
          BY <2>7 DEF UploadDone, UploadFails, UploadRefused
        <5>2. tries' = [tries EXCEPT ![s] = tries[s] + 1]
          BY <2>7 DEF UploadDone, UploadFails, UploadRefused, UploadStep
        <5>3. QED
          BY <3>1, <5>1, <5>2 DEF TypeOK, Places, Ended
      <4>2. \A t \in Senders : pc'[t] # "new" => req[t] \in Requests
        BY <2>2, <2>7 DEF TypeOK, UploadDone, UploadFails, UploadRefused, UploadStep
      <4>3. uploaded' \in [Senders -> BOOLEAN]
        BY <2>7 DEF TypeOK, UploadDone, UploadFails, UploadRefused
      <4>4. QED
        BY <2>7, <4>1, <4>2, <4>3
        DEF TypeOK, UploadDone, UploadFails, UploadRefused, UploadStep
  <2>8. CASE ReadTicket(s)
    BY <2>8 DEF TypeOK, ReadTicket, Places, gatewayVars
  <2>9. CASE StartTyping(s)
    <3>1. late' \subseteq LateCalls /\ \A call \in late' : pc'[call.by] # "new"
      BY <2>9, LateTyped
    <3>2. QED
      BY <2>2, <2>9, <3>1 DEF TypeOK, StartTyping, Places, LateCalls
  <2>10. CASE Post(s)
    <3>1. got' \in [Senders -> Seq(Nat \X Nat)]
      BY <2>1, <2>10 DEF TypeOK, Post, PostEffect
    <3>2. posted' \in [Senders -> BOOLEAN]
      BY <2>10 DEF TypeOK, Post, PostEffect, Outcomes
    <3>3. pc' \in [Senders -> Places] /\ off' \in [Senders -> Nat]
      <4>1. PICK o \in Outcomes(s) :
                IF ticket[s] THEN pc' = [pc EXCEPT ![s] = "stop"] /\ UNCHANGED off
                             ELSE Proceed(s, o.ok)
        BY <2>10 DEF Post
      <4>2. CASE ticket[s]
        BY <4>1, <4>2 DEF TypeOK, Places
      <4>3. CASE ~ticket[s]
        <5>1. \E v \in {"failed", "part", "ok"} : pc' = [pc EXCEPT ![s] = v]
          BY <4>1, <4>3 DEF Proceed
        <5>2. off' = off \/ off' = [off EXCEPT ![s] = PartEnd(s, off[s])]
          BY <4>1, <4>3 DEF Proceed
        <5>3. pc' \in [Senders -> Places]
          BY <5>1 DEF TypeOK, Places, Ended
        <5>4. off \in [Senders -> Nat] /\ PartEnd(s, off[s]) \in Nat
          BY <2>1 DEF TypeOK
        <5>5. off' \in [Senders -> Nat]
          BY <5>2, <5>4
        <5>6. QED
          BY <5>3, <5>5
      <4>4. QED
        BY <4>2, <4>3
    <3>4. \A t \in Senders : pc'[t] # "new" => req[t] \in Requests
      BY <2>0, <2>10 DEF TypeOK, Post, Proceed
    <3>5. QED
      <4>1. late' \subseteq LateCalls /\ \A call \in late' : pc'[call.by] # "new"
        BY <2>10, LateTyped
      <4>2. QED
        BY <2>10, <3>1, <3>2, <3>3, <3>4, <4>1 DEF TypeOK, Post, LateCalls
  <2>11. CASE StopTyping(s)
    <3>1. late' \subseteq LateCalls /\ \A call \in late' : pc'[call.by] # "new"
      BY <2>11, LateTyped
    <3>2. QED
      BY <2>1, <2>2, <2>11, <3>1 DEF TypeOK, StopTyping, Proceed, Places, Ended, LateCalls
  <2>12. QED
    BY <1>4, <2>3, <2>4, <2>5, <2>6, <2>7, <2>8, <2>9, <2>10, <2>11 DEF SendStep
<1>5. CASE UNCHANGED vars
  BY <1>5 DEF TypeOK, vars, sendVars, gatewayVars
<1>6. ASSUME NEW call \in late, LatePost(call) \/ LateStart(call) \/ LateStop(call)
      PROVE  TypeOK'
  <2>1. /\ call.by \in Senders /\ call.at \in Nat /\ pc[call.by] # "new"
        /\ req[call.by] \in Requests
    BY DEF TypeOK
  <2>2. req[call.by].peer \in Peers
    BY <2>1, OutboundAssumption DEF RequestType
  <2>3. PartFrom(call.by, call.at) \in Nat \X Nat
    <3>1. PartEnd(call.by, call.at) \in Nat
      BY <2>1, OutboundAssumption DEF PartEnd, Step, TypeOK
    <3>2. QED
      BY <2>1, <3>1 DEF PartFrom
  <2>4. CASE LatePost(call)
    <3>1. got' \in [Senders -> Seq(Nat \X Nat)]
      BY <2>1, <2>3, <2>4 DEF LatePost, TypeOK
    <3>2. QED
      BY <2>4, <3>1 DEF LatePost, TypeOK, sendVars
  <2>5. CASE LateStart(call)
    BY <2>2, <2>5 DEF LateStart, TypeOK, sendVars
  <2>6. CASE LateStop(call)
    BY <2>6 DEF LateStop, TypeOK, sendVars
  <2>7. QED
    BY <1>6, <2>4, <2>5, <2>6
<1>7. QED
  BY <1>1, <1>2, <1>3, <1>4, <1>5, <1>6 DEF Next

-----------------------------------------------------------------------------
(* The send that takes a step *)

\* A send that has nothing delivered yet is trivially in order.
LEMMA NothingIsChained ==
    ASSUME NEW s \in Senders, got'[s] = <<>>
    PROVE  Chained(s)' /\ Reach(s)' = First(s)'
  BY DEF Chained, Reach

\* A step that neither delivers nor changes the request keeps the order.
LEMMA ChainKept ==
    ASSUME NEW s \in Senders, Chained(s),
           got'[s] = got[s], req'[s] = req[s], total'[s] = total[s]
    PROVE  /\ Chained(s)' /\ Reach(s)' = Reach(s) /\ First(s)' = First(s)
           /\ PartEnd(s, off[s])' = PartEnd(s, off'[s])
<1>1. First(s)' = First(s) /\ Step(s)' = Step(s)
  BY DEF First, Step
<1>2. \A n : PartEnd(s, n)' = PartEnd(s, n)
  BY <1>1 DEF PartEnd
<1>3. Chained(s)'
  BY <1>1, <1>2 DEF Chained
<1>4. Reach(s)' = Reach(s)
  BY <1>1 DEF Reach
<1>5. PartEnd(s, off[s])' = PartEnd(s, off'[s])
  BY <1>1 DEF PartEnd
<1>6. QED
  BY <1>1, <1>3, <1>4, <1>5

\* The part at hand continues what reached the user.
LEMMA PartExtendsChain ==
    ASSUME TypeOK, NEW s \in Senders, pc[s] # "new", Chained(s), Reach(s) = off[s],
           got'[s] = Append(got[s], Part(s)),
           req'[s] = req[s], total'[s] = total[s]
    PROVE  Chained(s)' /\ Reach(s)' = PartEnd(s, off[s])
<1> DEFINE old == got[s]
           new == got'[s]
<1>1. First(s)' = First(s) /\ Step(s)' = Step(s)
  BY DEF First, Step
<1>2. \A n : PartEnd(s, n)' = PartEnd(s, n)
  BY <1>1 DEF PartEnd
<1>3. old \in Seq(Nat \X Nat) /\ off[s] \in Nat /\ PartEnd(s, off[s]) \in Nat
  BY PartBounds DEF TypeOK
<1>4. Part(s) \in Nat \X Nat /\ Part(s)[1] = off[s] /\ Part(s)[2] = PartEnd(s, off[s])
  BY <1>3 DEF Part, PartFrom
<1>5. new = Append(old, Part(s))
  BY DEF TypeOK
<1>6. /\ Len(new) = Len(old) + 1 /\ Len(old) \in Nat
      /\ new[Len(old) + 1] = Part(s)
      /\ \A i \in 1 .. Len(old) : new[i] = old[i]
      /\ new # <<>>
  <2> DEFINE e == Part(s)
  <2>1. old \in Seq(Nat \X Nat) /\ e \in Nat \X Nat /\ new = Append(old, e)
    BY <1>3, <1>4, <1>5
  <2> HIDE DEF old, new, e
  <2>2. Len(old) \in Nat
    BY <2>1
  <2>3. /\ Len(new) = Len(old) + 1 /\ new[Len(old) + 1] = e /\ new # <<>>
        /\ \A i \in 1 .. Len(old) : new[i] = old[i]
    BY <2>1, AppendProperties, SMTT(20)
  <2>4. QED
    BY <2>2, <2>3 DEF old, new, e
<1>7. Reach(s)' = PartEnd(s, off[s])
  BY <1>1, <1>4, <1>6 DEF Reach
<1>8. new[1][1] = First(s)
  <2>1. CASE old = <<>>
    BY <1>4, <1>6, <2>1 DEF Reach
  <2>2. CASE old # <<>>
    <3>1. Len(old) >= 1
      BY <1>3, <2>2
    <3>2. QED
      BY <1>6, <2>2, <3>1 DEF Chained
  <2>3. QED
    BY <2>1, <2>2
<1>9. ASSUME NEW i \in 1 .. Len(new) PROVE new[i][2] = PartEnd(s, new[i][1])
  <2>1. CASE i \in 1 .. Len(old)
    BY <1>6, <2>1 DEF Chained
  <2>2. CASE i = Len(old) + 1
    BY <1>4, <1>6, <2>2
  <2>3. QED
    BY <1>6, <2>1, <2>2
<1>10. ASSUME NEW i \in 2 .. Len(new) PROVE new[i][1] = new[i - 1][2]
  <2>1. CASE i \in 2 .. Len(old)
    BY <1>6, <2>1 DEF Chained
  <2>2. CASE i = Len(old) + 1
    <3>1. old # <<>> /\ i - 1 = Len(old)
      BY <1>3, <2>2, <1>6
    <3>2. Reach(s) = old[Len(old)][2]
      BY <3>1 DEF Reach
    <3>3. new[i - 1] = old[Len(old)]
      BY <1>6, <2>2, <3>1
    <3>4. QED
      BY <1>4, <1>6, <2>2, <3>2, <3>3
  <2>3. QED
    BY <1>6, <2>1, <2>2
<1>11. QED
  BY <1>1, <1>2, <1>7, <1>8, <1>9, <1>10 DEF Chained

\* After a message: what the send believes agrees with what reached the user.
LEMMA ProceedReaches ==
    ASSUME TypeOK, NEW s \in Senders, NEW ok \in BOOLEAN, Proceed(s, ok),
           pc[s] # "new", armed[s], off[s] < total[s],
           Reach(s)' \in {off[s], PartEnd(s, off[s])}, ok => Reach(s)' = PartEnd(s, off[s]),
           req'[s] = req[s], total'[s] = total[s], armed'[s] = armed[s]
    PROVE  Reached(s)' /\ pc'[s] \in {"failed", "part", "ok"}
<1>1. /\ off[s] \in Nat /\ total[s] \in Nat /\ PartEnd(s, off[s]) \in Nat
      /\ PartEnd(s, off[s]) <= total[s]
  BY PartBounds DEF TypeOK
<1>2. CASE ~ok
  <2>1. pc'[s] = "failed" /\ off'[s] = off[s]
    BY <1>2 DEF Proceed, TypeOK
  <2>2. PartEnd(s, off[s])' = PartEnd(s, off[s])
    BY <2>1 DEF PartEnd, Step
  <2>3. QED
    BY <2>1, <2>2 DEF Reached, Sending
<1>3. CASE ok /\ PartEnd(s, off[s]) < total[s]
  <2>1. pc'[s] = "part" /\ off'[s] = PartEnd(s, off[s])
    BY <1>3 DEF Proceed, TypeOK
  <2>2. QED
    BY <1>1, <1>3, <2>1 DEF Reached, Sending
<1>4. CASE ok /\ ~(PartEnd(s, off[s]) < total[s])
  <2>1. pc'[s] = "ok" /\ off'[s] = PartEnd(s, off[s])
    BY <1>4 DEF Proceed, TypeOK
  <2>2. QED
    BY <1>1, <1>4, <2>1 DEF Reached, Sending
<1>5. QED
  BY <1>2, <1>3, <1>4

\* A send that begins satisfies the invariant of a send.
LEMMA BeginKeeps ==
    ASSUME IInv, NEW s \in Senders, NEW r \in Requests, Begin(s, r)
    PROVE  SendInv(s)'
<1>1. /\ pc[s] = "new" /\ pc'[s] \in {"fetch", "resolve"}
      /\ got'[s] = got[s] /\ off'[s] = off[s] /\ armed'[s] = armed[s]
      /\ tries'[s] = tries[s]
  BY DEF Begin, IInv, TypeOK, gatewayVars
<1>2. got[s] = <<>> /\ off[s] = 0 /\ ~armed[s] /\ tries[s] = 0
  BY <1>1 DEF IInv, SendInv, Reached, UploadInv
<1>3. Chained(s)'
  BY <1>1, <1>2, NothingIsChained
<1>4. QED
  BY <1>1, <1>2, <1>3 DEF SendInv, Reached, UploadInv, Sending

\* A step of a send keeps its own invariant.
LEMMA SendStepKeeps ==
    ASSUME IInv, NEW s \in Senders, SendStep(s)
    PROVE  SendInv(s)'
<1> USE DEF IInv
<1>0. SendInv(s) /\ TypeOK /\ total[s] \in Nat /\ off[s] \in Nat
  BY DEF TypeOK
<1>1. ASSUME NEW ok \in BOOLEAN, Fetch(s, ok) PROVE SendInv(s)'
  <2>1. /\ pc[s] = "fetch" /\ pc'[s] \in {"resolve", "failed"}
        /\ got[s] = <<>> /\ off[s] = 0 /\ ~armed[s] /\ tries[s] = 0
    BY <1>0, <1>1 DEF Fetch, TypeOK, SendInv, Reached, UploadInv
  <2>2. /\ got'[s] = got[s] /\ off'[s] = off[s] /\ armed'[s] = armed[s]
        /\ tries'[s] = tries[s]
    BY <1>1 DEF Fetch, gatewayVars
  <2>3. Chained(s)'
    BY <2>1, <2>2, NothingIsChained
  <2>4. QED
    BY <2>1, <2>2, <2>3 DEF SendInv, Reached, UploadInv, Sending
<1>2. ASSUME NEW left \in 0 .. ChunkRunes * MaxChunks + CutMark, ResolveText(s, left)
      PROVE  SendInv(s)'
  <2>1. /\ pc[s] = "resolve" /\ req[s].kind # "file"
        /\ got[s] = <<>> /\ off[s] = 0 /\ tries[s] = 0
    BY <1>0, <1>2 DEF ResolveText, SendInv, Reached, UploadInv
  <2>2. /\ got'[s] = got[s] /\ off'[s] = off[s] /\ tries'[s] = tries[s]
        /\ req'[s] = req[s] /\ armed'[s] = Tokened(s)
    BY <1>2 DEF ResolveText, TypeOK, gatewayVars
  <2>3. left \in Nat
    BY OutboundAssumption
  <2>4. \/ pc'[s] = "failed" /\ ~Tokened(s)
        \/ pc'[s] = "ok" /\ total'[s] = 0
        \/ pc'[s] = "part" /\ total'[s] = left /\ left # 0 /\ Tokened(s)
    <3>1. CASE Tokened(s)
      BY <1>2, <3>1 DEF ResolveText, TypeOK
    <3>2. CASE ~Tokened(s)
      BY <1>2, <3>2 DEF ResolveText, TypeOK
    <3>3. QED
      BY <3>1, <3>2
  <2>5. Chained(s)' /\ Reach(s)' = 0
    <3>1. First(s)' = 0
      BY <2>1, <2>2 DEF First
    <3>2. QED
      BY <2>1, <2>2, <3>1, NothingIsChained
  <2>6. Reached(s)'
    BY <2>1, <2>2, <2>3, <2>4, <2>5 DEF Reached, Sending
  <2>7. QED
    BY <2>1, <2>2, <2>4, <2>5, <2>6 DEF SendInv, UploadInv, Sending
<1>3. CASE ResolveFile(s)
  <2>1. /\ pc[s] = "resolve" /\ req[s].kind = "file"
        /\ got[s] = <<>> /\ tries[s] = 0
    BY <1>0, <1>3 DEF ResolveFile, SendInv, Reached, UploadInv
  <2>2. /\ got'[s] = got[s] /\ tries'[s] = tries[s]
        /\ req'[s] = req[s] /\ armed'[s] = Tokened(s) /\ total'[s] = 2
        /\ off'[s] = First(s)
    BY <1>3 DEF ResolveFile, TypeOK, gatewayVars
  <2>3. pc'[s] = "url" \/ (pc'[s] = "failed" /\ ~Tokened(s))
    BY <1>3 DEF ResolveFile, TypeOK
  <2>4. First(s)' = First(s)
    BY <2>2 DEF First
  <2>5. Chained(s)' /\ Reach(s)' = First(s)
    BY <2>1, <2>2, <2>4, NothingIsChained
  <2>6. QED
    BY <2>1, <2>2, <2>3, <2>4, <2>5 DEF SendInv, Reached, UploadInv, Sending
<1>4. ASSUME NEW answer \in {"full", "param", "none"}, AskUploadUrl(s, answer)
      PROVE  SendInv(s)'
  <2>1. /\ pc[s] = "url" /\ pc'[s] \in {"cdn", "failed"}
        /\ got'[s] = got[s] /\ off'[s] = off[s] /\ total'[s] = total[s]
        /\ req'[s] = req[s] /\ armed'[s] = armed[s] /\ tries'[s] = tries[s]
    BY <1>4 DEF AskUploadUrl, TypeOK, gatewayVars
  <2>2. /\ req[s].kind = "file" /\ got[s] = <<>> /\ off[s] = First(s) /\ total[s] = 2
        /\ tries[s] = 0
    BY <1>0, <2>1 DEF SendInv, Reached, UploadInv
  <2>3. Chained(s)' /\ Reach(s)' = off'[s] /\ First(s)' = First(s)
    BY <1>0, <2>1, <2>2, ChainKept, NothingIsChained DEF SendInv
  <2>4. QED
    BY <2>1, <2>2, <2>3, OutboundAssumption DEF SendInv, Reached, UploadInv, Sending
<1>5. CASE UploadDone(s) \/ UploadFails(s) \/ UploadRefused(s)
  <2>1. /\ pc[s] = "cdn" /\ tries'[s] = tries[s] + 1
        /\ got'[s] = got[s] /\ off'[s] = off[s] /\ total'[s] = total[s]
        /\ req'[s] = req[s] /\ armed'[s] = armed[s]
    BY <1>5 DEF UploadDone, UploadFails, UploadRefused, UploadStep, TypeOK
  <2>2. /\ req[s].kind = "file" /\ got[s] = <<>> /\ off[s] = First(s) /\ total[s] = 2
       
    BY <1>0, <2>1 DEF SendInv, Reached, UploadInv
  <2>3. First(s) \in {0, 1}
    BY DEF First
  <2>4. Chained(s)' /\ Reach(s)' = off'[s] /\ First(s)' = First(s)
    BY <1>0, <2>1, <2>2, ChainKept, NothingIsChained DEF SendInv
  <2>5. CASE UploadDone(s)
    <3>1. /\ uploaded'[s]
          /\ pc'[s] = IF armed[s] THEN "part" ELSE "failed"
      BY <2>5 DEF UploadDone, TypeOK
    <3>2. QED
      BY <2>1, <2>2, <2>3, <2>4, <3>1 DEF SendInv, Reached, UploadInv, Sending
  <2>6. CASE UploadFails(s)
    <3>1.
          /\ pc'[s] = IF tries[s] + 1 < MaxAttempts THEN "cdn" ELSE "failed"
      BY <2>6 DEF UploadFails, TypeOK
    <3>2. QED
      BY <2>1, <2>2, <2>4, <3>1 DEF SendInv, Reached, UploadInv, Sending
  <2>7. CASE UploadRefused(s)
    <3>1. pc'[s] = "failed"
      BY <2>7 DEF UploadRefused, TypeOK
    <3>2. QED
      BY <2>1, <2>2, <2>4, <3>1 DEF SendInv, Reached, UploadInv, Sending
  <2>8. QED
    BY <1>5, <2>5, <2>6, <2>7
<1>6. CASE ReadTicket(s)
  <2>1. /\ pc[s] = "part" /\ (pc'[s] = "post" \/ (pc'[s] = "start" /\ ticket'[s]))
        /\ got'[s] = got[s] /\ off'[s] = off[s] /\ total'[s] = total[s]
        /\ req'[s] = req[s] /\ armed'[s] = armed[s] /\ tries'[s] = tries[s]
        /\ uploaded'[s] = uploaded[s]
    BY <1>6 DEF ReadTicket, TypeOK, gatewayVars
  <2>2. Chained(s)' /\ Reach(s)' = Reach(s)
    BY <1>0, <2>1, ChainKept DEF SendInv
  <2>3. QED
    BY <1>0, <2>1, <2>2 DEF SendInv, Reached, UploadInv, Sending
<1>7. CASE StartTyping(s)
  <2>1. /\ pc[s] = "start" /\ pc'[s] = "post"
        /\ got'[s] = got[s] /\ off'[s] = off[s] /\ total'[s] = total[s]
        /\ req'[s] = req[s] /\ armed'[s] = armed[s] /\ tries'[s] = tries[s]
        /\ uploaded'[s] = uploaded[s]
    BY <1>7 DEF StartTyping, TypeOK
  <2>2. Chained(s)' /\ Reach(s)' = Reach(s)
    BY <1>0, <2>1, ChainKept DEF SendInv
  <2>3. QED
    BY <1>0, <2>1, <2>2 DEF SendInv, Reached, UploadInv, Sending
<1>8. CASE Post(s)
  <2>1. PICK o \in Outcomes(s) :
            /\ PostEffect(s, o)
            /\ IF ticket[s] THEN pc' = [pc EXCEPT ![s] = "stop"] /\ UNCHANGED off
                            ELSE Proceed(s, o.ok)
    BY <1>8 DEF Post
  <2>2. /\ o.reached \in BOOLEAN /\ o.ok \in BOOLEAN /\ (o.ok => o.reached)
        /\ got'[s] = IF o.reached THEN Append(got[s], Part(s)) ELSE got[s]
        /\ posted'[s] = o.ok
    BY <2>1 DEF Outcomes, PostEffect, TypeOK
  <2>3. /\ pc[s] = "post" /\ total'[s] = total[s] /\ req'[s] = req[s]
        /\ armed'[s] = armed[s] /\ uploaded'[s] = uploaded[s]
    BY <1>8 DEF Post
  <2>4. /\ armed[s] /\ off[s] < total[s] /\ Reach(s) = off[s] /\ Chained(s)
        /\ req[s].kind = "file" => uploaded[s]
    BY <1>0, <2>3 DEF SendInv, Reached, UploadInv, Sending
  <2>5. /\ Chained(s)'
        /\ Reach(s)' = IF o.reached THEN PartEnd(s, off[s]) ELSE off[s]
    <3>1. CASE o.reached
      BY <1>0, <2>2, <2>3, <2>4, <3>1, PartExtendsChain
    <3>2. CASE ~o.reached
      BY <2>2, <2>3, <2>4, <3>2, ChainKept
    <3>3. QED
      BY <3>1, <3>2
  <2>6. CASE ticket[s]
    <3>1. pc'[s] = "stop" /\ off'[s] = off[s] /\ posted'[s] = o.ok
      BY <2>1, <2>2, <2>6 DEF TypeOK
    <3>2. PartEnd(s, off[s])' = PartEnd(s, off[s])
      BY <2>3, <3>1 DEF PartEnd, Step
    <3>3. Reached(s)'
      BY <2>2, <2>3, <2>4, <2>5, <3>1, <3>2 DEF Reached, Sending
    <3>4. QED
      BY <2>3, <2>4, <2>5, <3>1, <3>3 DEF SendInv, UploadInv, Sending
  <2>7. CASE ~ticket[s]
    <3>1. Proceed(s, o.ok)
      BY <2>1, <2>7
    <3>2. Reached(s)' /\ pc'[s] \in {"failed", "part", "ok"}
      BY <1>0, <2>2, <2>3, <2>4, <2>5, <3>1, ProceedReaches
    <3>3. QED
      BY <2>3, <2>4, <2>5, <3>2 DEF SendInv, UploadInv, Sending
  <2>8. QED
    BY <2>6, <2>7
<1>9. CASE StopTyping(s)
  <2>1. /\ pc[s] = "stop" /\ total'[s] = total[s] /\ req'[s] = req[s] /\ got'[s] = got[s]
        /\ armed'[s] = armed[s] /\ uploaded'[s] = uploaded[s]
        /\ Proceed(s, posted[s]) /\ posted[s] \in BOOLEAN
    BY <1>9 DEF StopTyping, TypeOK
  <2>2. /\ armed[s] /\ off[s] < total[s] /\ Chained(s)
        /\ Reach(s) \in {off[s], PartEnd(s, off[s])}
        /\ posted[s] => Reach(s) = PartEnd(s, off[s])
        /\ req[s].kind = "file" => uploaded[s]
    BY <1>0, <2>1 DEF SendInv, Reached, UploadInv, Sending
  <2>3. Chained(s)' /\ Reach(s)' = Reach(s)
    BY <2>1, <2>2, ChainKept
  <2>4. Reached(s)' /\ pc'[s] \in {"failed", "part", "ok"}
    BY <1>0, <2>1, <2>2, <2>3, ProceedReaches
  <2>5. QED
    BY <2>1, <2>2, <2>3, <2>4 DEF SendInv, UploadInv, Sending
<1>10. QED
  BY <1>1, <1>2, <1>3, <1>4, <1>5, <1>6, <1>7, <1>8, <1>9 DEF SendStep

\* A message that arrives late is the one at which its send gave up.
LEMMA LatePostKeeps ==
    ASSUME IInv, NEW call \in late, LatePost(call)
    PROVE  SendInv(call.by)' /\ \A c \in late' : c.what = "post" => c.by # call.by
<1> DEFINE s == call.by
<1>0. /\ s \in Senders /\ TypeOK /\ SendInv(s) /\ LateInv(call) /\ call.what = "post"
      /\ pc[s] # "new"
  BY DEF IInv, TypeOK, LatePost
<1>1. /\ call.at = off[s] /\ pc[s] \in {"stop", "failed"} /\ ~posted[s]
      /\ armed[s] /\ off[s] < total[s] /\ Reach(s) = off[s]
      /\ req[s].kind = "file" => uploaded[s]
  BY <1>0 DEF LateInv
<1>2. /\ pc' = pc /\ req' = req /\ armed' = armed /\ total' = total /\ off' = off
      /\ ticket' = ticket /\ posted' = posted /\ tries' = tries /\ uploaded' = uploaded
      /\ late' = late \ {call}
      /\ got'[s] = Append(got[s], Part(s))
  BY <1>0, <1>1 DEF LatePost, Part, sendVars, TypeOK
<1>3. Chained(s)' /\ Reach(s)' = PartEnd(s, off[s])
  BY <1>0, <1>1, <1>2, PartExtendsChain DEF SendInv
<1>4. PartEnd(s, off[s])' = PartEnd(s, off[s])
  BY <1>2 DEF PartEnd, Step
<1>5. Reached(s)'
  BY <1>1, <1>2, <1>3, <1>4 DEF Reached, Sending
<1>6. SendInv(s)'
  BY <1>0, <1>1, <1>2, <1>3, <1>5 DEF SendInv, UploadInv, Sending
<1>7. ASSUME NEW c \in late', c.what = "post" PROVE c.by # s
  <2>1. c \in LateCalls /\ call \in LateCalls /\ c \in late /\ c # call
    BY <1>0, <1>2 DEF TypeOK, LateCalls
  <2>2. c.by = s => c.at = off[s]
    BY <1>7, <2>1 DEF IInv, LateInv
  <2>3. QED
    BY <1>0, <1>1, <1>7, <2>1, <2>2 DEF LateCalls
<1>8. QED
  BY <1>6, <1>7

\* A late call stays true of its send while the send does not move.
LEMMA LateUntouched ==
    ASSUME NEW call, call.by \in Senders, LateInv(call), Own(call.by)' = Own(call.by)
    PROVE  LateInv(call)'
<1> DEFINE s == call.by
<1>1. /\ pc'[s] = pc[s] /\ req'[s] = req[s] /\ armed'[s] = armed[s] /\ total'[s] = total[s]
      /\ off'[s] = off[s] /\ posted'[s] = posted[s] /\ got'[s] = got[s]
      /\ uploaded'[s] = uploaded[s]
  BY DEF Own
<1>2. Reach(s)' = Reach(s)
  BY <1>1 DEF Reach, First
<1>3. QED
  BY <1>1, <1>2 DEF LateInv

\* A step of a send leaves what it says of its late calls true.
LEMMA LateOfMover ==
    ASSUME IInv, NEW s \in Senders, SendStep(s) \/ (\E r \in Requests : Begin(s, r)),
           NEW call \in late', call.by = s
    PROVE  LateInv(call)'
<1> SUFFICES ASSUME call.what = "post" PROVE LateInv(call)'
  BY DEF LateInv
<1>0. TypeOK /\ SendInv(s)
  BY DEF IInv
<1>1. CASE call \in late
  <2>1. /\ call.at = off[s] /\ pc[s] \in {"stop", "failed"} /\ ~posted[s]
        /\ armed[s] /\ off[s] < total[s] /\ Reach(s) = off[s]
        /\ req[s].kind = "file" => uploaded[s]
    BY <1>1 DEF IInv, LateInv
  <2>2. StopTyping(s)
    BY <2>1
    DEF Begin, SendStep, Fetch, ResolveText, ResolveFile, AskUploadUrl, UploadDone,
        UploadFails, UploadRefused, UploadStep, ReadTicket, StartTyping, Post
  <2>3. /\ req'[s] = req[s] /\ armed'[s] = armed[s] /\ total'[s] = total[s]
        /\ posted'[s] = posted[s] /\ got'[s] = got[s] /\ uploaded'[s] = uploaded[s]
        /\ Proceed(s, posted[s])
    BY <2>2 DEF StopTyping
  <2>4. pc'[s] = "failed" /\ off'[s] = off[s]
    BY <1>0, <2>1, <2>3 DEF Proceed, TypeOK
  <2>5. Reach(s)' = Reach(s)
    BY <2>3 DEF Reach, First
  <2>6. QED
    BY <2>1, <2>3, <2>4, <2>5 DEF LateInv
<1>2. CASE call \notin late
  <2>1. PICK what \in {"start", "post", "stop"}, o \in Outcomes(s) :
            /\ GiveUp(s, what, o)
            /\ what = "post" => Post(s) /\ PostEffect(s, o)
            /\ what = "post" => IF ticket[s] THEN pc' = [pc EXCEPT ![s] = "stop"] /\ UNCHANGED off
                                             ELSE Proceed(s, o.ok)
    BY <1>2
    DEF Begin, SendStep, Fetch, ResolveText, ResolveFile, AskUploadUrl, UploadDone,
        UploadFails, UploadRefused, UploadStep, ReadTicket, StartTyping, Post, StopTyping,
        PostEffect, gatewayVars
  <2>2. call = CallOf(s, what) /\ call.what = what /\ call.at = off[s] /\ o.late
    <3>1. call = CallOf(s, what) /\ o.late
      BY <1>0, <1>2, <2>1 DEF GiveUp
    <3>2. QED
      BY <1>0, <2>1, <3>1, GivenUp
  <2>3. Post(s) /\ PostEffect(s, o) /\ ~o.reached /\ o.ok = FALSE
    BY <2>1, <2>2 DEF Outcomes
  <2>4. /\ pc[s] = "post" /\ req'[s] = req[s] /\ armed'[s] = armed[s] /\ total'[s] = total[s]
        /\ posted'[s] = FALSE /\ got'[s] = got[s] /\ uploaded'[s] = uploaded[s]
    BY <1>0, <2>3 DEF Post, PostEffect, TypeOK
  <2>5. /\ armed[s] /\ off[s] < total[s] /\ Reach(s) = off[s]
        /\ req[s].kind = "file" => uploaded[s]
    BY <1>0, <2>4 DEF SendInv, Reached, UploadInv, Sending
  <2>6. pc'[s] \in {"stop", "failed"} /\ off'[s] = off[s]
    BY <1>0, <2>1, <2>2, <2>3 DEF Proceed, TypeOK
  <2>7. Reach(s)' = Reach(s)
    BY <2>4 DEF Reach, First
  <2>8. QED
    BY <2>2, <2>4, <2>5, <2>6, <2>7 DEF LateInv
<1>3. QED
  BY <1>1, <1>2

\* Only the send that moves gives calls up.
LEMMA LateOfOthers ==
    ASSUME IInv, NEW s \in Senders, SendStep(s) \/ (\E r \in Requests : Begin(s, r)),
           NEW call \in late', call.by # s
    PROVE  call \in late
<1>1. CASE UNCHANGED late
  BY <1>1
<1>2. CASE ~UNCHANGED late
  <2>1. PICK what \in {"start", "post", "stop"}, o \in Outcomes(s) : GiveUp(s, what, o)
    BY <1>2
    DEF Begin, SendStep, Fetch, ResolveText, ResolveFile, AskUploadUrl, UploadDone,
        UploadFails, UploadRefused, UploadStep, ReadTicket, StartTyping, Post, StopTyping,
        PostEffect, gatewayVars
  <2>2. QED
    BY <2>1, GivenUp DEF IInv
<1>3. QED
  BY <1>1, <1>2

\* So every message under way stays the last of its send.
LEMMA LateStep ==
    ASSUME IInv, [Next]_vars, NEW call \in late'
    PROVE  LateInv(call)'
<1>0. TypeOK /\ \A c \in late : LateInv(c) /\ c.by \in Senders
  BY DEF IInv, TypeOK
<1>1. CASE (\E again \in BOOLEAN : EndRun(again))
           \/ (\E p \in Peers : LearnToken(p) \/ LearnTicket(p)) \/ UNCHANGED vars
  <2>1. call \in late /\ Own(call.by)' = Own(call.by)
    BY <1>1 DEF EndRun, LearnToken, LearnTicket, Own, vars, sendVars, gatewayVars
  <2>2. QED
    BY <1>0, <2>1, LateUntouched
<1>2. ASSUME NEW s \in Senders, SendStep(s) \/ (\E r \in Requests : Begin(s, r))
      PROVE  LateInv(call)'
  <2>1. CASE call.by = s
    BY <1>2, <2>1, LateOfMover
  <2>2. CASE call.by # s
    <3>1. call \in late
      BY <1>2, <2>2, LateOfOthers
    <3>2. Own(call.by)' = Own(call.by)
      BY <1>0, <1>2, <2>2, <3>1, OthersUntouched
    <3>3. QED
      BY <1>0, <3>1, <3>2, LateUntouched
  <2>3. QED
    BY <2>1, <2>2
<1>3. ASSUME NEW c \in late, LateStart(c) \/ LateStop(c) PROVE LateInv(call)'
  <2>1. call \in late /\ Own(call.by)' = Own(call.by)
    BY <1>3 DEF LateStart, LateStop, Own, sendVars
  <2>2. QED
    BY <1>0, <2>1, LateUntouched
<1>4. ASSUME NEW c \in late, LatePost(c) PROVE LateInv(call)'
  <2>1. call \in late /\ (call.what = "post" => call.by # c.by)
    BY <1>4, LatePostKeeps DEF LatePost
  <2>2. call.by # c.by => Own(call.by)' = Own(call.by)
    BY <1>0, <1>4 DEF LatePost, Own, sendVars, TypeOK
  <2>3. call.what # "post" => LateInv(call)'
    BY DEF LateInv
  <2>4. QED
    BY <1>0, <2>1, <2>2, <2>3, LateUntouched
<1>5. QED
  BY <1>1, <1>2, <1>3, <1>4 DEF Next

-----------------------------------------------------------------------------
(* The typing indicator *)

\* A send that has switched the indicator on and not yet off.
Wraps(s, p) == pc[s] \in {"post", "stop"} /\ ticket[s] /\ req[s].peer = p

\* Only the call that switches the indicator off ends a wrap.
LEMMA WrapsStay ==
    ASSUME IInv, NEW s \in Senders, NEW t \in Senders, NEW p, Wraps(t, p),
           SendStep(s) \/ (\E r \in Requests : Begin(s, r)), ~StopTyping(s)
    PROVE  Wraps(t, p)'
<1>1. CASE t # s
  BY <1>1, OthersUntouched DEF IInv, Own, Wraps
<1>2. CASE t = s
  <2>1. Post(s)
    BY <1>2
    DEF Wraps, Begin, SendStep, Fetch, ResolveText, ResolveFile, AskUploadUrl, UploadDone,
        UploadFails, UploadRefused, UploadStep, ReadTicket, StartTyping
  <2>2. pc'[s] = "stop" /\ ticket'[s] = ticket[s] /\ req'[s] = req[s]
    BY <1>2, <2>1 DEF Post, Wraps, IInv, TypeOK
  <2>3. QED
    BY <1>2, <2>2 DEF Wraps
<1>3. QED
  BY <1>1, <1>2

\* Every step leaves the typing indicator to end.
LEMMA TypingStep == IInv /\ [Next]_vars => TypingEnds'
<1> SUFFICES ASSUME IInv, [Next]_vars, NEW p \in typing'
             PROVE  p \in stopFailed' \cup stray' \/ \E s \in Senders : Wraps(s, p)'
  BY DEF TypingEnds, Wraps
<1>1. p \in typing => p \in stopFailed \cup stray \/ \E s \in Senders : Wraps(s, p)
  BY DEF IInv, TypingEnds, Wraps
<1>2. CASE UNCHANGED <<typing, stopFailed, stray, pc, ticket, req>>
  BY <1>1, <1>2 DEF Wraps
<1>3. ASSUME NEW s \in Senders, SendStep(s) \/ (\E r \in Requests : Begin(s, r)),
             ~StopTyping(s), ~StartTyping(s)
      PROVE  p \in stopFailed' \cup stray' \/ \E t \in Senders : Wraps(t, p)'
  <2>1. typing' = typing /\ stopFailed' = stopFailed /\ stray' = stray
    BY <1>3
    DEF Begin, SendStep, Fetch, ResolveText, ResolveFile, AskUploadUrl, UploadDone,
        UploadFails, UploadRefused, UploadStep, ReadTicket, Post, gatewayVars
  <2>2. QED
    BY <1>1, <1>3, <2>1, WrapsStay
<1>4. ASSUME NEW s \in Senders, StartTyping(s)
      PROVE  p \in stopFailed' \cup stray' \/ \E t \in Senders : Wraps(t, p)'
  <2>1. stopFailed' = stopFailed /\ stray' = stray /\ (p \in typing \/ p = req[s].peer)
    BY <1>4 DEF StartTyping
  <2>2. p = req[s].peer => Wraps(s, p)'
    <3>1. pc[s] = "start" /\ ticket[s]
      BY <1>4 DEF StartTyping, IInv, SendInv
    <3>2. pc'[s] = "post" /\ ticket'[s] = ticket[s] /\ req'[s] = req[s]
      BY <1>4 DEF StartTyping, IInv, TypeOK
    <3>3. QED
      BY <3>1, <3>2 DEF Wraps
  <2>3. SendStep(s) /\ ~StopTyping(s)
    BY <1>4 DEF SendStep, StartTyping, StopTyping
  <2>4. \A t \in Senders : Wraps(t, p) => Wraps(t, p)'
    BY <2>3, WrapsStay
  <2>5. QED
    BY <1>1, <2>1, <2>2, <2>4
<1>5. ASSUME NEW s \in Senders, StopTyping(s)
      PROVE  p \in stopFailed' \cup stray' \/ \E t \in Senders : Wraps(t, p)'
  <2>1. PICK o \in Outcomes(s) :
            /\ typing' = IF o.reached THEN typing \ {req[s].peer} ELSE typing
            /\ stray' = IF o.reached THEN stray \ {req[s].peer} ELSE stray
            /\ stopFailed' = IF o.ok THEN stopFailed \ {req[s].peer}
                                     ELSE stopFailed \cup {req[s].peer}
    BY <1>5 DEF StopTyping
  <2>2. o.ok => o.reached
    BY <2>1 DEF Outcomes
  <2>3. CASE p = req[s].peer
    BY <2>1, <2>2, <2>3
  <2>4. CASE p # req[s].peer
    <3>1. p \in typing /\ (p \in stopFailed \cup stray => p \in stopFailed' \cup stray')
      BY <2>1, <2>4
    <3>2. ASSUME NEW t \in Senders, Wraps(t, p) PROVE Wraps(t, p)'
      <4>1. t # s
        BY <2>4, <3>2 DEF Wraps
      <4>2. SendStep(s)
        BY <1>5 DEF SendStep
      <4>3. QED
        BY <3>2, <4>1, <4>2, OthersUntouched DEF IInv, Own, Wraps
    <3>3. QED
      BY <1>1, <3>1, <3>2
  <2>5. QED
    BY <2>3, <2>4
<1>6. CASE (\E again \in BOOLEAN : EndRun(again)) \/ (\E q \in Peers : LearnToken(q) \/ LearnTicket(q))
           \/ UNCHANGED vars
  BY <1>2, <1>6 DEF EndRun, LearnToken, LearnTicket, vars, sendVars, gatewayVars
<1>7. ASSUME NEW call \in late, LatePost(call) \/ LateStart(call) \/ LateStop(call)
      PROVE  p \in stopFailed' \cup stray' \/ \E t \in Senders : Wraps(t, p)'
  <2>1. \A t \in Senders : Wraps(t, p)' = Wraps(t, p)
    BY <1>7 DEF LatePost, LateStart, LateStop, Wraps, sendVars
  <2>2. CASE LatePost(call)
    BY <1>1, <2>1, <2>2 DEF LatePost
  <2>3. CASE LateStart(call)
    BY <1>1, <2>1, <2>3 DEF LateStart
  <2>4. CASE LateStop(call)
    BY <1>1, <2>1, <2>4 DEF LateStop
  <2>5. QED
    BY <1>7, <2>2, <2>3, <2>4
<1>8. QED
  BY <1>3, <1>4, <1>5, <1>6, <1>7 DEF Next

-----------------------------------------------------------------------------
(* The invariant and what it says *)

\* The invariant of all sends and the indicator always holds.
THEOREM Inductive == Spec => []IInv
<1>1. Init => IInv
  <2> SUFFICES ASSUME Init PROVE IInv
    OBVIOUS
  <2>1. TypeOK
    BY OutboundAssumption DEF Init, TypeOK, Places
  <2>2. ASSUME NEW s \in Senders PROVE SendInv(s)
    BY <2>2 DEF Init, SendInv, Chained, Reached, UploadInv, Sending
  <2>3. TypingEnds
    BY DEF Init, TypingEnds
  <2>4. late = {}
    BY DEF Init
  <2>5. QED
    BY <2>1, <2>2, <2>3, <2>4 DEF IInv
<1>2. IInv /\ [Next]_vars => IInv'
  <2> SUFFICES ASSUME IInv, [Next]_vars PROVE IInv'
    OBVIOUS
  <2>1. TypeOK' /\ TypingEnds'
    BY TypeStep, TypingStep
  <2>2. ASSUME NEW s \in Senders PROVE SendInv(s)'
    <3>1. SendInv(s) /\ TypeOK
      BY DEF IInv
    <3>2. CASE (\E again \in BOOLEAN : EndRun(again))
               \/ (\E p \in Peers : LearnToken(p) \/ LearnTicket(p)) \/ UNCHANGED vars
      <4>1. Own(s)' = Own(s)
        BY <3>2 DEF EndRun, LearnToken, LearnTicket, Own, vars, sendVars, gatewayVars
      <4>2. QED
        BY <3>1, <4>1, UntouchedKeeps
    <3>3. ASSUME NEW t \in Senders, SendStep(t) \/ (\E r \in Requests : Begin(t, r))
          PROVE  SendInv(s)'
      <4>1. CASE s = t
        BY <3>3, <4>1, BeginKeeps, SendStepKeeps
      <4>2. CASE s # t
        <5>1. Own(s)' = Own(s)
          BY <3>1, <3>3, <4>2, OthersUntouched
        <5>2. QED
          BY <3>1, <5>1, UntouchedKeeps
      <4>3. QED
        BY <4>1, <4>2
    <3>4. ASSUME NEW call \in late, LatePost(call) \/ LateStart(call) \/ LateStop(call)
          PROVE  SendInv(s)'
      <4>1. CASE LatePost(call) /\ call.by = s
        BY <4>1, LatePostKeeps
      <4>2. CASE ~(LatePost(call) /\ call.by = s)
        <5>1. Own(s)' = Own(s)
          BY <3>1, <3>4, <4>2 DEF LatePost, LateStart, LateStop, Own, sendVars, TypeOK
        <5>2. QED
          BY <3>1, <5>1, UntouchedKeeps
      <4>3. QED
        BY <4>1, <4>2
    <3>5. QED
      BY <3>2, <3>3, <3>4 DEF Next
  <2>3. \A call \in late' : LateInv(call)'
    BY LateStep
  <2>4. QED
    BY <2>1, <2>2, <2>3 DEF IInv
<1>3. QED
  BY <1>1, <1>2, PTL DEF Spec

\* Every variable keeps its type, and no upload is tried more often than the
\* limit says (the loop of uploadBufferToCdn).
THEOREM TypeCorrect == Spec => []TypeOK
<1>1. IInv => TypeOK
  BY DEF IInv
<1>2. QED
  BY <1>1, Inductive, PTL

\* What reached a user of a send is a prefix of it, each part once and in order
\* (sendPlainTextChunks and the messages of a file).
THEOREM DeliveredIsPrefixHolds == Spec => []DeliveredIsPrefix
<1>1. IInv => DeliveredIsPrefix
  <2> SUFFICES ASSUME IInv, NEW s \in Senders, pc[s] # "new"
               PROVE  /\ Chained(s)
                      /\ pc[s] \notin {"fetch", "resolve"} /\ armed[s]
                             => Reach(s) \in {off[s], PartEnd(s, off[s])}
    BY DEF DeliveredIsPrefix, Chained
  <2>1. Chained(s) /\ Reached(s) /\ pc[s] \in Places
    BY DEF IInv, SendInv, TypeOK
  <2>2. CASE pc[s] \in {"url", "cdn"}
    <3>1. got[s] = <<>> /\ off[s] = First(s)
      BY <2>1, <2>2 DEF Reached
    <3>2. Reach(s) = off[s]
      BY <3>1 DEF Reach
    <3>3. QED
      BY <2>1, <3>2
  <2>3. CASE pc[s] = "ok"
    BY <2>1, <2>3 DEF Reached
  <2>4. CASE pc[s] \in Sending \cup {"stop", "failed"}
    BY <2>1, <2>4 DEF Reached, Sending
  <2>5. QED
    BY <2>1, <2>2, <2>3, <2>4 DEF Places, Ended, Sending
<1>2. QED
  BY <1>1, Inductive, PTL

\* A send that reports success reached the user in whole.
THEOREM OkMeansAllHolds == Spec => []OkMeansAll
<1>1. IInv => OkMeansAll
  BY DEF IInv, SendInv, Reached, OkMeansAll
<1>2. QED
  BY <1>1, Inductive, PTL

\* No message of a file precedes its upload (sendWeixinFilePayload).
THEOREM CaptionNeedsUploadHolds == Spec => []CaptionNeedsUpload
<1>1. IInv => CaptionNeedsUpload
  BY DEF IInv, SendInv, UploadInv, CaptionNeedsUpload
<1>2. QED
  BY <1>1, Inductive, PTL

\* The typing indicator of a user is on only during a message to him, after a
\* failed call to switch it off, or after a call to switch it on that came when
\* its caller had given up (sendMessageAPI).
THEOREM TypingEndsHolds == Spec => []TypingEnds
<1>1. IInv => TypingEnds
  BY DEF IInv
<1>2. QED
  BY <1>1, Inductive, PTL

-----------------------------------------------------------------------------
(* The padding of media *)

\* The padding fills the last block and is never empty (cdn_upload.go:55), so
\* its length fits a byte and the check of the download accepts it.
LEMMA PaddingFills ==
    ASSUME NEW n \in Nat
    PROVE  /\ Padding(n) \in 1 .. BlockSize
           /\ WholeBlocks(n + Padding(n))
<1> DEFINE q == n \div 16  r == n % 16
<1>1. /\ q \in Nat /\ r \in 0 .. 15
      /\ n = 16 * q + r
  BY Z3
<1>2. n + Padding(n) = 16 * (q + 1)
  BY <1>1 DEF Padding, BlockSize
<1>3. (16 * (q + 1)) % 16 = 0
  BY <1>1, Z3
<1> QED
  BY <1>1, <1>2, <1>3 DEF Padding, BlockSize, WholeBlocks

\* The size announced to the gateway is the size of what is uploaded, whatever
\* the file: the ciphertext is as long as the padded file, in whole blocks, as
\* the download requires.
THEOREM AnnouncedSizeIsUploaded ==
    ASSUME NEW data \in Seq(Byte)
    PROVE  /\ pkcs7Pad(data) \in Seq(Byte)
           /\ Len(pkcs7Pad(data)) = aesEcbPaddedSize(Len(data))
           /\ WholeBlocks(Len(pkcs7Pad(data)))
<1> DEFINE n == Len(data)
<1>1. n \in Nat /\ DOMAIN data = 1 .. n /\ \A i \in 1 .. n : data[i] \in Byte
  OBVIOUS
<1>2. /\ Padding(n) \in 1 .. 16
      /\ WholeBlocks(n + Padding(n))
  BY <1>1, PaddingFills DEF BlockSize
<1>3. /\ n + Padding(n) \in Nat
      /\ \A i \in 1 .. n + Padding(n) :
           (IF i <= n THEN data[i] ELSE Padding(n)) \in Byte
  <2>1. Padding(n) \in Byte /\ n + Padding(n) \in Nat
    BY <1>1, <1>2 DEF Byte
  <2>2. \A i \in 1 .. n + Padding(n) : i <= n => i \in 1 .. n
    BY <1>1, <2>1
  <2>3. QED
    BY <1>1, <2>1, <2>2
<1>4. pkcs7Pad(data) \in Seq(Byte) /\ Len(pkcs7Pad(data)) = n + Padding(n)
  BY <1>3 DEF pkcs7Pad
<1> QED
  BY <1>2, <1>4 DEF aesEcbPaddedSize

\* A file padded for the upload is the file again after the download, also an
\* empty one, one of whole blocks and one that ends in bytes that look like
\* padding.
THEOREM PaddingRoundTrip ==
    ASSUME NEW data \in Seq(Byte)
    PROVE  pkcs7Unpad(pkcs7Pad(data)) = data
<1> DEFINE n == Len(data)
           k == Padding(n)
           padded == pkcs7Pad(data)
<1>1. n \in Nat /\ data = [i \in 1 .. n |-> data[i]]
  OBVIOUS
<1>2. k \in 1 .. 16
  BY <1>1, PaddingFills DEF BlockSize
<1>3. Len(padded) = n + k
  BY AnnouncedSizeIsUploaded DEF aesEcbPaddedSize
<1>4. \A i \in 1 .. n + k : padded[i] = IF i <= n THEN data[i] ELSE k
  BY DEF pkcs7Pad
<1> HIDE DEF n, k, padded
<1>5. padded[n + k] = k
  <2>1. n + k \in 1 .. n + k /\ ~(n + k <= n)
    BY <1>1, <1>2, SMTT(20)
  <2>2. QED
    BY <1>4, <2>1
<1>6. \A i \in n + 1 .. n + k : padded[i] = k
  BY <1>1, <1>2, <1>4
<1>7. ValidPadding(padded)
  <2>1. (n + k) - k + 1 = n + 1 /\ n + k # 0 /\ k <= n + k
    BY <1>1, <1>2, SMTT(20)
  <2> QED
    BY <1>2, <1>3, <1>5, <1>6, <2>1 DEF ValidPadding, BlockSize
<1>8. pkcs7Unpad(padded) = [i \in 1 .. n |-> padded[i]]
  <2>1. (n + k) - k = n
    BY <1>1, <1>2
  <2> QED
    BY <1>3, <1>5, <1>7, <2>1 DEF pkcs7Unpad
<1>9. [i \in 1 .. n |-> padded[i]] = [i \in 1 .. n |-> data[i]]
  <2>1. \A i \in 1 .. n : i \in 1 .. n + k /\ i <= n
    BY <1>1, <1>2
  <2>2. QED
    BY <1>4, <2>1
<1> QED
  BY <1>1, <1>8, <1>9 DEF padded
=============================================================================
