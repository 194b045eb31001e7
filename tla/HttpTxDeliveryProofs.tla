------------------------ MODULE HttpTxDeliveryProofs -----------------------
(* What HttpTxQueue promises to the clients and to the ESP32, for every    *)
(* number of channels and every length of a response.  Both promises rest  *)
(* on the order in which lines arrive and are served:                      *)
(*   - Links: as long as a channel is not reused before its CLOSED line is *)
(*     read, an unread CLOSED line speaks of a link that is closed;        *)
(*   - Delivery: in a timely environment a prompt is unread exactly while  *)
(*     the ESP32 waits for the bytes it announces, a CLOSED line for the   *)
(*     same channel is served after it, and so the plan is still there.    *)
EXTENDS HttpTxQueueProofs, SequenceTheorems, WellFoundedInduction

Says(q, l) == \E i \in DOMAIN q : q[i] = l
Hears(l) == Says(batch, l) \/ Says(ring, l)

ClosedLine(c) == [line |-> "closed", chan |-> c]
Prompt == [line |-> "prompt"]

Links == \A c \in Channels : Hears(ClosedLine(c)) => link[c] = "closed"

LEMMA SaysFacts ==
  ASSUME NEW q \in Seq(Lines)
  PROVE  /\ \A m : ~Says(<<>>, m)
         /\ \A l \in Lines : \A m : Says(Append(q, l), m) <=> (Says(q, m) \/ m = l)
         /\ q # <<>> => \A m : Says(Front(q), m) => Says(q, m)
         /\ \A i \in DOMAIN q : \A m :
              /\ Says(RemoveAt(q, i), m) => Says(q, m)
              /\ Says(q, m) /\ q[i] # m => Says(RemoveAt(q, i), m)
<1>1. \A m : ~Says(<<>>, m)
  BY DEF Says
<1>2. ASSUME NEW l \in Lines, NEW m
      PROVE  Says(Append(q, l), m) <=> (Says(q, m) \/ m = l)
  <2>1. /\ Append(q, l) \in Seq(Lines) /\ Len(Append(q, l)) = Len(q) + 1
        /\ Append(q, l)[Len(q) + 1] = l
        /\ \A i \in 1..Len(q) : Append(q, l)[i] = q[i]
    OBVIOUS
  <2>2. DOMAIN Append(q, l) = 1..(Len(q) + 1) /\ DOMAIN q = 1..Len(q) /\ Len(q) \in Nat
    BY <2>1
  <2>3. DOMAIN Append(q, l) = DOMAIN q \cup {Len(q) + 1}
    BY <2>2
  <2> QED BY <2>1, <2>2, <2>3, Zenon DEF Says
<1>3. ASSUME q # <<>>, NEW m, Says(Front(q), m) PROVE Says(q, m)
  BY <1>3 DEF Says, Front
<1>4. ASSUME NEW i \in DOMAIN q, NEW m
      PROVE  /\ Says(RemoveAt(q, i), m) => Says(q, m)
             /\ Says(q, m) /\ q[i] # m => Says(RemoveAt(q, i), m)
  <2> DEFINE r == RemoveAt(q, i)
  <2>1. /\ r \in Seq(Lines) /\ Len(r) = Len(q) - 1
        /\ \A j \in 1..Len(r) : r[j] = IF j < i THEN q[j] ELSE q[j + 1]
    <3> DEFINE a == SubSeq(q, 1, i - 1)
               b == SubSeq(q, i + 1, Len(q))
    <3>1. i \in 1..Len(q) /\ Len(q) \in Nat
      OBVIOUS
    <3>2. a \in Seq(Lines) /\ Len(a) = i - 1 /\ \A j \in 1..(i - 1) : a[j] = q[j]
      BY <3>1
    <3>3. /\ b \in Seq(Lines) /\ Len(b) = Len(q) - i
          /\ \A j \in 1..(Len(q) - i) : b[j] = q[i + j]
      BY <3>1
    <3> HIDE DEF a, b
    <3>4. r = a \o b
      BY DEF RemoveAt, a, b
    <3> HIDE DEF r
    <3>5. a \in Seq(Lines) /\ b \in Seq(Lines)
      BY <3>2, <3>3
    <3>6. /\ a \o b \in Seq(Lines) /\ Len(a \o b) = Len(a) + Len(b)
          /\ \A j \in 1..Len(a) + Len(b) :
               (a \o b)[j] = IF j <= Len(a) THEN a[j] ELSE b[j - Len(a)]
      BY <3>5, ConcatProperties, Zenon
    <3>7. r \in Seq(Lines) /\ Len(r) = Len(q) - 1
      BY <3>1, <3>2, <3>3, <3>4, <3>6
    <3>8. ASSUME NEW j \in 1..Len(r)
          PROVE  r[j] = IF j < i THEN q[j] ELSE q[j + 1]
      <4>1. r[j] = IF j <= i - 1 THEN a[j] ELSE b[j - (i - 1)]
        BY <3>2, <3>4, <3>6
      <4>2. CASE j < i
        BY <3>1, <3>2, <3>7, <4>1, <4>2
      <4>3. CASE ~(j < i)
        <5>1. j - (i - 1) \in 1..(Len(q) - i) /\ i + (j - (i - 1)) = j + 1
          BY <3>1, <3>7, <4>3
        <5>2. b[j - (i - 1)] = q[j + 1]
          BY <3>3, <5>1
        <5> QED BY <3>1, <3>7, <4>1, <4>3, <5>2
      <4> QED BY <4>2, <4>3
    <3> QED BY <3>7, <3>8
  <2>2. /\ DOMAIN r = 1..Len(r) /\ DOMAIN q = 1..Len(q)
        /\ Len(q) \in Nat /\ i \in 1..Len(q)
    BY <2>1
  <2> HIDE DEF r
  <2>3. \A j \in DOMAIN r : \E k \in DOMAIN q : r[j] = q[k]
    <3> TAKE j \in DOMAIN r
    <3>1. CASE j < i
      BY <2>1, <2>2, <3>1
    <3>2. CASE ~(j < i)
      <4>1. j + 1 \in DOMAIN q /\ r[j] = q[j + 1]
        BY <2>1, <2>2, <3>2
      <4> QED BY <4>1
    <3> QED BY <3>1, <3>2
  <2>4. \A k \in DOMAIN q : k # i => \E j \in DOMAIN r : r[j] = q[k]
    <3> SUFFICES ASSUME NEW k \in DOMAIN q, k # i
                 PROVE  \E j \in DOMAIN r : r[j] = q[k]
      OBVIOUS
    <3>1. CASE k < i
      BY <2>1, <2>2, <3>1
    <3>2. CASE ~(k < i)
      <4>1. k - 1 \in DOMAIN r /\ ~(k - 1 < i) /\ (k - 1) + 1 = k
        BY <2>1, <2>2, <3>2
      <4>2. r[k - 1] = q[(k - 1) + 1]
        BY <2>1, <2>2, <4>1
      <4> QED BY <4>1, <4>2
    <3> QED BY <3>1, <3>2
  <2> QED BY <2>3, <2>4, Zenon DEF Says, r
<1> QED BY <1>1, <1>2, <1>3, <1>4

-----------------------------------------------------------------------------
(* Where lines come from.                                                  *)

(* The WiFi task reads lines and drops them, it invents none.              *)
LEMMA LoopHearsNothingNew ==
  ASSUME IInv, Loop
  PROVE  UNCHANGED link /\ \A l : Hears(l)' => Hears(l)
<1>1. batch \in Seq(Lines) /\ ring \in Seq(Lines)
  BY DEF IInv, RestTyped
<1>2. CASE TakeBatch
  <2>1. ring' = <<>> /\ UNCHANGED link
    BY <1>2 DEF TakeBatch, env
  <2>2. \A l : Says(batch', l) => Says(ring, l)
    BY <1>1, <1>2, SaysFacts DEF TakeBatch
  <2> QED BY <1>1, <2>1, <2>2, SaysFacts DEF Hears
<1>3. CASE HandleTarget
  <2>1. PICK k \in FirstOf("get") : batch' = RemoveAt(batch, k)
    BY <1>3 DEF HandleTarget
  <2>2. k \in DOMAIN batch
    BY <2>1 DEF FirstOf
  <2>3. UNCHANGED <<ring, link>>
    BY <1>3 DEF HandleTarget, env
  <2> QED BY <1>1, <2>1, <2>2, <2>3, SaysFacts DEF Hears
<1>4. CASE UNCHANGED <<ring, link>> /\ (batch' = <<>> \/ batch' = batch)
  BY <1>1, <1>4, SaysFacts DEF Hears
<1>5. ApplyReset \/ WaitExpires \/ RequestsDone \/ StartSend \/ NoPayload
        \/ ClosedPending \/ ClosedOther \/ NoneClosed \/ NoneExpired
        \/ (\E S \in SUBSET Slots : ExpireIdleSlots(S))
      => UNCHANGED <<ring, link, batch>>
  BY DEF ApplyReset, WaitExpires, RequestsDone, StartSend, NoPayload, ClosedPending,
         ClosedOther, NoneClosed, NoneExpired, ExpireIdleSlots, env
<1>6. SendAcknowledged \/ NotAcknowledged => UNCHANGED <<ring, link>> /\ batch' = <<>>
  BY DEF SendAcknowledged, NotAcknowledged, env
<1>7. SendPayload => UNCHANGED <<ring, link>> /\ (batch' = <<>> \/ batch' = batch)
  BY DEF SendPayload
<1> QED BY <1>2, <1>3, <1>4, <1>5, <1>6, <1>7 DEF Loop

(* A line that arrives is heard from then on; nothing else changes.        *)
LEMMA ReceiveHears ==
  ASSUME IInv, NEW l \in Lines, Receive(l), UNCHANGED batch
  PROVE  /\ \A m : Hears(m)' <=> (Hears(m) \/ m = l)
         /\ \A m : Says(ring', m) <=> (Says(ring, m) \/ m = l)
BY SaysFacts DEF IInv, RestTyped, Receive, Hears

LEMMA LineKinds ==
  ASSUME NEW c \in Channels
  PROVE  /\ ClosedLine(c) \in Lines
         /\ ClosedLine(c) # Prompt /\ ClosedLine(c) # [line |-> "sendok"]
         /\ \A d \in Channels : ClosedLine(c) = ClosedLine(d) => c = d
         /\ \A d, p, e : ClosedLine(c) # [line |-> "get", chan |-> d, page |-> p, era |-> e]
<1>1. ClosedLine(c) \in Lines
  BY DEF ClosedLine, Lines
<1>2. /\ ClosedLine(c).line = "closed" /\ ClosedLine(c).chan = c
      /\ Prompt.line = "prompt" /\ [line |-> "sendok"].line = "sendok"
  BY DEF ClosedLine, Prompt
<1>3. \A d, p, e : [line |-> "get", chan |-> d, page |-> p, era |-> e].line = "get"
  OBVIOUS
<1>4. \A d \in Channels : ClosedLine(d).chan = d
  BY DEF ClosedLine
<1> HIDE DEF ClosedLine, Prompt
<1>5. /\ ClosedLine(c) # Prompt /\ ClosedLine(c) # [line |-> "sendok"]
  BY <1>2
<1>6. \A d \in Channels : ClosedLine(c) = ClosedLine(d) => c = d
  BY <1>2, <1>4
<1>7. \A d, p, e : ClosedLine(c) # [line |-> "get", chan |-> d, page |-> p, era |-> e]
  BY <1>2, <1>3
<1> QED BY <1>1, <1>5, <1>6, <1>7

-----------------------------------------------------------------------------
(* An unread CLOSED line speaks of a closed link.                          *)
LEMMA UnreadIsHeard ==
  \A c : Unread(c) <=> Hears(ClosedLine(c))
BY DEF Unread, Hears, Says, ClosedLine

LEMMA LinksInit == Init => Links
BY DEF Init, Links, Hears, Says

LEMMA EspKeepsLinks ==
  ASSUME IInv, Links, Esp PROVE Links'
<1>1. /\ [line |-> "prompt"] \in Lines /\ [line |-> "sendok"] \in Lines
      /\ Prompt = [line |-> "prompt"]
  BY DEF Lines, Prompt
<1>2. CASE EspPrompts
  <2>1. UNCHANGED <<link, batch>> /\ Receive(Prompt)
    BY <1>1, <1>2 DEF EspPrompts, task
  <2> QED BY <1>1, <2>1, ReceiveHears, LineKinds DEF Links
<1>3. CASE EspSent
  <2>1. UNCHANGED <<link, batch>> /\ Receive([line |-> "sendok"])
    BY <1>3 DEF EspSent, task
  <2> QED BY <1>1, <2>1, ReceiveHears, LineKinds DEF Links
<1>4. CASE EspCloses
  <2>1. /\ UNCHANGED batch /\ Receive(ClosedLine(esp.chan))
        /\ link' = [link EXCEPT ![esp.chan] = "closed"]
    BY <1>4 DEF EspCloses, task, ClosedLine
  <2>2. esp.chan \in Channels
    BY <1>4 DEF EspCloses, IInv, EspOK
  <2>3. \A c \in Channels : link'[c] = IF c = esp.chan THEN "closed" ELSE link[c]
    BY <2>1, <2>2 DEF IInv, RestTyped
  <2> QED BY <2>1, <2>2, <2>3, ReceiveHears, LineKinds DEF Links
<1>5. CASE EspFails
  BY <1>5 DEF EspFails, task, Links, Hears
<1> QED BY <1>2, <1>3, <1>4, <1>5 DEF Esp

LEMMA ClientKeepsLinks ==
  ASSUME "reuse" \notin Faults, IInv, Links, NEW c \in Channels, Client(c)
  PROVE  Links'
<1>1. link \in [Channels -> {"closed", "open", "asked"}] /\ era \in [Channels -> BOOLEAN]
  BY DEF IInv, RestTyped
<1>2. CASE Connect(c)
  <2>1. ~Hears(ClosedLine(c))
    BY <1>2, UnreadIsHeard DEF Connect
  <2>2. UNCHANGED <<batch, ring>> /\ link' = [link EXCEPT ![c] = "open"]
    BY <1>2 DEF Connect, task
  <2>3. \A d \in Channels : d # c => link'[d] = link[d]
    BY <1>1, <2>2
  <2> QED BY <2>1, <2>2, <2>3 DEF Links, Hears
<1>3. ASSUME NEW p \in Pages, Ask(c, p) PROVE Links'
  <2> DEFINE l == [line |-> "get", chan |-> c, page |-> p, era |-> era[c]]
  <2>1. /\ UNCHANGED batch /\ Receive(l) /\ link[c] = "open"
        /\ link' = [link EXCEPT ![c] = "asked"]
    BY <1>3 DEF Ask, task
  <2>2. l \in Lines /\ \A d \in Channels : ClosedLine(d) # l
    BY <1>1, LineKinds DEF Lines
  <2> HIDE DEF l
  <2>3. \A d \in Channels : Hears(ClosedLine(d))' => Hears(ClosedLine(d))
    BY <2>1, <2>2, ReceiveHears
  <2>4. \A d \in Channels : d # c => link'[d] = link[d]
    BY <1>1, <2>1
  <2>5. ~Hears(ClosedLine(c))
    BY <2>1 DEF Links
  <2> QED BY <2>3, <2>4, <2>5 DEF Links
<1>4. CASE Hangup(c)
  <2>1. /\ UNCHANGED batch /\ Receive(ClosedLine(c))
        /\ link' = [link EXCEPT ![c] = "closed"]
    BY <1>4 DEF Hangup, task, ClosedLine
  <2>2. \A d \in Channels : link'[d] = IF d = c THEN "closed" ELSE link[d]
    BY <1>1, <2>1
  <2> QED BY <2>1, <2>2, ReceiveHears, LineKinds DEF Links
<1> QED BY <1>2, <1>3, <1>4 DEF Client

LEMMA LinksNext ==
  ASSUME "reuse" \notin Faults, IInv, Links, [Next]_vars PROVE Links'
<1>1. CASE Loop
  BY <1>1, LoopHearsNothingNew DEF Links
<1>2. CASE WatchdogFires
  BY <1>2 DEF WatchdogFires, env, Links, Hears
<1>3. CASE UNCHANGED vars
  BY <1>3 DEF vars, task, env, Links, Hears
<1> QED BY <1>1, <1>2, <1>3, EspKeepsLinks, ClientKeepsLinks DEF Next

(* Only the CLOSED line takes a slot at this place of the loop, and only   *)
(* the slot of its channel.                                                *)
LEMMA ClosedTakesItsOwn ==
  ASSUME IInv, wifi = "closed", [Next]_vars, NEW s \in Slots, slot[s].que # None
  PROVE  slot'[s].que = slot[s].que \/ Hears(ClosedLine(slot[s].que))
<1>1. \A k \in FirstOf("closed") : /\ batch[k].chan \in Channels
                                   /\ Hears(ClosedLine(batch[k].chan))
  <2> TAKE k \in FirstOf("closed")
  <2>1. k \in DOMAIN batch /\ batch[k] \in Lines /\ batch[k].line = "closed"
    BY LineTyped DEF IInv
  <2>2. batch[k] \in [line : {"closed"}, chan : Channels]
    BY <2>1 DEF Lines
  <2>3. batch[k].chan \in Channels /\ batch[k] = ClosedLine(batch[k].chan)
    BY <2>2 DEF ClosedLine
  <2> QED BY <2>1, <2>3 DEF Hears, Says
<1>2. CASE ClosedPending
  <2>1. PICK k \in FirstOf("closed") :
          batch[k].chan = chnl /\ SendCloseChnl(Without(slot, chnl), None, FALSE, None)
    BY <1>2 DEF ClosedPending
  <2> DEFINE S == {t \in Slots : slot[t].que = chnl}
             f == [t \in Slots |-> IF t \in S THEN EmptySlot ELSE slot[t]]
  <2>2. Without(slot, chnl) = f
    BY DEF Without
  <2>3. chnl # None
    BY <1>1, <2>1 DEF Channels, None
  <2>4. None = IF chnl # None /\ \E t \in S \cap Slots : slot[t].que = chnl THEN None ELSE chnl
    BY <2>3 DEF IInv, QueueOK, Pending
  <2>5. slot[s].que # chnl => f[s] = slot[s]
    OBVIOUS
  <2> HIDE DEF S
  <2>6. QueueOK(f, None)
    BY <2>4, ClearKeeps DEF IInv
  <2> HIDE DEF f
  <2>7. Kept(f, slot')
    BY <2>1, <2>2, <2>6, Values, SendCloseKeeps DEF IInv
  <2> QED BY <1>1, <2>1, <2>5, <2>7 DEF Kept
<1>3. CASE ClosedOther
  <2>1. PICK k \in FirstOf("closed") : slot' = Without(slot, batch[k].chan)
    BY <1>3 DEF ClosedOther
  <2> QED BY <1>1, <2>1 DEF Without
<1>4. CASE UNCHANGED slot
  BY <1>4
<1>5. Loop => ClosedPending \/ ClosedOther \/ UNCHANGED slot
  BY DEF Loop, ApplyReset, TakeBatch, WaitExpires, HandleTarget, RequestsDone, StartSend,
         SendPayload, NoPayload, NoneClosed, SendAcknowledged, NotAcknowledged,
         ExpireIdleSlots, NoneExpired
<1>6. WatchdogFires \/ Esp \/ (\E c \in Channels : Client(c)) \/ UNCHANGED vars
        => UNCHANGED slot
  BY DEF WatchdogFires, Esp, EspPrompts, EspSent, EspCloses, EspFails,
         Client, Connect, Ask, Hangup, vars
<1> QED BY <1>2, <1>3, <1>4, <1>5, <1>6 DEF Next

(* "each TCP client retains its own response slot": as long as the ESP32   *)
(* does not reuse a channel before its CLOSED line was read, no CLOSED     *)
(* line takes the slot of a client that is still connected, whatever else  *)
(* fails.                                                                  *)
THEOREM ClientAlwaysKeepsSlot == "reuse" \notin Faults => (Spec => ClientKeepsSlot)
<1> SUFFICES ASSUME "reuse" \notin Faults PROVE Spec => ClientKeepsSlot
  OBVIOUS
<1>1. Init => Links
  BY LinksInit
<1>2. IInv /\ Links /\ [Next]_vars => Links'
  BY LinksNext
<1>3. IInv /\ Links /\ [Next]_vars =>
        [\A s \in Slots :
           /\ wifi = "closed" /\ Queued(slot, s)
           /\ link[slot[s].que] # "closed" /\ slot[s].born = era[slot[s].que]
           => slot'[s].que = slot[s].que]_vars
  <2> SUFFICES ASSUME IInv, Links, [Next]_vars, NEW s \in Slots,
                      wifi = "closed", Queued(slot, s), link[slot[s].que] # "closed"
               PROVE  slot'[s].que = slot[s].que
    OBVIOUS
  <2>1. slot[s].que # None
    BY DEF Queued
  <2>2. slot[s].que \in Channels
    BY <2>1 DEF IInv, QueueOK, Typed, SlotRecords
  <2> QED BY <2>1, <2>2, ClosedTakesItsOwn DEF Links
<1> HIDE DEF IInv, Links, Init, Next, vars
<1> QED BY <1>1, <1>2, <1>3, Inductive, PTL DEF Spec, ClientKeepsSlot

-----------------------------------------------------------------------------
LEMMA SmallestOfNat ==
  ASSUME NEW T \in SUBSET Nat, T # {} PROVE \E k \in T : \A j \in T : k <= j
<1> DEFINE R == OpToRel(<, Nat)
<1>1. IsWellFoundedOn(R, Nat)
  BY NatLessThanWellFounded
<1>2. PICK k \in T : \A j \in T : ~(<<j, k>> \in R)
  BY <1>1, WFMin
<1>3. R = {ss \in Nat \X Nat : ss[1] < ss[2]}
  BY DEF OpToRel
<1> HIDE DEF R
<1>4. \A i, j \in Nat : i < j => <<i, j>> \in R
  BY <1>3
<1>5. ASSUME NEW j \in T PROVE k <= j
  <2>1. j \in Nat /\ k \in Nat /\ ~(j < k)
    BY <1>2, <1>4
  <2> QED BY <2>1
<1> QED BY <1>5

(* The timely environment: no refusal, no lost line, no timeout, no reuse. *)

(* A slot of f waits for the prompt of channel x.                          *)
AwaitedIn(f, c, x) ==
  \E s \in Slots : f[s].que = x /\ f[s].que = c /\ f[s].que # None /\ f[s].phase = 1

(* The ESP32 asks for bytes, or may still do so.                           *)
WantsBytes(e) == \/ e.op = "raw"
                 \/ e.op = "send" /\ link[e.chan] # "closed"

(* Between two batches nothing is left to serve.                           *)
BatchServed == wifi \in {"reset", "wait", "expire"} => batch = <<>>

(* A command the ESP32 has taken is the pending one of a planned slot.     *)
CommandAwaited == WantsBytes(esp) => AwaitedIn(slot, chnl, esp.chan)

(* The prompt is unread exactly as long as the ESP32 waits for the bytes.  *)
PromptUnread == /\ esp.op = "raw" <=> Hears(Prompt)
                /\ ~(Says(batch, Prompt) /\ Says(ring, Prompt))

(* It is served in its turn, and before the CLOSED line of its channel.    *)
PromptFirst == /\ Says(batch, Prompt) => wifi \in {"requests", "send", "prompt"}
               /\ Says(ring, Prompt) => ~Says(batch, ClosedLine(esp.chan))

Delivery == ~resetReq /\ BatchServed /\ CommandAwaited /\ PromptUnread /\ PromptFirst

DInv == IInv /\ Links /\ Delivery

LEMMA DeliveryInit == Init => Delivery
BY DEF Init, Delivery, BatchServed, CommandAwaited, WantsBytes, PromptUnread, PromptFirst,
       Hears, Says

(* While the ESP32 wants bytes a command is pending, and its phase is 1.   *)
LEMMA AwaitedIsPending ==
  ASSUME NEW f, NEW c, NEW x, Pending(f, c), AwaitedIn(f, c, x)
  PROVE  /\ c # None /\ c = x
         /\ \A s \in Slots : f[s].que = c => f[s].phase = 1
BY DEF Pending, AwaitedIn

(* HTTP_SendCloseChnl, called while the ESP32 does not want bytes: if it   *)
(* writes AT+CIPSEND and the ESP32 takes it, the slot is planned.          *)
LEMMA SendCloseIsAwaited ==
  ASSUME Faults = {}, NEW f, NEW c, NEW run, NEW prev, QueueOK(f, c), EspOK(esp),
         SendCloseChnl(f, c, run, prev), ~WantsBytes(esp)
  PROVE  /\ WantsBytes(esp') => AwaitedIn(slot', chnl', esp'.chan)
         /\ esp'.op # "raw"
<1>0. HalResults = {TRUE}
  BY DEF HalResults
<1>1. ASSUME NEW g, NEW s, WriteClose(g, s) PROVE ~WantsBytes(esp')
  <2>1. EspReads("close", g[s].que)
    BY <1>0, <1>1 DEF WriteClose
  <2> QED BY <2>1 DEF EspReads, WantsBytes, EspOK
<1>2. ASSUME NEW g, NEW s \in Slots, g \in [Slots -> SlotRecords], g[s].que # None,
             WriteSend(g, s)
      PROVE  /\ WantsBytes(esp') => AwaitedIn(slot', chnl', esp'.chan)
             /\ esp'.op # "raw"
  <2>1. /\ slot' = [g EXCEPT ![s].held = TRUE, ![s].phase = 1, ![s].started = TRUE]
        /\ chnl' = g[s].que
        /\ EspReads("send", g[s].que)
    BY <1>0, <1>2 DEF WriteSend
  <2>2. slot'[s].que = g[s].que /\ slot'[s].phase = 1
    BY <1>2, <2>1 DEF SlotRecords
  <2>3. AwaitedIn(slot', chnl', g[s].que)
    BY <1>2, <2>1, <2>2 DEF AwaitedIn
  <2>4. CASE esp.op = "ready" /\ esp' = [op |-> "send", chan |-> g[s].que]
    BY <2>3, <2>4
  <2>5. CASE UNCHANGED esp
    BY <2>5 DEF WantsBytes
  <2>6. esp.op # "raw"
    BY DEF WantsBytes
  <2> QED BY <2>1, <2>4, <2>5, <2>6 DEF EspReads
<1>3. CASE UNCHANGED esp
  BY <1>3 DEF WantsBytes
<1>4. ASSUME NEW s \in CheckReadyToSendChnl(f, c, prev),
             LET g == PrepareRefresh(f, s)
             IN \/ g[s].offset = Chunks /\ WriteClose(g, s)
                \/ g[s].offset < Chunks /\ WriteSend(g, s)
                \/ /\ g[s].offset < Chunks /\ g[s].page \in Stream
                   /\ WriteClose([g EXCEPT ![s].offset = Chunks], s)
      PROVE  /\ WantsBytes(esp') => AwaitedIn(slot', chnl', esp'.chan)
             /\ esp'.op # "raw"
  <2> DEFINE g == PrepareRefresh(f, s)
  <2>1. s \in Slots /\ f[s].que # None
    BY PickIsQueued
  <2>2. g \in [Slots -> SlotRecords] /\ g[s].que # None
    BY <2>1, PrepareKeeps DEF QueueOK, Typed, Kept
  <2> HIDE DEF g
  <2>3. CASE \E h : WriteClose(h, s)
    BY <1>1, <2>3 DEF WantsBytes
  <2>4. CASE WriteSend(g, s)
    BY <1>2, <2>1, <2>2, <2>4
  <2> QED BY <1>4, <2>3, <2>4 DEF g
<1> QED BY <1>3, <1>4 DEF SendCloseChnl

(* The steps that neither serve lines nor write commands.                  *)
LEMMA QuietDelivers ==
  ASSUME Faults = {}, DInv,
         ApplyReset \/ TakeBatch \/ WaitExpires \/ RequestsDone \/ NoneClosed
           \/ NotAcknowledged \/ NoneExpired
  PROVE  Delivery'
<1>1. UNCHANGED <<slot, chnl, esp, link, resetReq>>
  BY DEF ApplyReset, TakeBatch, WaitExpires, RequestsDone, NoneClosed,
         NotAcknowledged, NoneExpired, env, DInv, Delivery
<1>2. CommandAwaited' /\ ~resetReq'
  BY <1>1 DEF DInv, Delivery, CommandAwaited, WantsBytes, AwaitedIn
<1>3. ASSUME UNCHANGED <<batch, ring>>, BatchServed',
             Says(batch, Prompt) => wifi' \in {"requests", "send", "prompt"}
      PROVE  Delivery'
  BY <1>1, <1>2, <1>3 DEF DInv, Delivery, PromptUnread, PromptFirst, Hears
<1>4. \A m : ~Says(<<>>, m)
  BY DEF Says
<1>5. CASE TakeBatch
  <2>1. batch' = ring /\ ring' = <<>> /\ wifi' = "requests" /\ batch = <<>>
    BY <1>5 DEF TakeBatch, DInv, Delivery, BatchServed
  <2>2. BatchServed' /\ PromptFirst'
    BY <1>4, <2>1 DEF BatchServed, PromptFirst
  <2>3. \A m : (Says(batch', m) \/ Says(ring', m)) <=> (Says(batch, m) \/ Says(ring, m))
    BY <1>4, <2>1
  <2>4. PromptUnread'
    BY <1>1, <1>4, <2>1, <2>3 DEF DInv, Delivery, PromptUnread, Hears
  <2> QED BY <1>2, <2>2, <2>4 DEF Delivery
<1>6. CASE NotAcknowledged
  <2>1. batch' = <<>> /\ UNCHANGED ring /\ wifi = "sendok" /\ wifi' = "expire"
    BY <1>6 DEF NotAcknowledged, env
  <2>2. ~Says(batch, Prompt)
    BY <2>1 DEF DInv, Delivery, PromptFirst
  <2>3. BatchServed' /\ PromptFirst'
    BY <1>4, <2>1 DEF BatchServed, PromptFirst
  <2>4. PromptUnread'
    BY <1>1, <1>4, <2>1, <2>2 DEF DInv, Delivery, PromptUnread, Hears
  <2> QED BY <1>2, <2>3, <2>4 DEF Delivery
<1>7. CASE ApplyReset \/ WaitExpires \/ NoneExpired
  <2>1. /\ UNCHANGED <<batch, ring>> /\ wifi \in {"reset", "wait", "expire"}
        /\ wifi' \in {"reset", "wait", "expire"}
    BY <1>7 DEF ApplyReset, WaitExpires, NoneExpired, env
  <2>2. batch = <<>>
    BY <2>1 DEF DInv, Delivery, BatchServed
  <2> QED BY <1>3, <1>4, <2>1, <2>2 DEF BatchServed
<1>8. CASE RequestsDone \/ NoneClosed
  <2>1. /\ UNCHANGED <<batch, ring>> /\ wifi' \notin {"reset", "wait", "expire"}
        /\ wifi \in {"requests", "send", "prompt"} => wifi' \in {"requests", "send", "prompt"}
    BY <1>8 DEF RequestsDone, NoneClosed, env
  <2> QED BY <1>3, <2>1 DEF BatchServed, DInv, Delivery, PromptFirst
<1> QED BY <1>5, <1>6, <1>7, <1>8

(* The requests: neither prompts nor planned slots are touched.            *)
LEMMA RequestDelivers ==
  ASSUME DInv, HandleTarget PROVE Delivery'
<1>1. PICK k \in FirstOf("get") :
        /\ batch' = RemoveAt(batch, k)
        /\ IF FreeSlot = {} \/ \E s \in Slots : slot[s].que = batch[k].chan
           THEN UNCHANGED slot
           ELSE \E i \in FreeSlot : slot' = Enqueued(i, batch[k])
  BY DEF HandleTarget
<1>2. k \in DOMAIN batch /\ batch[k].line = "get" /\ batch \in Seq(Lines)
  BY LineTyped DEF DInv, IInv, RestTyped
<1>3. UNCHANGED <<chnl, wifi, resetReq, ring, esp, link>> /\ wifi = "requests"
  BY DEF HandleTarget, env
<1>4. batch[k] # Prompt /\ \A c : batch[k] # ClosedLine(c)
  <2>1. Prompt.line = "prompt" /\ \A c : ClosedLine(c).line = "closed"
    BY DEF Prompt, ClosedLine
  <2> HIDE DEF Prompt, ClosedLine
  <2> QED BY <1>2, <2>1
<1>5. \A m : m = Prompt \/ (\E c : m = ClosedLine(c)) =>
             (Says(batch', m) <=> Says(batch, m))
  BY <1>1, <1>2, <1>4, SaysFacts
<1>6. PromptUnread' /\ PromptFirst'
  BY <1>3, <1>5 DEF DInv, Delivery, PromptUnread, PromptFirst, Hears
<1>7. \A s \in Slots : slot[s].que # None =>
        slot'[s].que = slot[s].que /\ slot'[s].phase = slot[s].phase
  <2>1. CASE UNCHANGED slot
    BY <2>1
  <2>2. CASE \E i \in FreeSlot : slot' = Enqueued(i, batch[k])
    <3>1. PICK i \in Slots : slot[i].que = None /\ slot' = Enqueued(i, batch[k])
      BY <2>2 DEF FreeSlot, First, Queued
    <3>2. slot \in [Slots -> SlotRecords]
      BY DEF DInv, IInv, QueueOK, Typed
    <3>3. ASSUME NEW s \in Slots, s # i
          PROVE  \/ slot'[s] = slot[s]
                 \/ slot'[s] = [slot[s] EXCEPT !.stale = TRUE, !.prepared = @ /\ slot[s].started]
      BY <3>1, <3>2, <3>3 DEF Enqueued
    <3>4. ASSUME NEW s \in Slots, s # i
          PROVE  slot'[s].que = slot[s].que /\ slot'[s].phase = slot[s].phase
      <4> DEFINE r == slot[s]
      <4>1. r \in SlotRecords
        BY <3>2
      <4>2. slot'[s] = r \/ slot'[s] = [r EXCEPT !.stale = TRUE, !.prepared = @ /\ r.started]
        BY <3>3, <3>4
      <4> HIDE DEF r
      <4>3. slot'[s].que = r.que /\ slot'[s].phase = r.phase
        BY <4>1, <4>2 DEF SlotRecords
      <4> QED BY <4>3 DEF r
    <3> QED BY <3>1, <3>4
  <2> QED BY <1>1, <2>1, <2>2
<1>8. CommandAwaited'
  BY <1>3, <1>7 DEF DInv, Delivery, CommandAwaited, WantsBytes, AwaitedIn
<1> QED BY <1>3, <1>6, <1>8 DEF DInv, Delivery, BatchServed

(* The prompt: the packet goes out and the ESP32 has its bytes.            *)
LEMMA PromptDelivers ==
  ASSUME Faults = {}, DInv, SendPayload \/ NoPayload PROVE Delivery'
<1>1. \A m : ~Says(<<>>, m)
  BY DEF Says
<1>2. HasPrompt <=> Says(batch, Prompt)
  <2>1. batch \in Seq(Lines)
    BY DEF DInv, IInv, RestTyped
  <2>2. HasPrompt => Says(batch, Prompt)
    <3> SUFFICES ASSUME HasPrompt PROVE Says(batch, Prompt)
      OBVIOUS
    <3>1. PICK k \in FirstOf("prompt") : TRUE
      BY DEF HasPrompt
    <3>2. k \in DOMAIN batch /\ batch[k] \in Lines /\ batch[k].line = "prompt"
      BY <3>1, LineTyped DEF DInv, IInv
    <3>3. batch[k] \in [line : {"prompt", "sendok"}]
      BY <3>2 DEF Lines
    <3>4. batch[k] = Prompt
      BY <3>2, <3>3 DEF Prompt
    <3> QED BY <3>2, <3>4 DEF Says
  <2>3. Says(batch, Prompt) => HasPrompt
    <3> SUFFICES ASSUME NEW i \in DOMAIN batch, batch[i].line = "prompt"
                 PROVE  \E k \in DOMAIN batch :
                          /\ batch[k].line = "prompt"
                          /\ \A j \in 1..(k - 1) : batch[j].line # "prompt"
      BY DEF Says, Prompt, HasPrompt, FirstOf
    <3> DEFINE T == {j \in DOMAIN batch : batch[j].line = "prompt"}
    <3>1. T \in SUBSET Nat /\ T # {}
      BY <2>1
    <3>2. PICK k \in T : \A j \in T : k <= j
      BY <3>1, SmallestOfNat
    <3>3. k \in DOMAIN batch /\ batch[k].line = "prompt"
      BY <3>2
    <3>4. \A j \in 1..(k - 1) : j \in DOMAIN batch /\ ~(k <= j)
      BY <2>1, <3>3
    <3> QED BY <3>2, <3>3, <3>4
  <2> QED BY <2>2, <2>3
<1>3. wifi = "prompt" /\ wifi' = "closed" /\ UNCHANGED <<resetReq, ring, link>>
  BY DEF SendPayload, NoPayload, env
<1>4. AwaitedIn(slot, chnl, esp.chan) => \E s \in Slots : Planned(s)
  BY DEF AwaitedIn, Planned, Queued
<1>5. CASE NoPayload
  <2>1. UNCHANGED <<slot, chnl, esp, batch>>
    BY <1>5 DEF NoPayload, env
  <2>2. ~Says(batch, Prompt)
    BY <1>2, <1>4, <1>5
    DEF NoPayload, DInv, Delivery, PromptUnread, CommandAwaited, WantsBytes, Hears
  <2> QED BY <1>3, <2>1, <2>2
    DEF DInv, Delivery, BatchServed, CommandAwaited, WantsBytes, AwaitedIn,
        PromptUnread, PromptFirst, Hears
<1>6. CASE SendPayload
  <2>1. Says(batch, Prompt) /\ esp.op = "raw" /\ ~Says(ring, Prompt)
    BY <1>2, <1>6 DEF SendPayload, DInv, Delivery, PromptUnread, Hears
  <2>2. batch' = <<>> /\ EspReadsBytes
    <3>1. PICK s \in Slots, ok \in HalResults :
            /\ Planned(s)
            /\ PlanValid(s) => batch' = <<>> /\ (ok => EspReadsBytes)
      BY <1>6 DEF SendPayload
    <3>2. PlanValid(s) /\ ok
      BY <3>1 DEF DInv, IInv, QueueOK, Plans, PlanValid, Planned, HalResults
    <3> QED BY <3>1, <3>2
  <2>3. esp'.op = "data"
    BY <2>1, <2>2 DEF EspReadsBytes, DInv, IInv, EspOK, EspStates
  <2> QED BY <1>1, <1>3, <2>1, <2>2, <2>3
    DEF DInv, Delivery, BatchServed, CommandAwaited, WantsBytes, PromptUnread, PromptFirst, Hears
<1> QED BY <1>5, <1>6

(* A step of the loop that calls HTTP_SendCloseChnl on the slots f while   *)
(* the ESP32 does not want bytes.                                          *)
LEMMA SendingDelivers ==
  ASSUME Faults = {}, DInv, NEW f, NEW c, NEW run, NEW prev, QueueOK(f, c),
         SendCloseChnl(f, c, run, prev), ~WantsBytes(esp),
         UNCHANGED <<ring, link, resetReq>>, batch' = batch \/ batch' = <<>>, BatchServed'
  PROVE  Delivery'
<1>1. EspOK(esp)
  BY DEF DInv, IInv
<1>2. /\ WantsBytes(esp') => AwaitedIn(slot', chnl', esp'.chan)
      /\ esp'.op # "raw"
  BY <1>1, SendCloseIsAwaited
<1>3. CommandAwaited'
  BY <1>2 DEF CommandAwaited, WantsBytes
<1>4. ~Says(batch, Prompt) /\ ~Says(ring, Prompt)
  BY DEF DInv, Delivery, PromptUnread, WantsBytes, Hears
<1>5. ~Says(batch', Prompt) /\ ~Says(ring', Prompt)
  <2>1. ~Says(<<>>, Prompt)
    BY DEF Says
  <2> QED BY <1>4, <2>1
<1>6. PromptUnread' /\ PromptFirst'
  BY <1>2, <1>5 DEF PromptUnread, PromptFirst, Hears
<1> QED BY <1>3, <1>6 DEF Delivery, DInv

LEMMA StartDelivers ==
  ASSUME Faults = {}, DInv, StartSend PROVE Delivery'
<1>1. /\ SendCloseChnl(slot, chnl, timer, None) /\ wifi = "send" /\ wifi' = "prompt"
      /\ UNCHANGED <<batch, ring, link, resetReq>>
  BY DEF StartSend
<1>2. CASE WantsBytes(esp)
  <2>1. chnl # None
    BY <1>2, AwaitedIsPending DEF DInv, IInv, QueueOK, Delivery, CommandAwaited
  <2>2. UNCHANGED <<slot, chnl, esp>>
    BY <1>1, <2>1, PickIsQueued DEF SendCloseChnl
  <2> QED BY <1>1, <2>2
    DEF DInv, Delivery, BatchServed, CommandAwaited, WantsBytes, AwaitedIn,
        PromptUnread, PromptFirst, Hears
<1>3. CASE ~WantsBytes(esp)
  <2>1. BatchServed'
    BY <1>1 DEF BatchServed
  <2> QED BY <1>1, <1>3, <2>1, SendingDelivers DEF DInv, IInv
<1> QED BY <1>2, <1>3

(* SEND OK is for a slot whose bytes have gone out: the ESP32 does not     *)
(* want any.                                                               *)
LEMMA AcknowledgeDelivers ==
  ASSUME Faults = {}, DInv, SendAcknowledged PROVE Delivery'
<1>1. PICK s \in Slots :
        Sent(s) /\ SendCloseChnl([slot EXCEPT ![s].phase = 0], None, FALSE, chnl)
  BY DEF SendAcknowledged
<1>2. ~WantsBytes(esp)
  BY <1>1, AwaitedIsPending DEF Sent, DInv, IInv, QueueOK, Delivery, CommandAwaited
<1> DEFINE f == [slot EXCEPT ![s].phase = 0]
<1>3. slot \in [Slots -> SlotRecords] /\ slot[s] \in SlotRecords
  BY DEF DInv, IInv, QueueOK, Typed
<1>4. f[s] = [slot[s] EXCEPT !.phase = 0] /\ f = [slot EXCEPT ![s] = f[s]]
  BY <1>3
<1>5. \A t \in Slots : t # s => f[t] = slot[t]
  BY <1>3
<1>6. f[s] \in SlotRecords
  BY <1>3, <1>4, Values, UpdateTyped
<1>7. /\ f[s].phase = 0 /\ f[s].que = slot[s].que /\ f[s].page = slot[s].page
      /\ f[s].started = slot[s].started /\ f[s].prepared = slot[s].prepared
      /\ f[s].stale = slot[s].stale
  BY <1>3, <1>4 DEF SlotRecords
<1>8. slot[s].que = chnl
  BY <1>1 DEF Sent
<1> HIDE DEF f
<1>9. QueueOK(f, None)
  <2>1. Typed(f, None)
    BY <1>3, <1>4, <1>6 DEF Typed
  <2>2. \A t \in Slots : f[t].que = slot[t].que /\ f[t].phase = 0
    BY <1>5, <1>7, <1>8 DEF DInv, IInv, QueueOK, Pending
  <2>3. Pending(f, None)
    BY <2>2 DEF DInv, IInv, QueueOK, Pending
  <2>4. Plans(f) /\ Snapshots(f)
    BY <1>5, <1>7 DEF DInv, IInv, QueueOK, Plans, Snapshots
  <2> QED BY <2>1, <2>3, <2>4 DEF QueueOK
<1>10. batch' = <<>> /\ wifi' = "expire" /\ UNCHANGED <<ring, link, resetReq>>
  BY DEF SendAcknowledged
<1>11. BatchServed'
  BY <1>10 DEF BatchServed
<1> QED BY <1>1, <1>2, <1>9, <1>10, <1>11, SendingDelivers DEF f

(* A CLOSED line of the pending channel is never served while the ESP32    *)
(* waits for that channel's bytes: the prompt came first.                  *)
LEMMA ClosedDelivers ==
  ASSUME Faults = {}, DInv, ClosedPending \/ ClosedOther PROVE Delivery'
<1>1. \A k \in FirstOf("closed") : /\ batch[k].chan \in Channels
                                   /\ Says(batch, ClosedLine(batch[k].chan))
                                   /\ link[batch[k].chan] = "closed"
  <2> TAKE k \in FirstOf("closed")
  <2>1. k \in DOMAIN batch /\ batch[k] \in Lines /\ batch[k].line = "closed"
    BY LineTyped DEF DInv, IInv
  <2>2. batch[k] \in [line : {"closed"}, chan : Channels]
    BY <2>1 DEF Lines
  <2>3. batch[k].chan \in Channels /\ batch[k] = ClosedLine(batch[k].chan)
    BY <2>2 DEF ClosedLine
  <2>4. Says(batch, ClosedLine(batch[k].chan))
    BY <2>1, <2>3 DEF Says
  <2> QED BY <2>3, <2>4 DEF DInv, Links, Hears
<1>2. ~Says(batch, Prompt) /\ wifi = "closed" /\ wifi' = "sendok"
  BY DEF ClosedPending, ClosedOther, DInv, Delivery, PromptFirst
<1>3. UNCHANGED <<batch, ring, link, resetReq>>
  BY DEF ClosedPending, ClosedOther, env
<1>4. BatchServed'
  BY <1>2 DEF BatchServed
<1>5. CASE ClosedPending
  <2>1. PICK k \in FirstOf("closed") :
          batch[k].chan = chnl /\ SendCloseChnl(Without(slot, chnl), None, FALSE, None)
    BY <1>5 DEF ClosedPending
  <2>2. ~WantsBytes(esp)
    <3> SUFFICES ASSUME WantsBytes(esp) PROVE FALSE
      OBVIOUS
    <3>1. chnl = esp.chan
      BY AwaitedIsPending DEF DInv, IInv, QueueOK, Delivery, CommandAwaited
    <3>2. esp.op = "raw"
      BY <1>1, <2>1, <3>1 DEF WantsBytes
    <3>3. Says(ring, Prompt)
      BY <1>2, <3>2 DEF DInv, Delivery, PromptUnread, Hears
    <3> QED BY <1>1, <2>1, <3>1, <3>3 DEF DInv, Delivery, PromptFirst
  <2> DEFINE S == {t \in Slots : slot[t].que = chnl}
             f == [t \in Slots |-> IF t \in S THEN EmptySlot ELSE slot[t]]
  <2>3. Without(slot, chnl) = f
    BY DEF Without
  <2>4. chnl # None
    BY <1>1, <2>1 DEF Channels, None
  <2>5. None = IF chnl # None /\ \E t \in S \cap Slots : slot[t].que = chnl THEN None ELSE chnl
    BY <2>4 DEF DInv, IInv, QueueOK, Pending
  <2> HIDE DEF S
  <2>6. QueueOK(f, None)
    BY <2>5, ClearKeeps DEF DInv, IInv
  <2> HIDE DEF f
  <2> QED BY <1>3, <1>4, <2>1, <2>2, <2>3, <2>6, SendingDelivers
<1>6. CASE ClosedOther
  <2>1. PICK k \in FirstOf("closed") :
          batch[k].chan # chnl /\ slot' = Without(slot, batch[k].chan)
    BY <1>6 DEF ClosedOther
  <2>2. UNCHANGED <<chnl, esp>>
    BY <1>6 DEF ClosedOther, env
  <2>3. \A t \in Slots : slot[t].que = chnl => slot'[t] = slot[t]
    BY <2>1 DEF Without
  <2>4. CommandAwaited'
    BY <1>3, <2>2, <2>3 DEF DInv, Delivery, CommandAwaited, WantsBytes, AwaitedIn
  <2> QED BY <1>2, <1>3, <1>4, <2>2, <2>4
    DEF DInv, Delivery, PromptUnread, PromptFirst, Hears
<1> QED BY <1>5, <1>6

-----------------------------------------------------------------------------
(* The ESP32 and the clients.                                              *)

(* A line other than a prompt arrives while the ESP32 keeps its command.   *)
LEMMA ArrivalDelivers ==
  ASSUME DInv, NEW l \in Lines, l # Prompt, Receive(l),
         UNCHANGED <<slot, chnl, resetReq, wifi, batch>>,
         esp'.op = "raw" <=> esp.op = "raw", WantsBytes(esp)' => WantsBytes(esp),
         WantsBytes(esp)' => esp' = esp
  PROVE  Delivery'
<1>1. \A m : Says(ring', m) <=> (Says(ring, m) \/ m = l)
  BY ReceiveHears DEF DInv
<1>2. Says(ring', Prompt) <=> Says(ring, Prompt)
  BY <1>1
<1>3. CommandAwaited'
  BY DEF DInv, Delivery, CommandAwaited, AwaitedIn
<1>4. PromptUnread'
  BY <1>2 DEF DInv, Delivery, PromptUnread, Hears
<1>5. Says(ring, Prompt) => esp' = esp
  BY DEF DInv, Delivery, PromptUnread, Hears, WantsBytes
<1>6. PromptFirst'
  BY <1>2, <1>5 DEF DInv, Delivery, PromptFirst
<1> QED BY <1>3, <1>4, <1>6 DEF DInv, Delivery, BatchServed

LEMMA EspDelivers ==
  ASSUME DInv, Esp PROVE Delivery'
<1>1. UNCHANGED <<slot, chnl, resetReq, wifi, batch>>
  BY DEF Esp, EspPrompts, EspSent, EspCloses, EspFails, task
<1>2. esp \in EspStates /\ (esp.op # "ready" => esp.chan \in Channels)
  BY DEF DInv, IInv, EspOK
<1>3. CASE EspPrompts
  <2>1. /\ Receive(Prompt) /\ UNCHANGED link /\ esp' = [esp EXCEPT !.op = "raw"]
        /\ esp.op = "send" /\ link[esp.chan] # "closed"
    BY <1>3 DEF EspPrompts, Prompt
  <2>2. esp'.op = "raw" /\ esp'.chan = esp.chan
    BY <1>2, <2>1 DEF EspStates
  <2>3. ~Says(batch, Prompt) /\ ~Says(ring, Prompt)
    BY <2>1 DEF DInv, Delivery, PromptUnread, Hears
  <2>4. Says(ring', Prompt)
    BY <1>1, <2>1, ReceiveHears DEF DInv, Lines, Prompt
  <2>5. ~Says(batch, ClosedLine(esp.chan))
    BY <1>2, <2>1 DEF DInv, Links, Hears
  <2>6. CommandAwaited'
    BY <1>1, <2>1, <2>2 DEF DInv, Delivery, CommandAwaited, WantsBytes, AwaitedIn
  <2>7. PromptUnread' /\ PromptFirst'
    BY <1>1, <2>2, <2>3, <2>4, <2>5 DEF PromptUnread, PromptFirst, Hears
  <2> QED BY <1>1, <2>6, <2>7 DEF DInv, Delivery, BatchServed
<1>4. CASE EspSent
  <2> DEFINE l == [line |-> "sendok"]
  <2>1. l \in Lines /\ l # Prompt
    BY DEF Lines, Prompt
  <2>2. Receive(l) /\ esp.op = "data" /\ esp'.op = "ready"
    BY <1>4 DEF EspSent
  <2> QED BY <1>1, <2>1, <2>2, ArrivalDelivers DEF WantsBytes
<1>5. CASE EspCloses
  <2>1. /\ Receive(ClosedLine(esp.chan)) /\ esp.op = "close" /\ esp'.op = "ready"
    BY <1>5 DEF EspCloses, ClosedLine
  <2>2. ClosedLine(esp.chan) \in Lines /\ ClosedLine(esp.chan) # Prompt
    BY <1>2, <2>1, LineKinds
  <2> QED BY <1>1, <2>1, <2>2, ArrivalDelivers DEF WantsBytes
<1>6. CASE EspFails
  <2>1. UNCHANGED ring /\ esp.op # "raw" /\ esp'.op = "ready"
    BY <1>6 DEF EspFails
  <2> QED BY <1>1, <2>1
    DEF DInv, Delivery, BatchServed, CommandAwaited, WantsBytes, PromptUnread, PromptFirst, Hears
<1> QED BY <1>3, <1>4, <1>5, <1>6 DEF Esp

LEMMA ClientDelivers ==
  ASSUME "reuse" \notin Faults, DInv, NEW c \in Channels, Client(c) PROVE Delivery'
<1>1. UNCHANGED <<slot, chnl, resetReq, wifi, batch, esp>>
  BY DEF Client, Connect, Ask, Hangup, task
<1>2. link \in [Channels -> {"closed", "open", "asked"}]
  BY DEF DInv, IInv, RestTyped
<1>3. CASE Connect(c)
  <2>1. UNCHANGED ring /\ esp.chan # c /\ link' = [link EXCEPT ![c] = "open"]
    BY <1>3 DEF Connect
  <2>2. esp.op = "send" => link'[esp.chan] = link[esp.chan]
    BY <1>2, <2>1 DEF DInv, IInv, EspOK
  <2>3. CommandAwaited'
    BY <1>1, <2>2 DEF DInv, Delivery, CommandAwaited, WantsBytes, AwaitedIn
  <2> QED BY <1>1, <2>1, <2>3
    DEF DInv, Delivery, BatchServed, PromptUnread, PromptFirst, Hears
<1>4. ASSUME NEW p \in Pages, Ask(c, p) PROVE Delivery'
  <2> DEFINE l == [line |-> "get", chan |-> c, page |-> p, era |-> era[c]]
  <2>1. Receive(l) /\ link[c] = "open" /\ link' = [link EXCEPT ![c] = "asked"]
    BY <1>4 DEF Ask
  <2>2. l \in Lines
    BY DEF DInv, IInv, RestTyped, Lines
  <2>3. l # Prompt
    <3>1. l.line = "get" /\ Prompt.line = "prompt"
      BY DEF Prompt
    <3> HIDE DEF l, Prompt
    <3> QED BY <3>1
  <2> HIDE DEF l
  <2>4. esp.op = "send" /\ link'[esp.chan] # "closed" => link[esp.chan] # "closed"
    BY <1>2, <2>1 DEF DInv, IInv, EspOK
  <2> QED BY <1>1, <2>1, <2>2, <2>3, <2>4, ArrivalDelivers DEF WantsBytes
<1>5. CASE Hangup(c)
  <2>1. Receive(ClosedLine(c)) /\ link' = [link EXCEPT ![c] = "closed"]
    BY <1>5 DEF Hangup, ClosedLine
  <2>2. esp.op = "send" /\ link'[esp.chan] # "closed" => link[esp.chan] # "closed"
    BY <1>2, <2>1 DEF DInv, IInv, EspOK
  <2> QED BY <1>1, <2>1, <2>2, LineKinds, ArrivalDelivers DEF WantsBytes
<1> QED BY <1>3, <1>4, <1>5 DEF Client

-----------------------------------------------------------------------------
LEMMA DeliveryNext ==
  ASSUME Faults = {}, DInv, [Next]_vars PROVE Delivery'
<1>1. CASE Loop
  <2>1. ~ \E S \in SUBSET Slots : ExpireIdleSlots(S)
    BY DEF ExpireIdleSlots
  <2> QED BY <1>1, <2>1, QuietDelivers, RequestDelivers, PromptDelivers, StartDelivers,
             AcknowledgeDelivers, ClosedDelivers DEF Loop
<1>2. ~WatchdogFires
  BY DEF WatchdogFires
<1>3. CASE UNCHANGED vars
  BY <1>3 DEF vars, task, env, DInv, Delivery, BatchServed, CommandAwaited, WantsBytes,
              AwaitedIn, PromptUnread, PromptFirst, Hears
<1> QED BY <1>1, <1>2, <1>3, EspDelivers, ClientDelivers DEF Next

(* HTTP_SendCloseChnl, HTTP_SendPayload and the CLOSED handler together:   *)
(* in a timely environment the ESP32 never waits for the bytes of a packet *)
(* that is not coming.                                                     *)
THEOREM RawAlwaysPlanned == Faults = {} => (Spec => []RawIsPlanned)
<1> SUFFICES ASSUME Faults = {} PROVE Spec => []RawIsPlanned
  OBVIOUS
<1>1. Init => Links /\ Delivery
  BY LinksInit, DeliveryInit
<1>2. IInv /\ Links /\ Delivery /\ [Next]_vars => Links' /\ Delivery'
  BY LinksNext, DeliveryNext DEF DInv
<1>3. Delivery => RawIsPlanned
  BY DEF Delivery, CommandAwaited, WantsBytes, AwaitedIn, RawIsPlanned, Planned, Queued
<1> HIDE DEF IInv, Links, Delivery, Init, Next, vars, RawIsPlanned
<1> QED BY <1>1, <1>2, <1>3, Inductive, PTL DEF Spec
=============================================================================
