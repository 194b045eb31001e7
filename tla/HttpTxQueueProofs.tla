------------------------- MODULE HttpTxQueueProofs -------------------------
(* What HttpTxQueue promises, for every number of channels, every length   *)
(* of a response and every fault.                                          *)
(*                                                                         *)
(* Most steps end in HTTP_SendCloseChnl, called on the slots as the step   *)
(* left them.  The invariant of the slots is therefore stated for any      *)
(* slots f and pending channel c, and one lemma shows that                 *)
(* HTTP_SendCloseChnl keeps it.                                            *)
EXTENDS HttpTxQueue, TLAPS

(* OnePending and PlanStaysValid, of slots f and pending channel c.        *)
Pending(f, c) ==
  /\ \A s \in Slots : f[s].phase # 0 <=> (f[s].que # None /\ f[s].que = c)
  /\ \A s, t \in Slots : f[s].que # None /\ f[s].que = f[t].que => s = t
  /\ c # None => \E s \in Slots : f[s].que = c
Plans(f) == \A s \in Slots : f[s].phase = 1 => f[s].held /\ f[s].offset < Chunks

(* Only polling pages go stale, and a snapshot that waits is not stale.    *)
Snapshots(f) ==
  \A s \in Slots : /\ f[s].stale => f[s].page \in Refresh
                   /\ f[s].prepared /\ ~f[s].started => ~f[s].stale

Typed(f, c) == f \in [Slots -> SlotRecords] /\ c \in Channels \cup {None}

QueueOK(f, c) == Typed(f, c) /\ Pending(f, c) /\ Plans(f) /\ Snapshots(f)

(* A command of the ESP32 is for a channel.                                *)
EspOK(e) == e \in EspStates /\ (e.op # "ready" => e.chan \in Channels)

(* The other variables.                                                    *)
RestTyped ==
  /\ timer \in BOOLEAN /\ resetReq \in BOOLEAN
  /\ wifi \in {"reset", "wait", "requests", "send", "prompt", "closed", "sendok", "expire"}
  /\ batch \in Seq(Lines) /\ ring \in Seq(Lines)
  /\ link \in [Channels -> {"closed", "open", "asked"}]
  /\ era \in [Channels -> BOOLEAN]

IInv == RestTyped /\ QueueOK(slot, chnl) /\ EspOK(esp) /\ PendingIsWatched

-----------------------------------------------------------------------------
(* What HTTP_SendCloseChnl leaves of the responses: the channel and page   *)
(* stay, the content of a started response too, one that starts is fresh.  *)
Kept(f, g) ==
  \A s \in Slots :
    /\ g[s].que = f[s].que /\ g[s].page = f[s].page
    /\ f[s].started => g[s].started /\ g[s].stale = f[s].stale
    /\ ~f[s].started /\ g[s].started => ~g[s].stale
    /\ f[s].que = None /\ g[s].started => f[s].started

(* CheckReadyToSendChnl picks a queued slot, and none while one is pending.*)
LEMMA PickIsQueued ==
  ASSUME NEW f, NEW c, NEW prev, NEW s \in CheckReadyToSendChnl(f, c, prev)
  PROVE  c = None /\ s \in Slots /\ f[s].que # None
BY DEF CheckReadyToSendChnl, First, Queued

(* HTTP_PrepareRefresh keeps the invariant and refreshes what it returns.  *)
LEMMA PrepareKeeps ==
  ASSUME NEW f, NEW c, NEW s \in Slots, QueueOK(f, c)
  PROVE  LET g == PrepareRefresh(f, s)
         IN /\ QueueOK(g, c)
            /\ Kept(f, g)
            /\ g[s].started \/ ~g[s].stale
<1> DEFINE g == PrepareRefresh(f, s)
<1>1. CASE f[s].page \notin Refresh \/ f[s].prepared \/ f[s].started
  BY <1>1 DEF PrepareRefresh, QueueOK, Snapshots, Kept
<1>2. CASE ~(f[s].page \notin Refresh \/ f[s].prepared \/ f[s].started)
  <2>1. \A t \in Slots : f[t] \in SlotRecords
    BY DEF QueueOK, Typed
  <2>2. ASSUME NEW t \in Slots
        PROVE  /\ g[t] \in SlotRecords
               /\ g[t].que = f[t].que /\ g[t].page = f[t].page
               /\ g[t].phase = f[t].phase /\ g[t].offset = f[t].offset
               /\ g[t].started = f[t].started
               /\ f[t].held => g[t].held
               /\ g[t] = f[t] \/ (~f[t].started /\ g[t].prepared /\ ~g[t].stale)
    <3>1. g[t] \in {f[t], [f[t] EXCEPT !.prepared = TRUE, !.stale = FALSE],
                    [f[t] EXCEPT !.prepared = TRUE, !.stale = FALSE, !.held = TRUE]}
      BY <1>2 DEF PrepareRefresh
    <3>2. g[t] # f[t] => ~f[t].started
      BY <1>2 DEF PrepareRefresh
    <3> HIDE DEF g
    <3> QED BY <2>1, <3>1, <3>2 DEF SlotRecords
  <2>3. ~g[s].stale
    BY <1>2, <2>1 DEF PrepareRefresh, SlotRecords
  <2>4. g = [t \in Slots |-> g[t]]
    BY <1>2 DEF PrepareRefresh
  <2> HIDE DEF g
  <2>5. Typed(g, c)
    BY <2>2, <2>4 DEF QueueOK, Typed
  <2>6. Pending(g, c)
    BY <2>2 DEF QueueOK, Pending
  <2>7. Plans(g)
    BY <2>2 DEF QueueOK, Plans
  <2>8. Snapshots(g)
    BY <2>2 DEF QueueOK, Snapshots
  <2>9. Kept(f, g)
    BY <2>2 DEF Kept
  <2> QED BY <2>3, <2>5, <2>6, <2>7, <2>8, <2>9 DEF QueueOK, g
<1> QED BY <1>1, <1>2

(* The updates of one slot's record stay records.                          *)
LEMMA UpdateTyped ==
  \A r \in SlotRecords, b \in BOOLEAN, n \in 0..3 :
    /\ [r EXCEPT !.phase = n] \in SlotRecords
    /\ [r EXCEPT !.held = b, !.phase = n] \in SlotRecords
    /\ [r EXCEPT !.held = b, !.phase = n, !.started = b] \in SlotRecords
BY DEF SlotRecords

LEMMA Values ==
  /\ 0 \in 0..3 /\ 1 \in 0..3 /\ 2 \in 0..3 /\ 3 \in 0..3
  /\ TRUE \in BOOLEAN /\ FALSE \in BOOLEAN
OBVIOUS

(* AT+CIPCLOSE makes slot s the pending one.                               *)
LEMMA CloseKeeps ==
  ASSUME NEW f, NEW s \in Slots, QueueOK(f, None), f[s].que # None, EspOK(esp),
         WriteClose(f, s)
  PROVE  QueueOK(slot', chnl') /\ Kept(f, slot') /\ timer' = TRUE /\ EspOK(esp')
<1>1. \A t \in Slots : f[t] \in SlotRecords
  BY DEF QueueOK, Typed
<1>2. /\ slot' = [f EXCEPT ![s] = [f[s] EXCEPT !.held = FALSE, !.phase = 3]]
      /\ chnl' = f[s].que /\ timer' = TRUE
  BY <1>1 DEF WriteClose, QueueOK, Typed, SlotRecords
<1>3. f \in [Slots -> SlotRecords]
  BY DEF QueueOK, Typed
<1>4. slot'[s] = [f[s] EXCEPT !.held = FALSE, !.phase = 3]
  BY <1>2, <1>3
<1>5. \A t \in Slots : t # s => slot'[t] = f[t]
  BY <1>2, <1>3
<1>6. /\ slot'[s] \in SlotRecords /\ slot'[s].phase = 3
      /\ slot'[s].que = f[s].que /\ slot'[s].page = f[s].page
      /\ slot'[s].started = f[s].started /\ slot'[s].prepared = f[s].prepared
      /\ slot'[s].stale = f[s].stale
  <2> DEFINE r == f[s]  q == slot'[s]
  <2>1. r \in SlotRecords
    BY <1>1
  <2>2. q = [r EXCEPT !.held = FALSE, !.phase = 3]
    BY <1>4
  <2> HIDE DEF r, q
  <2>3. q \in SlotRecords
    BY <2>1, <2>2, Values, UpdateTyped
  <2>4. /\ q.phase = 3 /\ q.held = FALSE
      /\ q.que = r.que /\ q.page = r.page /\ q.offset = r.offset
      /\ q.started = r.started /\ q.prepared = r.prepared /\ q.stale = r.stale
    BY <2>1, <2>2 DEF SlotRecords
  <2> QED BY <2>3, <2>4 DEF r, q
<1>7. Typed(slot', chnl')
  BY <1>1, <1>2, <1>3, <1>6 DEF Typed, SlotRecords
<1>8. Pending(slot', chnl')
  BY <1>2, <1>5, <1>6 DEF QueueOK, Pending
<1>9. Plans(slot')
  BY <1>5, <1>6 DEF QueueOK, Plans
<1>10. Snapshots(slot')
  BY <1>5, <1>6 DEF QueueOK, Snapshots
<1>11. Kept(f, slot')
  BY <1>5, <1>6 DEF Kept
<1>12. f[s].que \in Channels
  BY <1>1 DEF SlotRecords
<1>13. EspOK(esp')
  BY <1>12 DEF WriteClose, EspReads, EspOK, EspStates
<1> QED BY <1>2, <1>7, <1>8, <1>9, <1>10, <1>11, <1>13 DEF QueueOK

(* AT+CIPSEND makes s the pending slot and starts its response, unless the *)
(* UART refuses the command.                                               *)
LEMMA SendingKeeps ==
  ASSUME NEW f, NEW s \in Slots, QueueOK(f, None), f[s].que # None, EspOK(esp),
         f[s].offset < Chunks, f[s].started \/ ~f[s].stale,
         WriteSend(f, s)
  PROVE  QueueOK(slot', chnl') /\ Kept(f, slot') /\ timer' = TRUE /\ EspOK(esp')
<1>1. \A t \in Slots : f[t] \in SlotRecords
  BY DEF QueueOK, Typed
<1>2. f \in [Slots -> SlotRecords]
  BY DEF QueueOK, Typed
<1>3. CASE /\ slot' = [f EXCEPT ![s].held = TRUE, ![s].phase = 1, ![s].started = TRUE]
           /\ chnl' = f[s].que
           /\ EspReads("send", f[s].que)
  <2>1. slot' = [f EXCEPT ![s] = [f[s] EXCEPT !.held = TRUE, !.phase = 1, !.started = TRUE]]
    BY <1>1, <1>2, <1>3 DEF SlotRecords
  <2>2. slot'[s] = [f[s] EXCEPT !.held = TRUE, !.phase = 1, !.started = TRUE]
    BY <2>1, <1>2
  <2>3. \A t \in Slots : t # s => slot'[t] = f[t]
    BY <2>1, <1>2
  <2>4. /\ slot'[s] \in SlotRecords /\ slot'[s].phase = 1 /\ slot'[s].held
        /\ slot'[s].que = f[s].que /\ slot'[s].page = f[s].page
        /\ slot'[s].started /\ slot'[s].prepared = f[s].prepared
        /\ slot'[s].stale = f[s].stale /\ slot'[s].offset = f[s].offset
    <3> DEFINE r == f[s]  q == slot'[s]
    <3>1. r \in SlotRecords
      BY <1>1
    <3>2. q = [r EXCEPT !.held = TRUE, !.phase = 1, !.started = TRUE]
      BY <2>2
    <3> HIDE DEF r, q
    <3>3. q \in SlotRecords
      BY <3>1, <3>2, Values, UpdateTyped
    <3>4. /\ q.phase = 1 /\ q.held = TRUE
        /\ q.que = r.que /\ q.page = r.page /\ q.offset = r.offset
        /\ q.started = TRUE /\ q.prepared = r.prepared /\ q.stale = r.stale
      BY <3>1, <3>2 DEF SlotRecords
    <3> QED BY <3>3, <3>4 DEF r, q
  <2>5. Typed(slot', chnl')
    BY <1>1, <1>2, <1>3, <2>1, <2>2, <2>4 DEF Typed, SlotRecords
  <2>6. Pending(slot', chnl')
    <3>1. \A t \in Slots : slot'[t].que = f[t].que
      BY <2>3, <2>4
    <3>2. \A t \in Slots : t # s => f[t].que # chnl' /\ slot'[t].phase = 0
      BY <1>3, <2>3 DEF QueueOK, Pending
    <3>3. slot'[s].phase # 0 /\ slot'[s].que = chnl' /\ chnl' # None
      BY <1>3, <2>4
    <3> QED BY <3>1, <3>2, <3>3 DEF QueueOK, Pending
  <2>7. Plans(slot')
    BY <2>3, <2>4 DEF QueueOK, Plans
  <2>8. Snapshots(slot')
    BY <2>3, <2>4 DEF QueueOK, Snapshots
  <2>9. Kept(f, slot')
    BY <2>3, <2>4 DEF Kept
  <2>10. f[s].que \in Channels
    BY <1>1 DEF SlotRecords
  <2>11. EspOK(esp')
    BY <1>3, <2>10 DEF EspReads, EspOK, EspStates
  <2> QED BY <2>5, <2>6, <2>7, <2>8, <2>9, <2>11 DEF QueueOK, WriteSend
<1>4. CASE /\ slot' = [f EXCEPT ![s].held = TRUE, ![s].phase = 0]
           /\ chnl' = None
           /\ UNCHANGED esp
  <2>1. slot' = [f EXCEPT ![s] = [f[s] EXCEPT !.held = TRUE, !.phase = 0]]
    BY <1>1, <1>2, <1>4 DEF SlotRecords
  <2>2. slot'[s] = [f[s] EXCEPT !.held = TRUE, !.phase = 0]
    BY <2>1, <1>2
  <2>3. \A t \in Slots : t # s => slot'[t] = f[t]
    BY <2>1, <1>2
  <2>4. /\ slot'[s] \in SlotRecords /\ slot'[s].phase = 0 /\ slot'[s].held
        /\ slot'[s].que = f[s].que /\ slot'[s].page = f[s].page
        /\ slot'[s].started = f[s].started /\ slot'[s].prepared = f[s].prepared
        /\ slot'[s].stale = f[s].stale
    <3> DEFINE r == f[s]  q == slot'[s]
    <3>1. r \in SlotRecords
      BY <1>1
    <3>2. q = [r EXCEPT !.held = TRUE, !.phase = 0]
      BY <2>2
    <3> HIDE DEF r, q
    <3>3. q \in SlotRecords
      BY <3>1, <3>2, Values, UpdateTyped
    <3>4. /\ q.phase = 0 /\ q.held = TRUE
        /\ q.que = r.que /\ q.page = r.page /\ q.offset = r.offset
        /\ q.started = r.started /\ q.prepared = r.prepared /\ q.stale = r.stale
      BY <3>1, <3>2 DEF SlotRecords
    <3> QED BY <3>3, <3>4 DEF r, q
  <2>5. Typed(slot', chnl')
    BY <1>2, <1>4, <2>1, <2>2, <2>4 DEF Typed
  <2>6. Pending(slot', chnl')
    <3>1. \A t \in Slots : slot'[t].que = f[t].que
      BY <2>3, <2>4
    <3>2. \A t \in Slots : t # s => slot'[t].phase = 0
      BY <2>3 DEF QueueOK, Pending
    <3>3. slot'[s].phase = 0 /\ chnl' = None
      BY <1>4, <2>4
    <3> QED BY <3>1, <3>2, <3>3 DEF QueueOK, Pending
  <2>7. Plans(slot')
    BY <2>3, <2>4 DEF QueueOK, Plans
  <2>8. Snapshots(slot')
    BY <2>3, <2>4 DEF QueueOK, Snapshots
  <2>9. Kept(f, slot')
    BY <2>3, <2>4 DEF Kept
  <2> QED BY <1>4, <2>5, <2>6, <2>7, <2>8, <2>9 DEF QueueOK, WriteSend
<1> QED BY <1>3, <1>4 DEF WriteSend

(* HTTP_SendCloseChnl, called on any slots f and pending channel c that    *)
(* satisfy the invariant, establishes it, and the watchdog runs if it      *)
(* wrote a command.                                                        *)
LEMMA SendCloseKeeps ==
  ASSUME NEW f, NEW c, NEW run \in BOOLEAN, NEW prev, QueueOK(f, c), EspOK(esp),
         SendCloseChnl(f, c, run, prev)
  PROVE  /\ QueueOK(slot', chnl') /\ Kept(f, slot') /\ EspOK(esp')
         /\ timer' = TRUE \/ (timer' = run /\ chnl' = c)
<1>1. CASE slot' = f /\ chnl' = c /\ timer' = run /\ UNCHANGED esp
  BY <1>1 DEF Kept
<1>2. ASSUME NEW s \in CheckReadyToSendChnl(f, c, prev),
             LET g == PrepareRefresh(f, s)
             IN \/ g[s].offset = Chunks /\ WriteClose(g, s)
                \/ g[s].offset < Chunks /\ WriteSend(g, s)
                \/ /\ g[s].offset < Chunks /\ g[s].page \in Stream
                   /\ WriteClose([g EXCEPT ![s].offset = Chunks], s)
      PROVE  QueueOK(slot', chnl') /\ Kept(f, slot') /\ timer' = TRUE /\ EspOK(esp')
  <2> DEFINE g == PrepareRefresh(f, s)
  <2>1. c = None /\ s \in Slots /\ f[s].que # None
    BY PickIsQueued
  <2>2. QueueOK(g, None) /\ Kept(f, g) /\ (g[s].started \/ ~g[s].stale)
    BY <2>1, PrepareKeeps
  <2>3. g[s].que # None
    BY <2>1, <2>2 DEF Kept
  <2> HIDE DEF g
  <2>4. \A h : Kept(f, g) /\ Kept(g, h) => Kept(f, h)
    BY DEF Kept
  <2>5. CASE WriteClose(g, s)
    BY <2>1, <2>2, <2>3, <2>4, <2>5, CloseKeeps
  <2>6. CASE g[s].offset < Chunks /\ WriteSend(g, s)
    BY <2>1, <2>2, <2>3, <2>4, <2>6, SendingKeeps
  <2>7. CASE g[s].offset < Chunks /\ WriteClose([g EXCEPT ![s].offset = Chunks], s)
    <3> DEFINE h == [g EXCEPT ![s].offset = Chunks]
    <3>1. g \in [Slots -> SlotRecords] /\ g[s] \in SlotRecords
      BY <2>1, <2>2 DEF QueueOK, Typed
    <3>2. h[s] = [g[s] EXCEPT !.offset = Chunks] /\ h = [g EXCEPT ![s] = h[s]]
      BY <2>1, <3>1
    <3>3. \A t \in Slots : t # s => h[t] = g[t]
      BY <3>1
    <3>4. /\ h[s] \in SlotRecords /\ h[s].phase = g[s].phase
          /\ h[s].que = g[s].que /\ h[s].page = g[s].page
          /\ h[s].started = g[s].started /\ h[s].prepared = g[s].prepared
          /\ h[s].stale = g[s].stale
      BY <3>1, <3>2, ConstantsAssumption DEF SlotRecords
    <3>5. g[s].phase = 0
      BY <2>1, <2>2 DEF QueueOK, Pending
    <3> HIDE DEF h
    <3>6. Typed(h, None)
      BY <3>1, <3>2, <3>4 DEF Typed
    <3>7. Pending(h, None) /\ Plans(h) /\ Snapshots(h) /\ Kept(g, h)
      BY <2>2, <3>3, <3>4, <3>5 DEF QueueOK, Pending, Plans, Snapshots, Kept
    <3>8. QueueOK(slot', chnl') /\ Kept(h, slot') /\ timer' = TRUE /\ EspOK(esp')
      BY <2>1, <2>3, <2>7, <3>4, <3>6, <3>7, CloseKeeps DEF QueueOK, h
    <3>9. Kept(f, slot')
      BY <2>2, <3>7, <3>8 DEF Kept
    <3> QED BY <3>8, <3>9
  <2> QED BY <1>2, <2>5, <2>6, <2>7 DEF g
<1> QED BY <1>1, <1>2 DEF SendCloseChnl

-----------------------------------------------------------------------------
(* What every step owes: the action properties, slot by slot.              *)
Step ==
  \A s \in Slots :
    /\ ~slot[s].started /\ slot'[s].started => ~slot'[s].stale
    /\ slot[s].started /\ slot'[s].started =>
         (slot[s].stale => slot'[s].stale) /\ slot'[s].page = slot[s].page
    /\ slot[s].phase \in {1, 2} /\ slot'[s].que = None => wifi \in {"reset", "closed"}

LEMMA EmptyTyped == EmptySlot \in SlotRecords
BY ConstantsAssumption DEF EmptySlot, SlotRecords

(* Clearing the slots in S keeps the invariant, if the pending command is  *)
(* forgotten with its slot.                                                *)
LEMMA ClearKeeps ==
  ASSUME NEW f, NEW c, NEW d, NEW S, QueueOK(f, c),
         d = IF c # None /\ \E s \in S \cap Slots : f[s].que = c THEN None ELSE c
  PROVE  QueueOK([s \in Slots |-> IF s \in S THEN EmptySlot ELSE f[s]], d)
<1> DEFINE g == [s \in Slots |-> IF s \in S THEN EmptySlot ELSE f[s]]
<1>1. \A s \in Slots : s \in S => g[s] = EmptySlot
  OBVIOUS
<1>2. \A s \in Slots : s \notin S => g[s] = f[s]
  OBVIOUS
<1>3. g \in [Slots -> SlotRecords]
  BY EmptyTyped DEF QueueOK, Typed
<1>4. /\ EmptySlot.que = None /\ EmptySlot.phase = 0 /\ EmptySlot.stale = FALSE
      /\ EmptySlot.prepared = FALSE
  BY DEF EmptySlot
<1> HIDE DEF g
<1>5. Typed(g, d)
  BY <1>3 DEF QueueOK, Typed
<1>6. Pending(g, d)
  <2>1. ASSUME NEW s \in Slots
        PROVE  g[s].phase # 0 <=> (g[s].que # None /\ g[s].que = d)
    BY <1>1, <1>2, <1>4 DEF QueueOK, Pending
  <2>2. ASSUME NEW s \in Slots, NEW t \in Slots, g[s].que # None, g[s].que = g[t].que
        PROVE  s = t
    BY <2>2, <1>1, <1>2, <1>4 DEF QueueOK, Pending
  <2>3. d # None => \E s \in Slots : g[s].que = d
    BY <1>2 DEF QueueOK, Pending
  <2> QED BY <2>1, <2>2, <2>3 DEF Pending
<1>7. Plans(g) /\ Snapshots(g)
  BY <1>1, <1>2, <1>4 DEF QueueOK, Plans, Snapshots
<1> QED BY <1>5, <1>6, <1>7 DEF QueueOK, g

(* A step that clears slots and then calls HTTP_SendCloseChnl.             *)
LEMMA ClearThenSend ==
  ASSUME IInv, NEW S, NEW run \in BOOLEAN, NEW d,
         d = IF chnl # None /\ \E s \in S \cap Slots : slot[s].que = chnl THEN None ELSE chnl,
         d # None => run \/ resetReq,
         SendCloseChnl([s \in Slots |-> IF s \in S THEN EmptySlot ELSE slot[s]], d, run, None),
         \A s \in S \cap Slots : slot[s].phase \in {1, 2} => wifi \in {"reset", "closed"},
         UNCHANGED resetReq
  PROVE  /\ QueueOK(slot', chnl') /\ EspOK(esp') /\ timer' \in BOOLEAN
         /\ PendingIsWatched' /\ Step
<1> DEFINE f == [s \in Slots |-> IF s \in S THEN EmptySlot ELSE slot[s]]
<1>1. QueueOK(f, d)
  BY ClearKeeps DEF IInv
<1>2. \A s \in Slots : f[s] = IF s \in S THEN EmptySlot ELSE slot[s]
  OBVIOUS
<1> HIDE DEF f
<1>3. /\ QueueOK(slot', chnl') /\ Kept(f, slot') /\ EspOK(esp')
      /\ timer' = TRUE \/ (timer' = run /\ chnl' = d)
  BY <1>1, SendCloseKeeps DEF IInv, f
<1>4. PendingIsWatched'
  BY <1>3 DEF PendingIsWatched
<1>5. Step
  <2> SUFFICES ASSUME NEW s \in Slots
               PROVE  /\ ~slot[s].started /\ slot'[s].started => ~slot'[s].stale
                      /\ slot[s].started /\ slot'[s].started =>
                           (slot[s].stale => slot'[s].stale) /\ slot'[s].page = slot[s].page
                      /\ slot[s].phase \in {1, 2} /\ slot'[s].que = None =>
                           wifi \in {"reset", "closed"}
    BY DEF Step
  <2>1. CASE s \in S
    <3>1. f[s].que = None /\ f[s].started = FALSE
      BY <1>2, <2>1 DEF EmptySlot
    <3>2. ~slot'[s].started
      BY <1>3, <3>1 DEF Kept
    <3> QED BY <2>1, <3>2
  <2>2. CASE s \notin S
    <3>1. f[s] = slot[s]
      BY <1>2, <2>2
    <3>2. slot[s].phase \in {1, 2} => slot[s].que # None
      BY DEF IInv, QueueOK, Pending
    <3> QED BY <1>3, <3>1, <3>2 DEF Kept
  <2> QED BY <2>1, <2>2
<1>6. timer' \in BOOLEAN
  BY <1>3
<1> QED BY <1>3, <1>4, <1>5, <1>6

(* A step that leaves the slots, the pending command and the watchdog.     *)
LEMMA QuietStep ==
  ASSUME IInv, UNCHANGED <<slot, chnl, timer, resetReq>>, RestTyped', EspOK(esp')
  PROVE  IInv' /\ Step
BY DEF IInv, QueueOK, Typed, Pending, Plans, Snapshots, PendingIsWatched, Step

-----------------------------------------------------------------------------
(* The steps of the environment.                                           *)
LEMMA ReceiveTyped ==
  ASSUME NEW l \in Lines, ring \in Seq(Lines), Receive(l)
  PROVE  ring' \in Seq(Lines)
BY DEF Receive

LEMMA EspStep == IInv /\ Esp => IInv' /\ Step
<1> SUFFICES ASSUME IInv, Esp PROVE IInv' /\ Step
  OBVIOUS
<1>1. RestTyped /\ EspOK(esp)
  BY DEF IInv
<1>2. CASE EspPrompts
  <2>1. [line |-> "prompt"] \in Lines
    BY DEF Lines
  <2>2. ring' \in Seq(Lines)
    BY <1>1, <1>2, <2>1, ReceiveTyped DEF EspPrompts, RestTyped
  <2>3. RestTyped'
    BY <1>1, <1>2, <2>2 DEF EspPrompts, RestTyped, task
  <2>4. EspOK(esp')
    BY <1>1, <1>2 DEF EspPrompts, EspOK, EspStates
  <2> QED BY <1>2, <2>3, <2>4, QuietStep DEF EspPrompts, task
<1>3. CASE EspSent
  <2>1. [line |-> "sendok"] \in Lines
    BY DEF Lines
  <2>2. ring' \in Seq(Lines)
    BY <1>1, <1>3, <2>1, ReceiveTyped DEF EspSent, RestTyped
  <2>3. RestTyped'
    BY <1>1, <1>3, <2>2 DEF EspSent, RestTyped, task
  <2>4. EspOK(esp')
    BY <1>3 DEF EspSent, EspOK, EspStates
  <2> QED BY <1>3, <2>3, <2>4, QuietStep DEF EspSent, task
<1>4. CASE EspCloses
  <2>1. esp.chan \in Channels
    BY <1>1, <1>4 DEF EspCloses, EspOK
  <2>2. [line |-> "closed", chan |-> esp.chan] \in Lines
    BY <2>1 DEF Lines
  <2>3. ring' \in Seq(Lines)
    BY <1>1, <1>4, <2>2, ReceiveTyped DEF EspCloses, RestTyped
  <2>4. link' \in [Channels -> {"closed", "open", "asked"}]
    BY <1>1, <1>4, <2>1 DEF EspCloses, RestTyped
  <2>5. RestTyped'
    BY <1>1, <1>4, <2>3, <2>4 DEF EspCloses, RestTyped, task
  <2>6. EspOK(esp')
    BY <1>4 DEF EspCloses, EspOK, EspStates
  <2> QED BY <1>4, <2>5, <2>6, QuietStep DEF EspCloses, task
<1>5. CASE EspFails
  <2>1. RestTyped'
    BY <1>1, <1>5 DEF EspFails, RestTyped, task
  <2>2. EspOK(esp')
    BY <1>5 DEF EspFails, EspOK, EspStates
  <2> QED BY <1>5, <2>1, <2>2, QuietStep DEF EspFails, task
<1> QED BY <1>2, <1>3, <1>4, <1>5 DEF Esp

LEMMA ClientStep ==
  ASSUME NEW c \in Channels, IInv, Client(c)
  PROVE  IInv' /\ Step
<1>1. RestTyped /\ EspOK(esp)
  BY DEF IInv
<1>2. CASE Connect(c)
  <2>1. link' \in [Channels -> {"closed", "open", "asked"}]
    BY <1>1, <1>2 DEF Connect, RestTyped
  <2>2. era' \in [Channels -> BOOLEAN]
    <3>1. \A b : (~b) \in BOOLEAN
      OBVIOUS
    <3>2. era \in [Channels -> BOOLEAN] /\ era[c] \in BOOLEAN
      BY <1>1 DEF RestTyped
    <3>3. era' = [era EXCEPT ![c] = ~era[c]] \/ era' = [era EXCEPT ![c] = era[c]]
      BY <1>2 DEF Connect
    <3> QED BY <3>1, <3>2, <3>3
  <2>3. RestTyped'
    BY <1>1, <1>2, <2>1, <2>2 DEF Connect, RestTyped, task
  <2> QED BY <1>1, <1>2, <2>3, QuietStep DEF Connect, task
<1>3. ASSUME NEW p \in Pages, Ask(c, p)
      PROVE  IInv' /\ Step
  <2>1. era[c] \in BOOLEAN
    BY <1>1 DEF RestTyped
  <2>2. [line |-> "get", chan |-> c, page |-> p, era |-> era[c]] \in Lines
    BY <2>1 DEF Lines
  <2>3. ring' \in Seq(Lines)
    BY <1>1, <1>3, <2>2, ReceiveTyped DEF Ask, RestTyped
  <2>4. link' \in [Channels -> {"closed", "open", "asked"}]
    BY <1>1, <1>3 DEF Ask, RestTyped
  <2>5. RestTyped'
    BY <1>1, <1>3, <2>3, <2>4 DEF Ask, RestTyped, task
  <2> QED BY <1>1, <1>3, <2>5, QuietStep DEF Ask, task
<1>4. CASE Hangup(c)
  <2>1. [line |-> "closed", chan |-> c] \in Lines
    BY DEF Lines
  <2>2. ring' \in Seq(Lines)
    BY <1>1, <1>4, <2>1, ReceiveTyped DEF Hangup, RestTyped
  <2>3. link' \in [Channels -> {"closed", "open", "asked"}]
    BY <1>1, <1>4 DEF Hangup, RestTyped
  <2>4. RestTyped'
    BY <1>1, <1>4, <2>2, <2>3 DEF Hangup, RestTyped, task
  <2> QED BY <1>1, <1>4, <2>4, QuietStep DEF Hangup, task
<1> QED BY <1>2, <1>3, <1>4 DEF Client

-----------------------------------------------------------------------------
(* The steps of the WiFi task that leave the slots alone.                  *)
LEMMA SequenceFacts ==
  ASSUME NEW q \in Seq(Lines)
  PROVE  /\ q # <<>> => Front(q) \in Seq(Lines)
         /\ \A i \in DOMAIN q : q[i] \in Lines /\ RemoveAt(q, i) \in Seq(Lines)
<1>1. q # <<>> => Front(q) \in Seq(Lines)
  BY DEF Front
<1>2. \A i \in DOMAIN q : q[i] \in Lines
  OBVIOUS
<1>3. ASSUME NEW i \in DOMAIN q PROVE RemoveAt(q, i) \in Seq(Lines)
  BY DEF RemoveAt
<1> QED BY <1>1, <1>2, <1>3

LEMMA QuietLoop ==
  IInv /\ (TakeBatch \/ WaitExpires \/ RequestsDone \/ NoPayload \/ NoneClosed
            \/ NotAcknowledged \/ NoneExpired)
    => IInv' /\ Step
<1> SUFFICES ASSUME IInv, TakeBatch \/ WaitExpires \/ RequestsDone \/ NoPayload
                          \/ NoneClosed \/ NotAcknowledged \/ NoneExpired
             PROVE  IInv' /\ Step
  OBVIOUS
<1>1. RestTyped /\ EspOK(esp)
  BY DEF IInv
<1>2. CASE TakeBatch
  <2>1. batch' \in Seq(Lines) /\ ring' \in Seq(Lines)
    BY <1>1, <1>2, SequenceFacts DEF TakeBatch, RestTyped
  <2>2. RestTyped'
    BY <1>1, <1>2, <2>1 DEF TakeBatch, RestTyped, env
  <2> QED BY <1>1, <1>2, <2>2, QuietStep DEF TakeBatch, env
<1>3. CASE WaitExpires
  <2>1. RestTyped'
    BY <1>1, <1>3 DEF WaitExpires, RestTyped, env
  <2> QED BY <1>1, <1>3, <2>1, QuietStep DEF WaitExpires, env
<1>4. CASE RequestsDone
  <2>1. RestTyped'
    BY <1>1, <1>4 DEF RequestsDone, RestTyped, env
  <2> QED BY <1>1, <1>4, <2>1, QuietStep DEF RequestsDone, env
<1>5. CASE NoPayload
  <2>1. RestTyped'
    BY <1>1, <1>5 DEF NoPayload, RestTyped, env
  <2> QED BY <1>1, <1>5, <2>1, QuietStep DEF NoPayload, env
<1>6. CASE NoneClosed
  <2>1. RestTyped'
    BY <1>1, <1>6 DEF NoneClosed, RestTyped, env
  <2> QED BY <1>1, <1>6, <2>1, QuietStep DEF NoneClosed, env
<1>7. CASE NotAcknowledged
  <2>1. batch' \in Seq(Lines)
    BY <1>7 DEF NotAcknowledged
  <2>2. RestTyped'
    BY <1>1, <1>7, <2>1 DEF NotAcknowledged, RestTyped, env
  <2> QED BY <1>1, <1>7, <2>2, QuietStep DEF NotAcknowledged, env
<1>8. CASE NoneExpired
  <2>1. RestTyped'
    BY <1>1, <1>8 DEF NoneExpired, RestTyped, env
  <2> QED BY <1>1, <1>8, <2>1, QuietStep DEF NoneExpired, env
<1> QED BY <1>2, <1>3, <1>4, <1>5, <1>6, <1>7, <1>8

LEMMA WatchdogStep == IInv /\ WatchdogFires => IInv' /\ Step
<1> SUFFICES ASSUME IInv, WatchdogFires PROVE IInv' /\ Step
  OBVIOUS
<1>1. RestTyped'
  BY DEF IInv, WatchdogFires, RestTyped, env
<1>2. QueueOK(slot', chnl') /\ Step
  BY DEF IInv, WatchdogFires, QueueOK, Typed, Pending, Plans, Snapshots, Step
<1>3. EspOK(esp') /\ PendingIsWatched'
  BY DEF IInv, WatchdogFires, EspOK, PendingIsWatched, env
<1> QED BY <1>1, <1>2, <1>3 DEF IInv

-----------------------------------------------------------------------------
(* The steps of the WiFi task that change the slots.                       *)
LEMMA ResetStep == IInv /\ ApplyReset => IInv' /\ Step
<1> SUFFICES ASSUME IInv, ApplyReset PROVE IInv' /\ Step
  OBVIOUS
<1>1. RestTyped'
  BY DEF IInv, ApplyReset, RestTyped, env
<1>2. EspOK(esp')
  BY DEF IInv, ApplyReset, EspOK, env
<1>3. CASE resetReq
  <2>1. slot' = [s \in Slots |-> EmptySlot] /\ chnl' = None
    BY <1>3 DEF ApplyReset
  <2>2. \A s \in Slots : slot'[s] = EmptySlot
    BY <2>1
  <2>3. /\ EmptySlot.que = None /\ EmptySlot.phase = 0 /\ EmptySlot.stale = FALSE
        /\ EmptySlot.started = FALSE
    BY DEF EmptySlot
  <2>4. Typed(slot', chnl')
    BY <2>1, EmptyTyped DEF Typed
  <2>5. Pending(slot', chnl') /\ Plans(slot') /\ Snapshots(slot')
    BY <2>1, <2>2, <2>3 DEF Pending, Plans, Snapshots
  <2>6. Step
    BY <2>2, <2>3 DEF Step, ApplyReset
  <2>7. PendingIsWatched'
    BY <2>1 DEF PendingIsWatched
  <2> QED BY <1>1, <1>2, <2>4, <2>5, <2>6, <2>7 DEF IInv, QueueOK
<1>4. CASE ~resetReq
  BY <1>1, <1>2, <1>4, QuietStep DEF ApplyReset
<1> QED BY <1>3, <1>4

LEMMA StartStep == IInv /\ StartSend => IInv' /\ Step
<1> SUFFICES ASSUME IInv, StartSend PROVE IInv' /\ Step
  OBVIOUS
<1> DEFINE S == {}
<1>1. [s \in Slots |-> IF s \in S THEN EmptySlot ELSE slot[s]] = slot
  BY DEF IInv, QueueOK, Typed
<1>2. chnl = IF chnl # None /\ \E s \in S \cap Slots : slot[s].que = chnl THEN None ELSE chnl
  OBVIOUS
<1>3. timer \in BOOLEAN /\ (chnl # None => timer \/ resetReq)
  BY DEF IInv, RestTyped, PendingIsWatched
<1>4. SendCloseChnl(slot, chnl, timer, None) /\ UNCHANGED resetReq
  BY DEF StartSend
<1>5. \A s \in S \cap Slots : slot[s].phase \in {1, 2} => wifi \in {"reset", "closed"}
  OBVIOUS
<1> HIDE DEF S
<1>6. /\ QueueOK(slot', chnl') /\ EspOK(esp') /\ timer' \in BOOLEAN
      /\ PendingIsWatched' /\ Step
  BY <1>1, <1>2, <1>3, <1>4, <1>5, ClearThenSend
<1>7. RestTyped'
  BY <1>6 DEF IInv, StartSend, RestTyped
<1> QED BY <1>6, <1>7 DEF IInv

(* The line found is one of the batch.                                     *)
LEMMA LineTyped ==
  ASSUME RestTyped, NEW kind, NEW k \in FirstOf(kind)
  PROVE  k \in DOMAIN batch /\ batch[k] \in Lines /\ batch[k].line = kind
BY SequenceFacts DEF RestTyped, FirstOf

LEMMA ClosedPendingStep == IInv /\ ClosedPending => IInv' /\ Step
<1> SUFFICES ASSUME IInv, ClosedPending PROVE IInv' /\ Step
  OBVIOUS
<1> DEFINE S == {s \in Slots : slot[s].que = chnl}
<1>1. PICK k \in FirstOf("closed") :
        batch[k].chan = chnl /\ SendCloseChnl(Without(slot, chnl), None, FALSE, None)
  BY DEF ClosedPending
<1>2. batch[k] \in Lines /\ batch[k].line = "closed"
  BY LineTyped DEF IInv
<1>3. chnl # None
  BY <1>1, <1>2 DEF Lines, Channels, None
<1>4. Without(slot, chnl) = [s \in Slots |-> IF s \in S THEN EmptySlot ELSE slot[s]]
  BY DEF Without
<1>5. \E s \in S \cap Slots : slot[s].que = chnl
  BY <1>3 DEF IInv, QueueOK, Pending
<1>6. wifi = "closed" /\ UNCHANGED resetReq
  BY DEF ClosedPending
<1> HIDE DEF S
<1>7. None = IF chnl # None /\ \E s \in S \cap Slots : slot[s].que = chnl THEN None ELSE chnl
  BY <1>3, <1>5
<1>8. /\ QueueOK(slot', chnl') /\ EspOK(esp') /\ timer' \in BOOLEAN
      /\ PendingIsWatched' /\ Step
  <2>1. SendCloseChnl([s \in Slots |-> IF s \in S THEN EmptySlot ELSE slot[s]],
                      None, FALSE, None)
    BY <1>1, <1>4
  <2>2. \A s \in S \cap Slots : slot[s].phase \in {1, 2} => wifi \in {"reset", "closed"}
    BY <1>6
  <2>3. None # None => FALSE \/ resetReq
    OBVIOUS
  <2> QED BY <2>1, <2>2, <2>3, <1>6, <1>7, Values, ClearThenSend
<1>9. RestTyped'
  BY <1>8 DEF IInv, ClosedPending, RestTyped
<1> QED BY <1>8, <1>9 DEF IInv

LEMMA ClosedOtherStep == IInv /\ ClosedOther => IInv' /\ Step
<1> SUFFICES ASSUME IInv, ClosedOther PROVE IInv' /\ Step
  OBVIOUS
<1>1. PICK k \in FirstOf("closed") : batch[k].chan # chnl /\ slot' = Without(slot, batch[k].chan)
  BY DEF ClosedOther
<1> DEFINE S == {s \in Slots : slot[s].que = batch[k].chan}
<1>2. slot' = [s \in Slots |-> IF s \in S THEN EmptySlot ELSE slot[s]]
  BY <1>1 DEF Without
<1>3. \A s \in S \cap Slots : slot[s].que # chnl
  BY <1>1
<1>4. /\ chnl' = chnl /\ timer' = timer /\ resetReq' = resetReq /\ esp' = esp
      /\ wifi = "closed"
  BY DEF ClosedOther, env
<1> HIDE DEF S
<1>5. QueueOK(slot', chnl')
  BY <1>2, <1>3, <1>4, ClearKeeps DEF IInv
<1>6. Step
  <2>1. \A s \in Slots : slot'[s] = EmptySlot \/ slot'[s] = slot[s]
    BY <1>2
  <2>2. EmptySlot.started = FALSE
    BY DEF EmptySlot
  <2> QED BY <1>4, <2>1, <2>2 DEF Step
<1>7. RestTyped'
  BY DEF IInv, ClosedOther, RestTyped, env
<1>8. EspOK(esp') /\ PendingIsWatched'
  BY <1>4 DEF IInv, EspOK, PendingIsWatched
<1> QED BY <1>5, <1>6, <1>7, <1>8 DEF IInv

LEMMA ExpireStep ==
  ASSUME NEW S \in SUBSET Slots, IInv, ExpireIdleSlots(S)
  PROVE  IInv' /\ Step
<1> DEFINE freed == chnl # None /\ \E s \in S : slot[s].que = chnl
           d == IF freed THEN None ELSE chnl
<1>1. SendCloseChnl([s \in Slots |-> IF s \in S THEN EmptySlot ELSE slot[s]],
                    d, timer /\ ~freed, None)
  BY DEF ExpireIdleSlots
<1>2. d = IF chnl # None /\ \E s \in S \cap Slots : slot[s].que = chnl THEN None ELSE chnl
  OBVIOUS
<1>3. \A s \in S \cap Slots : slot[s].phase \in {1, 2} => wifi \in {"reset", "closed"}
  BY DEF ExpireIdleSlots, MayExpire, IInv, QueueOK, Pending
<1>4. UNCHANGED resetReq
  BY DEF ExpireIdleSlots
<1>5. d # None => (timer /\ ~freed) \/ resetReq
  BY DEF IInv, PendingIsWatched
<1>6. (timer /\ ~freed) \in BOOLEAN
  <2>1. \A a, b : (a /\ b) \in BOOLEAN
    OBVIOUS
  <2> QED BY <2>1
<1> HIDE DEF freed, d
<1>7. /\ QueueOK(slot', chnl') /\ EspOK(esp') /\ timer' \in BOOLEAN
      /\ PendingIsWatched' /\ Step
  BY <1>1, <1>2, <1>3, <1>4, <1>5, <1>6, ClearThenSend
<1>8. RestTyped'
  BY <1>7 DEF IInv, ExpireIdleSlots, RestTyped
<1> QED BY <1>7, <1>8 DEF IInv

LEMMA AcknowledgeStep == IInv /\ SendAcknowledged => IInv' /\ Step
<1> SUFFICES ASSUME IInv, SendAcknowledged PROVE IInv' /\ Step
  OBVIOUS
<1>1. PICK s \in Slots :
        Sent(s) /\ SendCloseChnl([slot EXCEPT ![s].phase = 0], None, FALSE, chnl)
  BY DEF SendAcknowledged
<1> DEFINE f == [slot EXCEPT ![s].phase = 0]
<1>2. slot \in [Slots -> SlotRecords] /\ slot[s] \in SlotRecords
  BY DEF IInv, QueueOK, Typed
<1>3. f[s] = [slot[s] EXCEPT !.phase = 0] /\ f = [slot EXCEPT ![s] = f[s]]
  BY <1>2
<1>4. \A t \in Slots : t # s => f[t] = slot[t]
  BY <1>2
<1>5. f[s] \in SlotRecords
  BY <1>2, <1>3, Values, UpdateTyped
<1>6. /\ f[s].phase = 0 /\ f[s].que = slot[s].que /\ f[s].page = slot[s].page
      /\ f[s].started = slot[s].started /\ f[s].prepared = slot[s].prepared
      /\ f[s].stale = slot[s].stale
  BY <1>2, <1>3 DEF SlotRecords
<1>7. slot[s].que = chnl /\ chnl # None
  BY <1>1 DEF Sent, Queued
<1> HIDE DEF f
<1>8. Typed(f, None)
  BY <1>2, <1>3, <1>5 DEF Typed
<1>9. Pending(f, None)
  <2>1. \A t \in Slots : f[t].que = slot[t].que
    BY <1>4, <1>6
  <2>2. \A t \in Slots : f[t].phase = 0
    BY <1>4, <1>6, <1>7 DEF IInv, QueueOK, Pending
  <2> QED BY <2>1, <2>2 DEF IInv, QueueOK, Pending
<1>10. Plans(f) /\ Snapshots(f)
  BY <1>4, <1>6 DEF IInv, QueueOK, Plans, Snapshots
<1>11. QueueOK(f, None) /\ EspOK(esp) /\ FALSE \in BOOLEAN
  BY <1>8, <1>9, <1>10, Values DEF QueueOK, IInv
<1>12. /\ QueueOK(slot', chnl') /\ Kept(f, slot') /\ EspOK(esp')
       /\ timer' = TRUE \/ (timer' = FALSE /\ chnl' = None)
  BY <1>1, <1>11, SendCloseKeeps DEF f
<1>13. Step
  <2>1. \A t \in Slots : slot[t].phase \in {1, 2} => slot[t].que # None
    BY DEF IInv, QueueOK, Pending
  <2>2. \A t \in Slots : /\ f[t].que = slot[t].que /\ f[t].page = slot[t].page
                         /\ f[t].started = slot[t].started /\ f[t].stale = slot[t].stale
    BY <1>4, <1>6
  <2> QED BY <1>12, <2>1, <2>2 DEF Kept, Step
<1>14. PendingIsWatched'
  BY <1>12 DEF PendingIsWatched
<1>15. timer' \in BOOLEAN /\ batch' \in Seq(Lines)
  <2>1. timer' \in BOOLEAN
    BY <1>12
  <2>2. batch' \in Seq(Lines)
    BY DEF SendAcknowledged
  <2> QED BY <2>1, <2>2
<1>16. RestTyped'
  BY <1>15 DEF IInv, SendAcknowledged, RestTyped
<1> QED BY <1>12, <1>13, <1>14, <1>16 DEF IInv

(* HTTP_QueueResponse on a free slot, for a channel that has none.         *)
LEMMA EnqueueKeeps ==
  ASSUME QueueOK(slot, chnl), NEW i \in Slots, NEW m,
         m.chan \in Channels, m.page \in Pages, m.era \in BOOLEAN,
         slot[i].que = None, \A s \in Slots : slot[s].que # m.chan
  PROVE  LET g == Enqueued(i, m)
         IN /\ QueueOK(g, chnl)
            /\ \A s \in Slots :
                 /\ g[s].started => /\ slot[s].started
                                    /\ slot[s].stale => g[s].stale
                                    /\ g[s].page = slot[s].page
                 /\ slot[s].que # None => g[s].que # None
<1> DEFINE new == [que |-> m.chan, phase |-> 0, page |-> m.page, prepared |-> FALSE,
                   started |-> FALSE, held |-> TRUE, offset |-> 0,
                   stale |-> m.page \in Refresh, born |-> m.era]
           f == [slot EXCEPT ![i] = new]
           old(t) == [f[t] EXCEPT !.stale = TRUE, !.prepared = @ /\ f[t].started]
           g == Enqueued(i, m)
<1>1. slot \in [Slots -> SlotRecords]
  BY DEF QueueOK, Typed
<1>2. (m.page \in Refresh) \in BOOLEAN
  OBVIOUS
<1>3. new \in SlotRecords
  BY <1>2, ConstantsAssumption DEF SlotRecords
<1>4. \A t \in Slots : f[t] = IF t = i THEN new ELSE slot[t]
  BY <1>1
<1>5. \A t \in Slots : f[t] \in SlotRecords
  BY <1>1, <1>3, <1>4
<1>6. /\ new.que = m.chan /\ new.phase = 0 /\ new.page = m.page /\ new.prepared = FALSE
      /\ new.started = FALSE /\ new.stale = (m.page \in Refresh)
  OBVIOUS
<1> HIDE DEF new
<1>7. g = [t \in Slots |-> IF Queued(f, t) /\ f[t].page \in Refresh
                             /\ (m.page \in Refresh => f[t].page = m.page)
                          THEN old(t) ELSE f[t]]
  BY DEF Enqueued, new
<1> HIDE DEF f
<1>8. ASSUME NEW t \in Slots
      PROVE  /\ old(t) \in SlotRecords /\ old(t).que = f[t].que /\ old(t).phase = f[t].phase
             /\ old(t).page = f[t].page /\ old(t).started = f[t].started
             /\ old(t).held = f[t].held /\ old(t).offset = f[t].offset
             /\ old(t).stale = TRUE /\ old(t).prepared = (f[t].prepared /\ f[t].started)
  BY <1>5 DEF SlotRecords
<1> HIDE DEF old, g
<1>9. ASSUME NEW t \in Slots
      PROVE  /\ g[t] \in SlotRecords /\ g[t].que = f[t].que /\ g[t].phase = f[t].phase
             /\ g[t].page = f[t].page /\ g[t].started = f[t].started
             /\ g[t].held = f[t].held /\ g[t].offset = f[t].offset
             /\ f[t].stale => g[t].stale
             /\ g[t] # f[t] => f[t].page \in Refresh /\ (g[t].prepared => f[t].started)
  <2>1. g[t] = f[t] \/ (g[t] = old(t) /\ f[t].page \in Refresh)
    BY <1>7
  <2> QED BY <2>1, <1>5, <1>8
<1>10. Typed(g, chnl)
  BY <1>7, <1>9 DEF QueueOK, Typed
<1>11. chnl # m.chan
  BY DEF QueueOK, Pending, Channels, None
<1>12. Pending(g, chnl)
  <2>1. \A t \in Slots : g[t].que = IF t = i THEN m.chan ELSE slot[t].que
    BY <1>4, <1>6, <1>9
  <2>2. \A t \in Slots : g[t].phase = IF t = i THEN 0 ELSE slot[t].phase
    BY <1>4, <1>6, <1>9
  <2>3. ASSUME NEW s \in Slots
        PROVE  g[s].phase # 0 <=> (g[s].que # None /\ g[s].que = chnl)
    BY <1>11, <2>1, <2>2 DEF QueueOK, Pending
  <2>4. ASSUME NEW s \in Slots, NEW t \in Slots, g[s].que # None, g[s].que = g[t].que
        PROVE  s = t
    BY <2>1, <2>4 DEF QueueOK, Pending
  <2>5. chnl # None => \E s \in Slots : g[s].que = chnl
    BY <2>1 DEF QueueOK, Pending
  <2> QED BY <2>3, <2>4, <2>5 DEF Pending
<1>13. Plans(g)
  BY <1>4, <1>6, <1>9 DEF QueueOK, Plans
<1>14. Snapshots(g)
  <2>1. \A t \in Slots : /\ f[t].stale => f[t].page \in Refresh
                         /\ f[t].prepared /\ ~f[t].started => ~f[t].stale
    BY <1>4, <1>6 DEF QueueOK, Snapshots
  <2> QED BY <1>9, <2>1 DEF Snapshots
<1>15. ASSUME NEW s \in Slots
       PROVE  /\ g[s].started => /\ slot[s].started
                                 /\ slot[s].stale => g[s].stale
                                 /\ g[s].page = slot[s].page
              /\ slot[s].que # None => g[s].que # None
  BY <1>4, <1>6, <1>9
<1> QED BY <1>10, <1>12, <1>13, <1>14, <1>15 DEF QueueOK, g

LEMMA RequestStep == IInv /\ HandleTarget => IInv' /\ Step
<1> SUFFICES ASSUME IInv, HandleTarget PROVE IInv' /\ Step
  OBVIOUS
<1>1. PICK k \in FirstOf("get") :
        /\ batch' = RemoveAt(batch, k)
        /\ IF FreeSlot = {} \/ \E s \in Slots : slot[s].que = batch[k].chan
           THEN UNCHANGED slot
           ELSE \E i \in FreeSlot : slot' = Enqueued(i, batch[k])
  BY DEF HandleTarget
<1>2. k \in DOMAIN batch /\ batch[k] \in Lines /\ batch[k].line = "get"
  BY LineTyped DEF IInv
<1>3. batch' \in Seq(Lines)
  BY <1>1, <1>2, SequenceFacts DEF IInv, RestTyped
<1>4. RestTyped'
  BY <1>3 DEF IInv, HandleTarget, RestTyped, env
<1>5. EspOK(esp')
  BY DEF IInv, HandleTarget, EspOK, env
<1>6. UNCHANGED <<chnl, timer, resetReq>> /\ wifi = "requests"
  BY DEF HandleTarget
<1>7. CASE UNCHANGED slot
  BY <1>4, <1>5, <1>6, <1>7, QuietStep
<1>8. CASE \E i \in FreeSlot : slot' = Enqueued(i, batch[k])
             /\ \A s \in Slots : slot[s].que # batch[k].chan
  <2>1. PICK i \in Slots : slot[i].que = None /\ slot' = Enqueued(i, batch[k])
    BY <1>8 DEF FreeSlot, First, Queued
  <2>2. batch[k].chan \in Channels /\ batch[k].page \in Pages /\ batch[k].era \in BOOLEAN
    BY <1>2 DEF Lines
  <2>3. /\ QueueOK(slot', chnl)
        /\ \A s \in Slots :
             /\ slot'[s].started => /\ slot[s].started
                                    /\ slot[s].stale => slot'[s].stale
                                    /\ slot'[s].page = slot[s].page
             /\ slot[s].que # None => slot'[s].que # None
    BY <1>8, <2>1, <2>2, EnqueueKeeps DEF IInv
  <2>4. Step
    BY <2>3 DEF IInv, QueueOK, Pending, Step
  <2>5. PendingIsWatched'
    BY <1>6 DEF IInv, PendingIsWatched
  <2> QED BY <1>4, <1>5, <1>6, <2>3, <2>4, <2>5 DEF IInv
<1> QED BY <1>1, <1>7, <1>8

LEMMA PayloadStep == IInv /\ SendPayload => IInv' /\ Step
<1> SUFFICES ASSUME IInv, SendPayload PROVE IInv' /\ Step
  OBVIOUS
<1>1. PICK s \in Slots, ok \in HalResults :
        /\ Planned(s)
        /\ IF ~PlanValid(s)
           THEN /\ slot' = [slot EXCEPT ![s].held = FALSE, ![s].offset = Chunks, ![s].phase = 0]
                /\ chnl' = None
                /\ UNCHANGED <<batch, timer, esp>>
           ELSE /\ batch' = <<>>
                /\ timer' = TRUE
                /\ IF ok
                   THEN /\ slot' = [slot EXCEPT ![s] = Copied(@)]
                        /\ EspReadsBytes
                        /\ UNCHANGED chnl
                   ELSE /\ slot' = [slot EXCEPT ![s].phase = 0]
                        /\ chnl' = None
                        /\ UNCHANGED esp
  BY DEF SendPayload
<1>2. slot \in [Slots -> SlotRecords] /\ slot[s] \in SlotRecords
  BY DEF IInv, QueueOK, Typed
<1>3. slot[s].que # None /\ slot[s].que = chnl /\ slot[s].phase = 1
  BY <1>1 DEF Planned, Queued
<1>4. PlanValid(s)
  BY <1>3 DEF IInv, QueueOK, Plans, PlanValid
<1>5. batch' = <<>> /\ timer' = TRUE /\ wifi' = "closed" /\ UNCHANGED <<resetReq, ring, link, era>>
  BY <1>1, <1>4 DEF SendPayload
<1>6. RestTyped'
  <2>1. timer' \in BOOLEAN
    BY <1>5
  <2>2. batch' \in Seq(Lines)
    BY <1>5
  <2> QED BY <1>5, <2>1, <2>2 DEF IInv, RestTyped
<1>7. EspOK(esp')
  BY <1>1, <1>4 DEF IInv, EspOK, EspStates, EspReadsBytes
<1>8. PendingIsWatched'
  BY <1>5 DEF PendingIsWatched
<1>9. \E q \in SlotRecords :
        /\ slot' = [slot EXCEPT ![s] = q]
        /\ q.que = slot[s].que /\ q.page = slot[s].page /\ q.started = slot[s].started
        /\ q.prepared = slot[s].prepared /\ q.stale = slot[s].stale
        /\ \/ q.phase = 2 /\ chnl' = chnl
           \/ q.phase = 0 /\ chnl' = None
  <2> DEFINE r == slot[s]
  <2>1. r \in SlotRecords
    BY <1>2
  <2>2. r.offset \in 0..Chunks /\ r.offset < Chunks /\ r.offset + 1 \in 0..Chunks
    BY <1>2, <1>4, ConstantsAssumption DEF PlanValid, SlotRecords
  <2>3. CASE slot' = [slot EXCEPT ![s] = Copied(@)] /\ UNCHANGED chnl
    <3> DEFINE q == [r EXCEPT !.offset = r.offset + 1, !.phase = 2]
    <3>1. slot' = [slot EXCEPT ![s] = q]
      BY <1>2, <2>3 DEF Copied
    <3> HIDE DEF r
    <3>2. \A n \in 0..Chunks, m \in 0..3 : [r EXCEPT !.offset = n, !.phase = m] \in SlotRecords
      BY <2>1 DEF SlotRecords
    <3>3. q \in SlotRecords
      BY <2>2, <3>2, Values
    <3>4. /\ q.que = r.que /\ q.page = r.page /\ q.started = r.started
          /\ q.prepared = r.prepared /\ q.stale = r.stale /\ q.phase = 2
      BY <2>1 DEF SlotRecords
    <3> HIDE DEF q
    <3> QED BY <2>3, <3>1, <3>3, <3>4 DEF r
  <2>4. CASE slot' = [slot EXCEPT ![s].phase = 0] /\ chnl' = None
    <3> DEFINE q == [r EXCEPT !.phase = 0]
    <3>1. slot' = [slot EXCEPT ![s] = q]
      BY <1>2, <2>4
    <3> HIDE DEF r
    <3>2. q \in SlotRecords
      BY <2>1, Values, UpdateTyped
    <3>3. /\ q.que = r.que /\ q.page = r.page /\ q.started = r.started
          /\ q.prepared = r.prepared /\ q.stale = r.stale /\ q.phase = 0
      BY <2>1 DEF SlotRecords
    <3> HIDE DEF q
    <3> QED BY <2>4, <3>1, <3>2, <3>3 DEF r
  <2> QED BY <1>1, <1>4, <2>3, <2>4
<1>10. PICK q \in SlotRecords :
        /\ slot' = [slot EXCEPT ![s] = q]
        /\ q.que = slot[s].que /\ q.page = slot[s].page /\ q.started = slot[s].started
        /\ q.prepared = slot[s].prepared /\ q.stale = slot[s].stale
        /\ \/ q.phase = 2 /\ chnl' = chnl
           \/ q.phase = 0 /\ chnl' = None
  BY <1>9
<1>11. slot'[s] = q /\ \A t \in Slots : t # s => slot'[t] = slot[t]
  BY <1>2, <1>10
<1>12. Typed(slot', chnl')
  BY <1>2, <1>10 DEF IInv, QueueOK, Typed
<1>13. Pending(slot', chnl')
  <2>1. \A t \in Slots : slot'[t].que = slot[t].que
    BY <1>10, <1>11
  <2>2. \A t \in Slots : t # s => slot[t].phase = 0 /\ slot'[t].phase = 0
    BY <1>3, <1>11 DEF IInv, QueueOK, Pending
  <2> QED BY <1>3, <1>10, <1>11, <2>1, <2>2 DEF IInv, QueueOK, Pending
<1>14. Plans(slot') /\ Snapshots(slot')
  BY <1>10, <1>11 DEF IInv, QueueOK, Plans, Snapshots
<1>15. Step
  BY <1>3, <1>10, <1>11 DEF IInv, QueueOK, Pending, Step
<1> QED BY <1>6, <1>7, <1>8, <1>12, <1>13, <1>14, <1>15 DEF IInv, QueueOK

-----------------------------------------------------------------------------
(* The inductive invariant.                                                *)
LEMMA InitOK == Init => IInv
<1> SUFFICES ASSUME Init PROVE IInv
  OBVIOUS
<1>1. RestTyped
  <2>1. timer \in BOOLEAN /\ resetReq \in BOOLEAN
    BY Values DEF Init
  <2>2. batch \in Seq(Lines) /\ ring \in Seq(Lines)
    BY DEF Init
  <2>3. link \in [Channels -> {"closed", "open", "asked"}]
    BY DEF Init
  <2>4. era \in [Channels -> BOOLEAN]
    BY Values DEF Init
  <2>5. wifi = "reset"
    BY DEF Init
  <2> QED BY <2>1, <2>2, <2>3, <2>4, <2>5 DEF RestTyped
<1>2. /\ EmptySlot.que = None /\ EmptySlot.phase = 0 /\ EmptySlot.stale = FALSE
  BY DEF EmptySlot
<1>3. Typed(slot, chnl)
  BY EmptyTyped DEF Init, Typed
<1>4. \A s \in Slots : slot[s] = EmptySlot
  BY DEF Init
<1>5. Pending(slot, chnl) /\ Plans(slot) /\ Snapshots(slot)
  BY <1>2, <1>4 DEF Init, Pending, Plans, Snapshots
<1>6. EspOK(esp)
  BY DEF Init, EspOK, EspStates
<1>7. PendingIsWatched
  BY DEF Init, PendingIsWatched
<1> QED BY <1>1, <1>3, <1>5, <1>6, <1>7 DEF IInv, QueueOK

LEMMA NextOK == IInv /\ [Next]_vars => IInv' /\ Step
<1> SUFFICES ASSUME IInv, [Next]_vars PROVE IInv' /\ Step
  OBVIOUS
<1>1. CASE Loop
  BY <1>1, QuietLoop, ResetStep, StartStep, ClosedPendingStep, ClosedOtherStep,
     ExpireStep, AcknowledgeStep, RequestStep, PayloadStep DEF Loop
<1>2. CASE WatchdogFires
  BY <1>2, WatchdogStep
<1>3. CASE Esp
  BY <1>3, EspStep
<1>4. CASE \E c \in Channels : Client(c)
  BY <1>4, ClientStep
<1>5. CASE UNCHANGED vars
  <2>1. UNCHANGED <<slot, chnl, timer, resetReq>> /\ RestTyped' /\ EspOK(esp')
    BY <1>5 DEF IInv, vars, task, env, RestTyped, EspOK
  <2> QED BY <2>1, QuietStep
<1> QED BY <1>1, <1>2, <1>3, <1>4, <1>5 DEF Next

THEOREM Inductive == Spec => []IInv
<1>1. Init => IInv
  BY InitOK
<1>2. IInv /\ [Next]_vars => IInv'
  BY NextOK
<1> HIDE DEF IInv, Init, Next, vars
<1> QED BY <1>1, <1>2, PTL DEF Spec

-----------------------------------------------------------------------------
(* Every variable keeps its type.                                          *)
THEOREM TypeCorrect == Spec => []TypeOK
<1>1. IInv => TypeOK
  BY DEF IInv, RestTyped, QueueOK, Typed, EspOK, TypeOK
<1> HIDE DEF IInv, TypeOK
<1> QED BY <1>1, Inductive, PTL

(* At most one command is pending, and phase and chnl agree on which: for  *)
(* HTTP_SendCloseChnl, the CLOSED and SEND OK handlers, expiry and reset.  *)
THEOREM OnePendingAlways == Spec => []OnePending
<1>1. IInv => OnePending
  BY DEF IInv, QueueOK, Pending, OnePending, Queued
<1> HIDE DEF IInv, OnePending
<1> QED BY <1>1, Inductive, PTL

(* The defensive branch of HTTP_SendPayload is never taken.                *)
THEOREM PlanAlwaysValid == Spec => []PlanStaysValid
<1>1. IInv => PlanStaysValid
  BY DEF IInv, QueueOK, Plans, PlanStaysValid, PlanValid
<1> HIDE DEF IInv, PlanStaysValid
<1> QED BY <1>1, Inductive, PTL

(* A pending command always has the watchdog or its reset ahead of it.     *)
THEOREM PendingAlwaysWatched == Spec => []PendingIsWatched
<1>1. IInv => PendingIsWatched
  BY DEF IInv
<1> HIDE DEF IInv, PendingIsWatched
<1> QED BY <1>1, Inductive, PTL

(* HTTP_PrepareRefresh and HTTP_QueueResponse together: a response to a    *)
(* polling page never starts with a stale snapshot.                        *)
THEOREM AlwaysStartsFresh == Spec => StartsFresh
<1>1. IInv /\ [Next]_vars =>
        [\A s \in Slots : ~slot[s].started /\ slot'[s].started => ~slot'[s].stale]_vars
  BY NextOK DEF Step
<1> HIDE DEF IInv, Next, vars
<1> QED BY <1>1, Inductive, PTL DEF Spec, StartsFresh

(* Once the ESP32 was told to expect it, a response is never rewritten.    *)
THEOREM AlwaysFrozen == Spec => FrozenOnceStarted
<1>1. IInv /\ [Next]_vars =>
        [\A s \in Slots : slot[s].started /\ slot'[s].started =>
          (slot[s].stale => slot'[s].stale) /\ slot'[s].page = slot[s].page]_vars
  BY NextOK DEF Step
<1> HIDE DEF IInv, Next, vars
<1> QED BY <1>1, Inductive, PTL DEF Spec, FrozenOnceStarted
=============================================================================
