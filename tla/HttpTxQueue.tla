---------------------------- MODULE HttpTxQueue ----------------------------
(***************************************************************************)
(* The response queue of the HTTP server behind the ESP32, owned by the    *)
(* WiFi task (Application/esp32wroom.c, connectionType HTTP_CONNECTION).   *)
(*                                                                         *)
(* The WiFi task takes what the UART has received so far as one batch and  *)
(* serves it in a fixed order: the requests, a send if none is pending,    *)
(* the first ">" prompt, the first CLOSED line, the first SEND OK; then it *)
(* expires idle slots and applies a reset asked for by the send watchdog.  *)
(* Between any two of these steps the UART may receive more and the timer  *)
(* task may run the watchdog.                                              *)
(*                                                                         *)
(* A response is a number of chunks; what a slot holds is abstracted to    *)
(* whether it is stale.  The ESP32 and the browsers are the environment,   *)
(* modelled from the commands the code writes and the lines it waits for.  *)
(***************************************************************************)
EXTENDS Naturals, Sequences, SequencesExt

CONSTANTS N,           \* ESP_MAX_HTTP_CONN: channels, and response slots
          Chunks,      \* packets of a response
          MaxRing,     \* bound: lines in the ring
          Refresh,     \* the polling pages of HTTP_IsRefreshPage
          Other,       \* pages built when the request is handled
          Stream,      \* pages read from the SD card while they are sent
          Faults       \* what the environment may do, see below

FaultKinds == {"hal",    \* the UART refuses a transmission
               "split",  \* a line is cut by the end of a batch and not found
               "idle",   \* a slot makes no progress for 20 s
               "timeout",\* a command is not answered within 20 s
               "reuse"}  \* a channel is reused before its CLOSED is read

ASSUME ConstantsAssumption ==
  /\ N \in Nat \ {0} /\ Chunks \in Nat \ {0} /\ MaxRing \in Nat
  /\ Refresh \cap Other = {} /\ Refresh \cap Stream = {} /\ Other \cap Stream = {}
  /\ "none" \notin Refresh \cup Other \cup Stream
  /\ Faults \subseteq FaultKinds

Channels == 1..N
Slots == 1..N
None == 0        \* 0xFF in que[] and chnl
Pages == Refresh \cup Other \cup Stream

SlotRecords == [que : Channels \cup {None}, phase : 0..3, page : Pages \cup {"none"},
                prepared : BOOLEAN, started : BOOLEAN, held : BOOLEAN,
                offset : 0..Chunks, stale : BOOLEAN, born : BOOLEAN]
EspStates == [op : {"ready", "send", "raw", "data", "close"}, chan : Channels \cup {None}]
Lines == [line : {"get"}, chan : Channels, page : Pages, era : BOOLEAN]
           \cup [line : {"closed"}, chan : Channels]
           \cup [line : {"prompt", "sendok"}]

VARIABLES
  slot,      \* the arrays of httpPar and httpTx*, one record per slot
  chnl,      \* httpPar.chnl: channel of the pending command
  timer,     \* the send watchdog runs
  resetReq,  \* httpResetRequested
  wifi,      \* next statement of the WiFi task
  batch,     \* received lines up to recvByteFromEsp_copy, not yet consumed
  ring,      \* received lines beyond it
  esp,       \* what the ESP32 is doing
  link,      \* each TCP link: "closed", "open", or "asked" (its one request sent)
  era        \* distinguishes successive clients of a channel

task == <<chnl, timer, wifi, batch>>
env == <<esp, link, era>>
vars == <<slot, task, resetReq, ring, env>>

TypeOK ==
  /\ slot \in [Slots -> SlotRecords]
  /\ chnl \in Channels \cup {None}
  /\ timer \in BOOLEAN
  /\ resetReq \in BOOLEAN
  /\ wifi \in {"reset", "wait", "requests", "send", "prompt", "closed", "sendok", "expire"}
  /\ batch \in Seq(Lines)
  /\ ring \in Seq(Lines)
  /\ esp \in EspStates
  /\ link \in [Channels -> {"closed", "open", "asked"}]
  /\ era \in [Channels -> BOOLEAN]

(* HTTP_ClearSlot leaves this.                                             *)
EmptySlot == [que |-> None, phase |-> 0, page |-> "none", prepared |-> FALSE,
              started |-> FALSE, held |-> FALSE, offset |-> 0, stale |-> FALSE,
              born |-> FALSE]

Init ==
  /\ slot = [s \in Slots |-> EmptySlot]
  /\ chnl = None
  /\ timer = FALSE
  /\ resetReq = FALSE
  /\ wifi = "reset"
  /\ batch = <<>>
  /\ ring = <<>>
  /\ esp = [op |-> "ready", chan |-> None]
  /\ link = [c \in Channels |-> "closed"]
  /\ era = [c \in Channels |-> FALSE]

-----------------------------------------------------------------------------
(* The ESP32 and the browsers.                                             *)

Receive(l) == Len(ring) < MaxRing /\ ring' = Append(ring, l)
Unread(c) == \E q \in {batch, ring} : \E i \in DOMAIN q : q[i] = [line |-> "closed", chan |-> c]

Connect(c) ==
  /\ link[c] = "closed"
  /\ "reuse" \in Faults \/ (~Unread(c) /\ esp.chan # c)
  /\ link' = [link EXCEPT ![c] = "open"]
  /\ era' = [era EXCEPT ![c] = IF "reuse" \in Faults THEN ~@ ELSE @]
  /\ UNCHANGED <<slot, task, resetReq, ring, esp>>

(* The request stream hands over one request per connection.               *)
Ask(c, p) ==
  /\ link[c] = "open"
  /\ Receive([line |-> "get", chan |-> c, page |-> p, era |-> era[c]])
  /\ link' = [link EXCEPT ![c] = "asked"]
  /\ UNCHANGED <<slot, task, resetReq, esp, era>>

Hangup(c) ==
  /\ link[c] # "closed"
  /\ Receive([line |-> "closed", chan |-> c])
  /\ link' = [link EXCEPT ![c] = "closed"]
  /\ UNCHANGED <<slot, task, resetReq, esp, era>>

(* AT+CIPSEND is answered by a prompt, then the ESP32 takes raw bytes.     *)
EspPrompts ==
  /\ esp.op = "send" /\ link[esp.chan] # "closed"
  /\ Receive([line |-> "prompt"])
  /\ esp' = [esp EXCEPT !.op = "raw"]
  /\ UNCHANGED <<slot, task, resetReq, link, era>>

EspSent ==
  /\ esp.op = "data" /\ link[esp.chan] # "closed"
  /\ Receive([line |-> "sendok"])
  /\ esp' = [op |-> "ready", chan |-> None]
  /\ UNCHANGED <<slot, task, resetReq, link, era>>

EspCloses ==
  /\ esp.op = "close" /\ link[esp.chan] # "closed"
  /\ Receive([line |-> "closed", chan |-> esp.chan])
  /\ link' = [link EXCEPT ![esp.chan] = "closed"]
  /\ esp' = [op |-> "ready", chan |-> None]
  /\ UNCHANGED <<slot, task, resetReq, era>>

(* A command for a link that is gone fails; the ERROR line is only logged. *)
EspFails ==
  /\ esp.op \in {"send", "data", "close"} /\ link[esp.chan] = "closed"
  /\ esp' = [op |-> "ready", chan |-> None]
  /\ UNCHANGED <<slot, task, resetReq, ring, link, era>>

(* What the ESP32 makes of an AT command: it takes it when it is ready,    *)
(* ignores it when it is busy, and counts it as payload in raw mode.       *)
EspReads(op, c) ==
  \/ esp.op = "ready" /\ esp' = [op |-> op, chan |-> c]
  \/ esp.op \in {"send", "data", "close"} /\ UNCHANGED esp
  \/ esp.op = "raw" /\ esp' \in {esp, [esp EXCEPT !.op = "data"]}
(* What it makes of the bytes of a packet.                                 *)
EspReadsBytes == esp' = IF esp.op = "raw" THEN [esp EXCEPT !.op = "data"] ELSE esp

-----------------------------------------------------------------------------
(* Sending.                                                                *)

(* The outcomes of HAL_UART_Transmit_DMA.                                  *)
HalResults == IF "hal" \in Faults THEN BOOLEAN ELSE {TRUE}

Queued(f, s) == f[s].que # None

First(S) == {s \in S : \A t \in S : s <= t}

(* CheckReadyToSendChnl: the slot to serve next, if any.  prev is the      *)
(* channel just served, or None; f and c are slot and chnl at this point.  *)
CheckReadyToSendChnl_SamePending(f, c, prev) ==
  LET all == {s \in Slots : Queued(f, s)}
      live == {s \in all : f[s].held}
  IN First(IF prev # None /\ \E s, t \in live : s # t
           THEN {s \in live : f[s].que # prev}
           ELSE all)
CheckReadyToSendChnl(f, c, prev) ==
  LET all == {s \in Slots : Queued(f, s)}
      live == {s \in all : f[s].held}
  IN IF c # None THEN {}
     ELSE First(IF prev # None /\ \E s, t \in live : s # t
                THEN {s \in live : f[s].que # prev}
                ELSE all)

(* HTTP_PrepareRefresh: the content of s and of every other waiting slot   *)
(* for the same page becomes the present snapshot.                         *)
PrepareRefresh_Active(f, s) ==
  IF f[s].page \notin Refresh \/ f[s].prepared \/ f[s].started THEN f
  ELSE [t \in Slots |->
          IF t = s THEN [f[t] EXCEPT !.prepared = TRUE, !.stale = FALSE]
          ELSE IF Queued(f, t) /\ f[t].page = f[s].page
               THEN [f[t] EXCEPT !.prepared = TRUE, !.stale = FALSE, !.held = TRUE]
               ELSE f[t]]
PrepareRefresh(f, s) ==
  IF f[s].page \notin Refresh \/ f[s].prepared \/ f[s].started THEN f
  ELSE [t \in Slots |->
          IF t = s THEN [f[t] EXCEPT !.prepared = TRUE, !.stale = FALSE]
          ELSE IF Queued(f, t) /\ f[t].page = f[s].page /\ ~f[t].started
               THEN [f[t] EXCEPT !.prepared = TRUE, !.stale = FALSE, !.held = TRUE]
               ELSE f[t]]

(* AT+CIPCLOSE for slot s.  Whether the UART took it is not looked at.     *)
WriteClose(f, s) ==
  /\ slot' = [f EXCEPT ![s].held = FALSE, ![s].phase = 3]
  /\ chnl' = f[s].que
  /\ timer' = TRUE
  /\ \E ok \in HalResults :
       IF ok THEN EspReads("close", f[s].que) ELSE UNCHANGED esp

(* AT+CIPSEND for the next packet of slot s; its content is fixed once the *)
(* UART has taken the command.                                             *)
WriteSend(f, s) ==
  /\ timer' = TRUE
  /\ \E ok \in HalResults :
       IF ok THEN /\ slot' = [f EXCEPT ![s].held = TRUE, ![s].phase = 1,
                                       ![s].started = TRUE]
                  /\ chnl' = f[s].que
                  /\ EspReads("send", f[s].que)
             ELSE /\ slot' = [f EXCEPT ![s].held = TRUE, ![s].phase = 0]
                  /\ chnl' = None
                  /\ UNCHANGED esp

(* HTTP_SendCloseChnl, called where slot, chnl and timer have the values   *)
(* f, c and run.  A read error on the SD card ends the response early.     *)
SendCloseChnl(f, c, run, prev) ==
  LET pick == CheckReadyToSendChnl(f, c, prev)
  IN \/ pick = {} /\ slot' = f /\ chnl' = c /\ timer' = run /\ UNCHANGED esp
     \/ \E s \in pick :
          LET g == PrepareRefresh(f, s)
          IN \/ g[s].offset = Chunks /\ WriteClose(g, s)
             \/ g[s].offset < Chunks /\ WriteSend(g, s)
             \/ /\ g[s].offset < Chunks /\ g[s].page \in Stream
                /\ WriteClose([g EXCEPT ![s].offset = Chunks], s)

-----------------------------------------------------------------------------
(* The loop of the WiFi task.                                              *)

(* The reset is applied here, never by the timer task.  UpdateReadPos      *)
(* drops what was taken before, not what has been received since.          *)
ApplyReset ==
  /\ wifi = "reset"
  /\ wifi' = "wait"
  /\ IF resetReq
     THEN /\ slot' = [s \in Slots |-> EmptySlot]
          /\ chnl' = None
          /\ resetReq' = FALSE
     ELSE UNCHANGED <<slot, chnl, resetReq>>
  /\ UNCHANGED <<timer, batch, ring, env>>

(* A notification, from the UART or from another task.                     *)
TakeBatch ==
  /\ wifi = "wait"
  /\ wifi' = "requests"
  /\ ring' = <<>>
  /\ \/ batch' = ring
     \/ /\ "split" \in Faults /\ ring # <<>> /\ Last(ring).line # "get"
        /\ batch' = Front(ring)
  /\ UNCHANGED <<slot, chnl, timer, resetReq, env>>

WaitExpires ==
  /\ wifi = "wait" /\ ring = <<>>
  /\ wifi' = "expire"
  /\ UNCHANGED <<slot, chnl, timer, batch, resetReq, ring, env>>

IsGet(l) == l.line = "get"
FirstOf(kind) == {i \in DOMAIN batch : /\ batch[i].line = kind
                                       /\ \A j \in 1..(i-1) : batch[j].line # kind}
FreeSlot == First({s \in Slots : ~Queued(slot, s)})

(* HTTP_QueueResponse: a new read makes waiting responses for its page     *)
(* stale, any other request makes all of them stale.                       *)
Enqueued_KeepsPrepared(i, m) ==
  LET f == [slot EXCEPT ![i] =
              [que |-> m.chan, phase |-> 0, page |-> m.page, prepared |-> FALSE,
               started |-> FALSE, held |-> TRUE, offset |-> 0,
               stale |-> m.page \in Refresh, born |-> m.era]]
  IN [t \in Slots |->
        IF Queued(f, t) /\ f[t].page \in Refresh /\ (m.page \in Refresh => f[t].page = m.page)
        THEN [f[t] EXCEPT !.stale = TRUE, !.prepared = @ /\ m.page \notin Refresh]
        ELSE f[t]]
Enqueued(i, m) ==
  LET f == [slot EXCEPT ![i] =
              [que |-> m.chan, phase |-> 0, page |-> m.page, prepared |-> FALSE,
               started |-> FALSE, held |-> TRUE, offset |-> 0,
               stale |-> m.page \in Refresh, born |-> m.era]]
  IN [t \in Slots |->
        IF Queued(f, t) /\ f[t].page \in Refresh /\ (m.page \in Refresh => f[t].page = m.page)
        THEN [f[t] EXCEPT !.stale = TRUE, !.prepared = @ /\ f[t].started]
        ELSE f[t]]

(* HTTP_HandleTarget, called by the request stream.  A request on a        *)
(* channel that still has a response, or without a free slot, is dropped.  *)
HandleTarget ==
  /\ wifi = "requests"
  /\ \E k \in FirstOf("get") :
       LET m == batch[k]
       IN /\ batch' = RemoveAt(batch, k)
          /\ IF FreeSlot = {} \/ \E s \in Slots : slot[s].que = m.chan
             THEN UNCHANGED slot
             ELSE \E i \in FreeSlot : slot' = Enqueued(i, m)
  /\ UNCHANGED <<chnl, timer, wifi, resetReq, ring, env>>

StartSend ==
  /\ wifi = "send"
  /\ SendCloseChnl(slot, chnl, timer, None)
  /\ wifi' = "prompt"
  /\ UNCHANGED <<batch, resetReq, ring, link, era>>

RequestsDone ==
  /\ wifi = "requests" /\ FirstOf("get") = {}
  /\ wifi' = "send"
  /\ UNCHANGED <<slot, chnl, timer, batch, resetReq, ring, env>>

(* HTTP_SendPayload, if a prompt was received and a packet is planned.     *)
(* SendToEsp32 calls UpdateReadPos: the rest of the batch is not searched. *)
PlanValid(s) == slot[s].held /\ slot[s].offset < Chunks
HasPrompt == FirstOf("prompt") # {}
Planned(s) == Queued(slot, s) /\ slot[s].que = chnl /\ slot[s].phase = 1
Copied_CountsTwice(r) == [r EXCEPT !.offset = @ + 2, !.phase = 2]
Copied_StaysPlanned(r) == [r EXCEPT !.offset = @ + 1]
Copied(r) == [r EXCEPT !.offset = @ + 1, !.phase = 2]
SendPayload ==
  /\ wifi = "prompt" /\ HasPrompt
  /\ \E s \in Slots, ok \in HalResults :
       /\ Planned(s)
       /\ IF ~PlanValid(s)
          THEN /\ slot' = [slot EXCEPT ![s].held = FALSE, ![s].offset = Chunks, ![s].phase = 0]
               /\ chnl' = None
               /\ UNCHANGED <<batch, timer, esp>>
          ELSE /\ batch' = <<>>
               /\ timer' = TRUE
               /\ IF ok
                  THEN /\ slot' = [slot EXCEPT ![s] = Copied(@)]
                       /\ EspReadsBytes
                       /\ UNCHANGED chnl
                  ELSE /\ slot' = [slot EXCEPT ![s].phase = 0]
                       /\ chnl' = None
                       /\ UNCHANGED esp
  /\ wifi' = "closed"
  /\ UNCHANGED <<resetReq, ring, link, era>>
NoPayload ==
  /\ wifi = "prompt"
  /\ HasPrompt => \A s \in Slots : ~Planned(s)
  /\ wifi' = "closed"
  /\ UNCHANGED <<slot, chnl, timer, batch, resetReq, ring, env>>

Without_ByIndex(f, c) == [f EXCEPT ![c] = EmptySlot]
Without(f, c) == [s \in Slots |-> IF f[s].que = c THEN EmptySlot ELSE f[s]]

(* The first CLOSED line: of the pending command's channel, or another's.  *)
ClosedPending ==
  /\ wifi = "closed"
  /\ \E k \in FirstOf("closed") :
       batch[k].chan = chnl /\ SendCloseChnl(Without(slot, chnl), None, FALSE, None)
  /\ wifi' = "sendok"
  /\ UNCHANGED <<batch, resetReq, ring, link, era>>
ClosedOther_ClearsPending ==
  /\ wifi = "closed"
  /\ \E k \in FirstOf("closed") :
       batch[k].chan # chnl /\ slot' = Without(slot, batch[k].chan)
  /\ wifi' = "sendok"
  /\ chnl' = None
  /\ UNCHANGED <<timer, batch, resetReq, ring, env>>
ClosedOther ==
  /\ wifi = "closed"
  /\ \E k \in FirstOf("closed") :
       batch[k].chan # chnl /\ slot' = Without(slot, batch[k].chan)
  /\ wifi' = "sendok"
  /\ UNCHANGED <<chnl, timer, batch, resetReq, ring, env>>
NoneClosed ==
  /\ wifi = "closed" /\ FirstOf("closed") = {}
  /\ wifi' = "sendok"
  /\ UNCHANGED <<slot, chnl, timer, batch, resetReq, ring, env>>

(* HTTP_SendAcknowledged.  The batch ends with UpdateReadPos.              *)
Sent(s) == slot[s].que = chnl /\ Queued(slot, s) /\ slot[s].phase = 2
SendAcknowledged ==
  /\ wifi = "sendok" /\ FirstOf("sendok") # {}
  /\ \E s \in Slots :
       Sent(s) /\ SendCloseChnl([slot EXCEPT ![s].phase = 0], None, FALSE, chnl)
  /\ wifi' = "expire"
  /\ batch' = <<>>
  /\ UNCHANGED <<resetReq, ring, link, era>>
NotAcknowledged ==
  /\ wifi = "sendok"
  /\ FirstOf("sendok") # {} => \A s \in Slots : ~Sent(s)
  /\ wifi' = "expire"
  /\ batch' = <<>>
  /\ UNCHANGED <<slot, chnl, timer, resetReq, ring, env>>

(* HTTP_ExpireIdleSlots: the slots in S have been idle for 20 s.  One that *)
(* waits for a prompt or for SEND OK is left to the watchdog.              *)
MayExpire(s) ==
  Queued(slot, s) /\ ~(slot[s].que = chnl /\ slot[s].phase \in {1, 2})
ExpireIdleSlots_StopsTimer(S) ==
  /\ wifi = "expire" /\ "idle" \in Faults
  /\ S # {} /\ \A s \in S : MayExpire(s)
  /\ LET freed == chnl # None /\ \E s \in S : slot[s].que = chnl
     IN SendCloseChnl([s \in Slots |-> IF s \in S THEN EmptySlot ELSE slot[s]],
                      IF freed THEN None ELSE chnl, FALSE, None)
  /\ wifi' = "reset"
  /\ UNCHANGED <<batch, resetReq, ring, link, era>>
ExpireIdleSlots(S) ==
  /\ wifi = "expire" /\ "idle" \in Faults
  /\ S # {} /\ \A s \in S : MayExpire(s)
  /\ LET freed == chnl # None /\ \E s \in S : slot[s].que = chnl
     IN SendCloseChnl([s \in Slots |-> IF s \in S THEN EmptySlot ELSE slot[s]],
                      IF freed THEN None ELSE chnl, timer /\ ~freed, None)
  /\ wifi' = "reset"
  /\ UNCHANGED <<batch, resetReq, ring, link, era>>
NoneExpired ==
  /\ wifi = "expire"
  /\ wifi' = "reset"
  /\ UNCHANGED <<slot, chnl, timer, batch, resetReq, ring, env>>

(* The timer task, 20 s after the last transmission.                       *)
WatchdogFires_Forgotten ==
  /\ timer /\ "timeout" \in Faults
  /\ timer' = FALSE
  /\ UNCHANGED <<slot, chnl, wifi, batch, resetReq, ring, env>>
WatchdogFires ==
  /\ timer /\ "timeout" \in Faults
  /\ timer' = FALSE
  /\ resetReq' = TRUE
  /\ UNCHANGED <<slot, chnl, wifi, batch, ring, env>>

-----------------------------------------------------------------------------
Loop ==
  \/ ApplyReset \/ TakeBatch \/ WaitExpires \/ HandleTarget \/ RequestsDone
  \/ StartSend \/ SendPayload \/ NoPayload
  \/ ClosedPending \/ ClosedOther \/ NoneClosed
  \/ SendAcknowledged \/ NotAcknowledged
  \/ (\E S \in SUBSET Slots : ExpireIdleSlots(S)) \/ NoneExpired
Esp == EspPrompts \/ EspSent \/ EspCloses \/ EspFails
Client(c) == Connect(c) \/ Hangup(c) \/ \E p \in Pages : Ask(c, p)

Next == Loop \/ WatchdogFires \/ Esp \/ \E c \in Channels : Client(c)

Spec == Init /\ [][Next]_vars

(* The WiFi task runs, the timer expires, and a slot that makes no         *)
(* progress is found idle sooner or later.  The ESP32 need not answer.     *)
FairSpec ==
  /\ Spec
  /\ WF_vars(Loop) /\ WF_vars(WatchdogFires)
  /\ \A s \in Slots : SF_vars(\E S \in SUBSET Slots : s \in S /\ ExpireIdleSlots(S))

-----------------------------------------------------------------------------
(* Properties.                                                             *)

(* At most one command is pending: a slot is waiting for a prompt, for     *)
(* SEND OK or for CLOSED exactly if chnl names its channel, and a channel  *)
(* has at most one slot.                                                   *)
OnePending ==
  /\ \A s \in Slots : slot[s].phase # 0 <=> (Queued(slot, s) /\ slot[s].que = chnl)
  /\ \A s, t \in Slots : Queued(slot, s) /\ slot[s].que = slot[t].que => s = t
  /\ chnl # None => \E s \in Slots : slot[s].que = chnl

(* A packet that was announced is there when the prompt comes: the         *)
(* defensive branch of HTTP_SendPayload is never taken.                    *)
PlanStaysValid == \A s \in Slots : slot[s].phase = 1 => PlanValid(s)

(* While a command is pending the watchdog runs or its reset is on the way,*)
(* so that a lost answer cannot block the queue forever.                   *)
PendingIsWatched == chnl # None => timer \/ resetReq

(* A response to a polling page starts with a snapshot taken after every   *)
(* write, and every read of the same page, that was handled before.        *)
StartsFresh ==
  [][\A s \in Slots : ~slot[s].started /\ slot'[s].started => ~slot'[s].stale]_vars

(* The content of a response is frozen once AT+CIPSEND was accepted.       *)
FrozenOnceStarted ==
  [][\A s \in Slots : slot[s].started /\ slot'[s].started =>
       (slot[s].stale => slot'[s].stale) /\ slot'[s].page = slot[s].page]_vars

(* The ESP32 never waits for the bytes of a packet that is not coming.     *)
RawIsPlanned ==
  esp.op = "raw" => \E s \in Slots : slot[s].que = esp.chan /\ Planned(s)

(* "each TCP client retains its own response slot": a CLOSED line does not *)
(* take the slot of a client that is still connected.                      *)
ClientKeepsSlot ==
  [][\A s \in Slots :
       /\ wifi = "closed" /\ Queued(slot, s)
       /\ link[slot[s].que] # "closed" /\ slot[s].born = era[slot[s].que]
       => slot'[s].que = slot[s].que]_vars

(* Every slot is released in the end, whatever lines get lost and even if  *)
(* the ESP32 never answers again.                                          *)
SlotReleased == \A s \in Slots : Queued(slot, s) ~> ~Queued(slot, s)
=============================================================================
