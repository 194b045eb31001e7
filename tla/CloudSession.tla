--------------------------- MODULE CloudSession ---------------------------
(***************************************************************************)
(* The Google session of the WiFi task (case GOOGLE_CLOUD_CONNECTION and   *)
(* the time limits of vtaskWifi, esp32wroom.c; GOOGLE/google_cloud_at.c;   *)
(* cloud/google-apps-script/Code.gs).  It switches the HTTP server of the  *)
(* ESP32 off, posts a measurement over TLS link 3, follows one redirect,   *)
(* closes the link and switches the server on again.  AT answers carry no  *)
(* mark of their command: after a time limit the answer to an old command  *)
(* is taken for the answer to the new one.                                 *)
(***************************************************************************)
EXTENDS Integers, Sequences

CONSTANTS Nonces,     \* 128 random bits: never one that is still around
          Packets,    \* most packets that a request needs
          MaxFaults,  \* late answers and lost lines in one behaviour
          None

(* A request is built from a redirect; Other is a reply that cannot be     *)
(* parsed, has another status or is a refusal of the script.               *)
Requests == [nonce : Nonces, packets : 1..Packets]
Payloads == [op : {"bytes"}, post : BOOLEAN, nonce : Nonces, last : BOOLEAN]
Commands == [op : {"stop", "config", "connect", "send", "close", "serve"}]
Events == {"OK", "ERROR", "SENT", "PROMPT", "CLOSED"}
Answers == [kind : Events \cup {"junk"}]
Other == [kind |-> "other", nonce |-> None, packets |-> 1]
Replies == [kind : {"redirect", "reply"}, nonce : Nonces, packets : 1..Packets]
           \cup {Other}
Steps == 0..8 \cup {10, 900, 901}

ASSUME ConstantsAssumption ==
  /\ Packets \in Nat \ {0}
  /\ MaxFaults \in Nat
  /\ None \notin Nonces \cup Events

VARIABLES
  conn,      \* connectionType
  ready,     \* googleCloudStatus.ready
  ses,       \* the session: CASE_Service, cloudAt, cloudResult, ...
  nonce,     \* cloudNonce
  uart,      \* written to the ESP32, not yet read by it
  lines,     \* sent by the ESP32, not yet read by the task
  esp,       \* the ESP32: its server, link 3, and raw mode
  asked,     \* the request Google has received on link 3, or None
  recorded,  \* nonces whose measurement is in the sheet
  faults     \* late answers and lost lines so far

vars == <<conn, ready, ses, nonce, uart, lines, esp, asked, recorded, faults>>

Sessions == [step : Steps,                      \* actualCase
             events : SUBSET Events,            \* cloudAt.events
             wire : Replies \cup {None},        \* cloudAt.wire, .overflow
             eof : BOOLEAN,                     \* cloudAt.eof
             result : {"ok", "failed"},         \* cloudResult = 0
             redirected : BOOLEAN,              \* cloudRedirected
             request : Requests \cup {None},    \* cloudRedirect
             left : 0..Packets,                 \* cloudOffset
             out : Seq(Commands \cup Payloads)] \* SendToEsp32 of this round

TypeOK ==
  /\ conn \in {"http", "cloud", "init"}
  /\ ready \in BOOLEAN
  /\ ses \in Sessions
  /\ nonce \in Nonces
  /\ uart \in Seq(Commands \cup Payloads)
  /\ lines \in Seq(Answers \cup Replies)
  /\ esp \in [server : BOOLEAN, link : BOOLEAN, raw : BOOLEAN]
  /\ asked \in [post : BOOLEAN, nonce : Nonces] \cup {None}
  /\ recorded \subseteq Nonces
  /\ faults \in 0..MaxFaults

Idle == [step |-> 0, events |-> {}, wire |-> None, eof |-> FALSE,
         result |-> "ok", redirected |-> FALSE, request |-> None,
         left |-> 0, out |-> <<>>]

Init ==
  /\ conn = "http" /\ ready = TRUE
  /\ ses = Idle
  /\ nonce \in Nonces
  /\ uart = <<>> /\ lines = <<>>
  /\ esp = [server |-> TRUE, link |-> FALSE, raw |-> FALSE]
  /\ asked = None
  /\ recorded = {}
  /\ faults = 0

-----------------------------------------------------------------------------
(* The state machine: functions of the session that describe one round.    *)

Write(s, c) == [s EXCEPT !.out = Append(@, c)]
Send(s, op) == Write(s, [op |-> op])

Reset(s) == [s EXCEPT !.events = {}, !.wire = None, !.eof = FALSE]

Close(s, result) ==
  Send([s EXCEPT !.result = result, !.events = {}, !.step = 900], "close")

Restore(s) == Send([s EXCEPT !.events = {}, !.step = 901], "serve")

(* CloudAt_Feed: an answer is remembered, a frame of link 3 is payload, a  *)
(* malformed frame spoils the payload and counts as an error.              *)
Feed(s, line) ==
  CASE line.kind \in Events -> [s EXCEPT !.events = @ \cup {line.kind},
                                         !.eof = @ \/ line.kind = "CLOSED"]
    [] line.kind = "junk" -> [s EXCEPT !.events = @ \cup {"ERROR"}, !.wire = Other]
    [] OTHER -> [s EXCEPT !.wire = IF @ = None THEN line ELSE @]

(* CASE_Service: every step waits for its own answer or for ERROR; both at *)
(* once count as the answer and advance by three steps.                    *)
Wanted(step) == CASE step \in {0, 1, 2, 3, 10, 900, 901} -> "OK"
                  [] step = 4 -> "PROMPT"
                  [] step = 5 -> "SENT"
                  [] OTHER -> None
Passed(s) == Wanted(s.step) \in s.events
Answered(s) == Wanted(s.step) # None /\ (Passed(s) \/ "ERROR" \in s.events)
Served(s) == [s EXCEPT !.events = {},
                       !.step = @ + IF Passed(s) /\ "ERROR" \in s.events
                                    THEN 3 ELSE 1]

(* Another packet of the request, or the reply is waited for.              *)
MorePackets_Unchecked(s) ==
  Send([s EXCEPT !.left = @ - 1, !.step = 4], "send")
MorePackets(s) ==
  IF s.left > 1 THEN Send([s EXCEPT !.left = @ - 1, !.step = 4], "send")
  ELSE [s EXCEPT !.left = 0]

Payload(s) == [op |-> "bytes", post |-> ~s.redirected,
               last |-> s.left = 1,
               nonce |-> IF s.redirected THEN s.request.nonce ELSE nonce]

Advanced(s) ==
  LET t == Served(s)
  IN IF s.step \in 0..5 /\ ~Passed(s) THEN Close(t, "failed")
     ELSE
     CASE s.step \in {0, 1} -> Send(t, "config")
       [] s.step = 2 -> Send(Reset(t), "connect")
       [] s.step = 3 -> Send([t EXCEPT !.left = IF s.redirected
                                                THEN s.request.packets ELSE 1],
                             "send")
       [] s.step = 4 -> Write(t, Payload(s))
       [] s.step = 5 -> MorePackets(t)
       [] s.step = 10 -> Send([Reset(t) EXCEPT !.step = 1], "config")
       [] s.step = 900 -> Restore(t)

(* Step 6: an incomplete reply is waited for; the end of the link or a     *)
(* reply that cannot be parsed ends the session; one redirect is followed, *)
(* with a GET on a new link; the reply must carry the nonce.               *)
Judged_AnyReply(s) ==
  CASE s.wire = None /\ ~s.eof -> s
    [] s.wire = None /\ s.eof -> Close(s, "failed")
    [] s.wire # None /\ s.wire.kind = "redirect" /\ ~s.redirected ->
         Send([s EXCEPT !.redirected = TRUE, !.events = {}, !.step = 10,
                        !.request = [nonce |-> s.wire.nonce,
                                     packets |-> s.wire.packets]], "close")
    [] s.wire # None /\ s.wire.kind # "redirect" -> Close(s, "ok")
    [] OTHER -> Close(s, "failed")
Judged(s) ==
  CASE s.wire = None /\ ~s.eof -> s
    [] s.wire = None /\ s.eof -> Close(s, "failed")
    [] s.wire # None /\ s.wire.kind = "redirect" /\ ~s.redirected ->
         Send([s EXCEPT !.redirected = TRUE, !.events = {}, !.step = 10,
                        !.request = [nonce |-> s.wire.nonce,
                                     packets |-> s.wire.packets]], "close")
    [] s.wire # None /\ s.wire.kind = "reply" /\ s.wire.nonce = nonce ->
         Close(s, "ok")
    [] OTHER -> Close(s, "failed")

-----------------------------------------------------------------------------
(* The WiFi task.                                                          *)

Transmit(s) == /\ ses' = [s EXCEPT !.out = <<>>]
               /\ uart' = uart \o s.out

external == <<esp, asked, recorded>>

(* A time that elapses (at least 5 s) while the ESP32 has something left   *)
(* to read, or its answer is on the way, is a fault.                       *)
TimeElapses == IF uart = <<>> /\ lines = <<>> THEN UNCHANGED faults
               ELSE faults < MaxFaults /\ faults' = faults + 1

Around == {n \in Nonces :
             \/ n = nonce
             \/ asked # None /\ asked.nonce = n
             \/ \E i \in DOMAIN lines :
                  lines[i].kind \in {"redirect", "reply"} /\ lines[i].nonce = n
             \/ \E i \in DOMAIN uart : uart[i].op = "bytes" /\ uart[i].nonce = n}
(* The period has elapsed and no response is queued.  A session that is    *)
(* skipped (no temperature, no random numbers) changes nothing here.       *)
Start ==
  /\ conn = "http" /\ ready
  /\ TimeElapses
  /\ conn' = "cloud"
  /\ \E n \in Nonces \ Around :
       /\ nonce' = n
       /\ recorded' = recorded \ {n}
  /\ Transmit(Send(Idle, "stop"))
  /\ UNCHANGED <<ready, lines, esp, asked>>

(* One round with a notification: what has arrived so far is fed to the    *)
(* parser, then at most one step is taken.                                 *)
Heard(n) ==
  LET after[i \in 0..n] == IF i = 0 THEN ses ELSE Feed(after[i - 1], lines[i])
  IN after[n]
Round(n) ==
  /\ conn = "cloud"
  /\ ~(ses.step = 901 /\ Answered(Heard(n)))
  /\ LET s == Heard(n)
         t == IF Answered(s) THEN Advanced(s) ELSE s
     IN Transmit(IF t.step = 6 THEN Judged(t) ELSE t)
  /\ lines' = SubSeq(lines, n + 1, Len(lines))
  /\ UNCHANGED <<conn, ready, nonce, external, faults>>

(* ESP_OFF, ESP_ON: the dialogue of INIT_CONNECTION starts.                *)
Reboot ==
  /\ conn' = "init" /\ ready' = FALSE
  /\ ses' = Idle
  /\ uart' = <<>> /\ lines' = <<>>
  /\ esp' = [server |-> FALSE, link |-> FALSE, raw |-> FALSE]
  /\ asked' = None
  /\ UNCHANGED <<nonce, recorded>>

(* The answer to the restart of the server ends the session.               *)
Finish_Trusting(n) ==
  /\ conn = "cloud" /\ ses.step = 901
  /\ Answered(Heard(n))
  /\ conn' = "http"
  /\ ses' = Idle
  /\ lines' = SubSeq(lines, n + 1, Len(lines))
  /\ UNCHANGED <<ready, nonce, uart, external, faults>>
Finish(n) ==
  /\ conn = "cloud" /\ ses.step = 901
  /\ Answered(Heard(n))
  /\ IF Passed(Heard(n))
     THEN /\ conn' = "http"
          /\ ses' = Idle
          /\ lines' = SubSeq(lines, n + 1, Len(lines))
          /\ UNCHANGED <<ready, nonce, uart, external>>
     ELSE Reboot
  /\ UNCHANGED faults

(* The time limits: 25 s for the exchange, 5 s for each of the two last    *)
(* commands.                                                               *)
TimeUp ==
  /\ conn = "cloud"
  /\ TimeElapses
  /\ \/ /\ ses.step < 900
        /\ Transmit(Close(ses, "failed"))
        /\ UNCHANGED <<conn, ready, lines, nonce, external>>
     \/ /\ ses.step = 900
        /\ Transmit(Restore(ses))
        /\ UNCHANGED <<conn, ready, lines, nonce, external>>
     \/ ses.step = 901 /\ Reboot

(* The HTTP service finds nothing for itself in late lines.                *)
HttpReads ==
  /\ conn = "http" /\ lines # <<>>
  /\ lines' = Tail(lines)
  /\ UNCHANGED <<conn, ready, ses, nonce, uart, external, faults>>

(* The dialogue of the ESP32's start has reached the HTTP service.         *)
InitDone ==
  /\ conn = "init"
  /\ conn' = "http"
  /\ ready' \in BOOLEAN
  /\ esp' = [esp EXCEPT !.server = TRUE]
  /\ UNCHANGED <<ses, nonce, uart, lines, asked, recorded, faults>>

-----------------------------------------------------------------------------
(* The ESP32 reads its UART in order, and Google.                          *)

Say(said) == lines' = lines \o said
Answer(kind) == Say(<<[kind |-> kind]>>)

TaskOnly == UNCHANGED <<conn, ready, ses, nonce, faults>>

(* Raw mode swallows what is not the announced packet; a packet that was   *)
(* not announced is no command.                                            *)
EspReads ==
  /\ uart # <<>>
  /\ uart' = Tail(uart)
  /\ LET c == Head(uart) IN
     \/ /\ esp.raw /\ c.op = "bytes"
        /\ esp' = [esp EXCEPT !.raw = FALSE]
        /\ IF esp.link
           THEN /\ Answer("SENT")
                /\ asked' = IF c.last THEN [post |-> c.post, nonce |-> c.nonce]
                            ELSE asked
           ELSE Answer("ERROR") /\ UNCHANGED asked
     \/ /\ esp.raw /\ c.op # "bytes"
        /\ UNCHANGED <<esp, lines, asked>>
     \/ /\ ~esp.raw
        /\ \/ c.op # "close"
           \/ ~esp.link
        /\ Answer("ERROR")
        /\ UNCHANGED <<esp, asked>>
     \/ /\ ~esp.raw
        /\ c.op \in {"config", "stop", "serve"}
        /\ Answer("OK")
        /\ esp' = [esp EXCEPT !.server = IF c.op = "config" THEN @ ELSE c.op = "serve"]
        /\ UNCHANGED asked
     \/ /\ ~esp.raw /\ c.op = "connect" /\ ~esp.link
        /\ Answer("OK")
        /\ esp' = [esp EXCEPT !.link = TRUE]
        /\ UNCHANGED asked
     \/ /\ ~esp.raw /\ c.op = "send" /\ esp.link
        /\ Say(<<[kind |-> "OK"], [kind |-> "PROMPT"]>>)
        /\ esp' = [esp EXCEPT !.raw = TRUE]
        /\ UNCHANGED asked
     \/ /\ ~esp.raw /\ c.op = "close" /\ esp.link
        /\ Say(<<[kind |-> "CLOSED"], [kind |-> "OK"]>>)
        /\ esp' = [esp EXCEPT !.link = FALSE]
        /\ asked' = None
  /\ UNCHANGED recorded
  /\ TaskOnly

(* doPost writes the measurement into the sheet before it answers, by a    *)
(* redirect or at once; the GET is answered with the same text.            *)
Google ==
  /\ asked # None
  /\ \/ /\ \E p \in 1..Packets, k \in {"redirect", "reply"} :
             /\ asked.post \/ k = "reply"
             /\ k = "redirect" \/ p = 1
             /\ Say(<<[kind |-> k, nonce |-> asked.nonce, packets |-> p]>>)
        /\ recorded' = IF asked.post THEN recorded \cup {asked.nonce} ELSE recorded
     \/ /\ Say(<<Other>>)
        /\ UNCHANGED recorded
  /\ asked' = None
  /\ UNCHANGED <<uart, esp>>
  /\ TaskOnly

RemoteCloses ==
  /\ esp.link
  /\ esp' = [esp EXCEPT !.link = FALSE]
  /\ asked' = None
  /\ Answer("CLOSED")
  /\ UNCHANGED <<uart, recorded>>
  /\ TaskOnly

(* A line is lost or damaged on the UART.                                  *)
LineLost ==
  /\ lines # <<>> /\ faults < MaxFaults
  /\ faults' = faults + 1
  /\ lines' \in {Tail(lines), <<[kind |-> "junk"]>> \o Tail(lines)}
  /\ UNCHANGED <<conn, ready, ses, nonce, uart, external>>

-----------------------------------------------------------------------------
Hears == \E n \in 1..Len(lines) : Round(n) \/ Finish(n)

Next == \/ Start \/ Hears \/ TimeUp \/ HttpReads \/ InitDone
        \/ EspReads \/ Google \/ RemoteCloses \/ LineLost

Spec == Init /\ [][Next]_vars

(* The task hears what arrives, measures its time limits and starts        *)
(* sessions; the ESP32 reads its UART.  Google and INIT need not come.     *)
Fairness == WF_vars(Hears) /\ WF_vars(TimeUp) /\ WF_vars(Start)
            /\ WF_vars(HttpReads) /\ WF_vars(EspReads)

FairSpec == Spec /\ Fairness

-----------------------------------------------------------------------------
(* Properties.                                                             *)

(* A session that ends as a success was answered for its own measurement,  *)
(* which is in the sheet: no error, time limit or other text of the script *)
(* counts as one, although cloudResult is 0 from the start.  And without   *)
(* late or lost answers the HTTP service resumes only with the server on,  *)
(* whatever command the ESP32 refuses and whenever Google falls silent.    *)
EndsHonestly ==
  [][conn = "cloud" /\ conn' = "http" =>
       /\ ses.result = "ok" => nonce \in recorded
       /\ faults = 0 => esp.server]_vars

(* "brak powrotu serwera powoduje ponowne uruchomienie ESP": even if late  *)
(* answers were taken for the wrong command and the session ended with the *)
(* server off, it is on again in the end or the ESP32 is restarted.        *)
WebComesBack == ~esp.server ~> esp.server \/ conn = "init"
=============================================================================
