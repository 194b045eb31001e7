------------------------- MODULE CloudSessionProofs -----------------------
(* What CloudSession promises for every set of nonces, every number of     *)
(* packets and every number of faults.  A session ends honestly for two    *)
(* reasons:                                                                *)
(*   - Vouched: whatever Google has ever said, as it travels through the   *)
(*     lines, the parser, the saved redirect, the GET and back, speaks of  *)
(*     a measurement that is in the sheet;                                 *)
(*   - Dialogue: while no answer is late or lost, at most one command is   *)
(*     out, and the one final answer under way is the answer to it.        *)
EXTENDS CloudSession, SequenceTheorems, WellFoundedInduction, TLAPS

FromGoogle(x) == x.kind \in {"redirect", "reply"}

(* The session remembers only redirects that Google has sent, and success  *)
(* only for a measurement that is in the sheet.                            *)
SessionVouched(s) ==
  /\ s.wire # None /\ FromGoogle(s.wire) => s.wire.nonce \in recorded
  /\ s.redirected => s.request \in Requests /\ s.request.nonce \in recorded
  /\ s.step >= 900 /\ s.result = "ok" => nonce \in recorded

BytesVouched(q) ==
  \A i \in DOMAIN q : q[i].op = "bytes" /\ ~q[i].post => q[i].nonce \in recorded

LinesVouched(q) == \A i \in DOMAIN q : FromGoogle(q[i]) => q[i].nonce \in recorded

Vouched ==
  /\ SessionVouched(ses)
  /\ LinesVouched(lines)
  /\ BytesVouched(uart)
  /\ asked # None /\ ~asked.post => asked.nonce \in recorded
  /\ ses.out = <<>>
  /\ conn # "cloud" => ses = Idle

(* The answers that end a command, or a part of it.                        *)
Finals == {"OK", "ERROR", "SENT", "PROMPT"}
Quiet(q) == \A i \in DOMAIN q : q[i].kind \notin Finals
NoJunk(q) == \A i \in DOMAIN q : q[i].kind # "junk"

(* The steps that wait for an answer, and what each has asked for.         *)
Asking == (0..5) \cup {10, 900, 901}
CommandOf(step) == CASE step = 0 -> "stop"
                     [] step \in {1, 2} -> "config"
                     [] step = 3 -> "connect"
                     [] step = 4 -> "send"
                     [] step = 5 -> "bytes"
                     [] step \in {10, 900} -> "close"
                     [] step = 901 -> "serve"

(* The command has not been read by the ESP32.                             *)
Pending(s, u) ==
  /\ s.step \in Asking
  /\ Len(u) = 1 /\ u[1].op = CommandOf(s.step)
  /\ s.events \cap Finals = {}
  /\ Quiet(lines)
  /\ esp.raw <=> s.step = 5

(* Its answer is line i; only the OK that precedes a prompt may be earlier.*)
AnswerAt(i) ==
  /\ lines[i].kind \in {Wanted(ses.step), "ERROR"}
  /\ \A j \in DOMAIN lines :
       lines[j].kind \in Finals /\ j # i => j < i /\ ses.step = 4 /\ lines[j].kind = "OK"
  /\ esp.raw <=> lines[i].kind = "PROMPT"
  /\ ses.step = 901 /\ lines[i].kind = "OK" => esp.server
Replied ==
  /\ ses.step \in Asking
  /\ uart = <<>>
  /\ ses.events \cap Finals \subseteq (IF ses.step = 4 THEN {"OK"} ELSE {})
  /\ \E i \in DOMAIN lines : AnswerAt(i)

(* Nothing is asked of the ESP32.                                          *)
Silent == uart = <<>> /\ Quiet(lines) /\ ~esp.raw

Dialogue ==
  faults = 0 =>
    /\ NoJunk(lines)
    /\ \/ conn = "cloud" /\ (Pending(ses, uart) \/ Replied)
       \/ (conn = "cloud" => ses.step = 6) /\ Silent

-----------------------------------------------------------------------------
(* The parser: what a round makes of the n lines it hears, for every n.    *)

LEMMA SmallestOfNat ==
  ASSUME NEW T \in SUBSET Nat, T # {} PROVE \E k \in T : \A j \in T : k <= j
<1> DEFINE R == OpToRel(<, Nat)
<1>1. IsWellFoundedOn(R, Nat)
  BY NatLessThanWellFounded
<1>2. PICK k \in T : \A j \in T : ~(<<j, k>> \in R)
  BY <1>1, WFMin
<1>3. R = {ss \in Nat \X Nat : ss[1] < ss[2]}
  BY DEF OpToRel
<1> HIDE DEF R
<1>4. \A i, j \in Nat : i < j => <<i, j>> \in R
  BY <1>3
<1>5. ASSUME NEW j \in T PROVE k <= j
  <2>1. j \in Nat /\ k \in Nat /\ ~(j < k)
    BY <1>2, <1>4
  <2> QED BY <2>1
<1> QED BY <1>5

Feeding(n, f) ==
  f = [i \in 0..n |-> IF i = 0 THEN ses ELSE Feed(f[i - 1], lines[i])]

(* CloudAt_Feed can be repeated any number of times.                       *)
LEMMA FeedingExists ==
  ASSUME NEW n \in Nat PROVE \E f : Feeding(n, f)
<1> DEFINE T == {k \in Nat : ~\E f : Feeding(k, f)}
<1>1. ASSUME T # {} PROVE FALSE
  <2>1. PICK k \in T : \A j \in T : k <= j
    BY <1>1, SmallestOfNat
  <2>2. k # 0
    <3>1. Feeding(0, [i \in 0..0 |-> ses])
      BY DEF Feeding
    <3> QED BY <2>1, <3>1
  <2>3. k \in Nat /\ k - 1 \in Nat /\ ~(k <= k - 1)
    BY <2>1, <2>2
  <2>4. PICK f : Feeding(k - 1, f)
    BY <2>1, <2>3
  <2> DEFINE g == [i \in 0..k |-> IF i = k THEN Feed(f[k - 1], lines[k]) ELSE f[i]]
  <2>5. \A i \in 0..(k - 1) : f[i] = IF i = 0 THEN ses ELSE Feed(f[i - 1], lines[i])
    BY <2>4 DEF Feeding
  <2>6. ASSUME NEW i \in 0..k
        PROVE  g[i] = IF i = 0 THEN ses ELSE Feed(g[i - 1], lines[i])
    <3>1. CASE i = k
      BY <2>3, <3>1
    <3>2. CASE i # k
      <4>1. i \in 0..(k - 1) /\ g[i] = f[i]
        BY <2>3, <3>2
      <4>2. i # 0 => i - 1 \in 0..k /\ i - 1 # k /\ g[i - 1] = f[i - 1]
        BY <2>3, <4>1
      <4> QED BY <2>5, <4>1, <4>2
    <3> QED BY <3>1, <3>2
  <2> HIDE DEF g
  <2>7. g = [i \in 0..k |-> g[i]]
    BY DEF g
  <2>8. Feeding(k, g)
    BY <2>6, <2>7 DEF Feeding
  <2> QED BY <2>1, <2>8
<1> QED BY <1>1

LEMMA HeardIsFeeding ==
  ASSUME NEW n \in Nat PROVE \E f : Feeding(n, f) /\ Heard(n) = f[n]
<1> DEFINE a == CHOOSE f : Feeding(n, f)
<1>1. Heard(n) = a[n]
  BY DEF Heard, Feeding
<1>2. Feeding(n, a)
  BY FeedingExists
<1> HIDE DEF a
<1> QED
  BY <1>1, <1>2

(* The parser touches nothing but what it remembers of the lines.          *)
SameControl(s, t) ==
  /\ t.step = s.step /\ t.result = s.result /\ t.redirected = s.redirected
  /\ t.request = s.request /\ t.left = s.left /\ t.out = s.out

LEMMA FeedFacts ==
  ASSUME NEW s \in Sessions, NEW l \in Answers \cup Replies
  PROVE  /\ Feed(s, l) \in Sessions
         /\ SameControl(s, Feed(s, l))
         /\ \A e : e \in Feed(s, l).events <=>
                     \/ e \in s.events
                     \/ l.kind \in Events /\ e = l.kind
                     \/ l.kind = "junk" /\ e = "ERROR"
         /\ Feed(s, l).wire \in {s.wire, Other, l}
         /\ Feed(s, l).wire = l => Feed(s, l).wire = s.wire \/ l \in Replies
<1>1. Other \in Replies
  BY DEF Replies
<1>2. CASE l.kind \in Events
  <2> DEFINE b == s.eof \/ l.kind = "CLOSED"
             ev == s.events \cup {l.kind}
  <2>0. b \in BOOLEAN /\ ev \in SUBSET Events
    BY <1>2 DEF Sessions
  <2>1. Feed(s, l) = [s EXCEPT !.events = ev, !.eof = b]
    BY <1>2 DEF Feed, Events
  <2> HIDE DEF b, ev
  <2>2. Feed(s, l) \in Sessions /\ SameControl(s, Feed(s, l))
    BY <2>0, <2>1 DEF Sessions, SameControl
  <2>3. /\ Feed(s, l).events = s.events \cup {l.kind}
        /\ Feed(s, l).wire = s.wire
    BY <2>1 DEF Sessions, ev
  <2>4. l.kind # "junk"
    BY <1>2 DEF Events
  <2> QED BY <1>2, <2>2, <2>3, <2>4
<1>3. CASE l.kind = "junk"
  <2>1. Feed(s, l) = [s EXCEPT !.events = @ \cup {"ERROR"}, !.wire = Other]
    BY <1>3 DEF Feed, Events
  <2>2. Feed(s, l) \in Sessions /\ SameControl(s, Feed(s, l))
    BY <1>1, <2>1 DEF Sessions, SameControl, Events
  <2>3. /\ Feed(s, l).events = s.events \cup {"ERROR"}
        /\ Feed(s, l).wire = Other
    BY <2>1 DEF Sessions
  <2>4. l.kind \notin Events
    BY <1>3 DEF Events
  <2> QED BY <1>1, <1>3, <2>2, <2>3, <2>4
<1>4. CASE l.kind \notin Events \cup {"junk"}
  <2>1. Feed(s, l) = [s EXCEPT !.wire = IF @ = None THEN l ELSE @]
    BY <1>4 DEF Feed, Events
  <2>2. l \in Replies
    BY <1>4 DEF Answers
  <2> QED BY <1>4, <2>1, <2>2 DEF Sessions, SameControl
<1> QED BY <1>2, <1>3, <1>4

(* After n lines: every answer among them is remembered, and the payload   *)
(* is one of them, the one remembered before, or spoiled.                  *)
HeardSo(n, t) ==
  /\ t \in Sessions
  /\ SameControl(ses, t)
  /\ \A e : e \in t.events <=>
              \/ e \in ses.events
              \/ \E i \in 1..n : \/ lines[i].kind \in Events /\ e = lines[i].kind
                                 \/ lines[i].kind = "junk" /\ e = "ERROR"
  /\ \/ t.wire \in {ses.wire, Other}
     \/ \E i \in 1..n : lines[i] \in Replies /\ t.wire = lines[i]

LEMMA HeardFacts ==
  ASSUME TypeOK, NEW n \in 0..Len(lines) PROVE HeardSo(n, Heard(n))
<1>1. /\ n \in Nat /\ Len(lines) \in Nat /\ ses \in Sessions
      /\ \A i \in 1..Len(lines) : lines[i] \in Answers \cup Replies
  BY DEF TypeOK
<1>2. PICK f : Feeding(n, f) /\ Heard(n) = f[n]
  BY <1>1, HeardIsFeeding
<1>3. \A i \in 0..n : f[i] = IF i = 0 THEN ses ELSE Feed(f[i - 1], lines[i])
  BY <1>2 DEF Feeding
<1> DEFINE T == {k \in Nat : k <= n /\ ~HeardSo(k, f[k])}
<1>4. ASSUME T # {} PROVE FALSE
  <2>1. PICK k \in T : \A j \in T : k <= j
    BY <1>4, SmallestOfNat
  <2>2. k \in Nat /\ k <= n /\ ~HeardSo(k, f[k])
    BY <2>1
  <2>3. k # 0
    <3>1. f[0] = ses
      BY <1>1, <1>3
    <3>2. HeardSo(0, ses)
      BY <1>1 DEF HeardSo, SameControl
    <3> QED BY <2>2, <3>1, <3>2
  <2>4. k - 1 \in Nat /\ k - 1 <= n /\ ~(k <= k - 1) /\ k \in 1..Len(lines) /\ k \in 0..n
    BY <1>1, <2>2, <2>3
  <2>5. HeardSo(k - 1, f[k - 1])
    BY <2>1, <2>4
  <2> DEFINE t == f[k - 1]
             l == lines[k]
  <2>6. f[k] = Feed(t, l) /\ t \in Sessions /\ l \in Answers \cup Replies
    BY <1>1, <1>3, <2>3, <2>4, <2>5 DEF HeardSo
  <2>7. f[k] \in Sessions /\ SameControl(ses, f[k])
    BY <2>5, <2>6, FeedFacts DEF HeardSo, SameControl
  <2>8. \A i : i \in 1..k <=> (i \in 1..(k - 1) \/ i = k)
    BY <2>4
  <2>9. ASSUME NEW e
        PROVE  e \in f[k].events <=>
                 \/ e \in ses.events
                 \/ \E i \in 1..k : \/ lines[i].kind \in Events /\ e = lines[i].kind
                                    \/ lines[i].kind = "junk" /\ e = "ERROR"
    <3>1. e \in f[k].events <=> \/ e \in t.events
                                \/ l.kind \in Events /\ e = l.kind
                                \/ l.kind = "junk" /\ e = "ERROR"
      BY <2>6, FeedFacts
    <3>2. e \in t.events <=>
            \/ e \in ses.events
            \/ \E i \in 1..(k - 1) : \/ lines[i].kind \in Events /\ e = lines[i].kind
                                     \/ lines[i].kind = "junk" /\ e = "ERROR"
      BY <2>5 DEF HeardSo
    <3> HIDE DEF t
    <3> QED BY <2>8, <3>1, <3>2
  <2>10. \/ f[k].wire \in {ses.wire, Other}
         \/ \E i \in 1..k : lines[i] \in Replies /\ f[k].wire = lines[i]
    <3>1. /\ f[k].wire \in {t.wire, Other, l}
          /\ f[k].wire = l => f[k].wire = t.wire \/ l \in Replies
      BY <2>6, FeedFacts
    <3>2. \/ t.wire \in {ses.wire, Other}
          \/ \E i \in 1..(k - 1) : lines[i] \in Replies /\ t.wire = lines[i]
      BY <2>5 DEF HeardSo
    <3> HIDE DEF t
    <3> QED BY <2>8, <3>1, <3>2
  <2> QED BY <2>2, <2>7, <2>9, <2>10 DEF HeardSo
<1> QED
  BY <1>1, <1>2, <1>4

-----------------------------------------------------------------------------
(* The steps of a session.                                                 *)

Fine(s) == s \in Sessions /\ SessionVouched(s) /\ BytesVouched(s.out)

(* The session has just asked something of the ESP32.                      *)
Asks(t) ==
  /\ t.step \in Asking
  /\ Len(t.out) = 1 /\ t.out[1].op = CommandOf(t.step)
  /\ t.events \cap Finals = {}

Ops == {"stop", "config", "connect", "send", "close", "serve"}

(* t is s with c written.                                                  *)
Wrote(s, t, c) ==
  /\ t.step = s.step /\ t.events = s.events /\ t.wire = s.wire /\ t.eof = s.eof
  /\ t.result = s.result /\ t.redirected = s.redirected
  /\ t.request = s.request /\ t.left = s.left
  /\ t.out = Append(s.out, c)
  /\ s.out = <<>> => Len(t.out) = 1 /\ t.out[1].op = c.op

LEMMA WriteFacts ==
  ASSUME NEW s, Fine(s), NEW c \in Commands \cup Payloads,
         c.op = "bytes" /\ ~c.post => c.nonce \in recorded
  PROVE  Fine(Write(s, c)) /\ Wrote(s, Write(s, c), c)
<1>1. s \in Sessions /\ s.out \in Seq(Commands \cup Payloads)
  BY DEF Fine, Sessions
<1>2. /\ Append(s.out, c) \in Seq(Commands \cup Payloads)
      /\ DOMAIN Append(s.out, c) = 1..Len(s.out) + 1
      /\ DOMAIN s.out = 1..Len(s.out)
      /\ \A i \in 1..Len(s.out) : Append(s.out, c)[i] = s.out[i]
      /\ Append(s.out, c)[Len(s.out) + 1] = c
      /\ s.out = <<>> => Len(Append(s.out, c)) = 1 /\ Append(s.out, c)[1] = c
  BY <1>1, AppendProperties
<1> DEFINE o == Append(s.out, c)
<1>3. BytesVouched(o)
  <2> SUFFICES ASSUME NEW i \in DOMAIN o, o[i].op = "bytes", ~o[i].post
               PROVE  o[i].nonce \in recorded
    BY DEF BytesVouched
  <2>1. CASE i \in 1..Len(s.out)
    BY <1>2, <2>1 DEF Fine, BytesVouched
  <2>2. CASE i \notin 1..Len(s.out)
    <3>1. i = Len(s.out) + 1
      BY <1>1, <1>2, <2>2
    <3> QED BY <1>2, <3>1
  <2> QED BY <2>1, <2>2
<1>4. o \in Seq(Commands \cup Payloads)
  BY <1>2
<1>5. Write(s, c) = [s EXCEPT !.out = o]
  BY DEF Write
<1>6. s.out = <<>> => Len(o) = 1 /\ o[1].op = c.op
  BY <1>2
<1>7. o = Append(s.out, c)
  OBVIOUS
<1> HIDE DEF o
<1>8. Write(s, c) \in Sessions /\ Write(s, c).out = o
  BY <1>1, <1>4, <1>5 DEF Sessions
<1>9. Wrote(s, Write(s, c), c)
  BY <1>1, <1>5, <1>6, <1>7 DEF Sessions, Wrote
<1>10. SessionVouched(Write(s, c))
  BY <1>9 DEF Fine, SessionVouched, Wrote
<1> QED
  BY <1>3, <1>8, <1>9, <1>10 DEF Fine

LEMMA SendFacts ==
  ASSUME NEW s, Fine(s), NEW op \in Ops
  PROVE  Fine(Send(s, op)) /\ Wrote(s, Send(s, op), [op |-> op])
<1>1. [op |-> op] \in Commands \cup Payloads
  BY DEF Commands, Ops
<1>2. [op |-> op].op # "bytes"
  BY DEF Ops
<1> HIDE DEF Ops
<1> QED
  BY <1>1, <1>2, WriteFacts DEF Send

LEMMA CloseFacts ==
  ASSUME NEW s, Fine(s), NEW result \in {"ok", "failed"},
         result = "ok" => nonce \in recorded
  PROVE  /\ Fine(Close(s, result))
         /\ Close(s, result).step = 900
         /\ s.out = <<>> => Asks(Close(s, result))
<1> DEFINE at == 900
           none == {}
           t == [s EXCEPT !.result = result, !.events = none, !.step = at]
<1>0. at \in Steps /\ none \in SUBSET Events /\ s \in Sessions
  BY DEF Steps, Fine
<1> HIDE DEF at, none
<1>1. t \in Sessions
  BY <1>0 DEF Sessions
<1>2. t.step = 900 /\ t.events = {} /\ t.out = s.out
  BY <1>0 DEF Sessions, at, none
<1>3. /\ t.wire = s.wire /\ t.request = s.request /\ t.redirected = s.redirected
      /\ t.result = result
  BY <1>0 DEF Sessions
<1>4. Close(s, result) = Send(t, "close")
  BY DEF Close, at, none
<1> HIDE DEF t
<1>5. SessionVouched(t)
  BY <1>2, <1>3 DEF Fine, SessionVouched
<1>6. Fine(t)
  BY <1>1, <1>2, <1>5 DEF Fine
<1>7. Fine(Send(t, "close")) /\ Wrote(t, Send(t, "close"), [op |-> "close"])
  BY <1>6, SendFacts DEF Ops
<1>8. s.out = <<>> => Asks(Send(t, "close"))
  BY <1>2, <1>7 DEF Asks, Wrote, Asking, CommandOf
<1> QED
  BY <1>2, <1>4, <1>7, <1>8 DEF Wrote

LEMMA RestoreFacts ==
  ASSUME NEW s, Fine(s), s.step >= 900 \/ s.result = "failed"
  PROVE  /\ Fine(Restore(s))
         /\ Restore(s).step = 901
         /\ s.out = <<>> => Asks(Restore(s))
<1> DEFINE at == 901
           none == {}
           t == [s EXCEPT !.events = none, !.step = at]
<1>0. at \in Steps /\ none \in SUBSET Events /\ s \in Sessions
  BY DEF Steps, Fine
<1> HIDE DEF at, none
<1>1. t \in Sessions
  BY <1>0 DEF Sessions
<1>2. t.step = 901 /\ t.events = {} /\ t.out = s.out
  BY <1>0 DEF Sessions, at, none
<1>3. /\ t.wire = s.wire /\ t.request = s.request /\ t.redirected = s.redirected
      /\ t.result = s.result
  BY <1>0 DEF Sessions
<1>4. Restore(s) = Send(t, "serve")
  BY DEF Restore, at, none
<1> HIDE DEF t
<1>5. SessionVouched(t)
  BY <1>2, <1>3 DEF Fine, SessionVouched
<1>6. Fine(t)
  BY <1>1, <1>2, <1>5 DEF Fine
<1>7. Fine(Send(t, "serve")) /\ Wrote(t, Send(t, "serve"), [op |-> "serve"])
  BY <1>6, SendFacts DEF Ops
<1>8. s.out = <<>> => Asks(Send(t, "serve"))
  BY <1>2, <1>7 DEF Asks, Wrote, Asking, CommandOf
<1> QED
  BY <1>2, <1>4, <1>7, <1>8 DEF Wrote

(* t asks for what its step is about, and remembers nothing new.           *)
Turned(s, t) ==
  /\ t \in Sessions /\ t.events = {} /\ t.step < 900
  /\ t.wire \in {s.wire, None} /\ t.out = s.out
  /\ t.request = s.request /\ t.redirected = s.redirected

LEMMA TurnFacts ==
  ASSUME NEW s, Fine(s), NEW t, Turned(s, t)
  PROVE  /\ Fine(t)
         /\ \A op \in Ops :
              /\ Fine(Send(t, op)) /\ Send(t, op).step = t.step
              /\ s.out = <<>> /\ t.step \in Asking /\ op = CommandOf(t.step)
                   => Asks(Send(t, op))
<1>1. SessionVouched(t)
  <2>1. t.step \in Int
    BY DEF Turned, Sessions, Steps
  <2>2. ~(t.step >= 900)
    BY <2>1 DEF Turned
  <2> QED BY <2>2 DEF Turned, Fine, SessionVouched
<1>2. Fine(t)
  BY <1>1 DEF Turned, Fine
<1>3. ASSUME NEW op \in Ops
      PROVE  /\ Fine(Send(t, op)) /\ Send(t, op).step = t.step
             /\ s.out = <<>> /\ t.step \in Asking /\ op = CommandOf(t.step)
                  => Asks(Send(t, op))
  <2>1. Fine(Send(t, op)) /\ Wrote(t, Send(t, op), [op |-> op])
    BY <1>2, SendFacts
  <2>2. Send(t, op).step = t.step /\ Send(t, op).events = {}
    BY <2>1 DEF Wrote, Turned
  <2>3. s.out = <<>> => Len(Send(t, op).out) = 1 /\ Send(t, op).out[1].op = op
    BY <2>1 DEF Wrote, Turned
  <2> QED BY <2>1, <2>2, <2>3 DEF Asks
<1> QED
  BY <1>2, <1>3

Both(s) == Passed(s) /\ "ERROR" \in s.events

LEMMA ServedFacts ==
  ASSUME NEW s, Fine(s)
  PROVE  /\ s.step \in 0..5 => /\ Turned(s, Served(s))
                               /\ ~Both(s) => Served(s).step = s.step + 1
                               /\ Served(s).left = s.left
         /\ Restore(Served(s)) = Restore(s)
<1> DEFINE at == s.step + IF Passed(s) /\ "ERROR" \in s.events THEN 3 ELSE 1
           none == {}
           t == [s EXCEPT !.events = none, !.step = at]
<1>0. s \in Sessions /\ none \in SUBSET Events /\ s.step \in Nat
  BY DEF Fine, Sessions, Steps
<1>1. s.step \in 0..5 => at \in Steps /\ at < 900
  <2>1. s.step \in 0..5 => s.step + 3 \in 0..8 /\ s.step + 1 \in 0..8
    BY <1>0
  <2> QED BY <2>1 DEF Steps
<1>2. ~Both(s) => at = s.step + 1
  BY DEF Both
<1>3. Served(s) = t
  BY DEF Served
<1>4. none = {}
  OBVIOUS
<1> HIDE DEF at, none
<1>5. Restore(t) = Restore(s)
  <2> DEFINE last == 901
  <2>1. Restore(t) = Send([t EXCEPT !.events = none, !.step = last], "serve")
    BY <1>4 DEF Restore
  <2>2. Restore(s) = Send([s EXCEPT !.events = none, !.step = last], "serve")
    BY <1>4 DEF Restore
  <2> HIDE DEF last
  <2>3. [t EXCEPT !.events = none, !.step = last] = [s EXCEPT !.events = none, !.step = last]
    BY <1>0 DEF Sessions
  <2> QED BY <2>1, <2>2, <2>3
<1>6. /\ t.events = none /\ t.step = at /\ t.wire = s.wire /\ t.out = s.out
      /\ t.request = s.request /\ t.redirected = s.redirected /\ t.left = s.left
  BY <1>0 DEF Sessions
<1>7. at \in Steps => t \in Sessions
  BY <1>0 DEF Sessions
<1> HIDE DEF t
<1> QED
  BY <1>1, <1>2, <1>3, <1>4, <1>5, <1>6, <1>7 DEF Turned

LEMMA WantedFacts ==
  /\ \A k \in {0, 1, 2, 3, 10, 900, 901} : Wanted(k) = "OK"
  /\ Wanted(4) = "PROMPT" /\ Wanted(5) = "SENT"
  /\ \A k \in {6, 7, 8} : Wanted(k) = None
BY DEF Wanted

(* The wire and the end of the link of a new link are forgotten.           *)
LEMMA ResetFacts ==
  ASSUME NEW s, NEW t, Turned(s, t) PROVE Turned(s, Reset(t)) /\ Reset(t).step = t.step
<1> DEFINE none == {}
           no == FALSE
           r == [t EXCEPT !.events = none, !.wire = None, !.eof = no]
<1>1. none \in SUBSET Events /\ none = {} /\ no \in BOOLEAN
  OBVIOUS
<1>2. Reset(t) = r
  BY DEF Reset
<1>3. t \in Sessions
  BY DEF Turned
<1> HIDE DEF none, no
<1>4. r \in Sessions
  BY <1>1, <1>3 DEF Sessions
<1>5. /\ r.events = none /\ r.step = t.step /\ r.wire = None /\ r.out = t.out
      /\ r.request = t.request /\ r.redirected = t.redirected
  BY <1>3 DEF Sessions
<1> HIDE DEF r
<1> QED BY <1>1, <1>2, <1>4, <1>5 DEF Turned

(* The link of the redirect (steps 10 and 1).                              *)
LEMMA RetryFacts ==
  ASSUME NEW s, Fine(s)
  PROVE  /\ Turned(s, [Reset(Served(s)) EXCEPT !.step = 1])
         /\ [Reset(Served(s)) EXCEPT !.step = 1].step = 1
<1> DEFINE none == {}
           one == 1
           no == FALSE
           at == s.step + IF Passed(s) /\ "ERROR" \in s.events THEN 3 ELSE 1
           u == [s EXCEPT !.events = none, !.step = at]
           w == [u EXCEPT !.events = none, !.wire = None, !.eof = no]
           r == [w EXCEPT !.step = one]
           Loose == [step : Int, events : SUBSET Events, wire : Replies \cup {None},
                     eof : BOOLEAN, result : {"ok", "failed"}, redirected : BOOLEAN,
                     request : Requests \cup {None}, left : 0..Packets,
                     out : Seq(Commands \cup Payloads)]
<1>1. /\ none \in SUBSET Events /\ one \in Steps /\ s \in Sessions
      /\ one < 900 /\ none = {} /\ one = 1 /\ no \in BOOLEAN
  BY DEF Fine, Steps
<1>3. [Reset(Served(s)) EXCEPT !.step = 1] = r
  BY DEF Reset, Served
<1>2. at \in Int
  BY DEF Fine, Sessions, Steps
<1> HIDE DEF at, none, one, no
<1>4. r \in Sessions
  <2>1. u \in Loose
    BY <1>1, <1>2 DEF Sessions
  <2> HIDE DEF u
  <2>2. w \in Loose
    <3>1. none \in SUBSET Events /\ no \in BOOLEAN
      BY <1>1
    <3> SUFFICES ASSUME NEW x \in Loose
                 PROVE  [x EXCEPT !.events = none, !.wire = None, !.eof = no] \in Loose
      BY <2>1
    <3> QED BY <3>1
  <2> HIDE DEF w
  <2> QED BY <1>1, <2>2 DEF Sessions
<1>5. /\ r.events = none /\ r.step = one /\ r.wire = None /\ r.out = s.out
      /\ r.request = s.request /\ r.redirected = s.redirected
  BY <1>1 DEF Sessions
<1> HIDE DEF r
<1> QED BY <1>1, <1>3, <1>4, <1>5 DEF Turned

LEMMA PayloadFacts ==
  ASSUME ConstantsAssumption, nonce \in Nonces, NEW s, Fine(s)
  PROVE  /\ Payload(s) \in Commands \cup Payloads /\ Payload(s).op = "bytes"
         /\ ~Payload(s).post => Payload(s).nonce \in recorded
<1> DEFINE m == IF s.redirected THEN s.request.nonce ELSE nonce
           p == ~s.redirected
           z == s.left = 1
<1>1. p \in BOOLEAN /\ z \in BOOLEAN
  OBVIOUS
<1>2. m \in Nonces /\ (~p => m \in recorded)
  BY DEF Fine, Sessions, SessionVouched, Requests
<1>3. Payload(s) = [op |-> "bytes", post |-> p, last |-> z, nonce |-> m]
  BY DEF Payload
<1> HIDE DEF m, p, z
<1> QED
  BY <1>1, <1>2, <1>3 DEF Payloads

(* The outcome of a step: something is asked, or (step 6) the reply of     *)
(* Google is waited for; only a prompt leads to the bytes.                 *)
Taken(s, t) ==
  /\ Fine(t)
  /\ s.out = <<>> /\ ~Both(s) =>
       /\ Asks(t) \/ (t.step = 6 /\ t.out = <<>>)
       /\ t.step = 5 <=> s.step = 4 /\ Passed(s)

LEMMA MorePacketsFacts ==
  ASSUME ConstantsAssumption, NEW s, Fine(s), s.step = 5 PROVE Taken(s, MorePackets(Served(s)))
<1> DEFINE t == Served(s)
           fewer == t.left - 1
           at == 4
           zero == 0
<1>1. Turned(s, t) /\ (~Both(s) => t.step = 6)
  BY ServedFacts
<1> HIDE DEF t
<1>2. t \in Sessions /\ t.left \in 0..Packets /\ Packets \in Nat
  BY <1>1 DEF Turned, Sessions, ConstantsAssumption
<1>3. CASE t.left > 1
  <2> DEFINE u == [t EXCEPT !.left = fewer, !.step = at]
  <2>1. MorePackets(t) = Send(u, "send")
    BY <1>3 DEF MorePackets
  <2>2. fewer \in 0..Packets /\ at \in Steps /\ at = 4
    BY <1>2, <1>3 DEF Steps
  <2> HIDE DEF fewer, at
  <2>3. u \in Sessions
    BY <1>2, <2>2 DEF Sessions
  <2>4. /\ u.step = at /\ u.events = t.events /\ u.wire = t.wire /\ u.out = t.out
        /\ u.request = t.request /\ u.redirected = t.redirected
    BY <1>2 DEF Sessions
  <2> HIDE DEF u
  <2>5. Turned(s, u) /\ u.step = 4
    BY <1>1, <2>2, <2>3, <2>4 DEF Turned
  <2>6. "send" \in Ops /\ u.step \in Asking /\ "send" = CommandOf(u.step)
    BY <2>5 DEF Ops, Asking, CommandOf
  <2>7. /\ Fine(Send(u, "send")) /\ Send(u, "send").step = 4
        /\ s.out = <<>> => Asks(Send(u, "send"))
    BY <2>5, <2>6, TurnFacts
  <2> QED BY <2>1, <2>7, <1>1 DEF Taken, t
<1>4. CASE ~(t.left > 1)
  <2> DEFINE u == [t EXCEPT !.left = zero]
  <2>1. MorePackets(t) = u
    BY <1>4 DEF MorePackets
  <2>2. zero \in 0..Packets
    BY <1>2
  <2> HIDE DEF zero
  <2>3. u \in Sessions
    BY <1>2, <2>2 DEF Sessions
  <2>4. /\ u.step = t.step /\ u.events = t.events /\ u.wire = t.wire /\ u.out = t.out
        /\ u.request = t.request /\ u.redirected = t.redirected
    BY <1>2 DEF Sessions
  <2> HIDE DEF u
  <2>5. Turned(s, u)
    BY <1>1, <2>3, <2>4 DEF Turned
  <2>6. Fine(u)
    BY <2>5, TurnFacts
  <2>7. ~Both(s) => u.step = 6
    BY <1>1, <2>4
  <2>8. s.out = <<>> => u.out = <<>>
    BY <2>5 DEF Turned
  <2>9. Taken(s, u)
    BY <2>6, <2>7, <2>8 DEF Taken
  <2> QED BY <2>1, <2>9 DEF t
<1> QED
  BY <1>3, <1>4 DEF t

LEMMA AdvancedFacts ==
  ASSUME ConstantsAssumption, nonce \in Nonces, NEW s, Fine(s), Answered(s), s.step # 901
  PROVE  Taken(s, Advanced(s))
<1> DEFINE t == Served(s)
<1>0. s \in Sessions /\ s.step \in {0, 1, 2, 3, 4, 5, 10, 900}
  <2>1. s.step \in Steps /\ s.step \notin {6, 7, 8, 901}
    BY WantedFacts DEF Fine, Sessions, Answered
  <2> QED BY <2>1 DEF Fine, Steps
<1>1. ASSUME s.step \in 0..5
      PROVE  Turned(s, t) /\ Fine(t) /\ (~Both(s) => t.step = s.step + 1) /\ t.left = s.left
  BY <1>1, ServedFacts, TurnFacts
<1>2. ASSUME NEW u, Turned(s, u), NEW op \in Ops,
             ~Both(s) => u.step \in {1, 2, 3, 4} /\ op = CommandOf(u.step),
             s.step = 4 => ~Passed(s)
      PROVE  Taken(s, Send(u, op))
  <2>1. /\ Fine(Send(u, op)) /\ Send(u, op).step = u.step
        /\ s.out = <<>> /\ u.step \in Asking /\ op = CommandOf(u.step)
             => Asks(Send(u, op))
    BY <1>2, TurnFacts
  <2>2. ~Both(s) => u.step \in Asking /\ op = CommandOf(u.step) /\ u.step # 5
    BY <1>2 DEF Asking
  <2> QED BY <1>2, <2>1, <2>2 DEF Taken
<1>3. CASE s.step \in 0..5 /\ ~Passed(s)
  <2>1. Advanced(s) = Close(t, "failed")
    BY <1>3 DEF Advanced
  <2>2. /\ Fine(Close(t, "failed")) /\ Close(t, "failed").step = 900
        /\ t.out = <<>> => Asks(Close(t, "failed"))
    BY <1>1, <1>3, CloseFacts
  <2>3. s.out = <<>> => t.out = <<>>
    BY <1>1, <1>3 DEF Turned
  <2> QED BY <1>3, <2>1, <2>2, <2>3 DEF Taken
<1>4. CASE s.step \in {0, 1} /\ Passed(s)
  <2>1. Advanced(s) = Send(t, "config")
    BY <1>4 DEF Advanced
  <2>2. Turned(s, t) /\ (~Both(s) => t.step \in {1, 2})
    BY <1>1, <1>4
  <2> HIDE DEF t
  <2>3. ~Both(s) => t.step \in {1, 2, 3, 4} /\ "config" = CommandOf(t.step)
    BY <2>2 DEF CommandOf
  <2> QED BY <1>2, <1>4, <2>1, <2>2, <2>3 DEF Ops
<1>5. CASE s.step = 2 /\ Passed(s)
  <2>1. Advanced(s) = Send(Reset(t), "connect")
    BY <1>5 DEF Advanced
  <2>2. Turned(s, t) /\ (~Both(s) => t.step = 3)
    BY <1>1, <1>5
  <2> HIDE DEF t
  <2>3. Turned(s, Reset(t)) /\ (~Both(s) => Reset(t).step = 3)
    BY <2>2, ResetFacts
  <2>4. ~Both(s) => Reset(t).step \in {1, 2, 3, 4} /\ "connect" = CommandOf(Reset(t).step)
    BY <2>3 DEF CommandOf
  <2> QED BY <1>2, <1>5, <2>1, <2>3, <2>4 DEF Ops
<1>6. CASE s.step = 3 /\ Passed(s)
  <2> DEFINE n == IF s.redirected THEN s.request.packets ELSE 1
             u == [t EXCEPT !.left = n]
  <2>1. Advanced(s) = Send(u, "send")
    BY <1>6 DEF Advanced
  <2>2. n \in 0..Packets
    BY DEF Fine, SessionVouched, Requests, ConstantsAssumption
  <2>3. Turned(s, t) /\ (~Both(s) => t.step = 4) /\ t \in Sessions
    BY <1>1, <1>6 DEF Turned
  <2> HIDE DEF n, t
  <2>4. u \in Sessions
    BY <2>2, <2>3 DEF Sessions
  <2>5. /\ u.step = t.step /\ u.events = t.events /\ u.wire = t.wire /\ u.out = t.out
        /\ u.request = t.request /\ u.redirected = t.redirected
    BY <2>3 DEF Sessions
  <2> HIDE DEF u
  <2>6. Turned(s, u) /\ (~Both(s) => u.step = 4)
    BY <2>3, <2>4, <2>5 DEF Turned
  <2>7. ~Both(s) => u.step \in {1, 2, 3, 4} /\ "send" = CommandOf(u.step)
    BY <2>6 DEF CommandOf
  <2> QED BY <1>2, <1>6, <2>1, <2>6, <2>7 DEF Ops
<1>7. CASE s.step = 4 /\ Passed(s)
  <2> DEFINE c == Payload(s)
  <2>1. Advanced(s) = Write(t, c)
    BY <1>7 DEF Advanced
  <2>2. Turned(s, t) /\ Fine(t) /\ (~Both(s) => t.step = 5)
    BY <1>1, <1>7
  <2>3. /\ c \in Commands \cup Payloads /\ c.op = "bytes"
        /\ ~c.post => c.nonce \in recorded
    BY PayloadFacts
  <2> HIDE DEF t, c
  <2>4. Fine(Write(t, c)) /\ Wrote(t, Write(t, c), c)
    BY <2>2, <2>3, WriteFacts
  <2>5. s.out = <<>> /\ ~Both(s) => Asks(Write(t, c)) /\ Write(t, c).step = 5
    BY <2>2, <2>3, <2>4 DEF Asks, Wrote, Turned, Asking, CommandOf
  <2> QED BY <1>7, <2>1, <2>4, <2>5 DEF Taken
<1>8. CASE s.step = 5 /\ Passed(s)
  <2>1. Advanced(s) = MorePackets(t)
    BY <1>8 DEF Advanced
  <2> QED BY <1>8, <2>1, MorePacketsFacts
<1>9. CASE s.step = 10
  <2> DEFINE u == [Reset(t) EXCEPT !.step = 1]
  <2>1. Advanced(s) = Send(u, "config")
    BY <1>9 DEF Advanced
  <2>2. Turned(s, u) /\ u.step = 1
    BY RetryFacts
  <2> HIDE DEF u
  <2>3. u.step \in {1, 2, 3, 4} /\ "config" = CommandOf(u.step)
    BY <2>2 DEF CommandOf
  <2> QED BY <1>2, <1>9, <2>1, <2>2, <2>3 DEF Ops
<1>10. CASE s.step = 900
  <2>1. Advanced(s) = Restore(t) /\ Restore(t) = Restore(s)
    BY <1>10, ServedFacts DEF Advanced
  <2>2. /\ Fine(Restore(s)) /\ Restore(s).step = 901
        /\ s.out = <<>> => Asks(Restore(s))
    BY <1>10, RestoreFacts
  <2> QED BY <1>10, <2>1, <2>2 DEF Taken
<1> QED
  BY <1>0, <1>3, <1>4, <1>5, <1>6, <1>7, <1>8, <1>9, <1>10

(* Step 6: the wait goes on, or the link is closed.  A redirect that is    *)
(* followed, and a reply that counts, have been vouched for by Google.     *)
LEMMA JudgedFacts ==
  ASSUME NEW s, Fine(s)
  PROVE  /\ Fine(Judged(s))
         /\ Judged(s) # s /\ s.out = <<>> => Asks(Judged(s)) /\ Judged(s).step # 5
<1>0. /\ s \in Sessions /\ s.eof \in BOOLEAN /\ s.wire \in Replies \cup {None}
      /\ s.wire # None /\ FromGoogle(s.wire) => s.wire.nonce \in recorded
  BY DEF Fine, Sessions, SessionVouched
<1>1. CASE s.wire = None /\ ~s.eof
  <2>1. Judged(s) = s
    BY <1>1 DEF Judged
  <2> QED BY <2>1
<1>2. CASE Judged(s) = Close(s, "failed")
  BY <1>2, CloseFacts
<1>3. CASE s.wire # None /\ s.wire.kind = "reply" /\ s.wire.nonce = nonce
           /\ Judged(s) = Close(s, "ok")
  <2>1. nonce \in recorded
    BY <1>0, <1>3 DEF FromGoogle
  <2>2. /\ Fine(Close(s, "ok")) /\ Close(s, "ok").step = 900
        /\ s.out = <<>> => Asks(Close(s, "ok"))
    BY <2>1, CloseFacts
  <2> QED BY <1>3, <2>2
<1>4. CASE s.wire # None /\ s.wire.kind = "redirect" /\ ~s.redirected
  <2> DEFINE req == [nonce |-> s.wire.nonce, packets |-> s.wire.packets]
             none == {}
             at == 10
             yes == TRUE
             t == [s EXCEPT !.redirected = yes, !.events = none, !.step = at,
                            !.request = req]
  <2>1. Judged(s) = Send(t, "close")
    BY <1>4 DEF Judged
  <2>2. s.wire \in Replies /\ s.wire # Other
    BY <1>0, <1>4 DEF Other
  <2>3. req \in Requests /\ req.nonce \in recorded
    BY <1>0, <1>4, <2>2 DEF Replies, Requests, FromGoogle
  <2>4. none \in SUBSET Events /\ at \in Steps /\ none = {} /\ at = 10 /\ yes \in BOOLEAN
    BY DEF Steps
  <2> HIDE DEF req, none, at, yes
  <2>5. t \in Sessions
    BY <1>0, <2>3, <2>4 DEF Sessions
  <2>6. /\ t.wire = s.wire /\ t.request = req /\ t.out = s.out
        /\ t.events = none /\ t.step = at
    BY <1>0 DEF Sessions
  <2> HIDE DEF t
  <2>7. SessionVouched(t)
    BY <1>0, <2>3, <2>4, <2>6 DEF SessionVouched
  <2>8. Fine(t)
    BY <2>5, <2>6, <2>7 DEF Fine
  <2>9. Fine(Send(t, "close")) /\ Wrote(t, Send(t, "close"), [op |-> "close"])
    BY <2>8, SendFacts DEF Ops
  <2>10. s.out = <<>> => Asks(Send(t, "close")) /\ Send(t, "close").step # 5
    BY <2>4, <2>6, <2>9 DEF Asks, Wrote, Asking, CommandOf
  <2> QED BY <2>1, <2>9, <2>10
<1>5. \/ Judged(s) = Close(s, "failed")
      \/ s.wire = None /\ ~s.eof
      \/ s.wire # None /\ s.wire.kind = "redirect" /\ ~s.redirected
      \/ /\ s.wire # None /\ s.wire.kind = "reply" /\ s.wire.nonce = nonce
         /\ Judged(s) = Close(s, "ok")
  BY DEF Judged
<1> QED
  BY <1>1, <1>2, <1>3, <1>4, <1>5

(* One step of a round, whatever has been heard.                           *)
Stepped(s) == LET t == IF Answered(s) THEN Advanced(s) ELSE s
              IN IF t.step = 6 THEN Judged(t) ELSE t

LEMMA SteppedFacts ==
  ASSUME ConstantsAssumption, nonce \in Nonces,
         NEW s, Fine(s), ~(s.step = 901 /\ Answered(s))
  PROVE  /\ Fine(Stepped(s))
         /\ ~Answered(s) /\ s.step # 6 => Stepped(s) = s
         /\ s.out = <<>> /\ ~(Answered(s) /\ Both(s)) /\ (Answered(s) \/ s.step = 6) =>
              /\ Asks(Stepped(s)) \/ (Stepped(s).step = 6 /\ Stepped(s).out = <<>>)
              /\ Stepped(s).step = 5 <=> s.step = 4 /\ Passed(s)
<1>1. CASE ~Answered(s) /\ s.step # 6
  <2>1. Stepped(s) = s
    BY <1>1 DEF Stepped
  <2> QED BY <1>1, <2>1
<1>2. CASE ~Answered(s) /\ s.step = 6
  <2>1. Stepped(s) = Judged(s)
    BY <1>2 DEF Stepped
  <2> QED BY <1>2, <2>1, JudgedFacts
<1>3. CASE Answered(s)
  <2> DEFINE t == Advanced(s)
  <2>1. Taken(s, t)
    BY <1>3, AdvancedFacts
  <2>2. Stepped(s) = IF t.step = 6 THEN Judged(t) ELSE t
    BY <1>3 DEF Stepped
  <2> HIDE DEF t
  <2>3. CASE t.step = 6
    <3>1. /\ Fine(Judged(t))
          /\ Judged(t) # t /\ t.out = <<>> => Asks(Judged(t)) /\ Judged(t).step # 5
      BY <2>1, JudgedFacts DEF Taken
    <3>2. s.out = <<>> /\ ~Both(s) => t.out = <<>> /\ ~(s.step = 4 /\ Passed(s))
      BY <2>1, <2>3 DEF Taken, Asks, Asking
    <3> QED BY <1>3, <2>2, <2>3, <3>1, <3>2
  <2>4. CASE t.step # 6
    BY <1>3, <2>1, <2>2, <2>4 DEF Taken
  <2> QED BY <2>3, <2>4
<1> QED
  BY <1>1, <1>2, <1>3

-----------------------------------------------------------------------------
(* Types, and what Google has vouched for.                                 *)

Lines == Answers \cup Replies
Writes == Commands \cup Payloads

LEMMA LineFacts ==
  ASSUME NEW q \in Seq(Lines)
  PROVE  /\ q # <<>> => /\ Tail(q) \in Seq(Lines)
                        /\ DOMAIN Tail(q) = 1..Len(q) - 1
                        /\ \A i \in 1..Len(q) - 1 : Tail(q)[i] = q[i + 1] /\ i + 1 \in DOMAIN q
         /\ \A n \in 0..Len(q) :
              /\ SubSeq(q, n + 1, Len(q)) \in Seq(Lines)
              /\ DOMAIN SubSeq(q, n + 1, Len(q)) = 1..Len(q) - n
              /\ \A i \in 1..Len(q) - n : /\ SubSeq(q, n + 1, Len(q))[i] = q[i + n]
                                          /\ i + n \in DOMAIN q
         /\ \A r \in Seq(Lines) :
              /\ q \o r \in Seq(Lines)
              /\ DOMAIN (q \o r) = 1..Len(q) + Len(r)
              /\ \A i \in 1..Len(q) + Len(r) :
                   \/ i \in DOMAIN q /\ (q \o r)[i] = q[i]
                   \/ i - Len(q) \in DOMAIN r /\ (q \o r)[i] = r[i - Len(q)]
<1>0. Len(q) \in Nat /\ DOMAIN q = 1..Len(q)
  OBVIOUS
<1>1. ASSUME q # <<>>
      PROVE  /\ Tail(q) \in Seq(Lines)
             /\ DOMAIN Tail(q) = 1..Len(q) - 1
             /\ \A i \in 1..Len(q) - 1 : Tail(q)[i] = q[i + 1] /\ i + 1 \in DOMAIN q
  BY <1>0, <1>1, HeadTailProperties
<1>2. ASSUME NEW n \in 0..Len(q)
      PROVE  /\ SubSeq(q, n + 1, Len(q)) \in Seq(Lines)
             /\ DOMAIN SubSeq(q, n + 1, Len(q)) = 1..Len(q) - n
             /\ \A i \in 1..Len(q) - n : /\ SubSeq(q, n + 1, Len(q))[i] = q[i + n]
                                         /\ i + n \in DOMAIN q
  BY <1>0, SubSeqProperties
<1>3. ASSUME NEW r \in Seq(Lines)
      PROVE  /\ q \o r \in Seq(Lines)
             /\ DOMAIN (q \o r) = 1..Len(q) + Len(r)
             /\ \A i \in 1..Len(q) + Len(r) :
                  \/ i \in DOMAIN q /\ (q \o r)[i] = q[i]
                  \/ i - Len(q) \in DOMAIN r /\ (q \o r)[i] = r[i - Len(q)]
  BY <1>0, ConcatProperties
<1> QED BY <1>1, <1>2, <1>3

(* Vouching survives what happens to the lines.                            *)
LEMMA LinesVouchedFacts ==
  ASSUME NEW q \in Seq(Lines), LinesVouched(q)
  PROVE  /\ q # <<>> => LinesVouched(Tail(q))
         /\ \A n \in 0..Len(q) : LinesVouched(SubSeq(q, n + 1, Len(q)))
         /\ \A r \in Seq(Lines) : LinesVouched(r) => LinesVouched(q \o r)
<1>1. ASSUME q # <<>> PROVE LinesVouched(Tail(q))
  BY <1>1, LineFacts DEF LinesVouched
<1>2. ASSUME NEW n \in 0..Len(q) PROVE LinesVouched(SubSeq(q, n + 1, Len(q)))
  BY LineFacts DEF LinesVouched
<1>3. ASSUME NEW r \in Seq(Lines), LinesVouched(r) PROVE LinesVouched(q \o r)
  BY <1>3, LineFacts DEF LinesVouched
<1> QED BY <1>1, <1>2, <1>3

LEMMA WritesFacts ==
  ASSUME NEW q \in Seq(Writes), BytesVouched(q)
  PROVE  /\ q # <<>> => Tail(q) \in Seq(Writes) /\ BytesVouched(Tail(q))
         /\ q # <<>> => Head(q) \in Writes /\ Head(q) = q[1] /\ 1 \in DOMAIN q
         /\ \A r \in Seq(Writes) : BytesVouched(r) => /\ q \o r \in Seq(Writes)
                                                      /\ BytesVouched(q \o r)
<1>0. Len(q) \in Nat /\ DOMAIN q = 1..Len(q)
  OBVIOUS
<1>1. ASSUME q # <<>>
      PROVE  /\ Tail(q) \in Seq(Writes) /\ BytesVouched(Tail(q))
             /\ Head(q) \in Writes /\ Head(q) = q[1] /\ 1 \in DOMAIN q
  <2>1. /\ Tail(q) \in Seq(Writes) /\ Head(q) \in Writes /\ Head(q) = q[1] /\ 1 \in DOMAIN q
        /\ DOMAIN Tail(q) = 1..Len(q) - 1
        /\ \A i \in 1..Len(q) - 1 : Tail(q)[i] = q[i + 1] /\ i + 1 \in DOMAIN q
    BY <1>0, <1>1, HeadTailProperties
  <2> QED BY <2>1 DEF BytesVouched
<1>2. ASSUME NEW r \in Seq(Writes), BytesVouched(r)
      PROVE  q \o r \in Seq(Writes) /\ BytesVouched(q \o r)
  <2>1. /\ q \o r \in Seq(Writes)
        /\ DOMAIN (q \o r) = 1..Len(q) + Len(r)
        /\ \A i \in 1..Len(q) + Len(r) :
             \/ i \in DOMAIN q /\ (q \o r)[i] = q[i]
             \/ i - Len(q) \in DOMAIN r /\ (q \o r)[i] = r[i - Len(q)]
    BY <1>0, ConcatProperties
  <2> QED BY <1>2, <2>1 DEF BytesVouched
<1> QED BY <1>1, <1>2

(* What a round hears is as well vouched for as the lines.                 *)
LEMMA HeardFine ==
  ASSUME TypeOK, Vouched, NEW n \in 0..Len(lines)
  PROVE  Fine(ses) /\ Fine(Heard(n)) /\ HeardSo(n, Heard(n)) /\ Heard(n).out = <<>>
<1>1. HeardSo(n, Heard(n))
  BY HeardFacts
<1>2. ses \in Sessions /\ SessionVouched(ses) /\ ses.out = <<>> /\ LinesVouched(lines)
  BY DEF TypeOK, Vouched
<1>3. \A i \in 1..n : i \in DOMAIN lines
  BY DEF TypeOK
<1> DEFINE h == Heard(n)
<1>4. h \in Sessions /\ SameControl(ses, h)
  BY <1>1 DEF HeardSo
<1>5. \/ h.wire \in {ses.wire, Other}
      \/ \E i \in 1..n : lines[i] \in Replies /\ h.wire = lines[i]
  BY <1>1 DEF HeardSo
<1> HIDE DEF h
<1>6. h.wire # None /\ FromGoogle(h.wire) => h.wire.nonce \in recorded
  <2>1. ~FromGoogle(Other)
    BY DEF FromGoogle, Other
  <2> QED BY <1>2, <1>3, <1>5, <2>1 DEF SessionVouched, LinesVouched
<1>7. SessionVouched(h)
  BY <1>2, <1>4, <1>6 DEF SessionVouched, SameControl
<1>8. BytesVouched(<<>>)
  BY DEF BytesVouched
<1> QED
  BY <1>1, <1>2, <1>4, <1>7, <1>8 DEF Fine, SameControl, h

LEMMA IdleFine == ASSUME ConstantsAssumption PROVE Fine(Idle) /\ Idle.out = <<>> /\ Idle.step = 0
<1>1. /\ 0 \in Steps /\ {} \in SUBSET Events /\ FALSE \in BOOLEAN /\ 0 \in 0..Packets
      /\ <<>> \in Seq(Commands \cup Payloads)
  BY DEF Steps, ConstantsAssumption
<1>2. Idle \in Sessions
  BY <1>1 DEF Idle, Sessions
<1>3. SessionVouched(Idle) /\ BytesVouched(Idle.out)
  BY DEF Idle, SessionVouched, BytesVouched
<1> QED BY <1>2, <1>3 DEF Fine, Idle

LEMMA TransmitFacts ==
  ASSUME TypeOK, Vouched, NEW s, Fine(s), Transmit(s)
  PROVE  /\ ses' \in Sessions /\ SessionVouched(ses') /\ ses'.out = <<>>
         /\ ses' = [s EXCEPT !.out = <<>>] /\ SameControl(s, [ses' EXCEPT !.out = s.out])
         /\ ses'.events = s.events
         /\ uart' \in Seq(Writes) /\ BytesVouched(uart') /\ uart' = uart \o s.out
<1> DEFINE empty == <<>>
           t == [s EXCEPT !.out = empty]
<1>1. s \in Sessions /\ ses' = t /\ uart' = uart \o s.out /\ empty \in Seq(Commands \cup Payloads)
  BY DEF Fine, Transmit
<1>2. t.out = <<>>
  BY <1>1 DEF Sessions
<1> HIDE DEF empty
<1>3. t \in Sessions
  BY <1>1 DEF Sessions
<1>4. /\ t.step = s.step /\ t.wire = s.wire /\ t.result = s.result /\ t.events = s.events
      /\ t.redirected = s.redirected /\ t.request = s.request /\ t.left = s.left
  BY <1>1 DEF Sessions
<1>5. SameControl(s, [t EXCEPT !.out = s.out])
  BY <1>1, <1>3, <1>4 DEF SameControl, Sessions
<1>6. uart \in Seq(Writes) /\ BytesVouched(uart) /\ s.out \in Seq(Writes) /\ BytesVouched(s.out)
  BY <1>1 DEF TypeOK, Vouched, Fine, Sessions, Writes
<1>7. uart \o s.out \in Seq(Writes) /\ BytesVouched(uart \o s.out)
  BY <1>6, WritesFacts
<1>8. SessionVouched(t)
  BY <1>4 DEF Fine, SessionVouched
<1>9. t = [s EXCEPT !.out = <<>>]
  BY DEF empty
<1> HIDE DEF t
<1> QED
  BY <1>1, <1>2, <1>3, <1>4, <1>5, <1>7, <1>8, <1>9

(* The parts of the next state suffice.                                    *)
LEMMA NextVouched ==
  ASSUME nonce' = nonce, recorded \subseteq recorded',
         SessionVouched(ses'), LinesVouched(lines'), BytesVouched(uart'),
         asked' # None /\ ~asked'.post => asked'.nonce \in recorded',
         ses'.out = <<>>, conn' # "cloud" => ses' = Idle
  PROVE  Vouched'
<1>1. SessionVouched(ses)'
  BY DEF SessionVouched
<1>2. LinesVouched(lines)'
  BY DEF LinesVouched
<1>3. BytesVouched(uart)'
  BY DEF BytesVouched
<1> QED BY <1>1, <1>2, <1>3 DEF Vouched

LEMMA InitVouched == ASSUME ConstantsAssumption, Init PROVE TypeOK /\ Vouched
<1>1. Fine(Idle) /\ Idle.out = <<>>
  BY IdleFine
<1>2. TypeOK
  BY <1>1 DEF Init, TypeOK, Fine, ConstantsAssumption
<1>3. LinesVouched(<<>>) /\ BytesVouched(<<>>)
  BY DEF LinesVouched, BytesVouched
<1> QED BY <1>1, <1>2, <1>3 DEF Init, Vouched, Fine

LEMMA StartVouched ==
  ASSUME ConstantsAssumption, TypeOK, Vouched, Start PROVE TypeOK' /\ Vouched'
<1> DEFINE s == Send(Idle, "stop")
<1>1. PICK n \in Nonces \ Around : nonce' = n /\ recorded' = recorded \ {n}
  BY DEF Start
<1>2. /\ Fine(s) /\ Wrote(Idle, s, [op |-> "stop"]) /\ Transmit(s)
  BY IdleFine, SendFacts DEF Ops, Start
<1>3. s.step = 0 /\ s.wire = None /\ s.redirected = FALSE
  BY <1>2 DEF Wrote, Idle
<1> HIDE DEF s
<1>4. /\ ses' \in Sessions /\ ses'.out = <<>> /\ ses' = [s EXCEPT !.out = <<>>]
      /\ uart' = uart \o s.out /\ uart' \in Seq(Writes)
  BY <1>2, TransmitFacts
<1>5. ses'.step = 0 /\ ses'.wire = None /\ ses'.redirected = FALSE
  BY <1>2, <1>3, <1>4 DEF Fine, Sessions
<1>6. faults' \in 0..MaxFaults
  BY DEF Start, TimeElapses, TypeOK, ConstantsAssumption
<1>7. TypeOK'
  BY <1>1, <1>4, <1>6 DEF TypeOK, Start, Writes
<1>8. SessionVouched(ses)'
  BY <1>5 DEF SessionVouched
<1>9. LinesVouched(lines)'
  BY <1>1 DEF LinesVouched, Vouched, Start, Around, FromGoogle
<1>10. asked' # None /\ ~asked'.post => asked'.nonce \in recorded'
  BY <1>1 DEF Vouched, Start, Around, TypeOK
<1>11. BytesVouched(uart)'
  <2>1. s.out = <<[op |-> "stop"]>>
    BY <1>2 DEF Wrote, Idle
  <2>2. uart \in Seq(Writes) /\ <<[op |-> "stop"]>> \in Seq(Writes)
    BY DEF TypeOK, Writes, Commands
  <2>3. ASSUME NEW i \in DOMAIN uart', uart'[i].op = "bytes", ~uart'[i].post
        PROVE  uart'[i].nonce \in recorded'
    <3>1. i \in DOMAIN uart /\ uart'[i] = uart[i]
      <4>1. uart' = uart \o <<[op |-> "stop"]>>
        BY <1>4, <2>1
      <4>2. i \in 1..Len(uart) + 1 /\ DOMAIN uart = 1..Len(uart) /\ Len(uart) \in Nat
        BY <2>2, <4>1
      <4>3. i = Len(uart) + 1 => uart'[i] = [op |-> "stop"]
        BY <2>2, <4>1
      <4>4. i # Len(uart) + 1
        BY <2>3, <4>3
      <4> QED BY <2>2, <4>1, <4>2, <4>4
    <3>2. uart[i].nonce \in recorded /\ uart[i].nonce # nonce'
      BY <1>1, <2>3, <3>1 DEF Vouched, BytesVouched, Around
    <3> QED BY <1>1, <3>1, <3>2
  <2> QED BY <2>3 DEF BytesVouched
<1> QED
  BY <1>4, <1>7, <1>8, <1>9, <1>10, <1>11 DEF Vouched, Start

LEMMA RoundVouched ==
  ASSUME ConstantsAssumption, TypeOK, Vouched, NEW n \in 1..Len(lines), Round(n)
  PROVE  TypeOK' /\ Vouched'
<1> DEFINE h == Heard(n)
<1>1. n \in 0..Len(lines) /\ nonce \in Nonces /\ lines \in Seq(Lines)
  BY DEF TypeOK, Lines
<1>2. Fine(h) /\ SameControl(ses, h)
  BY <1>1, HeardFine DEF HeardSo
<1>3. ~(h.step = 901 /\ Answered(h))
  BY <1>2 DEF Round, SameControl
<1>4. Transmit(Stepped(h))
  BY DEF Round, Stepped
<1> HIDE DEF h
<1>5. Fine(Stepped(h))
  BY <1>1, <1>2, <1>3, SteppedFacts
<1>6. /\ ses' \in Sessions /\ SessionVouched(ses') /\ ses'.out = <<>>
      /\ uart' \in Seq(Writes) /\ BytesVouched(uart')
  BY <1>4, <1>5, TransmitFacts
<1>7. lines' \in Seq(Lines) /\ LinesVouched(lines')
  BY <1>1, LineFacts, LinesVouchedFacts DEF Round, Vouched
<1>8. TypeOK'
  BY <1>6, <1>7 DEF TypeOK, Round, external, Lines, Writes
<1> QED
  BY <1>6, <1>7, <1>8, NextVouched DEF Round, external, Vouched

LEMMA RebootVouched ==
  ASSUME ConstantsAssumption, TypeOK, Vouched, Reboot, faults' \in 0..MaxFaults
  PROVE  TypeOK' /\ Vouched'
<1>1. Fine(Idle) /\ Idle.out = <<>>
  BY IdleFine
<1>2. LinesVouched(<<>>) /\ BytesVouched(<<>>)
  BY DEF LinesVouched, BytesVouched
<1>3. TypeOK'
  <2>1. esp' \in [server : BOOLEAN, link : BOOLEAN, raw : BOOLEAN] /\ ready' \in BOOLEAN
    BY DEF Reboot
  <2>2. <<>> \in Seq(Commands \cup Payloads) /\ <<>> \in Seq(Answers \cup Replies)
    OBVIOUS
  <2>3. Reboot /\ Idle \in Sessions /\ nonce \in Nonces /\ recorded \subseteq Nonces
    BY <1>1 DEF TypeOK, Fine
  <2> QED BY <2>1, <2>2, <2>3 DEF TypeOK, Reboot
<1> QED BY <1>1, <1>2, <1>3, NextVouched DEF Reboot, Fine

LEMMA FinishVouched ==
  ASSUME ConstantsAssumption, TypeOK, Vouched, NEW n \in 1..Len(lines), Finish(n)
  PROVE  TypeOK' /\ Vouched'
<1>1. faults' \in 0..MaxFaults
  BY DEF Finish, TypeOK
<1>2. CASE Reboot
  BY <1>1, <1>2, RebootVouched
<1>3. CASE /\ conn' = "http" /\ ses' = Idle
           /\ lines' = SubSeq(lines, n + 1, Len(lines))
           /\ UNCHANGED <<ready, nonce, uart, external>>
  <2>1. n \in 0..Len(lines) /\ lines \in Seq(Lines)
    BY DEF TypeOK, Lines
  <2>2. lines' \in Seq(Lines) /\ LinesVouched(lines')
    BY <1>3, <2>1, LineFacts, LinesVouchedFacts DEF Vouched
  <2>3. Fine(Idle) /\ Idle.out = <<>>
    BY IdleFine
  <2>4. TypeOK'
    BY <1>1, <1>3, <2>2, <2>3 DEF TypeOK, external, Lines, Fine
  <2> QED BY <1>3, <2>2, <2>3, <2>4, NextVouched DEF external, Vouched, Fine
<1> QED
  BY <1>2, <1>3 DEF Finish

LEMMA TimeUpVouched ==
  ASSUME ConstantsAssumption, TypeOK, Vouched, TimeUp PROVE TypeOK' /\ Vouched'
<1>1. faults' \in 0..MaxFaults
  BY DEF TimeUp, TimeElapses, TypeOK, ConstantsAssumption
<1>2. Fine(ses)
  <2>1. 0 \in 0..Len(lines)
    BY DEF TypeOK
  <2> QED BY <2>1, HeardFine
<1>3. ASSUME NEW s, Fine(s), Transmit(s),
             UNCHANGED <<conn, ready, lines, nonce, external>>
      PROVE  TypeOK' /\ Vouched'
  <2>1. /\ ses' \in Sessions /\ SessionVouched(ses') /\ ses'.out = <<>>
        /\ uart' \in Seq(Writes) /\ BytesVouched(uart')
    BY <1>3, TransmitFacts
  <2>2. conn = "cloud" /\ LinesVouched(lines')
    BY <1>3 DEF TimeUp, Vouched
  <2>3. TypeOK'
    BY <1>1, <1>3, <2>1 DEF TypeOK, external, Writes
  <2> QED BY <1>3, <2>1, <2>2, <2>3, NextVouched DEF external, Vouched
<1>4. CASE ses.step < 900 /\ Transmit(Close(ses, "failed"))
           /\ UNCHANGED <<conn, ready, lines, nonce, external>>
  <2>1. Fine(Close(ses, "failed"))
    BY <1>2, CloseFacts
  <2> QED BY <1>3, <1>4, <2>1
<1>5. CASE ses.step = 900 /\ Transmit(Restore(ses))
           /\ UNCHANGED <<conn, ready, lines, nonce, external>>
  <2>1. Fine(Restore(ses))
    BY <1>2, <1>5, RestoreFacts
  <2> QED BY <1>3, <1>5, <2>1
<1>6. CASE Reboot
  BY <1>1, <1>6, RebootVouched
<1> QED
  BY <1>4, <1>5, <1>6 DEF TimeUp

LEMMA TaskVouched ==
  ASSUME ConstantsAssumption, TypeOK, Vouched,
         HttpReads \/ InitDone \/ LineLost \/ UNCHANGED vars
  PROVE  TypeOK' /\ Vouched'
<1>1. /\ lines \in Seq(Lines) /\ LinesVouched(lines)
      /\ lines # <<>> => Tail(lines) \in Seq(Lines) /\ LinesVouched(Tail(lines))
  BY LineFacts, LinesVouchedFacts DEF TypeOK, Vouched, Lines
<1>2. CASE HttpReads
  <2>1. lines' \in Seq(Lines) /\ LinesVouched(lines')
    BY <1>1, <1>2 DEF HttpReads
  <2>2. TypeOK'
    BY <1>2, <2>1 DEF TypeOK, HttpReads, external, Lines
  <2> QED BY <1>2, <2>1, <2>2, NextVouched DEF HttpReads, external, Vouched
<1>3. CASE InitDone
  <2>1. TypeOK'
    BY <1>3 DEF TypeOK, InitDone
  <2> QED BY <1>3, <2>1, NextVouched DEF InitDone, Vouched
<1>4. CASE LineLost
  <2> DEFINE junk == <<[kind |-> "junk"]>>
  <2>1. junk \in Seq(Lines) /\ LinesVouched(junk)
    BY DEF Lines, Answers, LinesVouched, FromGoogle
  <2> HIDE DEF junk
  <2>2. /\ junk \o Tail(lines) \in Seq(Lines) /\ LinesVouched(junk \o Tail(lines))
        /\ Tail(lines) \in Seq(Lines) /\ LinesVouched(Tail(lines))
    BY <1>1, <1>4, <2>1, LineFacts, LinesVouchedFacts DEF LineLost
  <2>3. lines' \in Seq(Lines) /\ LinesVouched(lines')
    BY <1>4, <2>2 DEF LineLost, junk
  <2>4. TypeOK'
    BY <1>4, <2>3 DEF TypeOK, LineLost, external, Lines, ConstantsAssumption
  <2> QED BY <1>4, <2>3, <2>4, NextVouched DEF LineLost, external, Vouched
<1>5. CASE UNCHANGED vars
  <2>1. TypeOK'
    BY <1>5 DEF TypeOK, vars
  <2> QED BY <1>5, <2>1, NextVouched DEF vars, Vouched
<1> QED
  BY <1>2, <1>3, <1>4, <1>5

LEMMA AnswerFacts ==
  /\ \A a \in Events : /\ <<[kind |-> a]>> \in Seq(Lines) /\ LinesVouched(<<[kind |-> a]>>)
                       /\ Len(<<[kind |-> a]>>) = 1 /\ <<[kind |-> a]>>[1] = [kind |-> a]
  /\ \A a, b \in Events :
       LET q == <<[kind |-> a], [kind |-> b]>>
       IN q \in Seq(Lines) /\ LinesVouched(q) /\ Len(q) = 2
          /\ q[1] = [kind |-> a] /\ q[2] = [kind |-> b]
<1>1. \A a \in Events : /\ [kind |-> a] \in Lines /\ ~FromGoogle([kind |-> a])
  BY DEF Lines, Answers, FromGoogle, Events
<1>2. ASSUME NEW a \in Events
      PROVE  /\ <<[kind |-> a]>> \in Seq(Lines) /\ LinesVouched(<<[kind |-> a]>>)
             /\ Len(<<[kind |-> a]>>) = 1 /\ <<[kind |-> a]>>[1] = [kind |-> a]
  BY <1>1 DEF LinesVouched
<1>3. ASSUME NEW a \in Events, NEW b \in Events
      PROVE  LET q == <<[kind |-> a], [kind |-> b]>>
             IN q \in Seq(Lines) /\ LinesVouched(q) /\ Len(q) = 2
                /\ q[1] = [kind |-> a] /\ q[2] = [kind |-> b]
  <2> DEFINE q == <<[kind |-> a], [kind |-> b]>>
  <2>1. q \in Seq(Lines) /\ Len(q) = 2 /\ q[1] = [kind |-> a] /\ q[2] = [kind |-> b]
    BY <1>1
  <2>2. DOMAIN q = {1, 2}
    OBVIOUS
  <2> HIDE DEF q
  <2>3. LinesVouched(q)
    BY <1>1, <2>1, <2>2 DEF LinesVouched
  <2> QED BY <2>1, <2>3 DEF q
<1> QED BY <1>2, <1>3

(* What the ESP32 may do with the command c it reads.                      *)
LEMMA EspCases ==
  ASSUME TypeOK, Vouched, EspReads
  PROVE  \E c \in Writes :
           /\ c = uart[1] /\ uart # <<>> /\ uart' = Tail(uart)
           /\ \/ /\ \E a \in {"SENT", "ERROR"} : lines' = lines \o <<[kind |-> a]>>
                 /\ esp.raw /\ c.op = "bytes" /\ esp' = [esp EXCEPT !.raw = FALSE]
                 /\ asked' \in {asked, [post |-> c.post, nonce |-> c.nonce]}
              \/ esp.raw /\ c.op # "bytes" /\ UNCHANGED <<esp, lines, asked>>
              \/ /\ ~esp.raw /\ (c.op # "close" \/ ~esp.link)
                 /\ lines' = lines \o <<[kind |-> "ERROR"]>> /\ UNCHANGED <<esp, asked>>
              \/ /\ ~esp.raw /\ c.op \in {"config", "stop", "serve", "connect"}
                 /\ lines' = lines \o <<[kind |-> "OK"]>> /\ UNCHANGED asked
                 /\ \E b \in BOOLEAN : /\ esp' \in {[esp EXCEPT !.server = b],
                                                   [esp EXCEPT !.link = TRUE]}
                                       /\ c.op = "serve" => esp' = [esp EXCEPT !.server = TRUE]
              \/ /\ ~esp.raw /\ c.op = "send" /\ esp' = [esp EXCEPT !.raw = TRUE]
                 /\ lines' = lines \o <<[kind |-> "OK"], [kind |-> "PROMPT"]>>
                 /\ UNCHANGED asked
              \/ /\ ~esp.raw /\ c.op = "close" /\ esp' = [esp EXCEPT !.link = FALSE]
                 /\ lines' = lines \o <<[kind |-> "CLOSED"], [kind |-> "OK"]>>
                 /\ asked' = None
<1> DEFINE c == Head(uart)
<1>1. uart \in Seq(Writes) /\ uart # <<>> /\ BytesVouched(uart)
  BY DEF EspReads, TypeOK, Vouched, Writes
<1>2. c \in Writes /\ c = uart[1] /\ uart' = Tail(uart)
  BY <1>1, WritesFacts DEF EspReads
<1> HIDE DEF c
<1>3. \/ esp.raw /\ c.op = "bytes"
      \/ esp.raw /\ c.op # "bytes"
      \/ ~esp.raw
  OBVIOUS
<1>4. CASE /\ esp.raw /\ c.op = "bytes"
           /\ esp' = [esp EXCEPT !.raw = FALSE]
           /\ IF esp.link
              THEN /\ Answer("SENT")
                   /\ asked' = IF c.last THEN [post |-> c.post, nonce |-> c.nonce]
                               ELSE asked
              ELSE Answer("ERROR") /\ UNCHANGED asked
  <2>1. asked' \in {asked, [post |-> c.post, nonce |-> c.nonce]}
    BY <1>4
  <2>2. \E a \in {"SENT", "ERROR"} : lines' = lines \o <<[kind |-> a]>>
    BY <1>4 DEF Answer, Say
  <2> QED BY <1>1, <1>2, <1>4, <2>1, <2>2
<1>5. CASE esp.raw /\ c.op # "bytes" /\ UNCHANGED <<esp, lines, asked>>
  BY <1>1, <1>2, <1>5
<1>6. CASE /\ ~esp.raw /\ (c.op # "close" \/ ~esp.link)
           /\ Answer("ERROR") /\ UNCHANGED <<esp, asked>>
  BY <1>1, <1>2, <1>6 DEF Answer, Say
<1>7. CASE /\ ~esp.raw /\ c.op \in {"config", "stop", "serve"} /\ Answer("OK")
           /\ esp' = [esp EXCEPT !.server = IF c.op = "config" THEN @ ELSE c.op = "serve"]
           /\ UNCHANGED asked
  <2> DEFINE b == IF c.op = "config" THEN esp.server ELSE c.op = "serve"
  <2>1. esp' = [esp EXCEPT !.server = b] /\ b \in BOOLEAN
    BY <1>7 DEF TypeOK
  <2>2. c.op = "serve" => esp' = [esp EXCEPT !.server = TRUE]
    BY <1>7
  <2> HIDE DEF b
  <2> QED BY <1>1, <1>2, <1>7, <2>1, <2>2 DEF Answer, Say
<1>8. CASE /\ ~esp.raw /\ c.op = "connect" /\ ~esp.link /\ Answer("OK")
           /\ esp' = [esp EXCEPT !.link = TRUE] /\ UNCHANGED asked
  <2>1. c.op # "serve"
    BY <1>8
  <2> QED BY <1>1, <1>2, <1>8, <2>1 DEF Answer, Say
<1>9. CASE /\ ~esp.raw /\ c.op = "send" /\ esp.link
           /\ Say(<<[kind |-> "OK"], [kind |-> "PROMPT"]>>)
           /\ esp' = [esp EXCEPT !.raw = TRUE] /\ UNCHANGED asked
  BY <1>1, <1>2, <1>9 DEF Say
<1>10. CASE /\ ~esp.raw /\ c.op = "close" /\ esp.link
            /\ Say(<<[kind |-> "CLOSED"], [kind |-> "OK"]>>)
            /\ esp' = [esp EXCEPT !.link = FALSE] /\ asked' = None
  BY <1>1, <1>2, <1>10 DEF Say
<1> QED
  BY <1>4, <1>5, <1>6, <1>7, <1>8, <1>9, <1>10 DEF EspReads, c

(* A payload is passed on to Google as it was written.                     *)
LEMMA EspVouched ==
  ASSUME ConstantsAssumption, TypeOK, Vouched, EspReads PROVE TypeOK' /\ Vouched'
<1>1. PICK c \in Writes :
        /\ c = uart[1] /\ uart # <<>> /\ uart' = Tail(uart)
        /\ \/ /\ \E a \in {"SENT", "ERROR"} : lines' = lines \o <<[kind |-> a]>>
              /\ esp.raw /\ c.op = "bytes" /\ esp' = [esp EXCEPT !.raw = FALSE]
              /\ asked' \in {asked, [post |-> c.post, nonce |-> c.nonce]}
           \/ esp.raw /\ c.op # "bytes" /\ UNCHANGED <<esp, lines, asked>>
           \/ /\ ~esp.raw /\ (c.op # "close" \/ ~esp.link)
              /\ lines' = lines \o <<[kind |-> "ERROR"]>> /\ UNCHANGED <<esp, asked>>
           \/ /\ ~esp.raw /\ c.op \in {"config", "stop", "serve", "connect"}
              /\ lines' = lines \o <<[kind |-> "OK"]>> /\ UNCHANGED asked
              /\ \E b \in BOOLEAN : /\ esp' \in {[esp EXCEPT !.server = b],
                                                [esp EXCEPT !.link = TRUE]}
                                    /\ c.op = "serve" => esp' = [esp EXCEPT !.server = TRUE]
           \/ /\ ~esp.raw /\ c.op = "send" /\ esp' = [esp EXCEPT !.raw = TRUE]
              /\ lines' = lines \o <<[kind |-> "OK"], [kind |-> "PROMPT"]>>
              /\ UNCHANGED asked
           \/ /\ ~esp.raw /\ c.op = "close" /\ esp' = [esp EXCEPT !.link = FALSE]
              /\ lines' = lines \o <<[kind |-> "CLOSED"], [kind |-> "OK"]>>
              /\ asked' = None
  BY EspCases
<1>2. /\ uart \in Seq(Writes) /\ BytesVouched(uart) /\ 1 \in DOMAIN uart
      /\ uart' \in Seq(Writes) /\ BytesVouched(uart')
  <2>1. uart \in Seq(Writes) /\ BytesVouched(uart)
    BY DEF TypeOK, Vouched, Writes
  <2> QED BY <1>1, <2>1, WritesFacts
<1>3. lines' \in Seq(Lines) /\ LinesVouched(lines')
  <2>1. lines \in Seq(Lines) /\ LinesVouched(lines)
    BY DEF TypeOK, Vouched, Lines
  <2>2. \A q \in Seq(Lines) : LinesVouched(q) => /\ lines \o q \in Seq(Lines)
                                                 /\ LinesVouched(lines \o q)
    BY <2>1, LineFacts, LinesVouchedFacts
  <2>3. \A a \in Events : LET q == <<[kind |-> a]>> IN q \in Seq(Lines) /\ LinesVouched(q)
    BY AnswerFacts
  <2>4. \A a, b \in Events : LET q == <<[kind |-> a], [kind |-> b]>>
                             IN q \in Seq(Lines) /\ LinesVouched(q)
    BY AnswerFacts
  <2>5. {"SENT", "ERROR", "OK", "PROMPT", "CLOSED"} \subseteq Events
    BY DEF Events
  <2>6. \/ lines' = lines
        \/ \E a \in Events : lines' = lines \o <<[kind |-> a]>>
        \/ \E a, b \in Events : lines' = lines \o <<[kind |-> a], [kind |-> b]>>
    BY <1>1, <2>5
  <2>7. ASSUME NEW a \in Events, lines' = lines \o <<[kind |-> a]>>
        PROVE  lines' \in Seq(Lines) /\ LinesVouched(lines')
    BY <2>2, <2>3, <2>7
  <2>8. ASSUME NEW a \in Events, NEW b \in Events,
               lines' = lines \o <<[kind |-> a], [kind |-> b]>>
        PROVE  lines' \in Seq(Lines) /\ LinesVouched(lines')
    BY <2>2, <2>4, <2>8
  <2> QED BY <2>1, <2>6, <2>7, <2>8
<1>4. /\ asked' \in [post : BOOLEAN, nonce : Nonces] \cup {None}
      /\ asked' # None /\ ~asked'.post => asked'.nonce \in recorded
  <2>1. /\ asked \in [post : BOOLEAN, nonce : Nonces] \cup {None}
        /\ asked # None /\ ~asked.post => asked.nonce \in recorded
    BY DEF TypeOK, Vouched
  <2>2. c.op = "bytes" => /\ [post |-> c.post, nonce |-> c.nonce]
                               \in [post : BOOLEAN, nonce : Nonces]
                          /\ ~c.post => c.nonce \in recorded
    <3>1. c.op = "bytes" => c \in Payloads
      BY DEF Writes, Commands
    <3>2. c.op = "bytes" /\ ~c.post => c.nonce \in recorded
      BY <1>1, <1>2 DEF BytesVouched
    <3> QED BY <3>1, <3>2 DEF Payloads
  <2>3. \/ asked' \in {asked, None}
        \/ c.op = "bytes" /\ asked' = [post |-> c.post, nonce |-> c.nonce]
    BY <1>1
  <2> QED BY <2>1, <2>2, <2>3
<1>5. esp' \in [server : BOOLEAN, link : BOOLEAN, raw : BOOLEAN]
  <2>1. esp \in [server : BOOLEAN, link : BOOLEAN, raw : BOOLEAN]
    BY DEF TypeOK
  <2>2. \A b \in BOOLEAN : /\ [esp EXCEPT !.server = b] \in [server : BOOLEAN, link : BOOLEAN, raw : BOOLEAN]
                           /\ [esp EXCEPT !.link = b] \in [server : BOOLEAN, link : BOOLEAN, raw : BOOLEAN]
                           /\ [esp EXCEPT !.raw = b] \in [server : BOOLEAN, link : BOOLEAN, raw : BOOLEAN]
    BY <2>1
  <2>3. \E b \in BOOLEAN : \/ esp' = esp
                           \/ esp' = [esp EXCEPT !.server = b]
                           \/ esp' = [esp EXCEPT !.link = b]
                           \/ esp' = [esp EXCEPT !.raw = b]
    BY <1>1
  <2> QED BY <2>1, <2>2, <2>3
<1>6. UNCHANGED <<conn, ready, ses, nonce, faults, recorded>>
  BY DEF EspReads, TaskOnly
<1>7. TypeOK'
  BY <1>2, <1>3, <1>4, <1>5, <1>6 DEF TypeOK, Lines, Writes
<1> QED
  BY <1>2, <1>3, <1>4, <1>6, <1>7, NextVouched DEF Vouched

(* Google records before it answers, and answers with what it was asked.   *)
LEMMA GoogleVouched ==
  ASSUME ConstantsAssumption, TypeOK, Vouched, Google PROVE TypeOK' /\ Vouched'
<1>1. /\ asked \in [post : BOOLEAN, nonce : Nonces] /\ asked' = None
      /\ asked # None /\ ~asked.post => asked.nonce \in recorded
      /\ UNCHANGED <<conn, ready, ses, nonce, faults, uart, esp>>
  BY DEF Google, TypeOK, Vouched, TaskOnly
<1>2. PICK l \in Replies :
        /\ lines' = lines \o <<l>> /\ (FromGoogle(l) => l.nonce \in recorded')
        /\ recorded \subseteq recorded' /\ recorded' \subseteq Nonces
  <2>1. CASE Say(<<Other>>) /\ UNCHANGED recorded
    <3>1. Other \in Replies /\ ~FromGoogle(Other)
      BY DEF Other, Replies, FromGoogle
    <3> QED BY <2>1, <3>1 DEF Say, TypeOK
  <2>2. ASSUME NEW p \in 1..Packets, NEW k \in {"redirect", "reply"},
               Say(<<[kind |-> k, nonce |-> asked.nonce, packets |-> p]>>),
               recorded' = IF asked.post THEN recorded \cup {asked.nonce} ELSE recorded
        PROVE  \E l \in Replies :
                 /\ lines' = lines \o <<l>> /\ (FromGoogle(l) => l.nonce \in recorded')
                 /\ recorded \subseteq recorded' /\ recorded' \subseteq Nonces
    <3> DEFINE l == [kind |-> k, nonce |-> asked.nonce, packets |-> p]
    <3>1. l \in Replies /\ l.nonce = asked.nonce
      BY <1>1 DEF Replies
    <3>2. asked.nonce \in recorded' /\ recorded \subseteq recorded' /\ recorded' \subseteq Nonces
      BY <1>1, <2>2 DEF Google, TypeOK
    <3>3. lines' = lines \o <<l>>
      BY <2>2 DEF Say
    <3> HIDE DEF l
    <3> QED BY <3>1, <3>2, <3>3
  <2> QED BY <2>1, <2>2 DEF Google
<1>3. lines' \in Seq(Lines) /\ LinesVouched(lines)'
  <2>1. lines \in Seq(Lines) /\ <<l>> \in Seq(Lines) /\ Len(<<l>>) = 1 /\ <<l>>[1] = l
    BY DEF TypeOK, Lines
  <2>2. /\ lines' \in Seq(Lines) /\ DOMAIN lines' = 1..Len(lines) + 1
        /\ \A i \in 1..Len(lines) + 1 :
             \/ i \in DOMAIN lines /\ lines'[i] = lines[i]
             \/ lines'[i] = l
    BY <1>2, <2>1, LineFacts
  <2>3. \A i \in DOMAIN lines : FromGoogle(lines[i]) => lines[i].nonce \in recorded'
    BY <1>2 DEF Vouched, LinesVouched
  <2> QED BY <1>2, <2>2, <2>3 DEF LinesVouched
<1>4. TypeOK'
  BY <1>1, <1>2, <1>3 DEF TypeOK, Lines
<1>5. SessionVouched(ses)'
  BY <1>1, <1>2 DEF SessionVouched, Vouched
<1>6. BytesVouched(uart)'
  BY <1>1, <1>2 DEF BytesVouched, Vouched
<1> QED
  BY <1>1, <1>3, <1>4, <1>5, <1>6 DEF Vouched

LEMMA RemoteVouched ==
  ASSUME ConstantsAssumption, TypeOK, Vouched, RemoteCloses PROVE TypeOK' /\ Vouched'
<1>1. lines' \in Seq(Lines) /\ LinesVouched(lines')
  <2>1. /\ <<[kind |-> "CLOSED"]>> \in Seq(Lines) /\ LinesVouched(<<[kind |-> "CLOSED"]>>)
        /\ lines \in Seq(Lines) /\ LinesVouched(lines)
    BY AnswerFacts DEF Events, TypeOK, Vouched, Lines
  <2> QED BY <2>1, LineFacts, LinesVouchedFacts DEF RemoteCloses, Answer, Say
<1>2. esp' \in [server : BOOLEAN, link : BOOLEAN, raw : BOOLEAN]
  BY DEF RemoteCloses, TypeOK
<1>3. TypeOK'
  BY <1>1, <1>2 DEF TypeOK, RemoteCloses, TaskOnly, Lines
<1> QED
  BY <1>1, <1>3, NextVouched DEF RemoteCloses, TaskOnly, Vouched

LEMMA AlwaysVouched == ASSUME ConstantsAssumption PROVE Spec => [](TypeOK /\ Vouched)
<1>1. Init => TypeOK /\ Vouched
  BY InitVouched
<1>2. TypeOK /\ Vouched /\ [Next]_vars => TypeOK' /\ Vouched'
  BY StartVouched, RoundVouched, FinishVouched, TimeUpVouched, TaskVouched,
     EspVouched, GoogleVouched, RemoteVouched DEF Next, Hears
<1> QED
  BY <1>1, <1>2, PTL DEF Spec

(* Every variable keeps its type: no packet is counted below zero, a GET   *)
(* always has the redirect it was built from, and the steps that count two *)
(* answers at once lead nowhere else.                                      *)
THEOREM TypeCorrect == Spec => []TypeOK
  BY AlwaysVouched, ConstantsAssumption, PTL

-----------------------------------------------------------------------------
(* The dialogue while nothing is late or lost.                             *)

LEMMA StepFacts ==
  ASSUME ConstantsAssumption, NEW k \in Asking
  PROVE  /\ Wanted(k) \in Finals \ {"ERROR"} /\ Wanted(k) # None
         /\ Wanted(k) = "PROMPT" <=> k = 4
         /\ CommandOf(k) = "bytes" <=> k = 5
         /\ CommandOf(k) = "bytes" => Wanted(k) = "SENT"
         /\ CommandOf(k) \in {"config", "stop", "serve", "connect", "close"} => Wanted(k) = "OK"
         /\ CommandOf(k) = "send" <=> k = 4
         /\ CommandOf(k) = "serve" <=> k = 901
<1>1. Wanted(k) \in Finals \ {"ERROR"}
  BY DEF Wanted, Asking, Finals
<1>2. Finals \subseteq Events
  BY DEF Finals, Events
<1>3. Wanted(k) # None
  BY <1>1, <1>2 DEF ConstantsAssumption
<1>4. /\ Wanted(k) = "PROMPT" <=> k = 4
      /\ CommandOf(k) = "bytes" <=> k = 5
      /\ CommandOf(k) = "bytes" => Wanted(k) = "SENT"
  BY DEF Wanted, Asking, CommandOf
<1>5. CommandOf(k) \in {"config", "stop", "serve", "connect", "close"} => Wanted(k) = "OK"
  BY DEF Wanted, Asking, CommandOf
<1>6. /\ CommandOf(k) = "send" <=> k = 4
      /\ CommandOf(k) = "serve" <=> k = 901
  BY DEF Asking, CommandOf
<1> QED BY <1>1, <1>3, <1>4, <1>5, <1>6

LEMMA QuietFacts ==
  ASSUME NEW q \in Seq(Lines)
  PROVE  /\ q # <<>> /\ Quiet(q) => Quiet(Tail(q))
         /\ q # <<>> /\ NoJunk(q) => NoJunk(Tail(q))
         /\ \A n \in 0..Len(q) : /\ Quiet(q) => Quiet(SubSeq(q, n + 1, Len(q)))
                                 /\ NoJunk(q) => NoJunk(SubSeq(q, n + 1, Len(q)))
         /\ NoJunk(<<>>) /\ Quiet(<<>>)
<1>1. q # <<>> /\ Quiet(q) => Quiet(Tail(q))
  BY LineFacts DEF Quiet
<1>2. q # <<>> /\ NoJunk(q) => NoJunk(Tail(q))
  BY LineFacts DEF NoJunk
<1>3. ASSUME NEW n \in 0..Len(q)
      PROVE  /\ Quiet(q) => Quiet(SubSeq(q, n + 1, Len(q)))
             /\ NoJunk(q) => NoJunk(SubSeq(q, n + 1, Len(q)))
  BY LineFacts DEF Quiet, NoJunk
<1>4. NoJunk(<<>>) /\ Quiet(<<>>)
  BY DEF NoJunk, Quiet
<1> QED BY <1>1, <1>2, <1>3, <1>4

(* What has been heard when none of the lines is damaged.                  *)
LEMMA HeardFinals ==
  ASSUME TypeOK, Vouched, NEW n \in 0..Len(lines), NoJunk(lines)
  PROVE  /\ \A e : e \in Heard(n).events <=>
                     \/ e \in ses.events
                     \/ \E i \in 1..n : lines[i].kind \in Events /\ e = lines[i].kind
         /\ Heard(n).step = ses.step
         /\ \A i \in 1..n : i \in DOMAIN lines
<1>1. \A i \in 1..n : i \in DOMAIN lines
  BY DEF TypeOK
<1>2. HeardSo(n, Heard(n))
  BY HeardFacts
<1>3. Heard(n).step = ses.step
  BY <1>2 DEF HeardSo, SameControl
<1>4. ASSUME NEW e
      PROVE  e \in Heard(n).events <=>
               \/ e \in ses.events
               \/ \E i \in 1..n : lines[i].kind \in Events /\ e = lines[i].kind
  <2>1. e \in Heard(n).events <=>
          \/ e \in ses.events
          \/ \E i \in 1..n : \/ lines[i].kind \in Events /\ e = lines[i].kind
                             \/ lines[i].kind = "junk" /\ e = "ERROR"
    BY <1>2 DEF HeardSo
  <2>2. \A i \in 1..n : lines[i].kind # "junk"
    BY <1>1 DEF NoJunk
  <2> QED BY <2>1, <2>2
<1> QED BY <1>1, <1>3, <1>4

(* What a step leaves behind for the ESP32.                                *)
LEMMA SentFacts ==
  ASSUME TypeOK, Vouched, NEW s, Fine(s), Transmit(s)
  PROVE  /\ ses'.step = s.step /\ ses'.events = s.events
         /\ s.out = <<>> => uart' = uart
         /\ uart = <<>> => uart' = s.out
<1>1. /\ SameControl(s, [ses' EXCEPT !.out = s.out]) /\ ses' \in Sessions
      /\ ses'.events = s.events /\ uart' = uart \o s.out
  BY TransmitFacts
<1>2. ses'.step = s.step
  BY <1>1 DEF SameControl, Sessions
<1>3. uart \in Seq(Writes) /\ s.out \in Seq(Writes)
  BY DEF TypeOK, Fine, Sessions, Writes
<1>4. uart \o <<>> = uart /\ <<>> \o s.out = s.out
  BY <1>3
<1> QED BY <1>1, <1>2, <1>4

(* The task has taken a step: it asks, or waits for Google.                *)
LEMMA StepDialogue ==
  ASSUME TypeOK, Vouched, NEW s, Fine(s), s.out = <<>>, Transmit(Stepped(s)), uart = <<>>,
         Fine(Stepped(s)), UNCHANGED esp, conn' = "cloud", Quiet(lines'), NoJunk(lines'),
         Asks(Stepped(s)) \/ (Stepped(s).step = 6 /\ Stepped(s).out = <<>>),
         Stepped(s).step = 5 <=> esp.raw
  PROVE  Dialogue'
<1> DEFINE t == Stepped(s)
<1>1. ses'.step = t.step /\ ses'.events = t.events /\ uart' = t.out
  BY SentFacts
<1> HIDE DEF t
<1>2. CASE Asks(t)
  <2>1. Pending(ses, uart)'
    BY <1>1, <1>2 DEF Pending, Asks, t, Quiet
  <2> QED BY <2>1 DEF Dialogue, NoJunk
<1>3. CASE t.step = 6 /\ t.out = <<>>
  <2>1. Silent' /\ ses'.step = 6
    BY <1>1, <1>3 DEF Silent, t, Quiet
  <2> QED BY <2>1 DEF Dialogue, NoJunk
<1> QED BY <1>2, <1>3 DEF t

LEMMA RoundDialogue ==
  ASSUME ConstantsAssumption, TypeOK, Vouched, Dialogue, faults = 0,
         NEW n \in 1..Len(lines), Round(n)
  PROVE  Dialogue'
<1> DEFINE h == Heard(n)
<1>1. n \in 0..Len(lines) /\ nonce \in Nonces /\ lines \in Seq(Lines) /\ NoJunk(lines)
  BY DEF TypeOK, Lines, Dialogue
<1>2. Fine(h) /\ h.out = <<>> /\ h.step = ses.step
  BY <1>1, HeardFine, HeardFinals
<1>3. /\ \A e : e \in h.events <=>
                  \/ e \in ses.events
                  \/ \E i \in 1..n : lines[i].kind \in Events /\ e = lines[i].kind
      /\ \A i \in 1..n : i \in DOMAIN lines
  BY <1>1, HeardFinals
<1>4. /\ Transmit(Stepped(h)) /\ UNCHANGED <<conn, esp, faults>> /\ conn = "cloud"
      /\ lines' = SubSeq(lines, n + 1, Len(lines))
  BY DEF Round, Stepped, external
<1>5. ~(h.step = 901 /\ Answered(h))
  BY <1>2 DEF Round
<1> HIDE DEF h
<1>6. /\ Fine(Stepped(h))
      /\ ~Answered(h) /\ h.step # 6 => Stepped(h) = h
      /\ ~(Answered(h) /\ Both(h)) /\ (Answered(h) \/ h.step = 6) =>
           /\ Asks(Stepped(h)) \/ (Stepped(h).step = 6 /\ Stepped(h).out = <<>>)
           /\ Stepped(h).step = 5 <=> h.step = 4 /\ Passed(h)
  BY <1>1, <1>2, <1>5, SteppedFacts
<1>7. /\ NoJunk(lines') /\ (Quiet(lines) => Quiet(lines'))
      /\ DOMAIN lines' = 1..Len(lines) - n /\ Len(lines) \in Nat
      /\ \A i \in 1..Len(lines) - n : lines'[i] = lines[i + n] /\ i + n \in DOMAIN lines
      /\ DOMAIN lines = 1..Len(lines)
  BY <1>1, <1>4, QuietFacts, LineFacts
<1>8. Finals \subseteq Events
  BY DEF Finals, Events
<1>9. CASE ses.step = 6 /\ Silent
  <2>1. ~Answered(h)
    BY <1>2, <1>9, WantedFacts DEF Answered
  <2>2. Stepped(h).step = 5 <=> esp.raw
    BY <1>2, <1>6, <1>9, <2>1 DEF Silent, TypeOK
  <2> QED BY <1>2, <1>4, <1>6, <1>7, <1>9, <2>1, <2>2, StepDialogue DEF Silent
<1>10. CASE Pending(ses, uart)
  <2>1. h.events \cap Finals = {}
    BY <1>3, <1>10 DEF Pending, Quiet
  <2>2. ~Answered(h) /\ h.step # 6
    BY <1>2, <1>10, <2>1, StepFacts DEF Answered, Passed, Pending, Finals, Asking
  <2>3. Stepped(h) = h
    BY <1>6, <2>2
  <2>4. ses'.step = ses.step /\ ses'.events = h.events /\ uart' = uart
    BY <1>2, <1>4, <2>3, SentFacts
  <2>5. Pending(ses, uart)'
    BY <1>4, <1>7, <1>10, <2>1, <2>4 DEF Pending, Quiet
  <2> QED BY <1>4, <1>7, <2>5 DEF Dialogue, NoJunk
<1>11. CASE Replied
  <2>1. PICK i \in DOMAIN lines : AnswerAt(i)
    BY <1>11 DEF Replied
  <2>2. /\ ses.step \in Asking /\ uart = <<>>
        /\ \A e \in ses.events \cap Finals : ses.step = 4 /\ e = "OK"
    BY <1>11 DEF Replied
  <2>3. /\ Wanted(ses.step) \in Finals \ {"ERROR"} /\ Wanted(ses.step) # None
        /\ Wanted(ses.step) = "PROMPT" <=> ses.step = 4
    BY <2>2, StepFacts
  <2>4. /\ lines[i].kind \in {Wanted(ses.step), "ERROR"} /\ lines[i].kind \in Finals
        /\ \A j \in DOMAIN lines : lines[j].kind \in Finals /\ j # i =>
                                     j < i /\ ses.step = 4 /\ lines[j].kind = "OK"
        /\ esp.raw <=> lines[i].kind = "PROMPT"
    BY <2>1, <2>3 DEF AnswerAt, Finals
  <2>5. \A e \in h.events \cap Finals : (ses.step = 4 /\ e = "OK") \/ (e = lines[i].kind /\ i <= n)
    BY <1>3, <2>2, <2>4
  <2>6. CASE n < i
    <3>1. \A e \in h.events \cap Finals : ses.step = 4 /\ e = "OK"
      BY <1>7, <2>1, <2>5, <2>6
    <3>2. ~Answered(h) /\ h.step # 6
      BY <1>2, <2>2, <2>3, <3>1 DEF Answered, Passed, Finals, Asking
    <3>3. Stepped(h) = h
      BY <1>6, <3>2
    <3>4. ses'.step = ses.step /\ ses'.events = h.events /\ uart' = uart
      BY <1>2, <1>4, <3>3, SentFacts
    <3> DEFINE k == i - n
    <3>5. k \in DOMAIN lines' /\ lines'[k] = lines[i]
      BY <1>7, <2>1, <2>6
    <3>6. AnswerAt(k)'
      <4>1. ASSUME NEW j \in DOMAIN lines', lines'[j].kind \in Finals, j # k
            PROVE  j < k /\ ses.step = 4 /\ lines'[j].kind = "OK"
        <5>1. j + n \in DOMAIN lines /\ lines'[j] = lines[j + n] /\ j + n # i
          BY <1>7, <4>1
        <5>2. j + n < i /\ ses.step = 4 /\ lines[j + n].kind = "OK"
          BY <2>4, <4>1, <5>1
        <5> QED BY <1>7, <2>1, <5>1, <5>2
      <4>2. ses.step = 901 /\ lines[i].kind = "OK" => esp.server
        BY <2>1 DEF AnswerAt
      <4> HIDE DEF k
      <4>3. /\ lines'[k].kind \in {Wanted(ses'.step), "ERROR"}
            /\ \A j \in DOMAIN lines' :
                 lines'[j].kind \in Finals /\ j # k => j < k /\ ses'.step = 4 /\ lines'[j].kind = "OK"
        BY <2>4, <3>4, <3>5, <4>1
      <4>4. /\ esp'.raw <=> lines'[k].kind = "PROMPT"
            /\ ses'.step = 901 /\ lines'[k].kind = "OK" => esp'.server
        BY <1>4, <2>4, <3>4, <3>5, <4>2
      <4> QED BY <4>3, <4>4 DEF AnswerAt
    <3> HIDE DEF k
    <3>7. Replied'
      BY <2>2, <3>1, <3>4, <3>5, <3>6 DEF Replied
    <3> QED BY <1>4, <1>7, <3>7 DEF Dialogue, NoJunk
  <2>7. CASE i <= n
    <3>1. lines[i].kind \in h.events
      BY <1>3, <1>7, <1>8, <2>1, <2>4, <2>7
    <3>2. Answered(h)
      BY <1>2, <2>3, <2>4, <3>1 DEF Answered, Passed
    <3>3. Passed(h) <=> lines[i].kind = Wanted(ses.step)
      <4>1. CASE Passed(h) /\ lines[i].kind # Wanted(ses.step)
        BY <1>2, <2>3, <2>5, <4>1 DEF Passed
      <4> QED BY <1>2, <3>1, <4>1 DEF Passed
    <3>4. ~Both(h)
      <4>1. ASSUME Both(h) PROVE FALSE
        <5>1. Wanted(ses.step) \in h.events /\ "ERROR" \in h.events
          BY <1>2, <4>1 DEF Both, Passed
        <5>2. lines[i].kind = "ERROR"
          BY <2>5, <5>1 DEF Finals
        <5> QED BY <2>3, <3>3, <4>1, <5>2 DEF Both
      <4> QED BY <4>1
    <3>5. Quiet(lines')
      <4>1. ASSUME NEW j \in DOMAIN lines', lines'[j].kind \in Finals PROVE FALSE
        <5>1. j + n \in DOMAIN lines /\ lines'[j] = lines[j + n] /\ j + n # i /\ ~(j + n < i)
          BY <1>7, <2>1, <2>7
        <5> QED BY <2>4, <4>1, <5>1
      <4> QED BY <4>1 DEF Quiet
    <3>6. esp.raw <=> ses.step = 4 /\ Passed(h)
      BY <2>3, <2>4, <3>3
    <3>7. Stepped(h).step = 5 <=> esp.raw
      BY <1>2, <1>6, <3>2, <3>4, <3>6
    <3> QED BY <1>2, <1>4, <1>6, <1>7, <2>2, <3>2, <3>4, <3>5, <3>7, StepDialogue
  <2> QED BY <1>1, <1>7, <2>1, <2>6, <2>7
<1> QED
  BY <1>4, <1>9, <1>10, <1>11 DEF Dialogue

(* The restart of the server is answered: its OK is the one to that        *)
(* command, so the server is on.                                           *)
LEMMA FinishDialogue ==
  ASSUME ConstantsAssumption, TypeOK, Vouched, Dialogue, faults = 0,
         NEW n \in 1..Len(lines), Finish(n)
  PROVE  Dialogue' /\ (conn' = "http" => esp.server)
<1>1. n \in 0..Len(lines) /\ lines \in Seq(Lines) /\ NoJunk(lines)
  BY DEF TypeOK, Lines, Dialogue
<1>2. CASE Reboot
  <2>1. Silent' /\ NoJunk(lines')
    BY <1>2 DEF Reboot, Silent, NoJunk, Quiet
  <2> QED BY <1>2, <2>1 DEF Dialogue, Reboot, NoJunk
<1>3. CASE /\ Passed(Heard(n)) /\ conn' = "http" /\ ses' = Idle
           /\ lines' = SubSeq(lines, n + 1, Len(lines))
           /\ UNCHANGED <<ready, nonce, uart, external>>
  <2> DEFINE h == Heard(n)
  <2>1. /\ \A e : e \in h.events <=>
                    \/ e \in ses.events
                    \/ \E i \in 1..n : lines[i].kind \in Events /\ e = lines[i].kind
        /\ \A i \in 1..n : i \in DOMAIN lines
        /\ h.step = 901 /\ ses.step = 901
    BY <1>1, HeardFinals DEF Finish
  <2>2. "OK" \in h.events
    BY <1>3, <2>1, WantedFacts DEF Passed
  <2> HIDE DEF h
  <2>3. Replied
    <3>1. CASE Pending(ses, uart)
      BY <2>1, <2>2, <3>1 DEF Pending, Quiet, Finals
    <3> QED BY <2>1, <3>1 DEF Dialogue, Finish
  <2>4. PICK i \in DOMAIN lines : AnswerAt(i)
    BY <2>3 DEF Replied
  <2>5. \A j \in DOMAIN lines : lines[j].kind \in Finals => j = i
    BY <2>1, <2>4 DEF AnswerAt
  <2>6. i \in 1..n /\ lines[i].kind = "OK"
    <3>1. "OK" \notin ses.events
      BY <2>1, <2>3 DEF Replied, Finals
    <3>2. PICK j \in 1..n : lines[j].kind = "OK"
      BY <2>1, <2>2, <3>1
    <3> QED BY <2>1, <2>5, <3>2 DEF Finals
  <2>7. esp.server /\ ~esp.raw
    BY <2>1, <2>4, <2>6 DEF AnswerAt
  <2>8. /\ DOMAIN lines' = 1..Len(lines) - n /\ Len(lines) \in Nat
        /\ \A j \in 1..Len(lines) - n : lines'[j] = lines[j + n] /\ j + n \in DOMAIN lines
        /\ NoJunk(lines')
    BY <1>1, <1>3, LineFacts, QuietFacts
  <2>9. Quiet(lines')
    <3>1. ASSUME NEW j \in DOMAIN lines', lines'[j].kind \in Finals PROVE FALSE
      <4>1. j + n \in DOMAIN lines /\ lines'[j] = lines[j + n] /\ j + n # i
        BY <2>6, <2>8
      <4> QED BY <2>5, <3>1, <4>1
    <3> QED BY <3>1 DEF Quiet
  <2>10. Silent'
    BY <1>3, <2>3, <2>7, <2>9 DEF Silent, Replied, external, Quiet
  <2> QED BY <1>3, <2>7, <2>8, <2>10 DEF Dialogue, NoJunk
<1> QED
  BY <1>2, <1>3 DEF Finish, Reboot

LEMMA StartDialogue ==
  ASSUME ConstantsAssumption, TypeOK, Vouched, Dialogue, faults' = 0, Start
  PROVE  Dialogue'
<1> DEFINE s == Send(Idle, "stop")
<1>1. faults = 0 /\ uart = <<>> /\ lines' = lines /\ conn' = "cloud" /\ esp' = esp
  BY DEF Start, TimeElapses, TypeOK
<1>2. Silent /\ NoJunk(lines)
  BY <1>1 DEF Dialogue, Start
<1>3. /\ Fine(s) /\ Wrote(Idle, s, [op |-> "stop"]) /\ Transmit(s)
  BY IdleFine, SendFacts DEF Ops, Start
<1>4. s.step = 0 /\ s.events = {} /\ Len(s.out) = 1 /\ s.out[1].op = "stop"
  BY <1>3 DEF Wrote, Idle
<1> HIDE DEF s
<1>5. ses'.step = 0 /\ ses'.events = {} /\ uart' = s.out
  BY <1>1, <1>3, <1>4, SentFacts
<1>6. Pending(ses, uart)'
  BY <1>1, <1>2, <1>4, <1>5 DEF Pending, Silent, Asking, CommandOf, Quiet
<1> QED BY <1>1, <1>2, <1>6 DEF Dialogue, NoJunk

(* Without a fault a time limit can elapse only while Google is silent.    *)
LEMMA TimeUpDialogue ==
  ASSUME ConstantsAssumption, TypeOK, Vouched, Dialogue, faults' = 0, TimeUp
  PROVE  Dialogue'
<1>1. faults = 0 /\ uart = <<>> /\ lines = <<>> /\ conn = "cloud"
  BY DEF TimeUp, TimeElapses, TypeOK
<1>2. Silent /\ ses.step = 6
  BY <1>1 DEF Dialogue, Pending, Replied
<1>3. Fine(ses) /\ ses.out = <<>>
  <2>1. 0 \in 0..Len(lines)
    BY DEF TypeOK
  <2> QED BY <2>1, HeardFine DEF Vouched
<1> DEFINE s == Close(ses, "failed")
<1>4. Fine(s) /\ Asks(s) /\ s.step = 900
  BY <1>3, CloseFacts
<1>5. Transmit(s) /\ UNCHANGED <<conn, lines, esp>>
  BY <1>2 DEF TimeUp, external
<1> HIDE DEF s
<1>6. Fine(s) /\ Transmit(s)
  BY <1>4, <1>5
<1>7. ses'.step = 900 /\ ses'.events = s.events /\ uart' = s.out
  BY <1>1, <1>4, <1>6, SentFacts
<1>8. Pending(ses, uart)'
  BY <1>2, <1>4, <1>5, <1>7 DEF Pending, Asks, Silent, Quiet
<1> QED BY <1>1, <1>5, <1>8 DEF Dialogue, NoJunk

(* The lines of Google, and the end of the link, are no answers.           *)
LEMMA NewsDialogue ==
  ASSUME TypeOK, Dialogue, faults = 0, NEW l \in Lines,
         l.kind \notin Finals, l.kind # "junk", lines' = lines \o <<l>>,
         UNCHANGED <<conn, ses, uart>>, esp'.raw = esp.raw, esp'.server = esp.server
  PROVE  Dialogue'
<1>1. /\ DOMAIN lines' = 1..Len(lines) + 1 /\ Len(lines) \in Nat /\ DOMAIN lines = 1..Len(lines)
      /\ \A i \in 1..Len(lines) + 1 :
           \/ i \in DOMAIN lines /\ lines'[i] = lines[i]
           \/ lines'[i] = l
      /\ \A i \in DOMAIN lines : i \in DOMAIN lines' /\ lines'[i] = lines[i]
  BY DEF TypeOK, Lines
<1>2. NoJunk(lines) /\ NoJunk(lines') /\ (Quiet(lines) => Quiet(lines'))
  BY <1>1 DEF NoJunk, Quiet, Dialogue
<1>3. CASE Pending(ses, uart) /\ conn = "cloud"
  <2>1. Pending(ses, uart)'
    BY <1>2, <1>3 DEF Pending, Quiet
  <2> QED BY <1>2, <1>3, <2>1 DEF Dialogue, NoJunk
<1>4. CASE Replied /\ conn = "cloud"
  <2>1. PICK i \in DOMAIN lines : AnswerAt(i)
    BY <1>4 DEF Replied
  <2>2. i \in DOMAIN lines' /\ lines'[i] = lines[i]
    BY <1>1
  <2>3. \A j \in DOMAIN lines' :
          lines'[j].kind \in Finals /\ j # i => j < i /\ ses.step = 4 /\ lines'[j].kind = "OK"
    BY <1>1, <2>1 DEF AnswerAt
  <2>4. AnswerAt(i)'
    BY <2>1, <2>2, <2>3 DEF AnswerAt
  <2>5. Replied'
    BY <1>4, <2>2, <2>4 DEF Replied
  <2> QED BY <1>2, <1>4, <2>5 DEF Dialogue, NoJunk
<1>5. CASE (conn = "cloud" => ses.step = 6) /\ Silent
  <2>1. Silent'
    BY <1>2, <1>5 DEF Silent, Quiet
  <2> QED BY <1>2, <1>5, <2>1 DEF Dialogue, NoJunk
<1> QED
  BY <1>3, <1>4, <1>5 DEF Dialogue

(* The ESP32 answers the command that is pending, and nothing else.        *)
LEMMA EspDialogue ==
  ASSUME ConstantsAssumption, TypeOK, Vouched, Dialogue, faults = 0, EspReads
  PROVE  Dialogue'
<1>1. PICK c \in Writes :
        /\ c = uart[1] /\ uart # <<>> /\ uart' = Tail(uart)
        /\ \/ /\ \E a \in {"SENT", "ERROR"} : lines' = lines \o <<[kind |-> a]>>
              /\ esp.raw /\ c.op = "bytes" /\ esp' = [esp EXCEPT !.raw = FALSE]
              /\ asked' \in {asked, [post |-> c.post, nonce |-> c.nonce]}
           \/ esp.raw /\ c.op # "bytes" /\ UNCHANGED <<esp, lines, asked>>
           \/ /\ ~esp.raw /\ (c.op # "close" \/ ~esp.link)
              /\ lines' = lines \o <<[kind |-> "ERROR"]>> /\ UNCHANGED <<esp, asked>>
           \/ /\ ~esp.raw /\ c.op \in {"config", "stop", "serve", "connect"}
              /\ lines' = lines \o <<[kind |-> "OK"]>> /\ UNCHANGED asked
              /\ \E b \in BOOLEAN : /\ esp' \in {[esp EXCEPT !.server = b],
                                                [esp EXCEPT !.link = TRUE]}
                                    /\ c.op = "serve" => esp' = [esp EXCEPT !.server = TRUE]
           \/ /\ ~esp.raw /\ c.op = "send" /\ esp' = [esp EXCEPT !.raw = TRUE]
              /\ lines' = lines \o <<[kind |-> "OK"], [kind |-> "PROMPT"]>>
              /\ UNCHANGED asked
           \/ /\ ~esp.raw /\ c.op = "close" /\ esp' = [esp EXCEPT !.link = FALSE]
              /\ lines' = lines \o <<[kind |-> "CLOSED"], [kind |-> "OK"]>>
              /\ asked' = None
  BY EspCases
<1>2. conn = "cloud" /\ Pending(ses, uart) /\ NoJunk(lines)
  BY <1>1 DEF Dialogue, Replied, Silent
<1>3. /\ uart' = <<>> /\ UNCHANGED <<conn, ses, faults>>
      /\ ses.step \in Asking /\ c.op = CommandOf(ses.step)
      /\ ses.events \cap Finals = {} /\ (esp.raw <=> ses.step = 5)
  BY <1>1, <1>2 DEF Pending, EspReads, TaskOnly, TypeOK
<1>4. /\ Wanted(ses.step) = "PROMPT" <=> ses.step = 4
      /\ c.op = "bytes" <=> ses.step = 5
      /\ c.op = "bytes" => Wanted(ses.step) = "SENT"
      /\ c.op \in {"config", "stop", "serve", "connect", "close"} => Wanted(ses.step) = "OK"
      /\ c.op = "send" <=> ses.step = 4
      /\ c.op = "serve" <=> ses.step = 901
  BY <1>3, StepFacts
<1>5. lines \in Seq(Lines) /\ \A i \in DOMAIN lines : lines[i].kind \notin Finals \cup {"junk"}
  BY <1>2 DEF TypeOK, Lines, Pending, Quiet, NoJunk
<1>6. esp \in [server : BOOLEAN, link : BOOLEAN, raw : BOOLEAN]
  BY DEF TypeOK
<1>0. PICK L \in Nat : L = Len(lines)
  BY DEF TypeOK
<1>7. ASSUME NEW a \in {Wanted(ses.step), "ERROR"}, a \in {"OK", "SENT", "ERROR"},
             lines' = lines \o <<[kind |-> a]>>,
             ~esp'.raw, ses.step = 901 /\ a = "OK" => esp'.server
      PROVE  Dialogue'
  <2>1. a \in Events /\ a # "junk" /\ a # "PROMPT"
    BY <1>7 DEF Events
  <2>2. /\ L + 1 \in DOMAIN lines' /\ lines'[L + 1] = [kind |-> a]
        /\ \A j \in DOMAIN lines' : j # L + 1 => j \in DOMAIN lines /\ lines'[j] = lines[j]
    <3>1. <<[kind |-> a]>> \in Seq(Lines)
      BY <2>1, AnswerFacts
    <3> QED BY <1>0, <1>5, <1>7, <3>1
  <2>3. AnswerAt(L + 1)'
    <3>1. lines'[L + 1].kind = a
      BY <2>2
    <3>2. \A j \in DOMAIN lines' : j # L + 1 => lines'[j].kind \notin Finals
      BY <1>5, <2>2
    <3> QED BY <1>3, <1>7, <2>1, <3>1, <3>2 DEF AnswerAt
  <2>4. NoJunk(lines')
    BY <1>5, <2>1, <2>2 DEF NoJunk
  <2>5. Replied'
    BY <1>3, <2>2, <2>3 DEF Replied
  <2> QED BY <1>2, <1>3, <2>4, <2>5 DEF Dialogue, NoJunk
<1>8. ASSUME NEW a \in {"OK", "CLOSED"}, NEW b \in {"OK", "PROMPT"}, b = Wanted(ses.step),
             a = "OK" => ses.step = 4, esp'.raw <=> (b = "PROMPT"), ses.step # 901,
             lines' = lines \o <<[kind |-> a], [kind |-> b]>>
      PROVE  Dialogue'
  <2>1. a \in Events /\ b \in Events /\ a # "junk" /\ b # "junk"
    BY DEF Events
  <2>2. /\ L + 2 \in DOMAIN lines' /\ lines'[L + 2] = [kind |-> b] /\ lines'[L + 1] = [kind |-> a]
        /\ \A j \in DOMAIN lines' : \/ j \in {L + 1, L + 2}
                                    \/ j \in DOMAIN lines /\ lines'[j] = lines[j]
        /\ L + 1 < L + 2
    <3>1. <<[kind |-> a], [kind |-> b]>> \in Seq(Lines)
      BY <2>1, AnswerFacts
    <3> QED BY <1>0, <1>5, <1>8, <3>1
  <2>3. AnswerAt(L + 2)'
    <3>1. lines'[L + 2].kind = b /\ lines'[L + 1].kind = a
      BY <2>2
    <3>2. ASSUME NEW j \in DOMAIN lines', lines'[j].kind \in Finals, j # L + 2
          PROVE  j < L + 2 /\ ses'.step = 4 /\ lines'[j].kind = "OK"
      <4>1. j = L + 1
        BY <1>5, <2>2, <3>2
      <4> QED BY <1>3, <1>8, <2>2, <3>1, <3>2, <4>1 DEF Finals
    <3>3. /\ lines'[L + 2].kind \in {Wanted(ses'.step), "ERROR"} /\ ses'.step # 901
          /\ esp'.raw <=> lines'[L + 2].kind = "PROMPT"
      <4>1. ses' = ses
        BY <1>3
      <4>2. b = Wanted(ses.step) /\ ses.step # 901
        BY <1>8
      <4>3. esp'.raw <=> b = "PROMPT"
        BY <1>8
      <4> QED BY <3>1, <4>1, <4>2, <4>3
    <3> QED BY <3>2, <3>3 DEF AnswerAt
  <2>4. NoJunk(lines')
    BY <1>5, <2>1, <2>2 DEF NoJunk
  <2>5. Replied'
    BY <1>3, <2>2, <2>3 DEF Replied
  <2> QED BY <1>2, <1>3, <2>4, <2>5 DEF Dialogue, NoJunk
<1>9. CASE /\ \E a \in {"SENT", "ERROR"} : lines' = lines \o <<[kind |-> a]>>
           /\ esp.raw /\ c.op = "bytes" /\ esp' = [esp EXCEPT !.raw = FALSE]
  <2>1. PICK a \in {"SENT", "ERROR"} : lines' = lines \o <<[kind |-> a]>>
    BY <1>9
  <2>2. a \in {Wanted(ses.step), "ERROR"} /\ ~esp'.raw /\ a # "OK"
    BY <1>4, <1>6, <1>9
  <2> QED BY <1>7, <2>1, <2>2
<1>10. CASE esp.raw /\ c.op # "bytes"
  BY <1>3, <1>4, <1>10
<1>11. CASE ~esp.raw /\ lines' = lines \o <<[kind |-> "ERROR"]>> /\ UNCHANGED esp
  BY <1>7, <1>11
<1>12. CASE /\ ~esp.raw /\ c.op \in {"config", "stop", "serve", "connect"}
            /\ lines' = lines \o <<[kind |-> "OK"]>>
            /\ \E b \in BOOLEAN : /\ esp' \in {[esp EXCEPT !.server = b],
                                              [esp EXCEPT !.link = TRUE]}
                                  /\ c.op = "serve" => esp' = [esp EXCEPT !.server = TRUE]
  <2>1. "OK" = Wanted(ses.step)
    BY <1>4, <1>12
  <2>2. ~esp'.raw
    BY <1>6, <1>12
  <2>3. ses.step = 901 => esp'.server
    BY <1>4, <1>6, <1>12
  <2> QED BY <1>7, <1>12, <2>1, <2>2, <2>3
<1>13. CASE /\ ~esp.raw /\ c.op = "send" /\ esp' = [esp EXCEPT !.raw = TRUE]
            /\ lines' = lines \o <<[kind |-> "OK"], [kind |-> "PROMPT"]>>
  <2>1. ses.step = 4 /\ Wanted(ses.step) = "PROMPT" /\ esp'.raw
    BY <1>4, <1>6, <1>13
  <2> QED BY <1>8, <1>13, <2>1
<1>14. CASE /\ ~esp.raw /\ c.op = "close" /\ esp' = [esp EXCEPT !.link = FALSE]
            /\ lines' = lines \o <<[kind |-> "CLOSED"], [kind |-> "OK"]>>
  <2>1. Wanted(ses.step) = "OK" /\ ~esp'.raw /\ ses.step # 901
    BY <1>4, <1>6, <1>14
  <2> QED BY <1>8, <1>14, <2>1
<1> QED
  BY <1>1, <1>9, <1>10, <1>11, <1>12, <1>13, <1>14

(* Everything else leaves the dialogue alone, or is a fault.               *)
LEMMA OtherDialogue ==
  ASSUME ConstantsAssumption, TypeOK, Vouched, Dialogue, faults' = 0,
         HttpReads \/ InitDone \/ Google \/ RemoteCloses \/ LineLost \/ UNCHANGED vars
  PROVE  Dialogue'
<1>1. CASE HttpReads
  <2>1. faults = 0 /\ Silent /\ lines # <<>> /\ lines' = Tail(lines) /\ lines \in Seq(Lines)
    BY <1>1 DEF HttpReads, Dialogue, TypeOK, Lines
  <2>2. NoJunk(lines') /\ Quiet(lines')
    BY <2>1, QuietFacts DEF Dialogue, Silent
  <2>3. Silent'
    BY <1>1, <2>1, <2>2 DEF Silent, HttpReads, external, Quiet
  <2> QED BY <1>1, <2>2, <2>3 DEF Dialogue, HttpReads, NoJunk
<1>2. CASE InitDone
  <2>1. faults = 0 /\ Silent /\ UNCHANGED <<uart, lines>> /\ conn' = "http" /\ esp'.raw = esp.raw
    BY <1>2 DEF InitDone, Dialogue, TypeOK
  <2>2. Silent'
    BY <2>1 DEF Silent, Quiet
  <2> QED BY <2>1, <2>2 DEF Dialogue, NoJunk
<1>3. CASE Google
  <2>1. faults = 0 /\ UNCHANGED <<conn, ses, uart, esp>>
    BY <1>3 DEF Google, TaskOnly
  <2>2. \A l \in Replies : l \in Lines /\ l.kind \notin Finals /\ l.kind # "junk"
    BY DEF Replies, Lines, Finals, Other
  <2>3. \E l \in Replies : lines' = lines \o <<l>>
    <3>1. CASE Say(<<Other>>)
      BY <3>1 DEF Say, Replies
    <3>2. ASSUME NEW p \in 1..Packets, NEW k \in {"redirect", "reply"},
                 Say(<<[kind |-> k, nonce |-> asked.nonce, packets |-> p]>>)
          PROVE  \E l \in Replies : lines' = lines \o <<l>>
      <4>1. [kind |-> k, nonce |-> asked.nonce, packets |-> p] \in Replies
        BY <1>3 DEF Replies, TypeOK, Google
      <4> QED BY <3>2, <4>1 DEF Say
    <3> QED BY <1>3, <3>1, <3>2 DEF Google
  <2> QED BY <2>1, <2>2, <2>3, NewsDialogue
<1>4. CASE RemoteCloses
  <2>1. /\ faults = 0 /\ UNCHANGED <<conn, ses, uart>>
        /\ esp'.raw = esp.raw /\ esp'.server = esp.server
        /\ lines' = lines \o <<[kind |-> "CLOSED"]>>
    BY <1>4 DEF RemoteCloses, TaskOnly, TypeOK, Answer, Say
  <2>2. [kind |-> "CLOSED"] \in Lines /\ "CLOSED" \notin Finals
    BY DEF Lines, Answers, Events, Finals
  <2> QED BY <2>1, <2>2, NewsDialogue
<1>5. CASE LineLost
  BY <1>5 DEF LineLost, TypeOK
<1>6. CASE UNCHANGED vars
  BY <1>6 DEF vars, Dialogue, NoJunk, Pending, Replied, AnswerAt, Silent, Quiet
<1> QED
  BY <1>1, <1>2, <1>3, <1>4, <1>5, <1>6

Inv == TypeOK /\ Vouched /\ Dialogue

LEMMA InvStep == ASSUME ConstantsAssumption, Inv, [Next]_vars PROVE Inv'
<1>1. TypeOK' /\ Vouched'
  BY StartVouched, RoundVouched, FinishVouched, TimeUpVouched, TaskVouched,
     EspVouched, GoogleVouched, RemoteVouched DEF Next, Hears, Inv
<1>2. ASSUME faults' = 0 PROVE Dialogue'
  <2>1. ASSUME Hears \/ EspReads PROVE faults = 0
    <3>1. CASE Hears
      BY <1>2, <3>1 DEF Hears, Round, Finish
    <3>2. CASE EspReads
      BY <1>2, <3>2 DEF EspReads, TaskOnly
    <3> QED BY <2>1, <3>1, <3>2
  <2>2. CASE Hears
    BY <2>1, <2>2, RoundDialogue, FinishDialogue DEF Hears, Inv
  <2>3. CASE EspReads
    BY <2>1, <2>3, EspDialogue DEF Inv
  <2> QED BY <1>2, <2>2, <2>3, StartDialogue, TimeUpDialogue, OtherDialogue DEF Next, Inv
<1>3. faults' # 0 => Dialogue'
  BY DEF Dialogue
<1> QED
  BY <1>1, <1>2, <1>3 DEF Inv

(* A session that ends as a success was answered for its own measurement,  *)
(* which is in the sheet, whatever is late or lost; and as long as nothing *)
(* is, the HTTP service resumes only with the server of the ESP32 on.      *)
THEOREM AlwaysEndsHonestly == Spec => EndsHonestly
<1>1. Init => Inv
  <2>1. Init => Dialogue
    BY DEF Init, Dialogue, NoJunk, Silent, Quiet
  <2> QED BY <2>1, InitVouched, ConstantsAssumption DEF Inv
<1>2. Inv /\ [Next]_vars => Inv'
  BY InvStep, ConstantsAssumption
<1>3. Inv /\ [Next]_vars =>
        [conn = "cloud" /\ conn' = "http" =>
           /\ ses.result = "ok" => nonce \in recorded
           /\ faults = 0 => esp.server]_vars
  <2> SUFFICES ASSUME Inv, Next, conn = "cloud", conn' = "http"
               PROVE  /\ ses.result = "ok" => nonce \in recorded
                      /\ faults = 0 => esp.server
    OBVIOUS
  <2>1. PICK n \in 1..Len(lines) : Finish(n)
    <3>1. ~(HttpReads \/ InitDone \/ Start \/ TimeUp)
      BY DEF HttpReads, InitDone, Start, TimeUp, Reboot
    <3>2. ~(EspReads \/ Google \/ RemoteCloses \/ LineLost)
      BY DEF EspReads, Google, RemoteCloses, LineLost, TaskOnly
    <3>3. \A n \in 1..Len(lines) : ~Round(n)
      BY DEF Round
    <3> QED BY <3>1, <3>2, <3>3 DEF Next, Hears
  <2>2. ses.result = "ok" => nonce \in recorded
    BY <2>1 DEF Finish, Inv, Vouched, SessionVouched
  <2>3. faults = 0 => esp.server
    BY <2>1, FinishDialogue, ConstantsAssumption DEF Inv
  <2> QED BY <2>2, <2>3
<1> QED
  BY <1>1, <1>2, <1>3, PTL DEF Spec, EndsHonestly
=============================================================================
