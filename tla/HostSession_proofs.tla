------------------------- MODULE HostSession_proofs -------------------------
(***************************************************************************)
(* What TLAPS proves of the streaming client, whatever the sizes, the      *)
(* frames, polls and faults: which replies can be under way at which of    *)
(* its steps, so that it takes each for what it answers; and which         *)
(* commands, so that the device streams while it streams and has stopped   *)
(* when it has ended.                                                      *)
(***************************************************************************)
EXTENDS HostSession, SequenceTheorems, FiniteSetTheorems, TLAPS

-----------------------------------------------------------------------------
(* The device and the packets. *)

Packets == [type : CommandTypes \cup {"FEATURE"}, fn : Nat, id : {0, 1}]
Counters == [{"frames_rx", "dropped", "crc", "inferences", "keywords"} -> Nat]
ReplyTypes == {"ACK", "STATS", "VERSION"}
Replies == [type : ReplyTypes, cmd : CommandTypes, fn : Nat, id : {0, 1}, stats : Counters]
Events == [type : {"EVT"}, fn : Nat, window : Seq(Nat), nth : Nat]

Devices ==
  [stream : BOOLEAN, commits : Nat, window : Seq(Nat), job : Seq(Nat), decided : Nat,
   stats : Counters, rsp : Replies \cup {NoResponse}]

\* The device keeps its registers in range, and a window as long as a window.
DevOK(d) ==
  /\ d \in Devices
  /\ Len(d.window) = IF d.commits < WINDOW_LEN THEN d.commits ELSE WINDOW_LEN
  /\ d.job # <<>> => Len(d.job) = WINDOW_LEN

LEMMA PacketKinds ==
  /\ \A p \in Replies : p # NoResponse /\ p.type # "EVT" /\ "id" \in DOMAIN p
  /\ \A p \in Events : p.type = "EVT" /\ p.type \notin ReplyTypes /\ "id" \notin DOMAIN p
  /\ \A p \in Packets : "id" \in DOMAIN p /\ ResponseType(p.type) \in ReplyTypes
  /\ \A c \in CommandTypes : ResponseType(c) \in ReplyTypes /\ c # "FEATURE" /\ c # "GARBLED"
BY DEF Replies, Events, Packets, NoResponse, ReplyTypes, ResponseType, CommandTypes

LEMMA BumpKeeps ==
  ASSUME NEW d, DevOK(d), NEW c \in {"frames_rx", "dropped", "crc", "inferences", "keywords"}
  PROVE  DevOK(Bump(d, c)) /\ Bump(d, c) = [d EXCEPT !.stats = [d.stats EXCEPT ![c] = d.stats[c] + 1]]
<1>1. [d.stats EXCEPT ![c] = d.stats[c] + 1] \in Counters
  BY DEF DevOK, Devices, Counters
<1>2. Bump(d, c) = [d EXCEPT !.stats = [d.stats EXCEPT ![c] = d.stats[c] + 1]]
  BY DEF Bump
<1> QED
  BY <1>1, <1>2 DEF DevOK, Devices

LEMMA ShiftIs ==
  ASSUME NEW w \in Seq(Nat), Len(w) <= WINDOW_LEN, NEW fn \in Nat
  PROVE  /\ Shift(w, fn) \in Seq(Nat)
         /\ Len(Shift(w, fn)) = IF Len(w) < WINDOW_LEN THEN Len(w) + 1 ELSE WINDOW_LEN
<1> USE DeviceAssumption
<1> DEFINE longer == Append(w, fn)
<1>1. longer \in Seq(Nat) /\ Len(longer) = Len(w) + 1 /\ longer # <<>>
  BY AppendProperties
<1>2. Tail(longer) \in Seq(Nat) /\ Len(Tail(longer)) = Len(longer) - 1
  BY <1>1, HeadTailProperties
<1>3. Shift(w, fn) = IF Len(longer) > WINDOW_LEN THEN Tail(longer) ELSE longer
  BY DEF Shift
<1>4. Len(w) \in Nat
  BY LenProperties
<1> HIDE DEF longer
<1> QED
  BY <1>1, <1>2, <1>3, <1>4

LEMMA CommitKeeps ==
  ASSUME NEW d, DevOK(d), NEW fn \in Nat
  PROVE  DevOK(Commit(d, fn)) /\ Commit(d, fn).rsp = d.rsp /\ Commit(d, fn).stream = d.stream
<1> USE DeviceAssumption
<1>1. CASE ~d.stream
  <2>1. Commit(d, fn) = Bump(d, "dropped")
    BY <1>1 DEF Commit
  <2>2. DevOK(Bump(d, "dropped")) /\ Bump(d, "dropped") = [d EXCEPT !.stats = [d.stats EXCEPT !["dropped"] = d.stats["dropped"] + 1]]
    BY BumpKeeps
  <2> QED
    BY <2>1, <2>2 DEF DevOK, Devices
<1>2. CASE d.stream
  <2> DEFINE w == Shift(d.window, fn)
             b == Bump(d, "frames_rx")
             j == IF EndsWindow(d.commits + 1) THEN w ELSE d.job
  <2>1. /\ d.commits \in Nat /\ d.window \in Seq(Nat) /\ Len(d.window) <= WINDOW_LEN
        /\ Len(d.window) = IF d.commits < WINDOW_LEN THEN d.commits ELSE WINDOW_LEN
    BY DEF DevOK, Devices
  <2>2. w \in Seq(Nat) /\ Len(w) = IF Len(d.window) < WINDOW_LEN THEN Len(d.window) + 1 ELSE WINDOW_LEN
    BY <2>1, ShiftIs
  <2>3. DevOK(b) /\ b = [d EXCEPT !.stats = [d.stats EXCEPT !["frames_rx"] = d.stats["frames_rx"] + 1]]
    BY BumpKeeps
  <2>4. Commit(d, fn) = [b EXCEPT !.commits = b.commits + 1, !.window = w, !.job = IF EndsWindow(d.commits + 1) THEN w ELSE b.job]
    BY <1>2 DEF Commit
  <2>5. b \in Devices /\ b.commits = d.commits /\ b.job = d.job /\ b.rsp = d.rsp /\ b.stream = d.stream
    BY <2>3 DEF DevOK, Devices
  <2>6. j \in Seq(Nat) /\ (j # <<>> => Len(j) = WINDOW_LEN)
    <3>1. CASE EndsWindow(d.commits + 1)
      <4>1. d.commits + 1 >= WINDOW_LEN
        BY <3>1 DEF EndsWindow
      <4>2. Len(w) = WINDOW_LEN
        BY <2>1, <2>2, <4>1
      <4> QED
        BY <2>2, <3>1, <4>2
    <3>2. CASE ~EndsWindow(d.commits + 1)
      BY <3>2 DEF DevOK, Devices
    <3> QED
      BY <3>1, <3>2
  <2>7. Len(w) = IF d.commits + 1 < WINDOW_LEN THEN d.commits + 1 ELSE WINDOW_LEN
    BY <2>1, <2>2
  <2> HIDE DEF w, b, j
  <2>8. Commit(d, fn) = [b EXCEPT !.commits = d.commits + 1, !.window = w, !.job = j]
    BY <2>4, <2>5 DEF j
  <2>9. /\ Commit(d, fn) \in Devices
        /\ Commit(d, fn).commits = d.commits + 1 /\ Commit(d, fn).window = w /\ Commit(d, fn).job = j
        /\ Commit(d, fn).rsp = d.rsp /\ Commit(d, fn).stream = d.stream
    <3>1. d.commits + 1 \in Nat
      BY <2>1
    <3> HIDE DEF Counters, Replies, NoResponse
    <3> QED
      BY <2>2, <2>5, <2>6, <2>8, <3>1 DEF Devices
  <2> QED
    BY <2>6, <2>7, <2>9 DEF DevOK
<1> QED
  BY <1>1, <1>2

LEMMA DecideKeeps ==
  ASSUME NEW d, DevOK(d)
  PROVE  DevOK(Decide(d)) /\ Decide(d).rsp = d.rsp /\ Decide(d).stream = d.stream
<1> DEFINE b == Bump(d, "inferences")
           done == [b EXCEPT !.job = NoJob, !.decided = b.decided + 1]
<1>1. DevOK(b) /\ b.rsp = d.rsp /\ b.stream = d.stream
  <2>1. DevOK(b) /\ b = [d EXCEPT !.stats = [d.stats EXCEPT !["inferences"] = d.stats["inferences"] + 1]]
    BY BumpKeeps
  <2> QED
    BY <2>1 DEF DevOK, Devices
<1> HIDE DEF b
<1>2. DevOK(done) /\ done.rsp = d.rsp /\ done.stream = d.stream
  <2>1. NoJob \in Seq(Nat) /\ b.decided + 1 \in Nat
    BY <1>1 DEF DevOK, Devices, NoJob
  <2>2. done \in Devices /\ done.job = NoJob /\ done.commits = b.commits /\ done.window = b.window
    BY <1>1, <2>1 DEF DevOK, Devices
  <2>3. done.rsp = b.rsp /\ done.stream = b.stream
    BY <1>1 DEF DevOK, Devices
  <2> QED
    BY <1>1, <2>2, <2>3 DEF DevOK, NoJob
<1>3. Decide(d) = IF Fires(d) THEN Bump(done, "keywords") ELSE done
  BY DEF Decide, b
<1> HIDE DEF done
<1>4. DevOK(Bump(done, "keywords")) /\ Bump(done, "keywords") = [done EXCEPT !.stats = [done.stats EXCEPT !["keywords"] = done.stats["keywords"] + 1]]
  BY <1>2, BumpKeeps
<1> QED
  BY <1>2, <1>3, <1>4 DEF DevOK, Devices

LEMMA CommandKeeps ==
  ASSUME NEW d, DevOK(d), NEW p \in Packets, p.type \in CommandTypes
  PROVE  /\ DevOK(Receive(d, p)) /\ Receive(d, p).rsp = Response(d, p)
         /\ Response(d, p) \in Replies /\ Response(d, p).id = p.id
         /\ Response(d, p).cmd = p.type /\ Response(d, p).type = ResponseType(p.type)
         /\ Receive(d, p).stream = IF p.type = "START" THEN TRUE
                                   ELSE IF p.type \in {"RESET", "STOP"} THEN FALSE ELSE d.stream
<1> USE DeviceAssumption
<1>1. NoStats \in Counters
  BY DEF NoStats, Counters
<1>2. /\ Response(d, p) \in Replies /\ Response(d, p).id = p.id
      /\ Response(d, p).cmd = p.type /\ Response(d, p).type = ResponseType(p.type)
  BY <1>1, PacketKinds DEF Response, Replies, Packets, DevOK, Devices
<1> DEFINE r == Response(d, p)
           e == Effect(d, p.type)
<1>3. Receive(d, p) = [e EXCEPT !.rsp = r]
  BY DEF Receive, CommandTypes
<1>4. DevOK(FreshSession(d)) /\ FreshSession(d) = [d EXCEPT !.commits = 0, !.window = <<>>, !.job = NoJob, !.decided = 0]
  <2>1. FreshSession(d) = [d EXCEPT !.commits = 0, !.window = <<>>, !.job = NoJob, !.decided = 0]
    BY DEF FreshSession
  <2>2. <<>> \in Seq(Nat) /\ Len(<<>>) = 0 /\ NoJob = <<>>
    BY DEF NoJob
  <2>3. /\ FreshSession(d) \in Devices
        /\ FreshSession(d).commits = 0 /\ FreshSession(d).window = <<>> /\ FreshSession(d).job = <<>>
    <3>1. d \in Devices
      BY DEF DevOK
    <3> DEFINE e0 == <<>>
    <3>2. e0 \in Seq(Nat) /\ FreshSession(d) = [d EXCEPT !.commits = 0, !.window = e0, !.job = e0, !.decided = 0]
      BY <2>1, <2>2
    <3> DEFINE f == [d EXCEPT !.commits = 0, !.window = e0]
    <3>3. f = [d EXCEPT !.commits = 0, !.window = e0]
      OBVIOUS
    <3> HIDE DEF e0, f
    <3>4. f \in Devices /\ f.commits = 0 /\ f.window = e0
      BY <3>1, <3>2, <3>3 DEF Devices
    <3>5. FreshSession(d) = [f EXCEPT !.job = e0, !.decided = 0]
      BY <3>2, <3>3
    <3>6. /\ FreshSession(d) \in Devices /\ FreshSession(d).job = e0
          /\ FreshSession(d).commits = f.commits /\ FreshSession(d).window = f.window
      BY <3>2, <3>4, <3>5 DEF Devices
    <3> QED
      BY <3>4, <3>6 DEF e0
  <2> QED
    BY <2>1, <2>2, <2>3 DEF DevOK
<1>5. DevOK(e) /\ e.stream = IF p.type = "START" THEN TRUE
                             ELSE IF p.type \in {"RESET", "STOP"} THEN FALSE ELSE d.stream
  <2>1. CASE p.type = "RESET"
    <3>1. e = [FreshSession(d) EXCEPT !.stream = FALSE, !.stats = NoStats]
      BY <2>1 DEF Effect
    <3> QED
      BY <1>1, <1>4, <2>1, <3>1 DEF DevOK, Devices
  <2>2. CASE p.type = "START"
    <3>1. e = [FreshSession(d) EXCEPT !.stream = TRUE]
      BY <2>2 DEF Effect
    <3> QED
      BY <1>4, <2>2, <3>1 DEF DevOK, Devices
  <2>3. CASE p.type = "STOP"
    <3>1. e = [d EXCEPT !.stream = FALSE]
      BY <2>3 DEF Effect
    <3> QED
      BY <2>3, <3>1 DEF DevOK, Devices
  <2>4. CASE p.type \notin {"RESET", "START", "STOP"}
    BY <2>4 DEF Effect
  <2> QED
    BY <2>1, <2>2, <2>3, <2>4
<1> HIDE DEF e, r
<1>6. r \in Replies
  BY <1>2 DEF r
<1>7. DevOK([e EXCEPT !.rsp = r]) /\ [e EXCEPT !.rsp = r].rsp = r /\ [e EXCEPT !.rsp = r].stream = e.stream
  BY <1>5, <1>6 DEF DevOK, Devices
<1> QED
  BY <1>2, <1>3, <1>5, <1>7 DEF r

-----------------------------------------------------------------------------
(* Commands under way and the replies to them. *)

LinkTypes ==
  /\ down \in Seq(Packets) /\ up \in Seq(Replies \cup Events) /\ DevOK(dev)

IsCommand(p) == p.type \in CommandTypes
IsReply(p) == p.type # "EVT"

\* A reply of type t is to come or has come; k tells that of the newest command from others.
Asked(t, k) ==
  \E i \in 1 .. Len(down) : IsCommand(down[i]) /\ ResponseType(down[i].type) = t /\ down[i].id = k
Answering(t, k) == dev.rsp # NoResponse /\ dev.rsp.type = t /\ dev.rsp.id = k
Answered(t, k) == \E i \in 1 .. Len(up) : IsReply(up[i]) /\ up[i].type = t /\ up[i].id = k
Due(t, k) == Asked(t, k) \/ Answering(t, k) \/ Answered(t, k)

NoneAsked == \A i \in 1 .. Len(down) : ~IsCommand(down[i])

\* Nothing is under way behind the newest command or its reply.
NewestLast ==
  /\ \A i \in 1 .. Len(down) : IsCommand(down[i]) /\ down[i].id = 1 =>
       \A j \in 1 .. Len(down) : j > i => ~IsCommand(down[j])
  /\ dev.rsp # NoResponse /\ dev.rsp.id = 1 => NoneAsked
  /\ \A i \in 1 .. Len(up) : IsReply(up[i]) /\ up[i].id = 1 =>
       /\ \A j \in 1 .. Len(up) : j > i => ~IsReply(up[j])
       /\ dev.rsp = NoResponse /\ NoneAsked

\* The link is in order, and nothing came to be due.
LinkInv == LinkTypes /\ NewestLast
NothingNew == LinkInv' /\ \A t \in ReplyTypes, k \in {0, 1} : Due(t, k)' => Due(t, k)

\* s ends as r begins or begins as r ends: some of r in between.
Part(s, r) ==
  \E a \in 0 .. Len(r) :
    /\ Len(s) + a <= Len(r)
    /\ \A i \in 1 .. Len(s) : s[i] = r[a + i]

LEMMA PartOfDown ==
  ASSUME NEW r \in Seq(Packets), NEW n \in 0 .. Len(r)
  PROVE  /\ SubSeq(r, n + 1, Len(r)) \in Seq(Packets) /\ Part(SubSeq(r, n + 1, Len(r)), r)
         /\ SubSeq(r, 1, n) \in Seq(Packets) /\ Part(SubSeq(r, 1, n), r)
<1>1. Len(r) \in Nat /\ \A i \in 1 .. Len(r) : r[i] \in Packets
  BY LenProperties
<1>2. SubSeq(r, n + 1, Len(r)) \in Seq(Packets) /\ Part(SubSeq(r, n + 1, Len(r)), r)
  <2> DEFINE s == SubSeq(r, n + 1, Len(r))
  <2>1. /\ s \in Seq(Packets) /\ Len(s) = IF n + 1 <= Len(r) THEN Len(r) - (n + 1) + 1 ELSE 0
        /\ \A i \in 1 .. Len(r) - (n + 1) + 1 : s[i] = r[(n + 1) + i - 1]
    <3>1. \A i \in n + 1 .. Len(r) : r[i] \in Packets
      BY <1>1
    <3> QED
      BY <1>1, <3>1, SubSeqProperties
  <2> HIDE DEF s
  <2>2. Len(s) = Len(r) - n
    BY <1>1, <2>1
  <2>3. ASSUME NEW i \in 1 .. Len(s) PROVE s[i] = r[n + i]
    <3>1. i \in 1 .. Len(r) - (n + 1) + 1 /\ (n + 1) + i - 1 = n + i
      BY <1>1, <2>2
    <3> QED
      BY <2>1, <3>1
  <2>4. Part(s, r)
    <3>1. n \in 0 .. Len(r) /\ Len(s) + n <= Len(r)
      BY <1>1, <2>2
    <3> QED
      BY <2>3, <3>1 DEF Part
  <2> QED
    BY <2>1, <2>4 DEF s
<1>3. SubSeq(r, 1, n) \in Seq(Packets) /\ Part(SubSeq(r, 1, n), r)
  <2> DEFINE s == SubSeq(r, 1, n)
  <2>1. /\ s \in Seq(Packets) /\ Len(s) = IF 1 <= n THEN n - 1 + 1 ELSE 0
        /\ \A i \in 1 .. n - 1 + 1 : s[i] = r[1 + i - 1]
    <3>1. \A i \in 1 .. n : r[i] \in Packets
      BY <1>1
    <3> QED
      BY <1>1, <3>1, SubSeqProperties
  <2> HIDE DEF s
  <2>2. Len(s) = n
    BY <1>1, <2>1
  <2>3. ASSUME NEW i \in 1 .. Len(s) PROVE s[i] = r[0 + i]
    <3>1. i \in 1 .. n - 1 + 1 /\ 1 + i - 1 = 0 + i
      BY <1>1, <2>2
    <3> QED
      BY <2>1, <3>1
  <2>4. Part(s, r)
    <3>1. 0 \in 0 .. Len(r) /\ Len(s) + 0 <= Len(r)
      BY <1>1, <2>2
    <3> QED
      BY <2>3, <3>1 DEF Part
  <2> QED
    BY <2>1, <2>4 DEF s
<1> QED
  BY <1>2, <1>3

LEMMA PartOfUp ==
  ASSUME NEW r \in Seq(Replies \cup Events), NEW n \in 0 .. Len(r)
  PROVE  /\ SubSeq(r, n + 1, Len(r)) \in Seq(Replies \cup Events) /\ Part(SubSeq(r, n + 1, Len(r)), r)
<1>1. Len(r) \in Nat /\ \A i \in 1 .. Len(r) : r[i] \in (Replies \cup Events)
  BY LenProperties
<1>2. SubSeq(r, n + 1, Len(r)) \in Seq(Replies \cup Events) /\ Part(SubSeq(r, n + 1, Len(r)), r)
  <2> DEFINE s == SubSeq(r, n + 1, Len(r))
  <2>1. /\ s \in Seq(Replies \cup Events) /\ Len(s) = IF n + 1 <= Len(r) THEN Len(r) - (n + 1) + 1 ELSE 0
        /\ \A i \in 1 .. Len(r) - (n + 1) + 1 : s[i] = r[(n + 1) + i - 1]
    <3>1. \A i \in n + 1 .. Len(r) : r[i] \in (Replies \cup Events)
      BY <1>1
    <3> QED
      BY <1>1, <3>1, SubSeqProperties
  <2> HIDE DEF s
  <2>2. Len(s) = Len(r) - n
    BY <1>1, <2>1
  <2>3. ASSUME NEW i \in 1 .. Len(s) PROVE s[i] = r[n + i]
    <3>1. i \in 1 .. Len(r) - (n + 1) + 1 /\ (n + 1) + i - 1 = n + i
      BY <1>1, <2>2
    <3> QED
      BY <2>1, <3>1
  <2>4. Part(s, r)
    <3>1. n \in 0 .. Len(r) /\ Len(s) + n <= Len(r)
      BY <1>1, <2>2
    <3> QED
      BY <2>3, <3>1 DEF Part
  <2> QED
    BY <2>1, <2>4 DEF s
<1> QED
  BY <1>2

LEMMA NoNewsInParts ==
  ASSUME LinkInv, down' \in Seq(Packets), Part(down', down),
         up' \in Seq(Replies \cup Events), Part(up', up),
         DevOK(dev'), dev'.rsp = dev.rsp \/ dev'.rsp = NoResponse
  PROVE  NothingNew
<1>1. PICK a \in 0 .. Len(down) : Len(down') + a <= Len(down) /\ \A i \in 1 .. Len(down') : down'[i] = down[a + i]
  BY DEF Part
<1>2. PICK b \in 0 .. Len(up) : Len(up') + b <= Len(up) /\ \A i \in 1 .. Len(up') : up'[i] = up[b + i]
  BY DEF Part
<1>3. Len(down) \in Nat /\ Len(down') \in Nat /\ Len(up) \in Nat /\ Len(up') \in Nat
  BY LenProperties DEF LinkInv, LinkTypes
<1>4. /\ \A i \in 1 .. Len(down') : a + i \in 1 .. Len(down)
      /\ \A i \in 1 .. Len(up') : b + i \in 1 .. Len(up)
      /\ \A i, j \in 1 .. Len(down') : j > i => a + j > a + i
      /\ \A i, j \in 1 .. Len(up') : j > i => b + j > b + i
  BY <1>1, <1>2, <1>3
<1> DEFINE D == 1 .. Len(down)
           D2 == 1 .. Len(down')
           U == 1 .. Len(up)
           U2 == 1 .. Len(up')
<1>5. NoneAsked => NoneAsked'
  BY <1>1, <1>4 DEF NoneAsked, IsCommand
<1>6. NewestLast'
  <2>1. ASSUME NEW i \in D2, IsCommand(down'[i]), down'[i].id = 1, NEW j \in D2, j > i PROVE ~IsCommand(down'[j])
    <3>1. a + i \in D /\ a + j \in D /\ a + j > a + i /\ down'[i] = down[a + i] /\ down'[j] = down[a + j]
      BY <1>1, <1>4, <2>1
    <3> HIDE DEF D
    <3> QED
      BY <2>1, <3>1 DEF LinkInv, NewestLast, D
  <2>2. dev'.rsp # NoResponse /\ dev'.rsp.id = 1 => NoneAsked'
    BY <1>5 DEF LinkInv, NewestLast
  <2>3. ASSUME NEW i \in U2, IsReply(up'[i]), up'[i].id = 1
        PROVE  (\A j \in U2 : j > i => ~IsReply(up'[j])) /\ dev'.rsp = NoResponse /\ NoneAsked'
    <3>1. b + i \in U /\ up'[i] = up[b + i]
      BY <1>2, <1>4, <2>3
    <3>2. (\A j \in U : j > b + i => ~IsReply(up[j])) /\ dev.rsp = NoResponse /\ NoneAsked
      BY <2>3, <3>1 DEF LinkInv, NewestLast
    <3>3. ASSUME NEW j \in U2, j > i PROVE ~IsReply(up'[j])
      <4>1. b + j \in U /\ b + j > b + i /\ up'[j] = up[b + j]
        BY <1>2, <1>4, <3>3
      <4> QED
        BY <3>2, <4>1
    <3> QED
      BY <1>5, <3>2, <3>3
  <2> QED
    BY <2>1, <2>2, <2>3 DEF NewestLast
<1>7. ASSUME NEW t, NEW k, Due(t, k)' PROVE Due(t, k)
  <2>1. CASE Asked(t, k)'
    <3>1. PICK i \in D2 : IsCommand(down'[i]) /\ ResponseType(down'[i].type) = t /\ down'[i].id = k
      BY <2>1 DEF Asked, IsCommand
    <3>2. a + i \in D /\ down'[i] = down[a + i]
      BY <1>1, <1>4
    <3> QED
      BY <3>1, <3>2 DEF Due, Asked
  <2>2. CASE Answering(t, k)'
    BY <2>2 DEF Due, Answering
  <2>3. CASE Answered(t, k)'
    <3>1. PICK i \in U2 : IsReply(up'[i]) /\ up'[i].type = t /\ up'[i].id = k
      BY <2>3 DEF Answered, IsReply
    <3>2. b + i \in U /\ up'[i] = up[b + i]
      BY <1>2, <1>4
    <3> QED
      BY <3>1, <3>2 DEF Due, Answered
  <2> QED
    BY <1>7, <2>1, <2>2, <2>3 DEF Due
<1> QED
  BY <1>6, <1>7 DEF NothingNew, LinkInv, LinkTypes

LEMMA UpAppends ==
  ASSUME NEW r \in Seq(Replies \cup Events), NEW p \in Replies \cup Events
  PROVE  /\ r \o <<p>> = Append(r, p) /\ r \o <<>> = r
         /\ Append(r, p) \in Seq(Replies \cup Events) /\ Len(Append(r, p)) = Len(r) + 1
         /\ Append(r, p)[Len(r) + 1] = p
         /\ \A i \in 1 .. Len(r) : Append(r, p)[i] = r[i]
         /\ \A i \in 1 .. Len(Append(r, p)) : i \in 1 .. Len(r) \/ i = Len(r) + 1
<1>1. /\ Append(r, p) \in Seq(Replies \cup Events) /\ Len(Append(r, p)) = Len(r) + 1
      /\ Append(r, p)[Len(r) + 1] = p
      /\ \A i \in 1 .. Len(r) : Append(r, p)[i] = r[i]
  BY AppendProperties
<1>2. r \o <<p>> = Append(r, p)
  BY AppendIsConcat
<1>3. r \o <<>> = r
  BY ConcatEmptySeq
<1>4. \A i \in 1 .. Len(Append(r, p)) : i \in 1 .. Len(r) \/ i = Len(r) + 1
  BY <1>1
<1> QED
  BY <1>1, <1>2, <1>3, <1>4

LEMMA PartRefl == ASSUME LinkInv PROVE Part(down, down) /\ Part(up, up) /\ Part(<<>>, down) /\ Part(<<>>, up)
<1>1. Len(down) \in Nat /\ Len(up) \in Nat
  BY LenProperties DEF LinkInv, LinkTypes
<1>2. (\A i \in 1 .. Len(down) : down[i] = down[0 + i]) /\ \A i \in 1 .. Len(up) : up[i] = up[0 + i]
  BY <1>1
<1>3. 0 \in 0 .. Len(down) /\ 0 \in 0 .. Len(up) /\ Len(down) + 0 <= Len(down) /\ Len(up) + 0 <= Len(up)
  BY <1>1
<1>4. Len(<<>>) = 0
  OBVIOUS
<1>5. Part(down, down) /\ Part(up, up)
  BY <1>2, <1>3 DEF Part
<1>6. Part(<<>>, down) /\ Part(<<>>, up)
  BY <1>3, <1>4 DEF Part
<1> QED
  BY <1>5, <1>6

\* A reply that leaves the device, or is dropped as nobody listens.
LEMMA AnswerIsNoNews ==
  ASSUME LinkInv, DevAnswer
  PROVE  NothingNew
<1> USE DEF LinkInv
<1>1. /\ dev.rsp # NoResponse /\ dev.rsp \in Replies /\ down' = down
      /\ dev' = [dev EXCEPT !.rsp = NoResponse]
      /\ up' = IF conn = "good" THEN up \o <<dev.rsp>> ELSE up
      /\ dev \in Devices /\ down \in Seq(Packets) /\ up \in Seq(Replies \cup Events)
  BY DEF DevAnswer, Upward, LinkTypes, DevOK, Devices
<1>2. DevOK(dev') /\ dev'.rsp = NoResponse
  BY <1>1 DEF LinkTypes, DevOK, Devices
<1>3. CASE conn # "good"
  BY <1>1, <1>2, <1>3, PartRefl, NoNewsInParts
<1>4. CASE conn = "good"
  <2> DEFINE p == dev.rsp
  <2>1. /\ up' = Append(up, p) /\ up' \in Seq(Replies \cup Events) /\ Len(up') = Len(up) + 1
        /\ up'[Len(up) + 1] = p /\ \A i \in 1 .. Len(up) : up'[i] = up[i]
        /\ \A i \in 1 .. Len(up') : i \in 1 .. Len(up) \/ i = Len(up) + 1
    BY <1>1, <1>4, UpAppends
  <2>2. Len(up) \in Nat
    BY <1>1, LenProperties
  <2>3. NewestLast'
    <3>1. ASSUME NEW i \in 1 .. Len(up'), IsReply(up'[i]), up'[i].id = 1
          PROVE  (\A j \in 1 .. Len(up') : j > i => ~IsReply(up'[j])) /\ NoneAsked
      <4>1. CASE i \in 1 .. Len(up)
        BY <1>1, <2>1, <3>1, <4>1 DEF NewestLast
      <4>2. CASE i = Len(up) + 1
        <5>1. NoneAsked
          BY <1>1, <2>1, <3>1, <4>2 DEF NewestLast
        <5>2. \A j \in 1 .. Len(up') : ~(j > i)
          BY <2>1, <2>2, <4>2
        <5> QED
          BY <5>1, <5>2
      <4> QED
        BY <2>1, <4>1, <4>2
    <3>2. NoneAsked => NoneAsked'
      BY <1>1 DEF NoneAsked
    <3> QED
      BY <1>1, <1>2, <3>1, <3>2 DEF NewestLast
  <2>4. ASSUME NEW t, NEW k, Due(t, k)' PROVE Due(t, k)
    <3>1. CASE Answered(t, k)'
      <4>1. PICK i \in 1 .. Len(up') : IsReply(up'[i]) /\ up'[i].type = t /\ up'[i].id = k
        BY <3>1 DEF Answered, IsReply
      <4>2. CASE i \in 1 .. Len(up)
        BY <2>1, <4>1, <4>2 DEF Due, Answered
      <4>3. CASE i = Len(up) + 1
        BY <1>1, <2>1, <4>1, <4>3 DEF Due, Answering
      <4> QED
        BY <2>1, <4>2, <4>3
    <3>2. CASE Asked(t, k)'
      BY <1>1, <3>2 DEF Due, Asked
    <3> QED
      BY <1>2, <2>4, <3>1, <3>2 DEF Due, Answering
  <2> QED
    BY <1>1, <1>2, <2>1, <2>3, <2>4 DEF NothingNew, LinkTypes
<1> QED
  BY <1>3, <1>4

\* An event joins the replies, or is dropped.
LEMMA EventIsNoNews ==
  ASSUME LinkInv, DevDecide
  PROVE  NothingNew
<1> USE DEF LinkInv
<1>1. /\ dev.job # NoJob /\ down' = down /\ dev' = Decide(dev)
      /\ Upward(IF Fires(dev) THEN <<Event(dev)>> ELSE <<>>)
      /\ down \in Seq(Packets) /\ up \in Seq(Replies \cup Events) /\ DevOK(dev)
  BY DEF DevDecide, LinkTypes
<1>2. DevOK(dev') /\ dev'.rsp = dev.rsp
  BY <1>1, DecideKeeps
<1> DEFINE p == Event(dev)
<1>3. p \in Events
  <2>1. dev.job \in Seq(Nat) /\ Len(dev.job) = WINDOW_LEN /\ dev.decided + 1 \in Nat
    BY <1>1 DEF DevOK, Devices, NoJob
  <2>2. dev.job[WINDOW_LEN] \in Nat
    BY <2>1, DeviceAssumption, LenProperties
  <2> QED
    BY <2>1, <2>2 DEF Event, Events
<1> HIDE DEF p
<1>4. CASE up' = up
  BY <1>1, <1>2, <1>4, PartRefl, NoNewsInParts
<1>5. CASE up' = up \o <<p>>
  <2>1. /\ up' \in Seq(Replies \cup Events) /\ Len(up') = Len(up) + 1
        /\ up'[Len(up) + 1] = p /\ \A i \in 1 .. Len(up) : up'[i] = up[i]
        /\ \A i \in 1 .. Len(up') : i \in 1 .. Len(up) \/ i = Len(up) + 1
    BY <1>1, <1>3, <1>5, UpAppends
  <2>2. ~IsReply(p)
    BY <1>3 DEF IsReply, Events
  <2>3. NewestLast'
    <3>1. ASSUME NEW i \in 1 .. Len(up'), IsReply(up'[i]), up'[i].id = 1
          PROVE  (\A j \in 1 .. Len(up') : j > i => ~IsReply(up'[j])) /\ NoneAsked /\ dev.rsp = NoResponse
      <4>1. i \in 1 .. Len(up)
        BY <2>1, <2>2, <3>1
      <4> QED
        BY <2>1, <2>2, <3>1, <4>1 DEF NewestLast
    <3>2. NoneAsked => NoneAsked'
      BY <1>1 DEF NoneAsked
    <3> QED
      BY <1>1, <1>2, <3>1, <3>2 DEF NewestLast
  <2>4. ASSUME NEW t, NEW k, Due(t, k)' PROVE Due(t, k)
    <3>1. CASE Answered(t, k)'
      <4>1. PICK i \in 1 .. Len(up') : IsReply(up'[i]) /\ up'[i].type = t /\ up'[i].id = k
        BY <3>1 DEF Answered, IsReply
      <4>2. i \in 1 .. Len(up)
        BY <2>1, <2>2, <4>1
      <4> QED
        BY <2>1, <4>1, <4>2 DEF Due, Answered
    <3>2. CASE Asked(t, k)'
      BY <1>1, <3>2 DEF Due, Asked
    <3> QED
      BY <1>2, <2>4, <3>1, <3>2 DEF Due, Answering
  <2> QED
    BY <1>1, <1>2, <2>1, <2>3, <2>4 DEF NothingNew, LinkTypes
<1>6. up' = up \/ up' = up \o <<p>>
  <2>1. up \o <<>> = up
    BY <1>1, <1>3, UpAppends
  <2> QED
    BY <1>1, <2>1 DEF Upward, p
<1> QED
  BY <1>4, <1>5, <1>6

LEMMA DownHead ==
  ASSUME LinkInv, down # <<>>
  PROVE  /\ Head(down) \in Packets /\ Tail(down) \in Seq(Packets) /\ Part(Tail(down), down)
         /\ Len(Tail(down)) + 1 = Len(down) /\ Len(Tail(down)) \in Nat
         /\ 1 \in 1 .. Len(down) /\ Head(down) = down[1]
         /\ \A i \in 1 .. Len(Tail(down)) : i + 1 \in 1 .. Len(down) /\ Tail(down)[i] = down[i + 1] /\ i + 1 > 1
<1>1. down \in Seq(Packets)
  BY DEF LinkInv, LinkTypes
<1>2. Len(down) \in Nat \ {0}
  BY <1>1, LenProperties, EmptySeq
<1>3. /\ Head(down) \in Packets /\ Tail(down) \in Seq(Packets) /\ Len(Tail(down)) = Len(down) - 1
      /\ \A i \in 1 .. Len(Tail(down)) : Tail(down)[i] = down[i + 1]
  BY <1>1, HeadTailProperties
<1>4. Head(down) = down[1]
  BY <1>1
<1> DEFINE t == Tail(down)
<1>5. Part(t, down)
  <2>1. 1 \in 0 .. Len(down) /\ Len(t) + 1 <= Len(down)
    BY <1>2, <1>3
  <2>2. \A i \in 1 .. Len(t) : t[i] = down[1 + i]
    BY <1>3
  <2> QED
    BY <2>1, <2>2 DEF Part
<1> QED
  BY <1>2, <1>3, <1>4, <1>5

\* The device takes a packet: a command becomes its reply, which may overtake the last.
LEMMA TakeIsNoNews ==
  ASSUME LinkInv, DevTake
  PROVE  NothingNew
<1> USE DEF LinkInv
<1> DEFINE p == Head(down)
<1>1. /\ down # <<>> /\ down' = Tail(down) /\ dev' = Receive(dev, p)
      /\ \E late_rest \in Overtaken(dev, p) : up' = IF conn = "good" THEN up \o late_rest ELSE up
      /\ down \in Seq(Packets) /\ up \in Seq(Replies \cup Events) /\ DevOK(dev) /\ p \in Packets
  BY DownHead DEF DevTake, Upward, LinkTypes
<1>2. up \o <<>> = up
  BY <1>1, ConcatEmptySeq
<1>h. p = Head(down)
  OBVIOUS
<1> HIDE DEF p
<1>3. CASE p.type = "FEATURE"
  <2>1. dev' = Commit(dev, p.fn) /\ p.fn \in Nat
    <3>1. p.fn \in Nat
      BY <1>1 DEF Packets
    <3>2. Receive(dev, p) = Commit(dev, p.fn)
      BY <1>3 DEF Receive, CommandTypes
    <3> QED
      BY <1>1, <3>1, <3>2
  <2>2. DevOK(dev') /\ dev'.rsp = dev.rsp
    BY <1>1, <2>1, CommitKeeps
  <2>3. up' = up
    BY <1>1, <1>2, <1>3 DEF Overtaken, Answers
  <2> QED
    BY <1>1, <1>h, <2>2, <2>3, PartRefl, DownHead, NoNewsInParts
<1>4. CASE p.type # "FEATURE"
  <2>1. p.type \in CommandTypes
    BY <1>1, <1>4 DEF Packets
  <2>2. /\ DevOK(dev') /\ dev'.rsp = Response(dev, p) /\ dev'.rsp \in Replies
        /\ dev'.rsp.id = p.id /\ dev'.rsp.type = ResponseType(p.type)
    <3>1. /\ DevOK(Receive(dev, p)) /\ Receive(dev, p).rsp = Response(dev, p)
          /\ Response(dev, p) \in Replies /\ Response(dev, p).id = p.id
          /\ Response(dev, p).type = ResponseType(p.type)
      BY <1>1, <2>1, CommandKeeps
    <3> QED
      BY <1>1, <3>1
  <2> DEFINE r == dev.rsp
  <2>3. up' = up \/ (r # NoResponse /\ r \in Replies /\ up' = Append(up, r))
    <3>1. r # NoResponse => r \in Replies
      BY <1>1 DEF DevOK, Devices, r
    <3>2. r # NoResponse => up \o <<r>> = Append(up, r)
      BY <1>1, <3>1, UpAppends
    <3> QED
      BY <1>1, <1>2, <3>1, <3>2 DEF Overtaken
  <2>4. /\ p = down[1] /\ 1 \in 1 .. Len(down)
        /\ \A i \in 1 .. Len(down') : i + 1 \in 1 .. Len(down) /\ down'[i] = down[i + 1] /\ i + 1 > 1
        /\ down' \in Seq(Packets) /\ Part(down', down)
    BY <1>1, <1>h, DownHead
  <2>r. r = dev.rsp
    OBVIOUS
  <2> HIDE DEF r
  <2>5. /\ up' \in Seq(Replies \cup Events)
        /\ \A i \in 1 .. Len(up') : \/ i \in 1 .. Len(up) /\ up'[i] = up[i]
                                    \/ r # NoResponse /\ up'[i] = r
    <3>1. CASE up' = up
      BY <1>1, <3>1
    <3>2. CASE r # NoResponse /\ r \in Replies /\ up' = Append(up, r)
      <4>1. /\ Append(up, r) \in Seq(Replies \cup Events) /\ Append(up, r)[Len(up) + 1] = r
            /\ \A i \in 1 .. Len(up) : Append(up, r)[i] = up[i]
            /\ \A i \in 1 .. Len(Append(up, r)) : i \in 1 .. Len(up) \/ i = Len(up) + 1
        BY <1>1, <3>2, UpAppends
      <4> QED
        BY <3>2, <4>1
    <3> QED
      BY <2>3, <3>1, <3>2
  <2>6. IsCommand(p) /\ ~NoneAsked
    BY <2>1, <2>4 DEF IsCommand, NoneAsked
  <2>7. NewestLast'
    <3>1. ASSUME NEW i \in 1 .. Len(down'), IsCommand(down'[i]), down'[i].id = 1, NEW j \in 1 .. Len(down'), j > i
          PROVE  ~IsCommand(down'[j])
      <4>1. j + 1 > i + 1
        BY <3>1
      <4> QED
        BY <2>4, <3>1, <4>1 DEF NewestLast
    <3>2. p.id = 1 => NoneAsked'
      BY <2>4, <2>6 DEF NewestLast, NoneAsked
    <3>3. \A i \in 1 .. Len(up') : IsReply(up'[i]) => up'[i].id # 1
      BY <2>5, <2>6, <2>r DEF NewestLast
    <3> QED
      BY <2>2, <3>1, <3>2, <3>3 DEF NewestLast
  <2>8. ASSUME NEW t, NEW k, Due(t, k)' PROVE Due(t, k)
    <3>1. CASE Asked(t, k)'
      <4>1. PICK i \in 1 .. Len(down') : IsCommand(down'[i]) /\ ResponseType(down'[i].type) = t /\ down'[i].id = k
        BY <3>1 DEF Asked, IsCommand
      <4> QED
        BY <2>4, <4>1 DEF Due, Asked
    <3>2. CASE Answering(t, k)'
      <4>1. p.id = k /\ ResponseType(p.type) = t
        BY <2>2, <3>2 DEF Answering
      <4> QED
        BY <2>4, <2>6, <4>1 DEF Due, Asked
    <3>3. CASE Answered(t, k)'
      <4>1. PICK i \in 1 .. Len(up') : IsReply(up'[i]) /\ up'[i].type = t /\ up'[i].id = k
        BY <3>3 DEF Answered, IsReply
      <4>2. CASE i \in 1 .. Len(up) /\ up'[i] = up[i]
        BY <4>1, <4>2 DEF Due, Answered
      <4>3. CASE r # NoResponse /\ up'[i] = r
        BY <4>1, <4>3, <2>r DEF Due, Answering
      <4> QED
        BY <2>5, <4>2, <4>3
    <3> QED
      BY <2>8, <3>1, <3>2, <3>3 DEF Due
  <2> QED
    BY <2>2, <2>4, <2>5, <2>7, <2>8 DEF NothingNew, LinkTypes
<1> QED
  BY <1>3, <1>4

-----------------------------------------------------------------------------
(* What the host writes. *)

LEMMA AgedPackets ==
  ASSUME NEW s \in Seq(Packets)
  PROVE  /\ Aged(s) \in Seq(Packets) /\ Len(Aged(s)) = Len(s)
         /\ \A i \in 1 .. Len(s) : Aged(s)[i].type = s[i].type /\ Aged(s)[i].id = 0 /\ Aged(s)[i].fn = s[i].fn
<1>1. Len(s) \in Nat /\ \A i \in 1 .. Len(s) : s[i] \in Packets
  BY LenProperties
<1>2. ASSUME NEW p \in Packets
      PROVE  /\ "id" \in DOMAIN p /\ [p EXCEPT !.id = 0] \in Packets
             /\ [p EXCEPT !.id = 0].type = p.type /\ [p EXCEPT !.id = 0].id = 0 /\ [p EXCEPT !.id = 0].fn = p.fn
  BY DEF Packets
<1>3. \A i \in 1 .. Len(s) : Aged(s)[i] = [s[i] EXCEPT !.id = 0]
  BY <1>1, <1>2 DEF Aged
<1>4. Aged(s) \in [1 .. Len(s) -> Packets]
  BY <1>1, <1>2 DEF Aged
<1>5. Aged(s) \in Seq(Packets) /\ Len(Aged(s)) = Len(s)
  <2>1. Aged(s) \in Seq(Packets)
    BY <1>1, <1>4, SeqDef
  <2>2. DOMAIN Aged(s) = 1 .. Len(s)
    BY <1>4
  <2> QED
    BY <1>1, <2>1, <2>2, LenProperties
<1> QED
  BY <1>1, <1>2, <1>3, <1>5

LEMMA AgedUp ==
  ASSUME NEW s \in Seq(Replies \cup Events)
  PROVE  /\ Aged(s) \in Seq(Replies \cup Events) /\ Len(Aged(s)) = Len(s)
         /\ \A i \in 1 .. Len(s) :
              /\ Aged(s)[i].type = s[i].type
              /\ IsReply(s[i]) => Aged(s)[i].id = 0
              /\ ~IsReply(s[i]) => Aged(s)[i] = s[i]
<1>1. Len(s) \in Nat /\ \A i \in 1 .. Len(s) : s[i] \in Replies \cup Events
  BY LenProperties
<1>2. ASSUME NEW p \in Replies
      PROVE  /\ "id" \in DOMAIN p /\ IsReply(p) /\ [p EXCEPT !.id = 0] \in Replies
             /\ [p EXCEPT !.id = 0].type = p.type /\ [p EXCEPT !.id = 0].id = 0
  BY DEF Replies, IsReply, ReplyTypes
<1>3. ASSUME NEW p \in Events PROVE "id" \notin DOMAIN p /\ ~IsReply(p)
  BY DEF Events, IsReply
<1>4. \A i \in 1 .. Len(s) : Aged(s)[i] = IF s[i] \in Replies THEN [s[i] EXCEPT !.id = 0] ELSE s[i]
  BY <1>1, <1>2, <1>3 DEF Aged
<1>5. DOMAIN Aged(s) = 1 .. Len(s) /\ Aged(s) \in [1 .. Len(s) -> Replies \cup Events]
  <2>1. DOMAIN Aged(s) = 1 .. Len(s) /\ Aged(s) = [i \in 1 .. Len(s) |-> Aged(s)[i]]
    BY DEF Aged
  <2>2. \A i \in 1 .. Len(s) : Aged(s)[i] \in Replies \cup Events
    BY <1>1, <1>2, <1>4
  <2> QED
    BY <2>1, <2>2
<1>6. Aged(s) \in Seq(Replies \cup Events) /\ Len(Aged(s)) = Len(s)
  <2>1. Aged(s) \in Seq(Replies \cup Events)
    BY <1>1, <1>5, SeqDef
  <2> QED
    BY <1>1, <1>5, <2>1, LenProperties
<1>7. ASSUME NEW i \in 1 .. Len(s)
      PROVE  /\ Aged(s)[i].type = s[i].type
             /\ IsReply(s[i]) => Aged(s)[i].id = 0
             /\ ~IsReply(s[i]) => Aged(s)[i] = s[i]
  <2>1. CASE s[i] \in Replies
    BY <1>2, <1>4, <2>1
  <2>2. CASE s[i] \notin Replies
    BY <1>1, <1>3, <1>4, <2>2
  <2> QED
    BY <2>1, <2>2
<1> QED
  BY <1>6, <1>7

LEMMA DownAppends ==
  ASSUME NEW r \in Seq(Packets), NEW p \in Packets
  PROVE  /\ Append(r, p) \in Seq(Packets) /\ Len(Append(r, p)) = Len(r) + 1 /\ Len(r) \in Nat
         /\ Append(r, p)[Len(r) + 1] = p
         /\ \A i \in 1 .. Len(r) : Append(r, p)[i] = r[i]
         /\ \A i \in 1 .. Len(Append(r, p)) : i \in 1 .. Len(r) \/ i = Len(r) + 1
<1>1. /\ Append(r, p) \in Seq(Packets) /\ Len(Append(r, p)) = Len(r) + 1
      /\ Append(r, p)[Len(r) + 1] = p
      /\ \A i \in 1 .. Len(r) : Append(r, p)[i] = r[i]
  BY AppendProperties
<1>2. Len(r) \in Nat
  BY LenProperties
<1> QED
  BY <1>1, <1>2

\* A command makes all that is due older, and its own reply due.
LEMMA WriteAges ==
  ASSUME LinkInv, NEW p \in Packets, p.type \in CommandTypes, p.id = 1, Write(p), conn = "good" \/ down = <<>>
  PROVE  /\ LinkInv'
         /\ \A t \in ReplyTypes : Due(t, 0)' => Due(t, 0) \/ Due(t, 1)
         /\ \A t \in ReplyTypes : Due(t, 1)' => conn = "good" /\ t = ResponseType(p.type)
<1> USE DEF LinkInv
<1> DEFINE a == Aged(down)
           w == Append(a, p)
<1>1. /\ down \in Seq(Packets) /\ up \in Seq(Replies \cup Events) /\ DevOK(dev)
      /\ down' = (IF conn = "good" THEN w ELSE down) /\ up' = Aged(up) /\ dev' = AgedRsp(dev)
  BY DEF LinkTypes, Write
<1>2. /\ a \in Seq(Packets) /\ Len(a) = Len(down)
      /\ \A i \in 1 .. Len(down) : a[i].type = down[i].type /\ a[i].id = 0
  BY <1>1, AgedPackets
<1>3. /\ up' \in Seq(Replies \cup Events) /\ Len(up') = Len(up)
      /\ \A i \in 1 .. Len(up) : up'[i].type = up[i].type /\ (IsReply(up[i]) => up'[i].id = 0)
  BY <1>1, AgedUp
<1>4. /\ DevOK(dev') /\ (dev'.rsp = NoResponse <=> dev.rsp = NoResponse)
      /\ dev.rsp # NoResponse => dev'.rsp.type = dev.rsp.type /\ dev'.rsp.id = 0
  <2>1. CASE dev.rsp = NoResponse
    BY <1>1, <2>1 DEF AgedRsp
  <2>2. CASE dev.rsp # NoResponse
    <3> DEFINE r == [dev.rsp EXCEPT !.id = 0]
    <3>1. dev.rsp \in Replies
      BY <1>1, <2>2 DEF DevOK, Devices
    <3>2. r \in Replies /\ r # NoResponse /\ r.type = dev.rsp.type /\ r.id = 0
      BY <3>1 DEF Replies, NoResponse
    <3>3. dev' = [dev EXCEPT !.rsp = r]
      BY <1>1, <2>2 DEF AgedRsp
    <3> HIDE DEF r
    <3> QED
      BY <1>1, <2>2, <3>2, <3>3 DEF DevOK, Devices
  <2> QED
    BY <2>1, <2>2
<1>5. /\ w \in Seq(Packets) /\ Len(w) = Len(down) + 1 /\ Len(down) \in Nat /\ w[Len(down) + 1] = p
      /\ \A i \in 1 .. Len(down) : w[i].type = down[i].type /\ w[i].id = 0
      /\ \A i \in 1 .. Len(w) : i \in 1 .. Len(down) \/ i = Len(down) + 1
  BY <1>2, DownAppends
<1> HIDE DEF a, w
<1>6. /\ down' \in Seq(Packets)
      /\ \A i \in 1 .. Len(down') :
           \/ i \in 1 .. Len(down) /\ down'[i].type = down[i].type /\ down'[i].id = 0
           \/ conn = "good" /\ down'[i] = p /\ i = Len(down')
  <2>1. CASE conn = "good"
    BY <1>1, <1>5, <2>1
  <2>2. CASE conn # "good"
    BY <1>1, <2>2
  <2> QED
    BY <2>1, <2>2
<1>7. LinkInv'
  <2>1. ASSUME NEW i \in 1 .. Len(down'), down'[i].id = 1, NEW j \in 1 .. Len(down'), j > i PROVE FALSE
    <3>1. i = Len(down') /\ Len(down') \in Nat
      BY <1>6, <2>1, LenProperties
    <3> QED
      BY <2>1, <3>1
  <2>2. NewestLast'
    <3>1. \A i \in 1 .. Len(up') : IsReply(up'[i]) => up'[i].id # 1
      BY <1>3 DEF IsReply
    <3> QED
      BY <1>4, <2>1, <3>1 DEF NewestLast
  <2> QED
    BY <1>3, <1>4, <1>6, <2>2 DEF LinkTypes
<1>8. ASSUME NEW t \in ReplyTypes, NEW k \in {0, 1}, Due(t, k)'
      PROVE  \/ k = 0 /\ (Due(t, 0) \/ Due(t, 1))
             \/ k = 1 /\ conn = "good" /\ t = ResponseType(p.type)
  <2>1. CASE Asked(t, k)'
    <3>1. PICK i \in 1 .. Len(down') : IsCommand(down'[i]) /\ ResponseType(down'[i].type) = t /\ down'[i].id = k
      BY <2>1 DEF Asked, IsCommand
    <3>2. CASE i \in 1 .. Len(down) /\ down'[i].type = down[i].type /\ down'[i].id = 0
      <4>1. down[i].id = 0 \/ down[i].id = 1
        <5>1. down[i] \in Packets
          BY <1>1, <3>2, LenProperties
        <5> QED
          BY <5>1 DEF Packets
      <4> QED
        BY <3>1, <3>2, <4>1 DEF Due, Asked, IsCommand
    <3>3. CASE conn = "good" /\ down'[i] = p
      BY <3>1, <3>3
    <3> QED
      BY <1>6, <3>2, <3>3
  <2>2. CASE Answering(t, k)'
    <3>1. dev.rsp # NoResponse /\ dev.rsp.type = t /\ k = 0
      BY <1>4, <2>2 DEF Answering
    <3>2. dev.rsp.id = 0 \/ dev.rsp.id = 1
      BY <1>1, <3>1 DEF DevOK, Devices, Replies
    <3> QED
      BY <3>1, <3>2 DEF Due, Answering
  <2>3. CASE Answered(t, k)'
    <3>1. PICK i \in 1 .. Len(up') : IsReply(up'[i]) /\ up'[i].type = t /\ up'[i].id = k
      BY <2>3 DEF Answered, IsReply
    <3>2. i \in 1 .. Len(up) /\ IsReply(up[i]) /\ up[i].type = t /\ k = 0
      BY <1>3, <3>1 DEF IsReply
    <3>3. up[i].id = 0 \/ up[i].id = 1
      <4>1. up[i] \in Replies
        <5>1. up[i] \in Replies \cup Events
          BY <1>1, <3>2, LenProperties
        <5> QED
          BY <3>2, <5>1 DEF IsReply, Events
      <4> QED
        BY <4>1 DEF Replies
    <3> QED
      BY <3>2, <3>3 DEF Due, Answered
  <2> QED
    BY <1>8, <2>1, <2>2, <2>3 DEF Due
<1>9. \A t \in ReplyTypes : Due(t, 0)' => Due(t, 0) \/ Due(t, 1)
  BY <1>8
<1>10. \A t \in ReplyTypes : Due(t, 1)' => conn = "good" /\ t = ResponseType(p.type)
  BY <1>8
<1> QED
  BY <1>7, <1>9, <1>10

\* A frame is not answered.
LEMMA FrameIsNoNews ==
  ASSUME LinkInv, NEW p \in Packets, p.type = "FEATURE", p.id = 0, down' = Append(down, p), up' = up, dev' = dev
  PROVE  NothingNew
<1> USE DEF LinkInv
<1>1. /\ down' \in Seq(Packets) /\ Len(down') = Len(down) + 1
      /\ \A i \in 1 .. Len(down') : \/ i \in 1 .. Len(down) /\ down'[i] = down[i]
                                    \/ ~IsCommand(down'[i])
  <2>1. ~IsCommand(p) /\ down \in Seq(Packets)
    BY DEF IsCommand, CommandTypes, LinkTypes
  <2> QED
    BY <2>1, DownAppends
<1>2. NoneAsked => NoneAsked'
  BY <1>1 DEF NoneAsked
<1>3. NewestLast'
  <2>1. ASSUME NEW i \in 1 .. Len(down'), IsCommand(down'[i]), down'[i].id = 1, NEW j \in 1 .. Len(down'), j > i
        PROVE  ~IsCommand(down'[j])
    BY <1>1, <2>1 DEF NewestLast
  <2> QED
    BY <1>2, <2>1 DEF NewestLast
<1>4. ASSUME NEW t, NEW k, Due(t, k)' PROVE Due(t, k)
  <2>1. CASE Asked(t, k)'
    <3>1. PICK i \in 1 .. Len(down') : IsCommand(down'[i]) /\ ResponseType(down'[i].type) = t /\ down'[i].id = k
      BY <2>1 DEF Asked, IsCommand
    <3> QED
      BY <1>1, <3>1 DEF Due, Asked
  <2> QED
    BY <1>4, <2>1 DEF Due, Answering, Answered
<1> QED
  BY <1>1, <1>3, <1>4 DEF NothingNew, LinkTypes

-----------------------------------------------------------------------------
(* What is due where. *)

Gone(t) == ~Due(t, 0) /\ ~Due(t, 1)
Own(t) == ~Due(t, 0)
AllGone == Gone("ACK") /\ Gone("VERSION") /\ Gone("STATS")
AllOwn == Own("ACK") /\ Own("VERSION") /\ Own("STATS")

HostTypes ==
  /\ conn \in {"none", "good", "dead"} /\ cmd \in CommandTypes
  /\ pc \in {"OPEN", "SLEEP", "SEND", "WAIT", "DONE"} \cup Loop
  /\ g_stop \in BOOLEAN /\ late \in BOOLEAN /\ own \in BOOLEAN
  /\ frame_num \in Nat /\ polls \in Nat /\ faults \in Nat

PortInv ==
  /\ conn = "none" <=> pc \in {"OPEN", "SLEEP", "DONE"}
  /\ conn = "dead" => down = <<>>
  /\ pc \in {"OPEN", "SLEEP"} => cmd \in Handshake
  /\ pc \in Loop => cmd = "START"

\* Whatever a wait did, the handshake meets no version reply but its own, and the
\* session none at all but those to its polls.
HandshakeInv ==
  /\ pc \in {"OPEN"} \cup Loop => Gone("ACK") /\ Gone("VERSION")
  /\ pc = "SLEEP" => \A k \in {0, 1} : ~Answered("ACK", k) /\ ~Answered("VERSION", k)
  /\ pc = "SEND" /\ cmd \in {"PING", "RESET", "READ_VERSION"} => Gone("VERSION")
  /\ pc = "WAIT" /\ cmd \in {"PING", "RESET"} => Gone("VERSION")
  /\ pc = "WAIT" /\ cmd = "READ_VERSION" => Own("VERSION")
  /\ pc = "SEND" /\ cmd = "START" => AllGone
  /\ pc = "WAIT" /\ cmd = "START" => AllOwn

\* When no wait gave up too early, no command meets a reply that it could be
\* taken to be answered by.
PromptInv ==
  /\ pc = "SEND" /\ cmd = "PING" /\ conn = "good" => Gone("ACK")
  /\ pc = "WAIT" /\ cmd = "PING" /\ conn = "good" => Own("ACK")
  /\ pc = "SEND" /\ cmd \in {"RESET", "READ_VERSION"} => AllGone
  /\ pc = "WAIT" /\ cmd \in {"RESET", "READ_VERSION"} => AllOwn
  /\ pc = "SEND" /\ cmd = "STOP" => Gone("ACK") /\ Gone("VERSION")
  /\ pc = "WAIT" /\ cmd = "STOP" => Own("ACK")
  /\ pc = "SEND" /\ cmd = FinalStats /\ conn = "good" => AllGone
  /\ pc = "WAIT" /\ cmd = FinalStats /\ conn = "good" => AllOwn

\* Only polls leave more than one thing due.
PollInv ==
  polls = 0 =>
    /\ cmd # FinalStats \/ pc = "SEND" => Gone("STATS")
    /\ ~late /\ ~g_stop => AllOwn

AnswerInv == (~g_stop => HandshakeInv /\ (~late => PromptInv)) /\ PollInv

OwnInv == StartIsOwn /\ EachReplyIsOwn

SessionInv == LinkInv /\ HostTypes /\ PortInv /\ AnswerInv /\ OwnInv

-----------------------------------------------------------------------------
(* The link moves by itself. *)

\* Nothing comes to be due, nor does a port that is not open hear anything.
StillGone ==
  /\ \A t \in ReplyTypes : (Gone(t) => Gone(t)') /\ (Own(t) => Own(t)')
  /\ AllGone => AllGone'
  /\ AllOwn => AllOwn'

LEMMA NoNewsKeepsGone == ASSUME NothingNew PROVE StillGone
<1>1. \A t \in ReplyTypes, k \in {0, 1} : Due(t, k)' => Due(t, k)
  BY DEF NothingNew
<1>2. ASSUME NEW t \in ReplyTypes PROVE (Gone(t) => Gone(t)') /\ (Own(t) => Own(t)')
  BY <1>1 DEF Gone, Own
<1>3. "ACK" \in ReplyTypes /\ "VERSION" \in ReplyTypes /\ "STATS" \in ReplyTypes
  BY DEF ReplyTypes
<1>4. (AllGone => AllGone') /\ (AllOwn => AllOwn')
  BY <1>2, <1>3 DEF AllGone, AllOwn
<1> QED
  BY <1>2, <1>4 DEF StillGone

LEMMA UpTail ==
  ASSUME LinkInv, up # <<>>
  PROVE  /\ Tail(up) \in Seq(Replies \cup Events) /\ Part(Tail(up), up)
         /\ Head(up) \in Replies \cup Events /\ Head(up) = up[1] /\ 1 \in 1 .. Len(up)
<1>1. up \in Seq(Replies \cup Events)
  BY DEF LinkInv, LinkTypes
<1>2. Len(up) \in Nat \ {0}
  BY <1>1, LenProperties, EmptySeq
<1>3. /\ Head(up) \in Replies \cup Events /\ Tail(up) \in Seq(Replies \cup Events) /\ Len(Tail(up)) = Len(up) - 1
      /\ \A i \in 1 .. Len(Tail(up)) : Tail(up)[i] = up[i + 1]
  BY <1>1, HeadTailProperties
<1>4. Head(up) = up[1]
  BY <1>1
<1>5. Part(Tail(up), up)
  <2>1. 1 \in 0 .. Len(up) /\ Len(Tail(up)) + 1 <= Len(up)
    BY <1>2, <1>3
  <2>2. \A i \in 1 .. Len(Tail(up)) : Tail(up)[i] = up[1 + i]
    BY <1>3
  <2> QED
    BY <2>1, <2>2 DEF Part
<1> QED
  BY <1>2, <1>3, <1>4, <1>5

LEMMA PartStillAnswered ==
  ASSUME LinkInv, up' \in Seq(Replies \cup Events), Part(up', up), NEW t, NEW k, Answered(t, k)'
  PROVE  Answered(t, k)
<1>1. PICK b \in 0 .. Len(up) : Len(up') + b <= Len(up) /\ \A i \in 1 .. Len(up') : up'[i] = up[b + i]
  BY DEF Part
<1>2. Len(up) \in Nat /\ Len(up') \in Nat
  BY LenProperties DEF LinkInv, LinkTypes
<1>3. PICK i \in 1 .. Len(up') : IsReply(up'[i]) /\ up'[i].type = t /\ up'[i].id = k
  BY DEF Answered, IsReply
<1>4. b + i \in 1 .. Len(up) /\ up'[i] = up[b + i]
  BY <1>1, <1>2
<1> QED
  BY <1>3, <1>4 DEF Answered

\* Steps that are not the host's.
Outside == DevStep \/ LoseDown \/ LoseUp \/ Unplug \/ Replug \/ Sigint

LEMMA OutsideIsNoNews ==
  ASSUME LinkInv, Outside
  PROVE  /\ NothingNew
         /\ conn # "good" => \A t, k : Answered(t, k)' => Answered(t, k)
<1> USE DEF LinkInv
<1>1. down \in Seq(Packets) /\ up \in Seq(Replies \cup Events) /\ DevOK(dev)
      /\ <<>> \in Seq(Packets) /\ <<>> \in Seq(Replies \cup Events)
  BY DEF LinkTypes
<1>2. CASE DevTake
  <2>1. conn # "good" => up' = up
    BY <1>2 DEF DevTake, Upward
  <2> QED
    BY <1>2, <2>1, TakeIsNoNews DEF Answered
<1>3. CASE DevAnswer
  <2>1. conn # "good" => up' = up
    BY <1>3 DEF DevAnswer, Upward
  <2> QED
    BY <1>3, <2>1, AnswerIsNoNews DEF Answered
<1>4. CASE DevDecide
  <2>1. conn # "good" => up' = up
    BY <1>4 DEF DevDecide, Upward
  <2> QED
    BY <1>4, <2>1, EventIsNoNews DEF Answered
<1>5. CASE LoseDown
  <2>1. PICK n \in 1 .. 2 : n <= Len(down) /\ down' = SubSeq(down, n + 1, Len(down))
    BY <1>5 DEF LoseDown
  <2>2. up' = up /\ dev' = dev
    BY <1>5 DEF LoseDown
  <2>3. n \in 0 .. Len(down)
    BY <1>1, <2>1, LenProperties
  <2>4. down' \in Seq(Packets) /\ Part(down', down)
    BY <1>1, <2>1, <2>3, PartOfDown
  <2> QED
    BY <1>1, <2>2, <2>4, PartRefl, NoNewsInParts DEF Answered
<1>6. CASE LoseUp
  <2>1. PICK n \in 1 .. 2 : n <= Len(up) /\ up' = SubSeq(up, n + 1, Len(up))
    BY <1>6 DEF LoseUp
  <2>2. down' = down /\ dev' = dev
    BY <1>6 DEF LoseUp
  <2>3. n \in 0 .. Len(up)
    BY <1>1, <2>1, LenProperties
  <2>4. up' \in Seq(Replies \cup Events) /\ Part(up', up)
    BY <1>1, <2>1, <2>3, PartOfUp
  <2>5. NothingNew
    BY <1>1, <2>2, <2>4, PartRefl, NoNewsInParts
  <2> QED
    BY <2>4, <2>5, PartStillAnswered
<1>7. CASE Unplug
  <2>1. down' = <<>> /\ up' = <<>> /\ dev' \in {dev, DevPowerUp}
    BY <1>7 DEF Unplug
  <2>2. DevOK(dev') /\ (dev'.rsp = dev.rsp \/ dev'.rsp = NoResponse)
    <3>1. DevOK(DevPowerUp) /\ DevPowerUp.rsp = NoResponse
      <4>1. NoStats \in Counters
        BY DEF NoStats, Counters
      <4>2. /\ <<>> \in Seq(Nat) /\ Len(<<>>) = 0 /\ NoJob = <<>>
        BY DEF NoJob
      <4>3. /\ DevPowerUp \in Devices /\ DevPowerUp.commits = 0 /\ DevPowerUp.window = <<>> /\ DevPowerUp.job = <<>>
            /\ DevPowerUp.rsp = NoResponse
        BY <4>1, <4>2 DEF DevPowerUp, Devices
      <4> QED
        BY <4>2, <4>3, DeviceAssumption DEF DevOK
    <3> QED
      BY <1>1, <2>1, <3>1
  <2>3. NothingNew
    BY <1>1, <2>1, <2>2, PartRefl, NoNewsInParts
  <2> QED
    BY <1>1, <2>1, <2>3, PartRefl, PartStillAnswered
<1>8. CASE Replug \/ Sigint
  <2>1. down' = down /\ up' = up /\ dev' = dev
    BY <1>8 DEF Replug, Sigint, linkVars
  <2> QED
    BY <1>1, <2>1, PartRefl, NoNewsInParts DEF Answered
<1> QED
  BY <1>2, <1>3, <1>4, <1>5, <1>6, <1>7, <1>8 DEF Outside, DevStep

LEMMA OutsideKeepsSession ==
  ASSUME SessionInv, Outside
  PROVE  SessionInv'
<1>1. /\ NothingNew /\ StillGone
      /\ conn # "good" => \A t, k : Answered(t, k)' => Answered(t, k)
  BY OutsideIsNoNews, NoNewsKeepsGone DEF SessionInv
<1>2. /\ UNCHANGED <<pc, cmd, frame_num, late, own, polls>> /\ g_stop' \in BOOLEAN /\ (~g_stop' => ~g_stop)
      /\ conn' = conn \/ (conn = "good" /\ conn' = "dead" /\ down' = <<>>)
      /\ faults' = faults \/ faults' = faults + 1
  BY DEF Outside, DevStep, DevTake, DevAnswer, DevDecide, LoseDown, LoseUp, Unplug, Replug, Sigint,
         linkVars, hostVars, streamVars, histVars, Fault, SessionInv, HostTypes
<1>3. LinkInv'
  BY <1>1 DEF NothingNew
<1>4. HostTypes'
  BY <1>2 DEF SessionInv, HostTypes
<1>5. PortInv'
  <2>1. CASE conn = "dead"
    <3>1. Part(down', down) \/ down' = <<>>
      <4>1. down = <<>>
        BY <2>1 DEF SessionInv, PortInv
      <4>2. down' = <<>>
        BY <2>1, <4>1 DEF Outside, DevStep, DevTake, DevAnswer, DevDecide, LoseDown, LoseUp, Unplug, Replug, Sigint, linkVars
      <4> QED
        BY <4>2
    <3> QED
      BY <2>1, <1>2 DEF SessionInv, PortInv, Outside, DevStep, DevTake, DevAnswer, DevDecide, LoseDown, LoseUp, Unplug, Replug, Sigint, linkVars
  <2>2. CASE conn # "dead"
    BY <1>2, <2>2 DEF SessionInv, PortInv
  <2> QED
    BY <2>1, <2>2
<1>6. OwnInv'
  BY <1>2 DEF SessionInv, OwnInv, StartIsOwn, EachReplyIsOwn
<1>7. "ACK" \in ReplyTypes /\ "VERSION" \in ReplyTypes /\ "STATS" \in ReplyTypes
  BY DEF ReplyTypes
<1>8. /\ (Gone("ACK") => Gone("ACK")') /\ (Gone("VERSION") => Gone("VERSION")') /\ (Gone("STATS") => Gone("STATS")')
      /\ (Own("ACK") => Own("ACK")') /\ (Own("VERSION") => Own("VERSION")')
      /\ (AllGone => AllGone') /\ (AllOwn => AllOwn')
  BY <1>1, <1>7 DEF StillGone
<1>9. AnswerInv'
  <2>1. HandshakeInv => HandshakeInv'
    <3>1. pc = "SLEEP" => conn # "good"
      BY DEF SessionInv, PortInv
    <3> QED
      BY <1>1, <1>2, <1>8, <3>1 DEF HandshakeInv
  <2>2. PromptInv => PromptInv'
    BY <1>2, <1>8 DEF PromptInv
  <2>3. PollInv => PollInv'
    BY <1>2, <1>8 DEF PollInv
  <2> QED
    BY <1>2, <2>1, <2>2, <2>3 DEF SessionInv, AnswerInv
<1> QED
  BY <1>3, <1>4, <1>5, <1>6, <1>9 DEF SessionInv

-----------------------------------------------------------------------------
(* The host moves. *)

LEMMA KeptGone ==
  ASSUME NothingNew
  PROVE  /\ LinkInv'
         /\ (Gone("ACK") => Gone("ACK")') /\ (Gone("VERSION") => Gone("VERSION")') /\ (Gone("STATS") => Gone("STATS")')
         /\ (Own("ACK") => Own("ACK")') /\ (Own("VERSION") => Own("VERSION")')
         /\ (AllGone => AllGone') /\ (AllOwn => AllOwn')
<1>1. "ACK" \in ReplyTypes /\ "VERSION" \in ReplyTypes /\ "STATS" \in ReplyTypes
  BY DEF ReplyTypes
<1> QED
  BY <1>1, NoNewsKeepsGone DEF StillGone, NothingNew

LEMMA GoneIsOwn ==
  /\ Gone("ACK") => Own("ACK")
  /\ Gone("VERSION") => Own("VERSION")
  /\ AllGone => AllOwn /\ Gone("ACK") /\ Gone("VERSION") /\ Gone("STATS")
BY DEF Gone, Own, AllGone, AllOwn

LEMMA UnchangedIsNoNews ==
  ASSUME LinkInv, down' = down, up' = up, dev' = dev
  PROVE  NothingNew
BY PartRefl, NoNewsInParts DEF LinkInv, LinkTypes

LEMMA PartOfUpIsNoNews ==
  ASSUME LinkInv, down' = down, dev' = dev, up' \in Seq(Replies \cup Events), Part(up', up)
  PROVE  NothingNew
BY PartRefl, NoNewsInParts DEF LinkInv, LinkTypes

LEMMA OpenIsNoNews ==
  ASSUME LinkInv, OpenPort, dev' = dev
  PROVE  NothingNew
<1>1. down \in Seq(Packets) /\ up \in Seq(Replies \cup Events) /\ DevOK(dev)
  BY DEF LinkInv, LinkTypes
<1>2. PICK n \in 0 .. Len(up) : up' = SubSeq(up, n + 1, Len(up))
  BY DEF OpenPort
<1>3. PICK m \in 0 .. Len(down) : down' = SubSeq(down, 1, m)
  BY DEF OpenPort
<1>4. up' \in Seq(Replies \cup Events) /\ Part(up', up)
  BY <1>1, <1>2, PartOfUp
<1>5. down' \in Seq(Packets) /\ Part(down', down)
  BY <1>1, <1>3, PartOfDown
<1> QED
  BY <1>1, <1>4, <1>5, NoNewsInParts

LEMMA ClosedIsNoNews ==
  ASSUME LinkInv, ClosePort, down' = down, dev' = dev
  PROVE  NothingNew /\ \A t, k : ~Answered(t, k)'
<1>1. up' = <<>> /\ <<>> \in Seq(Replies \cup Events)
  BY DEF ClosePort
<1>2. NothingNew
  BY <1>1, PartRefl, PartOfUpIsNoNews
<1>3. \A t, k : ~Answered(t, k)'
  BY <1>1 DEF Answered
<1> QED
  BY <1>2, <1>3

LEMMA OpenKeeps ==
  ASSUME SessionInv, Open
  PROVE  SessionInv'
<1>1. /\ pc = "OPEN" /\ ~g_stop /\ pc' = "SEND" /\ cmd' = "PING" /\ conn' = "good"
      /\ UNCHANGED <<g_stop, late, own, polls, faults, frame_num>>
  BY DEF Open, OpenPort, histVars, streamVars
<1>2. NothingNew
  BY OpenIsNoNews DEF Open, SessionInv
<1>3. HostTypes' /\ PortInv' /\ OwnInv'
  BY <1>1 DEF SessionInv, HostTypes, PortInv, OwnInv, StartIsOwn, EachReplyIsOwn, CommandTypes, Loop
<1>4. AnswerInv'
  <2>1. HandshakeInv'
    BY <1>1, <1>2, KeptGone DEF SessionInv, AnswerInv, HandshakeInv, Loop
  <2>2. ~late => PromptInv'
    BY <1>1, <1>2, KeptGone, GoneIsOwn DEF SessionInv, AnswerInv, HandshakeInv, PromptInv, FinalStats
  <2>3. PollInv'
    BY <1>1, <1>2, KeptGone DEF SessionInv, AnswerInv, PollInv, PortInv, Handshake, FinalStats
  <2> QED
    BY <1>1, <2>1, <2>2, <2>3 DEF AnswerInv
<1> QED
  BY <1>2, <1>3, <1>4, KeptGone DEF SessionInv

LEMMA IdleKeeps ==
  ASSUME SessionInv, OpenFails \/ Wake \/ Abandon
  PROVE  SessionInv'
<1>1. /\ pc \in {"OPEN", "SLEEP"} /\ pc' \in {"OPEN", "SLEEP", "DONE"} /\ (pc' = "DONE" => g_stop)
      /\ UNCHANGED <<cmd, conn, g_stop, late, own, polls, faults, frame_num, down, up, dev>>
      /\ (pc' = "SLEEP" => pc = "OPEN") /\ (pc' = "OPEN" => pc = "SLEEP" /\ (g_stop \/ Quiescent))
  BY DEF OpenFails, Wake, Abandon, Stay, linkVars, histVars, streamVars
<1>2. NothingNew
  BY <1>1, UnchangedIsNoNews DEF SessionInv
<1>3. HostTypes' /\ PortInv' /\ OwnInv'
  BY <1>1 DEF SessionInv, HostTypes, PortInv, OwnInv, StartIsOwn, EachReplyIsOwn, Loop
<1>4. \A t, k : Answered(t, k)' <=> Answered(t, k)
  BY <1>1 DEF Answered
<1>5. AnswerInv'
  <2>1. ~g_stop => HandshakeInv'
    <3>1. CASE pc' = "OPEN"
      <4>1. ~g_stop => Gone("ACK") /\ Gone("VERSION")
        <5>1. Quiescent => \A t, k : ~Asked(t, k) /\ ~Answering(t, k)
          BY DEF Quiescent, Asked, Answering
        <5> QED
          BY <1>1, <3>1, <5>1 DEF SessionInv, AnswerInv, HandshakeInv, Gone, Due
      <4> QED
        BY <1>1, <1>2, <3>1, <4>1, KeptGone DEF HandshakeInv
    <3>2. CASE pc' = "SLEEP"
      <4>1. ~g_stop => Gone("ACK") /\ Gone("VERSION")
        BY <1>1, <3>2 DEF SessionInv, AnswerInv, HandshakeInv
      <4>2. ~g_stop => \A k \in {0, 1} : ~Answered("ACK", k) /\ ~Answered("VERSION", k)
        BY <4>1 DEF Gone, Due
      <4> QED
        BY <1>1, <1>4, <3>2, <4>2 DEF HandshakeInv, Loop
    <3> QED
      BY <1>1, <3>1, <3>2
  <2>2. PromptInv'
    BY <1>1 DEF PromptInv
  <2>3. PollInv'
    BY <1>1, <1>2, KeptGone DEF SessionInv, AnswerInv, PollInv, PortInv, Handshake, FinalStats
  <2> QED
    BY <1>1, <2>1, <2>2, <2>3 DEF AnswerInv
<1> QED
  BY <1>2, <1>3, <1>5, KeptGone DEF SessionInv

LEMMA ReadKeeps ==
  ASSUME SessionInv, WaitOther \/ Poll
  PROVE  SessionInv'
<1>1. /\ up # <<>> /\ up' = Tail(up) /\ down' = down /\ dev' = dev
      /\ UNCHANGED <<pc, cmd, conn, g_stop, late, own, polls, faults, frame_num>>
      /\ pc \in {"WAIT", "POLL"}
  BY DEF WaitOther, Poll, Readable, hostVars, streamVars
<1>2. NothingNew
  BY <1>1, UpTail, PartOfUpIsNoNews DEF SessionInv
<1>3. HostTypes' /\ PortInv' /\ OwnInv'
  BY <1>1 DEF SessionInv, HostTypes, PortInv, OwnInv, StartIsOwn, EachReplyIsOwn
<1>4. AnswerInv'
  <2>1. HandshakeInv => HandshakeInv'
    BY <1>1, <1>2, KeptGone DEF HandshakeInv
  <2>2. PromptInv => PromptInv'
    BY <1>1, <1>2, KeptGone DEF PromptInv
  <2>3. PollInv => PollInv'
    BY <1>1, <1>2, KeptGone DEF PollInv
  <2> QED
    BY <1>1, <2>1, <2>2, <2>3 DEF SessionInv, AnswerInv
<1> QED
  BY <1>2, <1>3, <1>4, KeptGone DEF SessionInv

LEMMA LoopKeeps ==
  ASSUME SessionInv, Count \/ Shutdown
  PROVE  SessionInv'
<1>1. /\ down' = down /\ up' = up /\ dev' = dev
      /\ UNCHANGED <<conn, g_stop, late, own, polls, faults>>
      /\ pc \in Loop /\ ((pc' \in Loop /\ cmd' = cmd) \/ (pc' = "SEND" /\ cmd' = "STOP"))
  BY DEF Count, Shutdown, Stay, Loop, linkVars, histVars
<1>2. frame_num' \in Nat
  BY DEF Count, Shutdown, streamVars, SessionInv, HostTypes
<1>3. NothingNew
  BY <1>1, UnchangedIsNoNews DEF SessionInv
<1>4. HostTypes' /\ PortInv' /\ OwnInv'
  BY <1>1, <1>2 DEF SessionInv, HostTypes, PortInv, OwnInv, StartIsOwn, EachReplyIsOwn, CommandTypes, Loop
<1>5. AnswerInv'
  <2>1. HandshakeInv => Gone("ACK") /\ Gone("VERSION")
    BY <1>1 DEF HandshakeInv
  <2>2. HandshakeInv => HandshakeInv'
    BY <1>1, <1>3, <2>1, KeptGone DEF HandshakeInv, Loop
  <2>3. HandshakeInv => PromptInv'
    BY <1>1, <1>3, <2>1, KeptGone DEF PromptInv, Loop, FinalStats
  <2>4. PollInv'
    BY <1>1, <1>3, KeptGone DEF SessionInv, AnswerInv, PollInv, PortInv, FinalStats
  <2> QED
    BY <1>1, <2>2, <2>3, <2>4 DEF SessionInv, AnswerInv
<1> QED
  BY <1>3, <1>4, <1>5, KeptGone DEF SessionInv

LEMMA FrameKeeps ==
  ASSUME SessionInv, SendFrame
  PROVE  SessionInv'
<1>1. /\ up' = up /\ dev' = dev /\ UNCHANGED <<cmd, g_stop, late, own, polls, frame_num>>
      /\ pc = "LOOP" /\ faults' \in {faults, faults + 1}
      /\ \/ /\ conn = "good" /\ conn' = conn /\ pc' = "COUNT"
            /\ down' = Append(down, [type |-> "FEATURE", fn |-> frame_num, id |-> 0])
         \/ conn' = "none" /\ pc' = "OPEN" /\ down' = down
  BY DEF SendFrame, streamVars, Fault
<1>2. NothingNew
  <2> DEFINE p == [type |-> "FEATURE", fn |-> frame_num, id |-> 0]
  <2>1. p \in Packets /\ p.type = "FEATURE" /\ p.id = 0
    BY DEF Packets, SessionInv, HostTypes
  <2>2. down' = Append(down, p) \/ down' = down
    BY <1>1
  <2> HIDE DEF p
  <2> QED
    BY <1>1, <2>1, <2>2, FrameIsNoNews, UnchangedIsNoNews DEF SessionInv
<1>3. HostTypes' /\ PortInv' /\ OwnInv'
  BY <1>1 DEF SessionInv, HostTypes, PortInv, OwnInv, StartIsOwn, EachReplyIsOwn, Loop, Handshake
<1>4. AnswerInv'
  <2>2. HandshakeInv => HandshakeInv'
    BY <1>1, <1>2, KeptGone DEF HandshakeInv, Loop
  <2>3. PromptInv'
    BY <1>1 DEF PromptInv
  <2>4. PollInv'
    BY <1>1, <1>2, KeptGone DEF SessionInv, AnswerInv, PollInv, PortInv, Loop, FinalStats
  <2> QED
    BY <1>1, <2>2, <2>3, <2>4 DEF SessionInv, AnswerInv
<1> QED
  BY <1>2, <1>3, <1>4, KeptGone DEF SessionInv

\* What a command does to what was due: only its own reply comes to be due, as the newest.
LEMMA WrittenGone ==
  ASSUME LinkInv, NEW p \in Packets, p.type \in CommandTypes, p.id = 1, Write(p), conn = "good" \/ down = <<>>
  PROVE  /\ LinkInv' 
         /\ Gone("ACK") => Own("ACK")' /\ (ResponseType(p.type) # "ACK" => Gone("ACK")')
         /\ Gone("VERSION") => Own("VERSION")' /\ (ResponseType(p.type) # "VERSION" => Gone("VERSION")')
         /\ Gone("STATS") => Own("STATS")' /\ (ResponseType(p.type) # "STATS" => Gone("STATS")')
         /\ AllGone => AllOwn'
<1>1. /\ LinkInv'
      /\ \A t \in ReplyTypes : Due(t, 0)' => Due(t, 0) \/ Due(t, 1)
      /\ \A t \in ReplyTypes : Due(t, 1)' => conn = "good" /\ t = ResponseType(p.type)
  BY WriteAges
<1>2. ASSUME NEW t \in ReplyTypes, Gone(t)
      PROVE  Own(t)' /\ (ResponseType(p.type) # t => Gone(t)')
  BY <1>1, <1>2 DEF Gone, Own
<1>3. "ACK" \in ReplyTypes /\ "VERSION" \in ReplyTypes /\ "STATS" \in ReplyTypes
  BY DEF ReplyTypes
<1>4. AllGone => AllOwn'
  BY <1>2, <1>3 DEF AllGone, AllOwn
<1> QED
  BY <1>1, <1>2, <1>3, <1>4

LEMMA PollKeeps ==
  ASSUME SessionInv, AfterPoll
  PROVE  SessionInv'
<1>1. /\ UNCHANGED <<cmd, conn, g_stop, late, own, faults, frame_num>>
      /\ pc = "POLL" /\ pc' = "LOOP"
  BY DEF AfterPoll, Stay, streamVars
<1>2. CASE UNCHANGED <<down, up, dev, polls>>
  <2>1. NothingNew
    BY <1>2, UnchangedIsNoNews DEF SessionInv
  <2>2. HostTypes' /\ PortInv' /\ OwnInv'
    BY <1>1, <1>2 DEF SessionInv, HostTypes, PortInv, OwnInv, StartIsOwn, EachReplyIsOwn, Loop
  <2>3. AnswerInv'
    <3>2. HandshakeInv => HandshakeInv'
      BY <1>1, <2>1, KeptGone DEF HandshakeInv, Loop
    <3>3. PromptInv'
      BY <1>1 DEF PromptInv
    <3>4. PollInv'
      BY <1>1, <1>2, <2>1, KeptGone DEF SessionInv, AnswerInv, PollInv, PortInv, Loop, FinalStats
    <3> QED
      BY <1>1, <3>2, <3>3, <3>4 DEF SessionInv, AnswerInv
  <2> QED
    BY <2>1, <2>2, <2>3, KeptGone DEF SessionInv
<1>3. CASE polls' = polls + 1 /\ Write(Packet("READ_STATS"))
  <2> DEFINE p == Packet("READ_STATS")
  <2>1. p \in Packets /\ p.type \in CommandTypes /\ p.id = 1 /\ p.type = "READ_STATS"
    BY DEF Packet, Packets, CommandTypes, SessionInv, HostTypes
  <2>2. conn = "good" \/ down = <<>>
    BY <1>1 DEF SessionInv, PortInv, HostTypes
  <2>3. Write(p)
    BY <1>3
  <2> HIDE DEF p
  <2>4. /\ LinkInv'
        /\ Gone("ACK") => Gone("ACK")'
        /\ Gone("VERSION") => Gone("VERSION")'
    BY <2>1, <2>2, <2>3, WrittenGone DEF SessionInv, ResponseType
  <2>5. HostTypes' /\ PortInv' /\ OwnInv'
    <3>1. conn # "good" => down' = down
      BY <2>3 DEF Write
    <3> QED
      BY <1>1, <1>3, <3>1 DEF SessionInv, HostTypes, PortInv, OwnInv, StartIsOwn, EachReplyIsOwn, Loop
  <2>6. HandshakeInv => HandshakeInv'
    BY <1>1, <2>4 DEF HandshakeInv, Loop
  <2>7. PromptInv' /\ PollInv'
    BY <1>1, <1>3 DEF PromptInv, PollInv, SessionInv, HostTypes
  <2> QED
    BY <1>1, <2>4, <2>5, <2>6, <2>7 DEF SessionInv, AnswerInv
<1> QED
  BY <1>2, <1>3 DEF AfterPoll

LEMMA SendKeeps ==
  ASSUME SessionInv, SendCommand
  PROVE  SessionInv'
<1>1. /\ pc = "SEND" /\ UNCHANGED <<cmd, g_stop, late, own, polls, frame_num>>
      /\ faults' \in {faults, faults + 1}
  BY DEF SendCommand, Stay, Close, streamVars, Fault
<1>c. cmd \in CommandTypes /\ conn \in {"good", "dead"}
  BY <1>1 DEF SessionInv, HostTypes, PortInv
<1>2. CASE conn = "good" /\ Write(Packet(cmd)) /\ pc' = "WAIT" /\ conn' = conn
  <2> DEFINE p == Packet(cmd)
  <2>1. p \in Packets /\ p.type \in CommandTypes /\ p.id = 1 /\ p.type = cmd
    BY <1>c DEF Packet, Packets, SessionInv, HostTypes
  <2>3. Write(p)
    BY <1>2
  <2> HIDE DEF p
  <2>4. /\ LinkInv'
        /\ Gone("ACK") => Own("ACK")' /\ (ResponseType(cmd) # "ACK" => Gone("ACK")')
        /\ Gone("VERSION") => Own("VERSION")' /\ (ResponseType(cmd) # "VERSION" => Gone("VERSION")')
        /\ Gone("STATS") => Own("STATS")' /\ (ResponseType(cmd) # "STATS" => Gone("STATS")')
        /\ AllGone => AllOwn'
    BY <1>2, <2>1, <2>3, WrittenGone DEF SessionInv
  <2>5. HostTypes' /\ PortInv' /\ OwnInv'
    BY <1>1, <1>2 DEF SessionInv, HostTypes, PortInv, OwnInv, StartIsOwn, EachReplyIsOwn, Loop
  <2>6. HandshakeInv => HandshakeInv'
    <3>1. cmd \in {"PING", "RESET"} => ResponseType(cmd) # "VERSION"
      BY DEF ResponseType
    <3> QED
      BY <1>1, <1>2, <2>4, <3>1, GoneIsOwn DEF HandshakeInv, Loop
  <2>7. HandshakeInv /\ PromptInv => PromptInv'
    <3>1. cmd = "STOP" => ResponseType(cmd) # "VERSION"
      BY DEF ResponseType
    <3> QED
      BY <1>1, <1>2, <2>4, <3>1, GoneIsOwn DEF HandshakeInv, PromptInv, FinalStats
  <2>8. PollInv /\ (~g_stop => HandshakeInv /\ (~late => PromptInv)) => PollInv'
    <3>1. cmd # FinalStats => ResponseType(cmd) # "STATS" 
      BY <1>c DEF ResponseType, CommandTypes, FinalStats
    <3>2. polls = 0 /\ PollInv => (cmd # FinalStats => Gone("STATS")')
      BY <1>1, <2>4, <3>1 DEF PollInv
    <3>3. ASSUME polls = 0, PollInv, ~late, ~g_stop, HandshakeInv, PromptInv PROVE AllOwn'
      <4>1. CASE cmd = "PING"
        <5>1. Gone("ACK") /\ Gone("VERSION") /\ Gone("STATS")
          BY <1>1, <1>2, <3>3, <4>1 DEF PollInv, HandshakeInv, PromptInv, FinalStats
        <5> QED
          BY <2>4, <5>1 DEF AllGone
      <4>2. CASE cmd \in {"RESET", "READ_VERSION"}
        BY <1>1, <1>2, <3>3, <4>2, <2>4 DEF PromptInv
      <4>3. CASE cmd = "START"
        BY <1>1, <1>2, <3>3, <4>3, <2>4 DEF HandshakeInv
      <4>4. CASE cmd = "STOP"
        <5>1. Gone("ACK") /\ Gone("VERSION") /\ Gone("STATS")
          BY <1>1, <1>2, <3>3, <4>4 DEF PollInv, PromptInv, FinalStats
        <5> QED
          BY <2>4, <5>1 DEF AllGone
      <4>5. CASE cmd = FinalStats
        BY <1>1, <1>2, <3>3, <4>5, <2>4 DEF PromptInv
      <4>6. CASE cmd \notin {"PING", "RESET", "READ_VERSION", "START", "STOP", FinalStats}
        BY <1>c, <4>6 DEF CommandTypes, FinalStats
      <4> QED
        BY <4>1, <4>2, <4>3, <4>4, <4>5, <4>6
    <3> QED
      BY <1>1, <1>2, <3>2, <3>3 DEF PollInv
  <2> QED
    BY <1>1, <2>4, <2>5, <2>6, <2>7, <2>8 DEF SessionInv, AnswerInv
<1>3. CASE /\ cmd \in Handshake /\ ClosePort /\ pc' = "SLEEP" /\ down' = down /\ dev' = dev
  <2>1. NothingNew /\ \A t, k : ~Answered(t, k)'
    BY <1>3, ClosedIsNoNews DEF SessionInv
  <2>2. HostTypes' /\ PortInv' /\ OwnInv'
    BY <1>1, <1>3 DEF SessionInv, HostTypes, PortInv, OwnInv, StartIsOwn, EachReplyIsOwn, Loop, ClosePort
  <2>3. HandshakeInv' /\ PromptInv'
    BY <1>3, <2>1 DEF HandshakeInv, PromptInv, Loop
  <2>4. PollInv => PollInv'
    BY <1>1, <1>3, <2>1, KeptGone DEF PollInv, Handshake, FinalStats
  <2> QED
    BY <1>1, <2>1, <2>2, <2>3, <2>4, KeptGone DEF SessionInv, AnswerInv
<1>4. CASE /\ cmd \notin Handshake /\ conn' = conn /\ pc' = "WAIT" /\ up' = up /\ down' = down /\ dev' = dev
  <2>1. NothingNew
    BY <1>4, UnchangedIsNoNews DEF SessionInv
  <2>2. HostTypes' /\ PortInv' /\ OwnInv'
    BY <1>1, <1>4 DEF SessionInv, HostTypes, PortInv, OwnInv, StartIsOwn, EachReplyIsOwn, Loop
  <2>3. HandshakeInv'
    BY <1>1, <1>4 DEF HandshakeInv, Loop, Handshake
  <2>4. PromptInv => PromptInv'
    BY <1>1, <1>4, <2>1, KeptGone, GoneIsOwn DEF PromptInv, Handshake, FinalStats
  <2>5. PollInv => PollInv'
    BY <1>1, <1>4, <2>1, KeptGone DEF PollInv
  <2> QED
    BY <1>1, <2>1, <2>2, <2>3, <2>4, <2>5, KeptGone DEF SessionInv, AnswerInv
<1> QED
  BY <1>c, <1>2, <1>3, <1>4 DEF SendCommand, Stay, Close

\* When the reply to the newest command has come and is read, nothing else is due.
LEMMA MatchClears ==
  ASSUME LinkInv, up # <<>>, IsReply(Head(up)), Head(up).id = 1, down' = down, dev' = dev,
         up' = <<>> \/ \E n \in 1 .. Len(up) : up' = SubSeq(up, n + 1, Len(up))
  PROVE  AllGone'
<1>1. up \in Seq(Replies \cup Events) /\ Len(up) \in Nat
  BY LenProperties DEF LinkInv, LinkTypes
<1>2. 1 \in 1 .. Len(up) /\ Head(up) = up[1]
  BY UpTail
<1>3. (\A j \in 1 .. Len(up) : j > 1 => ~IsReply(up[j])) /\ dev.rsp = NoResponse /\ NoneAsked
  BY <1>2 DEF LinkInv, NewestLast
<1>4. \A t, k : ~Asked(t, k)' /\ ~Answering(t, k)'
  BY <1>3 DEF NoneAsked, Asked, Answering, IsCommand
<1>5. \A i \in 1 .. Len(up') : ~IsReply(up'[i])
  <2>1. CASE up' = <<>>
    BY <2>1
  <2>2. ASSUME NEW n \in 1 .. Len(up), up' = SubSeq(up, n + 1, Len(up)) PROVE \A i \in 1 .. Len(up') : ~IsReply(up'[i])
    <3> DEFINE s == SubSeq(up, n + 1, Len(up))
    <3>1. /\ Len(s) = IF n + 1 <= Len(up) THEN Len(up) - (n + 1) + 1 ELSE 0
          /\ \A i \in 1 .. Len(up) - (n + 1) + 1 : s[i] = up[(n + 1) + i - 1]
      <4>1. \A i \in n + 1 .. Len(up) : up[i] \in (Replies \cup Events)
        BY <1>1, LenProperties
      <4> QED
        BY <1>1, <4>1, SubSeqProperties
    <3>2. up' = s
      BY <2>2
    <3> HIDE DEF s
    <3>3. ASSUME NEW i \in 1 .. Len(s) PROVE ~IsReply(s[i])
      <4>1. i \in 1 .. Len(up) - (n + 1) + 1 /\ (n + 1) + i - 1 = n + i /\ n + i \in 1 .. Len(up) /\ n + i > 1
        BY <1>1, <3>1
      <4> QED
        BY <1>3, <3>1, <4>1
    <3> QED
      BY <3>2, <3>3
  <2> QED
    BY <2>1, <2>2
<1>6. \A t, k : ~Answered(t, k)'
  BY <1>5 DEF Answered, IsReply
<1> QED
  BY <1>4, <1>6 DEF AllGone, Gone, Due

LEMMA MatchKeeps ==
  ASSUME SessionInv, WaitMatch
  PROVE  SessionInv'
<1> DEFINE one == Head(up).id = 1
<1>1. /\ pc = "WAIT" /\ ~g_stop /\ up # <<>> /\ conn = "good" /\ Matches(Head(up))
      /\ UNCHANGED <<g_stop, late, polls, faults, frame_num>> /\ down' = down /\ dev' = dev
      /\ own' = (Head(up).type # "EVT" /\ Head(up).id = 1)
  BY DEF WaitMatch, Readable, streamVars
<1>2. \/ /\ cmd \in {"READ_VERSION", FinalStats} /\ ClosePort /\ cmd' = cmd
         /\ pc' = IF cmd = "READ_VERSION" THEN "SLEEP" ELSE "DONE"
      \/ /\ conn' = conn /\ \E n \in 1 .. Len(up) : up' = SubSeq(up, n + 1, Len(up))
         /\ \/ cmd = "PING" /\ pc' = "SEND" /\ cmd' = "RESET"
            \/ cmd = "RESET" /\ pc' = "SEND" /\ cmd' = "READ_VERSION"
            \/ cmd = "READ_VERSION" /\ pc' = "SEND" /\ cmd' = "START"
            \/ cmd = "START" /\ pc' \in Loop /\ cmd' = cmd
            \/ cmd = "STOP" /\ pc' = "SEND" /\ cmd' = FinalStats
  BY DEF WaitMatch, Succeed, Close, Stay, FinalStats, Loop
<1>3. /\ up \in Seq(Replies \cup Events) /\ 1 \in 1 .. Len(up) /\ Head(up) = up[1]
      /\ Head(up) \in Replies \cup Events /\ Len(up) \in Nat
  BY <1>1, UpTail, LenProperties DEF SessionInv, LinkInv, LinkTypes
<1>4. /\ IsReply(Head(up)) /\ Head(up).type = ResponseType(cmd) /\ Head(up).id \in {0, 1}
      /\ cmd \in CommandTypes /\ HandshakeInv /\ (~late => PromptInv) /\ PollInv
  <2>1. cmd \in CommandTypes /\ HandshakeInv /\ (~late => PromptInv) /\ PollInv
    BY <1>1 DEF SessionInv, HostTypes, AnswerInv
  <2>2. ResponseType(cmd) \in ReplyTypes
    BY <2>1, PacketKinds
  <2>3. Head(up).type = ResponseType(cmd)
    BY <1>1 DEF Matches
  <2>4. Head(up) \in Replies
    BY <1>3, <2>2, <2>3, PacketKinds
  <2> QED
    BY <2>1, <2>3, <2>4, PacketKinds DEF IsReply, Replies
<1>5. Own(ResponseType(cmd)) => one
  <2>1. Answered(ResponseType(cmd), Head(up).id)
    BY <1>3, <1>4 DEF Answered
  <2> QED
    BY <1>4, <2>1 DEF Own, Due
<1>6. (~late \/ cmd \in {"READ_VERSION", "START"}) => one
  <2>1. CASE cmd = "READ_VERSION"
    BY <1>1, <1>4, <1>5, <2>1 DEF HandshakeInv, ResponseType
  <2>2. CASE cmd = "START"
    BY <1>1, <1>4, <1>5, <2>2 DEF HandshakeInv, ResponseType, AllOwn
  <2>3. CASE cmd \in {"PING", "STOP"}
    BY <1>1, <1>4, <1>5, <2>3 DEF PromptInv, ResponseType
  <2>4. CASE cmd = "RESET"
    BY <1>1, <1>4, <1>5, <2>4 DEF PromptInv, ResponseType, AllOwn
  <2>5. CASE cmd = FinalStats
    BY <1>1, <1>4, <1>5, <2>5 DEF PromptInv, ResponseType, AllOwn, FinalStats
  <2> QED
    BY <1>2, <2>1, <2>2, <2>3, <2>4, <2>5
<1>7. one => AllGone'
  BY <1>1, <1>2, <1>4, MatchClears DEF SessionInv, ClosePort
<1>8. NothingNew
  <2>1. CASE ClosePort
    BY <1>1, <2>1, ClosedIsNoNews DEF SessionInv
  <2>2. ASSUME NEW n \in 1 .. Len(up), up' = SubSeq(up, n + 1, Len(up)) PROVE NothingNew
    <3>1. n \in 0 .. Len(up)
      BY <1>3
    <3> QED
      BY <1>1, <1>3, <2>2, <3>1, PartOfUp, PartOfUpIsNoNews DEF SessionInv
  <2> QED
    BY <1>2, <2>1, <2>2
<1>9. own' <=> one
  BY <1>1, <1>4 DEF IsReply
<1> HIDE DEF one
<1>10. conn' = IF ClosePort /\ cmd \in {"READ_VERSION", FinalStats} /\ pc' \in {"SLEEP", "DONE"} THEN "none" ELSE "good"
  BY <1>1, <1>2 DEF ClosePort, Loop
<1>11. HostTypes' /\ PortInv'
  <2>1. own' \in BOOLEAN
    BY <1>1
  <2>2. HostTypes'
    BY <1>1, <1>2, <1>10, <2>1 DEF SessionInv, HostTypes, CommandTypes, FinalStats, Loop
  <2>3. PortInv'
    BY <1>1, <1>2 DEF SessionInv, PortInv, Handshake, Loop, FinalStats, ClosePort
  <2> QED
    BY <2>2, <2>3
<1>12. OwnInv'
  <2>1. pc' \in Loop => one
    BY <1>2, <1>6 DEF Loop
  <2> QED
    BY <1>1, <1>6, <1>9, <2>1 DEF OwnInv, StartIsOwn, EachReplyIsOwn
<1>13. HandshakeInv'
  <2>1. CASE ClosePort /\ pc' \in {"SLEEP", "DONE"}
    <3>1. \A t, k : ~Answered(t, k)'
      BY <1>1, <2>1, ClosedIsNoNews DEF SessionInv
    <3> QED
      BY <2>1, <3>1 DEF HandshakeInv, Loop
  <2>2. CASE pc' = "SEND" /\ cmd \in {"PING", "RESET"} /\ cmd' \in {"RESET", "READ_VERSION"}
    BY <1>1, <1>4, <1>8, <2>2, KeptGone DEF HandshakeInv, Loop
  <2>3. CASE cmd \in {"READ_VERSION", "START"}
    <3>1. AllGone' /\ AllOwn' /\ Gone("ACK")' /\ Gone("VERSION")'
      BY <1>6, <1>7, <2>3 DEF AllGone, AllOwn, Gone, Own
    <3>2. \/ pc' = "SEND" /\ cmd' = "START"
          \/ pc' \in Loop
          \/ pc' \in {"SLEEP", "DONE"} /\ ClosePort
      BY <1>2, <2>3 DEF FinalStats
    <3> QED
      BY <2>1, <3>1, <3>2 DEF HandshakeInv, Loop
  <2>4. CASE pc' = "SEND" /\ cmd' = FinalStats
    BY <2>4 DEF HandshakeInv, Loop, FinalStats
  <2> QED
    BY <1>2, <2>1, <2>2, <2>3, <2>4
<1>14. ~late => PromptInv'
  BY <1>2, <1>6, <1>7, GoneIsOwn DEF PromptInv, AllGone, AllOwn, Gone, Own, Loop
<1>15. PollInv'
  <2>1. polls = 0 => (cmd' # FinalStats \/ pc' = "SEND" => Gone("STATS")')
    BY <1>1, <1>2, <1>4, <1>8, KeptGone DEF PollInv, FinalStats
  <2>2. polls = 0 /\ ~late => AllOwn'
    BY <1>1, <1>4, <1>8, KeptGone DEF PollInv
  <2> QED
    BY <1>1, <2>1, <2>2 DEF PollInv
<1> QED
  BY <1>1, <1>8, <1>11, <1>12, <1>13, <1>14, <1>15, KeptGone DEF SessionInv, AnswerInv

LEMMA TimeoutKeeps ==
  ASSUME SessionInv, WaitTimeout
  PROVE  SessionInv'
<1>1. /\ pc = "WAIT" /\ UNCHANGED <<g_stop, own, polls, frame_num>> /\ down' = down /\ dev' = dev
      /\ faults' \in {faults, faults + 1} /\ late' \in BOOLEAN /\ (~late' => ~late)
      /\ ~late' => g_stop \/ NoReply
  <2>1. /\ pc = "WAIT" /\ UNCHANGED <<g_stop, own, polls, frame_num>> /\ down' = down /\ dev' = dev
        /\ \/ (g_stop \/ NoReply) /\ faults' = faults /\ late' = late
           \/ faults' = faults + 1 /\ late' = TRUE
    BY DEF WaitTimeout, Fault, streamVars
  <2>2. late \in BOOLEAN
    BY DEF SessionInv, HostTypes
  <2>3. CASE (g_stop \/ NoReply) /\ faults' = faults /\ late' = late
    BY <2>1, <2>2, <2>3
  <2>4. CASE faults' = faults + 1 /\ late' = TRUE
    BY <2>1, <2>4
  <2> QED
    BY <2>1, <2>3, <2>4
<1>2. \/ cmd = "PING" /\ pc' = "SEND" /\ up' = up /\ conn' = conn /\ cmd' = cmd
      \/ cmd \in Handshake /\ ClosePort /\ pc' = "SLEEP" /\ cmd' = cmd
      \/ cmd = "STOP" /\ pc' = "SEND" /\ cmd' = FinalStats /\ up' = up /\ conn' = conn
      \/ cmd = FinalStats /\ ClosePort /\ pc' = "DONE" /\ cmd' = cmd
  BY DEF WaitTimeout, Fail, Close, Stay
<1>3. NothingNew
  BY <1>1, <1>2, ClosedIsNoNews, UnchangedIsNoNews DEF SessionInv
<1>4. HostTypes' /\ PortInv' /\ OwnInv'
  BY <1>1, <1>2 DEF SessionInv, HostTypes, PortInv, OwnInv, StartIsOwn, EachReplyIsOwn, Loop, CommandTypes,
                    Handshake, FinalStats, ClosePort
<1>5. ~late' /\ ~g_stop /\ conn = "good" => AllGone
  <2>1. NoReply /\ conn = "good" => \A t, k : ~Asked(t, k) /\ ~Answering(t, k) /\ ~Answered(t, k)
    BY DEF NoReply, Asked, Answering, Answered
  <2> QED
    BY <1>1, <2>1 DEF AllGone, Gone, Due
<1>6. HandshakeInv => HandshakeInv'
  <2>1. CASE ClosePort /\ pc' \in {"SLEEP", "DONE"}
    <3>1. \A t, k : ~Answered(t, k)'
      BY <1>1, <2>1, ClosedIsNoNews DEF SessionInv
    <3> QED
      BY <2>1, <3>1 DEF HandshakeInv, Loop
  <2>2. CASE cmd = "PING" /\ pc' = "SEND" /\ cmd' = cmd
    BY <1>1, <1>3, <2>2, KeptGone DEF HandshakeInv, Loop
  <2>3. CASE pc' = "SEND" /\ cmd' = FinalStats
    BY <2>3 DEF HandshakeInv, Loop, FinalStats
  <2> QED
    BY <1>2, <2>1, <2>2, <2>3
<1>7. ~late' /\ ~g_stop => PromptInv'
  <2>1. CASE pc' \in {"SLEEP", "DONE"}
    BY <2>1 DEF PromptInv
  <2>2. CASE pc' = "SEND" /\ cmd' \in {"PING", FinalStats} /\ conn' = conn
    BY <1>3, <1>5, <2>2, KeptGone, GoneIsOwn DEF PromptInv, FinalStats
  <2> QED
    BY <1>2, <2>1, <2>2
<1>8. PollInv'
  BY <1>1, <1>2, <1>3, KeptGone DEF SessionInv, AnswerInv, PollInv, Handshake, FinalStats
<1> QED
  BY <1>1, <1>3, <1>4, <1>6, <1>7, <1>8, KeptGone DEF SessionInv, AnswerInv

LEMMA InitSession == ASSUME Init PROVE SessionInv
<1> USE DeviceAssumption, SessionAssumption
<1>1. Foreign \in Nat
  BY DEF Foreign
<1>2. DevOK(dev) /\ dev.rsp = NoResponse
  <2>1. NoStats \in Counters
    BY DEF NoStats, Counters
  <2>2. <<>> \in Seq(Nat) /\ Len(<<>>) = 0 /\ NoJob = <<>> /\ <<Foreign>> \in Seq(Nat) /\ Len(<<Foreign>>) = 1
    BY <1>1 DEF NoJob
  <2>3. /\ DevPowerUp \in Devices /\ DevPowerUp.commits = 0 /\ DevPowerUp.window = <<>> /\ DevPowerUp.job = <<>>
        /\ DevPowerUp.rsp = NoResponse
    BY <2>1, <2>2 DEF DevPowerUp, Devices
  <2>4. CASE dev = DevPowerUp
    BY <2>2, <2>3, <2>4 DEF DevOK
  <2>5. CASE dev = [DevPowerUp EXCEPT !.stream = TRUE, !.commits = 1, !.window = <<Foreign>>]
    <3> DEFINE w == <<Foreign>>
               d == [DevPowerUp EXCEPT !.stream = TRUE, !.commits = 1]
    <3>1. w \in Seq(Nat) /\ Len(w) = 1 /\ dev = [d EXCEPT !.window = w]
      BY <2>2, <2>5
    <3>2. d \in Devices /\ d.commits = 1 /\ d.job = <<>> /\ d.rsp = NoResponse
      BY <2>3 DEF Devices
    <3> HIDE DEF w, d
    <3>3. dev \in Devices /\ dev.window = w /\ dev.commits = 1 /\ dev.job = <<>> /\ dev.rsp = NoResponse
      BY <3>1, <3>2 DEF Devices
    <3>4. Len(dev.window) = IF dev.commits < WINDOW_LEN THEN dev.commits ELSE WINDOW_LEN
      BY <3>1, <3>3
    <3> QED
      BY <3>3, <3>4 DEF DevOK
  <2> QED
    BY <2>4, <2>5 DEF Init
<1>3. down \in Seq(Packets) /\ Len(down) = 0
  BY DEF Init
<1>4. up \in Seq(Replies \cup Events) /\ \A i \in 1 .. Len(up) : ~IsReply(up[i])
  <2>1. StaleEvent \in Events /\ ~IsReply(StaleEvent)
    BY <1>1 DEF StaleEvent, Events, IsReply
  <2>2. CASE up = <<>>
    BY <2>2
  <2>3. CASE up = <<StaleEvent>>
    BY <2>1, <2>3
  <2> QED
    BY <2>2, <2>3 DEF Init
<1>5. LinkInv
  BY <1>2, <1>3, <1>4 DEF LinkInv, LinkTypes, NewestLast
<1>6. AllGone
  <2>1. \A t, k : ~Asked(t, k) /\ ~Answering(t, k) /\ ~Answered(t, k)
    BY <1>2, <1>3, <1>4 DEF Asked, Answering, Answered
  <2> QED
    BY <2>1 DEF AllGone, Gone, Due
<1>7. /\ conn = "none" /\ pc = "OPEN" /\ cmd = "PING" /\ g_stop = FALSE /\ frame_num = 0 /\ faults = 0
      /\ late = FALSE /\ own = TRUE /\ polls = 0
  BY DEF Init
<1>8. HostTypes /\ PortInv /\ OwnInv
  BY <1>7 DEF HostTypes, PortInv, OwnInv, StartIsOwn, EachReplyIsOwn, CommandTypes, Handshake, Loop
<1>9. AnswerInv
  BY <1>6, <1>7, GoneIsOwn DEF AnswerInv, HandshakeInv, PromptInv, PollInv, FinalStats
<1> QED
  BY <1>5, <1>8, <1>9 DEF SessionInv

LEMMA NextSession == ASSUME SessionInv, [Next]_vars PROVE SessionInv'
<1>1. CASE Outside
  BY <1>1, OutsideKeepsSession
<1>2. CASE HostStep
  BY <1>2, OpenKeeps, IdleKeeps, ReadKeeps, LoopKeeps, FrameKeeps, PollKeeps, SendKeeps, MatchKeeps, TimeoutKeeps
     DEF HostStep
<1>3. CASE UNCHANGED vars
  <2>1. /\ down' = down /\ up' = up /\ dev' = dev
        /\ UNCHANGED <<conn, pc, cmd, g_stop, late, own, polls, faults, frame_num>>
    BY <1>3 DEF vars, linkVars, hostVars, streamVars, histVars
  <2>2. NothingNew
    BY <2>1, UnchangedIsNoNews DEF SessionInv
  <2>3. HostTypes' /\ PortInv' /\ OwnInv'
    BY <2>1 DEF SessionInv, HostTypes, PortInv, OwnInv, StartIsOwn, EachReplyIsOwn
  <2>4. \A t, k : Answered(t, k)' <=> Answered(t, k)
    BY <2>1 DEF Answered
  <2>5. HandshakeInv => HandshakeInv'
    BY <2>1, <2>2, <2>4, KeptGone DEF HandshakeInv
  <2>6. PromptInv => PromptInv'
    BY <2>1, <2>2, KeptGone DEF PromptInv
  <2>7. PollInv => PollInv'
    BY <2>1, <2>2, KeptGone DEF PollInv
  <2> QED
    BY <2>1, <2>2, <2>3, <2>5, <2>6, <2>7, KeptGone DEF SessionInv, AnswerInv
<1> QED
  BY <1>1, <1>2, <1>3 DEF Next, Outside, Finished

\* What is due is the newest only, and of that there is one.
LEMMA OnlyNewest == ASSUME SessionInv PROVE InFlightRule
<1> SUFFICES ASSUME polls = 0, ~late, ~g_stop
             PROVE  Cardinality(Commands) + (IF dev.rsp = NoResponse THEN 0 ELSE 1) <= 1
  BY DEF InFlightRule, OneCommandInFlight
<1>1. AllOwn
  BY DEF SessionInv, AnswerInv, PollInv
<1>2. \A t \in ReplyTypes : ~Due(t, 0)
  BY <1>1 DEF AllOwn, Own, ReplyTypes
<1>3. down \in Seq(Packets) /\ Len(down) \in Nat /\ DevOK(dev)
  BY LenProperties DEF SessionInv, LinkInv, LinkTypes
<1>4. \A i \in Commands : i \in 1 .. Len(down) /\ IsCommand(down[i]) /\ down[i].id = 1
  <2>1. ASSUME NEW i \in Commands PROVE i \in 1 .. Len(down) /\ IsCommand(down[i]) /\ down[i].id = 1
    <3>1. i \in 1 .. Len(down) /\ IsCommand(down[i])
      BY DEF Commands, IsCommand
    <3>2. down[i] \in Packets
      BY <1>3, <3>1, LenProperties
    <3>3. ResponseType(down[i].type) \in ReplyTypes /\ down[i].id \in {0, 1}
      BY <3>2, PacketKinds DEF Packets
    <3>4. ~Asked(ResponseType(down[i].type), 0)
      BY <1>2, <3>3 DEF Due
    <3> QED
      BY <3>1, <3>3, <3>4 DEF Asked
  <2> QED
    BY <2>1
<1>5. ASSUME NEW i \in Commands, NEW j \in Commands PROVE i = j
  <2>1. i \in 1 .. Len(down) /\ j \in 1 .. Len(down)
    BY <1>4
  <2>2. ~(j > i) /\ ~(i > j)
    BY <1>4 DEF SessionInv, LinkInv, NewestLast
  <2> QED
    BY <1>3, <2>1, <2>2
<1>6. CASE Commands = {}
  <2>1. Cardinality(Commands) = 0
    BY <1>6, FS_EmptySet
  <2> QED
    BY <2>1
<1>7. CASE Commands # {}
  <2>1. PICK i : i \in Commands
    BY <1>7
  <2>2. Commands = {i}
    BY <1>5, <2>1
  <2>3. Cardinality(Commands) = 1
    BY <2>2, FS_Singleton
  <2>4. dev.rsp = NoResponse
    <3>1. SUFFICES ASSUME dev.rsp # NoResponse PROVE FALSE
      OBVIOUS
    <3>2. dev.rsp \in Replies
      BY <1>3, <3>1 DEF DevOK, Devices
    <3>3. ~Answering(dev.rsp.type, 0)
      BY <1>2, <3>2 DEF Due, Replies
    <3>4. dev.rsp.id = 1
      BY <3>1, <3>2, <3>3 DEF Answering, Replies
    <3>5. NoneAsked
      BY <3>1, <3>4 DEF SessionInv, LinkInv, NewestLast
    <3> QED
      BY <1>4, <2>1, <3>5 DEF NoneAsked
  <2> QED
    BY <2>3, <2>4
<1> QED
  BY <1>6, <1>7

\* RepliesAreOwn of the client: whatever is lost, answered late or unplugged, the
\* acknowledgement a session starts on is that of its own START, and unless a wait gave
\* up too early every awaited reply answers the command just sent and no second
\* command is under way before the first statistics poll.
THEOREM TakesOwnReplies == Spec => []RepliesAreOwn
<1>1. Init => SessionInv
  BY InitSession
<1>2. SessionInv /\ [Next]_vars => SessionInv'
  BY NextSession
<1>3. SessionInv => RepliesAreOwn
  BY OnlyNewest DEF RepliesAreOwn, SessionInv, OwnInv
<1> QED
  BY <1>1, <1>2, <1>3, PTL DEF Spec

-----------------------------------------------------------------------------
(* Which commands are on their way, and what they leave the device doing. *)

Named(c, k) == \E i \in 1 .. Len(down) : down[i].type = c /\ down[i].id = k
Sent(c) == Named(c, 0) \/ Named(c, 1)
OnlySent(S) == \A c \in CommandTypes : Sent(c) => c \in S

NoNewNames == \A c \in CommandTypes, k \in {0, 1} : Named(c, k)' => Named(c, k)

LEMMA NoNewInPart ==
  ASSUME LinkInv, down' \in Seq(Packets), Part(down', down)
  PROVE  NoNewNames
<1>1. PICK a \in 0 .. Len(down) : Len(down') + a <= Len(down) /\ \A i \in 1 .. Len(down') : down'[i] = down[a + i]
  BY DEF Part
<1>2. Len(down) \in Nat /\ Len(down') \in Nat
  BY LenProperties DEF LinkInv, LinkTypes
<1>3. \A i \in 1 .. Len(down') : a + i \in 1 .. Len(down)
  BY <1>1, <1>2
<1> QED
  BY <1>1, <1>3 DEF NoNewNames, Named

\* Only a write names a command that was not named.
LEMMA OthersNameNothing ==
  ASSUME LinkInv, \/ Outside \/ OpenPort \/ down' = down
                  \/ /\ frame_num \in Nat
                     /\ down' = Append(down, [type |-> "FEATURE", fn |-> frame_num, id |-> 0])
  PROVE  NoNewNames
<1>1. down \in Seq(Packets) /\ Len(down) \in Nat /\ <<>> \in Seq(Packets)
  BY LenProperties DEF LinkInv, LinkTypes
<1>2. CASE down' = down
  BY <1>2 DEF NoNewNames, Named
<1>3. CASE down' = <<>>
  BY <1>1, <1>3, PartRefl, NoNewInPart
<1>4. CASE DevTake
  <2>1. down # <<>> /\ down' = Tail(down)
    BY <1>4 DEF DevTake
  <2> QED
    BY <2>1, DownHead, NoNewInPart
<1>5. CASE LoseDown
  <2>1. PICK n \in 1 .. 2 : n <= Len(down) /\ down' = SubSeq(down, n + 1, Len(down))
    BY <1>5 DEF LoseDown
  <2>2. n \in 0 .. Len(down)
    BY <1>1, <2>1
  <2> QED
    BY <1>1, <2>1, <2>2, PartOfDown, NoNewInPart
<1>6. CASE OpenPort
  <2>1. PICK n \in 0 .. Len(down) : down' = SubSeq(down, 1, n)
    BY <1>6 DEF OpenPort
  <2> QED
    BY <1>1, <2>1, PartOfDown, NoNewInPart
<1>7. CASE frame_num \in Nat /\ down' = Append(down, [type |-> "FEATURE", fn |-> frame_num, id |-> 0])
  <2> DEFINE p == [type |-> "FEATURE", fn |-> frame_num, id |-> 0]
  <2>1. p \in Packets /\ p.type \notin CommandTypes
    BY <1>7 DEF Packets, CommandTypes
  <2>2. down' = Append(down, p)
    BY <1>7
  <2> HIDE DEF p
  <2>3. \A i \in 1 .. Len(down') : \/ i \in 1 .. Len(down) /\ down'[i] = down[i]
                                   \/ down'[i].type \notin CommandTypes
    BY <1>1, <2>1, <2>2, DownAppends
  <2> QED
    BY <2>3 DEF NoNewNames, Named
<1> QED
  BY <1>2, <1>3, <1>4, <1>5, <1>6, <1>7
     DEF Outside, DevStep, DevAnswer, DevDecide, LoseUp, Unplug, Replug, Sigint, linkVars

LEMMA WriteNames ==
  ASSUME LinkInv, NEW p \in Packets, p.id = 1, Write(p)
  PROVE  /\ \A c \in CommandTypes : Named(c, 0)' => Sent(c)
         /\ \A c \in CommandTypes : Named(c, 1)' => (conn = "good" /\ c = p.type) \/ (conn # "good" /\ Named(c, 1))
         /\ \A c \in CommandTypes : Sent(c) => Sent(c)'
         /\ conn = "good" => Named(p.type, 1)'
<1> DEFINE a == Aged(down)
           w == Append(a, p)
<1>1. down \in Seq(Packets) /\ down' = IF conn = "good" THEN w ELSE down
  BY DEF LinkInv, LinkTypes, Write
<1>2. /\ a \in Seq(Packets) /\ Len(a) = Len(down)
      /\ \A i \in 1 .. Len(down) : a[i].type = down[i].type /\ a[i].id = 0
  BY <1>1, AgedPackets
<1>3. /\ w \in Seq(Packets) /\ Len(w) = Len(down) + 1 /\ Len(down) \in Nat /\ w[Len(down) + 1] = p
      /\ \A i \in 1 .. Len(down) : w[i].type = down[i].type /\ w[i].id = 0
      /\ \A i \in 1 .. Len(w) : i \in 1 .. Len(down) \/ i = Len(down) + 1
  BY <1>2, DownAppends
<1> HIDE DEF a, w
<1>4. CASE conn # "good"
  BY <1>1, <1>4 DEF Named, Sent
<1>5. CASE conn = "good"
  <2>1. down' = w /\ Len(down) + 1 \in 1 .. Len(w) /\ \A i \in 1 .. Len(down) : i \in 1 .. Len(w)
    BY <1>1, <1>3, <1>5
  <2>2. \A i \in 1 .. Len(down) : down[i].id = 0 \/ down[i].id = 1
    <3>1. \A i \in 1 .. Len(down) : down[i] \in Packets
      BY <1>1, LenProperties
    <3> QED
      BY <3>1 DEF Packets
  <2>3. ASSUME NEW c \in CommandTypes, Named(c, 0)' PROVE Sent(c)
    <3>1. PICK i \in 1 .. Len(w) : w[i].type = c /\ w[i].id = 0
      BY <2>1, <2>3 DEF Named
    <3>2. i \in 1 .. Len(down)
      BY <1>3, <3>1
    <3> QED
      BY <1>3, <2>2, <3>1, <3>2 DEF Named, Sent
  <2>4. ASSUME NEW c \in CommandTypes, Named(c, 1)' PROVE c = p.type
    <3>1. PICK i \in 1 .. Len(w) : w[i].type = c /\ w[i].id = 1
      BY <2>1, <2>4 DEF Named
    <3>2. i = Len(down) + 1
      BY <1>3, <3>1
    <3> QED
      BY <1>3, <3>1, <3>2
  <2>5. ASSUME NEW c \in CommandTypes, Sent(c) PROVE Sent(c)'
    <3>1. PICK i \in 1 .. Len(down) : down[i].type = c
      BY <2>5 DEF Named, Sent
    <3>2. w[i].type = c /\ w[i].id = 0 /\ i \in 1 .. Len(w)
      BY <1>3, <2>1, <3>1
    <3> QED
      BY <2>1, <3>2 DEF Named, Sent
  <2>6. Named(p.type, 1)'
    BY <1>3, <2>1 DEF Named
  <2> QED
    BY <1>5, <2>3, <2>4, <2>5, <2>6
<1> QED
  BY <1>4, <1>5

\* The model runs on the client's geometry; the acknowledgement of a START finds the
\* device streaming; only polls follow it, and no START follows a STOP.
StopInv ==
  /\ pc \in Loop \/ (cmd = "STOP" /\ pc = "SEND") => OnlySent({"READ_STATS"})
  /\ cmd \in {"STOP", FinalStats} => OnlySent({"READ_STATS", "STOP"})
  /\ pc = "WAIT" /\ cmd = "START" =>
       /\ \A c \in CommandTypes : Named(c, 1) => c = "START"
       /\ Answering("ACK", 1) \/ Answered("ACK", 1) => dev.stream
  /\ pc \in Loop /\ conn = "good" => dev.stream
  /\ conn = "good" /\ (pc \in Loop \/ (cmd = "START" /\ pc \in {"SEND", "WAIT"})) => geometry = "same"
  /\ faults = 0 =>
       /\ conn # "dead"
       /\ cmd = FinalStats \/ (cmd = "STOP" /\ pc = "WAIT") => ~dev.stream \/ Sent("STOP")

Acked == Answering("ACK", 1) \/ Answered("ACK", 1)

StopSession == StopInv /\ geometry \in {"same", "other"}

LEMMA AckedKept ==
  ASSUME LinkInv, Outside, ~DevTake, Acked'
  PROVE  Acked /\ dev'.stream = dev.stream
<1>1. /\ down \in Seq(Packets) /\ up \in Seq(Replies \cup Events) /\ DevOK(dev) /\ dev \in Devices
  BY DEF LinkInv, LinkTypes, DevOK
<1>2. CASE DevAnswer
  <2>1. /\ dev.rsp # NoResponse /\ dev.rsp \in Replies /\ dev' = [dev EXCEPT !.rsp = NoResponse]
        /\ up' = IF conn = "good" THEN up \o <<dev.rsp>> ELSE up
    BY <1>1, <1>2 DEF DevAnswer, Upward, Devices
  <2>2. dev'.rsp = NoResponse /\ dev'.stream = dev.stream
    BY <1>1, <2>1 DEF Devices
  <2>3. PICK i \in 1 .. Len(up') : IsReply(up'[i]) /\ up'[i].type = "ACK" /\ up'[i].id = 1
    BY <2>2 DEF Acked, Answering, Answered, IsReply
  <2>4. (i \in 1 .. Len(up) /\ up'[i] = up[i]) \/ up'[i] = dev.rsp
    BY <1>1, <2>1, <2>3, UpAppends
  <2> QED
    BY <2>1, <2>2, <2>3, <2>4 DEF Acked, Answering, Answered
<1>3. CASE DevDecide
  <2>1. dev' = Decide(dev) /\ dev'.rsp = dev.rsp /\ dev'.stream = dev.stream
    BY <1>1, <1>3, DecideKeeps DEF DevDecide
  <2>2. Event(dev).type = "EVT"
    BY DEF Event
  <2>3. up' = up \/ up' = up \o <<Event(dev)>>
    BY <1>1, <1>3, ConcatEmptySeq DEF DevDecide, Upward
  <2>4. CASE Answering("ACK", 1)'
    BY <2>1, <2>4 DEF Acked, Answering
  <2>5. CASE Answered("ACK", 1)'
    <3>1. PICK i \in 1 .. Len(up') : IsReply(up'[i]) /\ up'[i].type = "ACK" /\ up'[i].id = 1
      BY <2>5 DEF Answered, IsReply
    <3>2. CASE up' = up
      BY <2>1, <3>1, <3>2 DEF Acked, Answered
    <3>3. CASE up' = up \o <<Event(dev)>>
      <4>1. /\ Len(up') = Len(up) + 1 /\ Len(up) \in Nat
            /\ \A j \in 1 .. Len(up) : up'[j] = up[j]
            /\ up'[Len(up) + 1] = Event(dev)
        BY <1>1, <3>3, LenProperties
      <4>2. i \in 1 .. Len(up)
        BY <2>2, <3>1, <4>1
      <4> QED
        BY <2>1, <3>1, <4>1, <4>2 DEF Acked, Answered
    <3> QED
      BY <2>3, <3>2, <3>3
  <2> QED
    BY <2>4, <2>5 DEF Acked
<1>4. CASE LoseUp
  <2>1. PICK n \in 1 .. 2 : n <= Len(up) /\ up' = SubSeq(up, n + 1, Len(up))
    BY <1>4 DEF LoseUp
  <2>2. n \in 0 .. Len(up) /\ dev' = dev
    BY <1>1, <1>4, <2>1, LenProperties DEF LoseUp
  <2>3. up' \in Seq(Replies \cup Events) /\ Part(up', up)
    BY <1>1, <2>1, <2>2, PartOfUp
  <2> QED
    BY <2>2, <2>3, PartStillAnswered DEF Acked, Answering
<1>5. CASE Unplug
  <2>1. up' = <<>> /\ dev' \in {dev, DevPowerUp}
    BY <1>5 DEF Unplug
  <2>2. Answering("ACK", 1)' /\ DevPowerUp.rsp = NoResponse
    BY <2>1 DEF Acked, Answered, DevPowerUp
  <2> QED
    BY <2>1, <2>2 DEF Acked, Answering
<1>6. CASE LoseDown \/ Replug \/ Sigint
  <2>1. up' = up /\ dev' = dev
    BY <1>6 DEF LoseDown, Replug, Sigint, linkVars
  <2> QED
    BY <2>1 DEF Acked, Answering, Answered
<1> QED
  BY <1>2, <1>3, <1>4, <1>5, <1>6 DEF Outside, DevStep

LEMMA KeptNames ==
  ASSUME NoNewNames
  PROVE  /\ \A S : OnlySent(S) => OnlySent(S)'
         /\ (\A c \in CommandTypes : Named(c, 1) => c = "START") => (\A c \in CommandTypes : Named(c, 1)' => c = "START")
BY DEF NoNewNames, OnlySent, Sent

LEMMA NoneAskedNone ==
  ASSUME NoneAsked
  PROVE  \A S : OnlySent(S)
BY DEF NoneAsked, IsCommand, OnlySent, Sent, Named

LEMMA OutsideKeepsStop ==
  ASSUME SessionInv, StopSession, Outside, ~DevTake
  PROVE  StopSession'
<1>1. NoNewNames
  BY OthersNameNothing DEF SessionInv
<1>2. UNCHANGED <<pc, cmd>> /\ (conn' = conn \/ conn' = "dead")
  BY DEF Outside, DevStep, DevTake, DevAnswer, DevDecide, LoseDown, LoseUp, Unplug, Replug, Sigint,
         linkVars, hostVars
<1>3. faults \in Nat /\ (faults' = faults \/ faults' = faults + 1)
  BY DEF Outside, DevStep, DevTake, DevAnswer, DevDecide, LoseDown, LoseUp, Unplug, Replug, Sigint,
         histVars, Fault, SessionInv, HostTypes
<1>4. Acked' => Acked /\ dev'.stream = dev.stream
  BY AckedKept DEF SessionInv
<1>5. (conn' = "good" => dev'.stream = dev.stream /\ geometry' = geometry) /\ geometry' \in {"same", "other"}
  <2>1. DevOK(dev) /\ dev \in Devices
    BY DEF SessionInv, LinkInv, LinkTypes, DevOK
  <2>2. CASE DevAnswer
    BY <2>1, <2>2 DEF DevAnswer, Devices, StopSession
  <2>3. CASE DevDecide
    BY <2>1, <2>3, DecideKeeps DEF DevDecide, StopSession
  <2>4. CASE Unplug
    BY <2>4 DEF Unplug
  <2>5. CASE LoseDown \/ LoseUp \/ Replug \/ Sigint
    BY <2>5 DEF LoseDown, LoseUp, Replug, Sigint, linkVars, StopSession
  <2> QED
    BY <2>2, <2>3, <2>4, <2>5 DEF Outside, DevStep
<1>6. faults' = 0 => faults = 0 /\ conn' = conn /\ down' = down /\ dev'.stream = dev.stream
  <2>1. DevOK(dev) /\ dev \in Devices
    BY DEF SessionInv, LinkInv, LinkTypes, DevOK
  <2>2. CASE DevAnswer
    BY <1>3, <2>1, <2>2 DEF DevAnswer, Devices, hostVars, histVars
  <2>3. CASE DevDecide
    BY <1>3, <2>1, <2>3, DecideKeeps DEF DevDecide, hostVars, histVars
  <2>4. CASE LoseDown \/ LoseUp \/ Unplug
    BY <1>3, <2>4 DEF LoseDown, LoseUp, Unplug, Fault
  <2>5. CASE Replug \/ Sigint
    BY <1>3, <2>5 DEF Replug, Sigint, linkVars, hostVars, histVars
  <2> QED
    BY <2>2, <2>3, <2>4, <2>5 DEF Outside, DevStep
<1>7. faults' = 0 => (Sent("STOP") => Sent("STOP")')
  BY <1>6 DEF Sent, Named
<1>8. geometry' = geometry \/ conn' # "good"
  BY <1>5
<1>9. (pc' \in Loop /\ conn' = "good" => dev'.stream)
  BY <1>2, <1>5 DEF StopSession, StopInv
<1>10. (pc' = "WAIT" /\ cmd' = "START" => (Acked' => dev'.stream))
  BY <1>2, <1>4 DEF StopSession, StopInv, Acked
<1>11. (conn' = "good" /\ (pc' \in Loop \/ (cmd' = "START" /\ pc' \in {"SEND", "WAIT"})) => geometry' = "same")
  BY <1>2, <1>8 DEF StopSession, StopInv
<1>12. faults' = 0 =>
         /\ conn' # "dead"
         /\ cmd' = FinalStats \/ (cmd' = "STOP" /\ pc' = "WAIT") => ~dev'.stream \/ Sent("STOP")'
  BY <1>2, <1>6, <1>7 DEF StopSession, StopInv
<1> QED
  BY <1>1, <1>2, <1>5, <1>9, <1>10, <1>11, <1>12, KeptNames DEF StopSession, StopInv, Acked

\* When the device takes a command, only the newest one leaves it with the newest reply.
LEMMA AckIsOfTaken ==
  ASSUME LinkInv, DevTake, Head(down).type # "FEATURE", Acked'
  PROVE  Head(down).id = 1
<1> DEFINE p == Head(down)
<1>1. /\ down # <<>> /\ dev' = Receive(dev, p) /\ DevOK(dev) /\ LinkInv
      /\ p = down[1] /\ 1 \in 1 .. Len(down) /\ p \in Packets
  BY DownHead DEF DevTake, LinkInv, LinkTypes
<1>2. p.type \in CommandTypes
  BY <1>1 DEF Packets
<1>3. dev'.rsp.id = p.id
  <2>1. Receive(dev, p).rsp = Response(dev, p) /\ Response(dev, p).id = p.id
    BY <1>1, <1>2, CommandKeeps
  <2> QED
    BY <1>1, <2>1
<1>4. ~NoneAsked
  BY <1>1, <1>2 DEF NoneAsked, IsCommand
<1>5. (dev.rsp # NoResponse => dev.rsp.id # 1) /\ \A i \in 1 .. Len(up) : IsReply(up[i]) => up[i].id # 1
  BY <1>4 DEF LinkInv, NewestLast
<1>6. CASE Answered("ACK", 1)'
  <2>1. up \in Seq(Replies \cup Events) /\ (dev.rsp # NoResponse => dev.rsp \in Replies)
    BY DEF LinkInv, LinkTypes, DevOK, Devices
  <2>2. PICK i \in 1 .. Len(up') : IsReply(up'[i]) /\ up'[i].id = 1
    BY <1>6 DEF Answered, IsReply
  <2>3. up' = up \/ (dev.rsp # NoResponse /\ up' = Append(up, dev.rsp))
    <3>1. dev.rsp # NoResponse => up \o <<dev.rsp>> = Append(up, dev.rsp)
      BY <2>1, UpAppends
    <3> QED
      BY <2>1, <3>1, ConcatEmptySeq DEF DevTake, Upward, Overtaken
  <2>4. CASE up' = up
    BY <1>5, <2>2, <2>4
  <2>5. CASE dev.rsp # NoResponse /\ up' = Append(up, dev.rsp)
    <3>1. (i \in 1 .. Len(up) /\ up'[i] = up[i]) \/ up'[i] = dev.rsp
      BY <2>1, <2>2, <2>5, UpAppends
    <3> QED
      BY <1>5, <2>2, <2>5, <3>1
  <2> QED
    BY <2>3, <2>4, <2>5
<1>7. CASE Answering("ACK", 1)'
  BY <1>3, <1>7 DEF Answering
<1> QED
  BY <1>6, <1>7 DEF Acked

LEMMA TakeKeepsStop ==
  ASSUME SessionInv, StopSession, DevTake
  PROVE  StopSession'
<1> DEFINE p == Head(down)
<1>1. /\ down # <<>> /\ down' = Tail(down) /\ dev' = Receive(dev, p) /\ p \in Packets
      /\ UNCHANGED <<pc, cmd, conn, faults, geometry>> /\ DevOK(dev) /\ LinkInv
      /\ p = down[1] /\ 1 \in 1 .. Len(down)
  BY DownHead DEF DevTake, hostVars, histVars, SessionInv, LinkInv, LinkTypes
<1>2. NoNewNames
  BY <1>1, OthersNameNothing DEF Outside, DevStep
<1>s. p.type # "STOP" => (Sent("STOP") => Sent("STOP")')
  <2>1. \A i \in 1 .. Len(down) : i = 1 \/ (i - 1 \in 1 .. Len(Tail(down)) /\ Tail(down)[i - 1] = down[i])
    <3>1. ASSUME NEW i \in 1 .. Len(down), i # 1 PROVE i - 1 \in 1 .. Len(Tail(down)) /\ Tail(down)[i - 1] = down[i]
      <4>1. Len(Tail(down)) + 1 = Len(down) /\ Len(Tail(down)) \in Nat
        BY <1>1, DownHead
      <4>2. i - 1 \in 1 .. Len(Tail(down)) /\ (i - 1) + 1 = i
        BY <3>1, <4>1
      <4> QED
        BY <1>1, <4>2, DownHead
    <3> QED
      BY <3>1
  <2> QED
    BY <1>1, <2>1 DEF Sent, Named
<1>3. CASE p.type = "FEATURE"
  <2>1. dev' = Commit(dev, p.fn) /\ p.fn \in Nat
    BY <1>1, <1>3 DEF Packets, Receive, CommandTypes
  <2>2. dev'.rsp = dev.rsp /\ dev'.stream = dev.stream
    BY <1>1, <2>1, CommitKeeps
  <2>3. up' = up
    BY <1>1, <1>3, ConcatEmptySeq DEF DevTake, Upward, Overtaken, Answers, SessionInv, LinkInv, LinkTypes
  <2>4. Acked' => Acked
    BY <2>2, <2>3 DEF Acked, Answering, Answered
  <2>5. Sent("STOP") => Sent("STOP")'
    BY <1>3, <1>s
  <2> HIDE DEF p
  <2> QED
    BY <1>1, <1>2, <2>2, <2>4, <2>5, KeptNames DEF StopSession, StopInv, Acked
<1>4. CASE p.type # "FEATURE"
  <2>1. p.type \in CommandTypes
    BY <1>1, <1>4 DEF Packets
  <2>2. /\ dev'.rsp.id = p.id
        /\ dev'.stream = IF p.type = "START" THEN TRUE ELSE IF p.type \in {"RESET", "STOP"} THEN FALSE ELSE dev.stream
    <3>1. /\ Receive(dev, p).rsp = Response(dev, p) /\ Response(dev, p).id = p.id
          /\ Receive(dev, p).stream = IF p.type = "START" THEN TRUE
                                      ELSE IF p.type \in {"RESET", "STOP"} THEN FALSE ELSE dev.stream
      BY <1>1, <2>1, CommandKeeps
    <3> QED
      BY <1>1, <3>1
  <2>3. Named(p.type, p.id) /\ p.id \in {0, 1}
    BY <1>1 DEF Named, Packets
  <2>4. Sent(p.type)
    BY <2>3 DEF Sent
  <2>5. Acked' => p.id = 1
    BY <1>1, <1>4, AckIsOfTaken
  <2> HIDE DEF p
  <2>6. pc = "WAIT" /\ cmd = "START" => (Acked' => dev'.stream)
    BY <2>1, <2>2, <2>3, <2>5 DEF StopSession, StopInv
  <2>7. pc \in Loop /\ conn = "good" => dev'.stream
    BY <2>1, <2>2, <2>4 DEF StopSession, StopInv, OnlySent
  <2>8. faults = 0 /\ (cmd = FinalStats \/ (cmd = "STOP" /\ pc = "WAIT")) => ~dev'.stream \/ Sent("STOP")'
    <3>1. CASE p.type = "STOP"
      BY <2>2, <3>1
    <3>2. CASE p.type # "STOP"
      <4>1. cmd \in {"STOP", FinalStats} => p.type = "READ_STATS"
        BY <2>1, <2>4, <3>2 DEF StopSession, StopInv, OnlySent
      <4>2. cmd \in {"STOP", FinalStats} => dev'.stream = dev.stream
        BY <2>2, <4>1
      <4> QED
        BY <1>s, <3>2, <4>2 DEF StopSession, StopInv
    <3> QED
      BY <3>1, <3>2
  <2> QED
    BY <1>1, <1>2, <2>6, <2>7, <2>8, KeptNames DEF StopSession, StopInv, Acked
<1> QED
  BY <1>3, <1>4

LEMMA QuietKeepsStop ==
  ASSUME SessionInv, StopSession, Open \/ OpenFails \/ Wake \/ Abandon \/ WaitOther \/ Poll
  PROVE  StopSession'
<1>1. LinkInv /\ PortInv
  BY DEF SessionInv
<1>2. CASE Open
  <2>1. /\ pc' = "SEND" /\ cmd' = "PING" /\ conn' = "good" /\ geometry' = geometry
    BY <1>2 DEF Open, OpenPort
  <2> QED
    BY <2>1 DEF StopSession, StopInv, Loop, FinalStats
<1>3. CASE OpenFails \/ Wake \/ Abandon
  <2>1. /\ pc \in {"OPEN", "SLEEP"} /\ cmd' = cmd /\ pc' \in {"OPEN", "SLEEP", "DONE"} /\ geometry' = geometry
        /\ conn' = conn /\ faults' = faults
    BY <1>3 DEF OpenFails, Wake, Abandon, Stay, linkVars, histVars
  <2> QED
    BY <1>1, <2>1 DEF StopSession, StopInv, Loop, FinalStats, Handshake, PortInv
<1>4. CASE WaitOther \/ Poll
  <2>1. /\ down' = down /\ dev' = dev /\ up # <<>> /\ up' = Tail(up)
        /\ UNCHANGED <<pc, cmd, conn, geometry, faults>>
    BY <1>4 DEF WaitOther, Poll, Readable, hostVars
  <2>2. Acked' => Acked
    BY <1>1, <2>1, UpTail, PartStillAnswered DEF Acked, Answering
  <2>3. NoNewNames /\ (Sent("STOP") => Sent("STOP")')
    BY <1>1, <2>1, OthersNameNothing DEF Sent, Named
  <2> QED
    BY <2>1, <2>2, <2>3, KeptNames DEF StopSession, StopInv, Acked
<1> QED
  BY <1>2, <1>3, <1>4

LEMMA LoopKeepsStop ==
  ASSUME SessionInv, StopSession, Count \/ Shutdown \/ SendFrame
  PROVE  StopSession'
<1>1. LinkInv /\ PortInv /\ frame_num \in Nat /\ faults \in Nat
  BY DEF SessionInv, HostTypes
<1>2. /\ dev' = dev /\ geometry' = geometry /\ pc \in Loop
      /\ \/ down' = down
         \/ down' = Append(down, [type |-> "FEATURE", fn |-> frame_num, id |-> 0])
      /\ \/ /\ conn' = conn /\ faults' = faults
            /\ \/ pc' \in Loop /\ cmd' = cmd
               \/ pc' = "SEND" /\ cmd' = "STOP"
         \/ conn' = "none" /\ pc' = "OPEN" /\ cmd' = cmd
  BY DEF Count, Shutdown, SendFrame, Stay, Loop, linkVars, histVars
<1>3. NoNewNames
  BY <1>1, <1>2, OthersNameNothing
<1>4. OnlySent({"READ_STATS"})' /\ OnlySent({"READ_STATS", "STOP"})'
  <2>1. OnlySent({"READ_STATS"}) 
    BY <1>2 DEF StopSession, StopInv
  <2>2. OnlySent({"READ_STATS"})'
    BY <1>3, <2>1, KeptNames
  <2> QED
    BY <2>2 DEF OnlySent
<1> QED
  BY <1>1, <1>2, <1>4 DEF StopSession, StopInv, PortInv, Loop, FinalStats

LEMMA PollKeepsStop ==
  ASSUME SessionInv, StopSession, AfterPoll
  PROVE  StopSession'
<1>1. LinkInv /\ PortInv /\ DevOK(dev) /\ cmd = "START" /\ OnlySent({"READ_STATS"})
  BY DEF SessionInv, LinkInv, LinkTypes, AfterPoll, PortInv, StopSession, StopInv, Loop
<1>2. /\ UNCHANGED <<cmd, conn, geometry, faults>> /\ pc = "POLL" /\ pc' = "LOOP"
  BY DEF AfterPoll, Stay
<1>3. OnlySent({"READ_STATS"})' /\ dev'.stream = dev.stream
  <2>1. CASE UNCHANGED <<down, dev>>
    BY <1>1, <2>1 DEF OnlySent, Sent, Named
  <2>2. CASE Write(Packet("READ_STATS"))
    <3> DEFINE p == Packet("READ_STATS")
    <3>1. p \in Packets /\ p.type \in CommandTypes /\ p.id = 1 /\ p.type = "READ_STATS" /\ Write(p)
      BY <2>2 DEF Packet, Packets, CommandTypes, SessionInv, HostTypes
    <3> HIDE DEF p
    <3>2. /\ \A c \in CommandTypes : Named(c, 0)' => Sent(c)
          /\ \A c \in CommandTypes : Named(c, 1)' => c = "READ_STATS" \/ Named(c, 1)
      BY <1>1, <3>1, WriteNames
    <3>3. OnlySent({"READ_STATS"})'
      BY <1>1, <3>2 DEF OnlySent, Sent
    <3>4. dev'.stream = dev.stream
      BY <1>1, <3>1 DEF Write, AgedRsp, DevOK, Devices
    <3> QED
      BY <3>3, <3>4
  <2> QED
    BY <2>1, <2>2 DEF AfterPoll
<1> QED
  BY <1>1, <1>2, <1>3 DEF StopSession, StopInv, Loop, FinalStats

LEMMA SendKeepsStop ==
  ASSUME SessionInv, StopSession, SendCommand
  PROVE  StopSession'
<1>1. /\ LinkInv /\ PortInv /\ DevOK(dev) /\ faults \in Nat /\ cmd \in CommandTypes /\ conn \in {"good", "dead"}
      /\ pc = "SEND" /\ UNCHANGED <<cmd, geometry>>
  BY DEF SessionInv, LinkInv, LinkTypes, HostTypes, PortInv, SendCommand, Stay, Close
<1>2. CASE conn = "good" /\ Write(Packet(cmd)) /\ pc' = "WAIT" /\ conn' = conn /\ faults' = faults
  <2> DEFINE p == Packet(cmd)
  <2>1. p \in Packets /\ p.type = cmd /\ p.id = 1 /\ Write(p)
    BY <1>1, <1>2 DEF Packet, Packets, SessionInv, HostTypes
  <2> HIDE DEF p
  <2>2. /\ \A c \in CommandTypes : Named(c, 0)' => Sent(c)
        /\ \A c \in CommandTypes : Named(c, 1)' => c = cmd
        /\ \A c \in CommandTypes : Sent(c) => Sent(c)'
        /\ Named(cmd, 1)'
    BY <1>1, <1>2, <2>1, WriteNames
  <2>3. dev'.stream = dev.stream
    BY <1>1, <2>1 DEF Write, AgedRsp, DevOK, Devices
  <2>4. ~Acked'
    <3>1. LinkInv'
      BY <1>1, <1>2, <2>1, WrittenGone
    <3>2. ~NoneAsked'
      BY <1>1, <2>2 DEF NoneAsked, IsCommand, Named
    <3> QED
      BY <3>1, <3>2 DEF LinkInv, NewestLast, Acked, Answering, Answered
  <2>5. cmd \in {"STOP", FinalStats} => OnlySent({"READ_STATS", "STOP"})'
    <3>1. \A c \in CommandTypes : Sent(c)' => c = cmd \/ Sent(c)
      BY <2>2 DEF Sent
    <3> QED
      BY <3>1 DEF StopSession, StopInv, OnlySent, FinalStats
  <2>6. /\ cmd = "STOP" => Sent("STOP")'
        /\ Sent("STOP") => Sent("STOP")'
    BY <1>1, <2>2 DEF Sent, CommandTypes
  <2> QED
    BY <1>1, <1>2, <2>2, <2>3, <2>4, <2>5, <2>6 DEF StopSession, StopInv, Acked, Loop, FinalStats
<1>3. CASE conn' = "none" /\ pc' = "SLEEP" /\ cmd \in Handshake
  BY <1>1, <1>3 DEF StopSession, StopInv, Loop, Handshake, FinalStats
<1>4. CASE /\ cmd \notin Handshake /\ conn' = conn /\ pc' = "WAIT" /\ down' = down /\ dev' = dev
           /\ \/ faults' = faults + 1
              \/ conn = "dead" /\ faults' = faults
  <2>1. faults' # 0
    BY <1>1, <1>4 DEF StopSession, StopInv
  <2>2. NoNewNames
    BY <1>1, <1>4, OthersNameNothing
  <2>3. cmd \in {"STOP", FinalStats} => OnlySent({"READ_STATS", "STOP"})'
    BY <2>2, KeptNames DEF StopSession, StopInv
  <2> QED
    BY <1>1, <1>4, <2>1, <2>3 DEF StopSession, StopInv, Loop, Handshake
<1> QED
  BY <1>1, <1>2, <1>3, <1>4 DEF SendCommand, Stay, Close, ClosePort, Fault

LEMMA MatchKeepsStop ==
  ASSUME SessionInv, StopSession, WaitMatch
  PROVE  StopSession'
<1>1. /\ pc = "WAIT" /\ ~g_stop /\ up # <<>> /\ conn = "good" /\ Matches(Head(up))
      /\ UNCHANGED <<faults, geometry>> /\ down' = down /\ dev' = dev
      /\ LinkInv /\ cmd \in CommandTypes /\ HandshakeInv
  BY DEF WaitMatch, Readable, SessionInv, HostTypes, AnswerInv
<1>2. \/ cmd \in {"READ_VERSION", FinalStats} /\ conn' = "none" /\ cmd' = cmd /\ pc' \in {"SLEEP", "DONE"}
      \/ /\ conn' = conn
         /\ \/ cmd = "PING" /\ pc' = "SEND" /\ cmd' = "RESET"
            \/ cmd = "RESET" /\ pc' = "SEND" /\ cmd' = "READ_VERSION"
            \/ cmd = "READ_VERSION" /\ pc' = "SEND" /\ cmd' = "START" /\ ~Refused
            \/ cmd = "START" /\ pc' \in Loop /\ cmd' = cmd
            \/ cmd = "STOP" /\ pc' = "SEND" /\ cmd' = FinalStats
  BY DEF WaitMatch, Succeed, Close, ClosePort, Stay, FinalStats, Loop
<1>3. cmd = "START" => Answered("ACK", 1) /\ NoneAsked
  <2> SUFFICES ASSUME cmd = "START" PROVE Answered("ACK", 1) /\ NoneAsked
    OBVIOUS
  <2>1. Head(up) \in Replies \cup Events /\ Head(up) = up[1] /\ 1 \in 1 .. Len(up) /\ Head(up).type = "ACK"
    BY <1>1, UpTail DEF Matches, ResponseType
  <2>2. IsReply(Head(up)) /\ Head(up).id \in {0, 1}
    BY <2>1 DEF IsReply, Replies, Events
  <2>3. ~Due("ACK", 0)
    BY <1>1 DEF HandshakeInv, AllOwn, Own
  <2>4. Head(up).id = 1
    BY <2>1, <2>2, <2>3 DEF Due, Answered
  <2> QED
    BY <1>1, <2>1, <2>2, <2>4 DEF Answered, LinkInv, NewestLast
<1>4. NoNewNames /\ (Sent("STOP") => Sent("STOP")')
  BY <1>1, OthersNameNothing DEF Sent, Named
<1>5. CASE cmd \in {"READ_VERSION", FinalStats} /\ conn' = "none" /\ cmd' = cmd /\ pc' \in {"SLEEP", "DONE"}
  BY <1>1, <1>4, <1>5, KeptNames DEF StopSession, StopInv, Loop, FinalStats
<1>6. CASE conn' = conn /\ cmd \in {"PING", "RESET"} /\ pc' = "SEND" /\ cmd' \in {"RESET", "READ_VERSION"}
  BY <1>1, <1>6 DEF StopSession, StopInv, Loop, FinalStats
<1>7. CASE conn' = conn /\ cmd = "READ_VERSION" /\ pc' = "SEND" /\ cmd' = "START" /\ ~Refused
  BY <1>1, <1>7 DEF StopSession, StopInv, Loop, FinalStats, Refused
<1>8. CASE conn' = conn /\ cmd = "START" /\ pc' \in Loop /\ cmd' = cmd
  <2>1. OnlySent({"READ_STATS"})
    BY <1>3, <1>8, NoneAskedNone
  <2>2. OnlySent({"READ_STATS"})'
    BY <1>4, <2>1, KeptNames
  <2>3. dev.stream /\ geometry = "same"
    BY <1>1, <1>3, <1>8 DEF StopSession, StopInv
  <2> QED
    BY <1>1, <1>8, <2>2, <2>3 DEF StopSession, StopInv, Loop, FinalStats
<1>9. CASE conn' = conn /\ cmd = "STOP" /\ pc' = "SEND" /\ cmd' = FinalStats
  BY <1>1, <1>4, <1>9, KeptNames DEF StopSession, StopInv, Loop, FinalStats
<1> QED
  BY <1>2, <1>5, <1>6, <1>7, <1>8, <1>9

LEMMA TimeoutKeepsStop ==
  ASSUME SessionInv, StopSession, WaitTimeout
  PROVE  StopSession'
<1>1. /\ pc = "WAIT" /\ down' = down /\ dev' = dev /\ geometry' = geometry /\ LinkInv
      /\ faults \in Nat /\ (faults' = faults \/ faults' = faults + 1)
  BY DEF WaitTimeout, Fault, SessionInv, HostTypes
<1>2. \/ cmd = "PING" /\ pc' = "SEND" /\ conn' = conn /\ cmd' = cmd
      \/ cmd \in Handshake /\ conn' = "none" /\ pc' = "SLEEP" /\ cmd' = cmd
      \/ cmd = "STOP" /\ pc' = "SEND" /\ cmd' = FinalStats /\ conn' = conn
      \/ cmd = FinalStats /\ conn' = "none" /\ pc' = "DONE" /\ cmd' = cmd
  BY DEF WaitTimeout, Fail, Close, ClosePort, Stay
<1>3. NoNewNames /\ (Sent("STOP") => Sent("STOP")')
  BY <1>1, OthersNameNothing DEF Sent, Named
<1>4. CASE cmd \in Handshake /\ pc' \in {"SEND", "SLEEP"} /\ cmd' = cmd /\ (cmd = "PING" \/ pc' = "SLEEP") /\ conn' \in {conn, "none"}
  BY <1>1, <1>4 DEF StopSession, StopInv, Loop, FinalStats, Handshake
<1>5. CASE cmd \in {"STOP", FinalStats} /\ cmd' = FinalStats /\ pc' \in {"SEND", "DONE"} /\ conn' \in {conn, "none"}
  BY <1>1, <1>3, <1>5, KeptNames DEF StopSession, StopInv, Loop, FinalStats
<1> QED
  BY <1>2, <1>4, <1>5 DEF Handshake

LEMMA InitStop == Init => StopSession
BY DEF Init, StopSession, StopInv, Loop, FinalStats

LEMMA NextStop ==
  ASSUME SessionInv, StopSession, [Next]_vars
  PROVE  StopSession'
<1>1. CASE DevTake
  BY <1>1, TakeKeepsStop
<1>2. CASE Outside /\ ~DevTake
  BY <1>2, OutsideKeepsStop
<1>3. CASE HostStep
  BY <1>3, QuietKeepsStop, LoopKeepsStop, PollKeepsStop, SendKeepsStop, MatchKeepsStop, TimeoutKeepsStop DEF HostStep
<1>4. CASE UNCHANGED vars
  <2>1. UNCHANGED <<down, dev, up, pc, cmd, conn, geometry, faults>>
    BY <1>4 DEF vars, linkVars, hostVars, histVars
  <2> QED
    BY <2>1 DEF StopSession, StopInv, OnlySent, Sent, Named, Answering, Answered
<1> QED
  BY <1>1, <1>2, <1>3, <1>4 DEF Next, Outside, Finished

\* StoppedAtExit, and StreamsInStep and StreamsToOwnModel of InStep: while it streams,
\* the client feeds a device of its own geometry that is streaming unless
\* the port is gone, and a shutdown on a good link leaves it stopped.
THEOREM StopsTheDevice == Spec => [](StoppedAtExit /\ StreamsInStep /\ StreamsToOwnModel)
<1>1. Init => SessionInv /\ StopSession
  BY InitSession, InitStop
<1>2. SessionInv /\ StopSession /\ [Next]_vars => SessionInv' /\ StopSession'
  BY NextSession, NextStop
<1>3. SessionInv /\ StopSession => StoppedAtExit /\ StreamsInStep /\ StreamsToOwnModel
  <2> SUFFICES ASSUME SessionInv, StopSession PROVE StoppedAtExit /\ StreamsInStep /\ StreamsToOwnModel
    OBVIOUS
  <2>1. StoppedAtExit
    BY DEF StopSession, StopInv, StoppedAtExit, Sent, Named
  <2>2. StreamsInStep
    BY DEF SessionInv, PortInv, HostTypes, StopSession, StopInv, StreamsInStep, Loop
  <2>3. StreamsToOwnModel
    BY DEF StopSession, StopInv, StreamsToOwnModel
  <2> QED
    BY <2>1, <2>2, <2>3
<1> QED
  BY <1>1, <1>2, <1>3, PTL DEF Spec

-----------------------------------------------------------------------------
(***************************************************************************)
(* Client and device in step: while nothing is lost and their strides are  *)
(* the same they stream through the same windows and events, and whatever  *)
(* is lost an event is timed from the sending of its own frame.            *)
(*                                                                         *)
(* The frames handed to the link and not committed are on it, in order     *)
(* (FlowInv), so that the device and the reference have counted the same   *)
(* frames but for those; a count of frames determines the number of        *)
(* windows that have ended (CountedOnce), and either side's k-th window is *)
(* Win(k) (DevWindows, RefWindows).  The events read are those of the      *)
(* first windows, the rest are under way in order (EventsRead).  An event  *)
(* of an earlier run can only have been read before the session, as the    *)
(* first of all (Overheard, Heard).                                        *)
(***************************************************************************)

-----------------------------------------------------------------------------
(* Multiples and remainders. *)

LEMMA Remainders ==
  ASSUME NEW S \in Nat \ {0}, NEW q \in Nat, NEW y \in 0 .. S - 1
  PROVE  (q * S + y) % S = y
OBVIOUS

LEMMA Divide ==
  ASSUME NEW S \in Nat \ {0}, NEW x \in Nat
  PROVE  \E q \in Nat, y \in 0 .. S - 1 : x = q * S + y /\ x % S = y
<1> DEFINE d == x \div S
           m == x % S
<1>1. d \in Nat /\ m \in 0 .. S - 1
  OBVIOUS
<1>2. x % S = x - S * (x \div S)
  BY Z3T(60)
<1>3. x \div S = d /\ x % S = m
  OBVIOUS
<1> HIDE DEF d, m
<1>4. x = d * S + m
  BY <1>1, <1>2, <1>3
<1> QED
  BY <1>1, <1>3, <1>4

LEMMA Apart ==
  ASSUME NEW S \in Nat \ {0}, NEW p \in Nat, NEW q \in Nat, p < q
  PROVE  p * S + S <= q * S
<1>1. PICK d \in Nat : q = p + 1 + d
  <2>1. (q - p) - 1 \in Nat
    OBVIOUS
  <2> QED
    BY <2>1
<1>2. q * S = p * S + S + d * S /\ d * S \in Nat
  BY <1>1
<1> QED
  BY <1>2

\* Numbers less than L apart have slots of their own in a ring of L.
LEMMA OwnSlots ==
  ASSUME NEW L \in Nat \ {0}, NEW f \in Nat, NEW g \in Nat, f < g, g < f + L
  PROVE  f % L # g % L
<1> SUFFICES ASSUME f % L = g % L PROVE FALSE
  OBVIOUS
<1>1. PICK p \in Nat, y \in 0 .. L - 1 : f = p * L + y /\ f % L = y
  BY Divide
<1>2. PICK q \in Nat, z \in 0 .. L - 1 : g = q * L + z /\ g % L = z
  BY Divide
<1> DEFINE pl == p * L
           ql == q * L
<1>3. pl \in Nat /\ ql \in Nat
  OBVIOUS
<1>4. (p < q => pl + L <= ql) /\ (q < p => ql + L <= pl) /\ (p = q => pl = ql)
  BY Apart
<1>5. f = pl + y /\ g = ql + y
  BY <1>1, <1>2
<1> HIDE DEF pl, ql
<1> QED
  BY <1>3, <1>4, <1>5

-----------------------------------------------------------------------------
(* Windows. *)

Begin(k) == (k - 1) * WINDOW_STRIDE
EndOf(k) == (Begin(k) + WINDOW_LEN) - 1
Win(k) == [t \in 1 .. WINDOW_LEN |-> Begin(k) + (t - 1)]

\* After n frames k windows have ended.
Counted(n, k) == n < Begin(k + 1) + WINDOW_LEN /\ (k > 0 => n >= Begin(k) + WINDOW_LEN)

LEMMA Begins ==
  /\ \A k \in Nat : Begin(k + 1) \in Nat /\ Begin(k + 2) = Begin(k + 1) + WINDOW_STRIDE
  /\ Begin(1) = 0
  /\ \A j, k \in Nat : j < k => Begin(j + 1) < Begin(k + 1)
<1> USE DeviceAssumption
<1>1. ASSUME NEW k \in Nat PROVE Begin(k + 1) \in Nat /\ Begin(k + 2) = Begin(k + 1) + WINDOW_STRIDE
  <2>1. Begin(k + 1) = k * WINDOW_STRIDE /\ Begin(k + 2) = (k + 1) * WINDOW_STRIDE
    BY DEF Begin
  <2> QED
    BY <2>1
<1>2. Begin(1) = 0
  BY DEF Begin
<1>3. ASSUME NEW j \in Nat, NEW k \in Nat, j < k PROVE Begin(j + 1) < Begin(k + 1)
  <2>1. Begin(j + 1) = j * WINDOW_STRIDE /\ Begin(k + 1) = k * WINDOW_STRIDE
    BY DEF Begin
  <2>2. j * WINDOW_STRIDE + WINDOW_STRIDE <= k * WINDOW_STRIDE
    BY <1>3, Apart
  <2>3. j * WINDOW_STRIDE \in Nat /\ k * WINDOW_STRIDE \in Nat
    OBVIOUS
  <2> QED
    BY <2>1, <2>2, <2>3
<1> QED
  BY <1>1, <1>2, <1>3

\* The next frame ends the next window, or none.
LEMMA CountedOn ==
  ASSUME NEW n \in Nat, NEW k \in Nat, Counted(n, k)
  PROVE  /\ EndsWindow(n + 1) => Counted(n + 1, k + 1) /\ n + 1 = Begin(k + 1) + WINDOW_LEN
         /\ ~EndsWindow(n + 1) => Counted(n + 1, k)
<1> USE DeviceAssumption
<1> DEFINE b == Begin(k + 1)
<1>1. /\ b \in Nat /\ b = k * WINDOW_STRIDE /\ Begin(k + 2) = b + WINDOW_STRIDE /\ (k + 1) + 1 = k + 2
      /\ (k > 0 => Begin(k) + WINDOW_STRIDE = b /\ Begin(k) = (k - 1) * WINDOW_STRIDE /\ Begin(k) \in Nat)
  <2>1. b \in Nat /\ b = k * WINDOW_STRIDE /\ Begin(k + 2) = b + WINDOW_STRIDE /\ (k + 1) + 1 = k + 2
    BY Begins DEF Begin
  <2>2. ASSUME k > 0 PROVE Begin(k) + WINDOW_STRIDE = b /\ Begin(k) = (k - 1) * WINDOW_STRIDE /\ Begin(k) \in Nat
    <3>1. k - 1 \in Nat /\ (k - 1) + 1 = k /\ (k - 1) + 2 = k + 1
      BY <2>2
    <3> QED
      BY <3>1, Begins DEF Begin
  <2> QED
    BY <2>1, <2>2
<1>2. n + 1 <= b + WINDOW_LEN /\ (k > 0 => n >= Begin(k) + WINDOW_LEN)
  BY <1>1 DEF Counted
<1> HIDE DEF b
<1>3. CASE n + 1 = b + WINDOW_LEN
  <2>1. (n + 1) - WINDOW_LEN = k * WINDOW_STRIDE + 0 /\ 0 \in 0 .. WINDOW_STRIDE - 1
    BY <1>1, <1>3
  <2>2. EndsWindow(n + 1)
    <3>1. (k * WINDOW_STRIDE + 0) % WINDOW_STRIDE = 0
      BY <2>1, Remainders
    <3>2. ((n + 1) - WINDOW_LEN) % WINDOW_STRIDE = 0 /\ n + 1 >= WINDOW_LEN
      BY <1>1, <1>3, <2>1, <3>1
    <3> QED
      BY <3>2 DEF EndsWindow
  <2>3. Counted(n + 1, k + 1)
    BY <1>1, <1>3 DEF Counted, b
  <2> QED
    BY <1>3, <2>2, <2>3 DEF b
<1>4. CASE n + 1 < b + WINDOW_LEN
  <2>1. Counted(n + 1, k)
    BY <1>1, <1>2, <1>4 DEF Counted, b
  <2>2. ~EndsWindow(n + 1)
    <3>1. CASE k = 0
      BY <1>1, <1>4, <3>1 DEF EndsWindow
    <3>2. CASE k > 0
      <4> DEFINE y == (n + 1) - (Begin(k) + WINDOW_LEN)
      <4>1. y \in 1 .. WINDOW_STRIDE - 1 /\ (n + 1) - WINDOW_LEN = Begin(k) + y
        BY <1>1, <1>2, <1>4, <3>2
      <4> HIDE DEF y
      <4>2. (n + 1) - WINDOW_LEN = (k - 1) * WINDOW_STRIDE + y /\ k - 1 \in Nat /\ y \in 0 .. WINDOW_STRIDE - 1 /\ y # 0
        BY <1>1, <3>2, <4>1
      <4>3. ((k - 1) * WINDOW_STRIDE + y) % WINDOW_STRIDE = y
        BY <4>2, Remainders
      <4> QED
        BY <4>2, <4>3 DEF EndsWindow
    <3> QED
      BY <3>1, <3>2
  <2> QED
    BY <2>1, <2>2
<1> QED
  BY <1>2, <1>3, <1>4, <1>1

LEMMA CountedOnce ==
  ASSUME NEW n \in Nat, NEW j \in Nat, NEW k \in Nat, Counted(n, j), Counted(n, k)
  PROVE  j = k
<1> USE DeviceAssumption
<1>1. \A i, l \in Nat : i < l => ~(Counted(n, i) /\ Counted(n, l))
  <2> SUFFICES ASSUME NEW i \in Nat, NEW l \in Nat, i < l, Counted(n, i), Counted(n, l) PROVE FALSE
    OBVIOUS
  <2>1. l > 0 /\ n < Begin(i + 1) + WINDOW_LEN /\ n >= Begin(l) + WINDOW_LEN
    BY DEF Counted
  <2>2. l - 1 \in Nat /\ (l - 1) + 1 = l /\ (i = l - 1 \/ i < l - 1)
    OBVIOUS
  <2>3. Begin(i + 1) \in Nat /\ Begin(l) \in Nat
    BY <2>2, Begins
  <2>4. i < l - 1 => Begin(i + 1) < Begin((l - 1) + 1)
    BY <2>2, Begins
  <2>5. Begin(i + 1) <= Begin(l)
    BY <2>2, <2>3, <2>4
  <2> QED
    BY <2>1, <2>3, <2>5
<1> QED
  BY <1>1

LEMMA WinIs ==
  ASSUME NEW k \in Nat, k > 0
  PROVE  /\ Begin(k) \in Nat /\ EndOf(k) \in Nat
         /\ Win(k) \in Seq(Nat) /\ Len(Win(k)) = WINDOW_LEN /\ Win(k)[WINDOW_LEN] = EndOf(k)
<1> USE DeviceAssumption
<1>1. k - 1 \in Nat /\ (k - 1) + 1 = k
  OBVIOUS
<1>2. Begin(k) \in Nat
  BY <1>1, Begins
<1>3. \A t \in 1 .. WINDOW_LEN : Win(k)[t] = Begin(k) + (t - 1) /\ Begin(k) + (t - 1) \in Nat
  BY <1>2 DEF Win
<1>4. Win(k) \in [1 .. WINDOW_LEN -> Nat]
  BY <1>2 DEF Win
<1>5. Win(k) \in Seq(Nat) /\ Len(Win(k)) = WINDOW_LEN
  BY <1>4, SeqDef, LenProperties
<1> QED
  BY <1>2, <1>3, <1>5 DEF EndOf

-----------------------------------------------------------------------------
(* Lists of reported windows. *)

\* The windows up to the k-th that are reported.
Reported(k) == {j \in 1 .. k : j \in FIRING /\ EndOf(j) >= WARMUP}

\* s lists the ends of these in order: each at the place that is the number of those up to it.
Lists(s, k) ==
  /\ Len(s) = Cardinality(Reported(k))
  /\ \A i \in 1 .. Len(s) : \E j \in Reported(k) : Cardinality(Reported(j)) = i /\ s[i] = EndOf(j)

LEMMA ReportedFinite == \A k \in Nat : IsFiniteSet(Reported(k)) /\ Cardinality(Reported(k)) \in Nat
<1> SUFFICES ASSUME NEW k \in Nat PROVE IsFiniteSet(Reported(k)) /\ Cardinality(Reported(k)) \in Nat
  OBVIOUS
<1>1. IsFiniteSet(1 .. k)
  BY FS_Interval
<1>2. Reported(k) \subseteq 1 .. k
  BY DEF Reported
<1>3. IsFiniteSet(Reported(k))
  BY <1>1, <1>2, FS_Subset
<1> QED
  BY <1>3, FS_CardinalityType

LEMMA ReportedTo ==
  ASSUME NEW k \in Nat, NEW m \in Nat, k < m, \A j \in FIRING : k < j => j >= m
  PROVE  /\ m \in FIRING /\ EndOf(m) >= WARMUP =>
              /\ Reported(m) = Reported(k) \cup {m}
              /\ Cardinality(Reported(m)) = Cardinality(Reported(k)) + 1
         /\ ~(m \in FIRING /\ EndOf(m) >= WARMUP) => Reported(m) = Reported(k)
<1>1. \A j \in 1 .. m : j \in FIRING => j \in 1 .. k \/ j = m
  OBVIOUS
<1>2. \A j \in 1 .. k : j \in 1 .. m
  OBVIOUS
<1>3. m \in 1 .. m /\ m \notin Reported(k)
  BY DEF Reported
<1>4. m \in FIRING /\ EndOf(m) >= WARMUP => Reported(m) = Reported(k) \cup {m}
  BY <1>1, <1>2, <1>3 DEF Reported
<1>5. ~(m \in FIRING /\ EndOf(m) >= WARMUP) => Reported(m) = Reported(k)
  BY <1>1, <1>2, <1>3 DEF Reported
<1>6. Cardinality(Reported(k) \cup {m}) = Cardinality(Reported(k)) + 1
  BY <1>3, ReportedFinite, FS_AddElement
<1> QED
  BY <1>4, <1>5, <1>6

\* Of two reported windows the later one has the later place.
LEMMA PlacesDiffer ==
  ASSUME NEW k \in Nat, NEW i \in Reported(k), NEW j \in Reported(k),
         Cardinality(Reported(i)) = Cardinality(Reported(j))
  PROVE  i = j
<1>1. \A a, b \in Reported(k) : a < b => Cardinality(Reported(a)) < Cardinality(Reported(b))
  <2> SUFFICES ASSUME NEW a \in Reported(k), NEW b \in Reported(k), a < b
               PROVE  Cardinality(Reported(a)) < Cardinality(Reported(b))
    OBVIOUS
  <2>1. a \in 1 .. k /\ b \in 1 .. k /\ b \in FIRING /\ EndOf(b) >= WARMUP
    BY DEF Reported
  <2>2. a \in Nat /\ b \in Nat /\ b \in 1 .. b /\ b \notin 1 .. a /\ \A x \in 1 .. a : x \in 1 .. b
    BY <2>1
  <2>3. Reported(a) \cup {b} \subseteq Reported(b) /\ b \notin Reported(a)
    BY <2>1, <2>2 DEF Reported
  <2>4. Cardinality(Reported(a) \cup {b}) = Cardinality(Reported(a)) + 1
    BY <2>2, <2>3, ReportedFinite, FS_AddElement
  <2>5. Cardinality(Reported(a) \cup {b}) <= Cardinality(Reported(b))
    BY <2>2, <2>3, ReportedFinite, FS_Subset
  <2> QED
    BY <2>2, <2>4, <2>5, ReportedFinite
<1>2. i \in Nat /\ j \in Nat
  BY DEF Reported
<1>3. Cardinality(Reported(i)) \in Nat /\ Cardinality(Reported(j)) \in Nat
  BY <1>2, ReportedFinite
<1> QED
  BY <1>1, <1>2, <1>3

LEMMA ListsTo ==
  ASSUME NEW s \in Seq(Nat), NEW k \in Nat, NEW m \in Nat, Lists(s, k), k < m, \A j \in FIRING : k < j => j >= m
  PROVE  /\ m \in FIRING /\ EndOf(m) >= WARMUP => Lists(Append(s, EndOf(m)), m)
         /\ ~(m \in FIRING /\ EndOf(m) >= WARMUP) => Lists(s, m)
<1>1. CASE m \in FIRING /\ EndOf(m) >= WARMUP
  <2> DEFINE e == EndOf(m)
             t == Append(s, e)
  <2>1. e \in Nat
    BY WinIs
  <2>2. /\ Len(t) = Len(s) + 1 /\ t[Len(s) + 1] = e /\ Len(s) \in Nat
        /\ \A i \in 1 .. Len(s) : t[i] = s[i]
    BY <2>1, AppendProperties, LenProperties
  <2>3. /\ Reported(m) = Reported(k) \cup {m}
        /\ Cardinality(Reported(m)) = Cardinality(Reported(k)) + 1
    BY <1>1, ReportedTo
  <2>e. e = EndOf(m)
    OBVIOUS
  <2>t. t = Append(s, EndOf(m))
    OBVIOUS
  <2> HIDE DEF e, t
  <2>4. Len(t) = Cardinality(Reported(m))
    BY <2>2, <2>3 DEF Lists
  <2>5. ASSUME NEW i \in 1 .. Len(t) PROVE \E j \in Reported(m) : Cardinality(Reported(j)) = i /\ t[i] = EndOf(j)
    <3>1. CASE i = Len(t)
      BY <2>2, <2>3, <2>4, <2>e, <3>1
    <3>2. CASE i # Len(t)
      <4>1. i \in 1 .. Len(s)
        BY <2>2, <3>2
      <4> QED
        BY <2>2, <2>3, <4>1 DEF Lists
    <3> QED
      BY <3>1, <3>2
  <2>6. Lists(t, m)
    BY <2>4, <2>5 DEF Lists
  <2> QED
    BY <1>1, <2>6, <2>t
<1>2. CASE ~(m \in FIRING /\ EndOf(m) >= WARMUP)
  <2>1. Reported(m) = Reported(k)
    BY <1>2, ReportedTo
  <2> QED
    BY <1>2, <2>1 DEF Lists
<1> QED
  BY <1>1, <1>2

LEMMA ListsOnce ==
  ASSUME NEW s \in Seq(Nat), NEW t \in Seq(Nat), NEW k \in Nat, Lists(s, k), Lists(t, k)
  PROVE  s = t
<1>1. Len(s) = Len(t)
  BY DEF Lists
<1>2. ASSUME NEW i \in 1 .. Len(s) PROVE s[i] = t[i]
  <2>1. PICK j \in Reported(k) : Cardinality(Reported(j)) = i /\ s[i] = EndOf(j)
    BY DEF Lists
  <2>2. PICK l \in Reported(k) : Cardinality(Reported(l)) = i /\ t[i] = EndOf(l)
    BY <1>1 DEF Lists
  <2>3. j = l
    BY <2>1, <2>2, PlacesDiffer
  <2> QED
    BY <2>1, <2>2, <2>3
<1> QED
  BY <1>1, <1>2, SeqEqual

\* An event of an earlier run stays in front.
LEMMA ForeignFirst ==
  /\ <<Foreign>> \in Seq(Nat) /\ <<Foreign>> \o <<>> = <<Foreign>>
  /\ \A h \in Seq(Nat), e \in Nat : Append(<<Foreign>> \o h, e) = <<Foreign>> \o Append(h, e)
<1>1. Foreign \in Nat
  BY SessionAssumption DEF Foreign
<1>2. <<Foreign>> \in Seq(Nat)
  BY <1>1
<1>3. ASSUME NEW h \in Seq(Nat), NEW e \in Nat PROVE Append(<<Foreign>> \o h, e) = <<Foreign>> \o Append(h, e)
  <2>1. <<e>> \in Seq(Nat) /\ Append(h, e) = h \o <<e>>
    BY AppendIsConcat
  <2>2. <<Foreign>> \o h \in Seq(Nat)
    BY <1>2, ConcatProperties
  <2>3. Append(<<Foreign>> \o h, e) = (<<Foreign>> \o h) \o <<e>>
    BY <2>2, AppendIsConcat
  <2>4. (<<Foreign>> \o h) \o <<e>> = <<Foreign>> \o (h \o <<e>>)
    BY <1>2, <2>1, ConcatAssociative
  <2> QED
    BY <2>1, <2>3, <2>4
<1> QED
  BY <1>2, <1>3, ConcatEmptySeq

LEMMA NothingListed == Lists(<<>>, 0)
<1>1. Reported(0) = {}
  BY DEF Reported
<1> QED
  BY <1>1, FS_EmptySet DEF Lists

-----------------------------------------------------------------------------
(* Rings. *)

\* A ring of n slots holds the newest n of the frames counted.
Holds(ring, n) == \A f \in 0 .. MAX_FRAMES : f < frame_num /\ f + n >= frame_num => ring[f % n] = f

LEMMA HoldsOn ==
  ASSUME frame_num \in Nat, frame_num < MAX_FRAMES, NEW n \in Nat \ {0}, NEW ring \in [0 .. n - 1 -> 0 .. MAX_FRAMES],
         Holds(ring, n), NEW next, next = [ring EXCEPT ![frame_num % n] = frame_num]
  PROVE  /\ next \in [0 .. n - 1 -> 0 .. MAX_FRAMES]
         /\ \A f \in 0 .. MAX_FRAMES : f < frame_num + 1 /\ f + n >= frame_num + 1 => next[f % n] = f
<1> USE SessionAssumption
<1>1. \A x \in Nat : x % n \in 0 .. n - 1
  OBVIOUS
<1>2. /\ next \in [0 .. n - 1 -> 0 .. MAX_FRAMES] /\ next[frame_num % n] = frame_num
      /\ \A x \in 0 .. n - 1 : x # frame_num % n => next[x] = ring[x]
  <2> DEFINE slot == frame_num % n
  <2>a. frame_num \in 0 .. MAX_FRAMES
    OBVIOUS
  <2>b. frame_num % n \in 0 .. n - 1
    BY <1>1
  <2>0. frame_num % n \in 0 .. n - 1 /\ frame_num \in 0 .. MAX_FRAMES
    BY <2>a, <2>b
  <2>1. slot \in 0 .. n - 1 /\ frame_num \in 0 .. MAX_FRAMES /\ next = [ring EXCEPT ![slot] = frame_num]
    BY <2>0
  <2>2. slot = frame_num % n
    OBVIOUS
  <2> HIDE DEF slot
  <2>3. /\ next \in [0 .. n - 1 -> 0 .. MAX_FRAMES] /\ next[slot] = frame_num
        /\ \A x \in 0 .. n - 1 : x # slot => next[x] = ring[x]
    BY <2>1
  <2> QED
    BY <2>2, <2>3
<1>3. ASSUME NEW f \in 0 .. MAX_FRAMES, f < frame_num + 1, f + n >= frame_num + 1 PROVE next[f % n] = f
  <2>1. CASE f = frame_num
    BY <1>2, <2>1
  <2>2. CASE f # frame_num
    <3>1. f \in Nat /\ f < frame_num /\ frame_num < f + n /\ f + n >= frame_num
      BY <1>3, <2>2
    <3>2. f % n # frame_num % n
      BY <3>1, OwnSlots
    <3>3. ring[f % n] = f
      BY <3>1 DEF Holds
    <3> QED
      BY <1>1, <1>2, <3>1, <3>2, <3>3
  <2> QED
    BY <2>1, <2>2
<1> QED
  BY <1>2, <1>3

-----------------------------------------------------------------------------
(* The session of the device: what its steps do to the window and its count. *)

LEMMA CommitCounts ==
  ASSUME NEW d, DevOK(d), NEW fn \in Nat
  PROVE  /\ d.stream =>
              /\ Commit(d, fn).commits = d.commits + 1 /\ Commit(d, fn).window = Shift(d.window, fn)
              /\ Commit(d, fn).job = IF EndsWindow(d.commits + 1) THEN Shift(d.window, fn) ELSE d.job
         /\ ~d.stream => /\ Commit(d, fn).commits = d.commits /\ Commit(d, fn).window = d.window
                         /\ Commit(d, fn).job = d.job
         /\ Commit(d, fn).decided = d.decided
<1>1. CASE ~d.stream
  <2>1. Commit(d, fn) = Bump(d, "dropped")
    BY <1>1 DEF Commit
  <2>2. Bump(d, "dropped") = [d EXCEPT !.stats = [d.stats EXCEPT !["dropped"] = d.stats["dropped"] + 1]]
    BY BumpKeeps
  <2> QED
    BY <1>1, <2>1, <2>2 DEF DevOK, Devices
<1>2. CASE d.stream
  <2> DEFINE w == Shift(d.window, fn)
             b == Bump(d, "frames_rx")
  <2>1. DevOK(b) /\ b = [d EXCEPT !.stats = [d.stats EXCEPT !["frames_rx"] = d.stats["frames_rx"] + 1]]
    BY BumpKeeps
  <2>2. Commit(d, fn) = [b EXCEPT !.commits = b.commits + 1, !.window = w, !.job = IF EndsWindow(d.commits + 1) THEN w ELSE b.job]
    BY <1>2 DEF Commit
  <2>3. b \in Devices /\ b.commits = d.commits /\ b.job = d.job /\ b.decided = d.decided
    BY <2>1 DEF DevOK, Devices
  <2>4. w = Shift(d.window, fn)
    OBVIOUS
  <2> HIDE DEF w, b
  <2>5. Commit(d, fn) = [b EXCEPT !.commits = d.commits + 1, !.window = w, !.job = IF EndsWindow(d.commits + 1) THEN w ELSE d.job]
    BY <2>2, <2>3
  <2>6. /\ Commit(d, fn).commits = d.commits + 1 /\ Commit(d, fn).window = w
        /\ Commit(d, fn).job = IF EndsWindow(d.commits + 1) THEN w ELSE d.job
        /\ Commit(d, fn).decided = d.decided
    BY <2>3, <2>5 DEF Devices
  <2> QED
    BY <1>2, <2>4, <2>6
<1> QED
  BY <1>1, <1>2

LEMMA DecideCounts ==
  ASSUME NEW d, DevOK(d)
  PROVE  /\ Decide(d).job = <<>> /\ Decide(d).decided = d.decided + 1
         /\ Decide(d).commits = d.commits /\ Decide(d).window = d.window
<1> DEFINE b == Bump(d, "inferences")
           done == [b EXCEPT !.job = NoJob, !.decided = b.decided + 1]
<1>1. DevOK(b) /\ b.decided = d.decided /\ b.commits = d.commits /\ b.window = d.window
  <2>1. DevOK(b) /\ b = [d EXCEPT !.stats = [d.stats EXCEPT !["inferences"] = d.stats["inferences"] + 1]]
    BY BumpKeeps
  <2> QED
    BY <2>1 DEF DevOK, Devices
<1> HIDE DEF b
<1>2. /\ DevOK(done) /\ done.job = <<>> /\ done.decided = d.decided + 1
      /\ done.commits = d.commits /\ done.window = d.window
  <2>1. NoJob \in Seq(Nat) /\ b.decided + 1 \in Nat /\ NoJob = <<>>
    BY <1>1 DEF DevOK, Devices, NoJob
  <2>2. /\ done \in Devices /\ done.job = NoJob /\ done.decided = b.decided + 1
        /\ done.commits = b.commits /\ done.window = b.window
    BY <1>1, <2>1 DEF DevOK, Devices
  <2> QED
    BY <1>1, <2>1, <2>2 DEF DevOK
<1>3. Decide(d) = IF Fires(d) THEN Bump(done, "keywords") ELSE done
  BY DEF Decide, b
<1> HIDE DEF done
<1>4. Bump(done, "keywords") = [done EXCEPT !.stats = [done.stats EXCEPT !["keywords"] = done.stats["keywords"] + 1]]
  BY <1>2, BumpKeeps
<1> QED
  BY <1>2, <1>3, <1>4 DEF DevOK, Devices

\* START and RESET begin a session, no other command touches it.
Fresh(d) == d.commits = 0 /\ d.window = <<>> /\ d.job = <<>> /\ d.decided = 0
SameSession(e, d) == e.commits = d.commits /\ e.window = d.window /\ e.job = d.job /\ e.decided = d.decided

LEMMA CommandSession ==
  ASSUME NEW d, DevOK(d), NEW p \in Packets, p.type \in CommandTypes
  PROVE  /\ p.type \in {"START", "RESET"} => Fresh(Receive(d, p))
         /\ p.type \notin {"START", "RESET"} => SameSession(Receive(d, p), d)
<1>1. p.type # "FEATURE" /\ p.type # "GARBLED"
  BY DEF CommandTypes
<1> DEFINE e == Effect(d, p.type)
<1>2. Receive(d, p) = [e EXCEPT !.rsp = Response(d, p)]
  BY <1>1 DEF Receive
<1>3. d \in Devices /\ NoStats \in Counters /\ NoJob = <<>> /\ <<>> \in Seq(Nat)
  BY DEF DevOK, NoStats, Counters, NoJob
<1> DEFINE f == FreshSession(d)
<1>4. f \in Devices /\ Fresh(f)
  BY <1>3 DEF FreshSession, Devices, Fresh
<1>f. f = FreshSession(d)
  OBVIOUS
<1> HIDE DEF f
<1>5. p.type = "RESET" => e \in Devices /\ Fresh(e)
  <2>1. [f EXCEPT !.stream = FALSE, !.stats = NoStats] \in Devices /\ Fresh([f EXCEPT !.stream = FALSE, !.stats = NoStats])
    BY <1>3, <1>4 DEF Devices, Fresh
  <2> QED
    BY <2>1, <1>f DEF Effect
<1>6. p.type = "START" => e \in Devices /\ Fresh(e)
  <2>1. [f EXCEPT !.stream = TRUE] \in Devices /\ Fresh([f EXCEPT !.stream = TRUE])
    BY <1>4 DEF Devices, Fresh
  <2> QED
    BY <2>1, <1>f DEF Effect
<1>7. p.type \notin {"START", "RESET"} => e \in Devices /\ SameSession(e, d)
  BY <1>3 DEF Effect, Devices, SameSession
<1> HIDE DEF e
<1>8. e \in Devices
  BY <1>5, <1>6, <1>7
<1>9. SameSession(Receive(d, p), e)
  BY <1>2, <1>8 DEF Devices, SameSession
<1> QED
  BY <1>5, <1>6, <1>7, <1>9 DEF Fresh, SameSession

\* The window of the device: the newest frames.
LEMMA ShiftTo ==
  ASSUME NEW w \in Seq(Nat), Len(w) <= WINDOW_LEN, NEW fn \in Nat,
         \A t \in 1 .. Len(w) : w[t] = (fn - Len(w)) + (t - 1)
  PROVE  /\ \A t \in 1 .. Len(Shift(w, fn)) : Shift(w, fn)[t] = ((fn + 1) - Len(Shift(w, fn))) + (t - 1)
         /\ Len(Shift(w, fn)) > 0 /\ Shift(w, fn)[Len(Shift(w, fn))] = fn
<1> USE DeviceAssumption
<1> DEFINE longer == Append(w, fn)
<1>1. /\ longer \in Seq(Nat) /\ Len(longer) = Len(w) + 1 /\ longer[Len(w) + 1] = fn /\ Len(w) \in Nat
      /\ \A t \in 1 .. Len(w) : longer[t] = w[t]
  BY AppendProperties, LenProperties
<1>2. \A t \in 1 .. Len(longer) : longer[t] = (fn - Len(w)) + (t - 1)
  <2> SUFFICES ASSUME NEW t \in 1 .. Len(longer) PROVE longer[t] = (fn - Len(w)) + (t - 1)
    OBVIOUS
  <2>1. t \in 1 .. Len(w) \/ t = Len(w) + 1
    BY <1>1
  <2> QED
    BY <1>1, <2>1
<1>3. Shift(w, fn) = IF Len(longer) > WINDOW_LEN THEN Tail(longer) ELSE longer
  BY DEF Shift
<1> HIDE DEF longer
<1>4. CASE Len(longer) > WINDOW_LEN
  <2>1. longer # <<>>
    BY <1>1, EmptySeq
  <2>2. /\ Len(Tail(longer)) = Len(longer) - 1
        /\ \A t \in 1 .. Len(Tail(longer)) : Tail(longer)[t] = longer[t + 1]
    BY <1>1, <2>1, HeadTailProperties
  <2>3. ASSUME NEW t \in 1 .. Len(Tail(longer)) PROVE Tail(longer)[t] = ((fn + 1) - Len(Tail(longer))) + (t - 1)
    <3>1. t + 1 \in 1 .. Len(longer)
      BY <1>1, <2>2
    <3>2. longer[t + 1] = (fn - Len(w)) + ((t + 1) - 1)
      BY <1>2, <3>1
    <3>3. Len(Tail(longer)) = Len(w) /\ t \in Nat
      BY <1>1, <2>2
    <3>4. (fn - Len(w)) + ((t + 1) - 1) = ((fn + 1) - Len(w)) + (t - 1)
      BY <1>1, <3>3
    <3>5. Tail(longer)[t] = longer[t + 1]
      BY <2>2
    <3> QED
      BY <3>2, <3>3, <3>4, <3>5
  <2>4. Len(Tail(longer)) > 0 /\ Tail(longer)[Len(Tail(longer))] = fn
    <3>1. Len(Tail(longer)) = Len(w) /\ Len(w) > 0
      BY <1>1, <1>4, <2>2
    <3> QED
      BY <1>1, <2>2, <3>1
  <2> QED
    BY <1>3, <1>4, <2>3, <2>4
<1>5. CASE ~(Len(longer) > WINDOW_LEN)
  <2>1. ASSUME NEW t \in 1 .. Len(longer) PROVE longer[t] = ((fn + 1) - Len(longer)) + (t - 1)
    BY <1>1, <1>2
  <2>2. Len(longer) > 0 /\ longer[Len(longer)] = fn /\ Shift(w, fn) = longer
    BY <1>1, <1>3, <1>5
  <2> QED
    BY <2>1, <2>2
<1> QED
  BY <1>4, <1>5

\* Whatever was in the window, the newest frame ends it.
LEMMA ShiftEnds ==
  ASSUME NEW w \in Seq(Nat), Len(w) <= WINDOW_LEN, NEW fn \in Nat
  PROVE  Len(Shift(w, fn)) > 0 /\ Shift(w, fn)[Len(Shift(w, fn))] = fn
<1> USE DeviceAssumption
<1> DEFINE longer == Append(w, fn)
<1>1. longer \in Seq(Nat) /\ Len(longer) = Len(w) + 1 /\ longer[Len(w) + 1] = fn /\ Len(w) \in Nat
  BY AppendProperties, LenProperties
<1>2. Shift(w, fn) = IF Len(longer) > WINDOW_LEN THEN Tail(longer) ELSE longer
  BY DEF Shift
<1> HIDE DEF longer
<1>3. CASE Len(longer) > WINDOW_LEN
  <2>1. longer # <<>>
    BY <1>1, EmptySeq
  <2>2. /\ Len(Tail(longer)) = Len(longer) - 1
        /\ \A t \in 1 .. Len(Tail(longer)) : Tail(longer)[t] = longer[t + 1]
    BY <1>1, <2>1, HeadTailProperties
  <2>3. Len(Tail(longer)) = Len(w) /\ Len(w) > 0
    BY <1>1, <1>3, <2>2
  <2> QED
    BY <1>1, <1>2, <1>3, <2>2, <2>3
<1>4. CASE ~(Len(longer) > WINDOW_LEN)
  BY <1>1, <1>2, <1>4
<1> QED
  BY <1>3, <1>4

-----------------------------------------------------------------------------
(* What is on the line after a step. *)

IsFeature(p) == p.type = "FEATURE"
IsEvent(p) == p.type = "EVT"

\* No frame is on the line that was not, and no event, nor is one further from its end.
NoNewFrames ==
  \A i \in 1 .. Len(down') : IsFeature(down'[i]) =>
    \E j \in 1 .. Len(down) : IsFeature(down[j]) /\ down[j].fn = down'[i].fn
NoNewEvents ==
  \A i \in 1 .. Len(up') : IsEvent(up'[i]) =>
    \E j \in 1 .. Len(up) : j >= i /\ IsEvent(up[j]) /\ up[j] = up'[i]

LEMMA PartHasNoNewFrames ==
  ASSUME LinkInv, down' \in Seq(Packets), Part(down', down)
  PROVE  NoNewFrames
<1>1. Len(down) \in Nat /\ Len(down') \in Nat
  BY LenProperties DEF LinkInv, LinkTypes
<1>2. PICK a \in 0 .. Len(down) : Len(down') + a <= Len(down) /\ \A i \in 1 .. Len(down') : down'[i] = down[a + i]
  BY DEF Part
<1>3. \A i \in 1 .. Len(down') : a + i \in 1 .. Len(down)
  BY <1>1, <1>2
<1> QED
  BY <1>2, <1>3 DEF NoNewFrames

LEMMA PartHasNoNewEvents ==
  ASSUME LinkInv, up' \in Seq(Replies \cup Events), Part(up', up)
  PROVE  NoNewEvents
<1>1. Len(up) \in Nat /\ Len(up') \in Nat
  BY LenProperties DEF LinkInv, LinkTypes
<1>2. PICK a \in 0 .. Len(up) : Len(up') + a <= Len(up) /\ \A i \in 1 .. Len(up') : up'[i] = up[a + i]
  BY DEF Part
<1>3. \A i \in 1 .. Len(up') : a + i \in 1 .. Len(up) /\ a + i >= i
  BY <1>1, <1>2
<1> QED
  BY <1>2, <1>3 DEF NoNewEvents

LEMMA DownParts ==
  ASSUME LinkInv, [Next]_vars, ~SendFrame, ~SendCommand, ~AfterPoll
  PROVE  down' \in Seq(Packets) /\ Part(down', down)
<1>1. down \in Seq(Packets) /\ Len(down) \in Nat /\ <<>> \in Seq(Packets)
  BY LenProperties DEF LinkInv, LinkTypes
<1>2. CASE down' = down
  BY <1>1, <1>2, PartRefl
<1>3. CASE DevTake
  <2>1. down # <<>> /\ down' = Tail(down)
    BY <1>3 DEF DevTake
  <2> QED
    BY <2>1, DownHead
<1>4. CASE LoseDown
  <2>1. PICK n \in 1 .. 2 : n <= Len(down) /\ down' = SubSeq(down, n + 1, Len(down))
    BY <1>4 DEF LoseDown
  <2>2. n \in 0 .. Len(down)
    BY <1>1, <2>1
  <2> QED
    BY <1>1, <2>1, <2>2, PartOfDown
<1>5. CASE Unplug
  BY <1>1, <1>5, PartRefl DEF Unplug
<1>6. CASE Open
  <2>1. PICK n \in 0 .. Len(down) : down' = SubSeq(down, 1, n)
    BY <1>6 DEF Open, OpenPort
  <2> QED
    BY <1>1, <2>1, PartOfDown
<1>7. CASE DevAnswer \/ DevDecide \/ LoseUp \/ Replug \/ Sigint \/ OpenFails \/ Wake \/ Abandon
  BY <1>2, <1>7 DEF DevAnswer, DevDecide, LoseUp, Replug, Sigint, OpenFails, Wake, Abandon, linkVars
<1>8. CASE WaitOther \/ WaitMatch \/ WaitTimeout \/ Count \/ Poll \/ Shutdown \/ UNCHANGED vars
  BY <1>2, <1>8 DEF WaitOther, WaitMatch, WaitTimeout, Count, Poll, Shutdown, vars, linkVars
<1> QED
  BY <1>3, <1>4, <1>5, <1>6, <1>7, <1>8 DEF Next, DevStep, HostStep, Finished

LEMMA UpParts ==
  ASSUME LinkInv, [Next]_vars, ~DevStep, ~SendCommand, ~AfterPoll
  PROVE  up' \in Seq(Replies \cup Events) /\ Part(up', up)
<1>1. up \in Seq(Replies \cup Events) /\ Len(up) \in Nat /\ <<>> \in Seq(Replies \cup Events)
  BY LenProperties DEF LinkInv, LinkTypes
<1>2. CASE up' = up
  BY <1>1, <1>2, PartRefl
<1>3. CASE up' = <<>>
  BY <1>1, <1>3, PartRefl
<1>4. CASE LoseUp
  <2>1. PICK n \in 1 .. 2 : n <= Len(up) /\ up' = SubSeq(up, n + 1, Len(up))
    BY <1>4 DEF LoseUp
  <2>2. n \in 0 .. Len(up)
    BY <1>1, <2>1
  <2> QED
    BY <1>1, <2>1, <2>2, PartOfUp
<1>5. CASE Open
  <2>1. PICK n \in 0 .. Len(up) : up' = SubSeq(up, n + 1, Len(up))
    BY <1>5 DEF Open, OpenPort
  <2> QED
    BY <1>1, <2>1, PartOfUp
<1>6. CASE WaitOther \/ Poll
  <2>1. up # <<>> /\ up' = Tail(up)
    BY <1>6 DEF WaitOther, Poll, Readable
  <2> QED
    BY <2>1, UpTail
<1>7. CASE WaitMatch
  <2>1. CASE \E n \in 1 .. Len(up) : up' = SubSeq(up, n + 1, Len(up))
    <3>1. PICK n \in 1 .. Len(up) : up' = SubSeq(up, n + 1, Len(up))
      BY <2>1
    <3>2. n \in 0 .. Len(up)
      BY <1>1, <3>1
    <3> QED
      BY <1>1, <3>1, <3>2, PartOfUp
  <2> QED
    BY <1>3, <1>7, <2>1 DEF WaitMatch, Close, ClosePort
<1>8. CASE WaitTimeout
  BY <1>2, <1>3, <1>8 DEF WaitTimeout, Fail, Close, ClosePort
<1>9. CASE Unplug
  BY <1>3, <1>9 DEF Unplug
<1>10. CASE LoseDown \/ Replug \/ Sigint \/ OpenFails \/ Wake \/ Abandon
  BY <1>2, <1>10 DEF LoseDown, Replug, Sigint, OpenFails, Wake, Abandon, linkVars
<1>11. CASE SendFrame \/ Count \/ Shutdown \/ UNCHANGED vars
  BY <1>2, <1>11 DEF SendFrame, Count, Shutdown, vars, linkVars
<1> QED
  BY <1>4, <1>5, <1>6, <1>7, <1>8, <1>9, <1>10, <1>11 DEF Next, HostStep, Finished

\* A command goes behind the others, which only grow older.
LEMMA WriteMoves ==
  ASSUME LinkInv, NEW p \in Packets, p.type \in CommandTypes, Write(p)
  PROVE  /\ down' \in Seq(Packets) /\ Len(down') \in Nat /\ Len(down) \in Nat
         /\ conn = "good" => Len(down') = Len(down) + 1 /\ down'[Len(down) + 1] = p
         /\ conn # "good" => down' = down
         /\ Len(down') >= Len(down)
         /\ \A i \in 1 .. Len(down) : down'[i].type = down[i].type /\ down'[i].fn = down[i].fn
         /\ \A i \in 1 .. Len(down') : IsFeature(down'[i]) => i \in 1 .. Len(down)
<1>1. down \in Seq(Packets) /\ Len(down) \in Nat /\ down' = IF conn = "good" THEN Append(Aged(down), p) ELSE down
  BY LenProperties DEF LinkInv, LinkTypes, Write
<1>2. /\ Aged(down) \in Seq(Packets) /\ Len(Aged(down)) = Len(down)
      /\ \A i \in 1 .. Len(down) : Aged(down)[i].type = down[i].type /\ Aged(down)[i].fn = down[i].fn
  BY <1>1, AgedPackets
<1>3. CASE conn = "good"
  <2> DEFINE r == Aged(down)
  <2>1. /\ Append(r, p) \in Seq(Packets) /\ Len(Append(r, p)) = Len(r) + 1
        /\ Append(r, p)[Len(r) + 1] = p
        /\ \A i \in 1 .. Len(r) : Append(r, p)[i] = r[i]
        /\ \A i \in 1 .. Len(Append(r, p)) : i \in 1 .. Len(r) \/ i = Len(r) + 1
    BY <1>2, DownAppends
  <2>2. /\ r \in Seq(Packets) /\ Len(r) = Len(down)
        /\ \A i \in 1 .. Len(down) : r[i].type = down[i].type /\ r[i].fn = down[i].fn
    BY <1>2
  <2>3. down' = Append(r, p) /\ ~IsFeature(p)
    BY <1>1, <1>3, PacketKinds DEF IsFeature
  <2> HIDE DEF r
  <2>4. /\ Len(down') = Len(down) + 1 /\ down'[Len(down) + 1] = p /\ down' \in Seq(Packets)
        /\ \A i \in 1 .. Len(down) : down'[i] = r[i]
        /\ \A i \in 1 .. Len(down') : i \in 1 .. Len(down) \/ down'[i] = p
    BY <2>1, <2>2, <2>3
  <2>5. \A i \in 1 .. Len(down) : down'[i].type = down[i].type /\ down'[i].fn = down[i].fn
    BY <2>2, <2>4
  <2>6. \A i \in 1 .. Len(down') : IsFeature(down'[i]) => i \in 1 .. Len(down)
    BY <2>3, <2>4
  <2>7. Len(down') \in Nat /\ Len(down') >= Len(down)
    BY <1>1, <2>4
  <2> QED
    BY <1>1, <1>3, <2>4, <2>5, <2>6, <2>7
<1>4. CASE conn # "good"
  BY <1>1, <1>4
<1> QED
  BY <1>3, <1>4

LEMMA WriteKeepsEvents ==
  ASSUME LinkInv, NEW p, Write(p)
  PROVE  /\ up' \in Seq(Replies \cup Events) /\ Len(up') = Len(up)
         /\ \A i \in 1 .. Len(up) : IsEvent(up'[i]) <=> IsEvent(up[i])
         /\ \A i \in 1 .. Len(up) : IsEvent(up[i]) => up'[i] = up[i]
<1>1. up \in Seq(Replies \cup Events) /\ up' = Aged(up)
  BY DEF LinkInv, LinkTypes, Write
<1>2. /\ Aged(up) \in Seq(Replies \cup Events) /\ Len(Aged(up)) = Len(up)
      /\ \A i \in 1 .. Len(up) : Aged(up)[i].type = up[i].type /\ (~IsReply(up[i]) => Aged(up)[i] = up[i])
  BY <1>1, AgedUp
<1> QED
  BY <1>1, <1>2 DEF IsEvent, IsReply

\* What the device sends is heard behind the rest, or not at all.
LEMMA DevAppends ==
  ASSUME LinkInv, DevStep
  PROVE  \/ up' = up /\ (DevDecide => ~Fires(dev) \/ conn # "good")
         \/ \E p \in Replies \cup Events :
              /\ up' = Append(up, p) /\ conn = "good"
              /\ IsEvent(p) <=> DevDecide
              /\ DevDecide => p = Event(dev) /\ Fires(dev)
<1>1. up \in Seq(Replies \cup Events) /\ dev \in Devices /\ DevOK(dev)
  BY DEF LinkInv, LinkTypes, DevOK
<1>2. up \o <<>> = up
  BY <1>1, UpAppends, ConcatEmptySeq
<1>3. ASSUME NEW p \in Replies \cup Events PROVE up \o <<p>> = Append(up, p)
  BY <1>1, UpAppends
<1>4. dev.rsp # NoResponse => dev.rsp \in Replies /\ ~IsEvent(dev.rsp)
  BY <1>1, PacketKinds DEF Devices, IsEvent
<1>5. DevDecide => Event(dev) \in Events /\ IsEvent(Event(dev))
  <2> SUFFICES ASSUME DevDecide PROVE Event(dev) \in Events /\ IsEvent(Event(dev))
    OBVIOUS
  <2>1. dev.job # <<>>
    BY DEF DevDecide, NoJob
  <2>2. Len(dev.job) = WINDOW_LEN /\ dev.job \in Seq(Nat) /\ dev.decided \in Nat
    BY <1>1, <2>1 DEF DevOK, Devices
  <2>3. WINDOW_LEN \in 1 .. Len(dev.job)
    BY <2>2, DeviceAssumption
  <2>4. dev.job[WINDOW_LEN] \in Nat
    BY <2>2, <2>3, LenProperties
  <2> QED
    BY <2>2, <2>4 DEF Event, Events, IsEvent
<1>6. CASE DevTake
  <2>1. PICK late_rest \in Overtaken(dev, Head(down)) : Upward(late_rest)
    BY <1>6 DEF DevTake
  <2>2. late_rest = <<>> \/ (late_rest = <<dev.rsp>> /\ dev.rsp # NoResponse)
    BY <2>1 DEF Overtaken
  <2>3. ~DevDecide
    <3>1. down # <<>> /\ down' = Tail(down)
      BY <1>6 DEF DevTake
    <3>2. Len(down') + 1 = Len(down) /\ Len(down') \in Nat
      BY <3>1, DownHead
    <3>3. down' # down
      BY <3>2
    <3> QED
      BY <3>3 DEF DevDecide
  <2>4. up' = up \/ (conn = "good" /\ dev.rsp # NoResponse /\ up' = Append(up, dev.rsp))
    BY <1>2, <1>3, <1>4, <2>1, <2>2 DEF Upward
  <2> QED
    BY <1>4, <2>3, <2>4
<1>7. CASE DevAnswer
  <2>1. dev.rsp # NoResponse /\ Upward(<<dev.rsp>>) /\ dev' = [dev EXCEPT !.rsp = NoResponse]
    BY <1>7 DEF DevAnswer
  <2>2. ~DevDecide
    <3>1. dev'.rsp = NoResponse
      BY <1>1, <2>1 DEF Devices
    <3> QED
      BY <1>1, <2>1, <3>1, DecideKeeps DEF DevDecide
  <2> QED
    BY <1>2, <1>3, <1>4, <2>1, <2>2 DEF Upward
<1>8. CASE DevDecide
  <2>1. Upward(IF Fires(dev) THEN <<Event(dev)>> ELSE <<>>)
    BY <1>8 DEF DevDecide
  <2> QED
    BY <1>2, <1>3, <1>5, <1>8, <2>1 DEF Upward
<1> QED
  BY <1>6, <1>7, <1>8 DEF DevStep

LEMMA FramesKept ==
  ASSUME SessionInv, [Next]_vars, ~SendFrame
  PROVE  NoNewFrames
<1>1. LinkInv /\ Packet(cmd) \in Packets /\ cmd \in CommandTypes /\ Packet("READ_STATS") \in Packets
  BY DEF SessionInv, HostTypes, Packet, Packets, CommandTypes
<1>2. CASE SendCommand \/ AfterPoll
  <2>1. down' = down \/ \E p \in Packets : p.type \in CommandTypes /\ Write(p)
    <3>1. Packet(cmd).type \in CommandTypes /\ Packet("READ_STATS").type \in CommandTypes
      BY <1>1 DEF Packet, CommandTypes
    <3> QED
      BY <1>1, <1>2, <3>1 DEF SendCommand, AfterPoll
  <2>2. CASE down' = down
    BY <2>2 DEF NoNewFrames
  <2>3. CASE \E p \in Packets : p.type \in CommandTypes /\ Write(p)
    <3>1. PICK p \in Packets : p.type \in CommandTypes /\ Write(p)
      BY <2>3
    <3> QED
      BY <1>1, <3>1, WriteMoves DEF NoNewFrames, IsFeature
  <2> QED
    BY <2>1, <2>2, <2>3
<1> QED
  BY <1>1, <1>2, DownParts, PartHasNoNewFrames

LEMMA EventsKept ==
  ASSUME SessionInv, [Next]_vars, ~DevDecide
  PROVE  NoNewEvents
<1>1. LinkInv /\ up \in Seq(Replies \cup Events) /\ Len(up) \in Nat
  BY LenProperties DEF SessionInv, LinkInv, LinkTypes
<1>2. CASE up' = up \/ up' = <<>>
  BY <1>1, <1>2 DEF NoNewEvents
<1>3. CASE SendCommand \/ AfterPoll
  <2>1. up' = up \/ up' = <<>> \/ \E p : Write(p)
    BY <1>3 DEF SendCommand, AfterPoll, Close, ClosePort
  <2>2. CASE \E p : Write(p)
    <3>1. PICK p : Write(p)
      BY <2>2
    <3> QED
      BY <1>1, <3>1, WriteKeepsEvents DEF NoNewEvents
  <2> QED
    BY <1>2, <2>1, <2>2
<1>4. CASE DevStep
  <2>1. CASE \E p \in Replies \cup Events : up' = Append(up, p) /\ ~IsEvent(p)
    <3>1. PICK p \in Replies \cup Events : up' = Append(up, p) /\ ~IsEvent(p)
      BY <2>1
    <3>2. ASSUME NEW i \in 1 .. Len(up'), IsEvent(up'[i]) PROVE i \in 1 .. Len(up) /\ up'[i] = up[i]
      BY <1>1, <3>1, <3>2, UpAppends
    <3> QED
      BY <3>2 DEF NoNewEvents
  <2> QED
    BY <1>1, <1>2, <1>4, <2>1, DevAppends
<1> QED
  BY <1>1, <1>3, <1>4, UpParts, PartHasNoNewEvents

-----------------------------------------------------------------------------
(* Frame numbers, whatever is lost. *)

\* The frames handed to the link so far: the one being counted is among them.
Handed == IF pc = "COUNT" THEN frame_num + 1 ELSE frame_num

RingTypes ==
  /\ port \in BOOLEAN /\ attempt \in 0 .. 2 /\ resume \in BOOLEAN /\ frame_num \in 0 .. MAX_FRAMES
  /\ Len(down) <= MAX_FLIGHT
  /\ send_us \in [0 .. LATRING - 1 -> 0 .. MAX_FRAMES]
  /\ g_win \in [0 .. WINDOW_LEN - 1 -> 0 .. MAX_FRAMES]
  /\ pc = "COUNT" \/ (resume /\ cmd \in Handshake /\ pc \notin Loop) => frame_num < MAX_FRAMES

\* Frames under way, in inference and reported are ones that were handed to the link; an
\* event of an earlier run of the client is read before its session begins.
NumberInv ==
  /\ \A i \in 1 .. Len(down) : IsFeature(down[i]) => down[i].fn < Handed
  /\ dev.job # <<>> => dev.job[WINDOW_LEN] < Handed
  /\ \A i \in 1 .. Len(up) : IsEvent(up[i]) =>
       \/ up[i].fn < Handed
       \/ up[i].fn = Foreign /\ i = 1 /\ pc \notin Loop /\ frame_num = 0

LatencyInv == RingTypes /\ Holds(send_us, LATRING) /\ NumberInv

LEMMA OnlyCount ==
  ASSUME [Next]_vars, ~Count
  PROVE  UNCHANGED <<frame_num, send_us, g_win, g_smooth, ref, ref_wins>> /\ (pc = "COUNT" => pc' = "COUNT")
<1>1. CASE DevTake \/ DevAnswer \/ DevDecide \/ LoseDown \/ LoseUp
  BY <1>1 DEF DevTake, DevAnswer, DevDecide, LoseDown, LoseUp, streamVars, hostVars, histVars
<1>2. CASE Unplug \/ Replug \/ Sigint \/ UNCHANGED vars
  BY <1>2 DEF Unplug, Replug, Sigint, streamVars, hostVars, histVars, vars
<1>3. CASE Open \/ OpenFails \/ Wake \/ Abandon \/ SendCommand
  BY <1>3 DEF Open, OpenFails, Wake, Abandon, SendCommand, Stay, streamVars, hostVars, histVars
<1>4. CASE WaitOther \/ WaitMatch \/ WaitTimeout
  BY <1>4 DEF WaitOther, WaitMatch, WaitTimeout, streamVars, hostVars
<1>5. CASE SendFrame \/ Poll \/ AfterPoll \/ Shutdown
  BY <1>5 DEF SendFrame, Poll, AfterPoll, Shutdown, streamVars, hostVars, histVars
<1> QED
  BY <1>1, <1>2, <1>3, <1>4, <1>5 DEF Next, DevStep, HostStep, Finished

LEMMA HandedGrows ==
  ASSUME SessionInv, [Next]_vars
  PROVE  /\ Handed \in Nat /\ Handed' \in Nat /\ Handed <= Handed' /\ frame_num \in Nat
         /\ (SendFrame /\ down' # down => pc' = "COUNT" /\ pc # "COUNT" /\ Handed' = frame_num + 1)
         /\ Count => Handed' = Handed /\ frame_num' = frame_num + 1
<1>1. frame_num \in Nat
  BY DEF SessionInv, HostTypes
<1>2. CASE Count
  <2>1. pc = "COUNT" /\ pc' = "POLL" /\ frame_num' = frame_num + 1 /\ down' = down
    BY <1>2 DEF Count, Stay, linkVars
  <2> QED
    BY <1>1, <1>2, <2>1 DEF Handed
<1>3. CASE ~Count
  <2>1. frame_num' = frame_num /\ (pc = "COUNT" => pc' = "COUNT")
    BY <1>3, OnlyCount
  <2>2. SendFrame /\ down' # down => pc' = "COUNT" /\ pc = "LOOP"
    BY DEF SendFrame
  <2> QED
    BY <1>1, <1>3, <2>1, <2>2 DEF Handed
<1> QED
  BY <1>2, <1>3

LEMMA FlightKeeps ==
  ASSUME SessionInv, Len(down) <= MAX_FLIGHT, [Next]_vars
  PROVE  Len(down') <= MAX_FLIGHT
<1> USE SessionAssumption
<1>1. LinkInv /\ down \in Seq(Packets) /\ Len(down) \in Nat /\ cmd \in CommandTypes /\ frame_num \in Nat
  BY LenProperties DEF SessionInv, LinkInv, LinkTypes, HostTypes
<1>2. CASE down' = down
  BY <1>2
<1>3. CASE SendFrame
  <2>1. CASE down' # down
    <3> DEFINE p == [type |-> "FEATURE", fn |-> frame_num, id |-> 0]
    <3>1. Len(down) < MAX_FLIGHT /\ down' = Append(down, p)
      BY <1>3, <2>1 DEF SendFrame
    <3>2. p \in Packets
      BY <1>1 DEF Packets
    <3> HIDE DEF p
    <3>3. Len(down') = Len(down) + 1
      BY <1>1, <3>1, <3>2, DownAppends
    <3> QED
      BY <1>1, <3>1, <3>3
  <2> QED
    BY <1>2, <2>1
<1>4. CASE SendCommand \/ AfterPoll
  <2>1. Packet(cmd) \in Packets /\ Packet("READ_STATS") \in Packets /\ Packet(cmd).type \in CommandTypes
        /\ Packet("READ_STATS").type \in CommandTypes
    BY <1>1 DEF Packet, Packets, CommandTypes
  <2>2. down' = down \/ (Len(down) < MAX_FLIGHT /\ \E p \in Packets : p.type \in CommandTypes /\ Write(p))
    BY <1>4, <2>1 DEF SendCommand, AfterPoll
  <2>3. CASE Len(down) < MAX_FLIGHT /\ \E p \in Packets : p.type \in CommandTypes /\ Write(p)
    <3>1. PICK p \in Packets : p.type \in CommandTypes /\ Write(p)
      BY <2>3
    <3>2. (conn = "good" => Len(down') = Len(down) + 1) /\ (conn # "good" => down' = down)
      BY <1>1, <3>1, WriteMoves
    <3> QED
      BY <1>1, <2>3, <3>2
  <2> QED
    BY <1>2, <2>2, <2>3
<1>5. CASE ~SendFrame /\ ~SendCommand /\ ~AfterPoll
  <2>1. down' \in Seq(Packets) /\ Part(down', down)
    BY <1>1, <1>5, DownParts
  <2>2. PICK a \in 0 .. Len(down) : Len(down') + a <= Len(down)
    BY <2>1 DEF Part
  <2>3. Len(down') \in Nat
    BY <2>1, LenProperties
  <2> QED
    BY <1>1, <2>2, <2>3
<1> QED
  BY <1>3, <1>4, <1>5

LEMMA PlaceKeeps ==
  ASSUME SessionInv, port \in BOOLEAN, attempt \in 0 .. 2, resume \in BOOLEAN, [Next]_vars
  PROVE  /\ port' \in BOOLEAN /\ attempt' \in 0 .. 2 /\ resume' \in BOOLEAN
         /\ pc' = "COUNT" \/ (resume' /\ cmd' \in Handshake /\ pc' \notin Loop) =>
              \/ pc = "COUNT" /\ ~Count
              \/ resume /\ cmd \in Handshake /\ pc \notin Loop
              \/ frame_num < MAX_FRAMES /\ ~Count
<1>1. CASE DevTake \/ DevAnswer \/ DevDecide \/ LoseDown \/ LoseUp
  <2>1. UNCHANGED <<port, attempt, resume, pc, cmd>> /\ (Count => pc' # pc)
    BY <1>1 DEF DevTake, DevAnswer, DevDecide, LoseDown, LoseUp, hostVars, Count, Stay
  <2> QED
    BY <2>1 DEF Loop, Handshake
<1>2. CASE Unplug \/ Replug \/ Sigint \/ UNCHANGED vars
  <2>1. port' \in BOOLEAN /\ UNCHANGED <<attempt, resume, pc, cmd>> /\ (Count => pc' # pc)
    BY <1>2 DEF Unplug, Replug, Sigint, hostVars, linkVars, vars, Count, Stay
  <2> QED
    BY <2>1 DEF Loop, Handshake
<1>3. CASE Open
  <2>1. /\ UNCHANGED <<port, resume>> /\ attempt' = 0 /\ pc = "OPEN" /\ pc' = "SEND" /\ cmd' = "PING" /\ cmd \in Handshake
    BY <1>3 DEF Open, SessionInv, PortInv
  <2> QED
    BY <2>1 DEF Loop
<1>4. CASE OpenFails \/ Wake \/ Abandon
  <2>1. /\ UNCHANGED <<port, attempt, resume, cmd>> /\ pc \notin Loop /\ pc' \notin Loop
    BY <1>4 DEF OpenFails, Wake, Abandon, Stay, linkVars, Loop
  <2> QED
    BY <2>1 DEF Loop
<1>5. CASE SendCommand
  <2>1. /\ UNCHANGED <<port, attempt, resume, cmd>> /\ pc \notin Loop /\ pc' \notin Loop
    BY <1>5 DEF SendCommand, Stay, Close, Loop
  <2> QED
    BY <2>1 DEF Loop
<1>6. CASE WaitOther
  <2>1. /\ UNCHANGED <<port, attempt, resume, cmd, pc>> /\ pc = "WAIT"
    BY <1>6 DEF WaitOther, hostVars
  <2> QED
    BY <2>1 DEF Loop
<1>7. CASE WaitMatch
  <2>1. /\ UNCHANGED <<port, resume, attempt>> /\ pc = "WAIT"
        /\ \/ cmd' = cmd /\ pc' \notin Loop
           \/ cmd \in Handshake /\ cmd' \in Handshake /\ (pc' = "COUNT" => resume)
           \/ pc' = "SEND" /\ cmd' = FinalStats
    BY <1>7 DEF WaitMatch, Close, Stay, Succeed, Loop, Handshake
  <2> QED
    BY <2>1 DEF Loop, FinalStats, Handshake
<1>8. CASE WaitTimeout
  <2>1. /\ UNCHANGED <<port, resume>> /\ pc = "WAIT" /\ pc' \notin Loop /\ attempt' \in 0 .. 2
        /\ cmd' = cmd \/ cmd' = FinalStats
    BY <1>8 DEF WaitTimeout, Fail, LastPing, Close, Stay, Loop
  <2> QED
    BY <2>1 DEF Loop, FinalStats, Handshake
<1>9. CASE SendFrame
  <2>1. /\ UNCHANGED <<port, attempt>> /\ resume' \in BOOLEAN /\ pc = "LOOP" /\ frame_num < MAX_FRAMES /\ ~Count
    BY <1>9 DEF SendFrame, Count
  <2> QED
    BY <2>1
<1>10. CASE Count
  <2>1. /\ UNCHANGED <<port, attempt, resume>> /\ pc' = "POLL"
    BY <1>10 DEF Count, Stay, linkVars
  <2> QED
    BY <2>1 DEF Loop
<1>11. CASE Poll \/ AfterPoll
  <2>1. /\ UNCHANGED <<port, attempt, resume>> /\ pc' \in {"POLL", "LOOP"}
    BY <1>11 DEF Poll, AfterPoll, Stay, hostVars
  <2> QED
    BY <2>1 DEF Loop
<1>12. CASE Shutdown
  <2>1. /\ UNCHANGED <<port, attempt, resume>> /\ pc' = "SEND" /\ cmd' = "STOP"
    BY <1>12 DEF Shutdown, linkVars
  <2> QED
    BY <2>1 DEF Handshake
<1> QED
  BY <1>1, <1>2, <1>3, <1>4, <1>5, <1>6, <1>7, <1>8, <1>9, <1>10, <1>11, <1>12 DEF Next, DevStep, HostStep, Finished

LEMMA RingTypesKeep ==
  ASSUME SessionInv, RingTypes, Holds(send_us, LATRING), [Next]_vars
  PROVE  RingTypes' /\ Holds(send_us, LATRING)'
<1> USE SessionAssumption, DeviceAssumption
<1>1. /\ port' \in BOOLEAN /\ attempt' \in 0 .. 2 /\ resume' \in BOOLEAN
      /\ pc' = "COUNT" \/ (resume' /\ cmd' \in Handshake /\ pc' \notin Loop) =>
              \/ pc = "COUNT" /\ ~Count
              \/ resume /\ cmd \in Handshake /\ pc \notin Loop
              \/ frame_num < MAX_FRAMES /\ ~Count
  BY PlaceKeeps DEF RingTypes
<1>2. Len(down') <= MAX_FLIGHT
  BY FlightKeeps DEF RingTypes
<1>3. CASE ~Count
  <2>1. UNCHANGED <<frame_num, send_us, g_win>>
    BY <1>3, OnlyCount
  <2>2. Holds(send_us, LATRING)'
    BY <2>1 DEF Holds
  <2> QED
    BY <1>1, <1>2, <2>1, <2>2 DEF RingTypes
<1>4. CASE Count
  <2>1. /\ pc = "COUNT" /\ pc' = "POLL" /\ frame_num' = frame_num + 1 /\ frame_num < MAX_FRAMES /\ frame_num \in Nat
        /\ send_us' = [send_us EXCEPT ![frame_num % LATRING] = frame_num]
        /\ g_win' = [g_win EXCEPT ![frame_num % WINDOW_LEN] = frame_num]
    BY <1>4 DEF Count, Stay, FrameSent, RefCheck, RingTypes
  <2>2. /\ send_us' \in [0 .. LATRING - 1 -> 0 .. MAX_FRAMES]
        /\ \A f \in 0 .. MAX_FRAMES : f < frame_num + 1 /\ f + LATRING >= frame_num + 1 => send_us'[f % LATRING] = f
    BY <2>1, HoldsOn DEF RingTypes
  <2>3. g_win' \in [0 .. WINDOW_LEN - 1 -> 0 .. MAX_FRAMES]
    <3>1. frame_num % WINDOW_LEN \in 0 .. WINDOW_LEN - 1 /\ frame_num \in 0 .. MAX_FRAMES
      BY <2>1
    <3> QED
      BY <2>1, <3>1 DEF RingTypes
  <2>4. Holds(send_us, LATRING)'
    BY <2>1, <2>2 DEF Holds
  <2>5. frame_num' \in 0 .. MAX_FRAMES /\ pc' \in Loop
    BY <2>1 DEF Loop
  <2> QED
    BY <1>1, <1>2, <2>1, <2>2, <2>3, <2>4, <2>5 DEF RingTypes
<1> QED
  BY <1>3, <1>4

\* The device moves its session when it takes a packet or decides a window.
LEMMA SessionRests ==
  ASSUME SessionInv, [Next]_vars, ~DevTake, ~DevDecide, ~Unplug
  PROVE  SameSession(dev', dev) /\ dev'.stream = dev.stream
<1>1. dev \in Devices
  BY DEF SessionInv, LinkInv, LinkTypes, DevOK
<1>2. CASE dev' = dev
  BY <1>2 DEF SameSession
<1>3. CASE DevAnswer
  BY <1>1, <1>3 DEF DevAnswer, Devices, SameSession
<1>4. CASE dev' = AgedRsp(dev)
  <2>1. CASE dev.rsp = NoResponse
    BY <1>2, <1>4, <2>1 DEF AgedRsp
  <2>2. CASE dev.rsp # NoResponse
    <3>1. dev' = [dev EXCEPT !.rsp = [dev.rsp EXCEPT !.id = 0]]
      BY <1>4, <2>2 DEF AgedRsp
    <3> QED
      BY <1>1, <3>1 DEF Devices, SameSession
  <2> QED
    BY <2>1, <2>2
<1>5. CASE SendCommand \/ AfterPoll
  BY <1>2, <1>4, <1>5 DEF SendCommand, AfterPoll, Write
<1>6. CASE LoseDown \/ LoseUp \/ Replug \/ Sigint
  BY <1>2, <1>6 DEF LoseDown, LoseUp, Replug, Sigint, linkVars
<1>7. CASE Open \/ OpenFails \/ Wake \/ Abandon \/ WaitOther \/ WaitMatch \/ WaitTimeout
  BY <1>2, <1>7 DEF Open, OpenFails, Wake, Abandon, WaitOther, WaitMatch, WaitTimeout, linkVars
<1>8. CASE SendFrame \/ Count \/ Poll \/ Shutdown \/ UNCHANGED vars
  BY <1>2, <1>8 DEF SendFrame, Count, Poll, Shutdown, linkVars, vars
<1> QED
  BY <1>3, <1>5, <1>6, <1>7, <1>8 DEF Next, DevStep, HostStep, Finished

\* What the device makes of the packet it takes.
LEMMA TakeSession ==
  ASSUME SessionInv, DevTake
  PROVE  LET p == Head(down)
         IN  /\ p = down[1] /\ 1 \in 1 .. Len(down) /\ p \in Packets
             /\ Ready(dev, p)
             /\ IsFeature(p) =>
                  /\ p.fn \in Nat /\ dev'.stream = dev.stream /\ dev'.decided = dev.decided /\ dev'.rsp = dev.rsp
                  /\ dev.stream =>
                       /\ dev'.commits = dev.commits + 1 /\ dev'.window = Shift(dev.window, p.fn)
                       /\ dev'.job = IF EndsWindow(dev.commits + 1) THEN Shift(dev.window, p.fn) ELSE dev.job
                  /\ ~dev.stream => SameSession(dev', dev)
             /\ ~IsFeature(p) =>
                  /\ p.type \in CommandTypes
                  /\ p.type \in {"START", "RESET"} => Fresh(dev')
                  /\ p.type \notin {"START", "RESET"} => SameSession(dev', dev)
                  /\ dev'.stream = IF p.type = "START" THEN TRUE ELSE IF p.type \in {"RESET", "STOP"} THEN FALSE ELSE dev.stream
<1> DEFINE p == Head(down)
<1>1. down # <<>> /\ dev' = Receive(dev, p) /\ Ready(dev, p) /\ LinkInv /\ DevOK(dev)
  BY DEF DevTake, SessionInv, LinkInv, LinkTypes
<1>2. p = down[1] /\ 1 \in 1 .. Len(down) /\ p \in Packets
  BY <1>1, DownHead
<1> HIDE DEF p
<1>3. CASE IsFeature(p)
  <2>1. p.fn \in Nat /\ dev' = Commit(dev, p.fn)
    BY <1>1, <1>2, <1>3 DEF Packets, IsFeature, Receive, CommandTypes
  <2>2. dev'.stream = dev.stream /\ dev'.rsp = dev.rsp /\ dev'.decided = dev.decided
    BY <1>1, <2>1, CommitKeeps, CommitCounts
  <2>3. dev.stream =>
          /\ dev'.commits = dev.commits + 1 /\ dev'.window = Shift(dev.window, p.fn)
          /\ dev'.job = IF EndsWindow(dev.commits + 1) THEN Shift(dev.window, p.fn) ELSE dev.job
    BY <1>1, <2>1, CommitCounts
  <2>4. ~dev.stream => SameSession(dev', dev)
    BY <1>1, <2>1, CommitCounts DEF SameSession
  <2> QED
    BY <1>1, <1>2, <1>3, <2>1, <2>2, <2>3, <2>4 DEF p
<1>4. CASE ~IsFeature(p)
  <2>1. p.type \in CommandTypes
    BY <1>2, <1>4 DEF Packets, IsFeature
  <2>2. /\ p.type \in {"START", "RESET"} => Fresh(dev')
        /\ p.type \notin {"START", "RESET"} => SameSession(dev', dev)
    BY <1>1, <1>2, <2>1, CommandSession
  <2>3. dev'.stream = IF p.type = "START" THEN TRUE ELSE IF p.type \in {"RESET", "STOP"} THEN FALSE ELSE dev.stream
    <3>1. Receive(dev, p).stream = IF p.type = "START" THEN TRUE ELSE IF p.type \in {"RESET", "STOP"} THEN FALSE ELSE dev.stream
      BY <1>1, <1>2, <2>1, CommandKeeps
    <3> QED
      BY <1>1, <3>1
  <2> QED
    BY <1>1, <1>2, <1>4, <2>1, <2>2, <2>3 DEF p
<1> QED
  BY <1>3, <1>4

LEMMA JobKeepsNumber ==
  ASSUME SessionInv, NumberInv, [Next]_vars, dev'.job # <<>>
  PROVE  dev'.job[WINDOW_LEN] < Handed'
<1>1. DevOK(dev) /\ dev \in Devices /\ DevOK(dev') /\ LinkInv
  BY NextSession DEF SessionInv, LinkInv, LinkTypes, DevOK
<1>2. Handed \in Nat /\ Handed' \in Nat /\ Handed <= Handed'
  BY HandedGrows
<1>3. CASE dev'.job = dev.job
  <2>1. dev.job[WINDOW_LEN] < Handed
    BY <1>3 DEF NumberInv
  <2>2. dev.job \in Seq(Nat) /\ WINDOW_LEN \in 1 .. Len(dev.job)
    BY <1>1, <1>3, DeviceAssumption DEF DevOK, Devices
  <2>3. dev.job[WINDOW_LEN] \in Nat
    BY <2>2, LenProperties
  <2> QED
    BY <1>2, <1>3, <2>1, <2>3
<1>4. CASE DevDecide
  <2>1. dev'.job = <<>>
    BY <1>1, <1>4, DecideCounts DEF DevDecide
  <2> QED
    BY <2>1
<1>5. CASE Unplug
  <2>1. dev' = dev \/ dev'.job = <<>>
    BY <1>5 DEF Unplug, DevPowerUp, NoJob
  <2> QED
    BY <1>3, <2>1
<1>6. CASE DevTake
  <2> DEFINE p == Head(down)
  <2>1. /\ p = down[1] /\ 1 \in 1 .. Len(down) /\ p \in Packets
        /\ IsFeature(p) =>
             /\ p.fn \in Nat
             /\ dev.stream => dev'.job = IF EndsWindow(dev.commits + 1) THEN Shift(dev.window, p.fn) ELSE dev.job
             /\ ~dev.stream => SameSession(dev', dev)
        /\ ~IsFeature(p) => Fresh(dev') \/ SameSession(dev', dev)
    BY <1>6, TakeSession
  <2> HIDE DEF p
  <2>2. CASE IsFeature(p) /\ dev'.job = Shift(dev.window, p.fn)
    <3>1. dev.window \in Seq(Nat) /\ Len(dev.window) <= WINDOW_LEN
      BY <1>1, DeviceAssumption DEF DevOK, Devices
    <3>2. p.fn \in Nat /\ Len(dev'.job) > 0 /\ dev'.job[Len(dev'.job)] = p.fn
      BY <2>1, <2>2, <3>1, ShiftEnds
    <3>3. Len(dev'.job) = WINDOW_LEN
      BY <1>1 DEF DevOK
    <3>4. p.fn < Handed
      BY <2>1, <2>2 DEF NumberInv
    <3> QED
      BY <1>2, <3>2, <3>3, <3>4
  <2> QED
    BY <1>3, <2>1, <2>2 DEF Fresh, SameSession
<1> QED
  BY <1>3, <1>4, <1>5, <1>6, SessionRests DEF SameSession

LEMMA NumberKeeps ==
  ASSUME SessionInv, RingTypes, NumberInv, [Next]_vars
  PROVE  NumberInv'
<1> USE SessionAssumption
<1>1. /\ LinkInv /\ LinkInv' /\ down \in Seq(Packets) /\ up \in Seq(Replies \cup Events) /\ dev \in Devices
      /\ down' \in Seq(Packets) /\ up' \in Seq(Replies \cup Events) /\ Len(up) \in Nat /\ Len(up') \in Nat
  BY NextSession, LenProperties DEF SessionInv, LinkInv, LinkTypes, DevOK
<1>2. Handed \in Nat /\ Handed' \in Nat /\ Handed <= Handed' /\ frame_num \in Nat
  BY HandedGrows
<1>3. ASSUME NEW i \in 1 .. Len(down'), IsFeature(down'[i]) PROVE down'[i].fn < Handed'
  <2>1. \A j \in 1 .. Len(down) : down[j].fn \in Nat
    <3>1. ASSUME NEW j \in 1 .. Len(down) PROVE down[j].fn \in Nat
      <4>1. down[j] \in Packets
        BY <1>1, LenProperties
      <4> QED
        BY <4>1 DEF Packets
    <3> QED
      BY <3>1
  <2>2. CASE \E j \in 1 .. Len(down) : IsFeature(down[j]) /\ down[j].fn = down'[i].fn
    BY <1>2, <2>1, <2>2 DEF NumberInv
  <2>3. CASE SendFrame
    <3>1. CASE down' = down
      BY <1>3, <2>2, <3>1
    <3>2. CASE down' # down
      <4> DEFINE p == [type |-> "FEATURE", fn |-> frame_num, id |-> 0]
      <4>1. down' = Append(down, p) /\ p \in Packets /\ p.fn = frame_num
        BY <1>2, <2>3, <3>2 DEF SendFrame, Packets
      <4> HIDE DEF p
      <4>2. (i \in 1 .. Len(down) /\ down'[i] = down[i]) \/ down'[i] = p
        BY <1>1, <4>1, DownAppends
      <4>3. Handed' = frame_num + 1
        BY <2>3, <3>2, HandedGrows
      <4>4. CASE i \in 1 .. Len(down) /\ down'[i] = down[i]
        BY <1>3, <2>2, <4>4
      <4>5. CASE down'[i] = p
        BY <1>2, <4>1, <4>3, <4>5
      <4> QED
        BY <4>2, <4>4, <4>5
    <3> QED
      BY <3>1, <3>2
  <2>4. CASE ~SendFrame
    BY <1>3, <2>2, <2>4, FramesKept DEF NoNewFrames
  <2> QED
    BY <2>3, <2>4
<1>4. ASSUME NEW i \in 1 .. Len(up'), IsEvent(up'[i])
      PROVE  \/ up'[i].fn < Handed'
             \/ up'[i].fn = Foreign /\ i = 1 /\ pc' \notin Loop /\ frame_num' = 0
  <2>1. \A j \in 1 .. Len(up) : IsEvent(up[j]) => up[j].fn \in Nat
    <3>1. ASSUME NEW j \in 1 .. Len(up), IsEvent(up[j]) PROVE up[j].fn \in Nat
      <4>1. up[j] \in Events
        BY <1>1, <3>1, LenProperties, PacketKinds DEF IsEvent
      <4> QED
        BY <4>1 DEF Events
    <3> QED
      BY <3>1
  <2>2. CASE ~DevDecide
    <3>1. PICK j \in 1 .. Len(up) : j >= i /\ IsEvent(up[j]) /\ up[j] = up'[i]
      BY <1>4, <2>2, EventsKept DEF NoNewEvents
    <3>2. CASE up[j].fn < Handed
      BY <1>2, <2>1, <3>1, <3>2
    <3>3. CASE up[j].fn = Foreign /\ j = 1 /\ pc \notin Loop /\ frame_num = 0
      <4>1. i = 1 /\ up'[1] = up[1]
        BY <1>1, <3>1, <3>3
      <4>2. ~Count
        BY <3>3 DEF Count, Loop
      <4>3. frame_num' = 0
        BY <3>3, <4>2, OnlyCount
      <4>4. pc' \notin Loop
        <5>1. CASE WaitMatch
          <6>1. IsEvent(up[1]) /\ Head(up) = up[1] /\ up # <<>>
            BY <1>1, <3>1, <3>3, <5>1, UpTail DEF WaitMatch, Readable
          <6>2. ResponseType(cmd) \in ReplyTypes
            BY PacketKinds DEF SessionInv, HostTypes
          <6>3. ~Matches(Head(up))
            BY <6>1, <6>2 DEF Matches, IsEvent, ReplyTypes
          <6> QED
            BY <5>1, <6>3 DEF WaitMatch
        <5>2. CASE ~WaitMatch
          <6>1. CASE DevStep \/ LoseDown \/ LoseUp \/ Unplug \/ Replug \/ Sigint
            BY <3>3, <6>1 DEF DevStep, DevTake, DevAnswer, DevDecide, LoseDown, LoseUp, Unplug, Replug, Sigint, hostVars
          <6>2. CASE Open \/ OpenFails \/ Wake \/ Abandon \/ SendCommand \/ WaitTimeout
            BY <6>2 DEF Open, OpenFails, Wake, Abandon, SendCommand, WaitTimeout, Fail, Close, Stay, Loop
          <6>3. CASE WaitOther \/ UNCHANGED vars
            BY <3>3, <6>3 DEF WaitOther, hostVars, vars
          <6>4. ~SendFrame /\ ~Poll /\ ~AfterPoll /\ ~Shutdown
            BY <3>3 DEF SendFrame, Poll, AfterPoll, Shutdown, Loop
          <6> QED
            BY <4>2, <5>2, <6>1, <6>2, <6>3, <6>4 DEF Next, HostStep, Finished
        <5> QED
          BY <5>1, <5>2
      <4> QED
        BY <3>1, <3>3, <4>1, <4>3, <4>4
    <3> QED
      BY <3>1, <3>2, <3>3 DEF NumberInv
  <2>3. CASE DevDecide
    <3>1. UNCHANGED <<pc, frame_num>>
      BY <2>3 DEF DevDecide, hostVars, streamVars
    <3>2. CASE i \in 1 .. Len(up) /\ up'[i] = up[i]
      BY <1>2, <1>4, <2>1, <3>1, <3>2 DEF NumberInv
    <3>3. CASE up'[i] = Event(dev)
      <4>1. dev.job # <<>>
        BY <2>3 DEF DevDecide, NoJob
      <4>2. up'[i].fn = dev.job[WINDOW_LEN] /\ dev.job[WINDOW_LEN] < Handed
        BY <3>3, <4>1 DEF Event, NumberInv
      <4>3. Handed' = Handed
        BY <3>1 DEF Handed
      <4> QED
        BY <4>2, <4>3
    <3>4. up' = up \/ \E p \in Replies \cup Events : up' = Append(up, p) /\ p = Event(dev)
      BY <1>1, <2>3, DevAppends DEF DevStep
    <3>5. (i \in 1 .. Len(up) /\ up'[i] = up[i]) \/ up'[i] = Event(dev)
      BY <1>1, <3>4, UpAppends
    <3> QED
      BY <3>2, <3>3, <3>5
  <2> QED
    BY <2>2, <2>3
<1>5. dev'.job # <<>> => dev'.job[WINDOW_LEN] < Handed'
  BY JobKeepsNumber
<1> QED
  BY <1>3, <1>4, <1>5 DEF NumberInv

LEMMA InitLatency == ASSUME Init PROVE LatencyInv
<1> USE SessionAssumption, DeviceAssumption
<1>1. /\ port = TRUE /\ attempt = 0 /\ resume = FALSE /\ frame_num = 0 /\ pc = "OPEN" /\ down = <<>>
      /\ send_us = [i \in 0 .. LATRING - 1 |-> MAX_FRAMES] /\ g_win = [i \in 0 .. WINDOW_LEN - 1 |-> MAX_FRAMES]
  BY DEF Init, None
<1>2. RingTypes
  <2>1. send_us \in [0 .. LATRING - 1 -> 0 .. MAX_FRAMES] /\ g_win \in [0 .. WINDOW_LEN - 1 -> 0 .. MAX_FRAMES]
    BY <1>1
  <2>2. Len(down) <= MAX_FLIGHT
    BY <1>1
  <2>3. ~(pc = "COUNT" \/ (resume /\ cmd \in Handshake /\ pc \notin Loop))
    BY <1>1
  <2>4. port \in BOOLEAN /\ resume \in BOOLEAN
    BY <1>1
  <2>5. attempt \in 0 .. 2 /\ frame_num \in 0 .. MAX_FRAMES
    BY <1>1
  <2> QED
    BY <2>1, <2>2, <2>3, <2>4, <2>5 DEF RingTypes
<1>3. Holds(send_us, LATRING)
  BY <1>1 DEF Holds
<1>4. dev.job = <<>>
  <2>1. DevPowerUp.job = <<>>
    BY DEF DevPowerUp, NoJob
  <2>2. [DevPowerUp EXCEPT !.stream = TRUE, !.commits = 1, !.window = <<Foreign>>].job = <<>>
    BY DEF DevPowerUp, NoJob
  <2> QED
    BY <2>1, <2>2 DEF Init
<1>5. \A i \in 1 .. Len(up) : i = 1 /\ up[i].fn = Foreign
  <2> DEFINE e == StaleEvent
  <2>1. e.fn = Foreign /\ (up = <<>> \/ up = <<e>>)
    BY DEF Init, StaleEvent
  <2> HIDE DEF e
  <2>2. Len(up) = 0 \/ (Len(up) = 1 /\ up[1] = e)
    BY <2>1
  <2> QED
    BY <2>1, <2>2
<1>6. NumberInv
  BY <1>1, <1>4, <1>5 DEF NumberInv, Loop
<1> QED
  BY <1>2, <1>3, <1>6 DEF LatencyInv

LEMMA TimedFromOwnFrame == ASSUME SessionInv, LatencyInv PROVE LatencyOfOwnFrame
<1> SUFFICES ASSUME pc \in {"POLL", "WAIT"}, NEW i \in 1 .. Len(up), up[i].type = "EVT", Measured(up[i].fn)
             PROVE  send_us[up[i].fn % LATRING] = up[i].fn
  BY DEF LatencyOfOwnFrame
<1> USE SessionAssumption
<1>1. frame_num > 0 /\ up[i].fn + LATRING >= frame_num
  BY DEF Measured
<1>2. Handed = frame_num /\ frame_num \in 0 .. MAX_FRAMES
  BY DEF Handed, LatencyInv, RingTypes
<1>3. up[i].fn < frame_num
  BY <1>1, <1>2 DEF LatencyInv, NumberInv, IsEvent
<1>4. up[i].fn \in Nat
  <2>1. up[i] \in Replies \cup Events
    BY LenProperties DEF SessionInv, LinkInv, LinkTypes
  <2> QED
    BY <2>1, PacketKinds DEF Events
<1> QED
  BY <1>1, <1>2, <1>3, <1>4 DEF LatencyInv, Holds

-----------------------------------------------------------------------------
(* A session in which nothing is lost. *)

Running == pc \in Loop \/ cmd \in {"STOP", FinalStats}

\* All that may have been reported before a session is the event of an earlier run, and
\* there is no other.
Overheard ==
  \/ hw = <<>>
  \/ hw = <<Foreign>> /\ \A i \in 1 .. Len(up) : ~IsEvent(up[i])

\* Before the first START is answered there is nothing of a session.
Untouched ==
  /\ frame_num = 0 /\ g_smooth = 0 /\ dev.job = <<>>
  /\ \A i \in 1 .. Len(down) : ~IsFeature(down[i])
  /\ dev_wins = <<>> /\ ref_wins = <<>> /\ Overheard /\ ref = <<>>
  /\ pc = "WAIT" /\ cmd = "START" /\ Acked => dev.commits = 0 /\ dev.decided = 0

\* The frames on the line are those handed to it and not committed, in order, and
\* ahead of a STOP.
FlowInv ==
  /\ dev.commits <= Handed
  /\ \A i \in 1 .. Len(down) : IsFeature(down[i]) =>
       /\ dev.stream /\ down[i].fn >= dev.commits
       /\ \A j \in 1 .. Len(down) : j > i /\ IsFeature(down[j]) => down[j].fn > down[i].fn
       /\ \A j \in 1 .. Len(down) : j < i => down[j].type # "STOP"
  /\ \A f \in 0 .. MAX_FRAMES : dev.commits <= f /\ f < Handed =>
       \E i \in 1 .. Len(down) : IsFeature(down[i]) /\ down[i].fn = f

\* The device has decided the windows its frames have ended, but for the one in
\* inference; its window holds the newest frames.
Ended(d) == IF d.job = <<>> THEN d.decided ELSE d.decided + 1

DevWindows ==
  /\ Counted(dev.commits, Ended(dev))
  /\ dev.job # <<>> => dev.job = Win(dev.decided + 1)
  /\ \A t \in 1 .. Len(dev.window) : dev.window[t] = (dev.commits - Len(dev.window)) + (t - 1)
  /\ dev_wins \in Seq(Seq(Nat)) /\ Len(dev_wins) = dev.decided
  /\ \A k \in 1 .. dev.decided : dev_wins[k] = Win(k)

\* At the stride of the board the reference has decided all that its frames have ended.
RefWindows == SameStride =>
  /\ g_smooth \in Nat /\ Counted(frame_num, g_smooth) /\ Holds(g_win, WINDOW_LEN)
  /\ ref_wins \in Seq(Seq(Nat)) /\ Len(ref_wins) = g_smooth
  /\ \A k \in 1 .. g_smooth : ref_wins[k] = Win(k)
  /\ ref \in Seq(Nat) /\ Lists(ref, g_smooth)

\* What was reported are the events of the first r windows, behind one of an earlier run
\* or not.
Heard(r) == \E h \in Seq(Nat) : hw \in {h, <<Foreign>> \o h} /\ Lists(h, r)

\* The events read are those of the first r windows, and the others are under way, in order.
ReadUpTo(r) ==
  /\ Heard(r)
  /\ \A i \in 1 .. Len(up) : IsEvent(up[i]) =>
       /\ up[i].nth > r /\ up[i].nth <= dev.decided /\ up[i].nth \in FIRING /\ up[i].fn = EndOf(up[i].nth)
       /\ \A j \in 1 .. Len(up) : j > i /\ IsEvent(up[j]) => up[j].nth > up[i].nth
  /\ \A k \in FIRING : r < k /\ k <= dev.decided => \E i \in 1 .. Len(up) : IsEvent(up[i]) /\ up[i].nth = k

EventsRead == hw \in Seq(Nat) /\ (pc \in Loop => \E r \in 0 .. dev.decided : ReadUpTo(r))

StepInv ==
  faults = 0 =>
    /\ ~resume
    /\ ~Running => Untouched
    /\ Running => FlowInv /\ DevWindows /\ RefWindows /\ EventsRead

\* The first acknowledgement of a START begins the session.
Enter == WaitMatch /\ pc = "WAIT" /\ cmd = "START" /\ pc' = "LOOP" /\ cmd' = "START"

LEMMA NothingLost ==
  ASSUME SessionInv, [Next]_vars, faults' = 0
  PROVE  faults = 0 /\ ~LoseDown /\ ~LoseUp /\ ~Unplug
<1>1. faults \in Nat
  BY DEF SessionInv, HostTypes
<1>2. Fault => faults' # 0
  BY <1>1 DEF Fault
<1>3. ~LoseDown /\ ~LoseUp /\ ~Unplug
  BY <1>2 DEF LoseDown, LoseUp, Unplug
<1>4. CASE DevTake \/ DevAnswer \/ DevDecide
  BY <1>3, <1>4 DEF DevTake, DevAnswer, DevDecide, histVars
<1>5. CASE Replug \/ Sigint \/ UNCHANGED vars
  BY <1>3, <1>5 DEF Replug, Sigint, histVars, vars
<1>6. CASE Open \/ OpenFails \/ Wake \/ Abandon \/ Count \/ Shutdown
  BY <1>3, <1>6 DEF Open, OpenFails, Wake, Abandon, Count, Shutdown, histVars
<1>7. CASE SendCommand \/ WaitTimeout \/ SendFrame
  BY <1>2, <1>3, <1>7 DEF SendCommand, WaitTimeout, SendFrame
<1>8. CASE WaitOther \/ WaitMatch \/ Poll \/ AfterPoll
  BY <1>3, <1>8 DEF WaitOther, WaitMatch, Poll, AfterPoll
<1> QED
  BY <1>3, <1>4, <1>5, <1>6, <1>7, <1>8 DEF Next, DevStep, HostStep, Finished

LEMMA GoodSends ==
  ASSUME SessionInv, StopSession, [Next]_vars, faults' = 0
  PROVE  /\ pc \in Loop \cup {"SEND", "WAIT"} => conn = "good"
         /\ SendCommand => conn = "good" /\ Write(Packet(cmd)) /\ pc = "SEND" /\ pc' = "WAIT" /\ UNCHANGED <<cmd, resume, attempt>>
         /\ SendFrame => /\ conn = "good" /\ down' = Append(down, [type |-> "FEATURE", fn |-> frame_num, id |-> 0])
                         /\ pc = "LOOP" /\ pc' = "COUNT" /\ UNCHANGED <<cmd, resume, attempt, dev, up>>
<1>1. faults = 0 /\ conn \in {"none", "good", "dead"} /\ conn # "dead" /\ faults \in Nat
  BY NothingLost DEF SessionInv, StopSession, StopInv, HostTypes
<1>2. ~Fault
  BY <1>1 DEF Fault
<1>3. pc \in Loop \cup {"SEND", "WAIT"} => conn = "good"
  BY <1>1 DEF SessionInv, PortInv, Loop
<1>4. SendCommand => conn = "good" /\ Write(Packet(cmd)) /\ pc = "SEND" /\ pc' = "WAIT" /\ UNCHANGED <<cmd, resume, attempt>>
  BY <1>1, <1>2 DEF SendCommand, Stay
<1>5. SendFrame => /\ conn = "good" /\ down' = Append(down, [type |-> "FEATURE", fn |-> frame_num, id |-> 0])
                   /\ pc = "LOOP" /\ pc' = "COUNT" /\ UNCHANGED <<cmd, resume, attempt, dev, up>>
  BY <1>1, <1>2 DEF SendFrame
<1> QED
  BY <1>3, <1>4, <1>5

LEMMA RunningMoves ==
  ASSUME SessionInv, StopSession, ~resume, [Next]_vars, faults' = 0
  PROVE  /\ ~resume' /\ (Running => Running')
         /\ Running' /\ ~Running => Enter
         /\ pc' \in Loop /\ pc \notin Loop => Enter
         /\ pc' = "WAIT" /\ cmd' = "START" => (pc = "WAIT" /\ cmd = "START") \/ SendCommand
<1>1. CASE DevTake \/ DevAnswer \/ DevDecide \/ Replug \/ Sigint \/ UNCHANGED vars
  BY <1>1 DEF DevTake, DevAnswer, DevDecide, Replug, Sigint, hostVars, vars, Running
<1>2. CASE Open
  <2>1. pc = "OPEN" /\ pc' = "SEND" /\ cmd \in Handshake /\ resume' = resume
    BY <1>2 DEF Open, SessionInv, PortInv
  <2> QED
    BY <1>2, <2>1 DEF Open, Running, Loop, Handshake, FinalStats
<1>3. CASE OpenFails \/ Wake \/ Abandon
  <2>1. pc \notin Loop /\ pc' \notin Loop /\ pc' # "WAIT" /\ UNCHANGED <<cmd, resume>>
    BY <1>3 DEF OpenFails, Wake, Abandon, Stay, Loop
  <2> QED
    BY <2>1 DEF Running
<1>4. CASE SendCommand
  <2>1. pc \notin Loop /\ pc' \notin Loop /\ UNCHANGED <<cmd, resume>>
    BY <1>4, GoodSends DEF Loop
  <2> QED
    BY <1>4, <2>1 DEF Running
<1>5. CASE WaitOther \/ Poll
  BY <1>5 DEF WaitOther, Poll, hostVars, Running
<1>6. CASE WaitMatch
  <2>1. pc = "WAIT" /\ resume' = resume
    BY <1>6 DEF WaitMatch, Close, Stay, Succeed
  <2>2. CASE cmd' = cmd /\ pc' \in {"SLEEP", "DONE"}
    BY <2>1, <2>2 DEF Running, Loop
  <2>3. CASE Succeed
    <3>1. CASE cmd = "START"
      BY <1>6, <2>1, <2>3, <3>1 DEF Succeed, Enter, Running, Loop, FinalStats
    <3>2. CASE cmd # "START"
      BY <2>1, <2>3, <3>2 DEF Succeed, Running, Loop, FinalStats
    <3> QED
      BY <3>1, <3>2
  <2> QED
    BY <1>6, <2>2, <2>3 DEF WaitMatch, Close, Stay
<1>7. CASE WaitTimeout
  <2>1. pc = "WAIT" /\ resume' = resume /\ pc' \in {"SEND", "SLEEP", "DONE"}
        /\ (cmd' = cmd \/ (cmd = "STOP" /\ cmd' = FinalStats))
    BY <1>7 DEF WaitTimeout, Fail, Close, Stay
  <2> QED
    BY <2>1 DEF Running, Loop
<1>8. CASE SendFrame
  BY <1>8, GoodSends DEF Running, Loop
<1>9. CASE Count \/ AfterPoll \/ Shutdown
  BY <1>9 DEF Count, AfterPoll, Shutdown, Stay, Running, Loop
<1> QED
  BY <1>1, <1>2, <1>3, <1>4, <1>5, <1>6, <1>7, <1>8, <1>9, NothingLost DEF Next, DevStep, HostStep, Finished

LEMMA OnlyReads ==
  ASSUME [Next]_vars
  PROVE  /\ ~WaitOther /\ ~Poll => hw' = hw
         /\ ~DevDecide => dev_wins' = dev_wins
<1>1. CASE DevTake \/ DevAnswer \/ DevDecide
  BY <1>1 DEF DevTake, DevAnswer, DevDecide, histVars
<1>2. CASE LoseDown \/ LoseUp \/ Unplug \/ Replug \/ Sigint \/ UNCHANGED vars
  BY <1>2 DEF LoseDown, LoseUp, Unplug, Replug, Sigint, histVars, vars
<1>3. CASE Open \/ OpenFails \/ Wake \/ Abandon \/ Count \/ Shutdown
  BY <1>3 DEF Open, OpenFails, Wake, Abandon, Count, Shutdown, histVars
<1>4. CASE SendCommand \/ WaitTimeout \/ SendFrame
  BY <1>4 DEF SendCommand, WaitTimeout, SendFrame
<1>5. CASE WaitOther \/ WaitMatch \/ Poll \/ AfterPoll
  BY <1>5 DEF WaitOther, WaitMatch, Poll, AfterPoll
<1> QED
  BY <1>1, <1>2, <1>3, <1>4, <1>5 DEF Next, DevStep, HostStep, Finished

-----------------------------------------------------------------------------
(* Before a session. *)

\* A command just written has not been answered.
LEMMA NotYetAcked ==
  ASSUME LinkInv, NEW p, Write(p)
  PROVE  ~Acked'
<1>1. up \in Seq(Replies \cup Events) /\ dev \in Devices /\ up' = Aged(up) /\ dev' = AgedRsp(dev)
  BY DEF LinkInv, LinkTypes, DevOK, Write
<1>2. /\ Len(Aged(up)) = Len(up)
      /\ \A i \in 1 .. Len(up) : Aged(up)[i].type = up[i].type /\ (IsReply(up[i]) => Aged(up)[i].id = 0)
  BY <1>1, AgedUp
<1>3. ~Answered("ACK", 1)'
  BY <1>1, <1>2 DEF Answered, IsReply
<1>4. ~Answering("ACK", 1)'
  <2>1. CASE dev.rsp = NoResponse
    BY <1>1, <2>1 DEF AgedRsp, Answering
  <2>2. CASE dev.rsp # NoResponse
    <3>1. dev' = [dev EXCEPT !.rsp = [dev.rsp EXCEPT !.id = 0]] /\ dev.rsp \in Replies
      BY <1>1, <2>2 DEF AgedRsp, Devices
    <3>2. dev'.rsp = [dev.rsp EXCEPT !.id = 0]
      BY <1>1, <3>1 DEF Devices
    <3>3. dev'.rsp.id = 0
      BY <3>1, <3>2 DEF Replies
    <3> QED
      BY <3>3 DEF Answering
  <2> QED
    BY <2>1, <2>2
<1> QED
  BY <1>3, <1>4 DEF Acked

\* Until then all that the host reads of a device is replies and an event of an earlier
\* run, which is first on the line.
LEMMA OnlyOverheard ==
  ASSUME SessionInv, LatencyInv, Overheard, faults = 0, frame_num = 0, pc # "COUNT",
         up # <<>>, Handle(Head(up)), up' = Tail(up)
  PROVE  Overheard'
<1>1. up \in Seq(Replies \cup Events) /\ Head(up) = up[1] /\ 1 \in 1 .. Len(up) /\ Head(up) \in Replies \cup Events
      /\ Len(up) \in Nat
  BY UpTail, LenProperties DEF SessionInv, LinkInv, LinkTypes
<1>2. Handed = 0
  BY DEF Handed
<1>3. \A i \in 1 .. Len(up) : IsEvent(up[i]) => i = 1 /\ up[i].fn = Foreign
  <2> SUFFICES ASSUME NEW i \in 1 .. Len(up), IsEvent(up[i]) PROVE i = 1 /\ up[i].fn = Foreign
    OBVIOUS
  <2>1. up[i] \in Replies \cup Events
    BY <1>1, LenProperties
  <2>2. up[i].fn \in Nat
    BY <2>1, PacketKinds DEF Events, IsEvent
  <2> QED
    BY <1>2, <2>2 DEF LatencyInv, NumberInv
<1>4. \A i \in 1 .. Len(up') : ~IsEvent(up'[i])
  <2> SUFFICES ASSUME NEW i \in 1 .. Len(up'), IsEvent(up'[i]) PROVE FALSE
    OBVIOUS
  <2>1. Len(Tail(up)) = Len(up) - 1 /\ \A j \in 1 .. Len(Tail(up)) : Tail(up)[j] = up[j + 1]
    BY <1>1, HeadTailProperties
  <2>2. i + 1 \in 1 .. Len(up) /\ up'[i] = up[i + 1] /\ i + 1 # 1
    BY <1>1, <2>1
  <2> QED
    BY <1>3, <2>2
<1>5. CASE IsEvent(Head(up))
  <2>1. hw = <<>> /\ Head(up).fn = Foreign
    BY <1>1, <1>3, <1>5 DEF Overheard
  <2>2. hw' \in {<<>>, <<Foreign>>}
    BY <1>5, <2>1 DEF Handle, Note
  <2> QED
    BY <1>4, <2>2 DEF Overheard
<1>6. CASE ~IsEvent(Head(up))
  <2>1. hw' = hw
    BY <1>6 DEF Handle, IsEvent
  <2> QED
    BY <1>4, <2>1 DEF Overheard
<1> QED
  BY <1>5, <1>6

LEMMA UntouchedKeeps ==
  ASSUME SessionInv, StopSession, LatencyInv, ~resume, Untouched, ~Running, ~Running', [Next]_vars, faults' = 0
  PROVE  Untouched'
<1>1. LinkInv /\ pc \notin Loop /\ pc' \notin Loop /\ dev \in Devices /\ dev.job = <<>>
  BY DEF SessionInv, Running, LinkInv, LinkTypes, DevOK, Untouched
<1>2. ~SendFrame /\ ~Count /\ ~Poll /\ ~AfterPoll /\ ~Shutdown /\ ~DevDecide
  BY <1>1 DEF SendFrame, Count, Poll, AfterPoll, Shutdown, DevDecide, Loop, NoJob
<1>3. faults = 0 /\ ~LoseDown /\ ~LoseUp /\ ~Unplug
  BY NothingLost
<1>4. UNCHANGED <<frame_num, g_smooth, ref, ref_wins, dev_wins>>
  BY <1>2, OnlyCount, OnlyReads
<1>5. Overheard'
  <2>1. CASE WaitOther
    BY <1>1, <1>3, <2>1, OnlyOverheard DEF WaitOther, Readable, Untouched, Loop
  <2>2. CASE ~WaitOther
    <3>1. hw' = hw /\ NoNewEvents
      BY <1>2, <2>2, OnlyReads, EventsKept
    <3> QED
      BY <3>1 DEF NoNewEvents, Overheard, Untouched
  <2> QED
    BY <2>1, <2>2
<1>6. \A i \in 1 .. Len(down') : ~IsFeature(down'[i])
  BY <1>2, FramesKept DEF NoNewFrames, Untouched
<1>7. /\ DevTake => Fresh(dev') \/ SameSession(dev', dev)
      /\ ~DevTake => SameSession(dev', dev)
  <2>1. CASE DevTake
    BY <2>1, TakeSession DEF Untouched
  <2>2. CASE ~DevTake
    BY <1>2, <1>3, <2>2, SessionRests
  <2> QED
    BY <2>1, <2>2
<1>8. dev'.job = <<>>
  BY <1>1, <1>7 DEF Fresh, SameSession
<1>9. ASSUME pc' = "WAIT", cmd' = "START", Acked' PROVE dev'.commits = 0 /\ dev'.decided = 0
  <2>1. ~SendCommand
    BY NotYetAcked, GoodSends, <1>1, <1>9
  <2>2. pc = "WAIT" /\ cmd = "START"
    BY <1>9, <2>1, RunningMoves
  <2>3. ~DevTake => Acked
    <3>1. CASE DevAnswer \/ Replug \/ Sigint
      <4>1. ~DevTake => Outside
        BY <3>1 DEF Outside, DevStep
      <4> QED
        BY <1>1, <1>9, <4>1, AckedKept
    <3>2. CASE WaitOther
      <4>1. dev' = dev /\ up # <<>> /\ up' = Tail(up)
        BY <3>2 DEF WaitOther, Readable
      <4>2. up' \in Seq(Replies \cup Events) /\ Part(up', up)
        BY <1>1, <4>1, UpTail
      <4> QED
        BY <1>1, <1>9, <4>1, <4>2, PartStillAnswered DEF Acked, Answering
    <3>3. CASE UNCHANGED vars
      BY <1>9, <3>3 DEF vars, linkVars, Acked, Answering, Answered
    <3>4. ~Open /\ ~OpenFails /\ ~Wake /\ ~Abandon
      BY <2>2 DEF Open, OpenFails, Wake, Abandon
    <3>5. ~WaitTimeout /\ ~WaitMatch
      BY <1>9, <2>2 DEF WaitTimeout, WaitMatch, Fail, Succeed, Close, Stay, FinalStats
    <3> QED
      BY <1>2, <1>3, <2>1, <3>1, <3>2, <3>3, <3>4, <3>5 DEF Next, DevStep, HostStep, Finished
  <2>4. CASE ~DevTake
    BY <1>7, <2>2, <2>3, <2>4 DEF SameSession, Untouched
  <2>5. CASE DevTake
    <3> DEFINE p == Head(down)
    <3>1. /\ p = down[1] /\ 1 \in 1 .. Len(down) /\ p \in Packets
          /\ ~IsFeature(p) => p.type \in CommandTypes /\ (p.type \in {"START", "RESET"} => Fresh(dev'))
      BY <2>5, TakeSession
    <3>2. ~IsFeature(p)
      BY <3>1 DEF Untouched
    <3>3. p.id = 1
      BY <1>1, <1>9, <2>5, <3>2, AckIsOfTaken DEF IsFeature
    <3> HIDE DEF p
    <3>4. p.type = "START"
      BY <2>2, <3>1, <3>2, <3>3 DEF StopSession, StopInv, Named
    <3> QED
      BY <3>1, <3>2, <3>4 DEF Fresh
  <2> QED
    BY <2>4, <2>5
<1> QED
  BY <1>4, <1>5, <1>6, <1>8, <1>9 DEF Untouched, Acked

LEMMA EnterBegins ==
  ASSUME SessionInv, StopSession, LatencyInv, Untouched, Enter, [Next]_vars, LatencyInv'
  PROVE  FlowInv' /\ DevWindows' /\ RefWindows' /\ EventsRead'
<1> USE DeviceAssumption
<1>1. /\ dev' = dev /\ down' = down /\ UNCHANGED <<streamVars, hw, ref, dev_wins, ref_wins>> /\ LinkInv /\ DevOK(dev)
      /\ up # <<>> /\ Matches(Head(up)) /\ own' = (Head(up).type # "EVT" /\ Head(up).id = 1)
      /\ pc = "WAIT" /\ cmd = "START" /\ pc' = "LOOP"
  BY DEF Enter, WaitMatch, Readable, SessionInv, LinkInv, LinkTypes
<1>2. SessionInv'
  BY NextSession
<1>3. own'
  BY <1>1, <1>2 DEF SessionInv, OwnInv, StartIsOwn, Loop
<1>4. Acked
  <2>1. Head(up) = up[1] /\ 1 \in 1 .. Len(up)
    BY <1>1, UpTail
  <2>2. Head(up).type = "ACK"
    BY <1>1 DEF Matches, ResponseType
  <2> QED
    BY <1>1, <1>3, <2>1, <2>2 DEF Acked, Answered, IsReply
<1>5. /\ dev.commits = 0 /\ dev.decided = 0 /\ dev.job = <<>> /\ frame_num = 0 /\ g_smooth = 0
      /\ hw \in {<<>>, <<Foreign>>} /\ ref = <<>> /\ dev_wins = <<>> /\ ref_wins = <<>>
      /\ \A i \in 1 .. Len(down) : ~IsFeature(down[i])
  BY <1>1, <1>4 DEF Untouched, Overheard
<1>6. /\ dev'.commits = 0 /\ dev'.decided = 0 /\ dev'.job = <<>> /\ frame_num' = 0 /\ g_smooth' = 0
      /\ hw' \in {<<>>, <<Foreign>>} /\ ref' = <<>> /\ dev_wins' = <<>> /\ ref_wins' = <<>> /\ Handed' = 0
      /\ \A i \in 1 .. Len(down') : ~IsFeature(down'[i])
  BY <1>1, <1>5 DEF streamVars, Handed
<1>7. FlowInv'
  BY <1>6 DEF FlowInv
<1>8. Counted(0, 0)
  BY Begins DEF Counted
<1>9. DevWindows'
  <2>1. Len(dev'.window) = 0
    BY <1>1, <1>5 DEF DevOK
  <2>2. Ended(dev') = 0
    BY <1>6 DEF Ended
  <2>3. dev_wins' \in Seq(Seq(Nat)) /\ Len(dev_wins') = 0
    BY <1>6
  <2> QED
    BY <1>6, <1>8, <2>1, <2>2, <2>3 DEF DevWindows
<1>10. RefWindows'
  <2>1. Holds(g_win, WINDOW_LEN)'
    BY <1>6 DEF Holds
  <2>2. ref_wins' \in Seq(Seq(Nat)) /\ Len(ref_wins') = 0 /\ ref' \in Seq(Nat)
    BY <1>6
  <2>3. Lists(ref', 0)
    BY <1>6, NothingListed
  <2> QED
    BY <1>6, <1>8, <2>1, <2>2, <2>3 DEF RefWindows
<1>11. EventsRead'
  <2>1. \A i \in 1 .. Len(up') : ~IsEvent(up'[i])
    <3> SUFFICES ASSUME NEW i \in 1 .. Len(up'), IsEvent(up'[i]) PROVE FALSE
      OBVIOUS
    <3>1. up'[i].fn < 0
      BY <1>1, <1>6 DEF LatencyInv, NumberInv, Loop
    <3>2. up'[i] \in Replies \cup Events
      BY <1>2, LenProperties DEF SessionInv, LinkInv, LinkTypes
    <3>3. up'[i].fn \in Nat
      BY <3>2, PacketKinds DEF Events, IsEvent
    <3> QED
      BY <3>1, <3>3
  <2>2. hw' \in Seq(Nat) /\ Heard(0)' /\ 0 \in 0 .. dev'.decided
    <3>1. <<>> \in Seq(Nat) /\ <<Foreign>> \in Seq(Nat) /\ <<Foreign>> \o <<>> = <<Foreign>>
      BY ForeignFirst, EmptySeq
    <3>2. hw' \in {<<>>, <<Foreign>> \o <<>>} /\ hw' \in Seq(Nat)
      BY <1>6, <3>1
    <3>3. Heard(0)'
      BY <3>1, <3>2, NothingListed DEF Heard
    <3>4. 0 \in 0 .. dev'.decided
      BY <1>6
    <3> QED
      BY <3>2, <3>3, <3>4
  <2>3. ReadUpTo(0)'
    <3>1. \A k \in FIRING : ~(0 < k /\ k <= dev'.decided)
      <4>1. dev'.decided = 0
        BY <1>6
      <4>2. \A k \in FIRING : k \in Nat
        BY DeviceAssumption
      <4> QED
        BY <4>1, <4>2
    <3> QED
      BY <2>1, <2>2, <3>1 DEF ReadUpTo
  <2> QED
    BY <2>2, <2>3 DEF EventsRead
<1> QED
  BY <1>7, <1>9, <1>10, <1>11

-----------------------------------------------------------------------------
(* The frames on the line. *)

LEMMA HandedRests ==
  ASSUME SessionInv, ~resume, [Next]_vars, ~SendFrame
  PROVE  Handed' = Handed
<1>1. CASE Count
  BY <1>1, HandedGrows
<1>2. CASE DevTake \/ DevAnswer \/ DevDecide \/ LoseDown \/ LoseUp
  <2>1. UNCHANGED <<pc, frame_num>>
    BY <1>2 DEF DevTake, DevAnswer, DevDecide, LoseDown, LoseUp, hostVars, streamVars
  <2> QED
    BY <2>1 DEF Handed
<1>3. CASE Unplug \/ Replug \/ Sigint \/ UNCHANGED vars
  <2>1. UNCHANGED <<pc, frame_num>>
    BY <1>3 DEF Unplug, Replug, Sigint, hostVars, streamVars, vars
  <2> QED
    BY <2>1 DEF Handed
<1>4. CASE WaitOther \/ Poll
  <2>1. UNCHANGED <<pc, frame_num>>
    BY <1>4 DEF WaitOther, Poll, hostVars, streamVars
  <2> QED
    BY <2>1 DEF Handed
<1>5. CASE Open \/ OpenFails \/ Wake \/ Abandon \/ SendCommand \/ WaitTimeout \/ AfterPoll \/ Shutdown
  <2>1. pc # "COUNT" /\ pc' # "COUNT" /\ frame_num' = frame_num
    BY <1>5 DEF Open, OpenFails, Wake, Abandon, SendCommand, WaitTimeout, AfterPoll, Shutdown, Stay, Close, Fail, streamVars
  <2> QED
    BY <2>1 DEF Handed
<1>6. CASE WaitMatch
  <2>1. pc # "COUNT" /\ pc' # "COUNT" /\ frame_num' = frame_num
    BY <1>6 DEF WaitMatch, Succeed, Stay, Close, streamVars
  <2> QED
    BY <2>1 DEF Handed
<1> QED
  BY <1>1, <1>2, <1>3, <1>4, <1>5, <1>6 DEF Next, DevStep, HostStep, Finished

\* The frame that the device takes next is the one it commits next.
LEMMA FrameTaken ==
  ASSUME SessionInv, LatencyInv, FlowInv, DevTake, IsFeature(Head(down))
  PROVE  Head(down).fn = dev.commits /\ dev.stream /\ dev.commits < Handed
<1> USE SessionAssumption
<1> DEFINE p == Head(down)
<1>1. /\ p = down[1] /\ 1 \in 1 .. Len(down) /\ p.fn \in Nat /\ dev.commits \in Nat /\ Len(down) \in Nat
      /\ Handed \in Nat /\ Handed <= MAX_FRAMES /\ IsFeature(p)
  <2>1. dev.commits \in Nat /\ Len(down) \in Nat
    BY LenProperties DEF SessionInv, LinkInv, LinkTypes, DevOK, Devices
  <2>2. Handed \in Nat /\ Handed <= MAX_FRAMES
    BY DEF Handed, LatencyInv, RingTypes
  <2>3. p = down[1] /\ 1 \in 1 .. Len(down) /\ p.fn \in Nat
    BY TakeSession
  <2> QED
    BY <2>1, <2>2, <2>3
<1> HIDE DEF p
<1>2. p.fn < Handed /\ p.fn >= dev.commits /\ dev.stream
  BY <1>1 DEF LatencyInv, NumberInv, FlowInv
<1>3. dev.commits \in 0 .. MAX_FRAMES /\ dev.commits < Handed
  BY <1>1, <1>2
<1>4. PICK i \in 1 .. Len(down) : IsFeature(down[i]) /\ down[i].fn = dev.commits
  BY <1>3 DEF FlowInv
<1>5. CASE i = 1
  BY <1>1, <1>2, <1>3, <1>4, <1>5 DEF p
<1>6. CASE i # 1
  <2>1. i > 1
    BY <1>1, <1>6
  <2>2. down[i].fn > down[1].fn
    BY <1>1, <1>4, <2>1 DEF FlowInv
  <2> QED
    BY <1>1, <1>2, <1>4, <2>2
<1> QED
  BY <1>5, <1>6

LEMMA TakeKeepsFlow ==
  ASSUME SessionInv, StopSession, LatencyInv, ~resume, Running, FlowInv, DevTake, [Next]_vars, faults' = 0
  PROVE  FlowInv'
<1> USE SessionAssumption
<1> DEFINE p == Head(down)
<1>1. LinkInv /\ faults = 0 /\ dev.commits \in Nat /\ Len(down) \in Nat /\ Handed' = Handed /\ Handed \in Nat
  <2>1. LinkInv /\ dev.commits \in Nat /\ Len(down) \in Nat
    BY LenProperties DEF SessionInv, LinkInv, LinkTypes, DevOK, Devices
  <2>2. ~SendFrame
    <3>1. UNCHANGED pc
      BY DEF DevTake, hostVars
    <3>2. SendFrame => pc' # pc
      BY GoodSends
    <3> QED
      BY <3>1, <3>2
  <2> QED
    BY <2>1, <2>2, NothingLost, HandedGrows, HandedRests
<1>2. /\ down # <<>> /\ down' = Tail(down) /\ p = down[1] /\ 1 \in 1 .. Len(down) /\ p \in Packets
      /\ Len(down') + 1 = Len(down) /\ Len(down') \in Nat
      /\ \A i \in 1 .. Len(down') : i + 1 \in 1 .. Len(down) /\ down'[i] = down[i + 1] /\ i + 1 > 1
  BY <1>1, DownHead DEF DevTake
<1>3. \A i \in 2 .. Len(down) : i - 1 \in 1 .. Len(down') /\ down'[i - 1] = down[i]
  <2> SUFFICES ASSUME NEW i \in 2 .. Len(down) PROVE i - 1 \in 1 .. Len(down') /\ down'[i - 1] = down[i]
    OBVIOUS
  <2>1. i - 1 \in 1 .. Len(down') /\ (i - 1) + 1 = i
    BY <1>1, <1>2
  <2> QED
    BY <1>2, <2>1
<1>4. ASSUME NEW i \in 1 .. Len(down'), IsFeature(down'[i])
      PROVE  /\ \A j \in 1 .. Len(down') : j > i /\ IsFeature(down'[j]) => down'[j].fn > down'[i].fn
             /\ \A j \in 1 .. Len(down') : j < i => down'[j].type # "STOP"
             /\ dev.stream /\ down'[i].fn >= dev.commits
  <2>1. i + 1 \in 1 .. Len(down) /\ IsFeature(down[i + 1]) /\ down'[i] = down[i + 1]
    BY <1>2, <1>4
  <2>2. \A j \in 1 .. Len(down) : j > i + 1 /\ IsFeature(down[j]) => down[j].fn > down[i + 1].fn
    BY <2>1 DEF FlowInv
  <2>3. \A j \in 1 .. Len(down) : j < i + 1 => down[j].type # "STOP"
    BY <2>1 DEF FlowInv
  <2>4. dev.stream /\ down[i + 1].fn >= dev.commits
    BY <2>1 DEF FlowInv
  <2>5. \A j \in 1 .. Len(down') : (j > i => j + 1 > i + 1) /\ (j < i => j + 1 < i + 1)
    BY <1>2
  <2> QED
    BY <1>2, <2>1, <2>2, <2>3, <2>4, <2>5
<1>p. p = Head(down)
  OBVIOUS
<1> HIDE DEF p
<1>5. CASE IsFeature(p)
  <2>1. p.fn = dev.commits /\ dev.stream /\ dev.commits < Handed /\ dev'.commits = dev.commits + 1 /\ dev'.stream = dev.stream
    BY <1>5, <1>p, FrameTaken, TakeSession
  <2>2. ASSUME NEW i \in 1 .. Len(down'), IsFeature(down'[i]) PROVE down'[i].fn >= dev'.commits /\ dev'.stream
    <3>1. i + 1 \in 1 .. Len(down) /\ IsFeature(down[i + 1]) /\ down'[i] = down[i + 1] /\ i + 1 > 1
      BY <1>2, <2>2
    <3>2. down[i + 1].fn > dev.commits
      BY <1>2, <1>5, <2>1, <3>1 DEF FlowInv
    <3>3. down[i + 1].fn \in Nat
      <4>1. down[i + 1] \in Packets
        BY <3>1, LenProperties DEF SessionInv, LinkInv, LinkTypes
      <4> QED
        BY <4>1 DEF Packets
    <3> QED
      BY <1>1, <2>1, <3>1, <3>2, <3>3
  <2>3. ASSUME NEW f \in 0 .. MAX_FRAMES, dev'.commits <= f, f < Handed
        PROVE  \E i \in 1 .. Len(down') : IsFeature(down'[i]) /\ down'[i].fn = f
    <3>1. dev.commits <= f /\ f # dev.commits
      BY <1>1, <2>1, <2>3
    <3>2. PICK i \in 1 .. Len(down) : IsFeature(down[i]) /\ down[i].fn = f
      BY <2>3, <3>1 DEF FlowInv
    <3>3. i # 1
      BY <1>2, <2>1, <3>1, <3>2
    <3>4. i \in 2 .. Len(down)
      BY <1>1, <3>3
    <3> QED
      BY <1>3, <3>2, <3>4
  <2>4. dev'.commits <= Handed'
    BY <1>1, <2>1
  <2> QED
    BY <1>1, <1>4, <2>2, <2>3, <2>4 DEF FlowInv
<1>6. CASE ~IsFeature(p)
  <2>1. /\ p.type \in CommandTypes
        /\ p.type \notin {"START", "RESET"} => SameSession(dev', dev)
        /\ dev'.stream = IF p.type = "START" THEN TRUE ELSE IF p.type \in {"RESET", "STOP"} THEN FALSE ELSE dev.stream
    BY <1>6, <1>p, TakeSession
  <2>2. p.type \in {"READ_STATS", "STOP"}
    <3>1. Sent(p.type)
      BY <1>2 DEF Sent, Named, Packets
    <3>2. OnlySent({"READ_STATS"}) \/ OnlySent({"READ_STATS", "STOP"})
      BY DEF StopSession, StopInv, Running
    <3> QED
      BY <2>1, <3>1, <3>2 DEF OnlySent
  <2>3. dev'.commits = dev.commits /\ (p.type # "STOP" => dev'.stream = dev.stream)
    BY <2>1, <2>2 DEF SameSession
  <2>4. ASSUME NEW i \in 1 .. Len(down'), IsFeature(down'[i]) PROVE dev'.stream
    <3>1. i + 1 \in 1 .. Len(down) /\ IsFeature(down[i + 1]) /\ 1 < i + 1 /\ 1 \in 1 .. Len(down)
      BY <1>2, <2>4
    <3>2. p.type # "STOP"
      BY <1>2, <3>1 DEF FlowInv
    <3> QED
      BY <1>4, <2>3, <2>4, <3>2
  <2>5. ASSUME NEW f \in 0 .. MAX_FRAMES, dev.commits <= f, f < Handed
        PROVE  \E i \in 1 .. Len(down') : IsFeature(down'[i]) /\ down'[i].fn = f
    <3>1. PICK i \in 1 .. Len(down) : IsFeature(down[i]) /\ down[i].fn = f
      BY <2>5 DEF FlowInv
    <3>2. i \in 2 .. Len(down)
      BY <1>1, <1>2, <1>6, <3>1
    <3> QED
      BY <1>3, <3>1, <3>2
  <2>6. dev.commits <= Handed
    BY DEF FlowInv
  <2> QED
    BY <1>1, <1>4, <2>3, <2>4, <2>5, <2>6 DEF FlowInv
<1> QED
  BY <1>5, <1>6

LEMMA SendKeepsFlow ==
  ASSUME SessionInv, StopSession, LatencyInv, FlowInv, SendFrame, [Next]_vars, faults' = 0
  PROVE  FlowInv'
<1> USE SessionAssumption
<1> DEFINE p == [type |-> "FEATURE", fn |-> frame_num, id |-> 0]
<1>1. /\ conn = "good" /\ down' = Append(down, p) /\ pc = "LOOP" /\ pc' = "COUNT" /\ dev' = dev
      /\ frame_num \in Nat /\ down \in Seq(Packets) /\ dev.commits \in Nat /\ frame_num' = frame_num
  <2>1. frame_num \in Nat /\ down \in Seq(Packets) /\ dev.commits \in Nat
    BY DEF SessionInv, HostTypes, LinkInv, LinkTypes, DevOK, Devices
  <2>2. frame_num' = frame_num
    BY DEF SendFrame, streamVars
  <2> QED
    BY <2>1, <2>2, GoodSends
<1>2. p \in Packets /\ IsFeature(p) /\ p.fn = frame_num
  BY <1>1 DEF Packets, IsFeature
<1> HIDE DEF p
<1>3. /\ Len(down') = Len(down) + 1 /\ Len(down) \in Nat /\ down'[Len(down) + 1] = p
      /\ \A i \in 1 .. Len(down) : down'[i] = down[i]
      /\ \A i \in 1 .. Len(down') : i \in 1 .. Len(down) \/ i = Len(down) + 1
  BY <1>1, <1>2, DownAppends
<1>4. Handed = frame_num /\ Handed' = frame_num + 1
  BY <1>1 DEF Handed
<1>5. dev.stream
  BY <1>1 DEF StopSession, StopInv, Loop
<1>6. \A i \in 1 .. Len(down) : down[i].type # "STOP"
  <2> SUFFICES ASSUME NEW i \in 1 .. Len(down), down[i].type = "STOP" PROVE FALSE
    OBVIOUS
  <2>1. down[i] \in Packets
    BY <1>1, LenProperties
  <2>2. Sent("STOP")
    BY <2>1 DEF Sent, Named, Packets
  <2> QED
    BY <1>1, <2>2 DEF StopSession, StopInv, OnlySent, CommandTypes, Loop
<1>7. \A i \in 1 .. Len(down) : IsFeature(down[i]) => down[i].fn < frame_num
  BY <1>4 DEF LatencyInv, NumberInv
<1>8. ASSUME NEW i \in 1 .. Len(down'), IsFeature(down'[i])
      PROVE  /\ dev.stream /\ down'[i].fn >= dev.commits
             /\ \A j \in 1 .. Len(down') : j > i /\ IsFeature(down'[j]) => down'[j].fn > down'[i].fn
             /\ \A j \in 1 .. Len(down') : j < i => down'[j].type # "STOP"
  <2>1. CASE i \in 1 .. Len(down)
    <3>1. down'[i] = down[i] /\ IsFeature(down[i]) /\ down[i].fn >= dev.commits
      BY <1>3, <1>8, <2>1 DEF FlowInv
    <3>2. ASSUME NEW j \in 1 .. Len(down'), j > i, IsFeature(down'[j]) PROVE down'[j].fn > down'[i].fn
      <4>1. CASE j \in 1 .. Len(down)
        <5>1. down'[j] = down[j]
          BY <1>3, <4>1
        <5>2. down[j].fn > down[i].fn
          BY <2>1, <3>1, <3>2, <4>1, <5>1 DEF FlowInv
        <5> QED
          BY <3>1, <5>1, <5>2
      <4>2. CASE j = Len(down) + 1
        <5>1. down[i] \in Packets
          BY <1>1, <2>1, LenProperties
        <5>2. down[i].fn \in Nat /\ down[i].fn < frame_num
          BY <1>7, <2>1, <3>1, <5>1 DEF Packets
        <5> QED
          BY <1>1, <1>2, <1>3, <3>1, <4>2, <5>2
      <4> QED
        BY <1>3, <4>1, <4>2
    <3>3. ASSUME NEW j \in 1 .. Len(down'), j < i PROVE down'[j].type # "STOP"
      <4>1. j \in 1 .. Len(down)
        BY <1>3, <2>1, <3>3
      <4> QED
        BY <1>3, <1>6, <4>1
    <3> QED
      BY <1>5, <3>1, <3>2, <3>3
  <2>2. CASE i = Len(down) + 1
    <3>1. down'[i].fn = frame_num /\ dev.commits <= frame_num
      BY <1>2, <1>3, <1>4, <2>2 DEF FlowInv
    <3>2. \A j \in 1 .. Len(down') : ~(j > i) /\ (j < i => j \in 1 .. Len(down))
      BY <1>3, <2>2
    <3>3. \A j \in 1 .. Len(down') : j < i => down'[j].type # "STOP"
      BY <1>3, <1>6, <3>2
    <3> QED
      BY <1>1, <1>5, <3>1, <3>2, <3>3
  <2> QED
    BY <1>3, <2>1, <2>2
<1>9. ASSUME NEW f \in 0 .. MAX_FRAMES, dev.commits <= f, f < Handed'
      PROVE  \E i \in 1 .. Len(down') : IsFeature(down'[i]) /\ down'[i].fn = f
  <2>1. CASE f = frame_num
    <3>1. Len(down) + 1 \in 1 .. Len(down')
      BY <1>3
    <3> QED
      BY <1>2, <1>3, <2>1, <3>1
  <2>2. CASE f # frame_num
    <3>1. f < Handed
      BY <1>1, <1>4, <1>9, <2>2
    <3>2. PICK i \in 1 .. Len(down) : IsFeature(down[i]) /\ down[i].fn = f
      BY <1>9, <3>1 DEF FlowInv
    <3>3. i \in 1 .. Len(down')
      BY <1>3
    <3> QED
      BY <1>3, <3>2, <3>3
  <2> QED
    BY <2>1, <2>2
<1>10. dev'.commits <= Handed'
  BY <1>1, <1>4 DEF FlowInv
<1> QED
  BY <1>1, <1>8, <1>9, <1>10 DEF FlowInv

LEMMA FlowKeeps ==
  ASSUME SessionInv, StopSession, LatencyInv, ~resume, Running, FlowInv, [Next]_vars, faults' = 0
  PROVE  FlowInv'
<1>1. /\ LinkInv /\ faults = 0 /\ ~LoseDown /\ ~LoseUp /\ ~Unplug /\ cmd \in CommandTypes /\ frame_num \in Nat
  BY NothingLost DEF SessionInv, HostTypes
<1>2. ~Open /\ ~OpenFails /\ ~Wake /\ ~Abandon
  <2>1. pc \notin {"OPEN", "SLEEP"}
    BY DEF SessionInv, PortInv, Running, Loop, Handshake, FinalStats
  <2> QED
    BY <2>1 DEF Open, OpenFails, Wake, Abandon
<1>3. CASE ~SendFrame /\ ~DevTake
  <2>1. Handed' = Handed
    BY <1>3, HandedRests
  <2>2. dev'.commits = dev.commits /\ dev'.stream = dev.stream
    <3>1. CASE DevDecide
      <4>1. DevOK(dev) /\ dev' = Decide(dev)
        BY <1>1, <3>1 DEF DevDecide, LinkInv, LinkTypes
      <4> QED
        BY <4>1, DecideKeeps, DecideCounts
    <3>2. CASE ~DevDecide
      BY <1>1, <1>3, <3>2, SessionRests DEF SameSession
    <3> QED
      BY <3>1, <3>2
  <2>3. CASE down' = down
    BY <2>1, <2>2, <2>3 DEF FlowInv
  <2>4. CASE \E p \in Packets : p.type \in CommandTypes /\ Write(p)
    <3>1. PICK p \in Packets : p.type \in CommandTypes /\ Write(p)
      BY <2>4
    <3>2. /\ Len(down') \in Nat /\ Len(down) \in Nat /\ Len(down') >= Len(down)
          /\ \A i \in 1 .. Len(down) : down'[i].type = down[i].type /\ down'[i].fn = down[i].fn
          /\ \A i \in 1 .. Len(down') : IsFeature(down'[i]) => i \in 1 .. Len(down)
      BY <1>1, <3>1, WriteMoves
    <3>3. \A i \in 1 .. Len(down) : i \in 1 .. Len(down') /\ \A j \in 1 .. Len(down') : j < i => j \in 1 .. Len(down)
      BY <3>2
    <3>4. ASSUME NEW i \in 1 .. Len(down'), IsFeature(down'[i])
          PROVE  /\ dev.stream /\ down'[i].fn >= dev.commits
                 /\ \A j \in 1 .. Len(down') : j > i /\ IsFeature(down'[j]) => down'[j].fn > down'[i].fn
                 /\ \A j \in 1 .. Len(down') : j < i => down'[j].type # "STOP"
      <4>1. i \in 1 .. Len(down) /\ IsFeature(down[i]) /\ down'[i].fn = down[i].fn
        BY <3>2, <3>4 DEF IsFeature
      <4>2. ASSUME NEW j \in 1 .. Len(down'), j > i, IsFeature(down'[j]) PROVE down'[j].fn > down'[i].fn
        <5>1. j \in 1 .. Len(down) /\ IsFeature(down[j]) /\ down'[j].fn = down[j].fn
          BY <3>2, <4>2 DEF IsFeature
        <5> QED
          BY <4>1, <4>2, <5>1 DEF FlowInv
      <4>3. ASSUME NEW j \in 1 .. Len(down'), j < i PROVE down'[j].type # "STOP"
        <5>1. j \in 1 .. Len(down) /\ down'[j].type = down[j].type
          BY <3>2, <3>3, <4>1, <4>3
        <5> QED
          BY <4>1, <4>3, <5>1 DEF FlowInv
      <4> QED
        BY <4>1, <4>2, <4>3 DEF FlowInv
    <3>5. ASSUME NEW f \in 0 .. MAX_FRAMES, dev.commits <= f, f < Handed
          PROVE  \E i \in 1 .. Len(down') : IsFeature(down'[i]) /\ down'[i].fn = f
      <4>1. PICK i \in 1 .. Len(down) : IsFeature(down[i]) /\ down[i].fn = f
        BY <3>5 DEF FlowInv
      <4> QED
        BY <3>2, <3>3, <4>1 DEF IsFeature
    <3>6. dev.commits <= Handed
      BY DEF FlowInv
    <3> QED
      BY <2>1, <2>2, <3>4, <3>5, <3>6 DEF FlowInv
  <2>5. down' = down \/ \E p \in Packets : p.type \in CommandTypes /\ Write(p)
    <3>1. CASE SendCommand \/ AfterPoll
      <4>1. /\ Packet(cmd) \in Packets /\ Packet(cmd).type \in CommandTypes
            /\ Packet("READ_STATS") \in Packets /\ Packet("READ_STATS").type \in CommandTypes
        BY <1>1 DEF Packet, Packets, CommandTypes
      <4> QED
        BY <3>1, <4>1 DEF SendCommand, AfterPoll
    <3>2. CASE DevAnswer \/ DevDecide \/ Replug \/ Sigint
      BY <3>2 DEF DevAnswer, DevDecide, Replug, Sigint, linkVars
    <3>3. CASE WaitOther \/ WaitMatch \/ WaitTimeout \/ Count \/ Poll \/ Shutdown \/ UNCHANGED vars
      BY <3>3 DEF WaitOther, WaitMatch, WaitTimeout, Count, Poll, Shutdown, linkVars, vars
    <3> QED
      BY <1>1, <1>2, <1>3, <3>1, <3>2, <3>3 DEF Next, DevStep, HostStep, Finished
  <2> QED
    BY <2>3, <2>4, <2>5
<1> QED
  BY <1>3, TakeKeepsFlow, SendKeepsFlow

-----------------------------------------------------------------------------
(* The windows of the device. *)

LEMMA FrameKeepsWindows ==
  ASSUME SessionInv, LatencyInv, FlowInv, DevWindows, DevTake, IsFeature(Head(down))
  PROVE  DevWindows'
<1> USE DeviceAssumption
<1> DEFINE p == Head(down)
           w == Shift(dev.window, p.fn)
           n == dev.commits
           e == EndsWindow(n + 1)
<1>1. DevOK(dev) /\ n \in Nat /\ dev.decided \in Nat /\ dev.window \in Seq(Nat) /\ dev.job \in Seq(Nat) /\ Len(dev.window) <= WINDOW_LEN
      /\ Len(dev.window) = IF n < WINDOW_LEN THEN n ELSE WINDOW_LEN
  BY DEF SessionInv, LinkInv, LinkTypes, DevOK, Devices
<1>2. dev_wins' = dev_wins
  BY DEF DevTake, histVars
<1>3. /\ p.fn = n /\ dev.stream /\ Ready(dev, p) /\ IsFeature(p)
      /\ dev'.commits = n + 1 /\ dev'.window = w /\ dev'.decided = dev.decided
      /\ dev'.job = IF e THEN w ELSE dev.job
  BY FrameTaken, TakeSession
<1>4. /\ \A t \in 1 .. Len(dev.window) : dev.window[t] = (n - Len(dev.window)) + (t - 1)
      /\ Counted(n, Ended(dev)) /\ (dev.job # <<>> => dev.job = Win(dev.decided + 1))
      /\ dev_wins \in Seq(Seq(Nat)) /\ Len(dev_wins) = dev.decided
      /\ \A k \in 1 .. dev.decided : dev_wins[k] = Win(k)
  BY DEF DevWindows
<1>5. e => dev.job = <<>>
  BY <1>3 DEF Ready, NoJob, IsFeature
<1> HIDE DEF p, e, n
<1>6. /\ w \in Seq(Nat) /\ Len(w) = IF Len(dev.window) < WINDOW_LEN THEN Len(dev.window) + 1 ELSE WINDOW_LEN
      /\ \A t \in 1 .. Len(w) : w[t] = ((n + 1) - Len(w)) + (t - 1)
  <2>1. p.fn \in Nat
    BY <1>1, <1>3
  <2>2. \A t \in 1 .. Len(dev.window) : dev.window[t] = (p.fn - Len(dev.window)) + (t - 1)
    BY <1>3, <1>4
  <2>3. w \in Seq(Nat) /\ Len(w) = IF Len(dev.window) < WINDOW_LEN THEN Len(dev.window) + 1 ELSE WINDOW_LEN
    BY <1>1, <2>1, ShiftIs
  <2>4. \A t \in 1 .. Len(w) : w[t] = ((p.fn + 1) - Len(w)) + (t - 1)
    BY <1>1, <2>1, <2>2, ShiftTo
  <2> QED
    BY <1>3, <2>3, <2>4
<1> HIDE DEF w
<1>7. \A t \in 1 .. Len(dev'.window) : dev'.window[t] = (dev'.commits - Len(dev'.window)) + (t - 1)
  BY <1>3, <1>6
<1>8. \A k \in 1 .. dev'.decided : dev_wins'[k] = Win(k)
  BY <1>2, <1>3, <1>4
<1>9. Ended(dev) \in Nat
  BY <1>1 DEF Ended
<1>10. CASE e
  <2>1. Counted(n + 1, Ended(dev) + 1) /\ n + 1 = Begin(Ended(dev) + 1) + WINDOW_LEN
    BY <1>1, <1>4, <1>9, <1>10, CountedOn DEF e
  <2>2. Ended(dev) = dev.decided /\ dev'.job = w
    BY <1>3, <1>5, <1>10 DEF Ended
  <2>3. n + 1 >= WINDOW_LEN
    BY <1>10 DEF e, EndsWindow
  <2>4. Len(w) = WINDOW_LEN
    BY <1>1, <1>6, <2>3
  <2>5. w # <<>>
    BY <2>4
  <2>6. w = Win(dev.decided + 1)
    <3>1. Win(dev.decided + 1) \in Seq(Nat) /\ Len(Win(dev.decided + 1)) = WINDOW_LEN /\ Begin(dev.decided + 1) \in Nat
      <4>1. dev.decided + 1 \in Nat /\ dev.decided + 1 > 0
        BY <1>1
      <4> QED
        BY <4>1, WinIs
    <3>2. ASSUME NEW t \in 1 .. WINDOW_LEN PROVE w[t] = Win(dev.decided + 1)[t]
      <4>1. w[t] = ((n + 1) - WINDOW_LEN) + (t - 1)
        BY <1>6, <2>4
      <4>2. Win(dev.decided + 1)[t] = Begin(dev.decided + 1) + (t - 1)
        BY DEF Win
      <4>3. n + 1 = Begin(dev.decided + 1) + WINDOW_LEN
        BY <2>1, <2>2
      <4>4. (n + 1) - WINDOW_LEN = Begin(dev.decided + 1)
        BY <1>1, <3>1, <4>3
      <4> QED
        BY <4>1, <4>2, <4>4
    <3> QED
      BY <1>6, <2>4, <3>1, <3>2, SeqEqual
  <2>7. Ended(dev') = dev.decided + 1
    BY <1>3, <2>2, <2>5 DEF Ended
  <2>8. Counted(dev'.commits, Ended(dev'))
    BY <1>3, <2>1, <2>2, <2>7
  <2> QED
    BY <1>2, <1>3, <1>4, <1>7, <1>8, <2>2, <2>6, <2>8 DEF DevWindows
<1>11. CASE ~e
  <2>1. Counted(n + 1, Ended(dev))
    BY <1>1, <1>4, <1>9, <1>11, CountedOn DEF e
  <2>2. Ended(dev') = Ended(dev) /\ dev'.job = dev.job
    BY <1>3, <1>11 DEF Ended
  <2>3. Counted(dev'.commits, Ended(dev'))
    BY <1>3, <2>1, <2>2
  <2> QED
    BY <1>2, <1>3, <1>4, <1>7, <1>8, <2>2, <2>3 DEF DevWindows
<1> QED
  BY <1>10, <1>11

\* No command of a session touches its windows.
LEMMA SessionCommands ==
  ASSUME SessionInv, StopSession, Running, DevTake, ~IsFeature(Head(down))
  PROVE  SameSession(dev', dev)
<1> DEFINE p == Head(down)
<1>1. /\ p = down[1] /\ 1 \in 1 .. Len(down) /\ p \in Packets /\ p.type \in CommandTypes
      /\ p.type \notin {"START", "RESET"} => SameSession(dev', dev)
  BY TakeSession
<1> HIDE DEF p
<1>2. Sent(p.type)
  BY <1>1 DEF Sent, Named, Packets
<1>3. OnlySent({"READ_STATS"}) \/ OnlySent({"READ_STATS", "STOP"})
  BY DEF StopSession, StopInv, Running
<1> QED
  BY <1>1, <1>2, <1>3 DEF OnlySent

LEMMA DecideKeepsWindows ==
  ASSUME SessionInv, DevWindows, DevDecide, faults = 0
  PROVE  DevWindows' /\ dev'.decided = dev.decided + 1
<1> USE DeviceAssumption
<1>1. DevOK(dev) /\ dev.commits \in Nat /\ dev.decided \in Nat /\ dev.job \in Seq(Nat) /\ dev' = Decide(dev) /\ dev.job # <<>>
  BY DEF SessionInv, LinkInv, LinkTypes, DevOK, Devices, DevDecide, NoJob
<1>2. dev'.job = <<>> /\ dev'.decided = dev.decided + 1 /\ dev'.commits = dev.commits /\ dev'.window = dev.window
  BY <1>1, DecideCounts
<1>3. dev_wins' = Append(dev_wins, dev.job)
  BY DEF DevDecide, Note
<1>4. /\ Counted(dev.commits, Ended(dev)) /\ dev.job = Win(dev.decided + 1)
      /\ \A t \in 1 .. Len(dev.window) : dev.window[t] = (dev.commits - Len(dev.window)) + (t - 1)
      /\ dev_wins \in Seq(Seq(Nat)) /\ Len(dev_wins) = dev.decided
      /\ \A k \in 1 .. dev.decided : dev_wins[k] = Win(k)
  BY <1>1 DEF DevWindows
<1>5. Ended(dev') = Ended(dev)
  BY <1>1, <1>2 DEF Ended
<1>6. /\ dev_wins' \in Seq(Seq(Nat)) /\ Len(dev_wins') = dev.decided + 1
      /\ dev_wins'[dev.decided + 1] = dev.job
      /\ \A k \in 1 .. dev.decided : dev_wins'[k] = dev_wins[k]
  BY <1>1, <1>3, <1>4, AppendProperties
<1>7. \A k \in 1 .. dev.decided + 1 : dev_wins'[k] = Win(k)
  <2> SUFFICES ASSUME NEW k \in 1 .. dev.decided + 1 PROVE dev_wins'[k] = Win(k)
    OBVIOUS
  <2>1. k \in 1 .. dev.decided \/ k = dev.decided + 1
    BY <1>1
  <2> QED
    BY <1>4, <1>6, <2>1
<1> QED
  BY <1>2, <1>4, <1>5, <1>6, <1>7 DEF DevWindows

LEMMA WindowsRest ==
  ASSUME DevWindows, SameSession(dev', dev), dev_wins' = dev_wins
  PROVE  DevWindows'
<1>1. Ended(dev') = Ended(dev)
  BY DEF SameSession, Ended
<1> QED
  BY <1>1 DEF DevWindows, SameSession

LEMMA WindowsKeep ==
  ASSUME SessionInv, StopSession, LatencyInv, Running, FlowInv, DevWindows, [Next]_vars, faults' = 0
  PROVE  DevWindows' /\ (~DevDecide => dev'.decided = dev.decided) /\ (DevDecide => dev'.decided = dev.decided + 1)
<1>1. faults = 0 /\ ~LoseDown /\ ~LoseUp /\ ~Unplug
  BY NothingLost
<1>2. CASE DevDecide
  BY <1>1, <1>2, DecideKeepsWindows
<1>3. CASE DevTake /\ IsFeature(Head(down))
  <2>1. dev'.decided = dev.decided
    BY <1>3, TakeSession DEF SameSession
  <2>2. ~DevDecide
    <3>1. DevDecide => dev'.decided = dev.decided + 1
      BY <1>1, DecideKeepsWindows
    <3>2. dev.decided \in Nat
      BY DEF SessionInv, LinkInv, LinkTypes, DevOK, Devices
    <3> QED
      BY <2>1, <3>1, <3>2
  <2> QED
    BY <1>3, <2>1, <2>2, FrameKeepsWindows
<1>4. CASE ~DevDecide /\ ~(DevTake /\ IsFeature(Head(down)))
  <2>1. SameSession(dev', dev)
    BY <1>1, <1>4, SessionCommands, SessionRests
  <2>2. dev_wins' = dev_wins
    BY <1>4, OnlyReads
  <2> QED
    BY <1>4, <2>1, <2>2, WindowsRest DEF SameSession
<1> QED
  BY <1>2, <1>3, <1>4

-----------------------------------------------------------------------------
(* The windows of the reference. *)

\* From a ring that holds the newest frames the reference takes the window they end.
LEMMA RefWindowIs ==
  ASSUME NEW n \in Nat, NEW k \in Nat, NEW b \in Nat, b = Begin(k), n = b + WINDOW_LEN, n <= MAX_FRAMES + 1,
         NEW win, \A f \in 0 .. MAX_FRAMES : f < n /\ f + WINDOW_LEN >= n => win[f % WINDOW_LEN] = f
  PROVE  RefWindow(win, n) = Win(k)
<1> USE DeviceAssumption, SessionAssumption
<1>1. \A t \in 1 .. WINDOW_LEN : win[((n - WINDOW_LEN) + (t - 1)) % WINDOW_LEN] = b + (t - 1)
  <2> SUFFICES ASSUME NEW t \in 1 .. WINDOW_LEN
               PROVE  win[((n - WINDOW_LEN) + (t - 1)) % WINDOW_LEN] = b + (t - 1)
    OBVIOUS
  <2> DEFINE f == b + (t - 1)
  <2>1. f \in 0 .. MAX_FRAMES /\ f < n /\ f + WINDOW_LEN >= n /\ (n - WINDOW_LEN) + (t - 1) = f
    OBVIOUS
  <2> HIDE DEF f
  <2>2. win[f % WINDOW_LEN] = f
    BY <2>1
  <2> QED
    BY <2>1, <2>2 DEF f
<1> QED
  BY <1>1 DEF RefWindow, Win

LEMMA CountKeepsRef ==
  ASSUME LatencyInv, RefWindows, Count, faults = 0
  PROVE  RefWindows'
<1> SUFFICES ASSUME SameStride PROVE RefWindows'
  BY DEF RefWindows
<1> USE DeviceAssumption, SessionAssumption
<1> DEFINE n == frame_num + 1
           k == g_smooth
<1>1. pc = "COUNT" /\ frame_num \in Nat /\ frame_num < MAX_FRAMES /\ frame_num' = n /\ RefCheck
  BY DEF Count, LatencyInv, RingTypes
<1>2. /\ k \in Nat /\ Counted(frame_num, k) /\ ref_wins \in Seq(Seq(Nat)) /\ Len(ref_wins) = k
      /\ ref \in Seq(Nat) /\ Lists(ref, k)
      /\ \A j \in 1 .. k : ref_wins[j] = Win(j)
      /\ g_win \in [0 .. WINDOW_LEN - 1 -> 0 .. MAX_FRAMES] /\ Holds(g_win, WINDOW_LEN)
  BY DEF RefWindows, LatencyInv, RingTypes
<1>3. g_win' = [g_win EXCEPT ![frame_num % WINDOW_LEN] = frame_num]
  BY <1>1 DEF RefCheck
<1>4. \A f \in 0 .. MAX_FRAMES : f < n /\ f + WINDOW_LEN >= n => g_win'[f % WINDOW_LEN] = f
  BY <1>1, <1>2, <1>3, HoldsOn
<1>5. Holds(g_win, WINDOW_LEN)'
  BY <1>1, <1>4 DEF Holds
<1>6. RefDue(n) <=> EndsWindow(n)
  BY DEF RefDue, EndsWindow, SameStride
<1>7. CASE ~RefDue(n)
  <2>1. UNCHANGED <<g_smooth, ref, ref_wins>>
    BY <1>1, <1>7 DEF RefCheck
  <2>2. Counted(n, k)
    BY <1>1, <1>2, <1>6, <1>7, CountedOn
  <2>3. Counted(frame_num', g_smooth')
    BY <1>1, <2>1, <2>2
  <2> QED
    BY <1>2, <1>5, <2>1, <2>3 DEF RefWindows
<1>8. CASE RefDue(n)
  <2>1. /\ g_smooth' = k + 1
        /\ ref_wins' = Append(ref_wins, RefWindow(g_win', n))
        /\ ref' = IF k + 1 \in FIRING /\ frame_num >= WARMUP THEN Append(ref, frame_num) ELSE ref
    BY <1>1, <1>8 DEF RefCheck, Note
  <2>2. Counted(n, k + 1) /\ n = Begin(k + 1) + WINDOW_LEN
    BY <1>1, <1>2, <1>6, <1>8, CountedOn
  <2>3. Begin(k + 1) \in Nat /\ Win(k + 1) \in Seq(Nat) /\ EndOf(k + 1) = (Begin(k + 1) + WINDOW_LEN) - 1
    <3>1. k + 1 \in Nat /\ k + 1 > 0
      BY <1>2
    <3> QED
      BY <3>1, WinIs DEF EndOf
  <2>4. EndOf(k + 1) = frame_num
    BY <1>1, <2>2, <2>3
  <2>5. RefWindow(g_win', n) = Win(k + 1)
    <3> DEFINE b == Begin(k + 1)
    <3>1. n \in Nat /\ k + 1 \in Nat /\ b \in Nat /\ n = b + WINDOW_LEN /\ n <= MAX_FRAMES + 1
      BY <1>1, <1>2, <2>2, <2>3
    <3> QED
      BY <1>4, <3>1, RefWindowIs
  <2>6. /\ ref_wins' \in Seq(Seq(Nat)) /\ Len(ref_wins') = k + 1 /\ ref_wins'[k + 1] = Win(k + 1)
        /\ \A j \in 1 .. k : ref_wins'[j] = ref_wins[j]
    <3> DEFINE w == Win(k + 1)
    <3>1. ref_wins \in Seq(Seq(Nat)) /\ Len(ref_wins) = k /\ k \in Nat /\ w \in Seq(Nat)
      BY <1>2, <2>3
    <3>2. ref_wins' = Append(ref_wins, w)
      BY <2>1, <2>5
    <3> HIDE DEF w
    <3>3. /\ Append(ref_wins, w) \in Seq(Seq(Nat)) /\ Len(Append(ref_wins, w)) = k + 1
          /\ Append(ref_wins, w)[k + 1] = w
          /\ \A j \in 1 .. k : Append(ref_wins, w)[j] = ref_wins[j]
      BY <3>1, AppendProperties
    <3>4. w = Win(k + 1)
      BY DEF w
    <3> QED
      BY <3>2, <3>3, <3>4
  <2>7. \A j \in 1 .. k + 1 : ref_wins'[j] = Win(j)
    <3> SUFFICES ASSUME NEW j \in 1 .. k + 1 PROVE ref_wins'[j] = Win(j)
      OBVIOUS
    <3>1. j \in 1 .. k \/ j = k + 1
      BY <1>2
    <3> QED
      BY <1>2, <2>6, <3>1
  <2>8. ref' \in Seq(Nat) /\ Lists(ref', k + 1)
    <3>1. k + 1 \in Nat /\ k < k + 1 /\ \A j \in FIRING : k < j => j >= k + 1
      BY <1>2
    <3>2. /\ k + 1 \in FIRING /\ EndOf(k + 1) >= WARMUP => Lists(Append(ref, EndOf(k + 1)), k + 1)
          /\ ~(k + 1 \in FIRING /\ EndOf(k + 1) >= WARMUP) => Lists(ref, k + 1)
      BY <1>2, <3>1, ListsTo
    <3>3. Append(ref, frame_num) \in Seq(Nat)
      BY <1>1, <1>2, AppendProperties
    <3> QED
      BY <1>2, <2>1, <2>4, <3>2, <3>3
  <2>9. g_smooth' \in Nat /\ Counted(frame_num', g_smooth') /\ Len(ref_wins') = g_smooth'
    BY <1>1, <1>2, <2>1, <2>2, <2>6
  <2> QED
    BY <1>5, <2>1, <2>6, <2>7, <2>8, <2>9 DEF RefWindows
<1> QED
  BY <1>7, <1>8

LEMMA RefKeeps ==
  ASSUME SessionInv, LatencyInv, RefWindows, [Next]_vars, faults' = 0
  PROVE  RefWindows'
<1>1. CASE Count
  BY <1>1, NothingLost, CountKeepsRef
<1>2. CASE ~Count
  <2>1. UNCHANGED <<frame_num, g_win, g_smooth, ref, ref_wins>>
    BY <1>2, OnlyCount
  <2> QED
    BY <2>1 DEF RefWindows, Holds
<1> QED
  BY <1>1, <1>2

-----------------------------------------------------------------------------
(* The events the client has read. *)

LEMMA EventTypes ==
  ASSUME SessionInv, NEW i \in 1 .. Len(up), IsEvent(up[i])
  PROVE  up[i].nth \in Nat /\ up[i].fn \in Nat
<1>1. up[i] \in Replies \cup Events
  BY LenProperties DEF SessionInv, LinkInv, LinkTypes
<1>2. up[i] \in Events
  BY <1>1, PacketKinds DEF IsEvent
<1> QED
  BY <1>2 DEF Events

\* The events on the line stay where they are, and none is read.
LEMMA EventsRest ==
  ASSUME Len(up) \in Nat, Len(up') \in Nat, Len(up) <= Len(up'),
         \A i \in 1 .. Len(up) : (IsEvent(up'[i]) <=> IsEvent(up[i])) /\ (IsEvent(up[i]) => up'[i] = up[i]),
         \A i \in 1 .. Len(up') : IsEvent(up'[i]) => i \in 1 .. Len(up),
         hw' = hw, dev'.decided = dev.decided, NEW r, ReadUpTo(r)
  PROVE  ReadUpTo(r)'
<1>1. Heard(r)'
  BY DEF ReadUpTo, Heard
<1>2. ASSUME NEW i \in 1 .. Len(up'), IsEvent(up'[i])
      PROVE  /\ up'[i].nth > r /\ up'[i].nth <= dev'.decided /\ up'[i].nth \in FIRING /\ up'[i].fn = EndOf(up'[i].nth)
             /\ \A j \in 1 .. Len(up') : j > i /\ IsEvent(up'[j]) => up'[j].nth > up'[i].nth
  <2>1. i \in 1 .. Len(up) /\ IsEvent(up[i]) /\ up'[i] = up[i]
    BY <1>2
  <2>2. ASSUME NEW j \in 1 .. Len(up'), j > i, IsEvent(up'[j]) PROVE up'[j].nth > up'[i].nth
    <3>1. j \in 1 .. Len(up) /\ IsEvent(up[j]) /\ up'[j] = up[j]
      BY <2>2
    <3> QED
      BY <2>1, <2>2, <3>1 DEF ReadUpTo
  <2> QED
    BY <2>1, <2>2 DEF ReadUpTo
<1>3. ASSUME NEW k \in FIRING, r < k, k <= dev.decided
      PROVE  \E i \in 1 .. Len(up') : IsEvent(up'[i]) /\ up'[i].nth = k
  <2>1. PICK i \in 1 .. Len(up) : IsEvent(up[i]) /\ up[i].nth = k
    BY <1>3 DEF ReadUpTo
  <2>2. i \in 1 .. Len(up') /\ up'[i] = up[i]
    BY <2>1
  <2> QED
    BY <2>1, <2>2
<1> QED
  BY <1>1, <1>2, <1>3 DEF ReadUpTo

LEMMA DecideAddsEvent ==
  ASSUME SessionInv, DevWindows, EventsRead, pc \in Loop, DevDecide, faults = 0, conn = "good",
         NEW r \in 0 .. dev.decided, ReadUpTo(r)
  PROVE  r \in 0 .. dev'.decided /\ ReadUpTo(r)'
<1> USE DeviceAssumption
<1> DEFINE m == dev.decided + 1
           e == Event(dev)
<1>1. /\ LinkInv /\ DevStep /\ up \in Seq(Replies \cup Events) /\ Len(up) \in Nat /\ dev.decided \in Nat /\ dev.job \in Seq(Nat)
      /\ dev.job # <<>>
  BY LenProperties DEF SessionInv, LinkInv, LinkTypes, DevOK, Devices, DevStep, DevDecide, NoJob
<1>2. dev'.decided = m /\ hw' = hw
  BY DecideKeepsWindows DEF DevDecide
<1>3. e.nth = m /\ e.fn = EndOf(m)
  <2>1. dev.job = Win(m)
    BY <1>1 DEF DevWindows
  <2>2. Win(m)[WINDOW_LEN] = EndOf(m)
    <3>1. m \in Nat /\ m > 0
      BY <1>1
    <3> QED
      BY <3>1, WinIs
  <2> QED
    BY <2>1, <2>2 DEF Event
<1>4. Fires(dev) <=> m \in FIRING
  BY DEF Fires
<1>5. \/ up' = up /\ m \notin FIRING
      \/ /\ m \in FIRING /\ e \in Replies \cup Events /\ IsEvent(e) /\ up' = Append(up, e)
  BY <1>1, <1>4, DevAppends
<1>6. Heard(r)' /\ r \in 0 .. dev'.decided
  <2>1. Heard(r)'
    BY <1>2 DEF ReadUpTo, Heard
  <2>2. r \in 0 .. dev'.decided
    BY <1>1, <1>2
  <2> QED
    BY <2>1, <2>2
<1>7. \A i \in 1 .. Len(up) : IsEvent(up[i]) =>
        /\ up[i].nth > r /\ up[i].nth <= dev.decided /\ up[i].nth \in FIRING /\ up[i].fn = EndOf(up[i].nth)
        /\ \A j \in 1 .. Len(up) : j > i /\ IsEvent(up[j]) => up[j].nth > up[i].nth
  BY DEF ReadUpTo
<1>8. \A k \in FIRING : r < k /\ k <= dev.decided => \E i \in 1 .. Len(up) : IsEvent(up[i]) /\ up[i].nth = k
  BY DEF ReadUpTo
<1>9. \A i \in 1 .. Len(up) : IsEvent(up[i]) => up[i].nth \in Nat
  BY EventTypes
<1> HIDE DEF e
<1>10. CASE up' = up /\ m \notin FIRING
  <2>1. \A i \in 1 .. Len(up) : IsEvent(up[i]) => up[i].nth <= m
    BY <1>1, <1>7, <1>9
  <2>2. \A k \in FIRING : k <= m => k <= dev.decided
    BY <1>1, <1>10
  <2> QED
    BY <1>2, <1>6, <1>7, <1>8, <1>10, <2>1, <2>2 DEF ReadUpTo
<1>11. CASE m \in FIRING /\ e \in Replies \cup Events /\ IsEvent(e) /\ up' = Append(up, e)
  <2>1. /\ Len(up') = Len(up) + 1 /\ up'[Len(up) + 1] = e
        /\ \A i \in 1 .. Len(up) : up'[i] = up[i]
        /\ \A i \in 1 .. Len(up') : i \in 1 .. Len(up) \/ i = Len(up) + 1
    BY <1>1, <1>11, UpAppends
  <2>2. ASSUME NEW i \in 1 .. Len(up'), IsEvent(up'[i])
        PROVE  /\ up'[i].nth > r /\ up'[i].nth <= m /\ up'[i].nth \in FIRING /\ up'[i].fn = EndOf(up'[i].nth)
               /\ \A j \in 1 .. Len(up') : j > i /\ IsEvent(up'[j]) => up'[j].nth > up'[i].nth
    <3>1. CASE i \in 1 .. Len(up)
      <4>1. up'[i] = up[i] /\ up[i].nth \in Nat /\ up[i].nth <= dev.decided
        BY <1>7, <1>9, <2>1, <2>2, <3>1
      <4>2. ASSUME NEW j \in 1 .. Len(up'), j > i, IsEvent(up'[j]) PROVE up'[j].nth > up'[i].nth
        <5>1. CASE j \in 1 .. Len(up)
          <6>1. up'[j] = up[j]
            BY <2>1, <5>1
          <6> QED
            BY <1>7, <2>2, <3>1, <4>1, <4>2, <5>1, <6>1
        <5>2. CASE j = Len(up) + 1
          BY <1>1, <1>3, <2>1, <4>1, <5>2
        <5> QED
          BY <2>1, <5>1, <5>2
      <4>3. up'[i].nth <= m
        BY <1>1, <4>1
      <4> QED
        BY <1>7, <2>2, <3>1, <4>1, <4>2, <4>3
    <3>2. CASE i = Len(up) + 1
      <4>1. up'[i] = e
        BY <2>1, <3>2
      <4>2. \A j \in 1 .. Len(up') : ~(j > i)
        BY <1>1, <2>1, <3>2
      <4>3. m > r /\ m <= m
        BY <1>1
      <4> QED
        BY <1>3, <1>11, <4>1, <4>2, <4>3
    <3> QED
      BY <2>1, <3>1, <3>2
  <2>3. ASSUME NEW k \in FIRING, r < k, k <= m
        PROVE  \E i \in 1 .. Len(up') : IsEvent(up'[i]) /\ up'[i].nth = k
    <3>1. CASE k = m
      <4>1. Len(up) + 1 \in 1 .. Len(up')
        BY <1>1, <2>1
      <4> QED
        BY <1>3, <1>11, <2>1, <3>1, <4>1
    <3>2. CASE k # m
      <4>1. k <= dev.decided
        <5>1. k \in Nat /\ k <= dev.decided + 1 /\ k # dev.decided + 1
          BY <2>3, <3>2
        <5>2. dev.decided \in Nat
          BY <1>1
        <5> QED
          BY <5>1, <5>2
      <4>2. PICK i \in 1 .. Len(up) : IsEvent(up[i]) /\ up[i].nth = k
        BY <1>8, <2>3, <4>1
      <4>3. i \in 1 .. Len(up') /\ up'[i] = up[i]
        BY <1>1, <2>1
      <4> QED
        BY <4>2, <4>3
    <3> QED
      BY <3>1, <3>2
  <2> QED
    BY <1>2, <1>6, <2>2, <2>3 DEF ReadUpTo
<1> QED
  BY <1>5, <1>10, <1>11

\* What a client reads is a number behind the others, or nothing.
LEMMA HandleKeepsType ==
  ASSUME SessionInv, hw \in Seq(Nat), up # <<>>, Handle(Head(up)), faults = 0
  PROVE  hw' \in Seq(Nat)
<1>1. Head(up) = up[1] /\ 1 \in 1 .. Len(up)
  BY UpTail DEF SessionInv
<1>2. CASE IsEvent(Head(up))
  <2>1. Head(up).fn \in Nat
    BY <1>1, <1>2, EventTypes
  <2>2. Append(hw, Head(up).fn) \in Seq(Nat)
    BY <2>1, AppendProperties
  <2> QED
    BY <2>2 DEF Handle, Note
<1>3. CASE ~IsEvent(Head(up))
  BY <1>3 DEF Handle, IsEvent
<1> QED
  BY <1>2, <1>3

LEMMA PollReads ==
  ASSUME SessionInv, LatencyInv, EventsRead, Poll, faults = 0, NEW r \in 0 .. dev.decided, ReadUpTo(r)
  PROVE  \E m \in 0 .. dev'.decided : ReadUpTo(m)'
<1> USE DeviceAssumption, SessionAssumption
<1> DEFINE p == Head(up)
<1>1. /\ up # <<>> /\ up' = Tail(up) /\ dev' = dev /\ pc = "POLL" /\ Handle(p) /\ LinkInv /\ dev.decided \in Nat
      /\ up \in Seq(Replies \cup Events) /\ Len(up) \in Nat /\ hw \in Seq(Nat)
  BY LenProperties DEF Poll, Readable, SessionInv, LinkInv, LinkTypes, DevOK, Devices, EventsRead
<1>2. /\ p = up[1] /\ 1 \in 1 .. Len(up) /\ Len(up') + 1 = Len(up) /\ Len(up') \in Nat
      /\ \A i \in 1 .. Len(up') : i + 1 \in 1 .. Len(up) /\ up'[i] = up[i + 1] /\ i + 1 > 1
  <2>1. p = up[1] /\ 1 \in 1 .. Len(up)
    BY <1>1, UpTail
  <2>2. Len(Tail(up)) = Len(up) - 1 /\ \A i \in 1 .. Len(Tail(up)) : Tail(up)[i] = up[i + 1]
    BY <1>1, HeadTailProperties
  <2> QED
    BY <1>1, <2>1, <2>2
<1>3. \A i \in 2 .. Len(up) : i - 1 \in 1 .. Len(up') /\ up'[i - 1] = up[i]
  <2> SUFFICES ASSUME NEW i \in 2 .. Len(up) PROVE i - 1 \in 1 .. Len(up') /\ up'[i - 1] = up[i]
    OBVIOUS
  <2>1. i - 1 \in 1 .. Len(up') /\ (i - 1) + 1 = i
    BY <1>1, <1>2
  <2> QED
    BY <1>2, <2>1
<1>4. \A i \in 1 .. Len(up) : IsEvent(up[i]) =>
        /\ up[i].nth > r /\ up[i].nth <= dev.decided /\ up[i].nth \in FIRING /\ up[i].fn = EndOf(up[i].nth)
        /\ \A j \in 1 .. Len(up) : j > i /\ IsEvent(up[j]) => up[j].nth > up[i].nth
  BY DEF ReadUpTo
<1>5. \A k \in FIRING : r < k /\ k <= dev.decided => \E i \in 1 .. Len(up) : IsEvent(up[i]) /\ up[i].nth = k
  BY DEF ReadUpTo
<1>6. \A i \in 1 .. Len(up) : IsEvent(up[i]) => up[i].nth \in Nat /\ up[i].fn \in Nat
  BY EventTypes
<1> HIDE DEF p
<1>7. ASSUME NEW i \in 1 .. Len(up'), IsEvent(up'[i])
      PROVE  /\ up'[i].nth > r /\ up'[i].nth <= dev'.decided /\ up'[i].nth \in FIRING /\ up'[i].fn = EndOf(up'[i].nth)
             /\ \A j \in 1 .. Len(up') : j > i /\ IsEvent(up'[j]) => up'[j].nth > up'[i].nth
             /\ IsEvent(p) => up'[i].nth > p.nth
  <2>1. i + 1 \in 1 .. Len(up) /\ up'[i] = up[i + 1] /\ i + 1 > 1
    BY <1>2
  <2>2. ASSUME NEW j \in 1 .. Len(up'), j > i, IsEvent(up'[j]) PROVE up'[j].nth > up'[i].nth
    <3>1. j + 1 \in 1 .. Len(up) /\ up'[j] = up[j + 1] /\ j + 1 > i + 1
      BY <1>2, <2>2
    <3> QED
      BY <1>4, <1>7, <2>1, <2>2, <3>1
  <2>3. IsEvent(p) => up[i + 1].nth > p.nth
    BY <1>2, <1>4, <1>7, <2>1
  <2> QED
    BY <1>1, <1>4, <1>7, <2>1, <2>2, <2>3
<1>8. CASE ~IsEvent(p)
  <2>1. hw' = hw
    BY <1>1, <1>8 DEF Handle, IsEvent
  <2>2. ASSUME NEW k \in FIRING, r < k, k <= dev.decided
        PROVE  \E i \in 1 .. Len(up') : IsEvent(up'[i]) /\ up'[i].nth = k
    <3>1. PICK i \in 1 .. Len(up) : IsEvent(up[i]) /\ up[i].nth = k
      BY <1>5, <2>2
    <3>2. i \in 2 .. Len(up)
      BY <1>1, <1>2, <1>8, <3>1
    <3> QED
      BY <1>3, <3>1, <3>2
  <2>3. Heard(r)'
    BY <2>1 DEF ReadUpTo, Heard
  <2>4. ReadUpTo(r)'
    BY <1>1, <1>7, <2>2, <2>3 DEF ReadUpTo
  <2> QED
    BY <1>1, <2>4
<1>9. CASE IsEvent(p)
  <2>m. PICK m \in Nat : m = p.nth
    BY <1>2, <1>6, <1>9
  <2>1. m \in Nat /\ m > r /\ m <= dev.decided /\ m \in FIRING /\ p.fn = EndOf(m) /\ p.fn \in Nat
    BY <1>2, <1>4, <1>6, <1>9, <2>m
  <2>3. hw' = IF p.fn >= WARMUP THEN Append(hw, p.fn) ELSE hw
    BY <1>1, <1>9 DEF Handle, IsEvent, Note
  <2>4. \A j \in FIRING : r < j => j >= m
    <3> SUFFICES ASSUME NEW j \in FIRING, r < j, j < m PROVE FALSE
      BY <2>1
    <3>1. j <= dev.decided /\ j \in Nat
      BY <1>1, <2>1
    <3>2. PICK i \in 1 .. Len(up) : IsEvent(up[i]) /\ up[i].nth = j
      BY <1>5, <3>1
    <3>3. i # 1
      BY <1>2, <2>1, <2>m, <3>1, <3>2
    <3>4. i \in 2 .. Len(up)
      BY <1>1, <3>3
    <3>5. i - 1 \in 1 .. Len(up') /\ up'[i - 1] = up[i]
      BY <1>3, <3>4
    <3>6. up[i].nth > m
      BY <1>7, <1>9, <2>m, <3>2, <3>5
    <3> QED
      BY <2>1, <3>1, <3>2, <3>6
  <2>5. Heard(m)'
    <3>1. PICK h \in Seq(Nat) : hw \in {h, <<Foreign>> \o h} /\ Lists(h, r)
      BY DEF ReadUpTo, Heard
    <3>2. /\ m \in FIRING /\ EndOf(m) >= WARMUP => Lists(Append(h, EndOf(m)), m)
          /\ ~(m \in FIRING /\ EndOf(m) >= WARMUP) => Lists(h, m)
      <4>1. r \in Nat /\ r < m
        BY <1>1, <2>1
      <4> QED
        BY <2>1, <2>4, <3>1, <4>1, ListsTo
    <3>3. CASE p.fn >= WARMUP
      <4>1. Append(h, p.fn) \in Seq(Nat) /\ Append(<<Foreign>> \o h, p.fn) = <<Foreign>> \o Append(h, p.fn)
        BY <2>1, ForeignFirst, AppendProperties
      <4>2. hw' \in {Append(h, p.fn), <<Foreign>> \o Append(h, p.fn)}
        BY <2>3, <3>1, <3>3, <4>1
      <4>3. Lists(Append(h, p.fn), m)
        BY <2>1, <3>2, <3>3
      <4> QED
        BY <4>1, <4>2, <4>3 DEF Heard
    <3>4. CASE ~(p.fn >= WARMUP)
      BY <2>1, <2>3, <3>1, <3>2, <3>4 DEF Heard
    <3> QED
      BY <3>3, <3>4
  <2>6. ASSUME NEW k \in FIRING, m < k, k <= dev.decided
        PROVE  \E i \in 1 .. Len(up') : IsEvent(up'[i]) /\ up'[i].nth = k
    <3>1. r < k
      BY <1>1, <2>1, <2>6
    <3>2. PICK i \in 1 .. Len(up) : IsEvent(up[i]) /\ up[i].nth = k
      BY <1>5, <2>6, <3>1
    <3>3. i # 1
      BY <1>2, <2>1, <2>m, <2>6, <3>2
    <3>4. i \in 2 .. Len(up)
      BY <1>1, <3>3
    <3> QED
      BY <1>3, <3>2, <3>4
  <2>7. \A i \in 1 .. Len(up') : IsEvent(up'[i]) => up'[i].nth > m
    BY <1>7, <1>9, <2>m
  <2>8. ReadUpTo(m)'
    <3>1. \A i \in 1 .. Len(up') : IsEvent(up'[i]) =>
            /\ up'[i].nth > m /\ up'[i].nth <= dev'.decided /\ up'[i].nth \in FIRING /\ up'[i].fn = EndOf(up'[i].nth)
            /\ \A j \in 1 .. Len(up') : j > i /\ IsEvent(up'[j]) => up'[j].nth > up'[i].nth
      BY <1>7, <2>7
    <3>2. \A k \in FIRING : m < k /\ k <= dev'.decided => \E i \in 1 .. Len(up') : IsEvent(up'[i]) /\ up'[i].nth = k
      BY <1>1, <2>6
    <3> QED
      BY <2>5, <3>1, <3>2 DEF ReadUpTo
  <2>9. m \in 0 .. dev'.decided
    BY <1>1, <2>1
  <2> QED
    BY <2>8, <2>9
<1> QED
  BY <1>8, <1>9

LEMMA EventsKeep ==
  ASSUME SessionInv, StopSession, LatencyInv, ~resume, Running, FlowInv, DevWindows, EventsRead, [Next]_vars, faults' = 0
  PROVE  EventsRead'
<1>1. /\ LinkInv /\ faults = 0 /\ ~LoseDown /\ ~LoseUp /\ ~Unplug /\ up \in Seq(Replies \cup Events) /\ Len(up) \in Nat
      /\ hw \in Seq(Nat) /\ dev.decided \in Nat
  BY NothingLost, LenProperties DEF SessionInv, LinkInv, LinkTypes, EventsRead, DevOK, Devices
<1>2. hw' \in Seq(Nat)
  <2>1. CASE WaitOther \/ Poll
    <3>1. up # <<>> /\ Handle(Head(up))
      BY <2>1 DEF WaitOther, Poll, Readable
    <3> QED
      BY <1>1, <3>1, HandleKeepsType
  <2> QED
    BY <1>1, <2>1, OnlyReads
<1>3. ASSUME pc' \in Loop PROVE \E r \in 0 .. dev'.decided : ReadUpTo(r)'
  <2>1. pc \in Loop /\ conn = "good"
    <3>1. ~Enter
      BY DEF Enter, Running, Loop, FinalStats
    <3> QED
      BY <1>3, <3>1, RunningMoves, GoodSends
  <2>2. PICK r \in 0 .. dev.decided : ReadUpTo(r)
    BY <2>1 DEF EventsRead
  <2>3. CASE Poll
    BY <1>1, <2>2, <2>3, PollReads
  <2>4. CASE DevDecide
    BY <1>1, <2>1, <2>2, <2>4, DecideAddsEvent
  <2>5. CASE ~Poll /\ ~DevDecide
    <3>1. pc # "WAIT" /\ pc # "SEND" /\ pc # "OPEN" /\ pc # "SLEEP"
      BY <2>1 DEF Loop
    <3>2. hw' = hw
      BY <2>5, <3>1, OnlyReads DEF WaitOther
    <3>3. dev'.decided = dev.decided
      BY <2>5, WindowsKeep
    <3>4. CASE up' = up
      BY <1>1, <2>2, <3>2, <3>3, <3>4, EventsRest
    <3>5. CASE \E p \in Replies \cup Events : ~IsEvent(p) /\ up' = Append(up, p)
      <4>1. PICK p \in Replies \cup Events : ~IsEvent(p) /\ up' = Append(up, p)
        BY <3>5
      <4>2. /\ Len(up') = Len(up) + 1 /\ up'[Len(up) + 1] = p
            /\ \A i \in 1 .. Len(up) : up'[i] = up[i]
            /\ \A i \in 1 .. Len(up') : i \in 1 .. Len(up) \/ i = Len(up) + 1
        BY <1>1, <4>1, UpAppends
      <4>3. Len(up') \in Nat /\ Len(up) <= Len(up')
        BY <1>1, <4>2
      <4>4. \A i \in 1 .. Len(up') : IsEvent(up'[i]) => i \in 1 .. Len(up)
        BY <4>1, <4>2
      <4> QED
        BY <1>1, <2>2, <3>2, <3>3, <4>2, <4>3, <4>4, EventsRest
    <3>6. CASE \E p : Write(p)
      <4>1. PICK p : Write(p)
        BY <3>6
      <4>2. /\ Len(up') = Len(up)
            /\ \A i \in 1 .. Len(up) : IsEvent(up'[i]) <=> IsEvent(up[i])
            /\ \A i \in 1 .. Len(up) : IsEvent(up[i]) => up'[i] = up[i]
        BY <1>1, <4>1, WriteKeepsEvents
      <4> QED
        BY <1>1, <2>2, <3>2, <3>3, <4>2, EventsRest
    <3>7. \/ up' = up
          \/ \E p \in Replies \cup Events : ~IsEvent(p) /\ up' = Append(up, p)
          \/ \E p : Write(p)
      <4>1. CASE DevStep
        BY <1>1, <2>5, <4>1, DevAppends
      <4>2. CASE AfterPoll
        BY <4>2 DEF AfterPoll
      <4>3. CASE SendFrame
        BY <4>3, GoodSends
      <4>4. CASE Replug \/ Sigint \/ Count \/ Shutdown \/ UNCHANGED vars
        BY <4>4 DEF Replug, Sigint, Count, Shutdown, linkVars, vars
      <4>5. ~Open /\ ~OpenFails /\ ~Wake /\ ~Abandon /\ ~SendCommand /\ ~WaitOther /\ ~WaitMatch /\ ~WaitTimeout
        BY <3>1 DEF Open, OpenFails, Wake, Abandon, SendCommand, WaitOther, WaitMatch, WaitTimeout
      <4> QED
        BY <1>1, <2>5, <4>1, <4>2, <4>3, <4>4, <4>5 DEF Next, HostStep, Finished
    <3> QED
      BY <3>4, <3>5, <3>6, <3>7
  <2> QED
    BY <2>3, <2>4, <2>5
<1> QED
  BY <1>2, <1>3 DEF EventsRead

-----------------------------------------------------------------------------
(* In step. *)

StreamInv == SessionInv /\ StopSession /\ LatencyInv /\ StepInv

LEMMA InitStream == Init => StreamInv
<1> SUFFICES ASSUME Init PROVE StreamInv
  OBVIOUS
<1>1. ~resume /\ pc = "OPEN" /\ cmd = "PING" /\ down = <<>>
  BY DEF Init
<1>2. ~Running
  BY <1>1 DEF Running, Loop, FinalStats
<1>3. dev.job = <<>>
  <2>1. DevPowerUp.job = <<>>
    BY DEF DevPowerUp, NoJob
  <2>2. [DevPowerUp EXCEPT !.stream = TRUE, !.commits = 1, !.window = <<Foreign>>].job = <<>>
    BY DEF DevPowerUp, NoJob
  <2> QED
    BY <2>1, <2>2 DEF Init
<1>4. Untouched
  BY <1>1, <1>3 DEF Init, Untouched, Overheard
<1>5. StepInv
  BY <1>1, <1>2, <1>4 DEF StepInv
<1> QED
  BY <1>5, InitSession, InitStop, InitLatency DEF StreamInv

LEMMA NextStep ==
  ASSUME SessionInv, StopSession, LatencyInv, StepInv, [Next]_vars, LatencyInv'
  PROVE  StepInv'
<1> SUFFICES ASSUME faults' = 0
             PROVE  /\ ~resume'
                    /\ ~Running' => Untouched'
                    /\ Running' => FlowInv' /\ DevWindows' /\ RefWindows' /\ EventsRead'
  BY DEF StepInv
<1>1. faults = 0 /\ ~resume
  BY NothingLost DEF StepInv
<1>2. ~resume' /\ (Running => Running') /\ (Running' /\ ~Running => Enter)
  BY <1>1, RunningMoves
<1>3. CASE Running
  <2>1. FlowInv /\ DevWindows /\ RefWindows /\ EventsRead
    BY <1>1, <1>3 DEF StepInv
  <2>2. FlowInv'
    BY <1>1, <1>3, <2>1, FlowKeeps
  <2>3. DevWindows'
    BY <1>3, <2>1, WindowsKeep
  <2>4. RefWindows'
    BY <2>1, RefKeeps
  <2>5. EventsRead'
    BY <1>1, <1>3, <2>1, EventsKeep
  <2> QED
    BY <1>2, <1>3, <2>2, <2>3, <2>4, <2>5
<1>4. CASE ~Running /\ Running'
  <2>1. Untouched
    BY <1>1, <1>4 DEF StepInv
  <2> QED
    BY <1>2, <1>4, <2>1, EnterBegins
<1>5. CASE ~Running /\ ~Running'
  <2>1. Untouched
    BY <1>1, <1>5 DEF StepInv
  <2> QED
    BY <1>1, <1>2, <1>5, <2>1, UntouchedKeeps
<1> QED
  BY <1>3, <1>4, <1>5

LEMMA NextStream == StreamInv /\ [Next]_vars => StreamInv'
<1> SUFFICES ASSUME StreamInv, [Next]_vars PROVE StreamInv'
  OBVIOUS
<1>1. SessionInv /\ StopSession /\ LatencyInv /\ StepInv
  BY DEF StreamInv
<1>2. SessionInv' /\ StopSession'
  BY <1>1, NextSession, NextStop
<1>3. RingTypes' /\ Holds(send_us, LATRING)'
  BY <1>1, RingTypesKeep DEF LatencyInv
<1>4. NumberInv'
  BY <1>1, NumberKeeps DEF LatencyInv
<1>5. LatencyInv'
  BY <1>3, <1>4 DEF LatencyInv
<1>6. StepInv'
  BY <1>1, <1>5, NextStep
<1> QED
  BY <1>2, <1>5, <1>6 DEF StreamInv

LEMMA Prefixes ==
  ASSUME NEW S, NEW s \in Seq(S), NEW t \in Seq(S), Len(s) <= Len(t), \A k \in 1 .. Len(s) : s[k] = t[k]
  PROVE  Prefix(s, t)
<1>1. Len(s) \in Nat /\ Len(t) \in Nat
  BY LenProperties
<1>2. SubSeq(t, 1, Len(s)) \in Seq(S) /\ Len(SubSeq(t, 1, Len(s))) = Len(s)
      /\ \A k \in 1 .. Len(s) : SubSeq(t, 1, Len(s))[k] = t[k]
  <2>1. 1 \in 1 .. Len(t) + 1 /\ Len(s) \in 1 - 1 .. Len(t)
    BY <1>1
  <2>2. /\ SubSeq(t, 1, Len(s)) \in Seq(S)
        /\ Len(SubSeq(t, 1, Len(s))) = IF Len(s) < 1 THEN 0 ELSE (Len(s) - 1) + 1
        /\ \A k \in 1 .. (Len(s) - 1) + 1 : SubSeq(t, 1, Len(s))[k] = t[(1 + k) - 1]
    BY <1>1, <2>1, SubSeqProperties
  <2>3. (Len(s) - 1) + 1 = Len(s) /\ \A k \in 1 .. Len(s) : (1 + k) - 1 = k
    BY <1>1
  <2> QED
    BY <1>1, <2>2, <2>3
<1>3. s = SubSeq(t, 1, Len(s))
  BY <1>2, SeqEqual
<1>4. Len(s) \in 0 .. Len(t)
  BY <1>1
<1> QED
  BY <1>3, <1>4, Zenon DEF Prefix

LEMMA SameWindows == ASSUME StreamInv PROVE WindowsAgree
<1> SUFFICES ASSUME SameStride, faults = 0 PROVE Prefix(dev_wins, ref_wins) \/ Prefix(ref_wins, dev_wins)
  BY DEF WindowsAgree, OneSchedule
<1>1. dev_wins \in Seq(Seq(Nat)) /\ ref_wins \in Seq(Seq(Nat))
      /\ \A k \in 1 .. Len(dev_wins) : k \in 1 .. Len(ref_wins) => dev_wins[k] = ref_wins[k]
  <2>1. CASE Running
    <3>1. DevWindows /\ RefWindows
      BY <2>1 DEF StreamInv, StepInv
    <3> QED
      BY <3>1 DEF DevWindows, RefWindows
  <2>2. CASE ~Running
    <3>1. dev_wins = <<>> /\ ref_wins = <<>>
      BY <2>2 DEF StreamInv, StepInv, Untouched
    <3>2. Len(dev_wins) = 0 /\ dev_wins \in Seq(Seq(Nat)) /\ ref_wins \in Seq(Seq(Nat))
      BY <3>1
    <3> QED
      BY <3>2
  <2> QED
    BY <2>1, <2>2
<1>2. Len(dev_wins) \in Nat /\ Len(ref_wins) \in Nat
  BY <1>1, LenProperties
<1>3. CASE Len(dev_wins) <= Len(ref_wins)
  <2>1. \A k \in 1 .. Len(dev_wins) : dev_wins[k] = ref_wins[k]
    BY <1>1, <1>2, <1>3
  <2> QED
    BY <1>1, <1>3, <2>1, Prefixes
<1>4. CASE Len(ref_wins) <= Len(dev_wins)
  <2>1. \A k \in 1 .. Len(ref_wins) : ref_wins[k] = dev_wins[k]
    BY <1>1, <1>2, <1>4
  <2> QED
    BY <1>1, <1>4, <2>1, Prefixes
<1> QED
  BY <1>2, <1>3, <1>4

\* A quiet line: all frames are committed, and all windows decided and reported.
LEMMA SameEvents == ASSUME StreamInv PROVE EventsAgree
<1> USE DeviceAssumption, SessionAssumption
<1> SUFFICES ASSUME SameStride, faults = 0, pc = "LOOP", Quiescent, up = <<>>
             PROVE  hw \in {ref, <<Foreign>> \o ref}
  BY DEF EventsAgree
<1> DEFINE d == dev.decided
<1>1. FlowInv /\ DevWindows /\ RefWindows /\ EventsRead
  BY DEF StreamInv, StepInv, Running, Loop
<1>2. down = <<>> /\ dev.job = <<>> /\ Len(down) = 0 /\ Len(up) = 0
  BY DEF Quiescent, NoJob
<1>3. dev.commits \in Nat /\ d \in Nat /\ frame_num \in 0 .. MAX_FRAMES /\ Handed = frame_num
  BY DEF StreamInv, SessionInv, LinkInv, LinkTypes, DevOK, Devices, LatencyInv, RingTypes, Handed
<1>4. dev.commits = frame_num
  <2>1. dev.commits <= frame_num
    BY <1>1, <1>3 DEF FlowInv
  <2>2. ~(dev.commits < frame_num)
    <3> SUFFICES ASSUME dev.commits < frame_num PROVE FALSE
      OBVIOUS
    <3>1. dev.commits \in 0 .. MAX_FRAMES /\ dev.commits <= dev.commits /\ dev.commits < Handed
      BY <1>3
    <3>2. \E i \in 1 .. Len(down) : IsFeature(down[i])
      BY <1>1, <3>1 DEF FlowInv
    <3> QED
      BY <1>2, <3>2
  <2> QED
    BY <1>3, <2>1, <2>2
<1>5. d = g_smooth
  <2>1. Counted(frame_num, d)
    BY <1>1, <1>2, <1>4 DEF DevWindows, Ended
  <2>2. Counted(frame_num, g_smooth) /\ g_smooth \in Nat /\ frame_num \in Nat
    BY <1>1, <1>3 DEF RefWindows
  <2> QED
    BY <1>3, <2>1, <2>2, CountedOnce
<1> HIDE DEF d
<1>6. PICK r \in 0 .. d : ReadUpTo(r)
  BY <1>1 DEF EventsRead, d, Loop
<1>h. PICK h \in Seq(Nat) : hw \in {h, <<Foreign>> \o h} /\ Lists(h, r)
  BY <1>6 DEF ReadUpTo, Heard
<1>7. r \in Nat /\ ref \in Seq(Nat) /\ Lists(ref, d)
  BY <1>1, <1>3, <1>5, <1>6 DEF RefWindows
<1>8. \A k \in FIRING : ~(r < k /\ k <= d)
  BY <1>2, <1>6 DEF ReadUpTo, d
<1>9. Lists(h, d)
  <2>1. CASE r = d
    BY <1>h, <2>1
  <2>2. CASE r < d
    <3>1. d \notin FIRING
      BY <1>3, <1>8, <2>2
    <3>2. \A j \in FIRING : r < j => j >= d
      BY <1>3, <1>7, <1>8
    <3> QED
      BY <1>3, <1>7, <1>h, <2>2, <3>1, <3>2, ListsTo
  <2> QED
    BY <1>3, <1>6, <2>1, <2>2
<1>10. h = ref
  BY <1>3, <1>7, <1>9, ListsOnce
<1> QED
  BY <1>h, <1>10

\* InStep: while nothing is lost client and device stream, and if the board has the
\* client's stride, then through the same windows, and report the same events, but for one
\* of an earlier run that the client reads before its session; and whatever is lost an
\* event is timed from the sending of its own frame.
THEOREM KeepsInStep == Spec => []InStep
<1>1. StreamInv => InStep
  <2> SUFFICES ASSUME StreamInv PROVE InStep
    OBVIOUS
  <2>1. SessionInv /\ StopSession /\ LatencyInv
    BY DEF StreamInv
  <2>2. TypeOK
    BY <2>1 DEF TypeOK, SessionInv, HostTypes, LatencyInv, RingTypes
  <2>3. StreamsInStep /\ StreamsToOwnModel
    BY <2>1 DEF SessionInv, PortInv, HostTypes, StopSession, StopInv, StreamsInStep, StreamsToOwnModel, Loop
  <2> QED
    BY <2>1, <2>2, <2>3, SameWindows, SameEvents, TimedFromOwnFrame DEF InStep
<1> QED
  BY <1>1, InitStream, NextStream, PTL DEF Spec

=============================================================================
