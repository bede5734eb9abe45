-------------------------- MODULE LifecycleProofs --------------------------
(***************************************************************************)
(* Theorems of Lifecycle: main returns only after the goroutine it started *)
(* has, no send to the Reporter's channel waits, and the startup screen    *)
(* follows setup, telling of its steps in their order.                     *)
(***************************************************************************)
EXTENDS Lifecycle, TLAPS

Places == {"syncing", "attaching", "restoring", "reading"} \cup Ended

SetupReports == {StepMsg(i, s) : i \in Steps, s \in {"active", "done", "failed"}} \cup {ReadyMsg}
Messages == SetupReports \cup {QuitMsg}

\* The steps that setup has behind it when it is at this place.
Passed(place) ==
    CASE place \in {"syncing", "sync failed"} -> {}
      [] place \in {"attaching", "attach failed"} -> {0}
      [] place \in {"restoring", "restore failed"} -> {0, 1}
      [] OTHER -> Steps

\* What the screen has still to see, in the order in which it will.
Pending == updates \o outbox

-----------------------------------------------------------------------------
LifecycleTypeOK ==
    /\ setup \in Places
    /\ main \in {"screen", "select", "waiting", "exited"}
    /\ errCh \in {"none", "taken"} \cup Ended
    /\ watcher \in {"waits", "quits", "over"}
    /\ outbox \in Seq(SetupReports)
    /\ updates \in Seq(Messages)
    /\ screen \in [running : BOOLEAN, ready : BOOLEAN, failed : BOOLEAN,
                   status : [Steps -> {"pending", "active", "done", "failed"}]]

\* errCh holds something only once setup has ended.
ErrIsAnEnd == errCh \in Ended => setup \in Ended

\* How many messages setup and the watcher may yet come to send.
YetToReport(place) ==
    CASE place = "syncing" -> 6 [] place = "attaching" -> 4 [] place = "restoring" -> 2
      [] OTHER -> 0
YetToQuit == IF watcher = "over" THEN 0 ELSE 1

\* Seven reports and one quit is all there ever is.
EnoughRoom == Len(updates) + Len(outbox) + YetToReport(setup) + YetToQuit <= 8

\* What was said to be done has been passed, and what was passed has been said.
DoneIsPassed ==
    /\ \A i \in Steps : screen.status[i] = "done" => i \in Passed(setup)
    /\ \A k \in 1 .. Len(Pending), i \in Steps :
         Pending[k] = StepMsg(i, "done") => i \in Passed(setup)

PassedIsSaid ==
    mode = "screen" =>
      \A i \in Passed(setup) :
        \/ screen.status[i] = "done"
        \/ \E k \in 1 .. Len(Pending) : Pending[k] = StepMsg(i, "done")

\* Nothing is said of a step after it was done, nor of any after ready.
NothingAfterDone ==
    \A k \in 1 .. Len(Pending) :
      Pending[k].type = "step" =>
        /\ screen.status[Pending[k].index] # "done"
        /\ \A j \in 1 .. (k - 1) : Pending[j] # StepMsg(Pending[k].index, "done")

NothingAfterReady ==
    \A k \in 1 .. Len(Pending) :
      Pending[k].type = "step" =>
        /\ ~screen.ready
        /\ \A j \in 1 .. (k - 1) : Pending[j].type # "ready"

ReadyAtTheEnd ==
    (screen.ready \/ \E k \in 1 .. Len(Pending) : Pending[k].type = "ready")
       => mode = "screen" /\ Passed(setup) = Steps

FailedToSync ==
    (screen.failed \/ \E k \in 1 .. Len(Pending), i \in Steps : Pending[k] = StepMsg(i, "failed"))
       => setup = "sync failed"

\* Nothing is said of a step before the one above it was said to be done.
ToldInOrder ==
    /\ \A i \in {1, 2} : screen.status[i] # "pending" => screen.status[i - 1] = "done"
    /\ \A k \in 1 .. Len(Pending) :
         Pending[k].type = "step" /\ Pending[k].index # 0 =>
           \/ screen.status[Pending[k].index - 1] = "done"
           \/ \E j \in 1 .. (k - 1) : Pending[j] = StepMsg(Pending[k].index - 1, "done")

Truthful ==
    /\ DoneIsPassed /\ PassedIsSaid /\ NothingAfterDone
    /\ NothingAfterReady /\ ReadyAtTheEnd /\ FailedToSync /\ ToldInOrder

\* Setup has the last step behind it only after it called exporter.Start.
ServerIsCalled == 2 \in Passed(setup) => server # "off"

Inv == LifecycleTypeOK /\ ErrIsAnEnd /\ MainOutlivesStart /\ EnoughRoom /\ Truthful

-----------------------------------------------------------------------------
(* One move of setup, whatever it reports. *)

\* What the reports of a move from one place to another have to be.
Honest(from, to, msgs) ==
    /\ msgs \in Seq(SetupReports)
    /\ from # "sync failed" /\ Passed(from) \subseteq Passed(to)
    /\ \A k \in 1 .. Len(msgs) : msgs[k].type = "step" => msgs[k].index \notin Passed(from)
    /\ \A k \in 1 .. Len(msgs), i \in Steps : msgs[k] = StepMsg(i, "done") => i \in Passed(to)
    /\ \A i \in Passed(to) \ Passed(from) : \E k \in 1 .. Len(msgs) : msgs[k] = StepMsg(i, "done")
    /\ \A k \in 1 .. Len(msgs) : \A j \in 1 .. (k - 1) :
         msgs[k].type = "step" => /\ msgs[j] # StepMsg(msgs[k].index, "done")
                                  /\ msgs[j].type # "ready"
    /\ \A k \in 1 .. Len(msgs) : msgs[k].type = "step" /\ msgs[k].index # 0 =>
         \/ msgs[k].index - 1 \in Passed(from)
         \/ \E j \in 1 .. (k - 1) : msgs[j] = StepMsg(msgs[k].index - 1, "done")
    /\ (\E k \in 1 .. Len(msgs) : msgs[k].type = "ready") => Passed(to) = Steps
    /\ (\E k \in 1 .. Len(msgs), i \in Steps : msgs[k] = StepMsg(i, "failed"))
         => to = "sync failed"

\* The six places that setup moves to and the reports it makes on the way
\* (main.go:54-85, loader.go:26-68).
LEMMA MovesAreHonest ==
    /\ Honest("syncing", "attaching", <<StepMsg(0, "done"), StepMsg(1, "active")>>)
    /\ Honest("syncing", "sync failed", <<StepMsg(0, "failed")>>)
    /\ Honest("attaching", "restoring", <<StepMsg(1, "done"), StepMsg(2, "active")>>)
    /\ Honest("restoring", "reading", <<StepMsg(2, "done"), ReadyMsg>>)
    /\ \A from \in Places, to \in Places :
         from # "sync failed" /\ Passed(from) = Passed(to) => Honest(from, to, <<>>)
<1>1. Honest("syncing", "attaching", <<StepMsg(0, "done"), StepMsg(1, "active")>>)
  <2> DEFINE m == <<StepMsg(0, "done"), StepMsg(1, "active")>>
  <2>1. Passed("syncing") = {} /\ Passed("attaching") = {0}
    BY DEF Passed
  <2>2. m \in Seq(SetupReports) /\ Len(m) = 2 /\ m[1] = StepMsg(0, "done") /\ m[2] = StepMsg(1, "active")
    BY DEF SetupReports, StepMsg, Steps
  <2> HIDE DEF m
  <2> QED  BY <2>1, <2>2 DEF Honest, StepMsg, Steps, ReadyMsg, m
<1>2. Honest("syncing", "sync failed", <<StepMsg(0, "failed")>>)
  <2> DEFINE m == <<StepMsg(0, "failed")>>
  <2>1. Passed("syncing") = {} /\ Passed("sync failed") = {}
    BY DEF Passed
  <2>2. m \in Seq(SetupReports) /\ Len(m) = 1 /\ m[1] = StepMsg(0, "failed")
    BY DEF SetupReports, StepMsg, Steps
  <2>3. m[1].type = "step" /\ m[1].index = 0 /\ \A i \in Steps : m[1] # StepMsg(i, "done")
    BY <2>2 DEF StepMsg
  <2> HIDE DEF m
  <2>4. \A k \in 1 .. Len(m) : k = 1 /\ 1 .. (k - 1) = {}
    BY <2>2
  <2>5. Passed("sync failed") \ Passed("syncing") = {}
    BY <2>1
  <2>6. /\ \A k \in 1 .. Len(m) : m[k].type = "step" => m[k].index \notin Passed("syncing")
        /\ \A k \in 1 .. Len(m), i \in Steps : m[k] = StepMsg(i, "done") => i \in Passed("sync failed")
        /\ \A k \in 1 .. Len(m) : m[k].type # "ready"
    BY <2>1, <2>3, <2>4
  <2>7. Passed("syncing") \subseteq Passed("sync failed")
    BY <2>1
  <2>8. \A k \in 1 .. Len(m) : \A j \in 1 .. (k - 1) :
           m[k].type = "step" => m[j] # StepMsg(m[k].index, "done") /\ m[j].type # "ready"
    BY <2>4
  <2>9. \A i \in Passed("sync failed") \ Passed("syncing") :
           \E k \in 1 .. Len(m) : m[k] = StepMsg(i, "done")
    BY <2>5
  <2>10. \A k \in 1 .. Len(m) : m[k].type = "step" /\ m[k].index # 0 =>
           \/ m[k].index - 1 \in Passed("syncing")
           \/ \E j \in 1 .. (k - 1) : m[j] = StepMsg(m[k].index - 1, "done")
    BY <2>3, <2>4
  <2>11. Honest("syncing", "sync failed", m)
    BY <2>2, <2>6, <2>7, <2>8, <2>9, <2>10, Zenon DEF Honest
  <2> QED  BY <2>11 DEF m
<1>3. Honest("attaching", "restoring", <<StepMsg(1, "done"), StepMsg(2, "active")>>)
  <2> DEFINE m == <<StepMsg(1, "done"), StepMsg(2, "active")>>
  <2>1. Passed("attaching") = {0} /\ Passed("restoring") = {0, 1}
    BY DEF Passed
  <2>2. m \in Seq(SetupReports) /\ Len(m) = 2 /\ m[1] = StepMsg(1, "done") /\ m[2] = StepMsg(2, "active")
    BY DEF SetupReports, StepMsg, Steps
  <2> HIDE DEF m
  <2> QED  BY <2>1, <2>2 DEF Honest, StepMsg, Steps, ReadyMsg, m
<1>4. Honest("restoring", "reading", <<StepMsg(2, "done"), ReadyMsg>>)
  <2> DEFINE m == <<StepMsg(2, "done"), ReadyMsg>>
  <2>1. Passed("restoring") = {0, 1} /\ Passed("reading") = Steps
    BY DEF Passed
  <2>2. m \in Seq(SetupReports) /\ Len(m) = 2 /\ m[1] = StepMsg(2, "done") /\ m[2] = ReadyMsg
    BY DEF SetupReports, StepMsg, Steps, ReadyMsg
  <2>3. m[1].type = "step" /\ m[1].index = 2 /\ m[2].type = "ready"
    BY <2>2 DEF StepMsg, ReadyMsg
  <2>4. \A i \in Steps, s \in {"done", "failed"} : m[2] # StepMsg(i, s)
    BY <2>3 DEF StepMsg
  <2>5. \A i \in Steps : m[1] # StepMsg(i, "failed") /\ (m[1] = StepMsg(i, "done") => i = 2)
    BY <2>2 DEF StepMsg
  <2> HIDE DEF m
  <2> QED  BY <2>1, <2>2, <2>3, <2>4, <2>5 DEF Honest, Steps, m
<1>5. ASSUME NEW from \in Places, NEW to \in Places, from # "sync failed", Passed(from) = Passed(to)
      PROVE  Honest(from, to, <<>>)
  <2> DEFINE m == <<>>
  <2>1. m \in Seq(SetupReports) /\ 1 .. Len(m) = {}
    OBVIOUS
  <2> HIDE DEF m
  <2>2. Honest(from, to, m)
    BY <1>5, <2>1 DEF Honest
  <2> QED  BY <2>2 DEF m
<1> QED  BY <1>1, <1>2, <1>3, <1>4, <1>5

\* A report says one thing.
LEMMA StepMsgIs ==
    \A i, j \in Steps, s, t \in STRING :
      /\ StepMsg(i, s).type = "step" /\ StepMsg(i, s).index = i /\ StepMsg(i, s).status = s
      /\ StepMsg(i, s) = StepMsg(j, t) => i = j /\ s = t
BY DEF StepMsg

LEMMA MessageIs ==
    ASSUME NEW m \in Messages
    PROVE  \/ m.type = "step" /\ m.index \in Steps /\ m.status \in {"active", "done", "failed"}
              /\ m = StepMsg(m.index, m.status)
           \/ m.type = "ready" /\ m = ReadyMsg
           \/ m.type = "quit" /\ m = QuitMsg
BY DEF Messages, SetupReports, StepMsg, ReadyMsg, QuitMsg

LEMMA OtherTypes == ReadyMsg.type = "ready" /\ QuitMsg.type = "quit"
BY DEF ReadyMsg, QuitMsg

LEMMA PendingIs ==
    ASSUME LifecycleTypeOK
    PROVE  Pending \in Seq(Messages) /\ Len(Pending) = Len(updates) + Len(outbox)
BY DEF LifecycleTypeOK, Pending, Messages

LEMMA PassedIsSteps ==
    ASSUME NEW p \in Places
    PROVE  Passed(p) \subseteq Steps
<1>1. {} \subseteq Steps /\ {0} \subseteq Steps /\ {0, 1} \subseteq Steps
  BY DEF Steps
<1> QED  BY <1>1 DEF Passed

-----------------------------------------------------------------------------
(* Every step keeps the screen truthful. *)

\* A move of setup appends to what is pending, when there is a screen.
LEMMA MoveAppends ==
    ASSUME LifecycleTypeOK, NEW from \in Places, NEW to \in Places, NEW msgs \in Seq(SetupReports),
           Moves(from, to, msgs)
    PROVE  /\ screen' = screen /\ mode' = mode /\ setup = from /\ setup' = to
           /\ outbox' \in Seq(SetupReports)
           /\ \E sent \in Seq(Messages) :
                /\ (mode = "screen" /\ sent = msgs) \/ (mode # "screen" /\ sent = <<>>)
                /\ Pending' = Pending \o sent
<1> DEFINE sent == IF mode = "screen" THEN msgs ELSE <<>>
<1>1. outbox = <<>> /\ outbox' = sent /\ updates' = updates
  BY DEF Moves, Going, Reports, screenVars
<1>2. sent \in Seq(SetupReports) /\ sent \in Seq(Messages)
  BY DEF Messages
<1>3. Pending' = updates \o sent /\ Pending = updates
  BY <1>1 DEF Pending, LifecycleTypeOK
<1> QED  BY <1>1, <1>2, <1>3 DEF Moves, screenVars

LEMMA MoveKeepsTruth ==
    ASSUME LifecycleTypeOK, Truthful, NEW from \in Places, NEW to \in Places, NEW msgs,
           Moves(from, to, msgs), Honest(from, to, msgs)
    PROVE  Truthful'
<1>1. msgs \in Seq(SetupReports)
  BY DEF Honest
<1>2. PICK sent \in Seq(Messages) :
             /\ (mode = "screen" /\ sent = msgs) \/ (mode # "screen" /\ sent = <<>>)
             /\ Pending' = Pending \o sent
  BY <1>1, MoveAppends
<1>3. screen' = screen /\ mode' = mode /\ setup = from /\ setup' = to
  BY <1>1, MoveAppends
<1>4. Pending \in Seq(Messages) /\ sent \in Seq(Messages)
  BY PendingIs
<1> DEFINE n == Len(Pending)
<1>5. /\ n \in Nat /\ Len(sent) \in Nat
      /\ Len(Pending') = n + Len(sent)
      /\ \A k \in 1 .. n : k \in 1 .. Len(Pending') /\ Pending'[k] = Pending[k]
      /\ \A k \in 1 .. Len(sent) : n + k \in 1 .. Len(Pending') /\ Pending'[n + k] = sent[k]
  BY <1>2, <1>4
<1>6. \A k \in 1 .. Len(Pending') : \/ k \in 1 .. n /\ Pending'[k] = Pending[k]
                                    \/ k - n \in 1 .. Len(sent) /\ Pending'[k] = sent[k - n]
  <2>1. \A k \in 1 .. Len(Pending') : k \in 1 .. n \/ k - n \in 1 .. Len(sent)
    BY <1>5
  <2>2. \A k \in 1 .. Len(Pending') : k - n \in 1 .. Len(sent) => Pending'[k] = sent[k - n]
    <3> SUFFICES ASSUME NEW k \in 1 .. Len(Pending'), k - n \in 1 .. Len(sent)
                 PROVE  Pending'[k] = sent[k - n]
      OBVIOUS
    <3>1. n + (k - n) = k
      BY <1>5
    <3> QED  BY <1>5, <3>1
  <2> QED  BY <1>5, <2>1, <2>2
<1>7. /\ Passed(from) \subseteq Passed(to) /\ Passed(to) \subseteq Steps /\ from # "sync failed"
      /\ \A k \in 1 .. Len(sent) : sent[k].type = "step" => sent[k].index \notin Passed(from)
      /\ \A k \in 1 .. Len(sent), i \in Steps : sent[k] = StepMsg(i, "done") => i \in Passed(to)
      /\ mode = "screen" => \A i \in Passed(to) \ Passed(from) :
                              \E k \in 1 .. Len(sent) : sent[k] = StepMsg(i, "done")
      /\ \A k \in 1 .. Len(sent) : \A j \in 1 .. (k - 1) :
           sent[k].type = "step" => /\ sent[j] # StepMsg(sent[k].index, "done")
                                    /\ sent[j].type # "ready"
      /\ \A k \in 1 .. Len(sent) : sent[k].type = "step" /\ sent[k].index # 0 =>
           mode = "screen" /\
             \/ sent[k].index - 1 \in Passed(from)
             \/ \E j \in 1 .. (k - 1) : sent[j] = StepMsg(sent[k].index - 1, "done")
      /\ (\E k \in 1 .. Len(sent) : sent[k].type = "ready") => mode = "screen" /\ Passed(to) = Steps
      /\ (\E k \in 1 .. Len(sent), i \in Steps : sent[k] = StepMsg(i, "failed"))
           => to = "sync failed"
  <2>1. Passed(to) \subseteq Steps
    BY PassedIsSteps
  <2>2. CASE mode = "screen" /\ sent = msgs
    BY <2>1, <2>2, Zenon DEF Honest
  <2>3. CASE mode # "screen" /\ sent = <<>>
    <3>1. 1 .. Len(sent) = {}
      BY <2>3
    <3> QED  BY <2>1, <2>3, <3>1 DEF Honest
  <2> QED  BY <1>2, <2>2, <2>3
<1> HIDE DEF n
<1>8. DoneIsPassed'
  <2>1. \A i \in Steps : screen'.status[i] = "done" => i \in Passed(setup')
    BY <1>3, <1>7 DEF Truthful, DoneIsPassed
  <2>2. \A k \in 1 .. Len(Pending'), i \in Steps :
           Pending'[k] = StepMsg(i, "done") => i \in Passed(setup')
    BY <1>3, <1>6, <1>7 DEF Truthful, DoneIsPassed, n
  <2> QED  BY <2>1, <2>2 DEF DoneIsPassed
<1>9. PassedIsSaid'
  <2> SUFFICES ASSUME mode = "screen", NEW i \in Passed(to)
               PROVE  \/ screen.status[i] = "done"
                      \/ \E k \in 1 .. Len(Pending') : Pending'[k] = StepMsg(i, "done")
    BY <1>3 DEF PassedIsSaid
  <2>1. CASE i \in Passed(from)
    BY <1>3, <1>5, <2>1 DEF Truthful, PassedIsSaid, n
  <2>2. CASE i \notin Passed(from)
    <3>1. PICK k \in 1 .. Len(sent) : sent[k] = StepMsg(i, "done")
      BY <1>7, <2>2
    <3> QED  BY <1>5, <3>1
  <2> QED  BY <2>1, <2>2
<1>10. NothingAfterDone' /\ NothingAfterReady'
  <2> SUFFICES ASSUME NEW k \in 1 .. Len(Pending'), Pending'[k].type = "step"
               PROVE  /\ screen.status[Pending'[k].index] # "done" /\ ~screen.ready
                      /\ \A j \in 1 .. (k - 1) : /\ Pending'[j] # StepMsg(Pending'[k].index, "done")
                                                 /\ Pending'[j].type # "ready"
    BY <1>3 DEF NothingAfterDone, NothingAfterReady
  <2>1. CASE k \in 1 .. n /\ Pending'[k] = Pending[k]
    <3>1. \A j \in 1 .. (k - 1) : Pending'[j] = Pending[j]
      BY <1>5, <2>1
    <3> QED  BY <2>1, <3>1 DEF Truthful, NothingAfterDone, NothingAfterReady, n
  <2>2. CASE k - n \in 1 .. Len(sent) /\ Pending'[k] = sent[k - n]
    <3> DEFINE i == sent[k - n].index
    <3>1. i \in Steps
      <4>1. sent[k - n] \in Messages
        BY <1>4, <2>2
      <4> QED  BY <2>2, <4>1, MessageIs, OtherTypes
    <3>2. i \notin Passed(from)
      BY <1>7, <2>2
    <3>3. screen.status[i] # "done" /\ \A j \in 1 .. n : Pending[j] # StepMsg(i, "done")
      BY <1>3, <3>1, <3>2 DEF Truthful, DoneIsPassed, n
    <3>4. ~screen.ready /\ \A j \in 1 .. n : Pending[j].type # "ready"
      BY <1>3, <3>1, <3>2 DEF Truthful, ReadyAtTheEnd, n
    <3>5. ASSUME NEW j \in 1 .. (k - 1)
          PROVE  Pending'[j] # StepMsg(i, "done") /\ Pending'[j].type # "ready"
      <4>1. j \in 1 .. Len(Pending')
        BY <1>5
      <4>2. CASE j \in 1 .. n /\ Pending'[j] = Pending[j]
        BY <3>3, <3>4, <4>2
      <4>3. CASE j - n \in 1 .. Len(sent) /\ Pending'[j] = sent[j - n]
        <5>1. j - n \in 1 .. ((k - n) - 1)
          BY <1>5, <4>3
        <5> QED  BY <1>7, <2>2, <4>3, <5>1
      <4> QED  BY <1>6, <4>1, <4>2, <4>3
    <3> QED  BY <2>2, <3>3, <3>4, <3>5
  <2> QED  BY <1>6, <2>1, <2>2
<1>11. ReadyAtTheEnd'
  <2> SUFFICES ASSUME screen.ready \/ \E k \in 1 .. Len(Pending') : Pending'[k].type = "ready"
               PROVE  mode = "screen" /\ Passed(to) = Steps
    BY <1>3 DEF ReadyAtTheEnd
  <2>1. CASE screen.ready \/ \E k \in 1 .. n : Pending[k].type = "ready"
    BY <1>3, <1>7, <2>1 DEF Truthful, ReadyAtTheEnd, n
  <2>2. CASE \E k \in 1 .. Len(sent) : sent[k].type = "ready"
    BY <1>7, <2>2
  <2> QED  BY <1>6, <2>1, <2>2
<1>12. FailedToSync'
  <2> SUFFICES ASSUME \/ screen.failed
                      \/ \E k \in 1 .. Len(Pending'), i \in Steps : Pending'[k] = StepMsg(i, "failed")
               PROVE  to = "sync failed"
    BY <1>3 DEF FailedToSync
  <2>1. ~screen.failed /\ \A k \in 1 .. n, i \in Steps : Pending[k] # StepMsg(i, "failed")
    BY <1>3, <1>7 DEF Truthful, FailedToSync, n
  <2> QED  BY <1>6, <1>7, <2>1
<1>13. ToldInOrder'
  <2>1. \A i \in {1, 2} : screen'.status[i] # "pending" => screen'.status[i - 1] = "done"
    BY <1>3 DEF Truthful, ToldInOrder
  <2> SUFFICES ASSUME NEW k \in 1 .. Len(Pending'),
                      Pending'[k].type = "step", Pending'[k].index # 0
               PROVE  \/ screen.status[Pending'[k].index - 1] = "done"
                      \/ \E j \in 1 .. (k - 1) : Pending'[j] = StepMsg(Pending'[k].index - 1, "done")
    BY <1>3, <2>1 DEF ToldInOrder
  <2>2. CASE k \in 1 .. n /\ Pending'[k] = Pending[k]
    <3>1. \A j \in 1 .. (k - 1) : Pending'[j] = Pending[j]
      BY <1>5, <2>2
    <3> QED  BY <2>2, <3>1 DEF Truthful, ToldInOrder, n
  <2>3. CASE k - n \in 1 .. Len(sent) /\ Pending'[k] = sent[k - n]
    <3> DEFINE i == sent[k - n].index - 1
    <3>1. mode = "screen" /\ (\/ i \in Passed(from)
                              \/ \E j \in 1 .. ((k - n) - 1) : sent[j] = StepMsg(i, "done"))
      BY <1>7, <2>3
    <3> HIDE DEF i
    <3>2. \A l \in 1 .. n : l \in 1 .. (k - 1) /\ Pending'[l] = Pending[l]
      BY <1>5, <2>3
    <3>3. CASE i \in Passed(from)
      BY <1>3, <2>3, <3>1, <3>2, <3>3 DEF Truthful, PassedIsSaid, n, i
    <3>4. ASSUME NEW j \in 1 .. ((k - n) - 1), sent[j] = StepMsg(i, "done")
          PROVE  \E l \in 1 .. (k - 1) : Pending'[l] = StepMsg(i, "done")
      <4>1. n + j \in 1 .. (k - 1) /\ j \in 1 .. Len(sent)
        BY <1>5, <2>3
      <4>2. Pending'[n + j] = sent[j]
        BY <1>5, <4>1
      <4> QED  BY <3>4, <4>1, <4>2
    <3> QED  BY <2>3, <3>1, <3>3, <3>4 DEF i
  <2> QED  BY <1>6, <2>2, <2>3
<1> QED  BY <1>8, <1>9, <1>10, <1>11, <1>12, <1>13 DEF Truthful

\* A step that neither tells nor shows anything new.
LEMMA SilentKeepsTruth ==
    ASSUME Truthful, Pending' = Pending, setup' = setup, mode' = mode,
           screen'.status = screen.status, screen'.ready = screen.ready,
           screen'.failed = screen.failed
    PROVE  Truthful'
<1>1. DoneIsPassed'
  BY DEF Truthful, DoneIsPassed
<1>2. PassedIsSaid'
  BY DEF Truthful, PassedIsSaid
<1>3. NothingAfterDone'
  BY DEF Truthful, NothingAfterDone
<1>4. NothingAfterReady'
  BY DEF Truthful, NothingAfterReady
<1>5. ReadyAtTheEnd'
  BY DEF Truthful, ReadyAtTheEnd
<1>6. FailedToSync'
  BY DEF Truthful, FailedToSync
<1>7. ToldInOrder'
  BY DEF Truthful, ToldInOrder
<1> QED  BY <1>1, <1>2, <1>3, <1>4, <1>5, <1>6, <1>7 DEF Truthful

\* A report that goes from the outbox into the channel stays in its place.
LEMMA SendKeepsPending ==
    ASSUME LifecycleTypeOK, SendReport
    PROVE  Pending' = Pending
<1>1. outbox \in Seq(Messages) /\ updates \in Seq(Messages) /\ outbox # <<>>
  BY DEF LifecycleTypeOK, Messages, SendReport
<1>2. updates' = Append(updates, Head(outbox)) /\ outbox' = Tail(outbox)
  BY DEF SendReport
<1>3. Append(updates, Head(outbox)) \o Tail(outbox) = updates \o outbox
  BY <1>1
<1> QED  BY <1>2, <1>3 DEF Pending

\* The quit of the watcher goes between what is sent and what is not.
LEMMA QuitKeepsTruth ==
    ASSUME LifecycleTypeOK, Truthful, WatcherQuits
    PROVE  Truthful'
<1> DEFINE n == Len(updates)
           old(k) == IF k <= n THEN k ELSE k - 1
<1>1. /\ updates' = Append(updates, QuitMsg) /\ outbox' = outbox
      /\ setup' = setup /\ mode' = mode /\ screen' = screen
  BY DEF WatcherQuits, setupVars
<1>2. outbox \in Seq(Messages) /\ updates \in Seq(Messages) /\ QuitMsg \in Messages
  BY DEF LifecycleTypeOK, Messages
<1>3. /\ n \in Nat /\ Len(outbox) \in Nat
      /\ Len(Pending) = n + Len(outbox) /\ Len(Pending') = n + 1 + Len(outbox)
  BY <1>1, <1>2 DEF Pending
<1>4. /\ \A k \in 1 .. n : Pending[k] = updates[k] /\ Pending'[k] = updates[k]
      /\ Pending'[n + 1] = QuitMsg
      /\ \A l \in 1 .. Len(outbox) : Pending[n + l] = outbox[l] /\ Pending'[n + 1 + l] = outbox[l]
  BY <1>1, <1>2 DEF Pending
<1>5. ASSUME NEW k \in 1 .. Len(Pending'), k # n + 1
      PROVE  old(k) \in 1 .. Len(Pending) /\ Pending'[k] = Pending[old(k)]
  <2>1. CASE k <= n
    BY <1>3, <1>4, <2>1
  <2>2. CASE k > n
    <3>1. PICK l \in 1 .. Len(outbox) : n + l = k - 1 /\ n + 1 + l = k
      <4> DEFINE l == k - (n + 1)
      <4>1. l \in 1 .. Len(outbox) /\ n + l = k - 1 /\ n + 1 + l = k
        BY <1>3, <1>5, <2>2
      <4> QED  BY <4>1
    <3>2. Pending[n + l] = outbox[l] /\ Pending'[n + 1 + l] = outbox[l]
      BY <1>4
    <3>3. Pending[k - 1] = Pending'[k]
      BY <3>1, <3>2
    <3> QED  BY <1>3, <1>5, <2>2, <3>1, <3>3
  <2> QED  BY <1>3, <2>1, <2>2
<1>6. ASSUME NEW k \in 1 .. Len(Pending)
      PROVE  \E l \in 1 .. Len(Pending') : Pending'[l] = Pending[k]
  <2>1. CASE k <= n
    BY <1>3, <1>4, <2>1
  <2>2. CASE k > n
    <3>1. k - n \in 1 .. Len(outbox) /\ n + (k - n) = k /\ n + 1 + (k - n) = k + 1
      BY <1>3, <2>2
    <3>2. Pending[n + (k - n)] = outbox[k - n] /\ Pending'[n + 1 + (k - n)] = outbox[k - n]
      BY <1>4, <3>1
    <3>3. k + 1 \in 1 .. Len(Pending')
      BY <1>3
    <3> QED  BY <3>1, <3>2, <3>3
  <2> QED  BY <1>3, <2>1, <2>2
<1>7. ASSUME NEW k \in 1 .. Len(Pending'), NEW j \in 1 .. (k - 1), k # n + 1, j # n + 1
      PROVE  j \in 1 .. Len(Pending') /\ old(j) \in 1 .. (old(k) - 1)
  BY <1>3, <1>7
<1>7b. ASSUME NEW k \in 1 .. Len(Pending'), k # n + 1, NEW j \in 1 .. (old(k) - 1)
       PROVE  \E l \in 1 .. (k - 1) : Pending'[l] = Pending[j]
  <2>1. CASE j <= n
    <3>1. j \in 1 .. (k - 1) /\ j \in 1 .. n
      BY <1>3, <1>7b, <2>1
    <3> QED  BY <1>4, <3>1
  <2>2. CASE j > n
    <3>1. j - n \in 1 .. Len(outbox) /\ n + (j - n) = j /\ n + 1 + (j - n) = j + 1 /\ j + 1 \in 1 .. (k - 1)
      BY <1>3, <1>7b, <2>2
    <3>2. Pending[n + (j - n)] = outbox[j - n] /\ Pending'[n + 1 + (j - n)] = outbox[j - n]
      BY <1>4, <3>1
    <3> QED  BY <3>1, <3>2
  <2> QED  BY <1>3, <2>1, <2>2
<1>8. Pending'[n + 1].type = "quit" /\ \A i \in Steps, s \in {"done", "failed"} : Pending'[n + 1] # StepMsg(i, s)
  BY <1>4 DEF StepMsg, QuitMsg
<1>9. \A k \in 1 .. Len(Pending') : Pending'[k].type = "step" => Pending'[k].index \in Steps
  <2>1. Pending' \in Seq(Messages)
    BY <1>1, <1>2 DEF Pending
  <2> QED  BY <2>1, MessageIs, OtherTypes
<1> HIDE DEF n, old
<1>10. DoneIsPassed'
  BY <1>1, <1>5, <1>8 DEF Truthful, DoneIsPassed
<1>11. PassedIsSaid'
  <2> SUFFICES ASSUME mode = "screen", NEW i \in Passed(setup)
               PROVE  \/ screen.status[i] = "done"
                      \/ \E k \in 1 .. Len(Pending') : Pending'[k] = StepMsg(i, "done")
    BY <1>1 DEF PassedIsSaid
  <2>1. ASSUME NEW k \in 1 .. Len(Pending), Pending[k] = StepMsg(i, "done")
        PROVE  \E l \in 1 .. Len(Pending') : Pending'[l] = StepMsg(i, "done")
    BY <1>6, <2>1
  <2> QED  BY <2>1 DEF Truthful, PassedIsSaid
<1>12. NothingAfterDone' /\ NothingAfterReady'
  <2> SUFFICES ASSUME NEW k \in 1 .. Len(Pending'), Pending'[k].type = "step"
               PROVE  /\ screen.status[Pending'[k].index] # "done" /\ ~screen.ready
                      /\ \A j \in 1 .. (k - 1) : /\ Pending'[j] # StepMsg(Pending'[k].index, "done")
                                                 /\ Pending'[j].type # "ready"
    BY <1>1 DEF NothingAfterDone, NothingAfterReady
  <2>1. k # n + 1
    BY <1>8
  <2>2. /\ screen.status[Pending'[k].index] # "done" /\ ~screen.ready
        /\ \A j \in 1 .. (old(k) - 1) : /\ Pending[j] # StepMsg(Pending'[k].index, "done")
                                        /\ Pending[j].type # "ready"
    BY <1>5, <2>1 DEF Truthful, NothingAfterDone, NothingAfterReady
  <2>3. ASSUME NEW j \in 1 .. (k - 1)
        PROVE  Pending'[j] # StepMsg(Pending'[k].index, "done") /\ Pending'[j].type # "ready"
    <3>1. CASE j = n + 1
      BY <1>8, <1>9, <3>1
    <3>2. CASE j # n + 1
      <4>1. j \in 1 .. Len(Pending') /\ old(j) \in 1 .. (old(k) - 1)
        BY <1>7, <2>1, <3>2
      <4>2. Pending'[j] = Pending[old(j)]
        BY <1>5, <3>2, <4>1
      <4> QED  BY <2>2, <4>1, <4>2
    <3> QED  BY <3>1, <3>2
  <2> QED  BY <2>2, <2>3
<1>13. ReadyAtTheEnd'
  BY <1>1, <1>5, <1>8 DEF Truthful, ReadyAtTheEnd
<1>14. FailedToSync'
  BY <1>1, <1>5, <1>8 DEF Truthful, FailedToSync
<1>15. ToldInOrder'
  <2>1. \A i \in {1, 2} : screen'.status[i] # "pending" => screen'.status[i - 1] = "done"
    BY <1>1 DEF Truthful, ToldInOrder
  <2> SUFFICES ASSUME NEW k \in 1 .. Len(Pending'),
                      Pending'[k].type = "step", Pending'[k].index # 0,
                      screen.status[Pending'[k].index - 1] # "done"
               PROVE  \E j \in 1 .. (k - 1) : Pending'[j] = StepMsg(Pending'[k].index - 1, "done")
    BY <1>1, <2>1 DEF ToldInOrder
  <2>2. k # n + 1
    BY <1>8
  <2>3. PICK j \in 1 .. (old(k) - 1) : Pending[j] = StepMsg(Pending'[k].index - 1, "done")
    BY <1>5, <2>2 DEF Truthful, ToldInOrder
  <2>4. PICK l \in 1 .. (k - 1) : Pending'[l] = Pending[j]
    BY <1>7b, <2>2
  <2> QED  BY <2>3, <2>4
<1> QED  BY <1>10, <1>11, <1>12, <1>13, <1>14, <1>15 DEF Truthful

\* The screen takes the first of what is pending.
LEMMA ReceiveTakes ==
    ASSUME LifecycleTypeOK, ScreenReceives
    PROVE  /\ setup' = setup /\ mode' = mode
           /\ Pending \in Seq(Messages) /\ Len(Pending) \in Nat \ {0}
           /\ Len(Pending') = Len(Pending) - 1
           /\ \A k \in 1 .. Len(Pending') : /\ k + 1 \in 1 .. Len(Pending)
                                            /\ Pending'[k] = Pending[k + 1]
           /\ Pending[1] \in Messages
           /\ screen' = Update(screen, Pending[1])
<1>1. /\ updates # <<>> /\ updates' = Tail(updates) /\ outbox' = outbox
      /\ screen' = Update(screen, Head(updates)) /\ setup' = setup /\ mode' = mode
  BY DEF ScreenReceives, UnchangedButScreen, setupVars
<1>2. outbox \in Seq(Messages) /\ updates \in Seq(Messages)
  BY DEF LifecycleTypeOK, Messages
<1>3. Head(updates) = Pending[1] /\ Pending \in Seq(Messages) /\ Len(Pending) \in Nat \ {0}
  BY <1>1, <1>2 DEF Pending
<1>4. Pending' = Tail(Pending)
  BY <1>1, <1>2 DEF Pending
<1> QED  BY <1>1, <1>3, <1>4

\* What a message does to the screen.
LEMMA UpdateIs ==
    ASSUME LifecycleTypeOK, NEW m \in Messages
    PROVE  LET s == Update(screen, m)
           IN  /\ s \in [running : BOOLEAN, ready : BOOLEAN, failed : BOOLEAN,
                         status : [Steps -> {"pending", "active", "done", "failed"}]]
               /\ \A i \in Steps : s.status[i] = IF m.type = "step" /\ m.index = i
                                                 THEN m.status ELSE screen.status[i]
               /\ s.ready <=> screen.ready \/ m.type = "ready"
               /\ s.failed <=> screen.failed \/ \E i \in Steps : m = StepMsg(i, "failed")
<1>1. screen \in [running : BOOLEAN, ready : BOOLEAN, failed : BOOLEAN,
                  status : [Steps -> {"pending", "active", "done", "failed"}]]
  BY DEF LifecycleTypeOK
<1>2. CASE m.type = "step" /\ m.index \in Steps /\ m.status \in {"active", "done", "failed"}
           /\ m = StepMsg(m.index, m.status)
  <2>1. m.status = "failed" <=> \E i \in Steps : m = StepMsg(i, "failed")
    BY <1>2 DEF StepMsg
  <2> DEFINE s == Update(screen, m)
  <2>2. s = [screen EXCEPT !.status[m.index] = m.status,
                           !.failed = @ \/ m.status = "failed"]
    BY <1>2 DEF Update
  <2> HIDE DEF s
  <2>3. /\ s.status = [screen.status EXCEPT ![m.index] = m.status]
        /\ s.failed = (screen.failed \/ m.status = "failed")
        /\ s.ready = screen.ready /\ s.running = screen.running
    BY <1>1, <2>2
  <2>4. s.failed \in BOOLEAN /\ (s.failed <=> screen.failed \/ m.status = "failed")
    BY <2>3
  <2>5. s.status \in [Steps -> {"pending", "active", "done", "failed"}]
    BY <1>1, <1>2, <2>3
  <2>6. s = [running |-> screen.running, ready |-> screen.ready,
             failed |-> (screen.failed \/ m.status = "failed"),
             status |-> [screen.status EXCEPT ![m.index] = m.status]]
    BY <1>1, <2>2
  <2>7. s \in [running : BOOLEAN, ready : BOOLEAN, failed : BOOLEAN,
               status : [Steps -> {"pending", "active", "done", "failed"}]]
    BY <1>1, <2>3, <2>4, <2>5, <2>6
  <2>8. \A i \in Steps : s.status[i] = IF m.index = i THEN m.status ELSE screen.status[i]
    BY <1>1, <1>2, <2>3
  <2>9. s.failed <=> screen.failed \/ \E i \in Steps : m = StepMsg(i, "failed")
    BY <2>1, <2>4
  <2>10. (s.ready <=> screen.ready \/ m.type = "ready")
    BY <1>2, <2>3
  <2> QED  BY <1>2, <2>7, <2>8, <2>9, <2>10 DEF s
<1>3. CASE m.type = "ready" /\ m = ReadyMsg
  <2>1. \A i \in Steps : m # StepMsg(i, "failed")
    BY <1>3 DEF StepMsg, ReadyMsg
  <2>2. Update(screen, m) = [screen EXCEPT !.ready = TRUE]
    BY <1>3 DEF Update
  <2> QED  BY <1>1, <1>3, <2>1, <2>2
<1>4. CASE m.type = "quit" /\ m = QuitMsg
  <2>1. \A i \in Steps : m # StepMsg(i, "failed")
    BY <1>4 DEF StepMsg, QuitMsg
  <2>2. Update(screen, m) = [screen EXCEPT !.running = FALSE]
    BY <1>4 DEF Update, Ends
  <2> QED  BY <1>1, <1>4, <2>1, <2>2
<1> QED  BY <1>2, <1>3, <1>4, MessageIs

LEMMA ReceiveKeepsTruth ==
    ASSUME LifecycleTypeOK, Truthful, ScreenReceives
    PROVE  Truthful'
<1> DEFINE m == Pending[1]
<1>1. /\ setup' = setup /\ mode' = mode
      /\ 1 \in 1 .. Len(Pending) /\ Len(Pending) \in Nat /\ Len(Pending') = Len(Pending) - 1
      /\ \A k \in 1 .. Len(Pending') : k + 1 \in 1 .. Len(Pending) /\ Pending'[k] = Pending[k + 1]
      /\ Pending \in Seq(Messages) /\ m \in Messages
      /\ screen' = Update(screen, m)
  BY ReceiveTakes
<1>2. /\ \A i \in Steps : screen'.status[i] = IF m.type = "step" /\ m.index = i
                                              THEN m.status ELSE screen.status[i]
      /\ screen'.ready <=> screen.ready \/ m.type = "ready"
      /\ screen'.failed <=> screen.failed \/ \E i \in Steps : m = StepMsg(i, "failed")
  BY <1>1, UpdateIs
<1>3. \A k \in 1 .. Len(Pending) : Pending[k].type = "step" =>
        Pending[k].index \in Steps /\ Pending[k] = StepMsg(Pending[k].index, Pending[k].status)
  BY <1>1, MessageIs, OtherTypes
<1>4. \A k \in 1 .. Len(Pending), i \in Steps : Pending[k] = StepMsg(i, "done") =>
        Pending[k].type = "step" /\ Pending[k].index = i /\ Pending[k].status = "done"
  BY DEF StepMsg
<1>5. DoneIsPassed'
  <2>1. \A i \in Steps : screen'.status[i] = "done" => i \in Passed(setup)
    <3> SUFFICES ASSUME NEW i \in Steps, screen'.status[i] = "done"
                 PROVE  i \in Passed(setup)
      OBVIOUS
    <3>1. screen.status[i] = "done" \/ m = StepMsg(i, "done")
      BY <1>1, <1>2, <1>3
    <3> QED  BY <1>1, <3>1 DEF Truthful, DoneIsPassed
  <2>2. \A k \in 1 .. Len(Pending'), i \in Steps : Pending'[k] = StepMsg(i, "done") => i \in Passed(setup)
    BY <1>1 DEF Truthful, DoneIsPassed
  <2> QED  BY <1>1, <2>1, <2>2 DEF DoneIsPassed
<1>6. PassedIsSaid'
  <2> SUFFICES ASSUME mode = "screen", NEW i \in Passed(setup)
               PROVE  \/ screen'.status[i] = "done"
                      \/ \E k \in 1 .. Len(Pending') : Pending'[k] = StepMsg(i, "done")
    BY <1>1 DEF PassedIsSaid
  <2>1. i \in Steps
    BY PassedIsSteps DEF LifecycleTypeOK
  <2>2. CASE screen.status[i] = "done"
    <3>1. ~(m.type = "step" /\ m.index = i)
      BY <1>1, <2>2 DEF Truthful, NothingAfterDone
    <3> QED  BY <1>2, <2>1, <2>2, <3>1
  <2>3. ASSUME NEW k \in 1 .. Len(Pending), Pending[k] = StepMsg(i, "done")
        PROVE  \/ screen'.status[i] = "done"
               \/ \E l \in 1 .. Len(Pending') : Pending'[l] = StepMsg(i, "done")
    <3>1. CASE k = 1
      BY <1>1, <1>2, <1>4, <2>1, <2>3, <3>1
    <3>2. CASE k # 1
      <4>1. k - 1 \in 1 .. Len(Pending') /\ (k - 1) + 1 = k
        BY <1>1, <3>2
      <4> QED  BY <1>1, <2>3, <4>1
    <3> QED  BY <3>1, <3>2
  <2> QED  BY <2>2, <2>3 DEF Truthful, PassedIsSaid
<1>7. NothingAfterDone' /\ NothingAfterReady'
  <2> SUFFICES ASSUME NEW k \in 1 .. Len(Pending'), Pending'[k].type = "step"
               PROVE  /\ screen'.status[Pending'[k].index] # "done" /\ ~screen'.ready
                      /\ \A j \in 1 .. (k - 1) : /\ Pending'[j] # StepMsg(Pending'[k].index, "done")
                                                 /\ Pending'[j].type # "ready"
    BY DEF NothingAfterDone, NothingAfterReady
  <2> DEFINE i == Pending'[k].index
  <2>1. k + 1 \in 1 .. Len(Pending) /\ Pending'[k] = Pending[k + 1] /\ i \in Steps
    BY <1>1, <1>3
  <2>2. /\ screen.status[i] # "done" /\ ~screen.ready
        /\ \A j \in 1 .. k : Pending[j] # StepMsg(i, "done") /\ Pending[j].type # "ready"
    <3>1. (k + 1) - 1 = k
      OBVIOUS
    <3> QED  BY <2>1, <3>1 DEF Truthful, NothingAfterDone, NothingAfterReady
  <2>3. m # StepMsg(i, "done") /\ m.type # "ready"
    BY <2>2
  <2>4. screen'.status[i] # "done" /\ ~screen'.ready
    BY <1>1, <1>2, <1>3, <2>1, <2>2, <2>3
  <2>5. \A j \in 1 .. (k - 1) : j + 1 \in 1 .. k /\ Pending'[j] = Pending[j + 1]
    BY <1>1
  <2> QED  BY <2>2, <2>4, <2>5
<1>8. ReadyAtTheEnd'
  BY <1>1, <1>2 DEF Truthful, ReadyAtTheEnd
<1>9. FailedToSync'
  <2>1. screen'.failed => setup = "sync failed"
    BY <1>1, <1>2 DEF Truthful, FailedToSync
  <2>2. \A k \in 1 .. Len(Pending'), i \in Steps :
          Pending'[k] = StepMsg(i, "failed") => setup = "sync failed"
    BY <1>1 DEF Truthful, FailedToSync
  <2> QED  BY <1>1, <2>1, <2>2 DEF FailedToSync
<1>10. \A i \in Steps : screen.status[i] = "done" => screen'.status[i] = "done"
  <2> SUFFICES ASSUME NEW i \in Steps, screen.status[i] = "done"
               PROVE  screen'.status[i] = "done"
    OBVIOUS
  <2>1. ~(m.type = "step" /\ m.index = i)
    BY <1>1 DEF Truthful, NothingAfterDone
  <2> QED  BY <1>2, <2>1
<1>11. ToldInOrder'
  <2>1. ASSUME NEW i \in {1, 2}, screen'.status[i] # "pending"
        PROVE  screen'.status[i - 1] = "done"
    <3>1. i \in Steps /\ i - 1 \in Steps /\ i # 0
      BY DEF Steps
    <3>2. CASE screen.status[i] # "pending"
      BY <1>10, <3>1, <3>2 DEF Truthful, ToldInOrder
    <3>3. CASE m.type = "step" /\ m.index = i
      <4>1. screen.status[i - 1] = "done"
        BY <1>1, <3>1, <3>3 DEF Truthful, ToldInOrder
      <4> QED  BY <1>10, <3>1, <4>1
    <3> QED  BY <1>2, <2>1, <3>1, <3>2, <3>3
  <2> SUFFICES ASSUME NEW k \in 1 .. Len(Pending'),
                      Pending'[k].type = "step", Pending'[k].index # 0
               PROVE  \/ screen'.status[Pending'[k].index - 1] = "done"
                      \/ \E j \in 1 .. (k - 1) : Pending'[j] = StepMsg(Pending'[k].index - 1, "done")
    BY <2>1 DEF ToldInOrder
  <2> DEFINE i == Pending'[k].index - 1
  <2>2. k + 1 \in 1 .. Len(Pending) /\ Pending'[k] = Pending[k + 1] /\ (k + 1) - 1 = k
    BY <1>1
  <2>3. i \in Steps
    <3>1. Pending'[k].index \in Steps
      BY <1>3, <2>2
    <3> QED  BY <3>1 DEF Steps
  <2>4. screen.status[i] = "done" \/ \E j \in 1 .. k : Pending[j] = StepMsg(i, "done")
    BY <2>2 DEF Truthful, ToldInOrder
  <2> HIDE DEF i
  <2>5. ASSUME NEW j \in 1 .. k, Pending[j] = StepMsg(i, "done")
        PROVE  screen'.status[i] = "done" \/ \E l \in 1 .. (k - 1) : Pending'[l] = StepMsg(i, "done")
    <3>1. CASE j = 1
      BY <1>1, <1>2, <1>4, <2>3, <2>5, <3>1
    <3>2. CASE j # 1
      <4>1. j - 1 \in 1 .. (k - 1) /\ j - 1 \in 1 .. Len(Pending') /\ (j - 1) + 1 = j
        BY <1>1, <3>2
      <4> QED  BY <1>1, <2>5, <4>1
    <3> QED  BY <3>1, <3>2
  <2>6. screen'.status[i] = "done" \/ \E l \in 1 .. (k - 1) : Pending'[l] = StepMsg(i, "done")
    BY <1>10, <2>3, <2>4, <2>5
  <2> QED  BY <2>6 DEF i
<1> QED  BY <1>5, <1>6, <1>7, <1>8, <1>9, <1>11 DEF Truthful

-----------------------------------------------------------------------------
(* The inductive invariant. *)

LEMMA InitInv == Init => Inv
<1> SUFFICES ASSUME Init
             PROVE  Inv
  OBVIOUS
<1>1. /\ setup = "syncing" /\ errCh = "none" /\ watcher = "waits" /\ updates = <<>>
      /\ main \in {"screen", "select"}
      /\ screen = [running |-> mode = "screen", ready |-> FALSE, failed |-> FALSE,
                   status |-> [i \in Steps |-> "pending"]]
  BY DEF Init
<1>2. \/ outbox = <<>>
      \/ outbox = <<StepMsg(0, "active")>>
  BY DEF Init
<1>3. outbox \in Seq(SetupReports) /\ Len(outbox) \in 0 .. 1
      /\ \A k \in 1 .. Len(outbox) : k = 1 /\ outbox[k] = StepMsg(0, "active")
  <2> DEFINE first == StepMsg(0, "active")
  <2>1. first \in SetupReports
    BY DEF SetupReports, Steps
  <2> HIDE DEF first
  <2>2. CASE outbox = <<>>
    BY <2>2
  <2>3. CASE outbox = <<first>>
    BY <2>1, <2>3 DEF first
  <2> QED  BY <1>2, <2>2, <2>3 DEF first
<1>4. LifecycleTypeOK
  BY <1>1, <1>3 DEF LifecycleTypeOK, Places
<1>5. ErrIsAnEnd /\ MainOutlivesStart
  BY <1>1 DEF ErrIsAnEnd, MainOutlivesStart, Ended, StartFailures
<1>6. EnoughRoom
  BY <1>1, <1>3 DEF EnoughRoom, YetToReport, YetToQuit
<1>7. Pending = outbox
  BY <1>1, <1>3 DEF Pending
<1>8. \A k \in 1 .. Len(Pending) :
        /\ 1 .. (k - 1) = {} /\ Pending[k].type = "step"
        /\ \A i \in Steps : Pending[k] # StepMsg(i, "done") /\ Pending[k] # StepMsg(i, "failed")
  BY <1>3, <1>7 DEF StepMsg
<1>9. /\ ~screen.ready /\ ~screen.failed /\ Passed(setup) = {}
      /\ \A i : screen.status[i] # "done" \/ i \notin Steps
  BY <1>1 DEF Passed
<1>10. \A k \in 1 .. Len(Pending) : Pending[k].index \in Steps
  BY <1>3, <1>7 DEF StepMsg, Steps
<1>11. DoneIsPassed /\ PassedIsSaid
  BY <1>8, <1>9 DEF DoneIsPassed, PassedIsSaid
<1>12. NothingAfterDone /\ NothingAfterReady
  BY <1>8, <1>9, <1>10 DEF NothingAfterDone, NothingAfterReady
<1>13. ReadyAtTheEnd /\ FailedToSync
  BY <1>8, <1>9 DEF ReadyAtTheEnd, FailedToSync
<1>14. ToldInOrder
  <2>1. \A i \in {1, 2} : screen.status[i] = "pending"
    BY <1>1 DEF Steps
  <2>2. \A k \in 1 .. Len(Pending) : Pending[k].index = 0
    BY <1>3, <1>7 DEF StepMsg
  <2> QED  BY <2>1, <2>2 DEF ToldInOrder
<1> QED  BY <1>4, <1>5, <1>6, <1>11, <1>12, <1>13, <1>14 DEF Inv, Truthful

\* Where the places are that setup leaves and enters, and what it reports there:
\* with what it may yet report, never more than before.
SetupMove(from, to, msgs) ==
    /\ from \in Places \ Ended /\ to \in Places
    /\ Moves(from, to, msgs) /\ Honest(from, to, msgs)
    /\ Len(msgs) + YetToReport(to) <= YetToReport(from)

LEMMA YetToReportIs ==
    /\ YetToReport("syncing") = 6 /\ YetToReport("attaching") = 4
    /\ YetToReport("restoring") = 2 /\ YetToReport("reading") = 0
    /\ YetToReport("sync failed") = 0 /\ YetToReport("attach failed") = 0
    /\ YetToReport("restore failed") = 0
    /\ YetToReport("read failed") = 0 /\ YetToReport("stopped") = 0
    /\ \A place \in Places : YetToReport(place) \in Nat
BY DEF YetToReport

\* The sums of SetupMoves.
LEMMA Fits ==
    \A sends, before, after :
      \/ sends = 2 /\ before = 6 /\ after = 4
      \/ sends = 2 /\ before = 4 /\ after = 2
      \/ sends = 2 /\ before = 2 /\ after = 0
      \/ sends = 1 /\ before = 6 /\ after = 0
      \/ sends = 0 /\ before \in {4, 2, 0} /\ after = 0
      => sends + after <= before
OBVIOUS

LEMMA SetupMoves ==
    ASSUME Synced \/ SyncFailed \/ Attached \/ Restored
             \/ AttachFailed \/ RestoreFailed \/ ReaderClosed \/ ReadFailed
    PROVE  \E from, to, msgs : SetupMove(from, to, msgs)
<1>1. /\ "syncing" \in Places \ Ended /\ "attaching" \in Places \ Ended
      /\ "restoring" \in Places \ Ended /\ "reading" \in Places \ Ended
      /\ "sync failed" \in Places /\ "attach failed" \in Places
      /\ "restore failed" \in Places /\ "read failed" \in Places /\ "stopped" \in Places
  BY DEF Places, Ended, StartFailures
<1>2. CASE Synced
  <2>1. SetupMove("syncing", "attaching", <<StepMsg(0, "done"), StepMsg(1, "active")>>)
    <3>1. Moves("syncing", "attaching", <<StepMsg(0, "done"), StepMsg(1, "active")>>)
      BY <1>2 DEF Synced
    <3>2. Honest("syncing", "attaching", <<StepMsg(0, "done"), StepMsg(1, "active")>>)
      BY <1>1, MovesAreHonest
    <3>3. Len(<<StepMsg(0, "done"), StepMsg(1, "active")>>) = 2
      OBVIOUS
    <3>4. Len(<<StepMsg(0, "done"), StepMsg(1, "active")>>) + YetToReport("attaching") <= YetToReport("syncing")
      BY YetToReportIs, Fits, <3>3, Zenon
    <3> QED  BY <1>1, <3>1, <3>2, <3>4, Zenon DEF SetupMove
  <2> QED  BY <2>1
<1>3. CASE SyncFailed
  <2>1. SetupMove("syncing", "sync failed", <<StepMsg(0, "failed")>>)
    <3>1. Moves("syncing", "sync failed", <<StepMsg(0, "failed")>>)
      BY <1>3 DEF SyncFailed
    <3>2. Honest("syncing", "sync failed", <<StepMsg(0, "failed")>>)
      BY <1>1, MovesAreHonest
    <3>3. Len(<<StepMsg(0, "failed")>>) = 1
      OBVIOUS
    <3>4. Len(<<StepMsg(0, "failed")>>) + YetToReport("sync failed") <= YetToReport("syncing")
      BY YetToReportIs, Fits, <3>3, Zenon
    <3> QED  BY <1>1, <3>1, <3>2, <3>4, Zenon DEF SetupMove
  <2> QED  BY <2>1
<1>4. CASE Attached
  <2>1. SetupMove("attaching", "restoring", <<StepMsg(1, "done"), StepMsg(2, "active")>>)
    <3>1. Moves("attaching", "restoring", <<StepMsg(1, "done"), StepMsg(2, "active")>>)
      BY <1>4 DEF Attached
    <3>2. Honest("attaching", "restoring", <<StepMsg(1, "done"), StepMsg(2, "active")>>)
      BY <1>1, MovesAreHonest
    <3>3. Len(<<StepMsg(1, "done"), StepMsg(2, "active")>>) = 2
      OBVIOUS
    <3>4. Len(<<StepMsg(1, "done"), StepMsg(2, "active")>>) + YetToReport("restoring") <= YetToReport("attaching")
      BY YetToReportIs, Fits, <3>3, Zenon
    <3> QED  BY <1>1, <3>1, <3>2, <3>4, Zenon DEF SetupMove
  <2> QED  BY <2>1
<1>5. CASE Restored
  <2>1. SetupMove("restoring", "reading", <<StepMsg(2, "done"), ReadyMsg>>)
    <3>1. Moves("restoring", "reading", <<StepMsg(2, "done"), ReadyMsg>>)
      BY <1>5 DEF Restored
    <3>2. Honest("restoring", "reading", <<StepMsg(2, "done"), ReadyMsg>>)
      BY <1>1, MovesAreHonest
    <3>3. Len(<<StepMsg(2, "done"), ReadyMsg>>) = 2
      OBVIOUS
    <3>4. Len(<<StepMsg(2, "done"), ReadyMsg>>) + YetToReport("reading") <= YetToReport("restoring")
      BY YetToReportIs, Fits, <3>3, Zenon
    <3> QED  BY <1>1, <3>1, <3>2, <3>4, Zenon DEF SetupMove
  <2> QED  BY <2>1
<1>6. CASE AttachFailed
  <2>1. Passed("attaching") = Passed("attach failed")
    BY DEF Passed
  <2>2. SetupMove("attaching", "attach failed", <<>>)
    <3>1. Moves("attaching", "attach failed", <<>>)
      BY <1>6 DEF AttachFailed
    <3>2. Honest("attaching", "attach failed", <<>>)
      BY <1>1, <2>1, MovesAreHonest
    <3>3. Len(<<>>) = 0
      OBVIOUS
    <3>4. Len(<<>>) + YetToReport("attach failed") <= YetToReport("attaching")
      BY YetToReportIs, Fits, <3>3, Zenon
    <3> QED  BY <1>1, <3>1, <3>2, <3>4, Zenon DEF SetupMove
  <2> QED  BY <2>2
<1>7. CASE RestoreFailed
  <2>1. Passed("restoring") = Passed("restore failed")
    BY DEF Passed
  <2>2. SetupMove("restoring", "restore failed", <<>>)
    <3>1. Moves("restoring", "restore failed", <<>>)
      BY <1>7 DEF RestoreFailed
    <3>2. Honest("restoring", "restore failed", <<>>)
      BY <1>1, <2>1, MovesAreHonest
    <3>3. Len(<<>>) = 0
      OBVIOUS
    <3>4. Len(<<>>) + YetToReport("restore failed") <= YetToReport("restoring")
      BY YetToReportIs, Fits, <3>3, Zenon
    <3> QED  BY <1>1, <3>1, <3>2, <3>4, Zenon DEF SetupMove
  <2> QED  BY <2>2
<1>8. CASE ReaderClosed \/ ReadFailed
  <2>1. Passed("reading") = Passed("stopped") /\ Passed("reading") = Passed("read failed")
    BY DEF Passed
  <2>2. CASE ReaderClosed
    <3>1. SetupMove("reading", "stopped", <<>>)
      <4>1. Moves("reading", "stopped", <<>>)
        BY <2>2 DEF ReaderClosed
      <4>2. Honest("reading", "stopped", <<>>)
        BY <1>1, <2>1, MovesAreHonest
      <4>3. Len(<<>>) = 0
        OBVIOUS
      <4>4. Len(<<>>) + YetToReport("stopped") <= YetToReport("reading")
        BY YetToReportIs, Fits, <4>3, Zenon
      <4> QED  BY <1>1, <4>1, <4>2, <4>4, Zenon DEF SetupMove
    <3> QED  BY <3>1
  <2>3. CASE ReadFailed
    <3>1. SetupMove("reading", "read failed", <<>>)
      <4>1. Moves("reading", "read failed", <<>>)
        BY <2>3 DEF ReadFailed
      <4>2. Honest("reading", "read failed", <<>>)
        BY <1>1, <2>1, MovesAreHonest
      <4>3. Len(<<>>) = 0
        OBVIOUS
      <4>4. Len(<<>>) + YetToReport("read failed") <= YetToReport("reading")
        BY YetToReportIs, Fits, <4>3, Zenon
      <4> QED  BY <1>1, <4>1, <4>2, <4>4, Zenon DEF SetupMove
    <3> QED  BY <3>1
  <2> QED  BY <1>8, <2>2, <2>3
<1> QED  BY <1>2, <1>3, <1>4, <1>5, <1>6, <1>7, <1>8

LEMMA MoveKeepsInv ==
    ASSUME Inv, NEW from, NEW to, NEW msgs, SetupMove(from, to, msgs)
    PROVE  Inv'
<1>1. /\ LifecycleTypeOK /\ msgs \in Seq(SetupReports) /\ from \in Places /\ to \in Places
      /\ Moves(from, to, msgs) /\ from \notin Ended
  BY DEF Inv, SetupMove, Honest
<1>2. /\ setup = from /\ setup' = to /\ main' = main /\ errCh' = errCh /\ watcher' = watcher
      /\ updates' = updates /\ screen' = screen /\ main # "exited" /\ outbox = <<>>
      /\ outbox' = msgs \/ outbox' = <<>>
  BY <1>1 DEF Moves, Going, Reports, stopVars, screenVars
<1>3. LifecycleTypeOK'
  BY <1>1, <1>2 DEF LifecycleTypeOK
<1>4. ErrIsAnEnd' /\ MainOutlivesStart'
  BY <1>1, <1>2 DEF Inv, ErrIsAnEnd, MainOutlivesStart
<1>5. EnoughRoom'
  <2>1. Len(outbox') <= Len(msgs) /\ Len(outbox') \in Nat /\ Len(msgs) \in Nat /\ Len(outbox) = 0
    BY <1>1, <1>2
  <2>2. /\ Len(msgs) + YetToReport(to) <= YetToReport(from)
        /\ YetToReport(to) \in Nat /\ YetToReport(from) \in Nat /\ YetToQuit' = YetToQuit
        /\ YetToQuit \in Nat /\ Len(updates) \in Nat
    <3>1. Len(msgs) + YetToReport(to) <= YetToReport(from)
      BY Zenon DEF SetupMove
    <3>2. YetToReport(to) \in Nat /\ YetToReport(from) \in Nat
      BY <1>1, YetToReportIs, Zenon
    <3>3. Len(updates) \in Nat
      BY <1>1 DEF LifecycleTypeOK
    <3> QED  BY <1>2, <3>1, <3>2, <3>3 DEF YetToQuit
  <2> QED  BY <1>2, <2>1, <2>2 DEF Inv, EnoughRoom
<1>6. Truthful'
  BY <1>1, MoveKeepsTruth DEF Inv, SetupMove
<1> QED  BY <1>3, <1>4, <1>5, <1>6 DEF Inv

LEMMA PlacesAreNamed ==
    ASSUME LifecycleTypeOK
    PROVE  /\ Len(updates) \in Nat /\ Len(outbox) \in Nat
           /\ YetToReport(setup) \in Nat /\ YetToQuit \in 0 .. 1
           /\ QuitMsg \in Messages /\ SetupReports \subseteq Messages
<1>1. YetToReport(setup) \in Nat
  BY YetToReportIs, Zenon DEF LifecycleTypeOK
<1>2. Len(updates) \in Nat /\ Len(outbox) \in Nat
  BY DEF LifecycleTypeOK
<1> QED  BY <1>1, <1>2 DEF YetToQuit, Messages

LEMMA SetupKeepsInv ==
    ASSUME Inv, Setup
    PROVE  Inv'
<1>1. CASE SendReport
  <2>1. /\ LifecycleTypeOK /\ setup' = setup /\ main' = main /\ errCh' = errCh /\ watcher' = watcher
        /\ screen' = screen /\ mode' = mode /\ outbox # <<>> /\ Len(updates) < Capacity
        /\ updates' = Append(updates, Head(outbox)) /\ outbox' = Tail(outbox)
    BY <1>1 DEF Inv, SendReport, stopVars
  <2>2. outbox \in Seq(SetupReports) /\ updates \in Seq(Messages) /\ SetupReports \subseteq Messages
    BY <2>1, PlacesAreNamed DEF LifecycleTypeOK
  <2>3. /\ outbox' \in Seq(SetupReports) /\ updates' \in Seq(Messages)
        /\ Len(updates') = Len(updates) + 1 /\ Len(outbox') = Len(outbox) - 1
    BY <2>1, <2>2
  <2>4. LifecycleTypeOK'
    BY <2>1, <2>3 DEF LifecycleTypeOK
  <2>5. ErrIsAnEnd' /\ MainOutlivesStart'
    BY <2>1 DEF Inv, ErrIsAnEnd, MainOutlivesStart
  <2>6. EnoughRoom'
    BY <2>1, <2>3, PlacesAreNamed DEF Inv, EnoughRoom, YetToQuit
  <2>7. Truthful'
    BY <1>1, <2>1, SendKeepsPending, SilentKeepsTruth DEF Inv
  <2> QED  BY <2>4, <2>5, <2>6, <2>7 DEF Inv
<1>2. CASE SendErr
  <2>1. /\ LifecycleTypeOK /\ setup' = setup /\ main' = main /\ errCh' = setup /\ watcher' = watcher
        /\ screen' = screen /\ mode' = mode /\ updates' = updates /\ outbox' = outbox
        /\ setup \in Ended
    BY <1>2 DEF Inv, SendErr, stopVars, screenVars
  <2>2. LifecycleTypeOK'
    BY <2>1 DEF LifecycleTypeOK
  <2>3. ErrIsAnEnd' /\ MainOutlivesStart'
    BY <2>1 DEF Inv, ErrIsAnEnd, MainOutlivesStart
  <2>4. EnoughRoom'
    BY <2>1 DEF Inv, EnoughRoom, YetToQuit
  <2>5. Pending' = Pending
    BY <2>1 DEF Pending
  <2>6. Truthful'
    BY <2>1, <2>5, SilentKeepsTruth DEF Inv
  <2> QED  BY <2>2, <2>3, <2>4, <2>6 DEF Inv
<1>3. CASE \/ Synced \/ SyncFailed \/ Attached \/ Restored
           \/ AttachFailed \/ RestoreFailed \/ ReaderClosed \/ ReadFailed
  BY <1>3, SetupMoves, MoveKeepsInv
<1> QED  BY <1>1, <1>2, <1>3 DEF Setup

LEMMA WatcherKeepsInv ==
    ASSUME Inv, Signal \/ Watcher
    PROVE  Inv'
<1>1. CASE WatcherQuits
  <2>1. /\ LifecycleTypeOK /\ setup' = setup /\ main' = main /\ errCh' = errCh
        /\ screen' = screen /\ mode' = mode /\ outbox' = outbox
        /\ updates' = Append(updates, QuitMsg) /\ watcher = "quits" /\ watcher' = "over"
    BY <1>1 DEF Inv, WatcherQuits, setupVars
  <2>2. updates' \in Seq(Messages) /\ Len(updates') = Len(updates) + 1
    BY <2>1, PlacesAreNamed DEF LifecycleTypeOK
  <2>3. LifecycleTypeOK'
    BY <2>1, <2>2 DEF LifecycleTypeOK
  <2>4. ErrIsAnEnd' /\ MainOutlivesStart'
    BY <2>1 DEF Inv, ErrIsAnEnd, MainOutlivesStart
  <2>5. YetToQuit = 1 /\ YetToQuit' = 0
    BY <2>1 DEF YetToQuit
  <2>6. EnoughRoom'
    BY <2>1, <2>2, <2>5, PlacesAreNamed DEF Inv, EnoughRoom
  <2>7. Truthful'
    BY <1>1, QuitKeepsTruth DEF Inv
  <2> QED  BY <2>3, <2>4, <2>6, <2>7 DEF Inv
<1>2. CASE Signal \/ WatcherStops
  <2>1. /\ LifecycleTypeOK /\ setup' = setup /\ main' = main /\ errCh' = errCh
        /\ screen' = screen /\ mode' = mode /\ outbox' = outbox /\ updates' = updates
        /\ watcher' = watcher \/ (watcher = "waits" /\ watcher' = "quits")
    BY <1>2 DEF Inv, Signal, WatcherStops, setupVars, screenVars
  <2>2. LifecycleTypeOK'
    BY <2>1 DEF LifecycleTypeOK
  <2>3. ErrIsAnEnd' /\ MainOutlivesStart'
    BY <2>1 DEF Inv, ErrIsAnEnd, MainOutlivesStart
  <2>4. EnoughRoom'
    BY <2>1 DEF Inv, EnoughRoom, YetToQuit
  <2>5. Pending' = Pending
    BY <2>1 DEF Pending
  <2>6. Truthful'
    BY <2>1, <2>5, SilentKeepsTruth DEF Inv
  <2> QED  BY <2>2, <2>3, <2>4, <2>6 DEF Inv
<1> QED  BY <1>1, <1>2 DEF Watcher

LEMMA ScreenKeepsInv ==
    ASSUME Inv, Screen
    PROVE  Inv'
<1>1. /\ LifecycleTypeOK /\ setup' = setup /\ main' = main /\ errCh' = errCh
      /\ mode' = mode /\ outbox' = outbox /\ watcher' = watcher
  BY DEF Inv, Screen, ScreenReceives, PressEnter, PressCtrlC, ScreenDies,
         UnchangedButScreen, setupVars, stopVars
<1>2. ErrIsAnEnd' /\ MainOutlivesStart'
  BY <1>1 DEF Inv, ErrIsAnEnd, MainOutlivesStart
<1>3. CASE ScreenReceives
  <2>1. updates # <<>> /\ updates' = Tail(updates) /\ updates \in Seq(Messages)
    BY <1>1, <1>3 DEF ScreenReceives, LifecycleTypeOK
  <2>2. updates' \in Seq(Messages) /\ Len(updates') = Len(updates) - 1
    BY <2>1
  <2>3. screen' \in [running : BOOLEAN, ready : BOOLEAN, failed : BOOLEAN,
                     status : [Steps -> {"pending", "active", "done", "failed"}]]
    BY <1>1, <1>3, ReceiveTakes, UpdateIs
  <2>4. LifecycleTypeOK'
    BY <1>1, <2>2, <2>3 DEF LifecycleTypeOK
  <2>5. EnoughRoom'
    BY <1>1, <2>2, PlacesAreNamed DEF Inv, EnoughRoom, YetToQuit
  <2>6. Truthful'
    BY <1>1, <1>3, ReceiveKeepsTruth DEF Inv
  <2> QED  BY <1>2, <2>4, <2>5, <2>6 DEF Inv
<1>4. CASE PressEnter \/ PressCtrlC \/ ScreenDies
  <2>1. updates' = updates /\ screen' = [screen EXCEPT !.running = FALSE]
    BY <1>4 DEF PressEnter, PressCtrlC, ScreenDies, Ends
  <2>2. LifecycleTypeOK'
    BY <1>1, <2>1 DEF LifecycleTypeOK
  <2>3. EnoughRoom'
    BY <1>1, <2>1 DEF Inv, EnoughRoom, YetToQuit
  <2>4. Pending' = Pending
    BY <1>1, <2>1 DEF Pending
  <2>5. screen'.status = screen.status /\ screen'.ready = screen.ready /\ screen'.failed = screen.failed
    BY <1>1, <2>1 DEF LifecycleTypeOK
  <2>6. Truthful'
    BY <1>1, <2>4, <2>5, SilentKeepsTruth DEF Inv
  <2> QED  BY <1>2, <2>2, <2>3, <2>6 DEF Inv
<1> QED  BY <1>3, <1>4 DEF Screen

LEMMA MainKeepsInv ==
    ASSUME Inv, Main \/ UNCHANGED vars
    PROVE  Inv'
<1>1. /\ LifecycleTypeOK /\ setup' = setup /\ screen' = screen /\ mode' = mode
      /\ outbox' = outbox /\ updates' = updates /\ watcher' = watcher
  BY DEF Inv, Main, ScreenEnded, SelectSignal, ReceiveErr, vars, setupVars, stopVars, screenVars
<1>2. \/ main' = "exited" /\ errCh \in Ended /\ errCh' = "taken"
      \/ main' \in {"waiting", main} /\ errCh' = errCh
  BY DEF Main, ScreenEnded, SelectSignal, ReceiveErr, vars, setupVars, stopVars, screenVars
<1>3. LifecycleTypeOK'
  BY <1>1, <1>2 DEF LifecycleTypeOK
<1>4. "taken" \notin Ended
  BY DEF Ended, StartFailures
<1>5. ErrIsAnEnd' /\ MainOutlivesStart'
  BY <1>1, <1>2, <1>4 DEF Inv, ErrIsAnEnd, MainOutlivesStart
<1>6. EnoughRoom'
  BY <1>1 DEF Inv, EnoughRoom, YetToQuit
<1>7. Pending' = Pending
  BY <1>1 DEF Pending
<1>8. Truthful'
  BY <1>1, <1>7, SilentKeepsTruth DEF Inv
<1> QED  BY <1>3, <1>5, <1>6, <1>8 DEF Inv

\* The goroutine that listens tells nobody.
LEMMA ListenKeepsInv ==
    ASSUME Inv, Listen
    PROVE  Inv'
<1>1. /\ LifecycleTypeOK /\ setup' = setup /\ main' = main /\ errCh' = errCh /\ watcher' = watcher
      /\ screen' = screen /\ mode' = mode /\ outbox' = outbox /\ updates' = updates
  BY DEF Inv, Listen, stopVars, screenVars
<1>2. LifecycleTypeOK' /\ ErrIsAnEnd' /\ MainOutlivesStart'
  BY <1>1 DEF Inv, LifecycleTypeOK, ErrIsAnEnd, MainOutlivesStart
<1>3. EnoughRoom'
  BY <1>1 DEF Inv, EnoughRoom, YetToQuit
<1>4. Pending' = Pending
  BY <1>1 DEF Pending
<1>5. Truthful'
  BY <1>1, <1>4, SilentKeepsTruth DEF Inv
<1> QED  BY <1>2, <1>3, <1>5 DEF Inv

LEMMA NextInv == Inv /\ [Next]_vars => Inv'
BY SetupKeepsInv, ListenKeepsInv, WatcherKeepsInv, ScreenKeepsInv, MainKeepsInv DEF Next

\* The inductive invariant holds in every state of every behaviour.
LEMMA LifecycleInvariant == Spec => []Inv
<1>1. Init => Inv
  BY InitInv
<1>2. Inv /\ [Next]_vars => Inv'
  BY NextInv
<1> QED  BY <1>1, <1>2, PTL DEF Spec

\* Only Restored takes setup past the last step, and nobody takes back the call.
LEMMA ServerIsCalledInvariant == Spec => []ServerIsCalled
<1>1. Init => ServerIsCalled
  BY DEF Init, ServerIsCalled, Passed
<1>2. ServerIsCalled /\ [Next]_vars => ServerIsCalled'
  <2> SUFFICES ASSUME ServerIsCalled, [Next]_vars
               PROVE  ServerIsCalled'
    OBVIOUS
  <2>1. ASSUME NEW from, NEW to, NEW msgs, Moves(from, to, msgs), server' = server,
               2 \in Passed(to) => 2 \in Passed(from)
        PROVE  ServerIsCalled'
    BY <2>1 DEF ServerIsCalled, Moves
  <2>2. /\ 2 \notin Passed("attaching") /\ 2 \notin Passed("sync failed")
        /\ 2 \notin Passed("restoring") /\ 2 \notin Passed("attach failed")
        /\ 2 \notin Passed("restore failed") /\ 2 \in Passed("reading")
    BY DEF Passed, Steps
  <2>3. CASE Synced \/ SyncFailed
    BY <2>1, <2>2, <2>3 DEF Synced, SyncFailed
  <2>4. CASE Attached \/ AttachFailed \/ RestoreFailed
    BY <2>1, <2>2, <2>4 DEF Attached, AttachFailed, RestoreFailed
  <2>5. CASE ReaderClosed \/ ReadFailed
    BY <2>1, <2>2, <2>5 DEF ReaderClosed, ReadFailed
  <2>6. CASE Restored
    BY <2>6 DEF Restored, ServerIsCalled
  <2>7. CASE Listen
    BY <2>7 DEF Listen, ServerIsCalled
  <2>8. CASE \/ SendReport \/ SendErr \/ Signal \/ Watcher \/ Screen \/ Main \/ UNCHANGED vars
    <3>1. setup' = setup /\ server' = server
      BY <2>8 DEF SendReport, SendErr, Signal, Watcher, WatcherStops, WatcherQuits,
                  Screen, ScreenReceives, PressEnter, PressCtrlC, ScreenDies, UnchangedButScreen,
                  Main, ScreenEnded, SelectSignal, ReceiveErr, vars, setupVars
    <3> QED  BY <3>1 DEF ServerIsCalled
  <2> QED  BY <2>3, <2>4, <2>5, <2>6, <2>7, <2>8 DEF Next, Setup
<1> QED  BY <1>1, <1>2, PTL DEF Spec

-----------------------------------------------------------------------------
\* main returns only when the goroutine that ran StartInformer and ebpf.Start has
\* ended, so that its deferred closes have run: errCh can hold nothing before,
\* and nothing else ends main (main.go:53,100, loader.go:26-68).
THEOREM MainOutlivesStartCorrect == Spec => []MainOutlivesStart
<1>1. Inv => MainOutlivesStart
  BY DEF Inv
<1> QED  BY <1>1, LifecycleInvariant, PTL

\* No send to the Reporter's channel ever waits, even when nobody receives: seven
\* reports and one quit are all there can be, and the channel holds sixteen
\* (startup.go:39,42-50, main.go:93).
THEOREM ReporterNeverBlocksCorrect == Spec => []ReporterNeverBlocks
<1>1. Inv => ReporterNeverBlocks
  <2> SUFFICES ASSUME Inv
               PROVE  Len(updates) < Capacity
    BY DEF ReporterNeverBlocks
  <2>1. /\ Len(updates) \in Nat /\ Len(outbox) \in Nat
        /\ YetToReport(setup) \in Nat /\ YetToQuit \in 0 .. 1
    BY PlacesAreNamed DEF Inv
  <2> QED  BY <2>1 DEF Inv, EnoughRoom, Capacity
<1> QED  BY <1>1, LifecycleInvariant, PTL

\* The startup screen is behind setup and tells its steps in order: none done
\* before setup has passed it, none begun before the one above it is done, ready
\* when all are, failed for a failed sync alone, however the reports are delayed
\* in the channel (main.go:67-85, startup.go:95-135).  Of the dashboard it says
\* only that exporter.Start was called, and ready is never taken back.
THEOREM ScreenFollowsSetupCorrect == Spec => []ScreenFollowsSetup
<1>1. Inv /\ ServerIsCalled => ScreenFollowsSetup
  <2> SUFFICES ASSUME Inv, ServerIsCalled
               PROVE  ScreenFollowsSetup
    OBVIOUS
  <2>1. {i \in Steps : screen.status[i] = "done"} \subseteq Passed(setup)
    BY DEF Inv, Truthful, DoneIsPassed
  <2>2. \A i \in {1, 2} : screen.status[i] # "pending" => screen.status[i - 1] = "done"
    BY DEF Inv, Truthful, ToldInOrder
  <2>3. screen.status[2] = "done" => server # "off"
    BY <2>1 DEF ServerIsCalled, Steps
  <2>4. screen.ready => \A i \in Steps : screen.status[i] = "done"
    <3> SUFFICES ASSUME screen.ready, NEW i \in Steps
                 PROVE  screen.status[i] = "done"
      OBVIOUS
    <3>1. \A k \in 1 .. Len(Pending) : Pending[k] # StepMsg(i, "done")
      BY DEF Inv, Truthful, NothingAfterReady, StepMsg
    <3> QED  BY <3>1 DEF Inv, Truthful, ReadyAtTheEnd, PassedIsSaid
  <2>5. screen.failed => setup = "sync failed" /\ ~screen.ready
    <3>1. Passed("sync failed") # Steps
      BY DEF Passed, Steps
    <3> QED  BY <3>1 DEF Inv, Truthful, ReadyAtTheEnd, FailedToSync
  <2> QED  BY <2>1, <2>2, <2>3, <2>4, <2>5 DEF ScreenFollowsSetup, Passed
<1> QED  BY <1>1, LifecycleInvariant, ServerIsCalledInvariant, PTL
=============================================================================
