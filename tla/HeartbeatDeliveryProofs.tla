------------------------ MODULE HeartbeatDeliveryProofs ----------------------
(***************************************************************************)
(* What reaches the user of heartbeats, for any settings, replies, length  *)
(* of the day and run: nothing in quiet hours, no message twice within a   *)
(* day but behind a line that did not reach him, and nothing held back     *)
(* that was never delivered.                                               *)
(***************************************************************************)
EXTENDS HeartbeatDelivery, SequenceTheorems, TLAPS

Lines == Replies \cup MetaLines

HeartbeatMessage == [text : Lines, at : Nat, turnAt : Nat, behind : BOOLEAN]

Shape ==
    /\ config \in Configs
    /\ time \in Nat
    /\ turn \in [running : BOOLEAN, at : Nat]
    /\ lastText \in Lines \cup {NoText}
    /\ lastAt \in Nat
    /\ reached \in Seq(HeartbeatMessage)
    /\ dropped \in BOOLEAN

-----------------------------------------------------------------------------
(* The active hours.                                                       *)

\* Nothing but the remainder is a remainder.
LEMMA Remainder ==
  ASSUME NEW a \in Int, NEW q \in Int, NEW d \in Nat \ {0}, NEW r \in 0 .. d - 1,
         a = q * d + r
  PROVE  a % d = r
  OBVIOUS

\* What the remainder leaves is a multiple.
LEMMA Quotient ==
  ASSUME NEW a \in Int, NEW d \in Nat \ {0}
  PROVE  a % d \in 0 .. d - 1 /\ \E q \in Int : a = q * d + (a % d)
  <1>1. a % d \in 0 .. d - 1 /\ a \div d \in Int /\ a = (a \div d) * d + (a % d) OBVIOUS
  <1> QED BY <1>1

\* How long after a minute of the day another one comes.
LEMMA MinutesAfter ==
  ASSUME NEW d \in Nat \ {0}, NEW m \in 0 .. d - 1, NEW s \in 0 .. d - 1
  PROVE  (m - s) % d = IF s <= m THEN m - s ELSE m - s + d
  <1>1. CASE s <= m
    <2>1. m - s = 0 * d + (m - s) /\ m - s \in 0 .. d - 1 BY <1>1
    <2> QED BY <2>1, <1>1, Remainder
  <1>2. CASE m < s
    <2>1. m - s = -1 * d + (m - s + d) /\ m - s + d \in 0 .. d - 1 /\ -1 \in Int BY <1>2
    <2> QED BY <2>1, <1>2, Remainder
  <1> QED BY <1>1, <1>2

\* It depends on the minute of the day alone.
LEMMA MinuteOfDay ==
  ASSUME NEW d \in Nat \ {0}, NEW t \in Nat, NEW s \in 0 .. d - 1
  PROVE  (t - s) % d = ((t % d) - s) % d
  <1>1. PICK q \in Int, m \in 0 .. d - 1 : m = t % d /\ t = q * d + m
    <2>1. t \in Int OBVIOUS
    <2> QED BY <2>1, Quotient
  <1>2. PICK p \in Int, r \in 0 .. d - 1 : r = (m - s) % d /\ m - s = p * d + r
    <2>1. m - s \in Int OBVIOUS
    <2> QED BY <2>1, Quotient
  <1>3. t - s = (q + p) * d + r BY <1>1, <1>2
  <1>4. (t - s) % d = r
    <2>1. t - s \in Int /\ q + p \in Int OBVIOUS
    <2> QED BY <2>1, <1>3, Remainder
  <1> QED BY <1>1, <1>2, <1>4

\* The time is in the window: going on from its start, before its end.
InWindow(t) ==
    config.windowed => (t - config.start) % Day < (config.end - config.start) % Day

\* What the gate lets through is in the window, over midnight too.
LEMMA GateOpensInWindow ==
  ASSUME config \in Configs, NEW t \in Nat, IsWithinActiveHours(t % Day)
  PROVE  InWindow(t)
  <1>1. /\ config.start \in 0 .. Day - 1 /\ config.end \in 0 .. Day - 1
        /\ Day \in Nat \ {0}
    BY HeartbeatAssumption DEF HeartbeatAssumption, Settings
  <1>2. PICK m \in 0 .. Day - 1 : m = t % Day BY <1>1, Quotient
  <1>3. /\ (t - config.start) % Day
             = IF config.start <= m THEN m - config.start ELSE m - config.start + Day
        /\ (config.end - config.start) % Day
             = IF config.start <= config.end THEN config.end - config.start
               ELSE config.end - config.start + Day
    <2>1. \A x, s \in 0 .. Day - 1 :
             (x - s) % Day = IF s <= x THEN x - s ELSE x - s + Day
      BY <1>1, MinutesAfter
    <2>2. (t - config.start) % Day = (m - config.start) % Day BY <1>1, <1>2, MinuteOfDay
    <2> QED BY <1>1, <2>1, <2>2
  <1>4. config.windowed =>
          /\ config.start # config.end
          /\ IF config.start < config.end
             THEN config.start <= m /\ m < config.end
             ELSE config.start <= m \/ m < config.end
    BY <1>2 DEF IsWithinActiveHours
  <1> QED BY <1>1, <1>2, <1>3, <1>4 DEF InWindow

-----------------------------------------------------------------------------
(* The state.                                                              *)

\* The last two of one message more.
LEMMA LastTwoOf ==
  ASSUME NEW S, NEW s \in Seq(S), Len(s) <= 2, NEW e \in S
  PROVE  LET two == LastTwo(Append(s, e))
         IN  /\ two \in Seq(S) /\ Len(two) \in 1 .. 2 /\ two[Len(two)] = e
             /\ \A i \in DOMAIN two : two[i] = e \/ \E j \in DOMAIN s : two[i] = s[j]
             /\ Len(two) = 2 => s # <<>> /\ two[1] = s[Len(s)] /\ two[2] = e
  <1>1. PICK all \in Seq(S) :
          /\ all = Append(s, e) /\ Len(all) = Len(s) + 1
          /\ \A i \in 1 .. Len(s) : all[i] = s[i]
          /\ all[Len(s) + 1] = e
    BY AppendProperties
  <1>2. Len(s) \in {0, 1, 2} /\ DOMAIN s = 1 .. Len(s)
    <2>1. Len(s) \in Nat /\ DOMAIN s = 1 .. Len(s) BY LenProperties
    <2>2. PICK n \in Nat : n = Len(s) BY <2>1
    <2> QED BY <2>1, <2>2
  <1>3. CASE Len(s) = 2
    <2>1. PICK two \in Seq(S) : two = LastTwo(all) /\ two = Tail(all)
      <3>1. Len(all) = 3 BY <1>1, <1>3
      <3>2. Tail(all) \in Seq(S) BY <3>1
      <3>3. LastTwo(all) = Tail(all)
        <4>1. Len(all) > 2 BY <3>1
        <4> QED BY <4>1 DEF LastTwo
      <3> QED BY <3>2, <3>3
    <2>2. Len(two) = 2 /\ DOMAIN two = {1, 2} /\ two[1] = s[2] /\ two[2] = e
      BY <2>1, <1>1, <1>3
    <2>3. two = LastTwo(Append(s, e)) BY <2>1, <1>1
    <2>4. /\ \A i \in DOMAIN two : two[i] = e \/ \E k \in DOMAIN s : two[i] = s[k]
          /\ s # <<>>
      <3>1. 2 \in DOMAIN s BY <1>2, <1>3
      <3>2. s # <<>> BY <3>1
      <3> QED BY <3>1, <3>2, <2>2
    <2>5. /\ two \in Seq(S) /\ Len(two) \in 1 .. 2 /\ two[Len(two)] = e
          /\ two[1] = s[Len(s)] /\ two[2] = e
      BY <2>1, <2>2, <1>3
    <2> QED BY <2>3, <2>4, <2>5
  <1>4. CASE Len(s) # 2
    <2>1. all = LastTwo(Append(s, e))
      <3>1. Len(Append(s, e)) \in {1, 2} BY <1>1, <1>2, <1>4
      <3>2. ~(Len(Append(s, e)) > 2) BY <3>1
      <3> QED BY <3>2, <1>1 DEF LastTwo
    <2>2. /\ DOMAIN all = 1 .. Len(s) + 1 /\ Len(all) \in 1 .. 2 /\ all[Len(all)] = e
          /\ Len(all) = 2 => s # <<>> /\ all[1] = s[Len(s)] /\ all[2] = e
      BY <1>1, <1>2, <1>4
    <2>3. \A i \in DOMAIN all : all[i] = e \/ \E k \in DOMAIN s : all[i] = s[k]
      BY <2>2, <1>1, <1>2
    <2> QED BY <2>1, <2>2, <2>3
  <1> QED BY <1>3, <1>4

\* The last message that reached the user.
Latest == reached[Len(reached)]

(***************************************************************************)
(* The invariant: what reached the user and the turn that runs began in    *)
(* the window; what is remembered of a reply is the last message that      *)
(* reached the user, and unless a line that did not reach him came after   *)
(* it, that message is remembered.                                         *)
(***************************************************************************)
Quiet ==
    /\ turn.running => InWindow(turn.at)
    /\ \A i \in DOMAIN reached : InWindow(reached[i].turnAt)

Remembered ==
    config.target = "outbound" /\ lastText \in Replies =>
        reached # <<>> /\ Latest.text = lastText /\ Latest.at = lastAt

NothingForgotten ==
    /\ config.target \in {"none", "unset"} => reached = <<>>
    /\ config.target = "outbound" /\ reached # <<>> /\ ~dropped =>
           Latest.text = lastText /\ Latest.at = lastAt
    /\ RepeatsNeedADroppedLine

Inv == Shape /\ Len(reached) <= 2 /\ Quiet /\ Remembered /\ NothingForgotten

(***************************************************************************)
(* A step delivers a line of the running turn, or changes nothing of what  *)
(* reached the user.                                                       *)
(***************************************************************************)
Delivers(text) ==
    /\ text \in Lines /\ turn.running
    /\ Delivered(text)
    /\ turn' \in {turn, NoTurn}
    /\ UNCHANGED <<config, time>>

Passively ==
    /\ turn' \in {turn, NoTurn} \/ HeartbeatStarts
    /\ time' \in {time, time + 1}
    /\ UNCHANGED <<config, lastText, lastAt, reached, dropped>>

\* There are no other steps.
LEMMA StepKinds ==
  ASSUME [Next]_vars
  PROVE  Passively \/ \E text \in Lines : Delivers(text)
  <1>1. ASSUME NEW text, text \in Lines \cup {Token},
               Intercepts(text) \/ SendFails(text), turn.running,
               turn' \in {turn, NoTurn}, UNCHANGED <<config, time>>
        PROVE  Passively \/ \E t \in Lines : Delivers(t)
    <2>1. CASE text = Token \/ SendFails(text) \/ Duplicate(text)
      BY <1>1, <2>1, HeartbeatAssumption
         DEF Intercepts, SendFails, Duplicate, Delivered, Passively
    <2>2. CASE text # Token /\ Delivered(text)
      <3>1. text \in Lines BY <1>1, <2>2
      <3>2. Delivers(text) BY <1>1, <2>2, <3>1 DEF Delivers
      <3> QED BY <3>1, <3>2
    <2> QED BY <1>1, <2>1, <2>2 DEF Intercepts
  <1>2. CASE \E line \in UsageLines \cup CompactionLines : EmitStatus(line)
    BY <1>1, <1>2 DEF EmitStatus, Lines, MetaLines
  <1>3. CASE \E text \in {Token, NoResponse} \cup Replies : EmitReply(text)
    BY <1>1, <1>3, HeartbeatAssumption DEF EmitReply, Lines, MetaLines, HeartbeatAssumption
  <1>4. CASE HeartbeatSkipped \/ TurnFails \/ Clock \/ UNCHANGED vars
    BY <1>4 DEF HeartbeatSkipped, TurnFails, Clock, Passively, vars
  <1>5. CASE HeartbeatStarts BY <1>5 DEF HeartbeatStarts, Passively
  <1> QED BY <1>2, <1>3, <1>4, <1>5 DEF Next

\* The settings and the times have their types.
LEMMA SettingsType ==
  ASSUME Shape
  PROVE  /\ config \in Settings /\ Day \in Nat \ {0}
         /\ config.target \in {"cli", "none", "outbound", "unset"}
  BY HeartbeatAssumption DEF Shape, HeartbeatAssumption, Settings

\* Nothing is delivered: only a turn may begin, in the window.
LEMMA PassiveStep == Inv /\ Passively => Inv'
  <1> SUFFICES ASSUME Inv, Passively PROVE Inv' OBVIOUS
  <1>1. Shape'
    <2>1. NoTurn \in [running : BOOLEAN, at : Nat] BY DEF NoTurn
    <2>2. HeartbeatStarts => turn' \in [running : BOOLEAN, at : Nat]
      BY DEF HeartbeatStarts, Inv, Shape
    <2> QED BY <2>1, <2>2 DEF Inv, Shape, Passively
  <1>2. Len(reached') <= 2 /\ Remembered' /\ NothingForgotten'
    BY DEF Inv, Passively, Remembered, NothingForgotten, Latest, RepeatsNeedADroppedLine
  <1>3. \A t : InWindow(t)' <=> InWindow(t) BY DEF InWindow, Passively
  <1>4. turn'.running => InWindow(turn'.at)
    <2>1. CASE turn' = turn BY <2>1 DEF Inv, Quiet
    <2>2. CASE turn' = NoTurn BY <2>2 DEF NoTurn
    <2>3. CASE HeartbeatStarts
      <3>1. config \in Configs /\ time \in Nat BY DEF Inv, Shape
      <3>2. IsWithinActiveHours(time % Day) /\ turn'.at = time
        BY <2>3 DEF HeartbeatStarts
      <3> QED BY <3>1, <3>2, GateOpensInWindow
    <2> QED BY <2>1, <2>2, <2>3 DEF Passively
  <1>5. Quiet' BY <1>3, <1>4 DEF Inv, Quiet, Passively
  <1> QED BY <1>1, <1>2, <1>5 DEF Inv

\* A line is delivered.
LEMMA DeliveryStep == ASSUME Inv, NEW text \in Lines, Delivers(text) PROVE Inv'
  <1>1. /\ config \in Configs /\ time \in Nat /\ lastAt \in Nat
        /\ turn \in [running : BOOLEAN, at : Nat]
        /\ reached \in Seq(HeartbeatMessage) /\ Len(reached) <= 2
        /\ dropped \in BOOLEAN
    BY DEF Inv, Shape
  <1>2. /\ Day \in Nat \ {0}
        /\ config.target \in {"cli", "none", "outbound", "unset"}
    BY SettingsType DEF Inv
  <1> DEFINE message == Message(text)
  <1>3. message \in HeartbeatMessage BY <1>1 DEF HeartbeatMessage, Message
  <1>4. /\ UNCHANGED <<config, time>> /\ turn' \in {turn, NoTurn} /\ turn.running
        /\ ~IsDup(text)
        /\ IF config.target \in {"cli", "outbound"} /\ Passes(text)
           THEN reached' = LastTwo(Append(reached, message)) /\ dropped' = FALSE
           ELSE reached' = reached /\ dropped' = TRUE
        /\ IF config.target = "cli" THEN UNCHANGED <<lastText, lastAt>>
                                    ELSE lastText' = text /\ lastAt' = time
    BY DEF Delivers, Delivered, Reaches
  <1>5. text \in Replies => Passes(text)
    BY HeartbeatAssumption DEF HeartbeatAssumption, Passes
  <1>6. message.text = text /\ message.at = time /\ message.turnAt = turn.at
          /\ message.behind = dropped
    BY DEF Message
  <1> HIDE DEF message
  <1>7. PICK two \in Seq(HeartbeatMessage) :
          /\ two = LastTwo(Append(reached, message))
          /\ Len(two) \in 1 .. 2 /\ two[Len(two)] = message
          /\ \A i \in DOMAIN two : two[i] = message \/ \E j \in DOMAIN reached : two[i] = reached[j]
          /\ Len(two) = 2 => reached # <<>> /\ two[1] = Latest /\ two[2] = message
    BY <1>1, <1>3, LastTwoOf DEF Latest
  <1>8. reached' \in {two, reached} BY <1>4, <1>7
  <1>9. Shape' /\ Len(reached') <= 2
    <2>1. NoTurn \in [running : BOOLEAN, at : Nat] BY DEF NoTurn
    <2>2. Len(two) <= 2 BY <1>7
    <2> QED BY <2>1, <2>2, <1>1, <1>4, <1>8 DEF Inv, Shape
  <1>10. Quiet'
    <2>1. \A t : InWindow(t)' <=> InWindow(t) BY <1>4 DEF InWindow
    <2>2. InWindow(turn.at) /\ \A i \in DOMAIN reached : InWindow(reached[i].turnAt)
      BY <1>4 DEF Inv, Quiet
    <2>3. \A i \in DOMAIN two : InWindow(two[i].turnAt) BY <1>6, <1>7, <2>2
    <2>4. \A i \in DOMAIN reached' : InWindow(reached'[i].turnAt) BY <1>8, <2>2, <2>3
    <2>5. turn'.running => InWindow(turn'.at) BY <1>4, <2>2 DEF NoTurn
    <2> QED BY <2>1, <2>4, <2>5 DEF Quiet
  <1>11. two # <<>>
    <2>1. Len(two) # 0 BY <1>7
    <2> QED BY <2>1
  <1>12. Remembered'
    <2>1. SUFFICES ASSUME config.target = "outbound", lastText' \in Replies
                   PROVE  reached' # <<>> /\ Latest'.text = lastText' /\ Latest'.at = lastAt'
      BY <1>4 DEF Remembered
    <2>2. lastText' = text /\ lastAt' = time /\ reached' = two
      BY <2>1, <1>4, <1>5, <1>7
    <2>3. Latest' = message BY <2>2, <1>7 DEF Latest
    <2> QED BY <2>2, <2>3, <1>6, <1>11
  <1>13. NothingForgotten'
    <2>1. /\ config.target \in {"none", "unset"} => reached = <<>>
          /\ config.target = "outbound" /\ reached # <<>> /\ ~dropped =>
                 Latest.text = lastText /\ Latest.at = lastAt
          /\ RepeatsNeedADroppedLine
      BY DEF Inv, NothingForgotten
    <2>2. config.target \in {"none", "unset"} => reached' = <<>> BY <1>4, <2>1
    <2>3. config.target = "outbound" /\ ~dropped' =>
              Latest'.text = lastText' /\ Latest'.at = lastAt'
      <3>1. SUFFICES ASSUME config.target = "outbound", ~dropped'
                     PROVE  Latest' = message /\ lastText' = text /\ lastAt' = time
        BY <1>6
      <3>2. reached' = two BY <3>1, <1>4, <1>7
      <3> QED BY <3>1, <3>2, <1>4, <1>7 DEF Latest
    <2>4. RepeatsNeedADroppedLine'
      <3>1. CASE reached' = reached
        BY <3>1, <2>1, <1>4 DEF RepeatsNeedADroppedLine
      <3>2. CASE reached' = two
        <4>1. SUFFICES ASSUME config.target # "cli", Len(two) = 2, two[1].text = two[2].text,
                              ~two[2].behind
                       PROVE  two[2].at - two[1].at >= Day
          BY <3>2, <1>4 DEF RepeatsNeedADroppedLine
        <4>2. config.target = "outbound"
          <5>1. Len(<<>>) # 2 OBVIOUS
          <5> QED BY <5>1, <4>1, <3>2, <2>2, <1>2
        <4>3. reached # <<>> /\ two[1] = Latest /\ two[2] = message BY <4>1, <1>7
        <4>4. ~dropped BY <4>1, <4>3, <1>1, <1>6
        <4>5. Latest.text = lastText /\ Latest.at = lastAt BY <4>2, <4>3, <4>4, <2>1
        <4>6. text = lastText BY <4>1, <4>3, <4>5, <1>6
        <4>7. ~(time - lastAt < Day) BY <4>1, <4>6, <1>4 DEF IsDup
        <4>8. two[2].at = time /\ two[1].at = lastAt BY <4>3, <4>5, <1>6
        <4> QED BY <4>7, <4>8, <1>1, <1>2
      <3> QED BY <3>1, <3>2, <1>8
    <2> QED BY <2>2, <2>3, <2>4, <1>4 DEF NothingForgotten
  <1> QED BY <1>9, <1>10, <1>12, <1>13 DEF Inv

\* Every step keeps the invariant.
LEMMA InvStep == Inv /\ [Next]_vars => Inv'
  BY StepKinds, PassiveStep, DeliveryStep

\* It holds when the process starts.
LEMMA InitInv == Init => Inv
  <1> SUFFICES ASSUME Init PROVE Inv OBVIOUS
  <1>1. Day \in Nat \ {0} /\ NoText \notin Lines
    BY HeartbeatAssumption DEF HeartbeatAssumption, Lines
  <1>2. /\ config \in Configs /\ time \in Nat /\ turn = NoTurn /\ ~turn.running
        /\ lastText = NoText /\ lastAt = 0 /\ reached = <<>>
    BY <1>1 DEF Init, NoTurn
  <1>3. reached \in Seq(HeartbeatMessage) /\ Len(reached) = 0 /\ DOMAIN reached = {}
    BY <1>2
  <1>4. Shape
    <2>1. dropped \in BOOLEAN BY DEF Init
    <2> QED BY <2>1, <1>2, <1>3 DEF Shape, NoTurn
  <1>5. Quiet BY <1>2, <1>3 DEF Quiet
  <1>6. Remembered BY <1>1, <1>2 DEF Remembered, Lines
  <1>7. NothingForgotten BY <1>2, <1>3 DEF NothingForgotten, RepeatsNeedADroppedLine
  <1> QED BY <1>3, <1>4, <1>5, <1>6, <1>7 DEF Inv

\* The invariant always holds.
LEMMA InvAlways == Spec => []Inv
  BY InitInv, InvStep, PTL DEF Spec

\* The user hears of no heartbeat that fired outside the active hours, for any
\* window, within a day, over midnight or empty, and any day (hours.go).
THEOREM QuietHours == Spec => []QuietHoursKept
  <1>1. Inv => QuietHoursKept BY DEF Inv, Quiet, InWindow, QuietHoursKept
  <1> QED BY <1>1, InvAlways, PTL

\* What is held back as a repetition is the last message that reached the user:
\* no failed send and no other text is taken for it (sched.go: intercept).
THEOREM DeliveredIsRemembered == Spec => []OnlyDeliveredIsRemembered
  <1>1. Inv => OnlyDeliveredIsRemembered
    <2> SUFFICES ASSUME Inv, config.target = "outbound", lastText \in Replies
                 PROVE  \E i \in DOMAIN reached :
                            reached[i].text = lastText /\ reached[i].at = lastAt
      BY DEF OnlyDeliveredIsRemembered
    <2>1. reached # <<>> /\ Latest.text = lastText /\ Latest.at = lastAt
      BY DEF Inv, Remembered
    <2>2. reached \in Seq(HeartbeatMessage) BY DEF Inv, Shape
    <2>3. Len(reached) \in DOMAIN reached BY <2>1, <2>2
    <2> QED BY <2>1, <2>3 DEF Latest
  <1> QED BY <1>1, InvAlways, PTL

\* No message, a reply or not, reaches a messaging channel twice in a row
\* within a day, unless a line that the channel dropped was remembered in
\* between: for any settings, replies, status lines, failed sends and length of
\* the day (sched.go: intercept).
THEOREM RepetitionsExplained == Spec => []RepeatsNeedADroppedLine
  <1>1. Inv => RepeatsNeedADroppedLine BY DEF Inv, NothingForgotten
  <1> QED BY <1>1, InvAlways, PTL
=============================================================================
